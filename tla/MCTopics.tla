------------------------------ MODULE MCTopics ------------------------------
(***************************************************************************)
(* Constants for model-checking Topics: every hierarchical pattern of up   *)
(* to four characters and some longer ones, every anchored regex of up to  *)
(* three tokens, plain names with and without a source, against every      *)
(* subject of up to four characters and publishers with roots.             *)
(***************************************************************************)
EXTENDS Topics

MCCharacters == {"a", "/", "_", "M"}

SomeText(alphabet, n) == BoundedSeq(alphabet, n) \ {<<>>}

Hierarchical ==
    {[wcType |-> "WS", source |-> None, topic |-> t] :
        t \in SomeText({"a", "/", "*", "."}, 4) \cup
              {<<"a", "/", "*", "/", ".">>, <<"a", "/", "*", "/", "a">>,
               <<"a", "*", "a", "/", ".">>, <<"a", "/", "*", "/", "*">>,
               <<"_", "*">>, <<"_", "*", "/", ".">>}}

Regexes ==
    {[wcType |-> "POSIX", source |-> None, topic |-> <<"^">> \o t] :
        t \in SomeText({"a", "/", "[^/]+", ".*"}, 3)} \cup
    {[wcType |-> "POSIX", source |-> None, topic |-> t] :
        t \in {<<".*">>, <<"a", "/", ".*">>, <<"a", "/", "[^/]+">>}}

Plain ==
    {[wcType |-> w, source |-> None, topic |-> t] :
        w \in {"none", "unspecified"}, t \in SomeText({"a", "/", "."}, 2)} \cup
    {[wcType |-> "none", source |-> s, topic |-> t] :
        s \in {<<>>, <<"a">>, <<"a", "a", "a", "a">>}, t \in SomeText({"a", "/"}, 2)} \cup
    {[wcType |-> "none", source |-> s, topic |-> t] :
        s \in {None, <<"_">>, <<"_", "M">>},
        t \in {<<"a">>, <<"_", "a">>, <<"_", ".">>, <<"_", ".", "a">>, <<".", "a">>, <<"a", ".", "a">>,
               <<"_", "M", ".", "a", ".", "/">>, <<"a", "a", "a", "a">>}}

MCSubscriptions == Hierarchical \cup Regexes \cup Plain

MCPublications ==
    {[root |-> None, source |-> None, topic |-> t] :
        t \in SomeText({"a", "_", "/"}, 4) \cup SomeText({"a", "/", "."}, 2)} \cup
    {[root |-> r, source |-> s, topic |-> t] :
        r \in {None, Dictionary, <<"_">>}, s \in {<<>>, <<"a">>, <<"a", "a", "a", "a">>},
        t \in SomeText({"a", "/"}, 2)}

MCDictionary == <<"_", "M">>
MCReplyHandlePrefix == <<"_", "a">>
=============================================================================

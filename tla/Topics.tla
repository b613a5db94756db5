------------------------------- MODULE Topics -------------------------------
(***************************************************************************)
(* Who hears what: from the topic that an application subscribes to, to    *)
(* the subject key, the regex and the prefix that the bridge makes of it,  *)
(* and from the root, source and topic of a publisher to the subject it    *)
(* sends, up to the comparison of the two in dispatchSubMsg.  A subject    *)
(* that begins like a reply handle never gets there.                       *)
(*                                                                         *)
(* A text is a sequence of tokens.  A token is one character, or one of    *)
(* the pieces of extended regular expressions that the code puts into a    *)
(* pattern: "[^/]+", "[^/]*", "[^_]", ".*".  Texts are compared token by   *)
(* token, which is exact as long as no subject spells one of the pieces.   *)
(* In a regex the token "." stands for any character, as it does in POSIX. *)
(***************************************************************************)
EXTENDS Integers, Sequences, SequencesExt, FiniteSetsExt

CONSTANTS Characters,    \* the characters of texts, those with a meaning in a regex aside
          Subscriptions, \* what applications subscribe to: [wcType, topic, source]
          Publications,  \* what publishers are created for: [root, source, topic]
          None,          \* a NULL root, source or topic
          Dictionary,    \* the root "_MDDD"
          MaxSubject,    \* MAX_SUBJECT_LENGTH
          ReplyHandlePrefix  \* "_INBOX", the beginning of every reply handle

Pieces == {"[^/]+", "[^/]*", "[^_]", ".*"}
Special == {".", "^", "$", "*"} \cup Pieces

(* A text is a sequence of tokens, and a part of a name a text or nothing. *)
Texts == Seq(Characters \cup Special)
Parts == Texts \cup {None}

(* A name in full: the parts that are there, separated by periods.         *)
Dot(name, part) ==
    CASE part = None -> name
      [] part # None /\ name = <<>> -> part
      [] OTHER -> name \o <<".">> \o part

Joined(root, source, topic) == Dot(Dot(Dot(<<>>, root), source), topic)

(* A root and a source fit the buffer of generateSubjectKey: beyond that   *)
(* its count of the bytes that remain wraps around.                        *)
ASSUME TopicsAssumption ==
    /\ MaxSubject \in Nat \ {0}
    /\ None \notin Texts /\ Dictionary \in Texts /\ ReplyHandlePrefix \in Texts
    /\ \A s \in Subscriptions : /\ s.source \in Parts /\ s.topic \in Texts
                                /\ Len(Joined(None, s.source, None)) <= MaxSubject
    /\ \A p \in Publications : /\ p.root \in Parts /\ p.source \in Parts /\ p.topic \in Parts
                               /\ Len(Joined(p.root, p.source, None)) <= MaxSubject

VARIABLES stage,        \* what has been done
          sub,          \* the subscription
          mIsWildcard,  \* its kind
          mOrigRegex,   \* its regex, <<>> for a plain subscription
          mSubjectKey,  \* its subject key
          pub,          \* the publisher
          mSubject,     \* the subject that it sends
          queued        \* whether the message was queued for the subscription

subVars == <<sub, mIsWildcard, mOrigRegex, mSubjectKey>>
topicsVars == <<stage, subVars, pub, mSubject, queued>>

-----------------------------------------------------------------------------
(* Plausible errors in the definitions that follow.                        *)

AppendUnseparated(key, part) ==
    IF part = None THEN key
    ELSE [text |-> key.text \o SubSeq(part, 1, Min({Len(part), MaxSubject - 1 - key.length})),
          length |-> key.length + Len(part)]

PrefixPastWildcard(regex) ==
    {IF regex # <<>> /\ Head(regex) = "^" THEN Tail(regex) ELSE regex}

NotAnchoredAtEnd(regex, found) == [ok |-> found, regex |-> regex]

-----------------------------------------------------------------------------
(* generateSubjectKey: each part is printed behind the previous ones, after *)
(* a period unless it is the first, as far as the buffer goes.  The length  *)
(* advances by the whole part even when it was cut.                         *)
AppendPart(key, part) ==
    IF part = None THEN key
    ELSE LET piece == IF key.length = 0 THEN part ELSE <<".">> \o part
             shown == Min({Len(piece), MaxSubject - 1 - key.length})
         IN  [text |-> key.text \o SubSeq(piece, 1, shown),
              length |-> key.length + Len(piece)]

GenerateSubjectKey(root, source, topic) ==
    LET empty == [text |-> <<>>, length |-> 0]
    IN  AppendPart(AppendPart(AppendPart(empty, root), source), topic).text

(* A publisher with a root loses its topic, unless it publishes the        *)
(* dictionary.                                                             *)
BuildSendSubject(p) ==
    GenerateSubjectKey(p.root, p.source,
                       IF p.root \in {None, Dictionary} THEN p.topic ELSE None)

-----------------------------------------------------------------------------
(* ws2posix.  The string that receives the regex is subscriber::topic_     *)
(* itself: without a "*" the topic is appended to what is already there.   *)

ReplaceStars(text) == ReplaceAll(text, "*", "[^/]+")

(* The trailing "/." and the anchors.                                      *)
Anchored(regex, found) ==
    IF IsSuffix(<<"/", ".">>, regex)
    THEN LET cut == SubSeq(regex, 1, Len(regex) - 2) \o <<".*">>
         IN  [ok |-> TRUE,
              regex |-> CASE Len(regex) = 2 -> <<"^", "[^_]", ".*">>
                          [] Len(regex) > 2 /\ Head(cut) = "^" -> cut
                          [] OTHER -> <<"^">> \o cut]
    ELSE [ok |-> found, regex |-> IF found THEN Append(regex, "$") ELSE regex]

Ws2Posix(wsTopic) ==
    LET found == Contains(wsTopic, "*")
    IN  Anchored(CASE ~found -> wsTopic \o wsTopic
                   [] found /\ Head(wsTopic) = "*" ->
                        <<"^", "[^_]", "[^/]*">> \o ReplaceStars(Tail(wsTopic))
                   [] OTHER -> <<"^">> \o ReplaceStars(wsTopic),
                 found)

-----------------------------------------------------------------------------
(* createWildCard: the prefix for libzmq is the regex without its anchor,  *)
(* up to the first "[^/]+" or, if there is none, without a trailing ".*"   *)
(* that follows a "/".  The test for "/.*" looks at the three last         *)
(* characters; of a regex that is just ".*" it reads one byte before the   *)
(* buffer, which may be anything.                                          *)
WildcardPrefixes(regex) ==
    LET prefix == IF regex # <<>> /\ Head(regex) = "^" THEN Tail(regex) ELSE regex
        pos == SelectInSeq(prefix, LAMBDA t : t = "[^/]+")
    IN  CASE pos # 0 -> {SubSeq(prefix, 1, pos - 1)}
          [] pos = 0 /\ IsSuffix(<<"/", ".*">>, prefix) -> {Front(prefix)}
          [] pos = 0 /\ regex = <<".*">> -> {<<".*">>, <<>>}
          [] OTHER -> {prefix}

(* regexec: m[i, j] says that the regex from its i-th token on matches a   *)
(* beginning of the subject from its j-th character on.                    *)
RegexMatchesFrom(regex, subject, start) ==
    LET One(t, c) == CASE t \in {".", ".*"} -> TRUE
                       [] t \in {"[^/]+", "[^/]*"} -> c # "/"
                       [] t = "[^_]" -> c # "_"
                       [] OTHER -> t = c
        m[i \in 1..(Len(regex) + 1), j \in 1..(Len(subject) + 1)] ==
            IF i > Len(regex) THEN TRUE
            ELSE LET t == regex[i]
                     eats == j <= Len(subject) /\ One(t, subject[j])
                 IN  CASE t = "^" -> j = 1 /\ m[i + 1, j]
                       [] t = "$" -> j = Len(subject) + 1 /\ m[i + 1, j]
                       [] t \in {".*", "[^/]*"} -> m[i + 1, j] \/ (eats /\ m[i, j + 1])
                       [] t = "[^/]+" -> eats /\ (m[i + 1, j + 1] \/ m[i, j + 1])
                       [] OTHER -> eats /\ m[i + 1, j + 1]
    IN  m[1, start]

RegexMatches(regex, subject) ==
    \E start \in 1..(Len(subject) + 1) : RegexMatchesFrom(regex, subject, start)

(* matchWildcards: the prefix first, then the regex.                       *)
MatchWildcards(key, regex, subject) ==
    IsPrefix(key, subject) /\ RegexMatches(regex, subject)

-----------------------------------------------------------------------------
TopicsInit ==
    /\ stage = "start"
    /\ sub = None
    /\ mIsWildcard = FALSE
    /\ mOrigRegex = <<>>
    /\ mSubjectKey = <<>>
    /\ pub = None
    /\ mSubject = <<>>
    /\ queued = FALSE

(* subscriber::start with a topic that is not specified to be a wildcard:  *)
(* one with a special character is taken for a POSIX regex.                *)
Guess(s) ==
    IF s.wcType = "unspecified" /\ \E t \in ToSet(s.topic) : t \in Special
    THEN "POSIX" ELSE s.wcType

Created(s, wildcard, regex, key) ==
    /\ stage' = "subscribed"
    /\ sub' = s
    /\ mIsWildcard' = wildcard
    /\ mOrigRegex' = regex
    /\ mSubjectKey' = key
    /\ UNCHANGED <<pub, mSubject, queued>>

(* mamaSubscription_createBasic, that is, zmqBridgeMamaSubscription_create. *)
CreateSubscription(s) ==
    /\ stage = "start"
    /\ Guess(s) \in {"none", "unspecified"}
    /\ Created(s, FALSE, <<>>, GenerateSubjectKey(None, s.source, s.topic))

(* zmqBridgeMamaSubscription_createWildCard with a regex as it is given,   *)
CreateWildCard(s) ==
    /\ stage = "start"
    /\ Guess(s) = "POSIX"
    /\ \E prefix \in WildcardPrefixes(s.topic) :
          Created(s, TRUE, s.topic, GenerateSubjectKey(None, None, prefix))

(* and with what ws2posix makes of a hierarchical topic.                   *)
CreateHierarchical(s) ==
    /\ stage = "start"
    /\ Guess(s) = "WS"
    /\ Ws2Posix(s.topic).ok
    /\ \E prefix \in WildcardPrefixes(Ws2Posix(s.topic).regex) :
          Created(s, TRUE, Ws2Posix(s.topic).regex, GenerateSubjectKey(None, None, prefix))

(* ws2posix finds no wildcard in the topic, and start returns an error.    *)
StartFails(s) ==
    /\ stage = "start"
    /\ Guess(s) = "WS"
    /\ ~Ws2Posix(s.topic).ok
    /\ stage' = "failed"
    /\ UNCHANGED <<subVars, pub, mSubject, queued>>

(* zmqBridgeMamaPublisher_createByIndex.                                   *)
CreatePublisher(p) ==
    /\ stage = "subscribed"
    /\ stage' = "published"
    /\ pub' = p
    /\ mSubject' = BuildSendSubject(p)
    /\ UNCHANGED <<subVars, queued>>

(* dispatchNormalMsg: a subject with the prefix of reply handles goes to   *)
(* the inboxes, whatever was subscribed to,                                *)
IsReply(subject) == IsPrefix(ReplyHandlePrefix, subject)

DispatchInboxMsg ==
    /\ stage = "published"
    /\ IsReply(mSubject)
    /\ stage' = "dispatched"
    /\ UNCHANGED <<subVars, pub, mSubject, queued>>

(* and every other one to the subscriptions (dispatchSubMsg).              *)
DispatchSubMsg ==
    /\ stage = "published"
    /\ ~IsReply(mSubject)
    /\ stage' = "dispatched"
    /\ queued' = IF mIsWildcard THEN MatchWildcards(mSubjectKey, mOrigRegex, mSubject)
                                ELSE mSubjectKey = mSubject
    /\ UNCHANGED <<subVars, pub, mSubject>>

TopicsNext ==
    \/ \E s \in Subscriptions : \/ CreateSubscription(s)
                                \/ CreateWildCard(s)
                                \/ CreateHierarchical(s)
                                \/ StartFails(s)
    \/ \E p \in Publications : CreatePublisher(p)
    \/ DispatchInboxMsg
    \/ DispatchSubMsg

TopicsSpec == TopicsInit /\ [][TopicsNext]_topicsVars

-----------------------------------------------------------------------------
(* What the names mean, independently of how the code gets there.          *)

SubscribedName == Joined(None, sub.source, sub.topic)
PublishedName ==
    Joined(pub.root, pub.source, IF pub.root \in {None, Dictionary} THEN pub.topic ELSE None)

(* The levels of a hierarchical topic: what lies between its slashes.      *)
Levels(text) ==
    LET slashes == {i \in DOMAIN text : text[i] = "/"}
        ends == SetToSortSeq(slashes \cup {Len(text) + 1}, <)
    IN  [n \in DOMAIN ends |->
            SubSeq(text, IF n = 1 THEN 1 ELSE ends[n - 1] + 1, ends[n] - 1)]

(* One level of a pattern covers one level of a subject: every "*" stands  *)
(* for at least one character, every other character for itself; end[i] is *)
(* where the share of the i-th one ends.                                   *)
CoversLevel(pattern, level) ==
    IF ~Contains(pattern, "*") THEN pattern = level
    ELSE \E end \in [0..Len(pattern) -> 0..Len(level)] :
            /\ end[0] = 0
            /\ end[Len(pattern)] = Len(level)
            /\ \A i \in DOMAIN pattern :
                  IF pattern[i] = "*" THEN end[i] > end[i - 1]
                  ELSE /\ end[i] = end[i - 1] + 1
                       /\ level[end[i]] = pattern[i]

(* A pattern covers a subject level by level; a last level "." covers the  *)
(* levels that are left, if any.                                           *)
Covers(pattern, subject) ==
    LET p == Levels(pattern)
        s == Levels(subject)
        super == Len(p) > 1 /\ Last(p) = <<".">>
        fixed == IF super THEN Len(p) - 1 ELSE Len(p)
    IN  /\ IF super THEN Len(s) >= fixed ELSE Len(s) = fixed
        /\ \A n \in 1..fixed : CoversLevel(p[n], s[n])

(* The hierarchical topics that the code handles: a "*" somewhere, but not *)
(* at the very beginning (README).                                         *)
Supported(topic) == Contains(topic, "*") /\ Head(topic) # "*"
Literal(topic) ==
    LET p == Levels(topic)
        super == Last(p) = <<".">>
    IN  /\ \A n \in 1..(Len(p) - 1) : ~Contains(p[n], ".")
        /\ ~Contains(Last(p), ".") \/ (super /\ IsSuffix(<<"*">>, p[Len(p) - 1]))

(* The regexes that createWildCard handles (README).                       *)
Prefixable(regex) ==
    LET body == Tail(regex)
        w == SelectInSeq(body, LAMBDA t : t \in Special)
    IN  /\ Head(regex) = "^"
        /\ \/ w = 0
           \/ body[w] = "[^/]+"
           \/ IsSuffix(<<"/", ".*">>, body) /\ w = Len(body)

(* A plain subscriber hears the publishers whose root, source and topic,   *)
(* joined by periods, are its own source and topic, unless that name       *)
(* begins like a reply handle.  A name that does not fit the buffer of     *)
(* generateSubjectKey is cut, by subscribers and publishers alike: however *)
(* long the topic, the two still meet.  It hears no others as long as the  *)
(* names fit.                                                              *)
PlainHearsItsName ==
    stage = "dispatched" /\ ~mIsWildcard =>
        /\ SubscribedName = PublishedName /\ ~IsReply(PublishedName) => queued
        /\ (/\ queued
            /\ Len(SubscribedName) < MaxSubject /\ Len(PublishedName) < MaxSubject)
           => SubscribedName = PublishedName

(* The prefix that createWildCard derives for libzmq hides nothing from    *)
(* the regex: with an anchored pattern whose first wildcard is "[^/]+" or  *)
(* a trailing "/.*", whatever the regex accepts is queued, replies aside.  *)
PrefixHidesNothing ==
    (/\ stage = "dispatched" /\ mIsWildcard
     /\ Prefixable(mOrigRegex)
     /\ RegexMatches(mOrigRegex, mSubject) /\ ~IsReply(mSubject))
    => queued

(* A hierarchical subscription hears every subject that its pattern covers *)
(* level by level, replies aside: ws2posix, createWildCard and             *)
(* matchWildcards together lose none.  It hears no others, if the topic    *)
(* has no "." but perhaps a trailing one after "*/": ws2posix does not     *)
(* escape a ".", which the regex then takes for any character, and it      *)
(* drops the "/" of a trailing "/.", so that "a*a/." also hears "aba."     *)
(* (README).                                                               *)
HierarchyHearsWhatItCovers ==
    stage = "dispatched" /\ sub.wcType = "WS" /\ Supported(sub.topic) =>
        /\ Covers(sub.topic, mSubject) /\ ~IsReply(mSubject) => queued
        /\ Literal(sub.topic) /\ queued => Covers(sub.topic, mSubject)
=============================================================================

--------------------------- MODULE MCSubscription ---------------------------
(***************************************************************************)
(* Constants for model-checking Subscription: the topic "IBM" is a prefix  *)
(* of the topic "IBM/L", and the wildcard with the prefix "IB" accepts     *)
(* only the longer of the two.                                             *)
(***************************************************************************)
EXTENDS Subscription

MCTopics == {"IBM", "IBM/L"}
MCWildcards == {"IB"}
MCCovers == [k \in MCTopics \cup MCWildcards |->
                IF k = "IBM/L" THEN {"IBM/L"} ELSE MCTopics]
MCAccepts == [k \in MCWildcards |-> {"IBM/L"}]
=============================================================================

--------------------------- MODULE MCRequestReply ---------------------------
(***************************************************************************)
(* Constants for model-checking RequestReply: q1 has the subscription and  *)
(* an inbox of its own, q2 has another inbox.                              *)
(***************************************************************************)
EXTENDS RequestReply

CONSTANTS q1, q2, i1, i2

MCInboxQueue == [i \in {i1, i2} |-> IF i = i1 THEN q1 ELSE q2]
=============================================================================

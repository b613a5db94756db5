----------------------------- MODULE EventFifo -----------------------------
(***************************************************************************)
(* What the event queue of OZ promises to the code that uses it: a FIFO    *)
(* queue with several producers and several dispatchers that loses,        *)
(* duplicates and reorders nothing it has accepted, never holds more than  *)
(* Bound events and refuses one only when fewer than Slack slots are left  *)
(* below the configured maximum.  UQueue is shown to implement it.         *)
(***************************************************************************)
EXTENDS Integers, Sequences

CONSTANTS Consumers,  \* the threads that dispatch
          None,       \* "this consumer is running no callback"
          Maximum,    \* the configured maximum size
          Slack,      \* the growth step: refusals start this close to Maximum
          Bound       \* what the queue may hold in the worst case

VARIABLES q,       \* the events accepted and not yet taken, oldest first
          running, \* the event whose callback each consumer is running
          count,   \* how many events were accepted so far (events are numbered)
          answer   \* what the last attempt to put an event returned

fvars == <<q, running, count, answer>>

FifoInit ==
    /\ q = <<>>
    /\ running = [c \in Consumers |-> None]
    /\ count = 0
    /\ answer = "OK"

Put ==
    /\ Len(q) < Bound
    /\ q' = Append(q, count + 1)
    /\ count' = count + 1
    /\ answer' = "OK"
    /\ UNCHANGED running

Refuse ==
    /\ Len(q) + Slack > Maximum
    /\ answer' = "FULL"
    /\ UNCHANGED <<q, running, count>>

Take(c) ==
    /\ running[c] = None
    /\ q # <<>>
    /\ running' = [running EXCEPT ![c] = Head(q)]
    /\ q' = Tail(q)
    /\ UNCHANGED <<count, answer>>

Finish(c) ==
    /\ running' = [running EXCEPT ![c] = None]
    /\ UNCHANGED <<q, count, answer>>

FifoNext ==
    \/ Put
    \/ Refuse
    \/ \E c \in Consumers : Take(c) \/ Finish(c)

FifoSpec == FifoInit /\ [][FifoNext]_fvars
=============================================================================

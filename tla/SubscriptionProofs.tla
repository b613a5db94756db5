------------------------- MODULE SubscriptionProofs -------------------------
(***************************************************************************)
(* Proofs that no thread is left with a pointer to a subscriber that has   *)
(* been released, that a subscriber gets its messages in order, and that   *)
(* the socket's subscriptions are those of the subscribers: for any        *)
(* addresses, queues, topics and numbers of subscribers and messages.      *)
(*                                                                         *)
(* A callback thread holds no lock while it uses the subscriber that it    *)
(* has looked up.  It is safe because the thread that destroys subscribers *)
(* is the callback thread of their queue, and an event is only ever on the *)
(* queue of the subscriber that it names: identifiers are not reused, so   *)
(* this survives the reuse of addresses.                                   *)
(*                                                                         *)
(* Order needs OrderInv, which places what is queued for a subscriber      *)
(* between what it has been given and what the dispatch thread has in      *)
(* hand.  The socket's subscriptions are counted with the commands on      *)
(* their way, up to any of them (BalancedOK).                              *)
(***************************************************************************)
EXTENDS Subscription, TLAPS

Alive(a) == heap[a].stage # "freed"

\* Identifiers have been given out, each to one subscriber of its kind.
IdsOK ==
    /\ \A a \in Addresses : Alive(a) => heap[a].id <= uid[heap[a].kind]
    /\ \A a, b \in Addresses :
          (/\ Alive(a) /\ Alive(b)
           /\ heap[a].kind = heap[b].kind /\ heap[a].id = heap[b].id) => a = b

\* An event is on the queue of the subscriber that it names, if there is one, and
\* none will be created that it names.
OnItsQueue(e, q) ==
    /\ e.id <= uid[e.kind]
    /\ \A a \in Addresses :
          Alive(a) /\ heap[a].kind = e.kind /\ heap[a].id = e.id => heap[a].queue = q

EventsOK ==
    \A q \in Queues : \A i \in 1..Len(queue[q]) : OnItsQueue(queue[q][i], q)

\* The subscriber that a callback thread works on.
ThreadOK(q) ==
    /\ cpc[q] = "found" => target[q] \in Addresses /\ event[q] \in Events
    /\ cpc[q] = "destroy" => /\ target[q] \in Addresses
                             /\ heap[target[q]].stage = "unregistered"
                             /\ heap[target[q]].queue = q

ThreadsOK == \A q \in Queues : ThreadOK(q)

Inv ==
    /\ TypeOK
    /\ IdsOK
    /\ EventsOK
    /\ ThreadsOK
    /\ NoUseAfterFree

-----------------------------------------------------------------------------
\* Commands on their way to the data socket, counted.

\* Where in a sequence of commands, up to the nth, there is this one.
Where(s, x, n) == {i \in 1..n : s[i] = x}

Command(c, k) == [command |-> c, key |-> k]

Commands == [command : {"S", "U"}, key : Keys]

\* The number of these commands among the first n, and what
\* InterestMatchesSubscribers says of a key that is subscribed i times, that the
\* subscribers in h want and that the commands in s are about.
Many(s, c, k, n) == Cardinality(Where(s, Command(c, k), n))

Even(k, s, i, h) ==
    /\ IsFiniteSet(h)
    /\ i + Many(s, "S", k, Len(s)) - Many(s, "U", k, Len(s)) = Cardinality(h)
    /\ \A n \in 0..Len(s) : i + Many(s, "S", k, n) >= Many(s, "U", k, n)

\* Sets of which the elements correspond have the same size.
OneToOne ==
    \A S, T, f :
        /\ IsFiniteSet(S) /\ f \in [S -> T]
        /\ \A a, b \in S : f[a] = f[b] => a = b
        /\ \A t \in T : \E a \in S : f[a] = t
        => Cardinality(S) = Cardinality(T)

\* The sizes of finite sets.
Sizes ==
    /\ IsFiniteSet({}) /\ Cardinality({}) = 0
    /\ \A S : IsFiniteSet(S) => Cardinality(S) \in Nat
    /\ \A S, e : IsFiniteSet(S) => IsFiniteSet(S \cup {e}) /\ IsFiniteSet(S \ {e})
    /\ \A S, e : IsFiniteSet(S) /\ e \notin S => Cardinality(S \cup {e}) = Cardinality(S) + 1
    /\ \A S, e : IsFiniteSet(S) /\ e \in S => Cardinality(S \ {e}) = Cardinality(S) - 1
    /\ \A S : \A n \in Nat : S \subseteq 1..n => IsFiniteSet(S)
    /\ OneToOne

\* How often a command is among the others when one is sent or read.
Counting ==
    /\ \A s, x : \A n \in Nat : Cardinality(Where(s, x, n)) \in Nat
    /\ \A x : \A s \in Seq(Commands), c \in Commands :
          /\ \A n \in 0..Len(s) : Cardinality(Where(Append(s, c), x, n)) = Cardinality(Where(s, x, n))
          /\ Cardinality(Where(Append(s, c), x, Len(s) + 1)) =
                 Cardinality(Where(s, x, Len(s))) + (IF c = x THEN 1 ELSE 0)
    /\ \A x : \A s \in Seq(Commands) : s # <<>> => \A n \in 0..(Len(s) - 1) :
          Cardinality(Where(s, x, n + 1)) =
              Cardinality(Where(Tail(s), x, n)) + (IF Head(s) = x THEN 1 ELSE 0)

\* In finitely many places.
LEMMA WhereFinite ==
    ASSUME Sizes, NEW s, NEW x, NEW n \in Nat
    PROVE  IsFiniteSet(Where(s, x, n)) /\ Cardinality(Where(s, x, n)) \in Nat
  <1>2. Where(s, x, n) \subseteq 1..n
    BY DEF Where
  <1>3. IsFiniteSet(Where(s, x, n))
    BY Zenon, <1>2 DEF Sizes
  <1> QED
    BY Zenon, <1>3 DEF Sizes

\* A command is added.
LEMMA WhereAppend ==
    ASSUME Sizes
    PROVE  \A x : \A s \in Seq(Commands), c \in Commands :
              /\ \A n \in 0..Len(s) : Cardinality(Where(Append(s, c), x, n)) = Cardinality(Where(s, x, n))
              /\ Cardinality(Where(Append(s, c), x, Len(s) + 1)) =
                     Cardinality(Where(s, x, Len(s))) + (IF c = x THEN 1 ELSE 0)
  <1> TAKE x
  <1> TAKE s \in Seq(Commands), c \in Commands
  <1> DEFINE t == Append(s, c)
  <1>1. /\ Len(t) = Len(s) + 1 /\ Len(s) \in Nat /\ t[Len(s) + 1] = c
        /\ \A i \in 1..Len(s) : t[i] = s[i]
    OBVIOUS
  <1>2. \A n \in 0..Len(s) : Where(t, x, n) = Where(s, x, n)
    BY DEF Where
  <1>3. CASE c = x
    <2>1. Where(t, x, Len(s) + 1) = Where(s, x, Len(s)) \cup {Len(s) + 1}
      BY <1>3 DEF Where
    <2>2. Len(s) + 1 \notin Where(s, x, Len(s))
      BY DEF Where
    <2>3. IsFiniteSet(Where(s, x, Len(s)))
      BY WhereFinite
    <2>4. Cardinality(Where(s, x, Len(s)) \cup {Len(s) + 1}) = Cardinality(Where(s, x, Len(s))) + 1
      BY Zenon, <2>2, <2>3 DEF Sizes
    <2> QED
      BY Zenon, <1>2, <1>3, <2>1, <2>4
  <1>4. CASE c # x
    <2>1. Where(t, x, Len(s) + 1) = Where(s, x, Len(s))
      BY <1>4 DEF Where
    <2>2. Cardinality(Where(s, x, Len(s))) \in Nat
      BY WhereFinite
    <2> QED
      BY <1>1, <1>2, <1>4, <2>1, <2>2
  <1> QED
    BY <1>3, <1>4

\* The first command is taken away.
LEMMA WhereTail ==
    ASSUME Sizes, NEW s \in Seq(Commands), s # <<>>, NEW x, NEW n \in 0..(Len(s) - 1)
    PROVE  Cardinality(Where(s, x, n + 1)) =
               Cardinality(Where(Tail(s), x, n)) + (IF Head(s) = x THEN 1 ELSE 0)
  <1> DEFINE rest == Where(s, x, n + 1) \ {1}
             shift == [i \in rest |-> i - 1]
  <1>1. /\ Len(s) \in Nat /\ Len(s) > 0 /\ Head(s) = s[1] /\ n \in Nat
        /\ \A i \in 1..(Len(s) - 1) : Tail(s)[i] = s[i + 1]
    OBVIOUS
  <1>2. shift \in [rest -> Where(Tail(s), x, n)]
    BY DEF Where
  <1>3. \A t \in Where(Tail(s), x, n) : t + 1 \in rest /\ shift[t + 1] = t
    BY DEF Where
  <1>4. \A i, j \in rest : shift[i] = shift[j] => i = j
    BY <1>1 DEF Where
  <1>5. \A t \in Where(Tail(s), x, n) : \E i \in rest : shift[i] = t
    BY Zenon, <1>3
  <1>7. IsFiniteSet(Where(s, x, n + 1)) /\ Cardinality(Where(s, x, n + 1)) \in Nat
    BY WhereFinite
  <1>8. IsFiniteSet(rest)
    BY Zenon, <1>7 DEF Sizes
  <1>9. 1 \in Where(s, x, n + 1) <=> Head(s) = x
    BY DEF Where
  <1>10. Head(s) = x => Cardinality(rest) = Cardinality(Where(s, x, n + 1)) - 1
    BY Zenon, <1>7, <1>9 DEF Sizes
  <1>11. Head(s) # x => rest = Where(s, x, n + 1)
    BY Zenon, <1>9
  <1> HIDE DEF rest, shift
  <1>12. Cardinality(rest) = Cardinality(Where(Tail(s), x, n))
    <2>1. OneToOne
      BY Zenon DEF Sizes
    <2> QED
      BY Zenon, <1>2, <1>4, <1>5, <1>8, <2>1 DEF OneToOne
  <1>13. CASE Head(s) = x
    BY <1>7, <1>10, <1>12, <1>13
  <1>14. CASE Head(s) # x
    BY <1>7, <1>11, <1>12, <1>14
  <1> QED
    BY Zenon, <1>13, <1>14

\* The commands on their way are counted right.
LEMMA CountingHolds ==
    ASSUME Sizes
    PROVE  Counting
  <1>1. ASSUME NEW s, NEW x, NEW n \in Nat
        PROVE  Cardinality(Where(s, x, n)) \in Nat
    BY Zenon, WhereFinite
  <1>3. ASSUME NEW x, NEW s \in Seq(Commands), s # <<>>, NEW n \in 0..(Len(s) - 1)
        PROVE  Cardinality(Where(s, x, n + 1)) =
                   Cardinality(Where(Tail(s), x, n)) + (IF Head(s) = x THEN 1 ELSE 0)
    BY Zenon, <1>3, WhereTail
  <1> QED
    BY Zenon, <1>1, WhereAppend, <1>3 DEF Counting

\* Numbers are natural numbers.
LEMMA ManyType ==
    ASSUME Counting, NEW s \in Seq(Commands), NEW k, NEW c, NEW n \in 0..Len(s)
    PROVE  Many(s, c, k, n) \in Nat
  BY DEF Many, Counting

\* A command is sent along with a change of the subscribers: an unsubscribe by one
\* that holds a subscription.
LEMMA EvenAppend ==
    ASSUME Sizes, Counting, NEW k, NEW s \in Seq(Commands), NEW i \in Nat, NEW h, Even(k, s, i, h),
           NEW c \in {"S", "U"}, NEW j \in Keys, NEW g, IsFiniteSet(g),
           Cardinality(g) = Cardinality(h) + (IF j # k THEN 0 ELSE IF c = "S" THEN 1 ELSE -1)
    PROVE  Even(k, Append(s, Command(c, j)), i, g)
  <1> DEFINE t == Append(s, Command(c, j))
             add(d) == IF c = d /\ j = k THEN 1 ELSE 0
  <1>1. Command(c, j) \in Commands /\ \A d : Command(c, j) = Command(d, k) <=> c = d /\ j = k
    BY DEF Command, Commands
  <1>2. Len(t) = Len(s) + 1 /\ Len(s) \in Nat /\ t \in Seq(Commands)
    BY <1>1
  <1>3. ASSUME NEW d
        PROVE  /\ \A n \in 0..Len(s) : Many(t, d, k, n) = Many(s, d, k, n)
               /\ Many(t, d, k, Len(t)) = Many(s, d, k, Len(s)) + add(d)
    BY <1>1, <1>2 DEF Many, Counting
  <1>5. Cardinality(g) \in Nat /\ Cardinality(h) \in Nat
    BY Zenon DEF Even, Sizes
  <1>6. /\ Many(s, "S", k, Len(s)) \in Nat /\ Many(s, "U", k, Len(s)) \in Nat
        /\ i + Many(s, "S", k, Len(s)) - Many(s, "U", k, Len(s)) = Cardinality(h)
    BY ManyType DEF Even
  <1>7. i + Many(t, "S", k, Len(t)) - Many(t, "U", k, Len(t)) = Cardinality(g)
    <2>1. /\ Many(t, "S", k, Len(t)) = Many(s, "S", k, Len(s)) + add("S")
          /\ Many(t, "U", k, Len(t)) = Many(s, "U", k, Len(s)) + add("U")
      BY <1>3
    <2>2. CASE j # k
      BY <1>5, <1>6, <2>1, <2>2
    <2>3. CASE j = k /\ c = "S"
      BY <1>5, <1>6, <2>1, <2>3
    <2>4. CASE j = k /\ c = "U"
      BY <1>5, <1>6, <2>1, <2>4
    <2> QED
      BY Zenon, <2>2, <2>3, <2>4
  <1>8. ASSUME NEW n \in 0..Len(t)
        PROVE  i + Many(t, "S", k, n) >= Many(t, "U", k, n)
    <2>1. CASE n \in 0..Len(s)
      BY <1>3, <2>1 DEF Even
    <2>2. CASE n = Len(t)
      <3>1. Many(t, "S", k, n) \in Nat /\ Many(t, "U", k, n) \in Nat
        BY Zenon, <1>2, ManyType
      <3>2. i + Many(t, "S", k, n) - Many(t, "U", k, n) = Cardinality(g)
        BY <1>7, <2>2
      <3> QED
        BY <1>5, <3>1, <3>2
    <2> QED
      BY <2>1, <2>2
  <1> QED
    BY Zenon, <1>7, <1>8 DEF Even

\* The first command is read: an unsubscribe finds a subscription to undo.
LEMMA EvenTail ==
    ASSUME Sizes, Counting, NEW k, NEW s \in Seq(Commands), s # <<>>, NEW i \in Nat, NEW h, Even(k, s, i, h)
    PROVE  /\ Head(s) = Command("S", k) => Even(k, Tail(s), i + 1, h)
           /\ Head(s) = Command("U", k) => i > 0 /\ Even(k, Tail(s), i - 1, h)
           /\ (Head(s) # Command("S", k) /\ Head(s) # Command("U", k)) => Even(k, Tail(s), i, h)
  <1> DEFINE t == Tail(s)
             has(d) == IF Head(s) = Command(d, k) THEN 1 ELSE 0
  <1>1. /\ t \in Seq(Commands) /\ Len(t) = Len(s) - 1 /\ Len(s) \in Nat /\ Len(s) > 0
    OBVIOUS
  <1>2. ASSUME NEW d, NEW n \in 0..Len(t)
        PROVE  Many(s, d, k, n + 1) = Many(t, d, k, n) + has(d) /\ Many(t, d, k, n) \in Nat
    <2>1. n \in 0..(Len(s) - 1)
      OBVIOUS
    <2> QED
      BY <1>1, <2>1, ManyType DEF Many, Counting
  <1>3. Command("S", k) # Command("U", k)
    BY Zenon DEF Command
  <1>4. \A d : Many(t, d, k, 0) = 0
    BY DEF Where, Many, Sizes
  <1>5. i + has("S") >= has("U")
    <2>3. Many(s, "S", k, 1) = has("S") /\ Many(s, "U", k, 1) = has("U")
      <3>1. /\ Many(s, "S", k, 0 + 1) = Many(t, "S", k, 0) + has("S")
            /\ Many(s, "U", k, 0 + 1) = Many(t, "U", k, 0) + has("U")
        BY <1>2
      <3> QED
        BY <1>4, <3>1
    <2> QED
      BY <2>3 DEF Even
  <1>6. /\ IsFiniteSet(h) /\ Cardinality(h) \in Nat
        /\ i + Many(s, "S", k, Len(s)) - Many(s, "U", k, Len(s)) = Cardinality(h)
    BY Zenon DEF Even, Sizes
  <1>7. \A n \in 0..Len(t) : i + has("S") - has("U") + Many(t, "S", k, n) >= Many(t, "U", k, n)
    <2>1. TAKE n \in 0..Len(t)
    <2>3. i + Many(s, "S", k, n + 1) >= Many(s, "U", k, n + 1)
      BY DEF Even
    <2>4. /\ Many(s, "S", k, n + 1) = Many(t, "S", k, n) + has("S") /\ Many(t, "S", k, n) \in Nat
          /\ Many(s, "U", k, n + 1) = Many(t, "U", k, n) + has("U") /\ Many(t, "U", k, n) \in Nat
      BY Zenon, <1>2
    <2> QED
      BY <2>3, <2>4
  <1>8. i + has("S") - has("U") + Many(t, "S", k, Len(t)) - Many(t, "U", k, Len(t)) = Cardinality(h)
    <2>1. Len(t) \in 0..Len(t) /\ Len(t) + 1 = Len(s)
      OBVIOUS
    <2>2. /\ Many(s, "S", k, Len(s)) = Many(t, "S", k, Len(t)) + has("S")
          /\ Many(s, "U", k, Len(s)) = Many(t, "U", k, Len(t)) + has("U")
          /\ Many(t, "S", k, Len(t)) \in Nat /\ Many(t, "U", k, Len(t)) \in Nat
      BY Zenon, <1>2, <2>1
    <2>3. has("S") \in Nat /\ has("U") \in Nat
      BY Zenon
    <2> HIDE DEF has, t
    <2> QED
      BY <1>6, <2>2, <2>3
  <1>9. Even(k, t, i + has("S") - has("U"), h)
    BY Zenon, <1>6, <1>7, <1>8 DEF Even
  <1>10. CASE Head(s) = Command("S", k)
    BY <1>3, <1>10, <1>9
  <1>11. CASE Head(s) = Command("U", k)
    <2>1. i + has("S") - has("U") = i - 1 /\ i > 0
      BY <1>3, <1>5, <1>11
    <2> QED
      BY <1>3, <1>9, <2>1
  <1>12. CASE Head(s) # Command("S", k) /\ Head(s) # Command("U", k)
    BY <1>12, <1>9
  <1> QED
    BY Zenon, <1>10, <1>11, <1>12

-----------------------------------------------------------------------------
\* The type of a subscriber, and what a change of its stage or of its mute flag
\* leaves alone.

Heap == Subscribers \cup Inboxes \cup {Freed}

\* What the stage of an object on the heap says of its other fields.
LEMMA HeapFields ==
    ASSUME NEW r \in Heap
    PROVE  /\ r.stage \in {"registered", "live", "unregistered", "freed"}
           /\ r.stage # "freed" => /\ r \in Subscribers \cup Inboxes
                                   /\ r.kind \in Kinds /\ r.queue \in Queues /\ r.id \in Nat
           /\ r.stage = "freed" => r = Freed
           /\ (r.stage # "freed" /\ r.kind # "inbox") => r \in Subscribers
           /\ r.stage = "registered" => r \in Subscribers
    BY DEF Heap, Subscribers, Inboxes, Freed, Kinds

\* Memory that is not in use is in no other stage.
LEMMA FreedStage == Freed.stage = "freed"
    BY DEF Freed

\* Only the stage of a subscriber changes.
LEMMA StageFields ==
    ASSUME NEW r \in Heap, r.stage # "freed", NEW x,
           x = "unregistered" \/ x = "live"
    PROVE  LET n == [r EXCEPT !.stage = x]
           IN  /\ n \in Heap /\ n.stage = x
               /\ n.kind = r.kind /\ n.queue = r.queue /\ n.id = r.id
  <1>1. CASE r \in Subscribers
    BY <1>1 DEF Heap, Subscribers
  <1>2. CASE r \in Inboxes
    BY <1>2 DEF Heap, Inboxes
  <1> QED
    BY <1>1, <1>2, HeapFields

\* Only the mute flag of a subscription changes.
LEMMA MuteFields ==
    ASSUME NEW r \in Subscribers
    PROVE  LET n == [r EXCEPT !.mIsNotMuted = FALSE]
           IN  /\ n \in Heap /\ n.stage = r.stage
               /\ n.kind = r.kind /\ n.queue = r.queue /\ n.id = r.id
    BY Zenon DEF Heap, Subscribers

\* The first element of a sequence and the others.
LEMMA HeadTail ==
    ASSUME NEW S, NEW seq \in Seq(S), seq # <<>>
    PROVE  /\ Head(seq) \in S /\ Tail(seq) \in Seq(S)
           /\ Head(seq) = seq[1] /\ 1 \in 1..Len(seq)
           /\ \A i \in 1..Len(Tail(seq)) : i + 1 \in 1..Len(seq) /\ Tail(seq)[i] = seq[i + 1]
    OBVIOUS

\* Events name the subscriber whose queue they are put on.
LEMMA TransportMsgType ==
    ASSUME TypeOK, NEW a \in Addresses, Alive(a), NEW kind \in Kinds, NEW m, m.num \in Nat
    PROVE  TransportMsg(kind, a, m) \in Events
  BY Zenon, HeapFields DEF TransportMsg, Events, TypeOK, Heap, Alive

-----------------------------------------------------------------------------
\* The parts of NoUseAfterFree, and what the invariant says about each pointer.

RegistryOK == \A k \in Kinds : \A a \in registry[k] : Usable(a, k)

TodoOK ==
    /\ dpc = "wildcards" => \A a \in todo : Usable(a, "wc")
    /\ dpc = "subs" => \A a \in todo : Usable(a, "sub")

Found(q) ==
    /\ Usable(target[q], event[q].kind)
    /\ heap[target[q]].id = event[q].id
    /\ heap[target[q]].queue = q

FoundOK == \A q \in Queues : cpc[q] = "found" => Found(q)

\* They make up NoUseAfterFree.
LEMMA Parts ==
    NoUseAfterFree <=> RegistryOK /\ TodoOK /\ FoundOK
    BY DEF NoUseAfterFree, RegistryOK, TodoOK, FoundOK, Found

\* The types that the steps ask for.
LEMMA TypeFacts ==
    ASSUME Inv
    PROVE  /\ heap \in [Addresses -> Heap] /\ uid \in [Kinds -> Nat]
           /\ registry \in [Kinds -> SUBSET Addresses]
           /\ published \in Nat
    BY DEF Inv, TypeOK, Heap

\* Numbers count up.
LEMMA NextNumber ==
    ASSUME Inv
    PROVE  published + 1 \in Nat /\ \A k \in Kinds : uid[k] \in Nat /\ uid[k] + 1 \in Nat
    BY TypeFacts

\* A step that changes nothing but subscribers, registries and commands keeps types.
LEMMA TypesKept ==
    ASSUME Inv, heap' \in [Addresses -> Heap], uid' \in [Kinds -> Nat],
           registry' \in [Kinds -> SUBSET Addresses],
           control' \in Seq([command : {"S", "U"}, key : Keys]),
           UNCHANGED <<interest, wire, published, dispatchVars, queue, callbackVars, delivered>>
    PROVE  TypeOK'
    BY Zenon DEF Inv, TypeOK, Heap, dispatchVars, callbackVars

\* A registered subscriber can be used.
LEMMA RegistryFacts ==
    ASSUME Inv, NEW k \in Kinds, NEW b \in registry[k]
    PROVE  b \in Addresses /\ Usable(b, k)
  BY Zenon, Parts DEF RegistryOK, Inv, TypeOK

\* So can the subscribers that the dispatch thread goes through.
LEMMA TodoFacts ==
    ASSUME Inv, NEW b \in todo
    PROVE  /\ b \in Addresses
           /\ dpc = "wildcards" => Usable(b, "wc")
           /\ dpc = "subs" => Usable(b, "sub")
  BY Parts DEF TodoOK, Inv, TypeOK

\* Whoever is in service stays in service, with its kind.
KeepsService ==
    \A b \in Addresses : heap[b].stage \in {"registered", "live"} =>
        heap'[b].stage \in {"registered", "live"} /\ heap'[b].kind = heap[b].kind

\* A subscriber that can be used can then be used after the step.
LEMMA UsableKept ==
    ASSUME KeepsService, NEW b \in Addresses, NEW k, Usable(b, k)
    PROVE  Usable(b, k)'
    BY DEF KeepsService, Usable

\* So the registries are in order if they do not change.
LEMMA RegistryKept ==
    ASSUME Inv, KeepsService, registry' = registry
    PROVE  RegistryOK'
  BY RegistryFacts, UsableKept DEF RegistryOK

\* So is what the dispatch thread goes through.
LEMMA TodoKept ==
    ASSUME Inv, KeepsService, todo' = todo, dpc' = dpc
    PROVE  TodoOK'
  BY TodoFacts, UsableKept DEF TodoOK

\* So can the one that a callback thread has found.
LEMMA FoundFacts ==
    ASSUME Inv, NEW q \in Queues, cpc[q] = "found"
    PROVE  target[q] \in Addresses /\ event[q] \in Events /\ Found(q)
  BY Parts DEF FoundOK, ThreadsOK, ThreadOK, Inv

\* A subscriber that is being destroyed belongs to the thread that does it.
LEMMA DestroyFacts ==
    ASSUME Inv, NEW q \in Queues, cpc[q] = "destroy"
    PROVE  /\ target[q] \in Addresses
           /\ heap[target[q]].stage = "unregistered" /\ heap[target[q]].queue = q
  BY Zenon DEF ThreadsOK, ThreadOK, Inv

\* A thread stays as it is while the subscriber that it destroys does.
LEMMA ThreadKept ==
    ASSUME Inv, NEW q \in Queues,
           cpc'[q] = cpc[q], target'[q] = target[q], event'[q] = event[q],
           cpc[q] = "destroy" => heap'[target[q]] = heap[target[q]]
    PROVE  ThreadOK(q)'
  BY DEF ThreadOK, Inv, ThreadsOK

\* What a callback thread has found stays so while the subscriber does.
LEMMA FoundKept ==
    ASSUME Inv, NEW q \in Queues, cpc[q] = "found",
           target'[q] = target[q], event'[q] = event[q],
           heap'[target[q]].stage \in {"registered", "live"},
           heap'[target[q]].kind = heap[target[q]].kind,
           heap'[target[q]].id = heap[target[q]].id,
           heap'[target[q]].queue = heap[target[q]].queue
    PROVE  Found(q)'
  <1>1. Found(q)
    BY Zenon, FoundFacts
  <1> QED
    BY Zenon, <1>1 DEF Found, Usable

-----------------------------------------------------------------------------
\* Nothing is registered and nothing queued in the beginning.
LEMMA InitInv ==
    Init => Inv
  <1> SUFFICES ASSUME Init PROVE Inv
    OBVIOUS
  <1> QED
    BY DEF Inv, Init, TypeOK, IdsOK, EventsOK, Alive, Freed, ThreadsOK, ThreadOK, NoUseAfterFree

-----------------------------------------------------------------------------
\* Steps that leave subscribers and callback threads alone.

\* It is enough to look at the events and at the dispatch thread.
LEMMA SameSubscribers ==
    ASSUME Inv, UNCHANGED <<heapVars, callbackVars>>, TypeOK', EventsOK', TodoOK'
    PROVE  Inv'
  <1>2. ThreadsOK'
    BY ThreadKept DEF ThreadsOK, heapVars, callbackVars
  <1>3. NoUseAfterFree'
    BY DEF Inv, NoUseAfterFree, Usable, TodoOK, heapVars, callbackVars
  <1> QED
    BY Zenon, <1>2, <1>3 DEF Inv, IdsOK, Alive, heapVars

\* The events stay where they belong while neither they nor the subscribers change.
LEMMA SameEvents ==
    ASSUME EventsOK, UNCHANGED <<heapVars, queue>>
    PROVE  EventsOK'
    BY Zenon DEF EventsOK, OnItsQueue, Alive, heapVars

\* A message is published.
LEMMA PublishInv ==
    ASSUME Inv, NEW m \in Messages, Publish(m)
    PROVE  Inv'
  <1>1. TypeOK'
    BY DEF Inv, TypeOK, Publish, heapVars, dispatchVars, callbackVars
  <1> QED
    BY Zenon, <1>1, SameEvents, SameSubscribers DEF Publish, Inv, NoUseAfterFree, TodoOK, Usable,
       heapVars, dispatchVars

\* The dispatch thread polls, or reads a command, or has read all there is.
LEMMA SocketInv ==
    ASSUME Inv, Poll \/ DispatchControlMsg \/ ControlDrained \/ Filtered \/ SubsDone \/ DataDrained
    PROVE  Inv'
  <1>1. TypeOK'
    <2>1. CASE Poll
      BY Zenon, <2>1 DEF Inv, TypeOK, Poll, heapVars, callbackVars
    <2>2. CASE DispatchControlMsg
      <3>1. /\ Head(control) \in [command : {"S", "U"}, key : Keys]
            /\ Tail(control) \in Seq([command : {"S", "U"}, key : Keys])
        BY Zenon, <2>2, HeadTail DEF Inv, TypeOK, DispatchControlMsg, ControlReadable
      <3>2. PICK k \in Keys : k = Head(control).key
        BY <3>1
      <3>3. interest \in [Keys -> Nat] /\ (Subscribe(k) \/ Unsubscribe(k))
        BY Zenon, <2>2, <3>2 DEF DispatchControlMsg, Inv, TypeOK
      <3>4. interest' \in [Keys -> Nat]
        BY <3>3 DEF Subscribe, Unsubscribe
      <3> QED
        BY Zenon, <3>1, <3>4, <2>2 DEF Inv, TypeOK, heapVars, dispatchVars, callbackVars,
           DispatchControlMsg
    <2>3. CASE ControlDrained
      BY Zenon, <2>3 DEF Inv, TypeOK, ControlDrained, heapVars, callbackVars
    <2>4. CASE Filtered
      BY Zenon, <2>4, HeadTail DEF Inv, TypeOK, Filtered, DataReadable, heapVars, dispatchVars,
         callbackVars
    <2>5. CASE SubsDone
      BY Zenon, <2>5 DEF Inv, TypeOK, SubsDone, heapVars, callbackVars
    <2>6. CASE DataDrained
      BY Zenon, <2>6 DEF Inv, TypeOK, DataDrained, heapVars, callbackVars
    <2> QED
      BY <2>1, <2>2, <2>3, <2>4, <2>5, <2>6
  <1> QED
    BY Zenon, <1>1, SameEvents, SameSubscribers DEF TodoOK, Inv, Poll, DispatchControlMsg,
       ControlDrained, Filtered, SubsDone, DataDrained, dispatchVars

\* A message is taken from the data socket, and its subscribers are looked up.
LEMMA LookupInv ==
    ASSUME Inv, DispatchSubMsg \/ WildcardsDone
    PROVE  Inv'
  <1>1. UNCHANGED <<heapVars, callbackVars, queue>>
    BY DEF DispatchSubMsg, WildcardsDone
  <1>2. EventsOK'
    BY <1>1, SameEvents DEF Inv
  <1>3. CASE DispatchSubMsg
    <2>3. TypeOK'
      BY Zenon, <1>3, HeadTail DEF Inv, TypeOK, DispatchSubMsg, heapVars, callbackVars,
         DataReadable, MatchWildcards, Kinds
    <2>4. TodoOK'
      BY Zenon, <1>3, RegistryFacts DEF TodoOK, Usable, DispatchSubMsg, heapVars, MatchWildcards,
         Kinds
    <2> QED
      BY <1>1, <1>2, <2>3, <2>4, SameSubscribers
  <1>4. CASE WildcardsDone
    BY Zenon, <1>2, <1>4, RegistryFacts, SameSubscribers DEF Inv, TypeOK, WildcardsDone, heapVars,
       callbackVars, Registered, Kinds, TodoOK, Usable
  <1> QED
    BY <1>3, <1>4

-----------------------------------------------------------------------------
\* An event is put on the queue of a subscriber that can be used.
LEMMA EnqueueMsgEvents ==
    ASSUME Inv, NEW kind \in Kinds, NEW a \in Addresses, Usable(a, kind),
           NEW m, m.num \in Nat, EnqueueMsg(kind, a, m), UNCHANGED heapVars
    PROVE  queue' \in [Queues -> Seq(Events)] /\ EventsOK'
  <1>1. /\ queue \in [Queues -> Seq(Events)]
        /\ heap[a] \in Heap /\ Alive(a) /\ heap[a].kind = kind
    BY Zenon DEF Inv, TypeOK, Heap, Usable, Alive
  <1>2. PICK p \in Queues : p = heap[a].queue
    BY <1>1, HeapFields DEF Alive
  <1>3. PICK e \in Events : e = TransportMsg(kind, a, m)
    BY <1>1, TransportMsgType DEF Inv
  <1>4. queue' = [queue EXCEPT ![p] = Append(@, e)]
    BY Zenon, <1>2, <1>3 DEF EnqueueMsg
  <1>6. OnItsQueue(e, p)
    BY Zenon, <1>1, <1>2, <1>3 DEF Inv, IdsOK, OnItsQueue, TransportMsg
  <1>8. ASSUME NEW q \in Queues, NEW i \in 1..Len(queue'[q])
        PROVE  OnItsQueue(queue'[q][i], q)
    BY <1>4, <1>6 DEF Inv, EventsOK
  <1>9. EventsOK'
    BY <1>8 DEF EventsOK, OnItsQueue, Alive, heapVars
  <1> QED
    BY <1>1, <1>4, <1>9

\* What may be published.
LEMMA MessageType ==
    ASSUME NEW n \in Nat
    PROVE  /\ \A t \in Topics : [to |-> "topic", topic |-> t, num |-> n] \in Messages
           /\ \A id \in Nat : [to |-> "inbox", id |-> id, num |-> n] \in Messages
    BY DEF Messages

\* A message has a number.
LEMMA MessageNum ==
    ASSUME NEW m \in Messages \cup {Nothing}
    PROVE  m.num \in Nat
    BY DEF Messages, Nothing

\* Each wildcard subscription gets its event.
LEMMA QueueWildcardInv ==
    ASSUME Inv, QueueWildcard
    PROVE  Inv'
  <1>1. PICK a \in todo : EnqueueMsg("wc", a, current) /\ todo' = todo \ {a}
    BY DEF QueueWildcard
  <1>6. TodoOK'
    BY Zenon DEF Inv, NoUseAfterFree, TodoOK, Usable, heapVars, QueueWildcard
  <1> QED
    BY Zenon, MessageNum, EnqueueMsgEvents, <1>6, SameSubscribers DEF Inv, TypeOK, heapVars,
       callbackVars, QueueWildcard, NoUseAfterFree, Kinds

\* Each subscription that is not muted gets its event.
LEMMA QueueUpdateInv ==
    ASSUME Inv, QueueUpdate
    PROVE  Inv'
  <1>1. PICK a \in todo : /\ EnqueueMsg("sub", a, current) \/ UNCHANGED queue
                          /\ todo' = todo \ {a}
    BY DEF QueueUpdate
  <1>4. queue' \in [Queues -> Seq(Events)] /\ EventsOK'
    <2>1. CASE EnqueueMsg("sub", a, current)
      BY Zenon, <1>1, MessageNum, <2>1, EnqueueMsgEvents DEF Inv, TypeOK, NoUseAfterFree,
         QueueUpdate, Kinds
    <2>2. CASE UNCHANGED queue
      BY Zenon, <2>2, SameEvents DEF Inv, TypeOK, QueueUpdate
    <2> QED
      BY <1>1, <2>1, <2>2
  <1> QED
    BY Zenon, <1>4, <1>1, SameSubscribers DEF Inv, TypeOK, heapVars, callbackVars, QueueUpdate,
       NoUseAfterFree, TodoOK, Usable

\* A reply goes to the queue of its inbox, if there is one.
LEMMA DispatchInboxMsgInv ==
    ASSUME Inv, DispatchInboxMsg
    PROVE  Inv'
  <1>1. Head(wire) \in Messages /\ Tail(wire) \in Seq(Messages)
    BY DEF Inv, TypeOK, DispatchInboxMsg, DataReadable
  <1>2. /\ wire' = Tail(wire)
        /\ UNCHANGED <<heapVars, callbackVars, control, interest, published, dispatchVars, delivered>>
    BY DEF DispatchInboxMsg
  <1>3. queue' \in [Queues -> Seq(Events)] /\ EventsOK'
    <2>1. CASE UNCHANGED queue
      BY Zenon, <1>2, <2>1, SameEvents DEF Inv, TypeOK
    <2>2. ASSUME NEW a \in Lookup("inbox", Head(wire).id), EnqueueMsg("inbox", a, Head(wire))
          PROVE  queue' \in [Queues -> Seq(Events)] /\ EventsOK'
      <3>2. PICK m : m = Head(wire) /\ m.num \in Nat
        BY <1>1, MessageNum
      <3> QED
        BY Zenon, <1>2, <3>2, <2>2, EnqueueMsgEvents DEF Inv, TypeOK, NoUseAfterFree, Lookup,
           Kinds
    <2> QED
      BY <2>1, <2>2 DEF DispatchInboxMsg
  <1>5. TodoOK'
    BY Zenon, <1>2 DEF Inv, NoUseAfterFree, TodoOK, Usable, heapVars, dispatchVars
  <1> QED
    BY Zenon, <1>2, <1>3, <1>1, <1>5, SameSubscribers DEF Inv, TypeOK, heapVars, dispatchVars,
       callbackVars

-----------------------------------------------------------------------------
\* The callback threads.

\* The subscriber that an event names, if it is found, has this thread's queue.
LEMMA DispatchEventInv ==
    ASSUME Inv, NEW p \in Queues, DispatchEvent(p)
    PROVE  Inv'
  <1> DEFINE e == Head(queue[p])
  <1>1. /\ queue' = [queue EXCEPT ![p] = Tail(@)]
        /\ UNCHANGED <<heapVars, control, interest, wire, published, dispatchVars, delivered>>
    BY Zenon DEF DispatchEvent
  <1>2. queue[p] \in Seq(Events) /\ queue[p] # <<>>
    BY Zenon DEF DispatchEvent, Inv, TypeOK
  <1>3. /\ e \in Events /\ Tail(queue[p]) \in Seq(Events) /\ e = queue[p][1] /\ 1 \in 1..Len(queue[p])
        /\ \A i \in 1..Len(Tail(queue[p])) :
              i + 1 \in 1..Len(queue[p]) /\ Tail(queue[p])[i] = queue[p][i + 1]
    BY <1>2
  <1>4. OnItsQueue(e, p)
    BY Zenon, <1>3 DEF Inv, EventsOK
  <1>6. EventsOK'
    <2>1. ASSUME NEW q \in Queues, NEW i \in 1..Len(queue'[q])
          PROVE  OnItsQueue(queue'[q][i], q)
      BY <1>1 DEF Inv, EventsOK
    <2> QED
      BY Zenon, <1>1, <2>1 DEF EventsOK, OnItsQueue, Alive, heapVars
  <1>7. CASE UNCHANGED callbackVars
    <2>2. TodoOK'
      BY Zenon, <1>1 DEF Inv, NoUseAfterFree, TodoOK, Usable, heapVars, dispatchVars
    <2> QED
      BY Zenon, <1>1, <1>6, <1>7, <1>3, <2>2, SameSubscribers DEF Inv, TypeOK, heapVars,
         dispatchVars, callbackVars
  <1> HIDE DEF e
  <1>8. ASSUME NEW a \in Lookup(e.kind, e.id),
               event' = [event EXCEPT ![p] = e],
               target' = [target EXCEPT ![p] = a],
               cpc' = [cpc EXCEPT ![p] = "found"]
        PROVE  Inv'
    <2>2. a \in Addresses /\ Usable(a, e.kind)
      BY Zenon, <1>3, <1>8 DEF Inv, TypeOK, NoUseAfterFree, Lookup, Events
    <2>3. heap[a].queue = p
      BY Zenon, <1>4, <2>2 DEF OnItsQueue, Usable, Alive, Lookup
    <2>5. \A q \in Queues : \/ q = p /\ target'[q] = a /\ event'[q] = e /\ cpc'[q] = "found"
                            \/ q # p /\ target'[q] = target[q] /\ event'[q] = event[q]
                               /\ cpc'[q] = cpc[q]
      BY Zenon, <1>8 DEF Inv, TypeOK
    <2>6. IdsOK'
      BY <1>1, Zenon DEF Inv, IdsOK, Alive, heapVars
    <2>7. ThreadsOK'
      <3>1. ThreadOK(p)'
        BY Zenon, <1>3, <2>2, <2>5 DEF ThreadOK
      <3> QED
        BY Zenon, <3>1, <1>1, <2>5, ThreadKept DEF ThreadsOK, heapVars
    <2>8. RegistryOK' /\ TodoOK'
      BY Zenon, <1>1, Parts DEF Inv, RegistryOK, TodoOK, Usable, heapVars, dispatchVars
    <2>9. ASSUME NEW q \in Queues, cpc'[q] = "found"
          PROVE  Found(q)'
      <3>1. CASE q = p
        BY Zenon, <1>1, <2>2, <2>3, <2>5, <3>1 DEF Found, Usable, heapVars, Lookup
      <3>2. CASE q # p
        <4>1. cpc[q] = "found" /\ target'[q] = target[q] /\ event'[q] = event[q] /\ heap' = heap
          BY Zenon, <1>1, <2>5, <2>9, <3>2 DEF heapVars
        <4> QED
          BY Zenon, <4>1, FoundFacts, FoundKept DEF Found, Usable
      <3> QED
        BY <3>1, <3>2
    <2> QED
      BY Zenon, <1>6, <1>1, <1>3, <1>8, <2>2, <2>6, <2>7, <2>8, <2>9 DEF Inv, TypeOK, heapVars,
         dispatchVars, NoUseAfterFree, RegistryOK, TodoOK, Found
  <1> QED
    BY Zenon, <1>7, <1>8 DEF DispatchEvent, e

\* The subscriber is given the message, and the thread lets go of it.
LEMMA DeliverInv ==
    ASSUME Inv, NEW p \in Queues, Deliver(p)
    PROVE  Inv'
  <1>1. /\ cpc' = [cpc EXCEPT ![p] = "idle"]
        /\ event' = [event EXCEPT ![p] = Nothing]
        /\ target' = [target EXCEPT ![p] = NoAddress]
        /\ UNCHANGED <<heapVars, control, interest, wire, published, dispatchVars, queue>>
    BY Zenon DEF Deliver
  <1>2. delivered' \in Seq(Events)
    <2>1. delivered \in Seq(Events) /\ (cpc[p] = "found" => event[p] \in Events)
      BY Zenon, FoundFacts DEF Inv, TypeOK
    <2>2. delivered' = delivered \/ delivered' = Append(delivered, event[p])
      BY Zenon DEF Deliver
    <2>3. cpc[p] = "found"
      BY Zenon DEF Deliver
    <2> QED
      BY <2>1, <2>2, <2>3
  <1>4. IdsOK' /\ EventsOK'
    BY Zenon, <1>1, SameEvents DEF Inv, IdsOK, Alive, heapVars
  <1>6. ThreadsOK'
    <2>1. \A q \in Queues : cpc'[q] = "idle" => ThreadOK(q)'
      BY DEF ThreadOK
    <2> QED
      BY Zenon, <1>1, <2>1, ThreadKept DEF ThreadsOK, heapVars, Inv, TypeOK
  <1>7. RegistryOK' /\ TodoOK'
    BY Zenon, <1>1, Parts DEF Inv, RegistryOK, TodoOK, Usable, heapVars, dispatchVars
  <1>8. ASSUME NEW q \in Queues, cpc'[q] = "found"
        PROVE  Found(q)'
    <2>1. cpc[q] = "found" /\ target'[q] = target[q] /\ event'[q] = event[q] /\ heap' = heap
      BY Zenon, <1>1, <1>8 DEF heapVars, Inv, TypeOK
    <2>2. heap[target[q]].stage \in {"registered", "live"}
      BY Zenon, <2>1, FoundFacts DEF Found, Usable
    <2> QED
      BY Zenon, <2>1, <2>2, FoundKept
  <1> QED
    BY Zenon, <1>1, <1>2, <1>4, <1>6, <1>7, <1>8 DEF Inv, TypeOK, heapVars, dispatchVars,
       NoUseAfterFree, RegistryOK, TodoOK, Found

-----------------------------------------------------------------------------
\* Steps that change subscribers.

\* Identifiers stay with their subscribers, and events on their queues, while none
\* is created.
LEMMA KeptIdentities ==
    ASSUME IdsOK, EventsOK, UNCHANGED <<uid, queue>>,
           \A b \in Addresses : heap'[b].stage # "freed" =>
              /\ heap[b].stage # "freed" /\ heap'[b].kind = heap[b].kind
              /\ heap'[b].id = heap[b].id /\ heap'[b].queue = heap[b].queue
    PROVE  IdsOK' /\ EventsOK'
  BY DEF IdsOK, Alive, EventsOK, OnItsQueue

\* A subscriber that is in service stays in service: SendSubscribe and Mute.
LEMMA StaysUsable ==
    ASSUME Inv, NEW a \in Addresses, NEW r \in Heap, heap' = [heap EXCEPT ![a] = r],
           heap[a].stage \in {"registered", "live"}, r.stage \in {"registered", "live"},
           r.kind = heap[a].kind, r.id = heap[a].id, r.queue = heap[a].queue,
           control' \in Seq([command : {"S", "U"}, key : Keys]),
           UNCHANGED <<uid, registry, interest, wire, published, dispatchVars, queue,
                       callbackVars, delivered>>
    PROVE  Inv'
  <1>4. ThreadsOK'
    BY DestroyFacts, ThreadKept DEF ThreadsOK, callbackVars
  <1>6. RegistryOK' /\ TodoOK'
    BY RegistryKept, TodoKept DEF dispatchVars, KeepsService
  <1>7. ASSUME NEW q \in Queues, cpc'[q] = "found"
        PROVE  Found(q)'
    <2>1. cpc[q] = "found" /\ target'[q] = target[q] /\ event'[q] = event[q]
      BY <1>7 DEF callbackVars
    <2>2. target[q] \in Addresses /\ heap[target[q]].stage \in {"registered", "live"}
      BY Zenon, <2>1, FoundFacts DEF Found, Usable
    <2> QED
      BY <2>1, <2>2, FoundKept
  <1> QED
    BY Zenon, TypeFacts, TypesKept, KeptIdentities, <1>4, <1>6, <1>7 DEF Inv, NoUseAfterFree,
       RegistryOK, TodoOK, Found

\* create asks for the subscription.
LEMMA SendSubscribeInv ==
    ASSUME Inv, NEW a \in Addresses, SendSubscribe(a)
    PROVE  Inv'
  <1>1. heap[a] \in Heap /\ heap[a] \in Subscribers /\ heap[a].stage = "registered"
    BY Zenon, HeapFields DEF Inv, TypeOK, Heap, SendSubscribe
  <1>2. PICK r : r = [heap[a] EXCEPT !.stage = "live"]
    BY Zenon
  <1>3. /\ r \in Heap /\ r.stage = "live"
        /\ r.kind = heap[a].kind /\ r.queue = heap[a].queue /\ r.id = heap[a].id
    BY <1>1, <1>2, StageFields
  <1>5. control' \in Seq([command : {"S", "U"}, key : Keys])
    BY <1>1 DEF SendSubscribe, SendCommand, Inv, TypeOK, Subscribers
  <1> QED
    BY Zenon, <1>3, <1>2, <1>5, StaysUsable DEF SendSubscribe

\* A subscription is muted.
LEMMA MuteInv ==
    ASSUME Inv, NEW a \in Addresses, Mute(a)
    PROVE  Inv'
  <1>1. heap[a] \in Subscribers /\ heap[a].stage = "live"
    BY HeapFields, Zenon DEF Inv, TypeOK, Heap, Mute
  <1>2. PICK r : r = [heap[a] EXCEPT !.mIsNotMuted = FALSE]
    BY Zenon
  <1>3. /\ r \in Heap /\ r.stage = "live"
        /\ r.kind = heap[a].kind /\ r.queue = heap[a].queue /\ r.id = heap[a].id
    BY <1>1, <1>2, MuteFields
  <1> QED
    BY Zenon, <1>3, <1>2, StaysUsable DEF Mute, Inv, TypeOK

\* An event that names none of the new subscribers stays on its queue.
LEMMA NamesNoNew ==
    ASSUME NEW e, NEW q, OnItsQueue(e, q), e.id \in Nat,
           uid[e.kind] \in Nat, uid'[e.kind] \in Nat, uid[e.kind] <= uid'[e.kind],
           \A b \in Addresses : heap'[b] = heap[b] \/ heap'[b].kind # e.kind \/ heap'[b].id # e.id
    PROVE  OnItsQueue(e, q)'
  BY DEF OnItsQueue, Alive

\* Subscriber r is put at address a, with the next identifier of its kind.
Adds(a, kind, r) ==
    /\ r.kind = kind /\ r.id = uid[kind] + 1 /\ uid'[kind] = uid[kind] + 1
    /\ \A b \in Addresses : heap'[b] = IF b = a THEN r ELSE heap[b]
    /\ \A k \in Kinds : uid[k] \in Nat /\ uid'[k] \in Nat /\ uid[k] <= uid'[k]

\* No other has had its identifier.
LEMMA NewIsUnknown ==
    ASSUME Inv, NEW a \in Addresses, NEW kind \in Kinds, NEW r, Adds(a, kind, r),
           NEW b \in Addresses, Alive(b), heap[b].kind = kind
    PROVE  heap[b].id # r.id
  BY DEF Adds, Inv, IdsOK

\* So identifiers still differ.
LEMMA NewIds ==
    ASSUME Inv, NEW a \in Addresses, NEW kind \in Kinds, NEW r, Adds(a, kind, r)
    PROVE  IdsOK'
  <1>1. heap'[a] = r /\ r.kind = kind /\ r.id = uid'[kind] /\ uid'[kind] \in Nat
    BY DEF Adds
  <1>2. \A b \in Addresses : b # a => heap'[b] = heap[b]
    BY DEF Adds
  <1>3. ASSUME NEW b \in Addresses, heap'[b].stage # "freed"
        PROVE  heap'[b].id <= uid'[heap'[b].kind]
    BY SMTT(30), <1>3, TypeFacts, HeapFields DEF Alive, Inv, IdsOK, Adds
  <1>4. ASSUME NEW b \in Addresses, NEW c \in Addresses, heap'[b].stage # "freed",
               heap'[c].stage # "freed", heap'[b].kind = heap'[c].kind, heap'[b].id = heap'[c].id
        PROVE  b = c
    BY <1>1, <1>2, <1>4, NewIsUnknown DEF Alive, Inv, IdsOK
  <1> QED
    BY Zenon, <1>3, <1>4 DEF IdsOK, Alive

\* And no event names it.
LEMMA NewEvents ==
    ASSUME Inv, queue' = queue, NEW a \in Addresses, NEW kind \in Kinds, NEW r, Adds(a, kind, r)
    PROVE  EventsOK'
  <1>1. ASSUME NEW e \in Events, NEW q, OnItsQueue(e, q)
        PROVE  OnItsQueue(e, q)'
    <2>5. \A b \in Addresses : heap'[b] = heap[b] \/ heap'[b].kind # e.kind \/ heap'[b].id # e.id
      BY <1>1 DEF Adds, OnItsQueue
    <2> QED
      BY Zenon, <1>1, <2>5, NamesNoNew DEF Events, Adds
  <1>2. ASSUME NEW q \in Queues, NEW i \in 1..Len(queue[q])
        PROVE  OnItsQueue(queue[q][i], q)'
    <2>1. PICK e : e = queue[q][i]
      BY ZenonT(30)
    <2> QED
      BY <2>1, <1>1 DEF Inv, TypeOK, EventsOK
  <1> QED
    BY <1>2 DEF EventsOK

\* A new subscriber has an address that nobody refers to and an identifier that no
\* event names.
LEMMA NewSubscriber ==
    ASSUME Inv, NEW a \in Addresses, heap[a] = Freed, NEW kind \in Kinds, NEW r \in Heap,
           r.stage \in {"registered", "live"}, r.kind = kind, r.id = uid[kind] + 1,
           heap' = [heap EXCEPT ![a] = r],
           uid' = [uid EXCEPT ![kind] = uid[kind] + 1],
           registry' = [registry EXCEPT ![kind] = @ \cup {a}],
           UNCHANGED <<control, interest, wire, published, dispatchVars, queue, callbackVars,
                       delivered>>
    PROVE  Inv'
  <1>1. TypeOK'
    <2>3. registry' \in [Kinds -> SUBSET Addresses]
      BY TypeFacts
    <2> QED
      BY Zenon, TypeFacts, NextNumber, <2>3, TypesKept DEF Inv, TypeOK
  <1>3. heap[a].stage = "freed"
    BY FreedStage
  <1>5. IdsOK' /\ EventsOK'
    BY TypeFacts, NewIds, NewEvents DEF Adds
  <1>7. RegistryOK'
    <2>1. ASSUME NEW k \in Kinds, NEW b \in registry'[k]
          PROVE  Usable(b, k)'
      <3>2. b \in registry[k] => b # a /\ b \in Addresses /\ Usable(b, k)
        BY <1>3, RegistryFacts DEF Usable
      <3> QED
        BY <3>2 DEF Usable, Inv, TypeOK
    <2> QED
      BY Zenon, <2>1 DEF RegistryOK
  <1>8. TodoOK'
    BY <1>3, TodoKept DEF KeepsService, dispatchVars
  <1>9. ASSUME NEW q \in Queues, cpc'[q] = "found"
         PROVE  Found(q)'
    <2>3. heap'[target[q]] = heap[target[q]]
      BY <1>3, <1>9, FoundFacts DEF Found, Usable, callbackVars
    <2> QED
      BY Zenon, <1>9, FoundFacts, <2>3, FoundKept DEF callbackVars, Found, Usable
  <1>10. NoUseAfterFree'
    BY <1>7, <1>8, <1>9, Zenon DEF NoUseAfterFree, RegistryOK, TodoOK, Found
  <1> QED
    BY <1>1, <1>5, <1>3, DestroyFacts, ThreadKept, <1>10 DEF Inv, ThreadsOK, callbackVars

\* create and createWildCard, up to the registration.
LEMMA CreateInv ==
    ASSUME Inv, NEW kind \in {"sub", "wc"}, NEW key \in Keys, NEW q \in Queues,
           NEW a \in Addresses, Create(kind, key, q, a)
    PROVE  Inv'
  <1>2. PICK r : r = [stage |-> "registered", kind |-> kind, key |-> key, queue |-> q,
                      id |-> uid[kind] + 1, mIsNotMuted |-> TRUE]
    BY Zenon
  <1> QED
    BY Zenon, NextNumber, NewSubscriber DEF Create, NextSerial, Heap, Subscribers, Kinds

\* An inbox is created and registered.
LEMMA CreateInboxInv ==
    ASSUME Inv, NEW q \in Queues, NEW a \in Addresses, CreateInbox(q, a)
    PROVE  Inv'
  <1>2. PICK r : r = [stage |-> "live", kind |-> "inbox", queue |-> q, id |-> uid["inbox"] + 1]
    BY Zenon
  <1> QED
    BY Zenon, NextNumber, <1>2, NewSubscriber DEF CreateInbox, RegisterInbox, Kinds, Heap,
       Inboxes, NextSerial

\* A subscriber is unregistered by the thread of its queue: neither the dispatch
\* thread, whose lock is taken, nor a callback refers to it.
LEMMA UnregisterInv ==
    ASSUME Inv, NEW p \in Queues, NEW a \in Addresses, heap[a].stage = "live",
           ~Locked(heap[a].kind), Unregister(p, a)
    PROVE  Inv'
  <1>1. heap[a] \in Heap /\ heap[a].kind \in Kinds
    BY Zenon, HeapFields DEF Inv, TypeOK, Heap
  <1>2. PICK r : r = [heap[a] EXCEPT !.stage = "unregistered"]
    BY Zenon
  <1>3. /\ r \in Heap /\ r.stage = "unregistered"
        /\ r.kind = heap[a].kind /\ r.queue = heap[a].queue /\ r.id = heap[a].id
    BY <1>1, <1>2, StageFields
  <1>4. /\ heap' = [heap EXCEPT ![a] = r]
        /\ heap[a].queue = p /\ cpc[p] = "idle"
        /\ registry' = [registry EXCEPT ![heap[a].kind] = @ \ {a}]
        /\ cpc' = [cpc EXCEPT ![p] = "destroy"]
        /\ target' = [target EXCEPT ![p] = a]
        /\ UNCHANGED <<uid, control, interest, wire, published, dispatchVars, queue, event,
                       delivered>>
    BY Zenon, <1>2 DEF Unregister
  <1>6. \A b \in Addresses : heap'[b] = IF b = a THEN r ELSE heap[b]
    BY Zenon, <1>4 DEF Inv, TypeOK
  <1>7. IdsOK' /\ EventsOK'
    <2>1. ASSUME NEW b \in Addresses, heap'[b].stage # "freed"
          PROVE  /\ heap[b].stage # "freed" /\ heap'[b].kind = heap[b].kind
                 /\ heap'[b].id = heap[b].id /\ heap'[b].queue = heap[b].queue
      BY Zenon, <1>3, <1>6, <2>1
    <2> QED
      BY Zenon, <1>4, <2>1, KeptIdentities DEF Inv
  <1>9. ThreadsOK'
    <2>1. ThreadOK(p)'
      BY Zenon, <1>3, <1>4, <1>6 DEF ThreadOK, Inv, TypeOK
    <2> QED
      BY <2>1, <1>4, <1>6, DestroyFacts, ThreadKept DEF ThreadsOK
  <1>10. RegistryOK'
    <2>1. ASSUME NEW k \in Kinds, NEW b \in registry'[k]
          PROVE  Usable(b, k)'
      <3>1. b \in registry[k] /\ (k = heap[a].kind => b # a)
        BY Zenon, <1>4 DEF Inv, TypeOK
      <3> QED
        BY <1>6, <3>1, RegistryFacts DEF Usable
    <2> QED
      BY <2>1, Zenon DEF RegistryOK
  <1>11. TodoOK'
    BY TodoFacts, <1>4 DEF Usable, Locked, TodoOK, dispatchVars
  <1>12. ASSUME NEW q \in Queues, cpc'[q] = "found"
         PROVE  Found(q)'
    <2>1. q # p /\ cpc[q] = "found" /\ target'[q] = target[q] /\ event'[q] = event[q]
      BY Zenon, <1>4, <1>12 DEF Inv, TypeOK
    <2>3. heap'[target[q]] = heap[target[q]]
      BY <1>4, <2>1, FoundFacts DEF Found
    <2> QED
      BY Zenon, <2>1, FoundFacts, <2>3, FoundKept DEF Found, Usable
  <1>13. NoUseAfterFree'
    BY Zenon, <1>10, <1>11, <1>12 DEF NoUseAfterFree, RegistryOK, TodoOK, Found
  <1> QED
    BY Zenon, <1>3, <1>4, <1>7, <1>9, <1>13 DEF Inv, TypeOK, Heap, dispatchVars

\* A subscriber that has been unregistered is freed, with nobody referring to it.
LEMMA ReleaseInv ==
    ASSUME Inv, NEW p \in Queues, Release(p)
    PROVE  Inv'
  <1>0. heap \in [Addresses -> Heap] /\ cpc[p] = "destroy"
    BY Zenon DEF Inv, TypeOK, Release, Heap
  <1>1. PICK a \in Addresses : /\ a = target[p] /\ heap[a].stage = "unregistered"
                               /\ heap[a].queue = p /\ heap[a] \in Heap
    BY <1>0, DestroyFacts
  <1>2. /\ heap' = [heap EXCEPT ![a] = Freed]
        /\ cpc' = [cpc EXCEPT ![p] = "idle"]
        /\ target' = [target EXCEPT ![p] = NoAddress]
        /\ UNCHANGED <<uid, registry, interest, wire, published, dispatchVars, queue, event,
                       delivered>>
    BY <1>1, Zenon DEF Release
  <1>3. control' \in Seq([command : {"S", "U"}, key : Keys])
    <2>3. control \in Seq([command : {"S", "U"}, key : Keys])
      BY DEF Inv, TypeOK
    <2>4. ASSUME heap[a].kind # "inbox"
          PROVE  [command |-> "U", key |-> heap[a].key] \in [command : {"S", "U"}, key : Keys]
      BY Zenon, <1>1, HeapFields, <2>4 DEF Subscribers
    <2>5. CASE UNCHANGED control
      BY Zenon, <2>3, <2>5
    <2>6. CASE /\ heap[a].kind # "inbox"
               /\ control' = Append(control, [command |-> "U", key |-> heap[a].key])
      BY <2>3, <2>4, <2>6
    <2> QED
      BY Zenon, <1>1, <2>5, <2>6 DEF Release, SendCommand
  <1>5. \A b \in Addresses : heap'[b] = IF b = a THEN Freed ELSE heap[b]
    BY Zenon, <1>2 DEF Inv, TypeOK
  <1>6. IdsOK' /\ EventsOK'
    BY Zenon, <1>5, FreedStage, <1>2, KeptIdentities DEF Inv
  <1>7. \A q \in Queues : \/ q = p /\ cpc'[q] = "idle"
                          \/ q # p /\ cpc'[q] = cpc[q] /\ target'[q] = target[q]
    BY Zenon, <1>2 DEF Inv, TypeOK
  <1>8. ThreadsOK'
    <2>3. \A q \in Queues : q # p => ThreadOK(q)'
      BY <1>2, <1>1, DestroyFacts, ThreadKept
    <2> QED
      BY Zenon, <1>7, <2>3 DEF ThreadsOK, ThreadOK
  <1>10. KeepsService
    BY <1>1, <1>5 DEF KeepsService
  <1>11. RegistryOK' /\ TodoOK'
    BY <1>2, <1>10, RegistryKept, TodoKept DEF dispatchVars
  <1>12. ASSUME NEW q \in Queues, cpc'[q] = "found"
         PROVE  Found(q)'
    <2>2. /\ target[q] \in Addresses /\ Usable(target[q], event[q].kind)
          /\ heap[target[q]].stage \in {"registered", "live"}
      BY <1>2, <1>12, FoundFacts DEF Found, Usable
    <2>3. heap'[target[q]] = heap[target[q]]
      BY Zenon, <1>1, <1>5, <2>2
    <2> QED
      BY Zenon, <1>2, <1>7, <1>12, <2>2, <2>3, FoundKept
  <1> QED
    BY Zenon, <1>2, <1>3, <1>6, <1>8, <1>11, <1>12 DEF Inv, TypeOK, dispatchVars, NoUseAfterFree,
       RegistryOK, TodoOK, Found

-----------------------------------------------------------------------------
\* Every step preserves the invariant.
LEMMA StepInv ==
    ASSUME Inv, [Next]_vars
    PROVE  Inv'
  <1>1. CASE UNCHANGED vars
    <2>4. TodoOK'
      BY Zenon, <1>1 DEF Inv, NoUseAfterFree, TodoOK, Usable, heapVars, dispatchVars, vars
    <2> QED
      BY Zenon, <1>1, SameEvents, <2>4, SameSubscribers DEF vars, heapVars, dispatchVars,
         callbackVars, Inv, TypeOK
  <1>2. CASE Application
    BY <1>2, CreateInv, CreateInboxInv, SendSubscribeInv, MuteInv DEF Application, Keys
  <1>3. CASE PublishTopic
    BY <1>3, NextNumber, MessageType, PublishInv DEF PublishTopic
  <1>4. CASE PublishReply
    BY <1>4, NextNumber, MessageType, PublishInv DEF PublishReply
  <1>5. CASE DispatchThread
    BY <1>5, SocketInv, LookupInv, QueueWildcardInv, QueueUpdateInv, DispatchInboxMsgInv
    DEF DispatchThread
  <1>6. ASSUME NEW q \in Queues, CallbackStep(q)
        PROVE  Inv'
    BY <1>6, DispatchEventInv, DeliverInv, ReleaseInv DEF CallbackStep
  <1>7. ASSUME NEW q \in Queues, NEW a \in Addresses, DestroySubscription(q, a) \/ DestroyInbox(q, a)
        PROVE  Inv'
    BY <1>7, UnregisterInv DEF DestroySubscription, DestroyInbox, Locked
  <1> QED
    BY <1>1, <1>2, <1>3, <1>4, <1>5, <1>6, <1>7 DEF Next

\* The inductive invariant holds in every reachable state.
THEOREM Invariance == Spec => []Inv
    BY InitInv, StepInv, PTL DEF Spec

\* All state keeps its type, for any addresses, queues, topics and bounds.
THEOREM TypeCorrect == Spec => []TypeOK
  <1>1. Inv => TypeOK
    BY DEF Inv
  <1> QED
    BY <1>1, Invariance, PTL

\* No thread is left with a pointer to a subscriber that destroy has released, nor
\* takes one that reuses the memory of the addressee for the addressee.
THEOREM ReleasedIsForgotten == Spec => []NoUseAfterFree
  <1>1. Inv => NoUseAfterFree
    BY DEF Inv
  <1> QED
    BY <1>1, Invariance, PTL
-----------------------------------------------------------------------------
\* The order of deliveries.  The numbers of the messages grow from what has been
\* delivered, over what a callback thread has found and what is on the queues, to
\* the message being dispatched and those on the wire.  For what is on the queues
\* and delivered, that is so only for the events of one subscriber, and only while
\* there is a subscriber that they name.

SameName(d, e) == d.kind = e.kind /\ d.id = e.id
Names(e, a) == Alive(a) /\ heap[a].kind = e.kind /\ heap[a].id = e.id

\* All events that were ever made, except for those that were dropped.
Queued == UNION {{queue[q][i] : i \in 1..Len(queue[q])} : q \in Queues}
InHand == {event[q] : q \in {p \in Queues : cpc[p] = "found"}}
Given == {delivered[i] : i \in 1..Len(delivered)}
Sent == Queued \cup InHand \cup Given

QueueOrder ==
    \A q \in Queues : \A i, j \in 1..Len(queue[q]) :
        i < j /\ SameName(queue[q][i], queue[q][j]) => queue[q][i].num < queue[q][j].num

FoundOrder ==
    \A q \in Queues : cpc[q] = "found" =>
        /\ \A i \in 1..Len(queue[q]) :
              SameName(event[q], queue[q][i]) => event[q].num < queue[q][i].num
        /\ \A d \in Given : SameName(d, event[q]) => d.num < event[q].num

DeliveredOrder ==
    \A e \in Queued, d \in Given, a \in Addresses :
        Names(e, a) /\ Names(d, a) => d.num < e.num

WireOrder ==
    /\ \A i, j \in 1..Len(wire) : i < j => wire[i].num < wire[j].num
    /\ \A i \in 1..Len(wire) : wire[i].num <= published
    /\ \A e \in Sent : e.num <= published
    /\ \A e \in Sent, i \in 1..Len(wire) : e.num < wire[i].num

\* While a message is being dispatched, it is new to the subscribers that are still
\* to be given it; and to all regular ones before their turn comes.
CurrentOrder ==
    dpc \in {"wildcards", "subs"} =>
        /\ current \in Messages
        /\ current.num <= published
        /\ \A i \in 1..Len(wire) : current.num < wire[i].num
        /\ \A e \in Sent :
              /\ e.num <= current.num
              /\ dpc = "wildcards" /\ e.kind = "sub" => e.num < current.num
              /\ \A a \in todo : Names(e, a) => e.num < current.num

OrderInv ==
    /\ QueueOrder /\ FoundOrder /\ DeliveredOrder /\ WireOrder /\ CurrentOrder
    /\ \A d \in Given : d.id <= uid[d.kind]

\* The types of numbers.
LEMMA OrderTypes ==
    ASSUME Inv
    PROVE  /\ published \in Nat
           /\ \A i \in 1..Len(wire) : wire[i] \in Messages /\ wire[i].num \in Nat
           /\ \A q \in Queues : queue[q] \in Seq(Events) /\ Len(queue[q]) \in Nat
           /\ \A q \in Queues : \A i \in 1..Len(queue[q]) : queue[q][i] \in Queued
           /\ \A e \in Sent : e \in Events /\ e.num \in Nat /\ e.id \in Nat /\ e.kind \in Kinds
           /\ \A q \in Queues : cpc[q] = "found" => event[q] \in Sent
  <1>1. /\ published \in Nat /\ wire \in Seq(Messages) /\ queue \in [Queues -> Seq(Events)]
        /\ Given \subseteq Events
    BY DEF Inv, TypeOK, Given
  <1>5. \A e \in Sent : e \in Events
    BY <1>1, FoundFacts DEF Queued, InHand, Sent
  <1>6. \A e \in Events : e.num \in Nat /\ e.id \in Nat /\ e.kind \in Kinds
    BY DEF Events
  <1>7. \A q \in Queues : cpc[q] = "found" => event[q] \in Sent
    BY Zenon DEF Sent, InHand
  <1> QED
    BY <1>1, MessageNum, <1>5, <1>6, <1>7 DEF Queued

\* Nothing has happened in the beginning.
LEMMA InitOrder ==
    ASSUME Init
    PROVE  OrderInv
  BY SMTT(30) DEF OrderInv, QueueOrder, FoundOrder, DeliveredOrder, WireOrder, CurrentOrder, Init,
     Queued, InHand, Given, Sent

\* Nothing is delivered.
LEMMA GivenKept ==
    ASSUME delivered' = delivered
    PROVE  Given' = Given
  BY DEF Given

\* The events are those that were there before.
LEMMA SentKept ==
    ASSUME queue' = queue, cpc' = cpc, event' = event, Given' = Given
    PROVE  Queued' = Queued /\ Sent' = Sent
  BY DEF Queued, InHand, Sent

\* A step that makes no event and reads no message: the subscribers that an event
\* names are no more than before, and no message is taken up.
LEMMA QuietOrder ==
    ASSUME Inv, OrderInv, UNCHANGED <<queue, event, wire, Given, published>>,
           \A q \in Queues : cpc'[q] = "found" => cpc[q] = "found",
           \A e \in Sent, a \in Addresses : Names(e, a)' => Names(e, a),
           \A k \in Kinds : uid'[k] \in Nat /\ uid'[k] >= uid[k],
           dpc' \in {"wildcards", "subs"} => dpc' = dpc /\ current' = current /\ todo' \subseteq todo
    PROVE  OrderInv'
  <1>1. Queued' = Queued /\ InHand' \subseteq InHand /\ Sent' \subseteq Sent
    BY DEF Queued, InHand, Sent
  <1>2. QueueOrder' /\ FoundOrder'
    BY DEF OrderInv, QueueOrder, FoundOrder
  <1>5. CurrentOrder'
    BY Zenon, <1>1 DEF CurrentOrder, Inv, TypeOK, OrderInv
  <1>6. \A d \in Given' : d.id <= uid'[d.kind]
    BY OrderTypes, TypeFacts DEF OrderInv, Sent
  <1> QED
    BY Zenon, <1>2, <1>1, <1>5, <1>6 DEF OrderInv, Sent, DeliveredOrder, WireOrder

\* A message is published: its number is the next one.
LEMMA PublishOrder ==
    ASSUME Inv, OrderInv, NEW m, m.num = published + 1, Publish(m)
    PROVE  OrderInv'
  <1>1. UNCHANGED <<heap, uid, queue, cpc, event, Given, dpc, current, todo>>
    BY GivenKept DEF Publish, heapVars, callbackVars, dispatchVars
  <1>2. Queued' = Queued /\ Sent' = Sent
    BY Zenon, <1>1, SentKept
  <1>3. published' = published + 1 /\ published \in Nat /\ wire \in Seq(Messages)
    BY Zenon DEF Publish, Inv, TypeOK
  <1>5. \A i \in 1..Len(wire') : \/ i \in 1..Len(wire) /\ wire'[i] = wire[i]
                                 \/ i = Len(wire) + 1 /\ wire'[i].num = published + 1
    BY SMTT(30) DEF Publish
  <1>6. QueueOrder' /\ FoundOrder' /\ DeliveredOrder'
    BY <1>1, <1>2 DEF OrderInv, QueueOrder, FoundOrder, DeliveredOrder, Names, Alive
  <1>7. WireOrder'
    <2>1. /\ \A i \in 1..Len(wire) : wire[i].num \in Nat /\ wire[i].num <= published
          /\ \A e \in Sent : e.num \in Nat /\ e.num <= published
      BY Zenon, OrderTypes DEF OrderInv, WireOrder
    <2>3. \A i, j \in 1..Len(wire') : i < j => wire'[i].num < wire'[j].num
      <3>1. SUFFICES ASSUME NEW i \in 1..Len(wire'), NEW j \in 1..Len(wire'), i < j
                     PROVE  wire'[i].num < wire'[j].num
        OBVIOUS
      <3>2. i \in 1..Len(wire) /\ wire'[i] = wire[i]
        BY <3>1 DEF Publish
      <3>3. CASE j \in 1..Len(wire) /\ wire'[j] = wire[j]
        BY <3>1, <3>2, <3>3 DEF OrderInv, WireOrder
      <3>4. CASE wire'[j].num = published + 1
        BY <1>3, <2>1, <3>2, <3>4
      <3> QED
        BY <1>5, <3>3, <3>4
    <2>5. \A e \in Sent, i \in 1..Len(wire') : e.num < wire'[i].num
      <3>1. SUFFICES ASSUME NEW e \in Sent, NEW i \in 1..Len(wire')
                     PROVE  e.num < wire'[i].num
        OBVIOUS
      <3>2. CASE i \in 1..Len(wire) /\ wire'[i] = wire[i]
        BY <3>2 DEF OrderInv, WireOrder
      <3>3. CASE wire'[i].num = published + 1
        BY <1>3, <2>1, <3>3
      <3> QED
        BY <1>5, <3>2, <3>3
    <2>6. \A i \in 1..Len(wire') : wire'[i].num <= published'
      BY <1>3, <1>5, <2>1
    <2>7. \A e \in Sent : e.num <= published'
      BY <1>3, <2>1
    <2> QED
      BY Zenon, <1>2, <2>3, <2>5, <2>6, <2>7 DEF WireOrder
  <1>8. CurrentOrder'
    <2>1. SUFFICES ASSUME dpc \in {"wildcards", "subs"}
                   PROVE  CurrentOrder'
      BY <1>1 DEF CurrentOrder
    <2>2. /\ current \in Messages /\ current.num <= published /\ current.num \in Nat
          /\ \A i \in 1..Len(wire) : current.num < wire[i].num
      BY <2>1, MessageNum DEF OrderInv, CurrentOrder
    <2>3. current.num <= published' /\ current.num < published + 1
      BY <1>3, <2>2
    <2>4. \A i \in 1..Len(wire') : current.num < wire'[i].num
      BY Zenon, <1>5, <2>2, <2>3
    <2> QED
      BY Zenon, <1>1, <1>2, <2>3, <2>4 DEF OrderInv, CurrentOrder, Names, Alive
  <1> QED
    BY <1>6, <1>7, <1>8, <1>1 DEF OrderInv

\* The first message on the wire: what comes after it, and what was before it.
LEMMA HeadOrder ==
    ASSUME Inv, OrderInv, wire # <<>>
    PROVE  /\ Head(wire) \in Messages /\ Head(wire).num \in Nat /\ Head(wire).num <= published
           /\ \A e \in Sent : e.num < Head(wire).num
           /\ \A i \in 1..Len(Tail(wire)) : Head(wire).num < Tail(wire)[i].num
           /\ \A i \in 1..Len(Tail(wire)) : i + 1 \in 1..Len(wire) /\ Tail(wire)[i] = wire[i + 1]
  <1>2. /\ Head(wire) \in Messages /\ Head(wire) = wire[1] /\ 1 \in 1..Len(wire)
        /\ \A i \in 1..Len(Tail(wire)) : i + 1 \in 1..Len(wire) /\ Tail(wire)[i] = wire[i + 1]
    BY DEF Inv, TypeOK
  <1> QED
    BY <1>2, MessageNum DEF OrderInv, WireOrder

\* What is left on the wire is in order.
LEMMA TailOrder ==
    ASSUME Inv, OrderInv, wire # <<>>, wire' = Tail(wire), published' = published,
           \A e \in Sent' : e \in Sent \/ e.num = Head(wire).num
    PROVE  WireOrder'
  <1>1. \A i \in 1..Len(wire') : i + 1 \in 1..Len(wire) /\ wire'[i] = wire[i + 1]
    BY Zenon, HeadOrder
  <1>2. \A i, j \in 1..Len(wire') : i < j => wire'[i].num < wire'[j].num
    BY <1>1 DEF OrderInv, WireOrder
  <1>3. \A i \in 1..Len(wire') : wire'[i].num <= published'
    BY Zenon, <1>1 DEF OrderInv, WireOrder
  <1>4. \A e \in Sent' : e.num <= published'
    BY Zenon, HeadOrder DEF OrderInv, WireOrder
  <1>5. \A e \in Sent', i \in 1..Len(wire') : e.num < wire'[i].num
    BY Zenon, <1>1, HeadOrder DEF OrderInv, WireOrder
  <1> QED
    BY Zenon, <1>2, <1>3, <1>4, <1>5 DEF WireOrder

\* An event is put on the queue of a subscriber that has not been sent any other
\* with as high a number.
LEMMA EnqueueOrder ==
    ASSUME Inv, OrderInv, NEW kind \in Kinds, NEW a \in Addresses, Usable(a, kind),
           NEW m, m.num \in Nat, EnqueueMsg(kind, a, m),
           UNCHANGED <<heapVars, callbackVars, Given>>,
           \A d \in Sent : Names(d, a) => d.num < m.num
    PROVE  /\ QueueOrder' /\ FoundOrder' /\ DeliveredOrder'
           /\ \A d \in Sent' : \/ d \in Sent
                               \/ d.num = m.num /\ d.kind = kind /\ d.id = heap[a].id
  <1>1. /\ queue \in [Queues -> Seq(Events)]
        /\ heap[a] \in Heap /\ Alive(a) /\ heap[a].kind = kind
    BY Zenon DEF Inv, TypeOK, Heap, Usable, Alive
  <1>2. PICK p \in Queues : p = heap[a].queue
    BY <1>1, HeapFields DEF Alive
  <1>3. PICK e \in Events : e = TransportMsg(kind, a, m)
    BY <1>1, TransportMsgType DEF Inv
  <1>6. /\ \A q \in Queues : q # p => queue'[q] = queue[q]
        /\ queue'[p] = Append(queue[p], e) /\ queue[p] \in Seq(Events)
    BY Zenon, <1>1, <1>2, <1>3 DEF EnqueueMsg
  <1>8. \A i \in 1..Len(queue'[p]) : \/ i \in 1..Len(queue[p]) /\ queue'[p][i] = queue[p][i]
                                     \/ i = Len(queue[p]) + 1 /\ queue'[p][i] = e
    BY <1>6
  <1>9. UNCHANGED <<heap, uid, cpc, event, Given>>
    BY Zenon DEF heapVars, callbackVars
  <1>10. \A d \in Queued' : d \in Queued \/ d = e
    <2>1. SUFFICES ASSUME NEW q \in Queues, NEW i \in 1..Len(queue'[q])
                   PROVE  queue'[q][i] \in Queued \/ queue'[q][i] = e
      BY DEF Queued
    <2>2. CASE q = p
      BY Zenon, <1>8, <2>2, OrderTypes
    <2>3. CASE q # p
      BY Zenon, <1>6, <2>3, OrderTypes
    <2> QED
      BY Zenon, <2>2, <2>3
  <1>12. \A d \in Sent : SameName(d, e) => d.num < e.num
    BY Zenon, <1>1, <1>3 DEF SameName, Names, TransportMsg
  <1>14. QueueOrder'
    <2>1. SUFFICES ASSUME NEW q \in Queues, NEW i \in 1..Len(queue'[q]), NEW j \in 1..Len(queue'[q]),
                          i < j, SameName(queue'[q][i], queue'[q][j])
                   PROVE  queue'[q][i].num < queue'[q][j].num
      BY Zenon DEF QueueOrder
    <2>2. CASE q # p
      BY Zenon, <1>6, <2>1, <2>2 DEF OrderInv, QueueOrder
    <2>3. CASE q = p
      <3>1. i \in 1..Len(queue[p]) /\ queue'[p][i] = queue[p][i]
        BY <1>6, <2>1, <2>3
      <3>2. CASE j \in 1..Len(queue[p]) /\ queue'[p][j] = queue[p][j]
        BY Zenon, <2>1, <2>3, <3>1, <3>2 DEF OrderInv, QueueOrder
      <3>3. CASE queue'[p][j] = e
        BY Zenon, <1>12, OrderTypes, <2>1, <2>3, <3>1, <3>3 DEF Sent
      <3> QED
        BY Zenon, <1>8, <2>3, <3>2, <3>3
    <2> QED
      BY Zenon, <2>2, <2>3
  <1>15. FoundOrder'
    <2>1. SUFFICES ASSUME NEW q \in Queues, cpc[q] = "found", NEW i \in 1..Len(queue'[q]),
                          SameName(event[q], queue'[q][i])
                   PROVE  event[q].num < queue'[q][i].num
      BY Zenon, <1>9 DEF OrderInv, FoundOrder
    <2>2. CASE q # p
      BY Zenon, <1>6, <2>1, <2>2 DEF OrderInv, FoundOrder
    <2>3. CASE q = p
      BY Zenon, <2>1, <2>3, <1>12, OrderTypes, <1>8 DEF OrderInv, FoundOrder
    <2> QED
      BY <2>2, <2>3
  <1>16. DeliveredOrder'
    <2>1. SUFFICES ASSUME NEW f \in Queued', NEW d \in Given, NEW b \in Addresses,
                          Names(f, b), Names(d, b)
                   PROVE  d.num < f.num
      BY Zenon, <1>9 DEF DeliveredOrder, Names, Alive
    <2>2. CASE f \in Queued
      BY <2>1, <2>2 DEF OrderInv, DeliveredOrder
    <2>3. CASE f = e
      BY ZenonT(30), <1>12, <2>1, <2>3 DEF Names, SameName, Sent
    <2> QED
      BY <1>10, <2>2, <2>3
  <1> QED
    BY <1>3, <1>9, <1>10, <1>14, <1>15, <1>16 DEF TransportMsg, Sent, InHand

\* An event of a subscriber that is still to be given the message.
LEMMA StepOrder ==
    ASSUME Inv, OrderInv, dpc \in {"wildcards", "subs"}, NEW a \in todo, NEW kind,
           kind = IF dpc = "wildcards" THEN "wc" ELSE "sub",
           EnqueueMsg(kind, a, current), todo' = todo \ {a},
           UNCHANGED <<heapVars, callbackVars, Given, wire, published, dpc, current>>
    PROVE  OrderInv'
  <1>2. a \in Addresses /\ Usable(a, kind) /\ kind \in Kinds
    BY ZenonT(30), TodoFacts DEF Kinds
  <1>3. /\ QueueOrder' /\ FoundOrder' /\ DeliveredOrder'
        /\ \A d \in Sent' : \/ d \in Sent
                            \/ d.num = current.num /\ d.kind = kind /\ d.id = heap[a].id
    <2>1. current.num \in Nat /\ \A d \in Sent : Names(d, a) => d.num < current.num
      BY ZenonT(30), MessageNum DEF OrderInv, CurrentOrder
    <2> QED
      BY <1>2, <2>1, EnqueueOrder
  <1>8. \A d \in Sent', b \in todo' : Names(d, b)' => d.num < current.num
    <2>1. SUFFICES ASSUME NEW d \in Sent', NEW b \in todo', Names(d, b)
                   PROVE  d.num < current.num
      BY Zenon DEF Names, Alive, heapVars
    <2>2. CASE d \in Sent
      BY Zenon, <2>1, <2>2 DEF OrderInv, CurrentOrder
    <2>3. CASE d.kind = kind /\ d.id = heap[a].id
      <3>1. b # a /\ b \in todo /\ b \in Addresses
        BY TodoFacts
      <3> QED
        BY Zenon, <1>2, <2>1, <2>3, <3>1 DEF Inv, IdsOK, Names, Usable, Alive
    <2> QED
      BY <1>3, <2>2, <2>3
  <1> QED
    BY <1>3, MessageNum, <1>8 DEF OrderInv, heapVars, WireOrder, CurrentOrder

\* The dispatch thread works through the subscribers of a message.
LEMMA QueueOrderKept ==
    ASSUME Inv, OrderInv, QueueWildcard \/ QueueUpdate
    PROVE  OrderInv'
  <1>1. CASE QueueWildcard
    BY Zenon, <1>1, StepOrder, GivenKept DEF QueueWildcard
  <1>2. CASE QueueUpdate
    <2>1. PICK a \in todo : /\ todo' = todo \ {a}
                            /\ EnqueueMsg("sub", a, current) \/ UNCHANGED queue
      BY Zenon, <1>2 DEF QueueUpdate
    <2>2. /\ dpc = "subs"
          /\ UNCHANGED <<heapVars, callbackVars, Given, wire, published, dpc, current>>
      BY Zenon, <1>2, GivenKept DEF QueueUpdate
    <2>3. CASE EnqueueMsg("sub", a, current)
      BY Zenon, <2>1, <2>2, <2>3, StepOrder
    <2>4. CASE UNCHANGED queue
      <3>1. UNCHANGED <<queue, event, wire, Given, published>> /\ cpc' = cpc /\ uid' = uid
        BY Zenon, <2>2, <2>4 DEF heapVars, callbackVars
      <3>2. \A e \in Sent, b \in Addresses : Names(e, b)' => Names(e, b)
        BY Zenon, <2>2 DEF heapVars, Names, Alive
      <3>3. \A k \in Kinds : uid'[k] \in Nat /\ uid'[k] >= uid[k]
        BY <3>1, NextNumber
      <3>4. todo' \subseteq todo
        BY Zenon, <2>1
      <3> QED
        BY Zenon, <2>2, <3>1, <3>2, <3>3, <3>4, QuietOrder
    <2> QED
      BY Zenon, <2>1, <2>3, <2>4
  <1> QED
    BY Zenon, <1>1, <1>2

\* It reads a message that nobody wants, or a reply.
LEMMA ReadOrder ==
    ASSUME Inv, OrderInv, Filtered \/ DispatchInboxMsg
    PROVE  OrderInv'
  <1>1. /\ wire # <<>> /\ wire' = Tail(wire) /\ dpc' = "data"
        /\ UNCHANGED <<heapVars, published, callbackVars, Given>>
    BY Zenon, GivenKept DEF Filtered, DispatchInboxMsg, DataReadable, dispatchVars
  <1>2. UNCHANGED <<heap, uid, cpc, event, Given>>
    BY <1>1 DEF heapVars, callbackVars
  <1>3. PICK m : m = Head(wire) /\ m.num \in Nat
    BY <1>1, HeadOrder
  <1>5. /\ QueueOrder' /\ FoundOrder' /\ DeliveredOrder'
        /\ \A d \in Sent' : d \in Sent \/ d.num = m.num
    <2>1. CASE queue' = queue
      <3>1. Queued' = Queued /\ Sent' = Sent
        BY Zenon, <1>2, <2>1, SentKept
      <3> QED
        BY <1>2, <2>1, <3>1 DEF OrderInv, QueueOrder, FoundOrder, DeliveredOrder, Names, Alive
    <2>2. ASSUME NEW a \in Lookup("inbox", Head(wire).id), EnqueueMsg("inbox", a, Head(wire))
          PROVE  /\ QueueOrder' /\ FoundOrder' /\ DeliveredOrder'
                 /\ \A d \in Sent' : d \in Sent \/ d.num = m.num
      <3>1. a \in Addresses /\ Usable(a, "inbox") /\ "inbox" \in Kinds
        BY Zenon DEF Inv, TypeOK, NoUseAfterFree, Lookup, Kinds
      <3> QED
        BY <1>1, <1>3, HeadOrder, <3>1, <2>2, EnqueueOrder
    <2> QED
      BY ZenonT(30), <2>1, <2>2 DEF Filtered, DispatchInboxMsg
  <1> QED
    BY Zenon, <1>1, <1>2, <1>5, <1>3, TailOrder DEF OrderInv, CurrentOrder

\* It takes up a message, for the wildcard subscriptions and then for the others.
LEMMA LookupOrder ==
    ASSUME Inv, OrderInv, DispatchSubMsg \/ WildcardsDone
    PROVE  OrderInv'
  <1>1. UNCHANGED <<heap, uid, cpc, event, Given, queue, published>>
    BY Zenon, GivenKept DEF DispatchSubMsg, WildcardsDone, heapVars, callbackVars
  <1>2. Queued' = Queued /\ Sent' = Sent
    BY ZenonT(30), <1>1, SentKept
  <1>3. QueueOrder' /\ FoundOrder' /\ DeliveredOrder'
    BY <1>1, <1>2 DEF OrderInv, QueueOrder, FoundOrder, DeliveredOrder, Names, Alive
  <1>4. CASE DispatchSubMsg
    <2>1. wire # <<>> /\ wire' = Tail(wire) /\ current' = Head(wire)
      BY Zenon, <1>4 DEF DispatchSubMsg, DataReadable
    <2>5. CurrentOrder'
      <3>1. /\ current' \in Messages /\ current'.num \in Nat /\ current'.num <= published'
            /\ \A i \in 1..Len(wire') : current'.num < wire'[i].num
            /\ \A e \in Sent' : e.num < current'.num /\ e.num \in Nat
        BY Zenon, <1>1, <1>2, <2>1, HeadOrder, OrderTypes
      <3>2. \A e \in Sent' : e.num <= current'.num
        BY ONLY SMTT(30), <3>1
      <3> QED
        BY Zenon, <3>1, <3>2 DEF CurrentOrder
    <2> QED
      BY Zenon, <1>1, <1>3, <1>2, <2>1, TailOrder, <2>5 DEF OrderInv
  <1>5. CASE WildcardsDone
    <2>1. /\ dpc = "wildcards" /\ dpc' = "subs" /\ todo' = Registered(current.topic)
          /\ current' = current /\ wire' = wire
      BY Zenon, <1>5 DEF WildcardsDone
    <2> QED
      BY Zenon, <1>1, <1>3, <1>2, <2>1, RegistryFacts DEF OrderInv, WireOrder, CurrentOrder, Names,
         Registered, Usable, Kinds
  <1> QED
    BY <1>4, <1>5

\* A callback thread drops an event, or takes it in hand.
LEMMA DispatchEventOrder ==
    ASSUME Inv, OrderInv, NEW q \in Queues, DispatchEvent(q)
    PROVE  OrderInv'
  <1>1. /\ UNCHANGED <<heap, uid, registry, Given, published, wire, dpc, current, todo>>
        /\ cpc[q] = "idle" /\ queue[q] # <<>> /\ queue' = [queue EXCEPT ![q] = Tail(@)]
    BY Zenon, GivenKept DEF DispatchEvent, heapVars, dispatchVars
  <1>2. /\ queue \in [Queues -> Seq(Events)] /\ cpc \in [Queues -> {"idle", "found", "destroy"}]
        /\ event \in [Queues -> Events \cup {Nothing}]
    BY DEF Inv, TypeOK
  <1>3. /\ queue'[q] = Tail(queue[q]) /\ queue[q] \in Seq(Events)
        /\ \A p \in Queues : p # q => queue'[p] = queue[p]
    BY <1>1, <1>2
  <1>4. PICK e : e = Head(queue[q])
    BY Zenon
  <1>5. /\ e = queue[q][1] /\ 1 \in 1..Len(queue[q]) /\ e \in Events
        /\ \A i \in 1..Len(queue'[q]) : i + 1 \in 1..Len(queue[q]) /\ queue'[q][i] = queue[q][i + 1]
    BY <1>3, <1>4, <1>1
  <1>6. /\ \A p \in Queues : p # q => cpc'[p] = cpc[p] /\ event'[p] = event[p]
        /\ \/ cpc'[q] = "idle"
           \/ cpc'[q] = "found" /\ event'[q] = e /\ \E a \in Addresses : Names(e, a)
    <2>1. CASE UNCHANGED callbackVars
      BY <1>1, <2>1 DEF callbackVars
    <2>2. ASSUME NEW a \in Lookup(e.kind, e.id), event' = [event EXCEPT ![q] = e],
                 cpc' = [cpc EXCEPT ![q] = "found"]
          PROVE  /\ \A p \in Queues : p # q => cpc'[p] = cpc[p] /\ event'[p] = event[p]
                 /\ cpc'[q] = "found" /\ event'[q] = e /\ \E b \in Addresses : Names(e, b)
      <3>2. a \in Addresses /\ Usable(a, e.kind) /\ heap[a].id = e.id
        BY Zenon, <1>5, RegistryFacts DEF Lookup, Events
      <3> QED
        BY Zenon, <1>2, <2>2, <3>2 DEF Names, Usable, Alive
    <2> QED
      BY Zenon, <1>4, <2>1, <2>2 DEF DispatchEvent
  <1>7. Queued' \subseteq Queued /\ e \in Queued
    <2>1. SUFFICES ASSUME NEW p \in Queues, NEW i \in 1..Len(queue'[p])
                   PROVE  queue'[p][i] \in Queued
      <3>1. e \in Queued
        BY <1>5, OrderTypes, Zenon
      <3>2. \A d \in Queued' : \E p \in Queues : \E i \in 1..Len(queue'[p]) : d = queue'[p][i]
        BY DEF Queued
      <3> QED
        BY <3>1, <3>2
    <2>2. CASE p = q
      BY Zenon, <1>5, <2>2, OrderTypes
    <2>3. CASE p # q
      BY <1>3, <2>3, OrderTypes
    <2> QED
      BY <2>2, <2>3
  <1>8. Sent' \subseteq Sent
    BY Zenon, <1>1, <1>7, <1>6 DEF Sent, InHand
  <1>9. QueueOrder'
    <2>1. SUFFICES ASSUME NEW p \in Queues, NEW i \in 1..Len(queue'[p]), NEW j \in 1..Len(queue'[p]),
                          i < j, SameName(queue'[p][i], queue'[p][j])
                   PROVE  queue'[p][i].num < queue'[p][j].num
      BY Zenon DEF QueueOrder
    <2>2. CASE p = q
      <3>1. /\ i + 1 \in 1..Len(queue[q]) /\ j + 1 \in 1..Len(queue[q]) /\ i + 1 < j + 1
            /\ queue'[p][i] = queue[q][i + 1] /\ queue'[p][j] = queue[q][j + 1]
        BY SMTT(30), <1>5, <2>1, <2>2
      <3> QED
        BY Zenon, <2>1, <3>1 DEF OrderInv, QueueOrder
    <2>3. CASE p # q
      BY Zenon, <1>3, <2>1, <2>3 DEF OrderInv, QueueOrder
    <2> QED
      BY Zenon, <2>2, <2>3
  <1>10. FoundOrder'
    <2>1. SUFFICES ASSUME NEW p \in Queues, cpc'[p] = "found"
                   PROVE  /\ \A i \in 1..Len(queue'[p]) :
                                SameName(event'[p], queue'[p][i]) => event'[p].num < queue'[p][i].num
                          /\ \A d \in Given :
                                SameName(d, event'[p]) => d.num < event'[p].num
      <3>1. Given' = Given
        BY Zenon, <1>1
      <3> QED
        BY Zenon, <3>1 DEF FoundOrder, SameName
    <2>2. CASE p = q
      <3>3. ASSUME NEW i \in 1..Len(queue'[q]), SameName(e, queue'[q][i])
            PROVE  e.num < queue'[q][i].num
        <4>1. /\ i + 1 \in 1..Len(queue[q]) /\ 1 < i + 1 /\ queue'[q][i] = queue[q][i + 1]
              /\ 1 \in 1..Len(queue[q]) /\ e = queue[q][1]
          BY <1>5
        <4> QED
          BY Zenon, <3>3, <4>1 DEF OrderInv, QueueOrder
      <3>4. "found" # "idle"
        OBVIOUS
      <3>5. PICK a \in Addresses : event'[q] = e /\ Names(e, a)
        BY Zenon, <1>6, <2>1, <2>2, <3>4
      <3>6. ASSUME NEW d \in Given, SameName(d, e)
            PROVE  d.num < e.num
        <4>1. Names(d, a)
          BY Zenon, <3>5, <3>6 DEF Names, SameName
        <4> QED
          BY Zenon, <1>7, <3>5, <4>1 DEF OrderInv, DeliveredOrder
      <3> QED
        BY Zenon, <2>2, <3>3, <3>5, <3>6
    <2>3. CASE p # q
      BY Zenon, <1>3, <1>6, <2>1, <2>3 DEF OrderInv, FoundOrder
    <2> QED
      BY Zenon, <2>2, <2>3
  <1>12. WireOrder'
    BY Zenon, <1>1, <1>8 DEF OrderInv, WireOrder
  <1>13. CurrentOrder'
    BY Zenon, <1>1, <1>8 DEF OrderInv, CurrentOrder, Names, Alive
  <1> QED
    BY Zenon, <1>1, <1>9, <1>10, <1>7, <1>12, <1>13 DEF OrderInv, DeliveredOrder, Names, Alive

\* An event is delivered: no later event of its subscriber has been.
LEMMA DeliverOrder ==
    ASSUME Inv, OrderInv, NEW q \in Queues, Deliver(q)
    PROVE  OrderInv'
  <1>1. /\ cpc[q] = "found" /\ cpc' = [cpc EXCEPT ![q] = "idle"]
        /\ event' = [event EXCEPT ![q] = Nothing]
        /\ UNCHANGED <<heap, uid, queue, published, wire, dpc, current, todo>>
        /\ delivered' \in {delivered, Append(delivered, event[q])}
    BY Zenon DEF Deliver, heapVars, dispatchVars
  <1>2. \A d \in Given' : d \in Given \/ d = event[q]
    BY <1>1 DEF Given, Inv, TypeOK
  <1>3. cpc'[q] = "idle" /\ \A p \in Queues : p # q => cpc'[p] = cpc[p] /\ event'[p] = event[p]
    BY Zenon, <1>1 DEF Inv, TypeOK
  <1>4. PICK e : e = event[q] /\ e \in InHand /\ e \in Sent
    BY <1>1 DEF InHand, Sent
  <1>5. /\ target[q] \in Addresses /\ Names(e, target[q]) /\ heap[target[q]].queue = q
    BY Zenon, <1>1, <1>4, FoundFacts DEF Found, Usable, Names, Alive
  <1>6. \A d \in Given' : d \in Given \/ d = e
    BY Zenon, <1>2, <1>4
  <1>7. Queued' = Queued /\ InHand' \subseteq InHand /\ Sent' \subseteq Sent
    <2>1. Queued' = Queued
      BY <1>1 DEF Queued
    <2> QED
      BY <1>4, <1>6, <2>1, <1>3 DEF Sent, InHand
  <1>8. QueueOrder'
    BY Zenon, <1>1 DEF OrderInv, QueueOrder
  <1>9. FoundOrder'
    <2>1. SUFFICES ASSUME NEW p \in Queues, cpc'[p] = "found"
                   PROVE  /\ \A i \in 1..Len(queue[p]) :
                                SameName(event'[p], queue[p][i]) => event'[p].num < queue[p][i].num
                          /\ \A d \in Given' : SameName(d, event'[p]) => d.num < event'[p].num
      BY Zenon, <1>1 DEF FoundOrder
    <2>3. target[p] \in Addresses /\ Names(event[p], target[p]) /\ heap[target[p]].queue = p
      BY ZenonT(30), <1>3, <2>1, FoundFacts DEF Found, Usable, Names, Alive
    <2>4. ~SameName(e, event[p])
      BY <1>5, <1>3, <2>1, <2>3 DEF Inv, IdsOK, SameName, Names
    <2> QED
      BY Zenon, <1>6, <1>3, <2>1, <2>4 DEF OrderInv, FoundOrder
  <1>10. DeliveredOrder'
    <2>1. SUFFICES ASSUME NEW f \in Queued, NEW d \in Given', NEW a \in Addresses,
                          Names(f, a), Names(d, a)
                   PROVE  d.num < f.num
      BY Zenon, <1>1, <1>7 DEF DeliveredOrder, Names, Alive
    <2>2. CASE d \in Given
      BY <2>1, <2>2 DEF OrderInv, DeliveredOrder
    <2>3. CASE d = e
      <3>0. PICK p \in Queues : \E i \in 1..Len(queue[p]) : f = queue[p][i]
        BY DEF Queued
      <3>1. PICK i \in 1..Len(queue[p]) : f = queue[p][i]
        BY <3>0
      <3>2. a = target[q]
        BY Zenon, <1>5, <2>1, <2>3 DEF Inv, IdsOK, Names
      <3>3. p = q
        BY Zenon, <1>5, <2>1, <3>1, <3>2 DEF Inv, EventsOK, OnItsQueue, Names
      <3>4. SameName(e, f)
        BY <2>1, <2>3 DEF SameName, Names
      <3> QED
        BY Zenon, <1>1, <1>4, <2>3, <3>1, <3>3, <3>4 DEF OrderInv, FoundOrder
    <2> QED
      BY <1>6, <2>2, <2>3
  <1>12. CurrentOrder'
    BY Zenon, <1>1, <1>7 DEF OrderInv, CurrentOrder, Names, Alive
  <1> QED
    BY Zenon, <1>8, <1>9, <1>10, <1>1, <1>7, <1>12, <1>5, <1>6 DEF OrderInv, WireOrder, Inv,
       IdsOK, Names

\* No event names a subscriber that is yet to be created.
LEMMA SentIds ==
    ASSUME Inv, OrderInv, NEW e \in Sent
    PROVE  e.id <= uid[e.kind]
  <1>1. CASE e \in Queued
    BY SMTT(30), <1>1 DEF Queued, Inv, EventsOK, OnItsQueue
  <1>2. CASE e \in InHand
    BY <1>2, FoundFacts DEF InHand, Found, Usable, Alive, Inv, IdsOK
  <1>3. CASE e \in Given
    BY Zenon, <1>3 DEF OrderInv
  <1> QED
    BY Zenon, <1>1, <1>2, <1>3 DEF Sent

\* A subscriber is created.
LEMMA CreateOrder ==
    ASSUME Inv, OrderInv, NEW kind \in Kinds, NEW a \in Addresses, NEW r,
           r.kind = kind, r.id = uid[kind] + 1, heap' = [heap EXCEPT ![a] = r],
           uid' = [uid EXCEPT ![kind] = uid[kind] + 1],
           UNCHANGED <<wire, published, dispatchVars, queue, callbackVars, Given>>
    PROVE  OrderInv'
  <1>3. ASSUME NEW e \in Sent, NEW b \in Addresses, Names(e, b)'
        PROVE  Names(e, b)
    <2>1. CASE b = a
      <3>1. e.kind = kind /\ e.id = uid[kind] + 1
        BY Zenon, <1>3, <2>1, TypeFacts DEF Names
      <3>2. e.id <= uid[kind] /\ uid[kind] \in Nat
        BY Zenon, <3>1, SentIds, TypeFacts
      <3> QED
        BY <3>1, <3>2
    <2>2. CASE b # a
      BY Zenon, <1>3, <2>2, TypeFacts DEF Names, Alive
    <2> QED
      BY Zenon, <2>1, <2>2
  <1> QED
    BY TypeFacts, <1>3, QuietOrder DEF dispatchVars, callbackVars

\* A subscriber changes, but not who it is, or is freed.
LEMMA ChangeOrder ==
    ASSUME Inv, OrderInv, NEW a \in Addresses, NEW r, heap' = [heap EXCEPT ![a] = r],
           r.stage # "freed" => Alive(a) /\ r.kind = heap[a].kind /\ r.id = heap[a].id,
           \A q \in Queues : cpc'[q] = "found" => cpc[q] = "found",
           UNCHANGED <<uid, wire, published, dispatchVars, queue, event, Given>>
    PROVE  OrderInv'
  <1>1. heap \in [Addresses -> Heap]
    BY Zenon, TypeFacts
  <1>3. ASSUME NEW e \in Sent, NEW b \in Addresses, Names(e, b)'
        PROVE  Names(e, b)
    <2>1. CASE b = a
      <3>1. heap'[a] = r
        BY Zenon, <1>1
      <3> QED
        BY Zenon, <1>3, <2>1, <3>1 DEF Names, Alive
    <2>2. CASE b # a
      <3>1. heap'[b] = heap[b]
        BY Zenon, <1>1, <2>2
      <3> QED
        BY Zenon, <1>3, <3>1 DEF Names, Alive
    <2> QED
      BY Zenon, <2>1, <2>2
  <1>4. \A k \in Kinds : uid'[k] \in Nat /\ uid'[k] >= uid[k]
    BY NextNumber
  <1>5. dpc' = dpc /\ current' = current /\ todo' = todo
    BY Zenon DEF dispatchVars
  <1> QED
    BY Zenon, <1>3, <1>4, <1>5, QuietOrder

\* Steps of the application.
LEMMA ApplicationOrder ==
    ASSUME Inv, OrderInv, Application
    PROVE  OrderInv'
  <1>1. ASSUME NEW kind \in {"sub", "wc"}, NEW key, NEW q, NEW a \in Addresses, Create(kind, key, q, a)
        PROVE  OrderInv'
    BY Zenon, <1>1, CreateOrder, GivenKept DEF Kinds, Create, NextSerial
  <1>2. ASSUME NEW q, NEW a \in Addresses, CreateInbox(q, a)
        PROVE  OrderInv'
    BY Zenon, <1>2, CreateOrder, GivenKept DEF Kinds, CreateInbox, NextSerial
  <1>3. ASSUME NEW a \in Addresses, SendSubscribe(a)
        PROVE  OrderInv'
    <2>2. PICK r : r = [heap[a] EXCEPT !.stage = "live"]
      BY Zenon
    <2>3. r.kind = heap[a].kind /\ r.id = heap[a].id
      BY <2>2 DEF SendSubscribe
    <2> QED
      BY Zenon, <1>3, <2>3, <2>2, ChangeOrder, GivenKept DEF Alive, SendSubscribe, callbackVars
  <1>4. ASSUME NEW a \in Addresses, Mute(a)
        PROVE  OrderInv'
    <2>1. heap[a] \in Subscribers /\ heap[a].stage # "freed"
      BY <1>4, HeapFields, Zenon DEF Inv, TypeOK, Heap, Mute
    <2>2. PICK r : r = [heap[a] EXCEPT !.mIsNotMuted = FALSE]
      BY Zenon
    <2> QED
      BY Zenon, <2>1, MuteFields, <1>4, ChangeOrder, GivenKept DEF Alive, Mute, callbackVars
  <1> QED
    BY <1>1, <1>2, <1>3, <1>4 DEF Application

\* A subscriber is destroyed.
LEMMA DestroyOrder ==
    ASSUME Inv, OrderInv, NEW q \in Queues,
           \/ Release(q)
           \/ \E a \in Addresses : DestroySubscription(q, a) \/ DestroyInbox(q, a)
    PROVE  OrderInv'
  <1>2. CASE Release(q)
    BY Zenon, <1>2, DestroyFacts, FreedStage, ChangeOrder, GivenKept DEF Release, Inv, TypeOK
  <1>3. ASSUME NEW a \in Addresses, heap[a].stage = "live", Unregister(q, a)
        PROVE  OrderInv'
    <2>2. PICK r : r = [heap[a] EXCEPT !.stage = "unregistered"]
      BY Zenon
    <2>3. r.kind = heap[a].kind /\ r.id = heap[a].id
      BY <2>2
    <2> QED
      BY Zenon, <1>3, <2>3, <2>2, ChangeOrder, GivenKept DEF Alive, Unregister, Inv, TypeOK
  <1> QED
    BY <1>2, <1>3 DEF DestroySubscription, DestroyInbox

\* The dispatch thread polls or reads commands, or is done with a message.
LEMMA SocketOrder ==
    ASSUME Inv, OrderInv,
           \/ Poll \/ DispatchControlMsg \/ ControlDrained \/ SubsDone \/ DataDrained
           \/ UNCHANGED vars
    PROVE  OrderInv'
  <1>1. /\ UNCHANGED <<heap, uid, queue, event, cpc, wire, Given, published>>
        /\ dpc' \in {"wildcards", "subs"} => dpc' = dpc /\ current' = current /\ todo' = todo
    BY Zenon, GivenKept DEF Poll, DispatchControlMsg, ControlDrained, SubsDone, DataDrained, vars,
       heapVars, callbackVars, dispatchVars
  <1> QED
    BY <1>1, NextNumber, QuietOrder DEF Names, Alive

\* Every step keeps the order.
LEMMA NextOrder ==
    ASSUME Inv, OrderInv, [Next]_vars
    PROVE  OrderInv'
  <1>1. CASE PublishTopic \/ PublishReply
    BY Zenon, <1>1, PublishOrder DEF PublishTopic, PublishReply
  <1>2. CASE DispatchThread
    BY <1>2, SocketOrder, ReadOrder, LookupOrder, QueueOrderKept DEF DispatchThread
  <1>3. ASSUME NEW q \in Queues, \/ CallbackStep(q)
                                 \/ \E a \in Addresses : DestroySubscription(q, a) \/ DestroyInbox(q, a)
        PROVE  OrderInv'
    BY Zenon, <1>3, DispatchEventOrder, DeliverOrder, DestroyOrder DEF CallbackStep
  <1> QED
    BY <1>1, <1>2, <1>3, ApplicationOrder, SocketOrder DEF Next

\* A step delivers nothing, or the event that some callback thread has in hand.
LEMMA OneAtATime ==
    ASSUME [Next]_vars
    PROVE  \/ delivered' = delivered
           \/ \E q \in Queues : cpc[q] = "found" /\ delivered' = Append(delivered, event[q])
  <1>1. SUFFICES ASSUME delivered' # delivered
                 PROVE  \E q \in Queues : cpc[q] = "found" /\ delivered' = Append(delivered, event[q])
    OBVIOUS
  <1>2. ~Application /\ ~PublishTopic /\ ~PublishReply
    BY Zenon, <1>1 DEF Application, Create, CreateInbox, SendSubscribe, Mute, PublishTopic,
       PublishReply, Publish
  <1>3. ~DispatchThread
    BY Zenon, <1>1 DEF DispatchThread, Poll, DispatchControlMsg, ControlDrained, Filtered,
       DispatchInboxMsg, DispatchSubMsg, QueueWildcard, WildcardsDone, QueueUpdate, SubsDone,
       DataDrained
  <1>4. \A q \in Queues, a \in Addresses : ~DestroySubscription(q, a) /\ ~DestroyInbox(q, a)
    BY <1>1 DEF DestroySubscription, DestroyInbox, Unregister
  <1>5. \A q \in Queues : ~DispatchEvent(q) /\ ~Release(q)
    BY Zenon, <1>1 DEF DispatchEvent, Release
  <1>6. Next
    BY <1>1 DEF vars
  <1>7. PICK q \in Queues : Deliver(q)
    BY Zenon, <1>2, <1>3, <1>4, <1>5, <1>6 DEF Next, CallbackStep
  <1> QED
    BY Zenon, <1>1, <1>7 DEF Deliver

\* What is delivered comes after all that its subscriber has been given.
LEMMA NextDelivery ==
    ASSUME Inv, OrderInv, DeliveredInOrder, [Next]_vars
    PROVE  DeliveredInOrder'
  <1>1. CASE delivered' = delivered
    BY <1>1 DEF DeliveredInOrder
  <1>2. ASSUME NEW q \in Queues, cpc[q] = "found", delivered' = Append(delivered, event[q])
        PROVE  DeliveredInOrder'
    <2>1. SUFFICES ASSUME NEW i \in 1..Len(delivered'), NEW j \in 1..Len(delivered'), i < j,
                          SameName(delivered'[i], delivered'[j])
                   PROVE  delivered'[i].num < delivered'[j].num
      BY DEF DeliveredInOrder, SameName
    <2>2. delivered \in Seq(Events)
      BY DEF Inv, TypeOK
    <2>3. /\ i \in 1..Len(delivered) /\ delivered'[i] = delivered[i]
          /\ \/ j \in 1..Len(delivered) /\ delivered'[j] = delivered[j]
             \/ delivered'[j] = event[q]
      BY <1>2, <2>1, <2>2
    <2>4. CASE j \in 1..Len(delivered) /\ delivered'[j] = delivered[j]
      BY Zenon, <2>1, <2>3, <2>4 DEF DeliveredInOrder, SameName
    <2>5. CASE delivered'[j] = event[q]
      <3>1. delivered[i] \in Given
        BY Zenon, <2>3 DEF Given
      <3> QED
        BY Zenon, <1>2, <2>1, <2>3, <2>5, <3>1 DEF OrderInv, FoundOrder
    <2> QED
      BY Zenon, <2>3, <2>4, <2>5
  <1> QED
    BY Zenon, <1>1, <1>2, OneAtATime

\* A subscriber gets its messages in the order in which the data socket received
\* them and none of them twice, for any number of subscribers, queues, messages:
\* also when subscribers come and go, and reuse the memory of others.
THEOREM DeliveriesAreOrdered == Spec => []DeliveredInOrder
  <1>1. Init => Inv /\ OrderInv /\ DeliveredInOrder
    <2>1. Init => DeliveredInOrder
      BY DEF Init, DeliveredInOrder
    <2> QED
      BY <2>1, InitInv, InitOrder
  <1>2. Inv /\ OrderInv /\ DeliveredInOrder /\ [Next]_vars => (Inv /\ OrderInv /\ DeliveredInOrder)'
    BY StepInv, NextOrder, NextDelivery
  <1> QED
    BY <1>1, <1>2, PTL DEF Spec

-----------------------------------------------------------------------------
\* The subscriptions of the data socket, which are about the sizes of sets.

Balanced(k) == Even(k, control, interest[k], Holding(k))

BalancedOK == \A k \in Keys : Balanced(k)

\* A subscriber holds a subscription.
Holds(r, k) == r.stage \in {"live", "unregistered"} /\ r.kind # "inbox" /\ r.key = k

\* The types of what is balanced.
LEMMA BalanceTypes ==
    ASSUME Inv
    PROVE  control \in Seq(Commands) /\ interest \in [Keys -> Nat] /\ heap \in [Addresses -> Heap]
    BY DEF Inv, TypeOK, Commands, Heap

\* No command is sent or read, and the same subscribers hold a subscription.
LEMMA BalanceKept ==
    ASSUME BalancedOK, UNCHANGED <<control, interest>>,
           \A k \in Keys : Holding(k)' = Holding(k)
    PROVE  BalancedOK'
    BY DEF BalancedOK, Balanced

\* Only the subscriber at one address changes.
LEMMA HoldingChange ==
    ASSUME Inv, NEW a \in Addresses, NEW r, heap' = [heap EXCEPT ![a] = r], NEW k \in Keys
    PROVE  /\ Holds(r, k) => Holding(k)' = Holding(k) \cup {a}
           /\ ~Holds(r, k) => Holding(k)' = Holding(k) \ {a}
           /\ a \in Holding(k) <=> Holds(heap[a], k)
  <1>2. \A b \in Addresses : b \in Holding(k) <=> Holds(heap[b], k)
    BY DEF Holding, Holds
  <1>3. \A b \in Addresses : b \in Holding(k)' <=> Holds(heap'[b], k)
    BY DEF Holding, Holds
  <1>4. Holding(k) \subseteq Addresses /\ Holding(k)' \subseteq Addresses
    BY DEF Holding
  <1> QED
    BY Zenon, BalanceTypes, <1>2, <1>3, <1>4

\* It still holds the same subscription, or still none.
LEMMA HoldingKept ==
    ASSUME Inv, BalancedOK, NEW a \in Addresses, NEW r, heap' = [heap EXCEPT ![a] = r],
           \A k \in Keys : Holds(r, k) <=> Holds(heap[a], k),
           UNCHANGED <<control, interest>>
    PROVE  BalancedOK'
  <1>1. \A k \in Keys : Holding(k)' = Holding(k)
    <2>1. TAKE k \in Keys
    <2>2. CASE Holds(r, k)
      <3>1. Holding(k)' = Holding(k) \cup {a} /\ a \in Holding(k)
        BY Zenon, <2>2, HoldingChange
      <3> QED
        BY Zenon, <3>1
    <2>3. CASE ~Holds(r, k)
      <3>1. Holding(k)' = Holding(k) \ {a} /\ a \notin Holding(k)
        BY Zenon, <2>3, HoldingChange
      <3> QED
        BY Zenon, <3>1
    <2> QED
      BY Zenon, <2>2, <2>3
  <1> QED
    BY <1>1, BalanceKept

\* Other changes of a subscription leave its key alone.
LEMMA KeyFields ==
    ASSUME NEW r \in Subscribers, NEW x
    PROVE  /\ [r EXCEPT !.stage = x].key = r.key /\ [r EXCEPT !.stage = x].kind = r.kind
           /\ [r EXCEPT !.stage = x].stage = x
           /\ [r EXCEPT !.mIsNotMuted = x].key = r.key
           /\ [r EXCEPT !.mIsNotMuted = x].kind = r.kind
           /\ [r EXCEPT !.mIsNotMuted = x].stage = r.stage
           /\ r.key \in Keys /\ r.kind # "inbox"
    BY DEF Subscribers

\* Steps of the application that send no command.
LEMMA CreateBalance ==
    ASSUME Inv, BalancedOK, NEW a \in Addresses,
           \/ \E kind, key, q : Create(kind, key, q, a)
           \/ \E q : CreateInbox(q, a)
           \/ Mute(a)
    PROVE  BalancedOK'
  <1>1. ASSUME NEW kind, NEW key, NEW q, Create(kind, key, q, a)
        PROVE  BalancedOK'
    <2>1. PICK r : r = [stage |-> "registered", kind |-> kind, key |-> key, queue |-> q,
                        id |-> uid[kind] + 1, mIsNotMuted |-> TRUE]
      BY Zenon
    <2>2. heap' = [heap EXCEPT ![a] = r] /\ heap[a] = Freed /\ UNCHANGED <<control, interest>>
      BY Zenon, <1>1, <2>1 DEF Create, NextSerial
    <2>3. r.stage = "registered" /\ Freed.stage = "freed"
      BY ONLY <2>1 DEF Freed
    <2>4. \A k \in Keys : ~Holds(r, k) /\ ~Holds(heap[a], k)
      BY Zenon, <2>2, <2>3 DEF Holds
    <2> QED
      BY Zenon, <2>2, <2>4, HoldingKept
  <1>2. ASSUME NEW q, CreateInbox(q, a)
        PROVE  BalancedOK'
    <2>1. PICK r : r = [stage |-> "live", kind |-> "inbox", queue |-> q, id |-> uid["inbox"] + 1]
      BY Zenon
    <2>2. heap[a] = Freed
      BY Zenon, <1>2 DEF CreateInbox
    <2>4. r.kind = "inbox" /\ Freed.stage = "freed"
      BY ONLY <2>1 DEF Freed
    <2>3. \A k \in Keys : ~Holds(r, k) /\ ~Holds(heap[a], k)
      BY Zenon, <2>2, <2>4 DEF Holds
    <2> QED
      BY Zenon, <1>2, <2>1, <2>3, HoldingKept DEF CreateInbox, NextSerial
  <1>3. CASE Mute(a)
    <2>2. PICK r : r = [heap[a] EXCEPT !.mIsNotMuted = FALSE]
      BY Zenon
    <2>4. \A k \in Keys : Holds(r, k) <=> Holds(heap[a], k)
      BY <2>2 DEF Holds
    <2> QED
      BY Zenon, <1>3, <2>2, <2>4, HoldingKept DEF Mute
  <1> QED
    BY <1>1, <1>2, <1>3

\* A subscriber is unregistered: its subscription stays until it is released.
LEMMA UnregisterBalance ==
    ASSUME Inv, BalancedOK, NEW a \in Addresses, NEW q, heap[a].stage = "live", Unregister(q, a)
    PROVE  BalancedOK'
  <1>2. PICK r : r = [heap[a] EXCEPT !.stage = "unregistered"]
    BY Zenon
  <1>4. \A k \in Keys : Holds(r, k) <=> Holds(heap[a], k)
    BY <1>2 DEF Holds
  <1> QED
    BY Zenon, <1>2, <1>4, HoldingKept DEF Unregister

\* All other steps change neither the subscribers nor the commands.
LEMMA OtherBalance ==
    ASSUME BalancedOK, UNCHANGED <<heap, control, interest>>
    PROVE  BalancedOK'
  BY Zenon, BalanceKept DEF Holding

\* A command is sent by a subscriber that takes a subscription, or gives it up.
LEMMA SendBalance ==
    ASSUME Sizes, Counting, Inv, BalancedOK, NEW a \in Addresses, NEW r, heap' = [heap EXCEPT ![a] = r],
           NEW c \in {"S", "U"}, NEW j \in Keys, SendCommand(c, j), interest' = interest,
           c = "S" => \A k \in Keys : (Holds(r, k) <=> k = j) /\ ~Holds(heap[a], k),
           c = "U" => \A k \in Keys : (Holds(heap[a], k) <=> k = j) /\ ~Holds(r, k)
    PROVE  BalancedOK'
  <1>1. SUFFICES ASSUME NEW k \in Keys
                 PROVE  Balanced(k)'
    BY Zenon DEF BalancedOK
  <1>2. control \in Seq(Commands) /\ interest[k] \in Nat
    BY Zenon, BalanceTypes
  <1>3. control' = Append(control, Command(c, j))
    BY Zenon DEF SendCommand, Command
  <1>4. Even(k, control, interest[k], Holding(k))
    BY DEF BalancedOK, Balanced
  <1>5. IsFiniteSet(Holding(k)) /\ Cardinality(Holding(k)) \in Nat
    BY Zenon, <1>4 DEF Even, Sizes
  <1>6. /\ IsFiniteSet(Holding(k)')
        /\ Cardinality(Holding(k)') = Cardinality(Holding(k)) +
               (IF j # k THEN 0 ELSE IF c = "S" THEN 1 ELSE -1)
    <2>1. CASE j # k
      <3>1. Holding(k)' = Holding(k) \ {a} /\ a \notin Holding(k)
        BY Zenon, <2>1, HoldingChange
      <3>2. Holding(k)' = Holding(k)
        BY Zenon, <3>1
      <3> QED
        BY <1>5, <2>1, <3>2
    <2>2. CASE j = k /\ c = "S"
      <3>1. Holding(k)' = Holding(k) \cup {a} /\ a \notin Holding(k)
        BY Zenon, <2>2, HoldingChange
      <3>2. IsFiniteSet(Holding(k) \cup {a})
            /\ Cardinality(Holding(k) \cup {a}) = Cardinality(Holding(k)) + 1
        BY Zenon, <1>5, <3>1 DEF Sizes
      <3> QED
        BY <2>2, <3>1, <3>2
    <2>3. CASE j = k /\ c = "U"
      <3>1. Holding(k)' = Holding(k) \ {a} /\ a \in Holding(k)
        BY Zenon, <2>3, HoldingChange
      <3>2. IsFiniteSet(Holding(k) \ {a})
            /\ Cardinality(Holding(k) \ {a}) = Cardinality(Holding(k)) - 1
        BY Zenon, <1>5, <3>1 DEF Sizes
      <3> QED
        BY Zenon, <1>5, <2>3, <3>1, <3>2
    <2> QED
      BY Zenon, <2>1, <2>2, <2>3
  <1>7. Even(k, control', interest[k], Holding(k)')
    BY Zenon, <1>2, <1>3, <1>4, <1>6, EvenAppend
  <1> QED
    BY Zenon, <1>7 DEF Balanced

\* create asks for the subscription.
LEMMA SendSubscribeBalance ==
    ASSUME Sizes, Counting, Inv, BalancedOK, NEW a \in Addresses, SendSubscribe(a)
    PROVE  BalancedOK'
  <1>2. heap[a] \in Subscribers
    BY BalanceTypes, HeapFields DEF SendSubscribe
  <1>3. PICK r : r = [heap[a] EXCEPT !.stage = "live"]
    BY Zenon
  <1>4. /\ r.key = heap[a].key /\ r.kind = heap[a].kind /\ r.stage = "live"
        /\ heap[a].key \in Keys /\ heap[a].kind # "inbox"
    BY <1>2, <1>3, KeyFields
  <1>5. \A k \in Keys : (Holds(r, k) <=> k = heap[a].key) /\ ~Holds(heap[a], k)
    BY <1>4 DEF Holds, SendSubscribe
  <1>6. heap' = [heap EXCEPT ![a] = r] /\ SendCommand("S", heap[a].key) /\ interest' = interest
    BY <1>3 DEF SendSubscribe
  <1> QED
    BY Zenon, <1>4, <1>5, <1>6, SendBalance

\* A subscriber is released; one that is no inbox gives up its subscription.
LEMMA ReleaseBalance ==
    ASSUME Sizes, Counting, Inv, BalancedOK, NEW q \in Queues, Release(q)
    PROVE  BalancedOK'
  <1>1. PICK a \in Addresses : a = target[q] /\ heap[a].stage = "unregistered"
    BY Zenon, DestroyFacts DEF Release
  <1>2. heap[a] \in Heap /\ heap' = [heap EXCEPT ![a] = Freed] /\ interest' = interest
    BY Zenon, <1>1, BalanceTypes DEF Release
  <1>3. \A k \in Keys : ~Holds(Freed, k)
    BY FreedStage DEF Holds
  <1>4. CASE heap[a].kind = "inbox" /\ control' = control
    <2>1. \A k \in Keys : ~Holds(heap[a], k)
      BY Zenon, <1>4 DEF Holds
    <2> QED
      BY Zenon, <1>2, <1>3, <1>4, <2>1, HoldingKept
  <1>5. CASE heap[a].kind # "inbox" /\ SendCommand("U", heap[a].key)
    <2>1. heap[a].key \in Keys
      BY Zenon, <1>1, <1>2, <1>5, HeapFields, KeyFields
    <2>2. \A k \in Keys : Holds(heap[a], k) <=> k = heap[a].key
      BY Zenon, <1>1, <1>5 DEF Holds
    <2> QED
      BY Zenon, <1>2, <1>3, <1>5, <2>1, <2>2, SendBalance
  <1> QED
    BY Zenon, <1>1, <1>4, <1>5 DEF Release

\* The dispatch thread applies a command.
LEMMA ControlBalance ==
    ASSUME Sizes, Counting, Inv, BalancedOK, DispatchControlMsg
    PROVE  BalancedOK'
  <1>1. SUFFICES ASSUME NEW k \in Keys
                 PROVE  Balanced(k)'
    BY DEF BalancedOK
  <1>2. /\ control \in Seq(Commands) /\ control # <<>> /\ interest \in [Keys -> Nat]
        /\ control' = Tail(control)
    BY BalanceTypes DEF DispatchControlMsg, ControlReadable
  <1>4. Even(k, control, interest[k], Holding(k))
    BY DEF BalancedOK, Balanced
  <1>5. PICK m \in Commands : m = Head(control)
    BY <1>2
  <1>6. m.command \in {"S", "U"} /\ m.key \in Keys /\ m = Command(m.command, m.key)
    BY DEF Commands, Command
  <1>7. \A c \in {"S", "U"} : m = Command(c, k) <=> m.command = c /\ m.key = k
    BY <1>6 DEF Command
  <1>8. /\ m = Command("S", k) => Even(k, control', interest[k] + 1, Holding(k))
        /\ m = Command("U", k) => interest[k] > 0 /\ Even(k, control', interest[k] - 1, Holding(k))
        /\ (m # Command("S", k) /\ m # Command("U", k)) => Even(k, control', interest[k], Holding(k))
    BY Zenon, <1>2, <1>4, <1>5, EvenTail
  <1>9. /\ m.command = "S" /\ m.key = k => interest'[k] = interest[k] + 1
        /\ m.command = "U" /\ m.key = k /\ interest[k] > 0 => interest'[k] = interest[k] - 1
        /\ m.key # k => interest'[k] = interest[k]
    BY Zenon, <1>2, <1>5, <1>6 DEF DispatchControlMsg, Subscribe, Unsubscribe
  <1>10. Even(k, control', interest'[k], Holding(k))
    BY Zenon, <1>6, <1>7, <1>8, <1>9
  <1> QED
    BY Zenon, <1>10 DEF Balanced, Holding, DispatchControlMsg, heapVars

\* Every step keeps the balance.
LEMMA NextBalance ==
    ASSUME Sizes, Counting, Inv, BalancedOK, [Next]_vars
    PROVE  BalancedOK'
  <1>1. CASE UNCHANGED vars
    BY Zenon, <1>1, OtherBalance DEF vars, heapVars
  <1>2. CASE Application
    BY <1>2, CreateBalance, SendSubscribeBalance DEF Application
  <1>3. CASE PublishTopic \/ PublishReply
    <2>1. UNCHANGED <<heap, control, interest>>
      BY Zenon, <1>3 DEF PublishTopic, PublishReply, Publish, heapVars
    <2> QED
      BY <2>1, OtherBalance
  <1>4. CASE DispatchThread
    <2>1. CASE DispatchControlMsg
      BY <2>1, ControlBalance
    <2>2. CASE ~DispatchControlMsg
      <3>1. UNCHANGED <<heap, control, interest>>
        BY Zenon, <1>4, <2>2 DEF DispatchThread, Poll, ControlDrained, Filtered, DispatchInboxMsg,
           DispatchSubMsg, QueueWildcard, WildcardsDone, QueueUpdate, SubsDone, DataDrained,
           heapVars
      <3> QED
        BY <3>1, OtherBalance
    <2> QED
      BY <2>1, <2>2
  <1>5. ASSUME NEW q \in Queues, CallbackStep(q)
        PROVE  BalancedOK'
    <2>1. CASE Release(q)
      BY <2>1, ReleaseBalance
    <2>2. CASE DispatchEvent(q) \/ Deliver(q)
      <3>1. UNCHANGED <<heap, control, interest>>
        BY Zenon, <2>2 DEF DispatchEvent, Deliver, heapVars
      <3> QED
        BY <3>1, OtherBalance
    <2> QED
      BY <1>5, <2>1, <2>2 DEF CallbackStep
  <1>6. ASSUME NEW q \in Queues, NEW a \in Addresses, DestroySubscription(q, a) \/ DestroyInbox(q, a)
        PROVE  BalancedOK'
    BY Zenon, <1>6, UnregisterBalance DEF DestroySubscription, DestroyInbox
  <1> QED
    BY Zenon, <1>1, <1>2, <1>3, <1>4, <1>5, <1>6 DEF Next

-----------------------------------------------------------------------------
\* What needs the sizes of finite sets.

INSTANCE FiniteSetTheorems

\* The sizes of finite sets are as above.
LEMMA SizesHold == Sizes
  <1>1. IsFiniteSet({}) /\ Cardinality({}) = 0
    BY Zenon, FS_EmptySet
  <1>2. ASSUME NEW S, IsFiniteSet(S)
        PROVE  Cardinality(S) \in Nat
    BY Zenon, <1>2, FS_CardinalityType
  <1>3. ASSUME NEW S, NEW e, IsFiniteSet(S)
        PROVE  /\ IsFiniteSet(S \cup {e}) /\ IsFiniteSet(S \ {e})
               /\ e \notin S => Cardinality(S \cup {e}) = Cardinality(S) + 1
               /\ e \in S => Cardinality(S \ {e}) = Cardinality(S) - 1
    BY ZenonT(30), <1>3, FS_AddElement, FS_RemoveElement
  <1>4. ASSUME NEW S, NEW n \in Nat, S \subseteq 1..n
        PROVE  IsFiniteSet(S)
    <2>1. IsFiniteSet(1..n)
      BY FS_Interval
    <2> QED
      BY ZenonT(30), <1>4, <2>1, FS_Subset
  <1>5. ASSUME NEW S, NEW T, NEW f, IsFiniteSet(S), f \in [S -> T],
               \A a, b \in S : f[a] = f[b] => a = b,
               \A t \in T : \E a \in S : f[a] = t
        PROVE  Cardinality(S) = Cardinality(T)
    <2>1. f \in Bijection(S, T)
      BY Zenon, <1>5 DEF Bijection, Injection, IsInjective, Surjection
    <2>2. ExistsBijection(S, T)
      BY Zenon, <2>1 DEF ExistsBijection
    <2> QED
      BY Zenon, <1>5, <2>2, FS_Bijection
  <1>6. OneToOne
    BY ZenonT(30), <1>5 DEF OneToOne
  <1> QED
    BY ZenonT(30), <1>1, <1>2, <1>3, <1>4, <1>6 DEF Sizes

\* The number of subscriptions that the data socket has for a key is, once the
\* commands on their way are applied, the number of subscribers of that key, and no
\* unsubscribe overtakes the subscribe that it undoes: for any number of
\* subscribers, of threads that create and destroy them and of commands on the way.
THEOREM InterestIsCounted == Spec => []InterestMatchesSubscribers
  <1>1. Init => Inv /\ BalancedOK
    <2>1. SUFFICES ASSUME Init, NEW k \in Keys
                   PROVE  Balanced(k)
      BY ZenonT(30), InitInv DEF BalancedOK
    <2>2. Holding(k) = {} /\ control = <<>> /\ interest[k] = 0 /\ Len(control) = 0
      BY <2>1 DEF Init, Holding, Freed
    <2>3. IsFiniteSet(Holding(k)) /\ Cardinality(Holding(k)) = 0
      BY Zenon, <2>2, SizesHold DEF Sizes
    <2>4. \A c : Many(control, c, k, 0) = 0
      <3>1. \A c : Where(control, Command(c, k), 0) = {}
        BY DEF Where
      <3> QED
        BY Zenon, <3>1, SizesHold DEF Many, Sizes
    <2>5. 0..0 = {0}
      OBVIOUS
    <2> QED
      BY SMTT(30), <2>2, <2>3, <2>4, <2>5 DEF Balanced, Even
  <1>2. Inv /\ BalancedOK /\ [Next]_vars => Inv' /\ BalancedOK'
    BY Zenon, StepInv, NextBalance, SizesHold, CountingHolds
  <1>3. BalancedOK => InterestMatchesSubscribers
    <2>1. \A c, k, n : Pending(c, k, n) = Many(control, c, k, n)
      BY DEF Pending, Many, Where, Command
    <2> QED
      BY Zenon, <2>1 DEF BalancedOK, Balanced, Even, InterestMatchesSubscribers
  <1> QED
    BY <1>1, <1>2, <1>3, PTL DEF Spec

=============================================================================

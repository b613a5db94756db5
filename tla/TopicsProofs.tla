---------------------------- MODULE TopicsProofs ----------------------------
(***************************************************************************)
(* Proofs about plain subscriptions, for names and buffers of any size: a  *)
(* key is the full name, cut where the buffer of generateSubjectKey ends.  *)
(* That AppendPart counts the whole part, also when it is cut, is what     *)
(* keeps a later part from being printed at the wrong place.               *)
(***************************************************************************)
EXTENDS Topics, SequenceTheorems, TLAPS

(* As much of a name as the buffer of generateSubjectKey holds.            *)
Cut(name) == SubSeq(name, 1, Min({Len(name), MaxSubject - 1}))

(* What generateSubjectKey has made of the parts so far, given their name. *)
IsKeyOf(key, name) == key.text = Cut(name) /\ key.length = Len(name)

(* The lesser of two numbers.                                              *)
LEMMA MinOfTwo ==
    ASSUME NEW a \in Int, NEW b \in Int
    PROVE  Min({a, b}) = IF a <= b THEN a ELSE b
  <1> DEFINE m == IF a <= b THEN a ELSE b
  <1>1. m \in {a, b} /\ \A y \in {a, b} : m <= y
    OBVIOUS
  <1>2. \A x \in {a, b} : (\A y \in {a, b} : x <= y) => x = m
    OBVIOUS
  <1> HIDE DEF m
  <1>3. (CHOOSE x \in {a, b} : \A y \in {a, b} : x <= y) = m
    BY <1>1, <1>2
  <1> QED
    BY <1>3 DEF Min, m

(* The beginning of a text, token by token.                                *)
LEMMA Beginning ==
    ASSUME NEW s \in Texts, NEW n \in Int, n <= Len(s)
    PROVE  /\ SubSeq(s, 1, n) \in Texts
           /\ Len(SubSeq(s, 1, n)) = IF n < 0 THEN 0 ELSE n
           /\ \A i \in 1..n : SubSeq(s, 1, n)[i] = s[i]
  BY DEF Texts

(* A name that fits is not cut; one that does not keeps its beginning.     *)
LEMMA CutText ==
    ASSUME NEW s \in Texts
    PROVE  /\ Cut(s) \in Texts
           /\ Len(s) < MaxSubject => Cut(s) = s
           /\ Len(Cut(s)) = IF Len(s) < MaxSubject THEN Len(s) ELSE MaxSubject - 1
           /\ \A i \in 1..Len(Cut(s)) : Cut(s)[i] = s[i]
  <1>1. MaxSubject \in Nat /\ MaxSubject - 1 \in Nat /\ Len(s) \in Nat
    BY TopicsAssumption DEF Texts
  <1> DEFINE n == IF Len(s) <= MaxSubject - 1 THEN Len(s) ELSE MaxSubject - 1
  <1>2. n \in Nat /\ n <= Len(s) /\ (Len(s) < MaxSubject => n = Len(s))
    BY <1>1
  <1>3. Cut(s) = SubSeq(s, 1, n)
    BY SMTT(30), <1>1, MinOfTwo DEF Cut
  <1> HIDE DEF n
  <1>4. /\ Cut(s) \in Texts /\ Len(Cut(s)) = n
        /\ \A i \in 1..n : Cut(s)[i] = s[i]
    BY <1>2, <1>3, Beginning
  <1>5. n = IF Len(s) < MaxSubject THEN Len(s) ELSE MaxSubject - 1
    BY <1>1 DEF n
  <1>6. ASSUME Len(s) < MaxSubject
        PROVE  Cut(s) = s
    BY <1>2, <1>4, <1>6, SeqEqual DEF Texts
  <1> QED
    BY <1>4, <1>5, <1>6

(* A name that is cut begins like a reply handle only if it does in full.  *)
LEMMA CutReply ==
    ASSUME NEW s \in Texts, IsReply(Cut(s))
    PROVE  IsReply(s)
  <1> DEFINE r == ReplyHandlePrefix
             c == Cut(s)
  <1>1. /\ r \in Texts /\ c \in Texts /\ Len(c) <= Len(s)
        /\ \A i \in 1..Len(c) : c[i] = s[i]
    <2>1. MaxSubject \in Nat /\ Len(s) \in Nat /\ r \in Texts
      BY TopicsAssumption DEF Texts
    <2> QED
      BY <2>1, CutText
  <1>2. Len(r) <= Len(c) /\ SubSeq(r, 1, Len(r)) = SubSeq(c, 1, Len(r))
    BY Zenon DEF IsReply, IsPrefix
  <1> HIDE DEF r, c
  <1>3. Len(r) \in Nat /\ Len(c) \in Nat /\ Len(s) \in Nat /\ Len(r) <= Len(s)
    BY <1>1, <1>2 DEF Texts
  <1>4. /\ SubSeq(c, 1, Len(r)) \in Texts /\ Len(SubSeq(c, 1, Len(r))) = Len(r)
        /\ \A i \in 1..Len(r) : SubSeq(c, 1, Len(r))[i] = c[i]
    BY <1>1, <1>2, <1>3, Beginning
  <1>5. /\ SubSeq(s, 1, Len(r)) \in Texts /\ Len(SubSeq(s, 1, Len(r))) = Len(r)
        /\ \A i \in 1..Len(r) : SubSeq(s, 1, Len(r))[i] = s[i]
    BY <1>3, Beginning
  <1>6. \A i \in 1..Len(r) : c[i] = s[i]
    BY <1>1, <1>2, <1>3
  <1>7. SubSeq(c, 1, Len(r)) = SubSeq(s, 1, Len(r))
    BY <1>4, <1>5, <1>6, SeqEqual DEF Texts
  <1> QED
    BY Zenon, <1>2, <1>3, <1>7 DEF IsReply, IsPrefix, r

(* One part more.                                                          *)
LEMMA AppendCut ==
    ASSUME NEW name \in Texts, Len(name) <= MaxSubject, NEW piece \in Texts
    PROVE  Cut(name) \o SubSeq(piece, 1, Min({Len(piece), MaxSubject - 1 - Len(name)}))
               = Cut(name \o piece)
  <1> DEFINE rest == MaxSubject - 1 - Len(name)
             n == IF Len(piece) <= rest THEN Len(piece) ELSE rest
             shown == SubSeq(piece, 1, n)
             whole == name \o piece
  <1>1. MaxSubject \in Nat /\ MaxSubject > 0 /\ Len(name) \in Nat /\ Len(piece) \in Nat
    BY TopicsAssumption DEF Texts
  <1>2. n \in Int /\ n <= Len(piece) /\ Min({Len(piece), rest}) = n
    BY <1>1, MinOfTwo
  <1>3. /\ whole \in Texts /\ Len(whole) = Len(name) + Len(piece)
        /\ \A i \in 1..Len(name) : whole[i] = name[i]
        /\ \A i \in 1..Len(piece) : whole[Len(name) + i] = piece[i]
    BY DEF Texts
  <1>4. /\ shown \in Texts /\ Len(shown) = (IF n < 0 THEN 0 ELSE n)
        /\ \A i \in 1..n : shown[i] = piece[i]
    BY <1>2, Beginning
  <1>5. /\ Cut(name) \in Texts
        /\ Len(name) < MaxSubject => Cut(name) = name
        /\ Len(Cut(name)) = (IF Len(name) < MaxSubject THEN Len(name) ELSE MaxSubject - 1)
        /\ \A i \in 1..Len(Cut(name)) : Cut(name)[i] = name[i]
    BY Zenon, CutText
  <1>6. /\ Cut(whole) \in Texts
        /\ Len(Cut(whole)) = (IF Len(whole) < MaxSubject THEN Len(whole) ELSE MaxSubject - 1)
        /\ \A i \in 1..Len(Cut(whole)) : Cut(whole)[i] = whole[i]
    BY Zenon, <1>3, CutText
  <1>7. n = IF Len(piece) <= rest THEN Len(piece) ELSE rest
    OBVIOUS
  <1> HIDE DEF n, shown, whole
  <1> DEFINE both == Cut(name) \o shown
  <1>8. /\ both \in Texts /\ Len(both) = Len(Cut(name)) + Len(shown)
        /\ \A i \in 1..Len(Cut(name)) : both[i] = Cut(name)[i]
        /\ \A i \in 1..Len(shown) : both[Len(Cut(name)) + i] = shown[i]
    BY SMTT(30), <1>4, <1>5 DEF Texts
  <1> HIDE DEF both
  <1>9. Len(both) = Len(Cut(whole))
    BY SMTT(30), <1>1, <1>3, <1>4, <1>5, <1>6, <1>7, <1>8
  <1>10. ASSUME NEW i \in 1..Len(both)
         PROVE  both[i] = Cut(whole)[i]
    <2>1. CASE i <= Len(name)
      <3>1. i \in 1..Len(Cut(name)) /\ i \in 1..Len(name)
        BY <1>1, <1>4, <1>5, <1>7, <1>8, <2>1
      <3>2. i \in 1..Len(Cut(whole))
        BY Zenon, <1>9, <1>10
      <3> QED
        BY ZenonT(30), <1>3, <1>5, <1>6, <1>8, <3>1, <3>2
    <2>2. CASE i > Len(name)
      <3>1. i - Len(name) \in 1..n /\ Cut(name) = name
        BY SMTT(30), <1>1, <1>3, <1>4, <1>5, <1>6, <1>7, <1>8, <1>9, <2>2
      <3>2. both[Len(name) + (i - Len(name))] = piece[i - Len(name)]
        BY <1>1, <1>4, <1>8, <3>1
      <3>3. whole[Len(name) + (i - Len(name))] = piece[i - Len(name)]
        BY <1>1, <1>2, <1>3, <3>1
      <3>4. Len(name) + (i - Len(name)) = i
        BY <1>1, <1>8
      <3> QED
        BY <1>6, <1>9, <3>2, <3>3, <3>4
    <2> QED
      BY <1>1, <2>1, <2>2
  <1>11. both = Cut(whole)
    BY <1>6, <1>8, <1>9, <1>10, SeqEqual DEF Texts
  <1> QED
    BY Zenon, <1>2, <1>11 DEF both, whole, shown

(* generateSubjectKey appends a part to its text as the part is appended   *)
(* to the name.                                                            *)
LEMMA AppendPartFollows ==
    ASSUME NEW name \in Texts, Len(name) <= MaxSubject, NEW part \in Parts,
           NEW key, IsKeyOf(key, name)
    PROVE  IsKeyOf(AppendPart(key, part), Dot(name, part)) /\ Dot(name, part) \in Texts
  <1>1. CASE part = None
    BY Zenon, <1>1 DEF AppendPart, Dot
  <1>2. CASE part # None
    <2> DEFINE piece == IF key.length = 0 THEN part ELSE <<".">> \o part
               shown == SubSeq(piece, 1, Min({Len(piece), MaxSubject - 1 - key.length}))
    <2>1. part \in Texts /\ <<".">> \o part \in Texts /\ Len(name) \in Nat
      <3>1. part \in Texts
        BY Zenon, <1>2 DEF Parts
      <3>2. <<".">> \in Seq(Characters \cup Special)
        BY DEF Special
      <3> QED
        BY <3>1, <3>2, ConcatProperties DEF Texts
    <2>2. AppendPart(key, part) = [text |-> key.text \o shown, length |-> key.length + Len(piece)]
      BY Zenon, <1>2 DEF AppendPart
    <2>3. name = <<>> <=> key.length = 0
      BY <2>1 DEF IsKeyOf, Texts
    <2>4. piece \in Texts
      BY Zenon, <2>1
    <2>5. Dot(name, part) = name \o piece
      <3>1. CASE name = <<>>
        <4>1. <<>> \o part = part
          BY <2>1 DEF Texts
        <4> QED
          BY Zenon, <1>2, <2>3, <3>1, <4>1 DEF Dot
      <3>2. CASE name # <<>>
        <4>1. name \o <<".">> \o part = name \o (<<".">> \o part)
          BY <2>1, ConcatAssociative DEF Texts
        <4> QED
          BY <1>2, <2>3, <3>2, <4>1 DEF Dot
      <3> QED
        BY Zenon, <3>1, <3>2
    <2> HIDE DEF piece
    <2>6. key.text \o shown = Cut(name \o piece)
      BY Zenon, <2>4, AppendCut DEF IsKeyOf
    <2>7. name \o piece \in Texts /\ Len(name \o piece) = Len(name) + Len(piece)
      BY <2>4 DEF Texts
    <2> HIDE DEF shown
    <2>8. /\ AppendPart(key, part).text = key.text \o shown
          /\ AppendPart(key, part).length = key.length + Len(piece)
      BY <2>2
    <2> QED
      BY Zenon, <2>5, <2>6, <2>7, <2>8 DEF IsKeyOf
  <1> QED
    BY Zenon, <1>1, <1>2

(* generateSubjectKey returns the name, as far as the buffer goes, if the  *)
(* root and the source fit.                                                *)
LEMMA SubjectKey ==
    ASSUME NEW root \in Parts, NEW source \in Parts, NEW topic \in Parts,
           Len(Joined(root, source, None)) <= MaxSubject
    PROVE  /\ GenerateSubjectKey(root, source, topic) = Cut(Joined(root, source, topic))
           /\ Joined(root, source, topic) \in Texts
  <1> DEFINE empty == [text |-> <<>>, length |-> 0]
             first == Dot(<<>>, root)
             second == Dot(first, source)
  <1>1. <<>> \in Texts /\ Len(<<>>) = 0 /\ MaxSubject \in Nat /\ Cut(<<>>) = <<>>
    <2>1. <<>> \in Texts /\ Len(<<>>) = 0 /\ MaxSubject \in Nat /\ 0 < MaxSubject
      BY TopicsAssumption DEF Texts
    <2> QED
      BY <2>1, CutText
  <1>2. IsKeyOf(empty, <<>>)
    BY <1>1 DEF IsKeyOf
  <1> HIDE DEF empty
  <1>3. IsKeyOf(AppendPart(empty, root), first) /\ first \in Texts
    BY <1>1, <1>2, AppendPartFollows
  <1>4. Len(second) <= MaxSubject
    BY Zenon DEF Joined, Dot
  <1>5. Len(first) <= MaxSubject
    <2>1. CASE source = None
      BY Zenon, <1>4, <2>1 DEF Dot
    <2>2. CASE source # None /\ first = <<>>
      BY <1>1, <2>2
    <2>3. CASE source # None /\ first # <<>>
      <3>1. source \in Texts
        BY Zenon, <2>3 DEF Parts
      <3>2. second = first \o <<".">> \o source
        BY Zenon, <2>3 DEF Dot
      <3> HIDE DEF first, second
      <3>3. Len(first \o <<".">> \o source) >= Len(first) /\ Len(first) \in Nat
        BY <1>3, <3>1 DEF Texts
      <3> QED
        BY <1>1, <1>4, <3>2, <3>3
    <2> QED
      BY Zenon, <2>1, <2>2, <2>3
  <1> HIDE DEF first
  <1>6. IsKeyOf(AppendPart(AppendPart(empty, root), source), second) /\ second \in Texts
    BY Zenon, <1>3, <1>5, AppendPartFollows
  <1> HIDE DEF second
  <1>7. /\ IsKeyOf(AppendPart(AppendPart(AppendPart(empty, root), source), topic), Dot(second, topic))
        /\ Dot(second, topic) \in Texts
    BY Zenon, <1>4, <1>6, AppendPartFollows
  <1> QED
    BY Zenon, <1>7 DEF GenerateSubjectKey, Joined, IsKeyOf, empty, first, second

(* What has been created and compared so far, for a plain subscription.    *)
TopicsInv ==
    /\ stage \in {"subscribed", "published", "dispatched"} /\ ~mIsWildcard =>
          /\ sub \in Subscriptions
          /\ mSubjectKey = GenerateSubjectKey(None, sub.source, sub.topic)
    /\ stage \in {"published", "dispatched"} =>
          pub \in Publications /\ mSubject = BuildSendSubject(pub)
    /\ stage \in {"start", "subscribed", "published"} => ~queued
    /\ stage = "dispatched" /\ ~mIsWildcard =>
          (queued <=> mSubjectKey = mSubject /\ ~IsReply(mSubject))

(* The creation of a subscription and of a publisher and the dispatch of a *)
(* message leave the keys as generateSubjectKey computed them.             *)
LEMMA TopicsStep == TopicsInv /\ [TopicsNext]_topicsVars => TopicsInv'
  <1> SUFFICES ASSUME TopicsInv, [TopicsNext]_topicsVars
               PROVE  TopicsInv'
    OBVIOUS
  <1>1. ASSUME NEW s \in Subscriptions, CreateSubscription(s)
        PROVE  TopicsInv'
    <2>1. /\ stage = "start" /\ stage' = "subscribed" /\ sub' = s
          /\ mSubjectKey' = GenerateSubjectKey(None, s.source, s.topic)
      BY Zenon, <1>1 DEF CreateSubscription, Created
    <2>2. UNCHANGED <<pub, mSubject, queued>>
      BY Zenon, <1>1 DEF CreateSubscription, Created
    <2> QED
      BY <2>1, <2>2 DEF TopicsInv
  <1>2. ASSUME NEW s \in Subscriptions, CreateWildCard(s) \/ CreateHierarchical(s)
        PROVE  TopicsInv'
    <2>1. /\ stage = "start" /\ stage' = "subscribed" /\ mIsWildcard' = TRUE
          /\ UNCHANGED <<pub, mSubject, queued>>
      BY Zenon, <1>2 DEF CreateWildCard, CreateHierarchical, Created
    <2> QED
      BY <2>1 DEF TopicsInv
  <1>3. ASSUME NEW s \in Subscriptions, StartFails(s)
        PROVE  TopicsInv'
    <2>1. stage' = "failed"
      BY Zenon, <1>3 DEF StartFails
    <2> QED
      BY <2>1 DEF TopicsInv
  <1>4. ASSUME NEW p \in Publications, CreatePublisher(p)
        PROVE  TopicsInv'
    BY <1>4 DEF CreatePublisher, subVars, TopicsInv
  <1>5. CASE DispatchInboxMsg
    <2>1. /\ stage = "published" /\ stage' = "dispatched" /\ IsReply(mSubject)
          /\ UNCHANGED <<subVars, pub, mSubject, queued>>
      BY Zenon, <1>5 DEF DispatchInboxMsg
    <2> QED
      BY <2>1 DEF subVars, TopicsInv
  <1>6. CASE DispatchSubMsg
    <2>1. /\ stage = "published" /\ stage' = "dispatched" /\ UNCHANGED <<subVars, pub, mSubject>>
          /\ ~mIsWildcard => (queued' <=> mSubjectKey = mSubject)
          /\ ~IsReply(mSubject)
      BY Zenon, <1>6 DEF DispatchSubMsg
    <2> QED
      BY <2>1 DEF subVars, TopicsInv
  <1>7. CASE UNCHANGED topicsVars
    BY Zenon, <1>7 DEF topicsVars, subVars, TopicsInv, BuildSendSubject
  <1> QED
    BY ZenonT(30), <1>1, <1>2, <1>3, <1>4, <1>5, <1>6, <1>7 DEF TopicsNext

(* A plain subscriber hears the publishers that have its name, unless it   *)
(* begins like a reply handle, whether or not the buffer of                *)
(* generateSubjectKey cuts it, and no others as long as the names fit: for *)
(* texts and buffers of any length, given that the root and the source fit *)
(* the buffer (TopicsAssumption).                                          *)
THEOREM PlainIsHeard == TopicsSpec => []PlainHearsItsName
  <1>1. TopicsInit => TopicsInv
    BY DEF TopicsInit, TopicsInv
  <1>2. TopicsInv => PlainHearsItsName
    <2> SUFFICES ASSUME TopicsInv, stage = "dispatched", ~mIsWildcard
                 PROVE  /\ SubscribedName = PublishedName /\ ~IsReply(PublishedName) => queued
                        /\ (/\ queued
                            /\ Len(SubscribedName) < MaxSubject /\ Len(PublishedName) < MaxSubject)
                           => SubscribedName = PublishedName
      BY Zenon DEF PlainHearsItsName
    <2>1. /\ sub \in Subscriptions /\ mSubjectKey = GenerateSubjectKey(None, sub.source, sub.topic)
          /\ pub \in Publications /\ mSubject = BuildSendSubject(pub)
          /\ queued <=> mSubjectKey = mSubject /\ ~IsReply(mSubject)
      BY Zenon DEF TopicsInv
    <2>2. mSubjectKey = Cut(SubscribedName) /\ SubscribedName \in Texts
      <3>1. /\ None \in Parts /\ sub.source \in Parts /\ sub.topic \in Parts
            /\ Len(Joined(None, sub.source, None)) <= MaxSubject
        BY Zenon, <2>1, TopicsAssumption DEF Parts
      <3> QED
        BY Zenon, <2>1, <3>1, SubjectKey DEF SubscribedName
    <2>3. mSubject = Cut(PublishedName) /\ PublishedName \in Texts
      <3> DEFINE topic == IF pub.root \in {None, Dictionary} THEN pub.topic ELSE None
      <3>1. /\ pub.root \in Parts /\ pub.source \in Parts /\ topic \in Parts
            /\ Len(Joined(pub.root, pub.source, None)) <= MaxSubject
        BY Zenon, <2>1, TopicsAssumption DEF Parts
      <3>2. /\ mSubject = GenerateSubjectKey(pub.root, pub.source, topic)
            /\ PublishedName = Joined(pub.root, pub.source, topic)
        BY Zenon, <2>1 DEF BuildSendSubject, PublishedName
      <3> HIDE DEF topic
      <3> QED
        BY Zenon, <3>1, <3>2, SubjectKey
    <2>4. ASSUME SubscribedName = PublishedName, ~IsReply(PublishedName)
          PROVE  queued
      BY Zenon, <2>1, <2>2, <2>3, <2>4, CutReply
    <2>5. ASSUME queued, Len(SubscribedName) < MaxSubject, Len(PublishedName) < MaxSubject
          PROVE  SubscribedName = PublishedName
      <3>1. Cut(SubscribedName) = SubscribedName /\ Cut(PublishedName) = PublishedName
        BY Zenon, <2>2, <2>3, <2>5, CutText
      <3> QED
        BY ZenonT(30), <2>1, <2>2, <2>3, <2>5, <3>1
    <2> QED
      BY Zenon, <2>4, <2>5
  <1> QED
    BY <1>1, <1>2, TopicsStep, PTL DEF TopicsSpec
=============================================================================

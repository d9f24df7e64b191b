------------------------- MODULE GSRegisters_proof -------------------------
(***************************************************************************)
(* Proofs about CircularFifo, for a ring of any size and any messages, and *)
(* about GSRegisters, for any ring and any set of messages: the copies and *)
(* what is sent keep their types, a SIGNAL that CSR shows raises its       *)
(* interrupt once, and the copies agree but for what is in the ring.       *)
(***************************************************************************)
EXTENDS GSRegisters, SequenceTheorems, TLAPS

(* A leaf that names no backend is given a minute of SMT and then one of Zenon. *)
USE SMTT(60), ZenonT(60)

(* The ring: CircularFifo                                                  *)

(* increment, with its modulo, steps round the ring.                       *)
LEMMA IncrementLemma ==
  ASSUME NEW i \in Index
  PROVE  /\ Increment(i) \in Index
         /\ Increment(i) = IF i = Size THEN 0 ELSE i + 1
PROOF
<1>1. CASE i = Size
  BY <1>1, SizeAssumption DEF Increment, Capacity, Index
<1>2. CASE i # Size
  BY <1>2, SizeAssumption DEF Increment, Capacity, Index
<1>. QED BY <1>1, <1>2, SizeAssumption DEF Index

(* Distances around the ring: their range, what moving either end by one   *)
(* slot does to them, and that an older index keeps its place in the order.*)
LEMMA DistanceRange ==
  ASSUME NEW i \in Index, NEW j \in Index
  PROVE  Distance(i, j) \in 0 .. Size /\ (Distance(i, j) = 0 <=> i = j)
PROOF BY SizeAssumption DEF Distance, Index, Capacity

LEMMA DistanceToIncrement ==
  ASSUME NEW i \in Index, NEW j \in Index, Increment(j) # i
  PROVE  Distance(i, Increment(j)) = Distance(i, j) + 1
PROOF BY SizeAssumption, IncrementLemma DEF Distance, Index, Capacity

LEMMA DistanceFromIncrement ==
  ASSUME NEW i \in Index, NEW j \in Index, i # j
  PROVE  Distance(Increment(i), j) = Distance(i, j) - 1
PROOF BY SizeAssumption, IncrementLemma DEF Distance, Index, Capacity

LEMMA DistanceSplit ==
  ASSUME NEW i \in Index, NEW k \in Index, NEW j \in Index,
         Distance(i, k) <= Distance(i, j)
  PROVE  Distance(i, j) = Distance(i, k) + Distance(k, j)
PROOF BY SizeAssumption DEF Distance, Index, Capacity

(* Two empty threads and an empty ring satisfy the inductive invariant.    *)
LEMMA InitLemma == Init => IInv
PROOF BY SizeAssumption, NoElementAssumption
  DEF Init, IInv, TypeOK, SeenInOrder, PublishedWhole, Live, Distance, Index,
      PushState, PopState

(* Every step of the two threads preserves IInv: one step per action.      *)
LEMMA StepLemma == IInv /\ [Next]_vars => IInv'
PROOF
<1>. SUFFICES ASSUME IInv, [Next]_vars PROVE IInv'
  OBVIOUS
<1>. USE SizeAssumption, NoElementAssumption
<1>i. ASSUME NEW i \in Index
      PROVE  Increment(i) \in Index /\ Increment(i) = IF i = Size THEN 0 ELSE i + 1
  BY IncrementLemma
<1>t. /\ tail \in Index /\ head \in Index
      /\ headSeen \in Index /\ tailSeen \in Index
      /\ array \in [Index -> Element \cup {NoElement}]
      /\ Size \in Nat
  BY DEF IInv, TypeOK
<1>1. ASSUME NEW e \in Element, PushCall(e) PROVE IInv'
  <2>1. TypeOK'
    BY <1>1, <1>i DEF PushCall, producerVars, consumerVars, IInv, TypeOK
  <2>2. SeenInOrder'
    BY <1>1, <1>t, <1>i DEF PushCall, producerVars, consumerVars, IInv, SeenInOrder, PushState, PopState, Index, Distance, Capacity
  <2>3. PublishedWhole'
    BY <1>1, <1>t, <1>i DEF PushCall, producerVars, consumerVars, IInv, TypeOK, PublishedWhole, Live,
       SeenInOrder, PushState, PopState, Index, Distance, Capacity
  <2>4. PushState'
    BY <1>1, <1>t, <1>i DEF PushCall, producerVars, consumerVars, IInv, TypeOK, PushState,
       SeenInOrder, Index, Distance, Capacity
  <2>5. PopState'
    BY <1>1, <1>t, <1>i DEF PushCall, producerVars, consumerVars, IInv, TypeOK, PopState, PushState,
       SeenInOrder, Index, Distance, Capacity
  <2>. QED BY <2>1, <2>2, <2>3, <2>4, <2>5 DEF IInv
<1>2. ASSUME NEW h \in Index, PushHasRoom(h) PROVE IInv'
  <2>1. TypeOK'
    BY <1>2, <1>i DEF PushHasRoom, HeadLoads, producerVars, consumerVars, IInv, TypeOK
  <2>2. SeenInOrder'
    <3>1. /\ Distance(headSeen, h) \in 0 .. Size
          /\ Distance(h, head) \in 0 .. Size
          /\ Distance(h, tail) \in 0 .. Size
          /\ Distance(headSeen, head) \in 0 .. Size
          /\ Distance(headSeen, tail) \in 0 .. Size
          /\ Distance(head, tail) \in 0 .. Size
      BY <1>t, DistanceRange
    <3>2. Distance(headSeen, h) <= Distance(headSeen, head)
      BY <1>2 DEF PushHasRoom, HeadLoads
    <3>3. Distance(headSeen, head) <= Distance(headSeen, tail)
      BY <3>1 DEF IInv, SeenInOrder
    <3>4. Distance(headSeen, head) = Distance(headSeen, h) + Distance(h, head)
      BY <1>t, <3>2, DistanceSplit
    <3>5. Distance(headSeen, tail) = Distance(headSeen, h) + Distance(h, tail)
      BY <1>t, <3>1, <3>2, <3>3, DistanceSplit
    <3>6. Distance(h, tail) = Distance(h, head) + Distance(head, tail)
      BY <3>1, <3>4, <3>5 DEF IInv, SeenInOrder
    <3>. QED BY <3>6, <1>2 DEF PushHasRoom, consumerVars, IInv, SeenInOrder
  <2>3. PublishedWhole'
    BY <1>2, <1>t, <1>i DEF PushHasRoom, HeadLoads, producerVars, consumerVars, IInv, TypeOK, PublishedWhole, Live,
       SeenInOrder, PushState, PopState, Index, Distance, Capacity
  <2>4. PushState'
    BY <1>2, <1>t, <1>i DEF PushHasRoom, HeadLoads, producerVars, consumerVars, IInv, TypeOK, PushState,
       SeenInOrder, Index, Distance, Capacity
  <2>5. PopState'
    BY <1>2, <1>t, <1>i DEF PushHasRoom, HeadLoads, producerVars, consumerVars, IInv, TypeOK, PopState, PushState,
       SeenInOrder, Index, Distance, Capacity
  <2>. QED BY <2>1, <2>2, <2>3, <2>4, <2>5 DEF IInv
<1>3. ASSUME NEW h \in Index, PushFull(h) PROVE IInv'
  <2>1. TypeOK'
    BY <1>3, <1>i DEF PushFull, HeadLoads, producerVars, consumerVars, IInv, TypeOK
  <2>2. SeenInOrder'
    BY <1>3, <1>t, <1>i DEF PushFull, HeadLoads, producerVars, consumerVars, IInv, SeenInOrder, PushState, PopState, Index, Distance, Capacity
  <2>3. PublishedWhole'
    BY <1>3, <1>t, <1>i DEF PushFull, HeadLoads, producerVars, consumerVars, IInv, TypeOK, PublishedWhole, Live,
       SeenInOrder, PushState, PopState, Index, Distance, Capacity
  <2>4. PushState'
    BY <1>3, <1>t, <1>i DEF PushFull, HeadLoads, producerVars, consumerVars, IInv, TypeOK, PushState,
       SeenInOrder, Index, Distance, Capacity
  <2>5. PopState'
    BY <1>3, <1>t, <1>i DEF PushFull, HeadLoads, producerVars, consumerVars, IInv, TypeOK, PopState, PushState,
       SeenInOrder, Index, Distance, Capacity
  <2>. QED BY <2>1, <2>2, <2>3, <2>4, <2>5 DEF IInv
<1>4. ASSUME WriteSlot PROVE IInv'
  <2>1. TypeOK'
    BY <1>4, <1>i DEF WriteSlot, producerVars, consumerVars, IInv, TypeOK
  <2>2. SeenInOrder'
    BY <1>4, <1>t, <1>i DEF WriteSlot, producerVars, consumerVars, IInv, SeenInOrder, PushState, PopState, Index, Distance, Capacity
  <2>3. PublishedWhole'
    BY <1>4, <1>t, <1>i DEF WriteSlot, producerVars, consumerVars, IInv, TypeOK, PublishedWhole, Live,
       SeenInOrder, PushState, PopState, Index, Distance, Capacity
  <2>4. PushState'
    BY <1>4, <1>t, <1>i DEF WriteSlot, producerVars, consumerVars, IInv, TypeOK, PushState,
       SeenInOrder, Index, Distance, Capacity
  <2>5. PopState'
    BY <1>4, <1>t, <1>i DEF WriteSlot, producerVars, consumerVars, IInv, TypeOK, PopState, PushState,
       SeenInOrder, Index, Distance, Capacity
  <2>. QED BY <2>1, <2>2, <2>3, <2>4, <2>5 DEF IInv
<1>5. ASSUME WroteSlot PROVE IInv'
  <2>1. TypeOK'
    BY <1>5, <1>i DEF WroteSlot, producerVars, consumerVars, IInv, TypeOK
  <2>2. SeenInOrder'
    BY <1>5, <1>t, <1>i DEF WroteSlot, producerVars, consumerVars, IInv, SeenInOrder, PushState, PopState, Index, Distance, Capacity
  <2>3. PublishedWhole'
    BY <1>5, <1>t, <1>i DEF WroteSlot, producerVars, consumerVars, IInv, TypeOK, PublishedWhole, Live,
       SeenInOrder, PushState, PopState, Index, Distance, Capacity
  <2>4. PushState'
    BY <1>5, <1>t, <1>i DEF WroteSlot, producerVars, consumerVars, IInv, TypeOK, PushState,
       SeenInOrder, Index, Distance, Capacity
  <2>5. PopState'
    BY <1>5, <1>t, <1>i DEF WroteSlot, producerVars, consumerVars, IInv, TypeOK, PopState, PushState,
       SeenInOrder, Index, Distance, Capacity
  <2>. QED BY <2>1, <2>2, <2>3, <2>4, <2>5 DEF IInv
<1>6. ASSUME Publish PROVE IInv'
  <2>1. TypeOK'
    BY <1>6, <1>i DEF Publish, producerVars, consumerVars, IInv, TypeOK
  <2>2. SeenInOrder'
    <3>1. /\ Distance(headSeen, head) \in 0 .. Size
          /\ Distance(headSeen, tail) \in 0 .. Size
          /\ Distance(head, tail) \in 0 .. Size
          /\ Distance(head, tailSeen) \in 0 .. Size
          /\ Distance(tailSeen, tail) \in 0 .. Size
      BY <1>t, DistanceRange
    <3>2. Distance(headSeen, Increment(tail)) = Distance(headSeen, tail) + 1
      BY <1>t, <1>6, DistanceToIncrement DEF Publish, IInv, PushState
    <3>3. Increment(tail) # head /\ Increment(tail) # tailSeen
      <4>1. Increment(tail) # head
        BY <3>1, <3>2 DEF IInv, SeenInOrder
      <4>2. Distance(head, Increment(tail)) = Distance(head, tail) + 1
        BY <1>t, <4>1, DistanceToIncrement
      <4>. QED BY <3>1, <4>1, <4>2 DEF IInv, SeenInOrder
    <3>4. /\ Distance(head, Increment(tail)) = Distance(head, tail) + 1
          /\ Distance(tailSeen, Increment(tail)) = Distance(tailSeen, tail) + 1
      BY <1>t, <3>3, DistanceToIncrement
    <3>. QED BY <3>1, <3>2, <3>4, <1>6 DEF Publish, consumerVars, IInv, SeenInOrder
  <2>3. PublishedWhole'
    <3>1. Increment(tail) # head
      <4>1. Distance(headSeen, Increment(tail)) = Distance(headSeen, tail) + 1
        BY <1>t, <1>6, DistanceToIncrement DEF Publish, IInv, PushState
      <4>. QED BY <4>1, <1>t, DistanceRange DEF IInv, SeenInOrder
    <3>2. Distance(head, Increment(tail)) = Distance(head, tail) + 1
      BY <1>t, <3>1, DistanceToIncrement
    <3>3. ASSUME NEW i \in Index, Distance(head, i) < Distance(head, tail) + 1
          PROVE  array[i] \in Element
      <4>1. CASE Distance(head, i) < Distance(head, tail)
        BY <4>1 DEF IInv, PublishedWhole, Live
      <4>2. CASE Distance(head, i) = Distance(head, tail)
        <5>1. i = tail
          BY <4>2, <1>t DEF Distance, Index, Capacity
        <5>. QED BY <5>1, <1>6 DEF Publish, IInv, PushState
      <4>. QED BY <3>3, <4>1, <4>2, <1>t, DistanceRange
    <3>. QED BY <3>2, <3>3, <1>6 DEF Publish, consumerVars, PublishedWhole, Live
  <2>4. PushState'
    BY <1>6, <1>t, <1>i DEF Publish, producerVars, consumerVars, IInv, TypeOK, PushState,
       SeenInOrder, Index, Distance, Capacity
  <2>5. PopState'
    BY <1>6, <1>t, <1>i DEF Publish, producerVars, consumerVars, IInv, TypeOK, PopState, PushState,
       SeenInOrder, Index, Distance, Capacity
  <2>. QED BY <2>1, <2>2, <2>3, <2>4, <2>5 DEF IInv
<1>7. ASSUME NEW t \in Index, PopEmpty(t) PROVE IInv'
  <2>1. TypeOK'
    BY <1>7, <1>i DEF PopEmpty, TailLoads, producerVars, consumerVars, IInv, TypeOK
  <2>2. SeenInOrder'
    BY <1>7, <1>t, <1>i DEF PopEmpty, TailLoads, producerVars, consumerVars, IInv, SeenInOrder, PushState, PopState, Index, Distance, Capacity
  <2>3. PublishedWhole'
    BY <1>7, <1>t, <1>i DEF PopEmpty, TailLoads, producerVars, consumerVars, IInv, TypeOK, PublishedWhole, Live,
       SeenInOrder, PushState, PopState, Index, Distance, Capacity
  <2>4. PushState'
    BY <1>7, <1>t, <1>i DEF PopEmpty, TailLoads, producerVars, consumerVars, IInv, TypeOK, PushState,
       SeenInOrder, Index, Distance, Capacity
  <2>5. PopState'
    BY <1>7, <1>t, <1>i DEF PopEmpty, TailLoads, producerVars, consumerVars, IInv, TypeOK, PopState, PushState,
       SeenInOrder, Index, Distance, Capacity
  <2>. QED BY <2>1, <2>2, <2>3, <2>4, <2>5 DEF IInv
<1>8. ASSUME NEW t \in Index, PopCheck(t) PROVE IInv'
  <2>1. TypeOK'
    BY <1>8, <1>i DEF PopCheck, TailLoads, producerVars, consumerVars, IInv, TypeOK
  <2>2. SeenInOrder'
    BY <1>8, <1>t, <1>i DEF PopCheck, TailLoads, producerVars, consumerVars, IInv, SeenInOrder, PushState, PopState, Index, Distance, Capacity
  <2>3. PublishedWhole'
    BY <1>8, <1>t, <1>i DEF PopCheck, TailLoads, producerVars, consumerVars, IInv, TypeOK, PublishedWhole, Live,
       SeenInOrder, PushState, PopState, Index, Distance, Capacity
  <2>4. PushState'
    BY <1>8, <1>t, <1>i DEF PopCheck, TailLoads, producerVars, consumerVars, IInv, TypeOK, PushState,
       SeenInOrder, Index, Distance, Capacity
  <2>5. PopState'
    BY <1>8, <1>t, <1>i DEF PopCheck, TailLoads, producerVars, consumerVars, IInv, TypeOK, PopState, PushState,
       SeenInOrder, Index, Distance, Capacity
  <2>. QED BY <2>1, <2>2, <2>3, <2>4, <2>5 DEF IInv
<1>9. ASSUME ReadSlot PROVE IInv'
  <2>1. TypeOK'
    BY <1>9, <1>i DEF ReadSlot, producerVars, consumerVars, IInv, TypeOK
  <2>2. SeenInOrder'
    BY <1>9, <1>t, <1>i DEF ReadSlot, producerVars, consumerVars, IInv, SeenInOrder, PushState, PopState, Index, Distance, Capacity
  <2>3. PublishedWhole'
    BY <1>9, <1>t, <1>i DEF ReadSlot, producerVars, consumerVars, IInv, TypeOK, PublishedWhole, Live,
       SeenInOrder, PushState, PopState, Index, Distance, Capacity
  <2>4. PushState'
    BY <1>9, <1>t, <1>i DEF ReadSlot, producerVars, consumerVars, IInv, TypeOK, PushState,
       SeenInOrder, Index, Distance, Capacity
  <2>5. PopState'
    BY <1>9, <1>t, <1>i DEF ReadSlot, producerVars, consumerVars, IInv, TypeOK, PopState, PushState,
       SeenInOrder, Index, Distance, Capacity
  <2>. QED BY <2>1, <2>2, <2>3, <2>4, <2>5 DEF IInv
<1>10. ASSUME Release PROVE IInv'
  <2>1. TypeOK'
    BY <1>10, <1>i DEF Release, producerVars, consumerVars, IInv, TypeOK
  <2>2. SeenInOrder'
    <3>1. /\ Distance(headSeen, head) \in 0 .. Size
          /\ Distance(headSeen, tail) \in 0 .. Size
          /\ Distance(head, tail) \in 0 .. Size
          /\ Distance(head, tailSeen) \in 0 .. Size
          /\ Distance(tailSeen, tail) \in 0 .. Size
      BY <1>t, DistanceRange
    <3>2. head # tailSeen /\ head # tail
      BY <1>10, <1>t, <3>1, DistanceRange DEF Release, IInv, PopState, SeenInOrder
    <3>3. /\ Distance(Increment(head), tailSeen) = Distance(head, tailSeen) - 1
          /\ Distance(Increment(head), tail) = Distance(head, tail) - 1
      BY <1>t, <3>2, DistanceFromIncrement
    <3>4. Distance(headSeen, Increment(head)) = Distance(headSeen, head) + 1
      <4>1. Distance(headSeen, head) + 1 <= Distance(headSeen, tail)
        BY <3>1, <3>2, <1>t, DistanceRange DEF IInv, SeenInOrder
      <4>2. Increment(head) # headSeen
        BY <4>1, <3>1, <1>t, <1>i DEF Distance, Index, Capacity
      <4>. QED BY <1>t, <4>2, DistanceToIncrement
    <3>. QED BY <3>1, <3>3, <3>4, <1>10 DEF Release, producerVars, IInv, SeenInOrder
  <2>3. PublishedWhole'
    <3>1. head # tail
      BY <1>10, <1>t, DistanceRange DEF Release, IInv, PopState, SeenInOrder
    <3>2. Distance(Increment(head), tail) = Distance(head, tail) - 1
      BY <1>t, <3>1, DistanceFromIncrement
    <3>3. ASSUME NEW i \in Index, Distance(Increment(head), i) < Distance(head, tail) - 1
          PROVE  array[i] \in Element
      <4>1. i # head
        BY <3>3, <1>t, <1>i, DistanceRange DEF Distance, Index, Capacity
      <4>2. Distance(Increment(head), i) = Distance(head, i) - 1
        BY <4>1, <1>t, DistanceFromIncrement
      <4>. QED BY <3>3, <4>2, <1>t, DistanceRange DEF IInv, PublishedWhole, Live
    <3>. QED BY <3>2, <3>3, <1>10 DEF Release, producerVars, PublishedWhole, Live
  <2>4. PushState'
    BY <1>10, <1>t, <1>i DEF Release, producerVars, consumerVars, IInv, TypeOK, PushState,
       SeenInOrder, Index, Distance, Capacity
  <2>5. PopState'
    BY <1>10, <1>t, <1>i DEF Release, producerVars, consumerVars, IInv, TypeOK, PopState, PushState,
       SeenInOrder, Index, Distance, Capacity
  <2>. QED BY <2>1, <2>2, <2>3, <2>4, <2>5 DEF IInv
<1>11. ASSUME UNCHANGED vars PROVE IInv'
  BY <1>11 DEF vars, producerVars, consumerVars, IInv, TypeOK, SeenInOrder,
     PublishedWhole, Live, PushState, PopState
<1>. QED
  BY <1>1, <1>2, <1>3, <1>4, <1>5, <1>6, <1>7, <1>8, <1>9, <1>10, <1>11
  DEF Next, Producer, Consumer

(* The whole ring protocol keeps its inductive invariant for any size.     *)
THEOREM Invariance == Spec => []IInv
PROOF
<1>1. Init => IInv
  BY InitLemma
<1>2. IInv /\ [Next]_vars => IInv'
  BY StepLemma
<1>. QED BY <1>1, <1>2, PTL DEF Spec

(* TypeOK: the indices stay inside the array, slots hold messages.         *)
THEOREM TypeCorrect == Spec => []TypeOK
PROOF
<1>1. IInv => TypeOK
  BY DEF IInv
<1>. QED BY <1>1, Invariance, PTL

(* NoSlotRace: push never writes the slot that pop is copying.             *)
THEOREM SlotRaceFree == Spec => []NoSlotRace
PROOF
<1>1. IInv => NoSlotRace
  <2>. SUFFICES ASSUME IInv, pop.at # "idle" PROVE tail # head
    BY DEF NoSlotRace
  <2>1. /\ tail \in Index /\ head \in Index /\ tailSeen \in Index
        /\ head # tailSeen
    BY DEF IInv, TypeOK, PopState
  <2>2. Distance(head, tailSeen) # 0 /\ Distance(head, tail) # 0
    BY <2>1, DistanceRange, SizeAssumption DEF IInv, SeenInOrder
  <2>. QED BY <2>1, <2>2, DistanceRange
<1>. QED BY <1>1, Invariance, PTL

(* PublishedWhole: every message between _head and _tail is whole.         *)
THEOREM PublishedAreWhole == Spec => []PublishedWhole
PROOF
<1>1. IInv => PublishedWhole
  BY DEF IInv
<1>. QED BY <1>1, Invariance, PTL

-----------------------------------------------------------------------------
(* The refinement: where the messages are in the ring.                     *)
LEMMA SlotAfterLemma ==
  ASSUME NEW h \in Index, NEW i \in 0 .. Size
  PROVE  /\ SlotAfter(h, i) \in Index
         /\ Distance(h, SlotAfter(h, i)) = i
PROOF BY SizeAssumption DEF SlotAfter, Distance, Index, Capacity

LEMMA SlotAtDistance ==
  ASSUME NEW h \in Index, NEW t \in Index
  PROVE  SlotAfter(h, Distance(h, t)) = t
PROOF BY SizeAssumption DEF SlotAfter, Distance, Index, Capacity

LEMMA SlotAfterIncrement ==
  ASSUME NEW h \in Index, NEW i \in 0 .. Size - 1
  PROVE  SlotAfter(Increment(h), i) = SlotAfter(h, i + 1)
PROOF BY SizeAssumption, IncrementLemma DEF SlotAfter, Index, Capacity

(* A sequence given slot by slot, one element longer or one shorter.       *)
LEMMA FunctionIsSeq ==
  ASSUME NEW n \in Nat, NEW S, NEW f \in [1 .. n -> S]
  PROVE  f \in Seq(S) /\ Len(f) = n
PROOF OBVIOUS

LEMMA AppendIsFunction ==
  ASSUME NEW n \in Nat, NEW S, NEW f \in [1 .. n -> S], NEW e \in S,
         NEW g \in [1 .. n + 1 -> S],
         \A i \in 1 .. n : g[i] = f[i], g[n + 1] = e
  PROVE  g = Append(f, e)
PROOF
<1>1. f \in Seq(S) /\ Len(f) = n /\ g \in Seq(S) /\ Len(g) = n + 1
  BY FunctionIsSeq
<1>2. /\ Append(f, e) \in Seq(S) /\ Len(Append(f, e)) = n + 1
      /\ \A i \in 1 .. n : Append(f, e)[i] = f[i]
      /\ Append(f, e)[n + 1] = e
  BY <1>1, AppendProperties
<1>3. \A i \in 1 .. Len(g) : g[i] = Append(f, e)[i]
  BY <1>1, <1>2
<1>. QED BY <1>1, <1>2, <1>3, SeqEqual

LEMMA TailIsFunction ==
  ASSUME NEW n \in Nat, NEW S, NEW f \in [1 .. n + 1 -> S],
         NEW g \in [1 .. n -> S], \A i \in 1 .. n : g[i] = f[i + 1]
  PROVE  f # <<>> /\ Head(f) = f[1] /\ g = Tail(f)
PROOF
<1>1. f \in Seq(S) /\ Len(f) = n + 1 /\ g \in Seq(S) /\ Len(g) = n
  BY FunctionIsSeq
<1>2. f # <<>>
  BY <1>1
<1>3. Head(f) = f[1]
  BY <1>1, <1>2
<1>4. /\ Tail(f) \in Seq(S) /\ Len(Tail(f)) = n
      /\ \A i \in 1 .. n : Tail(f)[i] = f[i + 1]
  BY <1>1, <1>2, HeadTailProperties
<1>5. \A i \in 1 .. Len(g) : g[i] = Tail(f)[i]
  BY <1>1, <1>4
<1>. QED BY <1>1, <1>2, <1>3, <1>4, <1>5, SeqEqual

(* The elements of queueContents are whole messages.                       *)
LEMMA ContentsType ==
  ASSUME IInv
  PROVE  queueContents \in [1 .. Distance(head, tail) -> Element]
PROOF
<1>1. tail \in Index /\ head \in Index /\ Distance(head, tail) \in 0 .. Size
  BY DistanceRange DEF IInv, TypeOK
<1>2. ASSUME NEW i \in 1 .. Distance(head, tail)
      PROVE  array[SlotAfter(head, i - 1)] \in Element
  <2>1. i - 1 \in 0 .. Size /\ i - 1 < Distance(head, tail)
    BY <1>1, SizeAssumption
  <2>2. SlotAfter(head, i - 1) \in Live
    BY <1>1, <2>1, SlotAfterLemma DEF Live
  <2>. QED BY <2>2 DEF IInv, PublishedWhole
<1>. QED BY <1>2 DEF queueContents

(* Nothing but the slots in use and the two indices matters to the queue:  *)
(* a step that leaves them alone leaves the queue alone.                   *)
LEMMA ContentsUnchanged ==
  ASSUME IInv, head' = head, tail' = tail,
         \A i \in Live : array'[i] = array[i]
  PROVE  queueContents' = queueContents
PROOF
<1>1. tail \in Index /\ head \in Index /\ Distance(head, tail) \in 0 .. Size
  BY DistanceRange DEF IInv, TypeOK
<1>2. ASSUME NEW i \in 1 .. Distance(head, tail)
      PROVE  array'[SlotAfter(head, i - 1)] = array[SlotAfter(head, i - 1)]
  <2>1. i - 1 \in 0 .. Size /\ i - 1 < Distance(head, tail)
    BY <1>1, SizeAssumption
  <2>2. SlotAfter(head, i - 1) \in Live
    BY <1>1, <2>1, SlotAfterLemma DEF Live
  <2>. QED BY <2>2
<1>. QED BY <1>2 DEF queueContents

(* Publishing a message appends it.                                        *)
LEMMA PublishAppends ==
  ASSUME IInv, IInv', Publish
  PROVE  /\ Len(queueContents) < Size
         /\ queueContents' = Append(queueContents, push.item)
PROOF
<1>. DEFINE n == Distance(head, tail)
<1>1. /\ tail \in Index /\ head \in Index /\ Size \in Nat
      /\ Increment(tail) \in Index /\ n \in 0 .. Size
  BY SizeAssumption, DistanceRange, IncrementLemma DEF IInv, TypeOK
<1>2. /\ head' = head /\ array' = array /\ tail' = Increment(tail)
      /\ push.item \in Element /\ array[tail] = push.item
  BY DEF Publish, consumerVars, IInv, PushState
<1>3. Increment(tail) # head
  <2>1. /\ headSeen \in Index /\ Increment(tail) # headSeen
        /\ Distance(headSeen, head) \in 0 .. Size
        /\ Distance(headSeen, tail) = Distance(headSeen, head) + n
    BY DistanceRange DEF Publish, IInv, TypeOK, PushState, SeenInOrder
  <2>2. Distance(headSeen, Increment(tail)) = Distance(headSeen, tail) + 1
    BY <1>1, <2>1, DistanceToIncrement
  <2>. QED BY <1>1, <2>1, <2>2
<1>4. Distance(head, Increment(tail)) = n + 1
  BY <1>1, <1>3, DistanceToIncrement
<1>5. n + 1 \in 0 .. Size
  BY <1>1, <1>4, DistanceRange
<1>6. queueContents' = [i \in 1 .. n + 1 |-> array[SlotAfter(head, i - 1)]]
  BY <1>2, <1>4 DEF queueContents
<1>7. queueContents \in [1 .. n -> Element]
  BY ContentsType
<1>8. queueContents' \in [1 .. n + 1 -> Element]
  <2>1. ASSUME NEW i \in 1 .. n PROVE array[SlotAfter(head, i - 1)] \in Element
    BY <1>7 DEF queueContents
  <2>2. array[SlotAfter(head, n)] \in Element
    BY <1>1, <1>2, SlotAtDistance
  <2>3. ASSUME NEW i \in 1 .. n + 1 PROVE array[SlotAfter(head, i - 1)] \in Element
    <3>1. CASE i = n + 1
      <4>1. i - 1 = n
        BY <1>1, <3>1
      <4>. QED BY <2>2, <4>1
    <3>2. CASE i # n + 1
      <4>1. i \in 1 .. n
        BY <1>1, <3>2
      <4>. QED BY <2>1, <4>1
    <3>. QED BY <3>1, <3>2
  <2>. QED BY <1>6, <2>3
<1>9. \A i \in 1 .. n : queueContents'[i] = queueContents[i]
  <2>1. \A i \in 1 .. n : i \in 1 .. n + 1
    BY <1>1
  <2>. QED BY <1>6, <2>1 DEF queueContents
<1>10. queueContents'[n + 1] = push.item
  <2>1. n + 1 \in 1 .. n + 1 /\ (n + 1) - 1 = n
    BY <1>1
  <2>2. queueContents'[n + 1] = array[SlotAfter(head, n)]
    BY <1>6, <2>1
  <2>. QED BY <2>2, <1>1, <1>2, SlotAtDistance
<1>11. Len(queueContents) = n
  BY <1>1, <1>7, FunctionIsSeq
<1>12. queueContents' = Append(queueContents, push.item)
  <2>. HIDE DEF n
  <2>1. n \in Nat
    BY <1>1
  <2>. QED BY <2>1, <1>2, <1>7, <1>8, <1>9, <1>10, AppendIsFunction
<1>. QED BY <1>1, <1>5, <1>11, <1>12

(* Releasing the slot of the message copied removes it.                    *)
LEMMA ReleaseRemoves ==
  ASSUME IInv, IInv', Release
  PROVE  /\ queueContents # <<>>
         /\ delivered' = Head(queueContents)
         /\ queueContents' = Tail(queueContents)
PROOF
<1>. DEFINE n == Distance(head, tail) - 1
<1>1. /\ tail \in Index /\ head \in Index /\ tailSeen \in Index /\ Size \in Nat
      /\ head # tailSeen /\ array[head] = pop.item /\ Increment(head) \in Index
  BY SizeAssumption, IncrementLemma DEF IInv, TypeOK, Release, PopState
<1>2. Distance(head, tail) # 0 /\ head # tail
  BY <1>1, DistanceRange DEF IInv, SeenInOrder
<1>3. n \in 0 .. Size - 1 /\ Distance(head, tail) = n + 1
  BY <1>1, <1>2, DistanceRange
<1>4. Distance(Increment(head), tail) = n
  BY <1>1, <1>2, DistanceFromIncrement
<1>5. queueContents' = [i \in 1 .. n |-> array[SlotAfter(Increment(head), i - 1)]]
  BY <1>4 DEF Release, producerVars, queueContents
<1>6. queueContents \in [1 .. n + 1 -> Element]
  BY <1>3, ContentsType
<1>7. ASSUME NEW i \in 1 .. n
      PROVE  /\ queueContents'[i] = queueContents[i + 1]
             /\ queueContents'[i] \in Element
  <2>1. i - 1 \in 0 .. Size - 1 /\ i + 1 \in 1 .. n + 1 /\ (i - 1) + 1 = (i + 1) - 1
    BY <1>1, <1>3
  <2>2. SlotAfter(Increment(head), i - 1) = SlotAfter(head, (i + 1) - 1)
    BY <1>1, <2>1, SlotAfterIncrement
  <2>3. queueContents[i + 1] = array[SlotAfter(head, (i + 1) - 1)]
    BY <1>3, <2>1 DEF queueContents
  <2>. QED BY <1>5, <1>6, <2>1, <2>2, <2>3
<1>8. queueContents' \in [1 .. n -> Element]
  BY <1>5, <1>7
<1>9. queueContents[1] = array[head]
  <2>1. 1 \in 1 .. Distance(head, tail) /\ 1 - 1 = 0
    BY <1>3
  <2>2. SlotAfter(head, 0) = head
    BY <1>1 DEF SlotAfter, Index
  <2>. QED BY <2>1, <2>2 DEF queueContents
<1>10. /\ queueContents # <<>>
       /\ Head(queueContents) = queueContents[1]
       /\ queueContents' = Tail(queueContents)
  <2>. HIDE DEF n
  <2>1. n \in Nat
    BY <1>3
  <2>. QED BY <2>1, <1>6, <1>7, <1>8, TailIsFunction
<1>. QED BY <1>1, <1>9, <1>10 DEF Release

(* push and pop implement the queue: accepted messages come out whole,     *)
(* once and in order, whatever the interleaving of the two threads and     *)
(* however old the indices their acquire loads return.                     *)
THEOREM Refinement == Spec => ImplementsQueue
PROOF
<1>1. Init => Queue!AbsInit
  <2>. SUFFICES ASSUME Init PROVE Queue!AbsInit
    OBVIOUS
  <2>1. Distance(head, tail) = 0
    BY DEF Init, Distance
  <2>2. queueContents = <<>>
    BY <2>1 DEF queueContents
  <2>. QED BY <2>2 DEF Init, Queue!AbsInit
<1>2. IInv /\ IInv' /\ [Next]_vars => [Queue!AbsNext]_(Queue!absVars)
  <2>. SUFFICES ASSUME IInv, IInv', [Next]_vars
               PROVE  Queue!AbsNext \/ UNCHANGED Queue!absVars
    OBVIOUS
  <2>i. \A i \in Live : i \in Index /\ i # tail
    BY DistanceRange DEF Live, IInv, TypeOK
  <2>1. ASSUME NEW e \in Element, PushCall(e)
        PROVE  Queue!Offer(e)
    <3>1. queueContents' = queueContents
      BY <2>1, ContentsUnchanged DEF PushCall, consumerVars
    <3>2. push.item = NoElement
      BY <2>1 DEF PushCall, IInv, TypeOK, PushState
    <3>. QED BY <2>1, <3>1, <3>2 DEF PushCall, consumerVars, Queue!Offer
  <2>2. ASSUME NEW h \in Index, PushHasRoom(h)
        PROVE  UNCHANGED Queue!absVars
    <3>1. queueContents' = queueContents
      BY <2>2, ContentsUnchanged DEF PushHasRoom, consumerVars
    <3>2. push'.item = push.item
      BY <2>2 DEF PushHasRoom, IInv, TypeOK
    <3>. QED BY <2>2, <3>1, <3>2 DEF PushHasRoom, consumerVars, Queue!absVars
  <2>3. ASSUME NEW h \in Index, PushFull(h)
        PROVE  Queue!Refuse
    <3>1. queueContents' = queueContents
      BY <2>3, ContentsUnchanged DEF PushFull, consumerVars
    <3>2. push.item # NoElement
      BY <2>3, NoElementAssumption DEF PushFull, IInv, PushState
    <3>. QED BY <2>3, <3>1, <3>2 DEF PushFull, consumerVars, Queue!Refuse
  <2>4. ASSUME WriteSlot PROVE UNCHANGED Queue!absVars
    <3>1. \A i \in Live : array'[i] = array[i]
      BY <2>4, <2>i DEF WriteSlot, IInv, TypeOK
    <3>2. queueContents' = queueContents
      BY <2>4, <3>1, ContentsUnchanged DEF WriteSlot, consumerVars
    <3>3. push'.item = push.item
      BY <2>4 DEF WriteSlot, IInv, TypeOK
    <3>. QED BY <2>4, <3>2, <3>3 DEF WriteSlot, consumerVars, Queue!absVars
  <2>5. ASSUME WroteSlot PROVE UNCHANGED Queue!absVars
    <3>1. \A i \in Live : array'[i] = array[i]
      BY <2>5, <2>i DEF WroteSlot, IInv, TypeOK
    <3>2. queueContents' = queueContents
      BY <2>5, <3>1, ContentsUnchanged DEF WroteSlot, consumerVars
    <3>3. push'.item = push.item
      BY <2>5 DEF WroteSlot, IInv, TypeOK
    <3>. QED BY <2>5, <3>2, <3>3 DEF WroteSlot, consumerVars, Queue!absVars
  <2>6. ASSUME Publish PROVE Queue!Enqueue
    <3>1. push.item # NoElement
      BY <2>6, NoElementAssumption DEF Publish, IInv, PushState
    <3>. QED BY <2>6, <3>1, PublishAppends DEF Publish, consumerVars, Queue!Enqueue
  <2>7. ASSUME NEW t \in Index, PopEmpty(t)
        PROVE  UNCHANGED Queue!absVars
    <3>1. queueContents' = queueContents
      BY <2>7, ContentsUnchanged DEF PopEmpty, producerVars
    <3>. QED BY <2>7, <3>1 DEF PopEmpty, producerVars, Queue!absVars
  <2>8. ASSUME NEW t \in Index, PopCheck(t)
        PROVE  UNCHANGED Queue!absVars
    <3>1. queueContents' = queueContents
      BY <2>8, ContentsUnchanged DEF PopCheck, producerVars
    <3>. QED BY <2>8, <3>1 DEF PopCheck, producerVars, Queue!absVars
  <2>9. ASSUME ReadSlot PROVE UNCHANGED Queue!absVars
    <3>1. queueContents' = queueContents
      BY <2>9, ContentsUnchanged DEF ReadSlot, producerVars
    <3>. QED BY <2>9, <3>1 DEF ReadSlot, producerVars, Queue!absVars
  <2>10. ASSUME Release PROVE Queue!Dequeue
    BY <2>10, ReleaseRemoves DEF Release, producerVars, Queue!Dequeue
  <2>11. ASSUME UNCHANGED vars PROVE UNCHANGED Queue!absVars
    <3>1. queueContents' = queueContents
      BY <2>11, ContentsUnchanged DEF vars, producerVars, consumerVars
    <3>. QED BY <2>11, <3>1 DEF vars, producerVars, consumerVars, Queue!absVars
  <2>. QED
    BY <2>1, <2>2, <2>3, <2>4, <2>5, <2>6, <2>7, <2>8, <2>9, <2>10, <2>11
    DEF Next, Producer, Consumer, Queue!AbsNext
<1>. QED BY <1>1, <1>2, Invariance, PTL DEF Spec, ImplementsQueue, Queue!AbsSpec

-----------------------------------------------------------------------------
(* The registers: GSRegisters                                              *)

(* A copy has its type, and a SIGNAL waits only behind another.            *)
Sound(r) == r \in Registers /\ (r.stall => "signal" \in r.generated)

(* SignalRaisesOnce, of a copy r and a count n.                            *)
Once(r, n) ==
  IF "signal" \in r.generated THEN n + (IF r.pending THEN 1 ELSE 0) = 1
  ELSE ~r.pending

(* The inductive invariant.  What is being sent is a message.              *)
RegistersInv ==
  /\ push \in [at : {"idle", "check", "write", "wrote", "publish"},
               item : Element \cup {NoElement}]
  /\ push.at # "idle" => push.item \in Element
  /\ Sound(ours) /\ theirs \in Registers
  /\ raised \in 0 .. 1 /\ died \in BOOLEAN
  /\ Once(ours, raised)

LEMMA ElementIsMessage == ASSUME NEW m \in Element PROVE m \in Messages
BY RegistersAssumption

-----------------------------------------------------------------------------
(* The copies                                                              *)

LEMMA ResetSound ==
  ASSUME NEW r \in Registers
  PROVE  /\ ResetRegisters(r) \in Registers
         /\ ~ResetRegisters(r).stall /\ ~ResetRegisters(r).pending
         /\ ResetRegisters(r).generated = {}
BY RegistersAssumption DEF ResetRegisters, Registers, Causes

(* Acknowledging brings the SIGNAL that waits, or none.                    *)
LEMMA AcknowledgeSound ==
  ASSUME NEW r \in Registers
  PROVE  LET a == AcknowledgeSignal(r)
         IN /\ a \in Registers /\ ~a.stall
            /\ r.stall => "signal" \in a.generated /\ a.pending
            /\ ~r.stall => "signal" \notin a.generated /\ ~a.pending
BY DEF AcknowledgeSignal, Registers, Causes

(* A write to CSR, by its SIGNAL bit and its reset bit.                    *)
LEMMA WriteCSRSound ==
  ASSUME NEW r \in Registers, Sound(r),
         NEW bits \in SUBSET (Causes \cup {"reset"})
  PROVE  LET w == WriteCSR(r, bits)
         IN /\ Sound(w)
            /\ "reset" \in bits => w.generated = {} /\ ~w.pending
            /\ "reset" \notin bits /\ "signal" \in bits /\ r.stall =>
                 "signal" \in w.generated /\ w.pending
            /\ "reset" \notin bits /\ "signal" \in bits /\ ~r.stall =>
                 "signal" \notin w.generated /\ ~w.pending
            /\ "reset" \notin bits /\ "signal" \notin bits =>
                 /\ w.pending = r.pending
                 /\ "signal" \in w.generated <=> "signal" \in r.generated
<1> DEFINE a == IF "signal" \in bits THEN AcknowledgeSignal(r) ELSE r
           b == [a EXCEPT !.generated = @ \ (bits \ {"signal"})]
<1>1. /\ Sound(a)
      /\ "signal" \in bits /\ r.stall => "signal" \in a.generated /\ a.pending
      /\ "signal" \in bits /\ ~r.stall => "signal" \notin a.generated /\ ~a.pending
  BY AcknowledgeSound DEF Sound
<1>2. "signal" \notin bits => a = r
  OBVIOUS
<1> HIDE DEF a
<1>3. /\ b \in Registers /\ b.pending = a.pending /\ b.stall = a.stall
      /\ "signal" \in b.generated <=> "signal" \in a.generated
  BY <1>1 DEF Sound, Registers, Causes
<1>4. WriteCSR(r, bits) = IF "reset" \in bits THEN ResetRegisters(b) ELSE b
  BY DEF WriteCSR, a
<1> HIDE DEF b
<1>5. CASE "reset" \in bits
  BY <1>3, <1>4, <1>5, ResetSound DEF Sound
<1>6. CASE "reset" \notin bits
  <2>1. WriteCSR(r, bits) = b
    BY <1>4, <1>6
  <2>2. Sound(b)
    BY <1>1, <1>3 DEF Sound
  <2> QED BY <1>1, <1>2, <1>3, <1>6, <2>1, <2>2
<1> QED BY <1>5, <1>6

-----------------------------------------------------------------------------
(* A message that is neither a write to SIGNAL, to CSR nor to IMR leaves   *)
(* what is known of SIGNAL.                                                *)
LEMMA OtherSound ==
  ASSUME NEW r \in Registers, NEW m \in Messages,
         m.type \notin {"SIGNAL", "CSR", "IMR"}
  PROVE  LET a == Apply(r, m)
         IN /\ a \in Registers
            /\ a.stall = r.stall /\ a.pending = r.pending
            /\ "signal" \in a.generated <=> "signal" \in r.generated
<1>1. CASE m.type = "LABEL"
  <2>1. Apply(r, m) = [r EXCEPT !.label = m.id] /\ m.id \in Ids
    BY <1>1 DEF Apply, Messages
  <2> QED BY <2>1 DEF Registers
<1>2. CASE m.type = "SIGLBLID"
  <2>1. Apply(r, m) = [r EXCEPT !.sig = m.sig, !.label = m.label] /\ m.sig \in Ids /\ m.label \in Ids
    BY <1>2 DEF Apply, Messages
  <2> QED BY <2>1 DEF Registers
<1>3. CASE m.type = "FINISH"
  <2>1. Apply(r, m) = [r EXCEPT !.requested = TRUE]
    BY <1>3 DEF Apply
  <2> QED BY <2>1 DEF Registers
<1>4. CASE m.type = "SYNCV"
  <2>1. Apply(r, m) = [r EXCEPT !.swaps = m.swaps] /\ m.swaps \in BOOLEAN
    BY <1>4 DEF Apply, Messages
  <2> QED BY <2>1 DEF Registers
<1>5. CASE m.type = "display"
  <2>1. Apply(r, m) = [r EXCEPT !.display = m.value] /\ m.value \in Displays
    BY <1>5 DEF Apply, Messages
  <2> QED BY <2>1 DEF Registers
<1>6. CASE m.type = "assert_finish"
  <2>1. Apply(r, m) = AssertFinish(r)
    BY <1>6 DEF Apply
  <2>2. CASE r.requested /\ "finish" \notin r.generated
    <3>1. Apply(r, m) = [r EXCEPT !.requested = FALSE, !.generated = @ \cup {"finish"}]
      BY <2>1, <2>2 DEF AssertFinish
    <3> DEFINE g == r.generated \cup {"finish"}
    <3>2. g \in SUBSET Causes /\ ("signal" \in g <=> "signal" \in r.generated)
      BY DEF Registers, Causes
    <3>3. Apply(r, m) = [r EXCEPT !.requested = FALSE, !.generated = g]
      BY <3>1
    <3> HIDE DEF g
    <3> QED BY <3>2, <3>3 DEF Registers
  <2>3. CASE ~(r.requested /\ "finish" \notin r.generated)
    BY <2>1, <2>3 DEF AssertFinish
  <2> QED BY <2>2, <2>3
<1>7. CASE m.type \in {"assert_vsync", "assert_hblank"}
  <2>1. \E c \in {"vblank", "hblank"} : Apply(r, m) = [r EXCEPT !.generated = @ \cup {c}]
    BY <1>7 DEF Apply, Assert
  <2> QED BY <2>1 DEF Registers, Causes
<1>8. CASE m.type = "swap_field"
  <2>1. Apply(r, m) = [r EXCEPT !.odd = (r.swaps => ~r.odd)]
    BY <1>8 DEF Apply
  <2> QED BY <2>1 DEF Registers
<1>9. m.type \in {"LABEL", "SIGLBLID", "FINISH", "SYNCV", "display", "assert_finish",
                  "assert_vsync", "assert_hblank", "swap_field"}
  BY DEF Messages
<1> QED BY <1>1, <1>2, <1>3, <1>4, <1>5, <1>6, <1>7, <1>8, <1>9

(* A message on the emulation thread's copy.                               *)
LEMMA OursSound ==
  ASSUME NEW r \in Registers, Sound(r), NEW n \in 0 .. 1, Once(r, n),
         NEW m \in Messages
  PROVE  /\ Sound(OursAfter(r, m))
         /\ RaisedAfter(r, m, n) \in 0 .. 1
         /\ Once(OursAfter(r, m), RaisedAfter(r, m, n))
<1> DEFINE o == OursAfter(r, m)
           k == RaisedAfter(r, m, n)
<1>1. CASE m.type = "SIGNAL"
  <2>1. /\ Apply(r, m) = Signal(r, m.id) /\ m.id \in Ids
        /\ o = NoteMasked(Signal(r, m.id))
    BY <1>1 DEF Apply, OursAfter, Messages
  <2>2. k = (IF "signal" \notin r.generated THEN 0 ELSE n)
              + (IF SignalInterrupt(Signal(r, m.id)) THEN 1 ELSE 0)
    BY <1>1, <2>1 DEF RaisedAfter, SignalAppears, RaisesSignal
  <2>3. CASE "signal" \in r.generated
    <3>1. Signal(r, m.id) = [r EXCEPT !.stall = TRUE, !.backup = m.id]
      BY <2>3 DEF Signal
    <3>2. o = Signal(r, m.id) /\ k = n
      BY <2>1, <2>2, <2>3, <3>1 DEF NoteMasked, SignalInterrupt, Registers
    <3> QED BY <2>1, <2>3, <3>1, <3>2 DEF Sound, Once, Registers
  <2>4. CASE "signal" \notin r.generated
    <3> DEFINE s == [r EXCEPT !.generated = @ \cup {"signal"}, !.sig = m.id]
    <3>1. Signal(r, m.id) = s
      BY <2>4 DEF Signal
    <3>2. s \in Registers /\ ~s.stall /\ ~s.pending /\ "signal" \in s.generated
      BY <2>1, <2>4 DEF Sound, Once, Registers, Causes
    <3> HIDE DEF s
    <3>3. CASE "signal" \in s.masked
      <4>1. o = [s EXCEPT !.pending = TRUE] /\ k = 0
        BY <2>1, <2>2, <2>4, <3>1, <3>2, <3>3 DEF NoteMasked, SignalInterrupt
      <4>2. /\ o \in Registers /\ o.pending /\ ~o.stall
            /\ "signal" \in o.generated
        BY <3>2, <4>1 DEF Registers
      <4> QED BY <4>1, <4>2 DEF Sound, Once
    <3>4. CASE "signal" \notin s.masked
      <4>1. o = s /\ k = 1
        BY <2>1, <2>2, <2>4, <3>1, <3>2, <3>4 DEF NoteMasked, SignalInterrupt
      <4> QED BY <3>2, <4>1 DEF Sound, Once
    <3> QED BY <3>3, <3>4
  <2> QED BY <2>3, <2>4
<1>2. CASE m.type = "CSR"
  <2>1. m.bits \in SUBSET (Causes \cup {"reset"})
    BY <1>2 DEF Messages
  <2>2. o = WriteCSR(r, m.bits)
    BY <1>2 DEF OursAfter, Apply, Opens
  <2>3. k = IF "signal" \in m.bits /\ r.stall THEN 0 ELSE n
    BY <1>2 DEF RaisedAfter, SignalAppears, RaisesSignal, Opens
  <2> QED BY <2>1, <2>2, <2>3, WriteCSRSound DEF Once
<1>3. CASE m.type = "IMR"
  <2>1. m.masks \in SUBSET Causes
    BY <1>3 DEF Messages
  <2> DEFINE a == [r EXCEPT !.masked = m.masks]
  <2>2. a \in Registers /\ a.stall = r.stall /\ a.pending = r.pending
          /\ a.generated = r.generated
    BY <2>1 DEF Registers
  <2>3. Apply(r, m) = a
    BY <1>3 DEF Apply
  <2>4. k = n + (IF Opens(r, m) THEN 1 ELSE 0)
    BY <1>3 DEF RaisedAfter, SignalAppears, RaisesSignal
  <2>5. o = IF Opens(r, m) THEN [a EXCEPT !.pending = FALSE] ELSE a
    BY <1>3, <2>3 DEF OursAfter
  <2>6. Opens(r, m) => r.pending
    BY DEF Opens
  <2> HIDE DEF a
  <2>7. CASE Opens(r, m)
    <3>1. k = 1 /\ "signal" \in r.generated
      BY <2>4, <2>6, <2>7 DEF Once
    <3>2. /\ o \in Registers /\ ~o.pending /\ o.stall = r.stall
          /\ o.generated = r.generated
      BY <2>2, <2>5, <2>7 DEF Registers
    <3> QED BY <3>1, <3>2 DEF Sound, Once
  <2>8. CASE ~Opens(r, m)
    <3>1. o = a /\ k = n
      BY <2>4, <2>5, <2>8
    <3> QED BY <2>2, <3>1 DEF Sound, Once
  <2> QED BY <2>7, <2>8
<1>4. CASE m.type \notin {"SIGNAL", "CSR", "IMR"}
  <2>1. o = Apply(r, m) /\ k = n
    BY <1>4 DEF OursAfter, RaisedAfter, SignalAppears, RaisesSignal, Opens
  <2> QED BY <1>4, <2>1, OtherSound DEF Sound, Once
<1> QED BY <1>1, <1>2, <1>3, <1>4

(* A message on the GS thread's copy, which raises nothing.                *)
LEMMA TheirsSound ==
  ASSUME NEW r \in Registers, NEW m
  PROVE  TheirsAfter(r, m) \in Registers
<1>1. CASE m \notin Element
  BY <1>1 DEF TheirsAfter
<1>2. CASE m \in Element
  <2>1. m \in Messages /\ TheirsAfter(r, m) = Apply(r, m)
    BY <1>2, ElementIsMessage DEF TheirsAfter
  <2>2. CASE m.type = "SIGNAL"
    <3>1. TheirsAfter(r, m) = Signal(r, m.id) /\ m.id \in Ids
      BY <2>1, <2>2 DEF Apply, Messages
    <3>2. [r EXCEPT !.stall = TRUE, !.backup = m.id] \in Registers
      BY <3>1 DEF Registers
    <3>3. [r EXCEPT !.generated = @ \cup {"signal"}, !.sig = m.id] \in Registers
      BY <3>1 DEF Registers, Causes
    <3> QED BY <3>1, <3>2, <3>3 DEF Signal
  <2>3. CASE m.type = "IMR"
    BY <2>1, <2>3 DEF Apply, Registers, Messages
  <2>4. CASE m.type = "CSR"
    <3> DEFINE a == IF "signal" \in m.bits THEN AcknowledgeSignal(r) ELSE r
               b == [a EXCEPT !.generated = @ \ (m.bits \ {"signal"})]
    <3>1. a \in Registers
      BY AcknowledgeSound
    <3> HIDE DEF a
    <3>2. b \in Registers
      BY <3>1 DEF Registers, Causes
    <3>3. Apply(r, m) = IF "reset" \in m.bits THEN ResetRegisters(b) ELSE b
      BY <2>4 DEF Apply, WriteCSR, a
    <3> HIDE DEF b
    <3> QED BY <2>1, <3>2, <3>3, ResetSound
  <2> QED BY <2>1, <2>2, <2>3, <2>4, OtherSound
<1> QED BY <1>1, <1>2

-----------------------------------------------------------------------------
(* The specification                                                       *)

LEMMA RegistersInitInv == RegistersInit => RegistersInv
<1>1. PowerOn \in Registers /\ ~PowerOn.stall /\ ~PowerOn.pending /\ PowerOn.generated = {}
  BY RegistersAssumption DEF PowerOn, ResetRegisters, Registers, Causes
<1> SUFFICES ASSUME RegistersInit PROVE RegistersInv
  OBVIOUS
<1>2. Sound(ours) /\ theirs \in Registers /\ Once(ours, raised)
  BY <1>1 DEF RegistersInit, Sound, Once
<1>3. push = [at |-> "idle", item |-> NoElement] /\ raised = 0 /\ died = FALSE
  BY DEF RegistersInit, Init
<1>4. /\ push \in [at : {"idle", "check", "write", "wrote", "publish"},
                   item : Element \cup {NoElement}]
      /\ push.at = "idle"
  BY <1>3
<1>5. raised \in 0 .. 1
  BY <1>3
<1>6. died \in BOOLEAN
  BY <1>3, ZenonT(60)
<1> QED BY <1>2, <1>4, <1>5, <1>6 DEF RegistersInv

LEMMA RegistersStepInv ==
  ASSUME RegistersInv, [RegistersNext]_allVars PROVE RegistersInv'
<1> USE DEF RegistersInv
<1>1. CASE Send
  <2>1. /\ push' \in [at : {"idle", "check", "write", "wrote", "publish"},
                       item : Element \cup {NoElement}]
        /\ push'.at # "idle" => push'.item \in Element
    BY <1>1 DEF Send, PushCall, PushHasRoom, WriteSlot, WroteSlot
  <2> QED BY <1>1, <2>1 DEF Send, registerVars
<1>2. CASE SendDone
  <2>1. push.item \in Messages
    BY <1>2, ElementIsMessage DEF SendDone, Publish
  <2>2. push' = [at |-> "idle", item |-> NoElement]
    BY <1>2 DEF SendDone, Publish
  <2>3. Sound(ours') /\ raised' \in 0 .. 1 /\ Once(ours', raised')
    BY <1>2, <2>1, OursSound DEF SendDone, Sound
  <2> QED BY <1>2, <2>2, <2>3 DEF SendDone
<1>3. CASE SendDies
  BY <1>3 DEF SendDies, PushFull
<1>4. CASE Receive
  <2>1. theirs' \in Registers
    BY <1>4, TheirsSound DEF Receive
  <2> QED BY <1>4, <2>1 DEF Receive, Release, producerVars
<1>5. CASE Popping
  BY <1>5 DEF Popping, PopEmpty, PopCheck, ReadSlot, producerVars, registerVars
<1>6. CASE UNCHANGED allVars
  BY <1>6 DEF allVars, vars, producerVars, registerVars
<1> QED BY <1>1, <1>2, <1>3, <1>4, <1>5, <1>6 DEF RegistersNext

THEOREM RegistersInvariance == RegistersSpec => []RegistersInv
BY RegistersInitInv, RegistersStepInv, PTL DEF RegistersSpec

(* A SIGNAL that CSR shows has raised its interrupt once, or will when IMR *)
(* is opened (write64 and write64_privileged of GraphicsSynthesizer).      *)
THEOREM SignalsRaiseOnce == RegistersSpec => []SignalRaisesOnce
<1>1. RegistersInv => SignalRaisesOnce
  BY DEF RegistersInv, SignalRaisesOnce, Once
<1> QED BY RegistersInvariance, <1>1, PTL

-----------------------------------------------------------------------------
(* The copies agree                                                        *)

(* SIGNAL_irq_pending has no part in what a message does to the rest.      *)
LEMMA ResetShared ==
  ASSUME NEW r \in Registers, NEW p \in BOOLEAN
  PROVE  ResetRegisters([r EXCEPT !.pending = p]) = ResetRegisters(r)
BY DEF ResetRegisters, Registers

LEMMA ApplyShared ==
  ASSUME NEW r \in Registers, NEW p \in BOOLEAN, NEW m \in Messages
  PROVE  Shared(Apply([r EXCEPT !.pending = p], m)) = Shared(Apply(r, m))
<1> DEFINE s == [r EXCEPT !.pending = p]
<1>0. /\ s \in Registers
      /\ s.generated = r.generated /\ s.masked = r.masked /\ s.stall = r.stall
      /\ s.requested = r.requested /\ s.odd = r.odd /\ s.swaps = r.swaps
      /\ s.sig = r.sig /\ s.backup = r.backup /\ s.label = r.label
      /\ s.display = r.display
  BY DEF Registers
<1>1. CASE m.type = "SIGNAL"
  <2>1. Apply(s, m) = Signal(s, m.id) /\ Apply(r, m) = Signal(r, m.id)
    BY <1>1 DEF Apply
  <2>2. CASE "signal" \in r.generated
    BY <1>0, <2>1, <2>2 DEF Signal, Shared, Registers
  <2>3. CASE "signal" \notin r.generated
    BY <1>0, <2>1, <2>3 DEF Signal, Shared, Registers
  <2> QED BY <2>2, <2>3
<1>2. CASE m.type = "LABEL"
  BY <1>2 DEF Apply, Shared, Registers
<1>3. CASE m.type = "SIGLBLID"
  BY <1>3 DEF Apply, Shared, Registers
<1>4. CASE m.type = "FINISH"
  BY <1>4 DEF Apply, Shared, Registers
<1>5. CASE m.type = "CSR"
  <2> DEFINE a(c) == IF "signal" \in m.bits THEN AcknowledgeSignal(c) ELSE c
             b(c) == [a(c) EXCEPT !.generated = @ \ (m.bits \ {"signal"})]
  <2>1. ASSUME NEW c \in Registers
        PROVE  /\ Apply(c, m) = IF "reset" \in m.bits THEN ResetRegisters(b(c)) ELSE b(c)
               /\ a(c) \in Registers /\ b(c) \in Registers
    <3>1. a(c) \in Registers
      BY AcknowledgeSound
    <3>2. Apply(c, m) = WriteCSR(c, m.bits)
      BY <1>5 DEF Apply
    <3>3. b(c) \in Registers
      <4> HIDE DEF a
      <4> QED BY <3>1 DEF Registers
    <3> QED BY <3>1, <3>2, <3>3 DEF WriteCSR
  <2>2. Shared(a(s)) = Shared(a(r))
    <3>1. CASE "signal" \notin m.bits
      BY <3>1 DEF Shared, Registers
    <3>2. CASE "signal" \in m.bits
      BY <1>0, <3>2 DEF AcknowledgeSignal, Shared, Registers
    <3> QED BY <3>1, <3>2
  <2>3. \E q \in BOOLEAN : b(s) = [b(r) EXCEPT !.pending = q]
    <3>1. a(s) \in Registers /\ a(r) \in Registers
      BY <1>0, <2>1
    <3>2. a(s) = [a(r) EXCEPT !.pending = a(s).pending] /\ a(s).pending \in BOOLEAN
      <4> HIDE DEF a
      <4> QED BY <2>2, <3>1 DEF Shared, Registers
    <3> HIDE DEF a
    <3> QED BY <3>1, <3>2 DEF Registers
  <2>4. PICK q \in BOOLEAN : b(s) = [b(r) EXCEPT !.pending = q]
    BY <2>3
  <2>5. b(r) \in Registers
    BY <2>1
  <2>6. s \in Registers
    BY <1>0
  <2> HIDE DEF a, b, s
  <2>7. CASE "reset" \in m.bits
    <3>1. Apply(s, m) = Apply(r, m)
      BY <2>1, <2>4, <2>5, <2>6, <2>7, ResetShared
    <3> QED BY <3>1 DEF s
  <2>8. CASE "reset" \notin m.bits
    <3>1. Apply(s, m) = b(s) /\ Apply(r, m) = b(r)
      BY <2>1, <2>6, <2>8
    <3>2. Shared(b(s)) = Shared(b(r))
      <4> HIDE DEF b
      <4> QED BY <2>4, <2>5 DEF Shared, Registers
    <3> QED BY <3>1, <3>2 DEF s
  <2> QED BY <2>7, <2>8
<1>6. CASE m.type = "IMR"
  BY <1>6 DEF Apply, Shared, Registers
<1>7. CASE m.type = "SYNCV"
  BY <1>7 DEF Apply, Shared, Registers
<1>8. CASE m.type = "display"
  BY <1>8 DEF Apply, Shared, Registers
<1>9. CASE m.type = "assert_finish"
  <2>1. Apply(s, m) = AssertFinish(s) /\ Apply(r, m) = AssertFinish(r)
    BY <1>9 DEF Apply
  <2> QED BY <1>0, <2>1 DEF AssertFinish, Shared, Registers
<1>10. CASE m.type \in {"assert_vsync", "assert_hblank"}
  <2>1. PICK cause \in {"vblank", "hblank"} :
          Apply(s, m) = Assert(s, cause) /\ Apply(r, m) = Assert(r, cause)
    BY <1>10 DEF Apply
  <2> QED BY <1>0, <2>1 DEF Assert, Shared, Registers
<1>11. CASE m.type = "swap_field"
  BY <1>11 DEF Apply, Shared, Registers
<1> QED BY <1>1, <1>2, <1>3, <1>4, <1>5, <1>6, <1>7, <1>8, <1>9, <1>10, <1>11 DEF Messages

LEMMA SharedApply ==
  ASSUME NEW r \in Registers, NEW s \in Registers, NEW m \in Messages,
         Shared(r) = Shared(s)
  PROVE  Shared(Apply(r, m)) = Shared(Apply(s, m))
<1>1. s = [r EXCEPT !.pending = s.pending] /\ s.pending \in BOOLEAN
  BY DEF Shared, Registers
<1> QED BY <1>1, ApplyShared

(* What the emulation thread does besides, to SIGNAL_irq_pending only.     *)
LEMMA OursShared ==
  ASSUME NEW r \in Registers, Sound(r), NEW m \in Messages
  PROVE  Shared(OursAfter(r, m)) = Shared(Apply(r, m))
<1>1. CASE m.type = "SIGNAL"
  BY <1>1 DEF OursAfter, NoteMasked, Shared
<1>2. CASE m.type # "SIGNAL"
  BY <1>2 DEF OursAfter, Shared
<1> QED BY <1>1, <1>2

(* The inductive invariant: each copy of the history becomes the next by   *)
(* the message that is in the ring for it, and the last becomes ours.      *)
Copies == Append(was, ours)

CopiesInv ==
  /\ was \in Seq(Registers) /\ Len(was) = Len(queueContents)
  /\ Shared(theirs) = Shared(Copies[1])
  /\ \A i \in 1 .. Len(was) :
       Shared(Copies[i + 1]) = Shared(Apply(Copies[i], queueContents[i]))

(* The steps of the ring.                                                  *)
LEMMA RingSteps == [RegistersNext]_allVars => [Next]_vars
BY DEF RegistersNext, Send, SendDone, SendDies, Receive, Popping, Next, Producer, Consumer,
       allVars

LEMMA RingInit == RegistersInit => IInv
BY InitLemma DEF RegistersInit

LEMMA CopiesInit == ASSUME RegistersInit PROVE CopiesInv
<1>1. queueContents = <<>>
  BY DEF RegistersInit, Init, queueContents, Distance
<1>2. was = <<>> /\ Len(was) = 0 /\ Copies[1] = ours
  BY DEF RegistersInit, Copies
<1> QED BY <1>1, <1>2 DEF CopiesInv, RegistersInit

LEMMA ContentsSeq == ASSUME IInv PROVE queueContents \in Seq(Element)
<1>1. Distance(head, tail) \in Nat
  BY DistanceRange DEF IInv, TypeOK
<1> QED BY <1>1, ContentsType, FunctionIsSeq

(* SendDone appends the copy and the message that changes it.              *)
LEMMA CopiesSent ==
  ASSUME IInv, IInv', RegistersInv, CopiesInv, SendDone PROVE CopiesInv'
<1> DEFINE n == Len(was)
<1>1. /\ was \in Seq(Registers) /\ ours \in Registers /\ n \in Nat /\ Sound(ours)
      /\ push.item \in Messages /\ push.item \in Element /\ n = Len(queueContents)
  BY ElementIsMessage DEF RegistersInv, Sound, SendDone, Publish, CopiesInv
<1>2. queueContents \in Seq(Element)
  BY ContentsSeq
<1>3. queueContents' = Append(queueContents, push.item)
  BY PublishAppends DEF SendDone
<1>4. was' = Append(was, ours) /\ was' = Copies /\ theirs' = theirs
        /\ ours' = OursAfter(ours, push.item)
  BY DEF SendDone, Copies
<1>5. ours' \in Registers
  <2>1. Sound(OursAfter(ours, push.item))
    BY <1>1, OursSound DEF RegistersInv
  <2> QED BY <1>4, <2>1 DEF Sound
<1>6. was' \in Seq(Registers) /\ Len(was') = n + 1 /\ Len(queueContents') = n + 1
  <2>1. Append(was, ours) \in Seq(Registers) /\ Len(Append(was, ours)) = n + 1
    BY <1>1, AppendProperties
  <2>2. Len(queueContents') = n + 1
    BY <1>1, <1>2, <1>3, AppendProperties
  <2> QED BY <1>4, <2>1, <2>2
<1>7. \A i \in 1 .. n + 1 : Copies'[i] = Copies[i]
  BY <1>1, <1>4, <1>5, <1>6 DEF Copies
<1>8. Copies'[n + 2] = ours' /\ Copies[n + 1] = ours
  BY <1>1, <1>4, <1>5, <1>6 DEF Copies
<1>9. \A i \in 1 .. n : queueContents'[i] = queueContents[i]
  BY <1>1, <1>2, <1>3
<1>10. queueContents'[n + 1] = push.item
  BY <1>1, <1>2, <1>3
<1>11. Shared(theirs') = Shared(Copies'[1])
  BY <1>1, <1>4, <1>7 DEF CopiesInv
<1>12. ASSUME NEW i \in 1 .. n + 1
       PROVE  Shared(Copies'[i + 1]) = Shared(Apply(Copies'[i], queueContents'[i]))
  <2>1. CASE i \in 1 .. n
    <3>1. i + 1 \in 1 .. n + 1
      BY <1>1, <2>1
    <3> QED BY <2>1, <3>1, <1>7, <1>9 DEF CopiesInv
  <2>2. CASE i = n + 1
    <3>1. Copies'[i + 1] = OursAfter(ours, push.item) /\ Copies'[i] = ours
            /\ queueContents'[i] = push.item
      BY <1>1, <1>4, <1>7, <1>8, <1>10, <2>2
    <3> QED BY <1>1, <3>1, OursShared
  <2> QED BY <1>1, <2>1, <2>2
<1> QED BY <1>6, <1>11, <1>12 DEF CopiesInv

(* Receive takes the oldest of both.                                       *)
LEMMA CopiesReceived ==
  ASSUME IInv, IInv', RegistersInv, CopiesInv, Receive PROVE CopiesInv'
<1> DEFINE n == Len(was)
<1>1. /\ was \in Seq(Registers) /\ ours \in Registers /\ n \in Nat
      /\ theirs \in Registers /\ n = Len(queueContents)
  BY DEF RegistersInv, Sound, CopiesInv
<1>2. queueContents \in Seq(Element)
  BY ContentsSeq
<1>3. /\ queueContents # <<>> /\ pop.item = Head(queueContents)
      /\ queueContents' = Tail(queueContents)
  BY ReleaseRemoves DEF Receive, Release
<1>4. /\ was' = Tail(was) /\ ours' = ours
      /\ theirs' = TheirsAfter(theirs, pop.item)
  BY DEF Receive
<1>5. n >= 1 /\ queueContents[1] = pop.item /\ pop.item \in Element
  BY <1>1, <1>2, <1>3
<1>6. /\ was' \in Seq(Registers) /\ Len(was') = n - 1 /\ Len(queueContents') = n - 1
      /\ \A i \in 1 .. n - 1 : was'[i] = was[i + 1] /\ queueContents'[i] = queueContents[i + 1]
  BY <1>1, <1>2, <1>3, <1>4, <1>5
<1>7. \A i \in 1 .. n : Copies'[i] = Copies[i + 1]
  <2>1. \A i \in 1 .. n - 1 : Copies'[i] = was'[i]
    BY <1>1, <1>4, <1>6 DEF Copies
  <2>2. Copies'[n] = ours
    BY <1>1, <1>4, <1>6 DEF Copies
  <2>3. \A i \in 1 .. n : Copies[i] = was[i]
    BY <1>1 DEF Copies
  <2>4. Copies[n + 1] = ours
    BY <1>1 DEF Copies
  <2>5. ASSUME NEW i \in 1 .. n PROVE Copies'[i] = Copies[i + 1]
    <3>1. CASE i \in 1 .. n - 1
      <4>1. i + 1 \in 1 .. n
        BY <1>1, <3>1
      <4> QED BY <1>6, <2>1, <2>3, <3>1, <4>1
    <3>2. CASE i = n
      BY <2>2, <2>4, <3>2
    <3> QED BY <1>1, <3>1, <3>2
  <2> QED BY <2>5
<1>8. Copies[1] \in Registers
  BY <1>1, <1>5 DEF Copies
<1>9. Shared(theirs') = Shared(Copies'[1])
  <2>1. theirs' = Apply(theirs, pop.item) /\ pop.item \in Messages
    BY <1>4, <1>5, ElementIsMessage DEF TheirsAfter
  <2>2. Shared(theirs) = Shared(Copies[1])
    BY DEF CopiesInv
  <2>3. Shared(theirs') = Shared(Apply(Copies[1], pop.item))
    BY <1>1, <1>8, <2>1, <2>2, SharedApply
  <2>4. Shared(Copies[2]) = Shared(Apply(Copies[1], queueContents[1]))
    BY <1>1, <1>5 DEF CopiesInv
  <2>5. Copies'[1] = Copies[2]
    BY <1>1, <1>5, <1>7
  <2> QED BY <1>5, <2>3, <2>4, <2>5
<1>10. ASSUME NEW i \in 1 .. n - 1
       PROVE  Shared(Copies'[i + 1]) = Shared(Apply(Copies'[i], queueContents'[i]))
  <2>1. i \in 1 .. n /\ i + 1 \in 1 .. n
    BY <1>1
  <2>2. Shared(Copies[(i + 1) + 1]) = Shared(Apply(Copies[i + 1], queueContents[i + 1]))
    BY <2>1 DEF CopiesInv
  <2> QED BY <1>6, <1>7, <2>1, <2>2
<1> QED BY <1>6, <1>9, <1>10 DEF CopiesInv

LEMMA CopiesStep ==
  ASSUME IInv, IInv', RegistersInv, CopiesInv, [RegistersNext]_allVars PROVE CopiesInv'
<1>1. CASE SendDone \/ Receive
  BY <1>1, CopiesSent, CopiesReceived
<1>2. CASE Send \/ SendDies \/ Popping \/ UNCHANGED allVars
  <2>1. UNCHANGED <<ours, theirs, was, head, tail>>
    BY <1>2 DEF Send, SendDies, Popping, PushCall, PushHasRoom, PushFull, WriteSlot, WroteSlot,
       PopEmpty, PopCheck, ReadSlot, allVars, vars, registerVars, consumerVars, producerVars
  <2>2. \A i \in Live : i \in Index /\ i # tail
    BY DistanceRange DEF Live, IInv, TypeOK
  <2>3. UNCHANGED array \/ \E e : array' = [array EXCEPT ![tail] = e]
    BY <1>2 DEF Send, SendDies, Popping, PushCall, PushHasRoom, PushFull, WriteSlot, WroteSlot,
       PopEmpty, PopCheck, ReadSlot, allVars, vars, registerVars, consumerVars, producerVars
  <2>4. \A i \in Live : array'[i] = array[i]
    BY <2>2, <2>3 DEF IInv, TypeOK
  <2>5. queueContents' = queueContents
    BY <2>1, <2>4, ContentsUnchanged
  <2> QED BY <2>1, <2>5 DEF CopiesInv, Copies
<1> QED BY <1>1, <1>2 DEF RegistersNext

THEOREM CopiesInvariance == RegistersSpec => [](IInv /\ RegistersInv /\ CopiesInv)
<1>1. RegistersInit => IInv /\ RegistersInv /\ CopiesInv
  BY RingInit, RegistersInitInv, CopiesInit
<1>2. IInv /\ RegistersInv /\ CopiesInv /\ [RegistersNext]_allVars
        => (IInv /\ RegistersInv /\ CopiesInv)'
  BY RingSteps, StepLemma, RegistersStepInv, CopiesStep
<1> QED BY <1>1, <1>2, PTL DEF RegistersSpec

(* The copies and the interrupt keep their types, whatever the program and *)
(* the ring do (GS_REGISTERS, GraphicsSynthesizer).                        *)
THEOREM RegistersTypes == RegistersSpec => []RegistersTypeOK
<1>1. RegistersInv /\ CopiesInv => RegistersTypeOK
  BY DEF RegistersInv, CopiesInv, RegistersTypeOK, Sound
<1> QED BY CopiesInvariance, <1>1, PTL

(* The GS thread's copy is the one the emulation thread had when it sent   *)
(* the message that is next, whatever is sent, for every size of the ring  *)
(* and however the two threads' loads and stores interleave (send_message, *)
(* event_loop).                                                            *)
THEOREM CopiesStayInStep == RegistersSpec => []CopiesAgree
<1>1. RegistersInv /\ CopiesInv => CopiesAgree
  <2> SUFFICES ASSUME RegistersInv, CopiesInv PROVE Shared(theirs) = Shared(Head(Copies))
    BY DEF CopiesAgree, CopiesInv, Copies
  <2>1. Copies # <<>> /\ Head(Copies) = Copies[1]
    <3>1. was \in Seq(Registers) /\ ours \in Registers
      BY DEF CopiesInv, RegistersInv, Sound
    <3>2. Copies \in Seq(Registers) /\ Copies # <<>>
      BY <3>1, AppendProperties DEF Copies
    <3> HIDE DEF Copies
    <3> QED BY <3>2
  <2> QED BY <2>1 DEF CopiesInv
<1> QED BY <1>1, CopiesInvariance, PTL

(* With the registers at both ends the ring is still the queue.            *)
THEOREM RegistersUseAQueue == RegistersSpec => ImplementsQueue
<1>1. RegistersInit => Init
  BY DEF RegistersInit
<1> QED BY <1>1, RingSteps, Refinement, PTL DEF RegistersSpec, Spec
=============================================================================

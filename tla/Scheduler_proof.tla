-------------------------- MODULE Scheduler_proof --------------------------
(***************************************************************************)
(* Proofs about Scheduler, for any frame layout, any lengths of the runs   *)
(* and any bounds, and about Timers, for any timers, any writes of their   *)
(* registers and any rates.                                                *)
(***************************************************************************)
EXTENDS Timers, SequenceTheorems, FiniteSetTheorems, TLAPS

(* A leaf that names no backend is given a minute of SMT and then one of Zenon. *)
USE SMTT(60), ZenonT(60)

(* Whole cycles and remainder make up a run.                               *)
LEMMA DivMod ==
  ASSUME NEW n \in Nat
  PROVE  /\ n = 2 * (n \div 2) + (n % 2) /\ n \div 2 \in Nat /\ n % 2 \in 0 .. 1
         /\ n = 8 * (n \div 8) + (n % 8) /\ n \div 8 \in Nat /\ n % 8 \in 0 .. 7
PROOF OBVIOUS

(* What an event added or erased does to the list.                         *)
EventType == [func : Funcs, time : Nat, param : Nat]
QueueType == [events : Seq(EventType), closest : Nat]

(* One more event, e, for the cycle t.                                     *)
Longer(q, a, t, e) ==
  /\ a.closest <= q.closest /\ a.closest <= t
  /\ (a.closest = q.closest \/ a.closest = t)
  /\ Len(a.events) = Len(q.events) + 1
  /\ \A i \in 1 .. Len(q.events) : a.events[i] = q.events[i]
  /\ a.events[Len(q.events) + 1] = e

LEMMA AddEventLemma ==
  ASSUME NEW q \in QueueType, ee \in Nat,
         NEW func \in Funcs, NEW delta \in Nat, NEW param \in Nat
  PROVE  /\ AddEvent(q, func, delta, param) \in QueueType
         /\ Longer(q, AddEvent(q, func, delta, param), ee + delta, Event(func, ee + delta, param))
PROOF
<1>1. Event(func, ee + delta, param) \in EventType
  BY DEF Event, EventType
<1>2. q.events \in Seq(EventType) /\ q.closest \in Nat
  BY DEF QueueType
<1>3. /\ Append(q.events, Event(func, ee + delta, param)) \in Seq(EventType)
      /\ Len(Append(q.events, Event(func, ee + delta, param))) = Len(q.events) + 1
      /\ \A i \in 1 .. Len(q.events) :
           Append(q.events, Event(func, ee + delta, param))[i] = q.events[i]
      /\ Append(q.events, Event(func, ee + delta, param))[Len(q.events) + 1]
           = Event(func, ee + delta, param)
  BY <1>1, <1>2, AppendProperties
<1>4. AddEvent(q, func, delta, param).events = Append(q.events, Event(func, ee + delta, param))
  BY DEF AddEvent
<1>5. /\ AddEvent(q, func, delta, param).closest
           = IF ee + delta < q.closest THEN ee + delta ELSE q.closest
      /\ AddEvent(q, func, delta, param).closest \in Nat
  BY <1>2 DEF AddEvent, Lesser
<1>6. AddEvent(q, func, delta, param) \in QueueType
  BY <1>3, <1>5 DEF AddEvent, QueueType, Lesser
<1>. QED BY <1>2, <1>3, <1>4, <1>5, <1>6 DEF Longer

LEMMA EraseLemma ==
  ASSUME NEW q \in QueueType, NEW k \in DOMAIN q.events
  PROVE  LET e == Erase(q, k) IN
         /\ e \in QueueType
         /\ e.closest = q.closest
         /\ Len(e.events) = Len(q.events) - 1
         /\ \A i \in 1 .. Len(q.events) - 1 :
              e.events[i] = IF i < k THEN q.events[i] ELSE q.events[i + 1]
PROOF
<1>1. q.events \in Seq(EventType) /\ k \in 1 .. Len(q.events) /\ Len(q.events) \in Nat
  BY LenProperties DEF QueueType
<1>. DEFINE front == SubSeq(q.events, 1, k - 1)
            back == SubSeq(q.events, k + 1, Len(q.events))
<1>2. /\ front \in Seq(EventType) /\ Len(front) = k - 1
      /\ \A i \in 1 .. k - 1 : front[i] = q.events[i]
  <2>1. \A i \in 1 .. k - 1 : q.events[i] \in EventType
    BY <1>1, ElementOfSeq
  <2>2. 1 \in Int /\ k - 1 \in Int
    BY <1>1
  <2>. QED BY <1>1, <2>1, <2>2, SubSeqProperties
<1>3. /\ back \in Seq(EventType) /\ Len(back) = Len(q.events) - k
      /\ \A i \in 1 .. Len(q.events) - k : back[i] = q.events[k + i]
  <2>1. \A i \in k + 1 .. Len(q.events) : q.events[i] \in EventType
    BY <1>1, ElementOfSeq
  <2>2. k + 1 \in Int /\ Len(q.events) \in Int
    BY <1>1
  <2>3. /\ back \in Seq(EventType)
        /\ Len(back) = IF k + 1 <= Len(q.events) THEN Len(q.events) - (k + 1) + 1 ELSE 0
        /\ \A i \in 1 .. Len(q.events) - (k + 1) + 1 : back[i] = q.events[(k + 1) + i - 1]
    BY <2>1, <2>2, SubSeqProperties, SMTT(60)
  <2>. HIDE DEF back
  <2>4. Len(back) = Len(q.events) - k
    BY <1>1, <2>3
  <2>5. ASSUME NEW i \in 1 .. Len(q.events) - k
        PROVE  back[i] = q.events[k + i]
    <3>1. i \in 1 .. Len(q.events) - (k + 1) + 1 /\ (k + 1) + i - 1 = k + i
      BY <1>1
    <3>. QED BY <2>3, <3>1
  <2>. QED BY <2>3, <2>4, <2>5
<1>4. /\ front \o back \in Seq(EventType)
      /\ Len(front \o back) = Len(q.events) - 1
      /\ \A i \in 1 .. Len(q.events) - 1 :
           (front \o back)[i] = IF i <= k - 1 THEN front[i] ELSE back[i - (k - 1)]
  <2>. HIDE DEF front, back, EventType
  <2>1. /\ front \in Seq(EventType) /\ back \in Seq(EventType)
        /\ Len(front) = k - 1 /\ Len(back) = Len(q.events) - k
    BY <1>2, <1>3
  <2>2. /\ front \o back \in Seq(EventType)
        /\ Len(front \o back) = Len(front) + Len(back)
        /\ \A i \in 1 .. Len(front) + Len(back) :
             (front \o back)[i] = IF i <= Len(front) THEN front[i] ELSE back[i - Len(front)]
    BY <2>1, ConcatProperties
  <2>3. Len(front) + Len(back) = Len(q.events) - 1
    BY <1>1, <2>1
  <2>. QED BY <2>1, <2>2, <2>3
<1>5. ASSUME NEW i \in 1 .. Len(q.events) - 1
      PROVE  (front \o back)[i] = IF i < k THEN q.events[i] ELSE q.events[i + 1]
  <2>. HIDE DEF front, back
  <2>1. CASE i < k
    <3>1. i \in 1 .. k - 1 /\ i <= k - 1
      BY <1>1, <2>1
    <3>. QED BY <1>2, <1>4, <2>1, <3>1
  <2>2. CASE ~(i < k)
    <3>1. /\ ~(i <= k - 1) /\ i - (k - 1) \in 1 .. Len(q.events) - k
          /\ k + (i - (k - 1)) = i + 1
      BY <1>1, <2>2
    <3>. QED BY <1>3, <1>4, <2>2, <3>1
  <2>. QED BY <2>1, <2>2
<1>6. Erase(q, k) = [q EXCEPT !.events = front \o back]
  BY DEF Erase, RemoveAt
<1>. HIDE DEF front, back
<1>7. Erase(q, k).events = front \o back /\ Erase(q, k).closest = q.closest
  BY <1>6
<1>8. Erase(q, k) \in QueueType
  BY <1>4, <1>6 DEF QueueType
<1>. QED BY <1>4, <1>5, <1>7, <1>8

-----------------------------------------------------------------------------
(* Lower bounds of the times in a list, which is all that closest_event_   *)
(* time, new_time and the present are to it.                               *)
LEMMA ListTypes ==
  ASSUME NEW q \in QueueType
  PROVE  /\ Len(q.events) \in Nat /\ DOMAIN q.events = 1 .. Len(q.events)
         /\ \A i \in DOMAIN q.events : q.events[i].time \in Nat /\ q.events[i].func \in Funcs
PROOF
<1>1. q.events \in Seq(EventType)
  BY DEF QueueType
<1>2. Len(q.events) \in Nat /\ DOMAIN q.events = 1 .. Len(q.events)
  BY <1>1, LenProperties
<1>3. ASSUME NEW i \in DOMAIN q.events
      PROVE  q.events[i].time \in Nat /\ q.events[i].func \in Funcs
  <2>1. q.events[i] \in EventType
    BY <1>1, <1>2, ElementOfSeq
  <2>. QED BY <2>1 DEF EventType
<1>. QED BY <1>2, <1>3

(* add_event keeps every bound that is not after the new event, and        *)
(* closest_event_time stays a bound if it was one.                         *)
LEMMA AddEventBounds ==
  ASSUME NEW q \in QueueType, ee \in Nat,
         NEW func \in Funcs, NEW delta \in Nat, NEW param \in Nat
  PROVE  LET a == AddEvent(q, func, delta, param) IN
         /\ a \in QueueType
         /\ Len(q.events) <= Len(a.events)
         /\ a.closest <= q.closest
         /\ q.closest <= ee => a.closest <= ee
         /\ From(q, q.closest) => From(a, a.closest)
         /\ From(q, ee) => From(a, ee)
         /\ \A n \in 1 .. Len(q.events), t \in Nat :
              FromBefore(q, n, t) => FromBefore(a, n, t)
PROOF
<1>. DEFINE a == AddEvent(q, func, delta, param)
<1>. HIDE DEF a
<1>1. /\ a \in QueueType
      /\ a.closest <= q.closest /\ a.closest <= ee + delta
      /\ (a.closest = q.closest \/ a.closest = ee + delta)
      /\ Len(a.events) = Len(q.events) + 1
      /\ \A i \in 1 .. Len(q.events) : a.events[i] = q.events[i]
      /\ a.events[Len(q.events) + 1].time = ee + delta
  <2>1. Event(func, ee + delta, param).time = ee + delta
    BY DEF Event
  <2>2. a \in QueueType /\ Longer(q, a, ee + delta, Event(func, ee + delta, param))
    BY AddEventLemma DEF a
  <2>. QED BY <2>1, <2>2 DEF Longer
<1>2. /\ q.events \in Seq(EventType) /\ q.closest \in Nat
      /\ a.events \in Seq(EventType) /\ a.closest \in Nat
  BY <1>1 DEF QueueType
<1>3. /\ Len(q.events) \in Nat /\ DOMAIN q.events = 1 .. Len(q.events)
      /\ DOMAIN a.events = 1 .. Len(q.events) + 1
      /\ \A i \in DOMAIN q.events : q.events[i].time \in Nat
  <2>1. /\ Len(q.events) \in Nat /\ DOMAIN q.events = 1 .. Len(q.events)
        /\ DOMAIN a.events = 1 .. Len(q.events) + 1
    BY <1>1, <1>2, LenProperties
  <2>2. \A i \in 1 .. Len(q.events) : q.events[i] \in EventType
    BY <1>2, ElementOfSeq
  <2>. QED BY <2>1, <2>2 DEF EventType
<1>4. ASSUME From(q, q.closest) PROVE From(a, a.closest)
  <2>1. SUFFICES ASSUME NEW i \in DOMAIN a.events PROVE a.closest <= a.events[i].time
    BY DEF From
  <2>2. CASE i \in 1 .. Len(q.events)
    <3>1. q.closest <= q.events[i].time /\ q.events[i].time \in Nat
      BY <1>3, <1>4, <2>2 DEF From
    <3>2. a.closest <= q.closest /\ a.events[i] = q.events[i]
      BY <1>1, <2>2
    <3>. QED BY <1>2, <3>1, <3>2
  <2>3. CASE i = Len(q.events) + 1
    BY <1>1, <2>3
  <2>. QED BY <1>3, <2>1, <2>2, <2>3
<1>5. ASSUME From(q, ee) PROVE From(a, ee)
  <2>1. SUFFICES ASSUME NEW i \in DOMAIN a.events PROVE ee <= a.events[i].time
    BY DEF From
  <2>2. CASE i \in 1 .. Len(q.events)
    BY <1>1, <1>3, <1>5, <2>2 DEF From
  <2>3. CASE i = Len(q.events) + 1
    BY <1>1, <2>3
  <2>. QED BY <1>3, <2>1, <2>2, <2>3
<1>6. ASSUME NEW n \in 1 .. Len(q.events), NEW t \in Nat, FromBefore(q, n, t)
      PROVE  FromBefore(a, n, t)
  BY <1>1, <1>3, <1>6 DEF FromBefore
<1>7. ASSUME q.closest <= ee PROVE a.closest <= ee
  BY <1>1, <1>2, <1>7
<1>8. Len(q.events) <= Len(a.events)
  BY <1>1, <1>3
<1>. QED BY <1>1, <1>4, <1>5, <1>6, <1>7, <1>8 DEF a

(* events.erase keeps every bound, also that of the events before it.      *)
LEMMA EraseBounds ==
  ASSUME NEW q \in QueueType, NEW k \in DOMAIN q.events, NEW t \in Nat
  PROVE  LET e == Erase(q, k) IN
         /\ e \in QueueType /\ e.closest = q.closest
         /\ From(q, t) => From(e, t)
         /\ FromBefore(q, k, t) => FromBefore(e, k, t)
PROOF
<1>. DEFINE e == Erase(q, k)
<1>1. /\ e \in QueueType /\ e.closest = q.closest
      /\ Len(e.events) = Len(q.events) - 1
      /\ \A i \in 1 .. Len(q.events) - 1 :
           e.events[i] = IF i < k THEN q.events[i] ELSE q.events[i + 1]
  BY EraseLemma
<1>. HIDE DEF e
<1>2. q.events \in Seq(EventType) /\ e.events \in Seq(EventType)
  BY <1>1 DEF QueueType
<1>3. /\ Len(q.events) \in Nat /\ DOMAIN q.events = 1 .. Len(q.events)
      /\ DOMAIN e.events = 1 .. Len(q.events) - 1
  BY <1>1, <1>2, LenProperties
<1>4. ASSUME From(q, t) PROVE From(e, t)
  <2>1. SUFFICES ASSUME NEW i \in DOMAIN e.events PROVE t <= e.events[i].time
    BY DEF From
  <2>2. i \in DOMAIN q.events /\ i + 1 \in DOMAIN q.events
    BY <1>3, <2>1
  <2>3. t <= q.events[i].time /\ t <= q.events[i + 1].time
    BY <1>4, <2>2 DEF From
  <2>. QED BY <1>1, <1>3, <2>1, <2>3
<1>5. ASSUME FromBefore(q, k, t) PROVE FromBefore(e, k, t)
  <2>1. SUFFICES ASSUME NEW i \in DOMAIN e.events, i < k PROVE t <= e.events[i].time
    BY DEF FromBefore
  <2>2. i \in DOMAIN q.events /\ e.events[i] = q.events[i]
    BY <1>1, <1>3, <2>1
  <2>. QED BY <1>5, <2>1, <2>2 DEF FromBefore
<1>. QED BY <1>1, <1>4, <1>5 DEF e

-----------------------------------------------------------------------------
(* The lengths of the runs.  A run ends at the closest event at the latest *)
(* unless that event is due already, when the run is empty.                *)
LEMMA RunLength ==
  ASSUME CyclesAssumption, ee \in Nat, NEW closest \in Int
  PROVE  LET n == RunCyclesFor(closest) IN
         /\ n \in Nat
         /\ n = 0 \/ ee + n <= closest
PROOF
<1>1. MaxCycles \in Nat
  BY DEF CyclesAssumption
<1>2. CASE ee + MaxCycles <= closest
  BY <1>1, <1>2 DEF RunCyclesFor
<1>3. CASE ee + MaxCycles > closest /\ closest > ee
  BY <1>1, <1>3 DEF RunCyclesFor
<1>4. CASE ee + MaxCycles > closest /\ ~(closest > ee)
  BY <1>1, <1>4 DEF RunCyclesFor
<1>. QED BY <1>1, <1>2, <1>3, <1>4

(* What one run does to the bus's and to the IOP's clock.                  *)
LEMMA BusClock ==
  ASSUME NEW n \in Nat, ee \in Nat, bus \in [count : Nat, remainder : Nat],
         ee = 2 * bus.count + bus.remainder, bus.remainder \in 0 .. 1
  PROVE  /\ UpdateCount(bus, n, 2) \in [count : Nat, remainder : Nat]
         /\ ee + n = 2 * UpdateCount(bus, n, 2).count + UpdateCount(bus, n, 2).remainder
         /\ UpdateCount(bus, n, 2).remainder \in 0 .. 1
         /\ BusRunCycles(n) \in Nat
         /\ UpdateCount(bus, n, 2).count = bus.count + BusRunCycles(n)
PROOF
<1>1. n = 2 * (n \div 2) + (n % 2) /\ n \div 2 \in Nat /\ n % 2 \in 0 .. 1
  BY DivMod
<1>. DEFINE d == n \div 2  m == n % 2
<1>2. UpdateCount(bus, n, 2)
        = IF bus.remainder + m >= 2
          THEN [count |-> bus.count + d + 1, remainder |-> 0]
          ELSE [count |-> bus.count + d, remainder |-> bus.remainder + m]
  BY DEF UpdateCount
<1>3. BusRunCycles(n) = d + IF bus.remainder # 0 /\ m = 1 THEN 1 ELSE 0
  BY DEF BusRunCycles
<1>4. n = 2 * d + m /\ d \in Nat /\ m \in 0 .. 1
  BY <1>1
<1>. HIDE DEF d, m
<1>5. CASE bus.remainder + m >= 2
  BY <1>2, <1>3, <1>4, <1>5
<1>6. CASE ~(bus.remainder + m >= 2)
  BY <1>2, <1>3, <1>4, <1>6
<1>. QED BY <1>5, <1>6

LEMMA IopClock ==
  ASSUME NEW n \in Nat, ee \in Nat, iop \in [count : Nat, remainder : Nat],
         ee = 8 * iop.count + iop.remainder, iop.remainder \in 0 .. 7
  PROVE  /\ UpdateCount(iop, n, 8) \in [count : Nat, remainder : Nat]
         /\ ee + n = 8 * UpdateCount(iop, n, 8).count + UpdateCount(iop, n, 8).remainder
         /\ UpdateCount(iop, n, 8).remainder \in 0 .. 7
         /\ IopRunCycles(n) \in Nat
         /\ UpdateCount(iop, n, 8).count = iop.count + IopRunCycles(n)
PROOF
<1>1. n = 8 * (n \div 8) + (n % 8) /\ n \div 8 \in Nat /\ n % 8 \in 0 .. 7
  BY DivMod
<1>. DEFINE d == n \div 8  m == n % 8
<1>2. UpdateCount(iop, n, 8)
        = IF iop.remainder + m >= 8
          THEN [count |-> iop.count + d + 1, remainder |-> iop.remainder + m - 8]
          ELSE [count |-> iop.count + d, remainder |-> iop.remainder + m]
  BY DEF UpdateCount
<1>3. IopRunCycles(n) = d + IF iop.remainder + m >= 8 THEN 1 ELSE 0
  BY DEF IopRunCycles
<1>4. n = 8 * d + m /\ d \in Nat /\ m \in 0 .. 7
  BY <1>1
<1>. HIDE DEF d, m
<1>5. CASE iop.remainder + m >= 8
  BY <1>2, <1>3, <1>4, <1>5
<1>6. CASE ~(iop.remainder + m >= 8)
  BY <1>2, <1>3, <1>4, <1>6
<1>. QED BY <1>5, <1>6

-----------------------------------------------------------------------------
(* The invariant.                                                          *)

(* Adding an event for the present or later keeps every part that is about *)
(* the list (an interrupt, in the components or in a callback).            *)
LEMMA RaiseKeeps ==
  ASSUME CyclesAssumption, NEW q \in QueueType, ee \in Nat
  PROVE  /\ Raise(q) \in QueueType
         /\ Len(q.events) <= Len(Raise(q).events)
         /\ q.closest <= ee => Raise(q).closest <= ee
         /\ From(q, q.closest) => From(Raise(q), Raise(q).closest)
         /\ From(q, ee) => From(Raise(q), ee)
         /\ \A n \in 1 .. Len(q.events), t \in Nat :
              FromBefore(q, n, t) => FromBefore(Raise(q), n, t)
PROOF
<1>1. "int_check" \in Funcs /\ IntDelay \in Nat /\ 0 \in Nat
  BY DEF Funcs, CyclesAssumption
<1>. QED BY <1>1, AddEventBounds DEF Raise

(* So does any callback of process_events, and the erasing after it.       *)
LEMMA CallbackKeeps ==
  ASSUME CyclesAssumption, queue \in QueueType, ee \in Nat,
         queue.closest <= ee, From(queue, ee),
         NEW k \in DOMAIN queue.events, NEW t \in Nat, FromBefore(queue, k, t),
         NEW func \in Funcs, NEW q \in Callback(func)
  PROVE  /\ Erase(q, k) \in QueueType
         /\ Erase(q, k).closest <= ee
         /\ From(Erase(q, k), ee)
         /\ FromBefore(Erase(q, k), k, t)
PROOF
<1>. DEFINE Kept(p) == /\ p \in QueueType /\ Len(queue.events) <= Len(p.events)
                       /\ p.closest <= ee /\ From(p, ee) /\ FromBefore(p, k, t)
<1>1. /\ Len(queue.events) \in Nat /\ k \in 1 .. Len(queue.events)
  BY LenProperties DEF QueueType
<1>2. ASSUME NEW p, Kept(p) PROVE k \in DOMAIN p.events /\ k \in 1 .. Len(p.events)
  <2>1. Len(p.events) \in Nat /\ DOMAIN p.events = 1 .. Len(p.events)
    BY <1>2, LenProperties DEF QueueType
  <2>. QED BY <1>1, <1>2, <2>1
<1>3. ASSUME NEW p, Kept(p) PROVE Kept(Raise(p))
  <2>1. k \in 1 .. Len(p.events) /\ Len(p.events) \in Nat /\ Len(Raise(p).events) \in Nat
    BY <1>2, <1>3, RaiseKeeps, LenProperties DEF QueueType
  <2>. QED BY <1>1, <1>3, <2>1, RaiseKeeps
<1>4. ASSUME NEW p, Kept(p), NEW f \in Funcs, NEW d \in Nat
      PROVE  Kept(AddEvent(p, f, d, 0))
  <2>1. AddEvent(p, f, d, 0) \in QueueType
    BY <1>4, AddEventBounds
  <2>2. k \in 1 .. Len(p.events) /\ Len(p.events) \in Nat
        /\ Len(AddEvent(p, f, d, 0).events) \in Nat
    BY <1>2, <1>4, <2>1, LenProperties DEF QueueType
  <2>. QED BY <1>1, <1>4, <2>1, <2>2, AddEventBounds
<1>5. Kept(queue)
  BY <1>1
<1>6. /\ {"hblank", "gs_vblank", "sound", "n_command"} \subseteq Funcs
      /\ HblankCycles \in Nat /\ VblankDelay \in Nat /\ SoundCycles \in Nat
      /\ DriveDelays \subseteq Nat
  BY DEF Funcs, CyclesAssumption
<1>7. Kept(q)
  <2>1. Kept(Raise(queue))
    BY <1>3, <1>5
  <2>2. CASE func = "hblank"
    <3>1. \E p \in {queue, Raise(queue)} : q = AddEvent(p, "hblank", HblankCycles, 0)
      BY <2>2 DEF Callback
    <3>. QED BY <1>4, <1>5, <1>6, <2>1, <3>1
  <2>3. CASE func = "vblank_start"
    <3>1. q = AddEvent(Raise(queue), "gs_vblank", VblankDelay, 0)
      BY <2>3 DEF Callback
    <3>. QED BY <1>4, <1>6, <2>1, <3>1
  <2>4. CASE func \in {"gs_vblank", "vblank_end", "int_check"}
    <3>1. q \in {queue, Raise(queue)}
      BY <2>4 DEF Callback
    <3>. QED BY <1>5, <2>1, <3>1
  <2>5. CASE func = "sound"
    <3>1. q = AddEvent(queue, "sound", SoundCycles, 0)
      BY <2>5 DEF Callback
    <3>. QED BY <1>4, <1>5, <1>6, <3>1
  <2>6. CASE func = "n_command"
    <3>1. q = queue \/ \E d \in DriveDelays : q = AddEvent(queue, "n_command", d, 0)
      BY <2>6 DEF Callback
    <3>. QED BY <1>4, <1>5, <1>6, <3>1
  <2>. QED BY <2>2, <2>3, <2>4, <2>5, <2>6 DEF Funcs
<1>8. k \in DOMAIN q.events
  BY <1>2, <1>7
<1>. QED BY <1>7, <1>8, EraseBounds

LEMMA InitInv == ASSUME CyclesAssumption, Init PROVE IInv
PROOF
<1>1. NoEvents \in QueueType /\ NoEvents.events = << >> /\ NoEvents.closest = Never
  BY DEF NoEvents, QueueType, CyclesAssumption
<1>2. From(NoEvents, NoEvents.closest) /\ From(NoEvents, ee)
  BY <1>1 DEF From
<1>3. /\ ee = 0 /\ ee \in Nat /\ "hblank" \in Funcs /\ "sound" \in Funcs
      /\ HblankCycles \in Nat /\ SoundCycles \in Nat /\ 0 \in Nat
  BY DEF Init, Funcs, CyclesAssumption
<1>. DEFINE q == AddEvent(NoEvents, "hblank", HblankCycles, 0)
<1>4. queue \in QueueType /\ From(queue, queue.closest) /\ From(queue, ee)
  <2>1. q \in QueueType /\ From(q, q.closest) /\ From(q, ee)
    BY <1>1, <1>2, <1>3, AddEventBounds
  <2>2. queue = AddEvent(q, "sound", SoundCycles, 0)
    BY DEF Init
  <2>. HIDE DEF q
  <2>. QED BY <1>3, <2>1, <2>2, AddEventBounds
<1>5. TypeOK
  BY <1>4 DEF Init, TypeOK, QueueType, EventType, CyclesAssumption
<1>6. ClocksAgree
  BY DEF Init, ClocksAgree
<1>. QED BY <1>4, <1>5, <1>6 DEF Init, IInv, OnTime, ClosestBounds

LEMMA NextInv == ASSUME CyclesAssumption, IInv, [Next]_schedulerVars PROVE IInv'
PROOF
<1>. USE DEF IInv
<1>1. queue \in QueueType /\ ee \in Nat /\ From(queue, ee)
  BY DEF TypeOK, QueueType, EventType, OnTime
<1>2. CASE StartFrame
  <2>. DEFINE q == AddEvent(queue, "vblank_start", VblankStart, 0)
  <2>1. /\ "vblank_start" \in Funcs /\ "vblank_end" \in Funcs
        /\ VblankStart \in Nat /\ FrameCycles \in Nat
    BY DEF Funcs, CyclesAssumption
  <2>2. From(queue, queue.closest)
    BY <1>2 DEF StartFrame, ClosestBounds
  <2>3. q \in QueueType /\ From(q, q.closest) /\ From(q, ee)
    BY <1>1, <2>1, <2>2, AddEventBounds
  <2>. HIDE DEF q
  <2>4. /\ AddEvent(q, "vblank_end", FrameCycles, 0) \in QueueType
        /\ From(AddEvent(q, "vblank_end", FrameCycles, 0),
                AddEvent(q, "vblank_end", FrameCycles, 0).closest)
        /\ From(AddEvent(q, "vblank_end", FrameCycles, 0), ee)
    BY <1>1, <2>1, <2>3, AddEventBounds
  <2>5. queue' = AddEvent(q, "vblank_end", FrameCycles, 0)
    BY <1>2 DEF StartFrame, q
  <2>6. UNCHANGED clocks /\ UNCHANGED <<it, newTime>> /\ at' = "loop"
        /\ frameEnded' = FALSE /\ frameStart' = ee
    BY <1>2 DEF StartFrame
  <2>7. TypeOK'
    BY <2>4, <2>5, <2>6 DEF TypeOK, clocks, QueueType, EventType
  <2>8. ClocksAgree'
    BY <2>6 DEF ClocksAgree, clocks
  <2>9. OnTime' /\ ClosestBounds'
    BY <2>4, <2>5, <2>6 DEF OnTime, ClosestBounds, clocks, From
  <2>. QED BY <2>7, <2>8, <2>9
<1>3. CASE RunCycles
  <2>. DEFINE n == RunCyclesFor(queue.closest)
  <2>1. n \in Nat /\ (n = 0 \/ ee + n <= queue.closest)
    <3>1. queue.closest \in Int
      BY <1>1 DEF QueueType
    <3>. QED BY <1>1, <3>1, RunLength
  <2>2. /\ run' = n /\ ee' = ee + n /\ at' = "components"
        /\ bus' = UpdateCount(bus, n, 2) /\ iop' = UpdateCount(iop, n, 8)
        /\ given' = [bus |-> given.bus + BusRunCycles(n),
                     iop |-> given.iop + IopRunCycles(n)]
        /\ UNCHANGED <<queue, it, newTime, frameEnded, frameStart>>
    BY <1>3 DEF RunCycles
  <2>. HIDE DEF n
  <2>3. /\ bus \in [count : Nat, remainder : Nat] /\ iop \in [count : Nat, remainder : Nat]
        /\ ee = 2 * bus.count + bus.remainder /\ bus.remainder \in 0 .. 1
        /\ ee = 8 * iop.count + iop.remainder /\ iop.remainder \in 0 .. 7
        /\ given \in [bus : Nat, iop : Nat]
        /\ given.bus = bus.count /\ given.iop = iop.count
    BY DEF TypeOK, ClocksAgree
  <2>4. /\ bus' \in [count : Nat, remainder : Nat]
        /\ ee' = 2 * bus'.count + bus'.remainder /\ bus'.remainder \in 0 .. 1
        /\ BusRunCycles(n) \in Nat /\ bus'.count = bus.count + BusRunCycles(n)
    BY <1>1, <2>1, <2>2, <2>3, BusClock
  <2>5. /\ iop' \in [count : Nat, remainder : Nat]
        /\ ee' = 8 * iop'.count + iop'.remainder /\ iop'.remainder \in 0 .. 7
        /\ IopRunCycles(n) \in Nat /\ iop'.count = iop.count + IopRunCycles(n)
    BY <1>1, <2>1, <2>2, <2>3, IopClock
  <2>6. ClocksAgree'
    BY <2>2, <2>3, <2>4, <2>5 DEF ClocksAgree
  <2>7. TypeOK'
    <3>1. given' \in [bus : Nat, iop : Nat] /\ ee' \in Nat /\ run' \in Nat
      BY <1>1, <2>1, <2>2, <2>3, <2>4, <2>5
    <3>. QED BY <2>2, <2>4, <2>5, <3>1 DEF TypeOK
  <2>8. OnTime'
    <3>1. From(queue, queue.closest)
      BY <1>3 DEF RunCycles, ClosestBounds
    <3>2. \A i \in DOMAIN queue.events : queue.events[i].time \in Nat
      BY <1>1, ListTypes
    <3>3. ee' \in Nat /\ queue.closest \in Nat
      BY <1>1, <2>7 DEF TypeOK, QueueType
    <3>4. ASSUME NEW i \in DOMAIN queue.events PROVE ee' <= queue.events[i].time
      <4>1. ee <= queue.events[i].time /\ queue.closest <= queue.events[i].time
        BY <1>1, <3>1 DEF From
      <4>. QED BY <1>1, <2>1, <2>2, <3>2, <3>3, <4>1
    <3>. QED BY <2>2, <3>4 DEF OnTime, From
  <2>9. ClosestBounds'
    BY <1>3, <2>2 DEF RunCycles, ClosestBounds, From
  <2>. QED BY <2>6, <2>7, <2>8, <2>9
<1>4. CASE ComponentEvent
  <2>1. From(queue, queue.closest)
    BY <1>4 DEF ComponentEvent, ClosestBounds
  <2>2. PICK func \in Funcs, delta \in Nat : queue' = AddEvent(queue, func, delta, 0)
    <3>1. PICK r \in Requests : queue' = AddEvent(queue, r[1], r[2], 0)
      BY <1>4 DEF ComponentEvent
    <3>2. r[1] \in Funcs /\ r[2] \in Nat
      <4>1. CASE r = <<"int_check", IntDelay>>
        BY <4>1 DEF Funcs, CyclesAssumption
      <4>2. CASE r \in {"n_command"} \X DriveDelays
        BY <4>2 DEF Funcs, CyclesAssumption
      <4>. QED BY <3>1, <4>1, <4>2 DEF Requests
    <3>. QED BY <3>1, <3>2
  <2>3. /\ queue' \in QueueType /\ From(queue', queue'.closest) /\ From(queue', ee)
        /\ at = "components" /\ UNCHANGED <<clocks, pass, frameEnded, frameStart>>
    BY <1>1, <1>4, <2>1, <2>2, AddEventBounds DEF ComponentEvent
  <2>4. TypeOK'
    BY <2>2, <2>3 DEF TypeOK, clocks, pass, QueueType, EventType
  <2>5. ClocksAgree'
    BY <2>3 DEF ClocksAgree, clocks
  <2>6. OnTime' /\ ClosestBounds'
    BY <2>2, <2>3 DEF OnTime, ClosestBounds, clocks, pass, From
  <2>. QED BY <2>4, <2>5, <2>6
<1>5. CASE BeginPass
  <2>1. UNCHANGED <<clocks, queue, frameEnded, frameStart>> /\ at = "components"
    BY <1>5 DEF BeginPass
  <2>2. ClocksAgree' /\ OnTime'
    BY <2>1 DEF ClocksAgree, OnTime, clocks, From
  <2>3. TypeOK'
    BY <1>5, <2>1 DEF BeginPass, TypeOK, clocks, CyclesAssumption
  <2>4. ClosestBounds'
    <3>1. CASE ee >= queue.closest
      <4>1. at' = "events" /\ it' = 1 /\ queue' = queue /\ ee' = ee
        BY <1>5, <2>1, <3>1 DEF BeginPass, clocks
      <4>2. DOMAIN queue.events \subseteq Nat \ {0} /\ queue.closest \in Nat
        BY <1>1, LenProperties DEF QueueType
      <4>. QED BY <1>1, <3>1, <4>1, <4>2 DEF ClosestBounds, FromBefore
    <3>2. CASE ~(ee >= queue.closest)
      <4>1. at' = "loop" /\ queue' = queue
        BY <1>5, <2>1, <3>2 DEF BeginPass
      <4>. QED BY <2>1, <4>1 DEF ClosestBounds, From
    <3>. QED BY <3>1, <3>2
  <2>. QED BY <2>2, <2>3, <2>4
<1>6. CASE RunEvent
  <2>1. /\ at = "events" /\ it \in DOMAIN queue.events
        /\ UNCHANGED <<clocks, pass, frameStart>> /\ frameEnded' \in BOOLEAN
    BY <1>6 DEF RunEvent, Due, TypeOK
  <2>2. PICK q \in Callback(queue.events[it].func) : queue' = Erase(q, it)
    BY <1>6 DEF RunEvent
  <2>3. queue.events[it].func \in Funcs
    BY <1>1, <2>1, ListTypes
  <2>4. queue.closest <= ee /\ FromBefore(queue, it, newTime) /\ newTime \in Nat
    BY <2>1 DEF ClosestBounds, TypeOK
  <2>5. /\ queue' \in QueueType /\ queue'.closest <= ee
        /\ From(queue', ee) /\ FromBefore(queue', it, newTime)
    BY <1>1, <2>1, <2>2, <2>3, <2>4, CallbackKeeps
  <2>6. TypeOK'
    BY <2>1, <2>5 DEF TypeOK, clocks, pass, QueueType, EventType
  <2>7. ClocksAgree'
    BY <2>1 DEF ClocksAgree, clocks
  <2>8. OnTime' /\ ClosestBounds'
    BY <2>1, <2>5 DEF OnTime, ClosestBounds, clocks, pass, From, FromBefore
  <2>. QED BY <2>6, <2>7, <2>8
<1>7. CASE SkipEvent
  <2>1. /\ at = "events" /\ it \in DOMAIN queue.events
        /\ newTime' = Lesser(queue.events[it].time, newTime) /\ it' = it + 1
        /\ UNCHANGED <<clocks, queue, at, frameEnded, frameStart>>
    BY <1>7 DEF SkipEvent
  <2>2. DOMAIN queue.events \subseteq Nat
        /\ \A i \in DOMAIN queue.events : queue.events[i].time \in Nat
    BY <1>1, ListTypes
  <2>3. /\ newTime \in Nat /\ it \in Nat \ {0} /\ newTime' \in Nat
        /\ newTime' <= newTime /\ newTime' <= queue.events[it].time
    <3>1. newTime \in Nat /\ it \in Nat \ {0}
      BY DEF TypeOK
    <3>2. queue.events[it].time \in Nat
      BY <2>1, <2>2
    <3>3. newTime' = Lesser(queue.events[it].time, newTime)
      BY <2>1
    <3>. QED BY <3>1, <3>2, <3>3 DEF Lesser
  <2>4. TypeOK'
    BY <2>1, <2>3 DEF TypeOK, clocks
  <2>5. ClocksAgree' /\ OnTime'
    BY <2>1 DEF ClocksAgree, OnTime, clocks, From
  <2>6. queue.closest <= ee /\ FromBefore(queue, it, newTime)
    BY <2>1 DEF ClosestBounds
  <2>7. FromBefore(queue, it + 1, newTime')
    <3>1. SUFFICES ASSUME NEW i \in DOMAIN queue.events, i < it + 1
                   PROVE  newTime' <= queue.events[i].time
      BY DEF FromBefore
    <3>2. CASE i < it
      BY <2>2, <2>3, <2>6, <3>1, <3>2 DEF FromBefore
    <3>3. CASE ~(i < it)
      <4>1. i = it
        BY <2>2, <2>3, <3>1, <3>3
      <4>. QED BY <2>3, <4>1
    <3>. QED BY <3>2, <3>3
  <2>8. ClosestBounds'
    BY <2>1, <2>6, <2>7 DEF ClosestBounds, clocks, FromBefore
  <2>. QED BY <2>4, <2>5, <2>8
<1>8. CASE EndPass
  <2>1. /\ at = "events" /\ it \notin DOMAIN queue.events
        /\ queue' = [queue EXCEPT !.closest = newTime]
        /\ at' \in {"frame", "loop"}
        /\ UNCHANGED <<clocks, it, newTime, frameEnded, frameStart>>
    BY <1>8 DEF EndPass
  <2>2. newTime \in Nat /\ it \in Nat \ {0}
    BY DEF TypeOK
  <2>3. queue'.events = queue.events /\ queue'.closest = newTime /\ queue' \in QueueType
    BY <1>1, <2>1, <2>2 DEF QueueType
  <2>4. TypeOK'
    BY <2>1, <2>3 DEF TypeOK, clocks, QueueType, EventType
  <2>5. ClocksAgree'
    BY <2>1 DEF ClocksAgree, clocks
  <2>6. OnTime'
    BY <2>1, <2>3 DEF OnTime, clocks, From
  <2>7. From(queue', newTime)
    <3>1. DOMAIN queue.events = 1 .. Len(queue.events) /\ Len(queue.events) \in Nat
      BY <1>1, LenProperties DEF QueueType
    <3>2. \A i \in DOMAIN queue.events : i < it
      BY <2>1, <2>2, <3>1
    <3>3. FromBefore(queue, it, newTime)
      BY <2>1 DEF ClosestBounds
    <3>. QED BY <2>3, <3>2, <3>3 DEF From, FromBefore
  <2>8. ClosestBounds'
    BY <2>1, <2>3, <2>7 DEF ClosestBounds, From
  <2>. QED BY <2>4, <2>5, <2>6, <2>8
<1>9. CASE UNCHANGED schedulerVars
  <2>1. TypeOK'
    BY <1>9 DEF TypeOK, schedulerVars, clocks, pass
  <2>2. ClocksAgree' /\ OnTime' /\ ClosestBounds'
    BY <1>9 DEF ClocksAgree, OnTime, ClosestBounds, schedulerVars, clocks, pass,
                From, FromBefore
  <2>. QED BY <2>1, <2>2
<1>. QED BY <1>2, <1>3, <1>4, <1>5, <1>6, <1>7, <1>8, <1>9 DEF Next

-----------------------------------------------------------------------------
(* Theorems *)

(* What TypeOK, ClocksAgree, OnTime and ClosestBounds say is kept by every *)
(* step of Emulator::run's loop and of process_events.                     *)
THEOREM SchedulerInvariance == Spec => []IInv
PROOF
<1>. USE CyclesAssumption
<1>. QED BY InitInv, NextInv, PTL DEF Spec

(* The types of the scheduler's state (calculate_run_cycles never returns  *)
(* a negative number of cycles, times are never negative).                 *)
THEOREM SchedulerTypes == Spec => []TypeOK
PROOF
<1>1. IInv => TypeOK
  BY DEF IInv
<1>. QED BY <1>1, SchedulerInvariance, PTL

(* For all lengths of the runs, the bus's and the IOP's clocks stay at     *)
(* exactly a half and an eighth of the EE's (get_bus_run_cycles,           *)
(* get_iop_run_cycles and update_cycle_counts).                            *)
THEOREM ClocksStayTogether == Spec => []ClocksAgree
PROOF
<1>1. IInv => ClocksAgree
  BY DEF IInv
<1>. QED BY <1>1, SchedulerInvariance, PTL

(* No event waits past its time, whatever add_event is called with from    *)
(* the components and from the callbacks of process_events.                *)
THEOREM NoEventIsLate == Spec => []OnTime
PROOF
<1>1. IInv => OnTime
  BY DEF IInv
<1>. QED BY <1>1, SchedulerInvariance, PTL

-----------------------------------------------------------------------------
(* Frames.  While a frame runs its vblank_end is in the list, at the cycle *)
(* at which the frame has to end, and no other is: by OnTime and Due it is *)
(* called at exactly that cycle, when vblank_start is past.                *)
NoStart(q) == \A i \in DOMAIN q.events : q.events[i].func # "vblank_start"
NoEnd(q) == \A i \in DOMAIN q.events : q.events[i].func # "vblank_end"

Blanks(q, start) ==
  /\ \A i \in DOMAIN q.events :
       /\ q.events[i].func = "vblank_start" => q.events[i].time = start + VblankStart
       /\ q.events[i].func = "vblank_end" => q.events[i].time = start + FrameCycles
  /\ \A i, j \in DOMAIN q.events :
       q.events[i].func = "vblank_end" /\ q.events[j].func = "vblank_end" => i = j

FrameInv ==
  /\ Blanks(queue, frameStart)
  /\ frameEnded => NoStart(queue) /\ NoEnd(queue)
  /\ frameEnded => ee = 0 \/ ee = frameStart + FrameCycles
  /\ at \in {"loop", "components"} => ~frameEnded
  /\ at = "frame" => frameEnded

LEMMA AddedBlanks ==
  ASSUME NEW q \in QueueType, ee \in Nat,
         NEW func \in Funcs, NEW delta \in Nat, NEW param \in Nat,
         NEW start \in Nat, Blanks(q, start),
         func = "vblank_start" => ee + delta = start + VblankStart,
         func = "vblank_end" => ee + delta = start + FrameCycles /\ NoEnd(q)
  PROVE  LET a == AddEvent(q, func, delta, param) IN
         /\ a \in QueueType
         /\ Blanks(a, start)
         /\ func # "vblank_start" /\ NoStart(q) => NoStart(a)
         /\ func # "vblank_end" /\ NoEnd(q) => NoEnd(a)
         /\ DOMAIN q.events \subseteq DOMAIN a.events
         /\ \A i \in DOMAIN q.events : a.events[i] = q.events[i]
PROOF
<1>. DEFINE a == AddEvent(q, func, delta, param)
<1>. HIDE DEF a
<1>a. a \in QueueType /\ Longer(q, a, ee + delta, Event(func, ee + delta, param))
  BY AddEventLemma DEF a
<1>. DEFINE n == Len(q.events)
<1>1. /\ a \in QueueType /\ Len(a.events) = n + 1
      /\ \A i \in 1 .. n : a.events[i] = q.events[i]
      /\ a.events[n + 1] = Event(func, ee + delta, param)
  BY <1>a DEF Longer
<1>2. a.events[n + 1].func = func /\ a.events[n + 1].time = ee + delta
  BY <1>1 DEF Event
<1>3. /\ n \in Nat /\ DOMAIN q.events = 1 .. n
      /\ Len(a.events) \in Nat /\ DOMAIN a.events = 1 .. Len(a.events)
  BY <1>1, ListTypes
<1>. HIDE DEF n
<1>4. DOMAIN a.events = 1 .. n + 1
  BY <1>1, <1>3
<1>5. ASSUME NEW i \in DOMAIN a.events
      PROVE  (i \in DOMAIN q.events /\ a.events[i] = q.events[i]) \/ i = n + 1
  BY <1>1, <1>3, <1>4
<1>6. Blanks(a, start)
  <2>1. ASSUME NEW i \in DOMAIN a.events
        PROVE  /\ a.events[i].func = "vblank_start" => a.events[i].time = start + VblankStart
               /\ a.events[i].func = "vblank_end" => a.events[i].time = start + FrameCycles
    BY <1>2, <1>5 DEF Blanks
  <2>2. ASSUME NEW i \in DOMAIN a.events, NEW j \in DOMAIN a.events,
               a.events[i].func = "vblank_end", a.events[j].func = "vblank_end"
        PROVE  i = j
    BY <1>2, <1>5, <2>2 DEF Blanks, NoEnd
  <2>. QED BY <2>1, <2>2 DEF Blanks
<1>7. /\ func # "vblank_start" /\ NoStart(q) => NoStart(a)
      /\ func # "vblank_end" /\ NoEnd(q) => NoEnd(a)
  BY <1>2, <1>5 DEF NoStart, NoEnd
<1>. QED BY <1>1, <1>3, <1>4, <1>6, <1>7 DEF a

LEMMA ErasedBlanks ==
  ASSUME NEW q \in QueueType, NEW k \in DOMAIN q.events, NEW start, Blanks(q, start)
  PROVE  LET e == Erase(q, k) IN
         /\ Blanks(e, start)
         /\ NoStart(q) => NoStart(e)
         /\ NoEnd(q) \/ q.events[k].func = "vblank_end" => NoEnd(e)
PROOF
<1>. DEFINE e == Erase(q, k)
            n == Len(q.events)
            Old(i) == IF i < k THEN i ELSE i + 1
<1>1. /\ e \in QueueType /\ Len(e.events) = n - 1
      /\ \A i \in 1 .. n - 1 : e.events[i] = IF i < k THEN q.events[i] ELSE q.events[i + 1]
  BY EraseLemma
<1>. HIDE DEF e
<1>2. n \in Nat /\ DOMAIN q.events = 1 .. n /\ DOMAIN e.events = 1 .. Len(e.events)
  BY <1>1, ListTypes
<1>. HIDE DEF n
<1>3. k \in 1 .. n /\ DOMAIN e.events = 1 .. n - 1
  BY <1>1, <1>2
<1>4. ASSUME NEW i \in DOMAIN e.events
      PROVE  Old(i) \in DOMAIN q.events /\ Old(i) # k /\ e.events[i] = q.events[Old(i)]
  BY <1>1, <1>2, <1>3
<1>5. \A i, j \in DOMAIN e.events : Old(i) = Old(j) => i = j
  BY <1>2, <1>3
<1>. HIDE DEF Old
<1>6. Blanks(e, start)
  BY <1>4, <1>5 DEF Blanks
<1>7. NoStart(q) => NoStart(e)
  BY <1>4 DEF NoStart
<1>8. ASSUME NoEnd(q) \/ q.events[k].func = "vblank_end" PROVE NoEnd(e)
  BY <1>4, <1>8 DEF Blanks, NoEnd
<1>. QED BY <1>6, <1>7, <1>8 DEF e

(* A callback adds no vblank event, and leaves the one it is called for    *)
(* where it is.                                                            *)
LEMMA CallbackBlanks ==
  ASSUME CyclesAssumption, queue \in QueueType, ee \in Nat,
         NEW k \in DOMAIN queue.events, NEW start \in Nat, Blanks(queue, start),
         NEW func \in Funcs, NEW q \in Callback(func)
  PROVE  /\ q \in QueueType /\ Blanks(q, start)
         /\ NoStart(queue) => NoStart(q)
         /\ NoEnd(queue) => NoEnd(q)
         /\ k \in DOMAIN q.events /\ q.events[k] = queue.events[k]
PROOF
<1>. DEFINE Kept(p) == /\ p \in QueueType /\ Blanks(p, start)
                       /\ NoStart(queue) => NoStart(p)
                       /\ NoEnd(queue) => NoEnd(p)
                       /\ k \in DOMAIN p.events /\ p.events[k] = queue.events[k]
<1>1. ASSUME NEW p, Kept(p), NEW f \in Funcs \ {"vblank_start", "vblank_end"}, NEW d \in Nat
      PROVE  Kept(AddEvent(p, f, d, 0))
  <2>. DEFINE a == AddEvent(p, f, d, 0)
  <2>1. /\ a \in QueueType /\ Blanks(a, start)
        /\ NoStart(p) => NoStart(a)
        /\ NoEnd(p) => NoEnd(a)
        /\ DOMAIN p.events \subseteq DOMAIN a.events
        /\ \A i \in DOMAIN p.events : a.events[i] = p.events[i]
    BY <1>1, AddedBlanks
  <2>. HIDE DEF a
  <2>. QED BY <1>1, <2>1 DEF a
<1>2. Kept(queue)
  OBVIOUS
<1>3. /\ {"hblank", "gs_vblank", "sound", "n_command", "int_check"}
           \subseteq Funcs \ {"vblank_start", "vblank_end"}
      /\ HblankCycles \in Nat /\ VblankDelay \in Nat /\ SoundCycles \in Nat
      /\ IntDelay \in Nat /\ DriveDelays \subseteq Nat
  BY DEF Funcs, CyclesAssumption
<1>. HIDE DEF Kept
<1>4. Kept(Raise(queue))
  BY <1>1, <1>2, <1>3 DEF Raise
<1>5. Kept(q)
  <2>2. CASE func = "hblank"
    <3>1. \E p \in {queue, Raise(queue)} : q = AddEvent(p, "hblank", HblankCycles, 0)
      BY <2>2 DEF Callback
    <3>. QED BY <1>1, <1>2, <1>3, <1>4, <3>1
  <2>3. CASE func = "vblank_start"
    <3>1. q = AddEvent(Raise(queue), "gs_vblank", VblankDelay, 0)
      BY <2>3 DEF Callback
    <3>. QED BY <1>1, <1>3, <1>4, <3>1
  <2>4. CASE func \in {"gs_vblank", "vblank_end", "int_check"}
    <3>1. q \in {queue, Raise(queue)}
      BY <2>4 DEF Callback
    <3>. QED BY <1>2, <1>4, <3>1
  <2>5. CASE func = "sound"
    <3>1. q = AddEvent(queue, "sound", SoundCycles, 0)
      BY <2>5 DEF Callback
    <3>. QED BY <1>1, <1>2, <1>3, <3>1
  <2>6. CASE func = "n_command"
    <3>1. q = queue \/ \E d \in DriveDelays : q = AddEvent(queue, "n_command", d, 0)
      BY <2>6 DEF Callback
    <3>. QED BY <1>1, <1>2, <1>3, <3>1
  <2>. QED BY <2>2, <2>3, <2>4, <2>5, <2>6 DEF Funcs
<1>. QED BY <1>5 DEF Kept

LEMMA InitFrames == ASSUME CyclesAssumption, Init PROVE FrameInv
PROOF
<1>1. NoEvents \in QueueType /\ DOMAIN NoEvents.events = {}
  BY DEF NoEvents, QueueType, CyclesAssumption
<1>2. Blanks(NoEvents, 0) /\ NoStart(NoEvents) /\ NoEnd(NoEvents)
  BY <1>1 DEF Blanks, NoStart, NoEnd
<1>3. /\ "hblank" \in Funcs \ {"vblank_start", "vblank_end"}
      /\ "sound" \in Funcs \ {"vblank_start", "vblank_end"}
      /\ ee = 0 /\ ee \in Nat /\ HblankCycles \in Nat /\ SoundCycles \in Nat /\ 0 \in Nat
  BY DEF Init, Funcs, CyclesAssumption
<1>. DEFINE q == AddEvent(NoEvents, "hblank", HblankCycles, 0)
<1>4. q \in QueueType /\ Blanks(q, 0) /\ NoStart(q) /\ NoEnd(q)
  BY <1>1, <1>2, <1>3, AddedBlanks
<1>5. queue = AddEvent(q, "sound", SoundCycles, 0)
  BY DEF Init
<1>. HIDE DEF q
<1>6. Blanks(queue, 0) /\ NoStart(queue) /\ NoEnd(queue)
  BY <1>3, <1>4, <1>5, AddedBlanks
<1>. QED BY <1>3, <1>6 DEF Init, FrameInv

LEMMA NextFrames ==
  ASSUME CyclesAssumption, IInv, IInv', FrameInv, [Next]_schedulerVars
  PROVE  FrameInv'
PROOF
<1>1. /\ queue \in QueueType /\ ee \in Nat /\ frameStart \in Nat /\ frameEnded \in BOOLEAN
      /\ at \in {"frame", "loop", "components", "events"}
  BY DEF IInv, TypeOK, QueueType, EventType
<1>2. Blanks(queue, frameStart) /\ (frameEnded => NoStart(queue) /\ NoEnd(queue))
  BY DEF FrameInv
<1>3. CASE StartFrame
  <2>. DEFINE q == AddEvent(queue, "vblank_start", VblankStart, 0)
  <2>1. NoStart(queue) /\ NoEnd(queue)
    BY <1>3 DEF StartFrame, FrameInv
  <2>2. Blanks(queue, ee)
    BY <2>1 DEF Blanks, NoStart, NoEnd
  <2>3. /\ "vblank_start" \in Funcs /\ "vblank_end" \in Funcs
        /\ VblankStart \in Nat /\ FrameCycles \in Nat /\ 0 \in Nat
    BY DEF Funcs, CyclesAssumption
  <2>4. q \in QueueType /\ Blanks(q, ee) /\ NoEnd(q)
    BY <1>1, <2>1, <2>2, <2>3, AddedBlanks
  <2>5. /\ queue' = AddEvent(q, "vblank_end", FrameCycles, 0)
        /\ frameEnded' = FALSE /\ frameStart' = ee /\ at' = "loop"
    BY <1>3 DEF StartFrame
  <2>. HIDE DEF q
  <2>6. Blanks(AddEvent(q, "vblank_end", FrameCycles, 0), ee)
    BY <1>1, <2>3, <2>4, AddedBlanks
  <2>7. Blanks(queue', frameStart')
    BY <2>5, <2>6
  <2>8. Blanks(queue, frameStart)'
    BY <2>7 DEF Blanks
  <2>. QED BY <2>5, <2>8 DEF FrameInv
<1>4. CASE RunCycles
  <2>1. /\ UNCHANGED <<queue, frameEnded, frameStart>>
        /\ ~frameEnded /\ at' = "components"
    BY <1>4 DEF RunCycles
  <2>. QED BY <1>2, <2>1 DEF FrameInv, Blanks
<1>5. CASE ComponentEvent
  <2>1. PICK r \in Requests : queue' = AddEvent(queue, r[1], r[2], 0)
    BY <1>5 DEF ComponentEvent
  <2>2. r[1] \in Funcs \ {"vblank_start", "vblank_end"} /\ r[2] \in Nat
    <3>1. CASE r = <<"int_check", IntDelay>>
      BY <3>1 DEF Funcs, CyclesAssumption
    <3>2. CASE r \in {"n_command"} \X DriveDelays
      BY <3>2 DEF Funcs, CyclesAssumption
    <3>. QED BY <2>1, <3>1, <3>2 DEF Requests
  <2>3. Blanks(AddEvent(queue, r[1], r[2], 0), frameStart)
    BY <1>1, <1>2, <2>2, AddedBlanks
  <2>4. at = "components" /\ UNCHANGED <<at, frameEnded, frameStart>>
    BY <1>5 DEF ComponentEvent, pass
  <2>5. ~frameEnded
    BY <2>4 DEF FrameInv
  <2>6. Blanks(queue', frameStart')
    BY <2>1, <2>3, <2>4
  <2>7. Blanks(queue, frameStart)'
    BY <2>6 DEF Blanks
  <2>. QED BY <2>4, <2>5, <2>7 DEF FrameInv
<1>6. CASE BeginPass
  <2>1. UNCHANGED <<queue, frameEnded, frameStart>> /\ at = "components" /\ at' # "frame"
    BY <1>6 DEF BeginPass
  <2>2. ~frameEnded
    BY <2>1 DEF FrameInv
  <2>. QED BY <1>2, <2>1, <2>2 DEF FrameInv, Blanks
<1>7. CASE RunEvent
  <2>1. /\ at = "events" /\ it \in DOMAIN queue.events
        /\ queue.events[it].time <= queue.closest
        /\ frameEnded' = (frameEnded \/ queue.events[it].func = "vblank_end")
        /\ UNCHANGED <<ee, at, frameStart>>
    BY <1>7 DEF RunEvent, Due, clocks, pass
  <2>2. PICK q \in Callback(queue.events[it].func) : queue' = Erase(q, it)
    BY <1>7 DEF RunEvent
  <2>3. queue.events[it].func \in Funcs /\ queue.events[it].time \in Nat
    BY <1>1, <2>1, ListTypes
  <2>4. /\ q \in QueueType /\ Blanks(q, frameStart)
        /\ NoStart(queue) => NoStart(q)
        /\ NoEnd(queue) => NoEnd(q)
        /\ it \in DOMAIN q.events /\ q.events[it] = queue.events[it]
    BY <1>1, <1>2, <2>1, <2>2, <2>3, CallbackBlanks
  <2>5. /\ Blanks(Erase(q, it), frameStart)
        /\ NoStart(q) => NoStart(Erase(q, it))
        /\ NoEnd(q) \/ q.events[it].func = "vblank_end" => NoEnd(Erase(q, it))
    BY <2>4, ErasedBlanks
  <2>6. Blanks(queue', frameStart') /\ Blanks(queue, frameStart)'
    <3>1. Blanks(queue', frameStart')
      BY <2>1, <2>2, <2>5
    <3>. QED BY <3>1 DEF Blanks
  <2>7. CASE queue.events[it].func = "vblank_end"
    <3>1. queue.events[it].time = frameStart + FrameCycles
      BY <1>2, <2>1, <2>7 DEF Blanks
    <3>2. queue.closest <= ee /\ ee <= queue.events[it].time /\ queue.closest \in Nat
      BY <1>1, <2>1 DEF IInv, ClosestBounds, OnTime, From, QueueType
    <3>3. ee' = frameStart' + FrameCycles
      BY <1>1, <2>1, <2>3, <3>1, <3>2
    <3>4. NoEnd(queue)'
      <4>1. NoEnd(queue')
        BY <2>2, <2>4, <2>5, <2>7
      <4>. QED BY <4>1 DEF NoEnd
    <3>5. NoStart(queue)'
      <4>1. SUFFICES ASSUME NEW i \in DOMAIN queue'.events,
                            queue'.events[i].func = "vblank_start"
                     PROVE  FALSE
        BY DEF NoStart
      <4>2. queue'.events[i].time = frameStart' + VblankStart
        BY <2>6, <4>1 DEF Blanks
      <4>3. ee' <= queue'.events[i].time
        BY <4>1 DEF IInv, OnTime, From
      <4>4. VblankStart \in Nat /\ FrameCycles \in Nat /\ VblankStart < FrameCycles
            /\ frameStart' \in Nat
        BY <1>1, <2>1 DEF CyclesAssumption
      <4>. QED BY <3>3, <4>2, <4>3, <4>4
    <3>. QED BY <2>1, <2>6, <3>3, <3>4, <3>5 DEF FrameInv
  <2>8. CASE queue.events[it].func # "vblank_end"
    <3>1. frameEnded' = frameEnded
      BY <1>1, <2>1, <2>8
    <3>2. frameEnded => NoStart(queue') /\ NoEnd(queue')
      BY <1>2, <2>2, <2>4, <2>5
    <3>3. frameEnded => NoStart(queue)' /\ NoEnd(queue)'
      BY <3>2 DEF NoStart, NoEnd
    <3>4. frameEnded => ee' = 0 \/ ee' = frameStart' + FrameCycles
      BY <2>1 DEF FrameInv
    <3>. QED BY <2>1, <2>6, <3>1, <3>3, <3>4 DEF FrameInv
  <2>. QED BY <2>7, <2>8
<1>8. CASE SkipEvent
  <2>1. UNCHANGED <<ee, queue, at, frameEnded, frameStart>>
    BY <1>8 DEF SkipEvent, clocks
  <2>. QED BY <2>1 DEF FrameInv, Blanks, NoStart, NoEnd
<1>9. CASE EndPass
  <2>1. /\ UNCHANGED <<ee, frameEnded, frameStart>>
        /\ queue' = [queue EXCEPT !.closest = newTime]
        /\ at' = IF frameEnded THEN "frame" ELSE "loop"
    BY <1>9 DEF EndPass, clocks
  <2>2. queue'.events = queue.events
    BY <1>1, <2>1 DEF QueueType
  <2>3. Blanks(queue, frameStart)' /\ (frameEnded => NoStart(queue)' /\ NoEnd(queue)')
    BY <1>2, <2>1, <2>2 DEF Blanks, NoStart, NoEnd
  <2>. QED BY <1>1, <2>1, <2>3 DEF FrameInv
<1>10. CASE UNCHANGED schedulerVars
  <2>1. UNCHANGED <<ee, queue, at, frameEnded, frameStart>>
    BY <1>10 DEF schedulerVars, clocks, pass
  <2>. QED BY <2>1 DEF FrameInv, Blanks, NoStart, NoEnd
<1>. QED BY <1>3, <1>4, <1>5, <1>6, <1>7, <1>8, <1>9, <1>10 DEF Next

(* A frame takes exactly CYCLES_PER_FRAME cycles, however the runs cut it  *)
(* and whatever events there are, and none of its vblank events is left    *)
(* for the next one (Emulator::run, vblank_start, vblank_end).             *)
THEOREM FramesAreExact == Spec => []FrameExact
PROOF
<1>. USE CyclesAssumption
<1>1. IInv /\ FrameInv /\ [Next]_schedulerVars => FrameInv'
  BY NextInv, NextFrames
<1>2. FrameInv => FrameExact
  BY DEF FrameInv, FrameExact, Pending, NoStart, NoEnd
<1>. QED BY <1>1, <1>2, InitFrames, SchedulerInvariance, PTL DEF Spec

-----------------------------------------------------------------------------
(* Timers.  The list has one event per timer besides those of Scheduler.   *)
EventT == [func : Funcs \cup {"timer"}, time : Int, param : Nat]
ListT == [events : Seq(EventT), closest : Int]

LEMMA RemovedAt ==
  ASSUME NEW G, NEW l \in Seq(G), NEW k \in DOMAIN l
  PROVE  /\ RemoveAt(l, k) \in Seq(G)
         /\ Len(l) \in Nat /\ DOMAIN l = 1 .. Len(l)
         /\ Len(RemoveAt(l, k)) = Len(l) - 1
         /\ DOMAIN RemoveAt(l, k) = 1 .. Len(l) - 1
         /\ \A i \in 1 .. Len(l) - 1 : RemoveAt(l, k)[i] = IF i < k THEN l[i] ELSE l[i + 1]
PROOF
<1>. DEFINE n == Len(l)
            front == SubSeq(l, 1, k - 1)
            back == SubSeq(l, k + 1, n)
<1>1. n \in Nat /\ DOMAIN l = 1 .. n /\ k \in 1 .. n /\ (\A i \in 1 .. n : l[i] \in G)
  BY LenProperties, ElementOfSeq
<1>2. l \in Seq(G) /\ n = Len(l)
  OBVIOUS
<1>3. /\ front \in Seq(G) /\ Len(front) = k - 1
      /\ \A i \in 1 .. k - 1 : front[i] = l[i]
  <2>1. \A i \in 1 .. k - 1 : l[i] \in G
    BY <1>1
  <2>2. 1 \in Int /\ k - 1 \in Int
    BY <1>1
  <2>. QED BY <1>1, <1>2, <2>1, <2>2, SubSeqProperties
<1>4. /\ back \in Seq(G) /\ Len(back) = n - k
      /\ \A i \in 1 .. n - k : back[i] = l[k + i]
  <2>1. \A i \in k + 1 .. n : l[i] \in G
    BY <1>1
  <2>2. k + 1 \in Int /\ n \in Int
    BY <1>1
  <2>3. /\ back \in Seq(G)
        /\ Len(back) = IF k + 1 <= n THEN n - (k + 1) + 1 ELSE 0
        /\ \A i \in 1 .. n - (k + 1) + 1 : back[i] = l[(k + 1) + i - 1]
    BY <1>2, <2>1, <2>2, SubSeqProperties, SMTT(60)
  <2>. HIDE DEF back, n
  <2>4. Len(back) = n - k
    BY <1>1, <2>3
  <2>5. ASSUME NEW i \in 1 .. n - k PROVE back[i] = l[k + i]
    <3>1. i \in 1 .. n - (k + 1) + 1 /\ (k + 1) + i - 1 = k + i
      BY <1>1
    <3>. QED BY <2>3, <3>1
  <2>. QED BY <2>3, <2>4, <2>5
<1>5. RemoveAt(l, k) = front \o back
  BY DEF RemoveAt
<1>. HIDE DEF front, back, n
<1>6. /\ front \o back \in Seq(G) /\ Len(front \o back) = n - 1
      /\ \A i \in 1 .. n - 1 :
           (front \o back)[i] = IF i <= k - 1 THEN front[i] ELSE back[i - (k - 1)]
  <2>1. /\ front \o back \in Seq(G)
        /\ Len(front \o back) = Len(front) + Len(back)
        /\ \A i \in 1 .. Len(front) + Len(back) :
             (front \o back)[i] = IF i <= Len(front) THEN front[i] ELSE back[i - Len(front)]
    BY <1>3, <1>4, ConcatProperties
  <2>2. Len(front) + Len(back) = n - 1
    BY <1>1, <1>3, <1>4
  <2>. QED BY <1>3, <2>1, <2>2
<1>7. ASSUME NEW i \in 1 .. n - 1
      PROVE  (front \o back)[i] = IF i < k THEN l[i] ELSE l[i + 1]
  <2>1. CASE i < k
    <3>1. i \in 1 .. k - 1 /\ i <= k - 1
      BY <1>1, <2>1
    <3>. QED BY <1>3, <1>6, <2>1, <3>1
  <2>2. CASE ~(i < k)
    <3>1. ~(i <= k - 1) /\ i - (k - 1) \in 1 .. n - k /\ k + (i - (k - 1)) = i + 1
      BY <1>1, <2>2
    <3>. QED BY <1>4, <1>6, <2>2, <3>1
  <2>. QED BY <2>1, <2>2
<1>8. DOMAIN (front \o back) = 1 .. n - 1
  BY <1>6, LenProperties
<1>9. n = Len(l)
  BY DEF n
<1>. QED BY <1>1, <1>5, <1>6, <1>7, <1>8, <1>9, ZenonT(60)

LEMMA ListIsTyped ==
  ASSUME NEW q \in ListT
  PROVE  /\ q.events \in Seq(EventT) /\ q.closest \in Int
         /\ Len(q.events) \in Nat /\ DOMAIN q.events = 1 .. Len(q.events)
         /\ \A n \in DOMAIN q.events :
              /\ q.events[n] \in EventT
              /\ q.events[n].func \in Funcs \cup {"timer"}
              /\ q.events[n].time \in Int /\ q.events[n].param \in Nat
PROOF
<1>1. q.events \in Seq(EventT) /\ q.closest \in Int
  BY DEF ListT
<1>2. Len(q.events) \in Nat /\ DOMAIN q.events = 1 .. Len(q.events)
  BY <1>1, LenProperties
<1>3. ASSUME NEW n \in DOMAIN q.events
      PROVE  /\ q.events[n] \in EventT
             /\ q.events[n].func \in Funcs \cup {"timer"}
             /\ q.events[n].time \in Int /\ q.events[n].param \in Nat
  <2>1. q.events[n] \in EventT
    BY <1>1, <1>2, ElementOfSeq
  <2>. QED BY <2>1 DEF EventT
<1>. QED BY <1>1, <1>2, <1>3

(* What add_event does to such a list.                                     *)
LEMMA Added ==
  ASSUME NEW q \in ListT, ee \in Int,
         NEW func \in Funcs \cup {"timer"}, NEW delta \in Int, NEW param \in Nat
  PROVE  LET a == AddEvent(q, func, delta, param) IN
         /\ a \in ListT /\ DOMAIN a.events = 1 .. Len(q.events) + 1
         /\ Longer(q, a, ee + delta, Event(func, ee + delta, param))
PROOF
<1>1. Event(func, ee + delta, param) \in EventT
  BY DEF Event, EventT
<1>2. q.events \in Seq(EventT) /\ q.closest \in Int
  BY ListIsTyped
<1>. DEFINE l == Append(q.events, Event(func, ee + delta, param))
            a == AddEvent(q, func, delta, param)
<1>3. /\ l \in Seq(EventT) /\ Len(l) = Len(q.events) + 1
      /\ \A i \in 1 .. Len(q.events) : l[i] = q.events[i]
      /\ l[Len(q.events) + 1] = Event(func, ee + delta, param)
  BY <1>1, <1>2, AppendProperties
<1>4. DOMAIN l = 1 .. Len(q.events) + 1
  BY <1>3, LenProperties
<1>5. a.events = l /\ a.closest = IF ee + delta < q.closest THEN ee + delta ELSE q.closest
  BY DEF AddEvent, Lesser
<1>6. a \in [events : Seq(EventT), closest : Int]
  BY <1>2, <1>3 DEF AddEvent, Lesser
<1>. HIDE DEF l, a
<1>7. a \in ListT
  BY <1>6 DEF ListT
<1>8. /\ a.closest <= q.closest /\ a.closest <= ee + delta
      /\ (a.closest = q.closest \/ a.closest = ee + delta)
  BY <1>2, <1>5
<1>. QED BY <1>3, <1>4, <1>5, <1>7, <1>8 DEF a, Longer

(* What erasing an event does.                                             *)
Grown(q, a, e) ==
  /\ a \in ListT /\ a.closest <= q.closest /\ a.closest <= e.time
  /\ Len(a.events) = Len(q.events) + 1
  /\ \A n \in 1 .. Len(q.events) : a.events[n] = q.events[n]
  /\ a.events[Len(q.events) + 1] = e

LEMMA AddEventGrows ==
  ASSUME NEW q \in ListT, ee \in Int,
         NEW func \in Funcs \cup {"timer"}, NEW delta \in Int, NEW param \in Nat
  PROVE  Grown(q, AddEvent(q, func, delta, param), Event(func, ee + delta, param))
PROOF
<1>. DEFINE a == AddEvent(q, func, delta, param)
            e == Event(func, ee + delta, param)
<1>1. /\ a \in ListT /\ a.closest <= q.closest /\ a.closest <= ee + delta
      /\ Len(a.events) = Len(q.events) + 1
      /\ \A n \in 1 .. Len(q.events) : a.events[n] = q.events[n]
      /\ a.events[Len(q.events) + 1] = e
  BY Added DEF Longer
<1>2. e.time = ee + delta
  BY DEF Event
<1>. HIDE DEF a, e
<1>3. a.closest <= e.time
  BY <1>1, <1>2
<1>4. Grown(q, a, e)
  BY <1>1, <1>3 DEF Grown
<1>. QED BY <1>4 DEF a, e

LEMMA Erased ==
  ASSUME NEW q \in ListT, NEW k \in DOMAIN q.events
  PROVE  LET e == Erase(q, k) IN
         /\ e \in ListT /\ e.closest = q.closest
         /\ DOMAIN e.events = 1 .. Len(q.events) - 1
         /\ Len(e.events) = Len(q.events) - 1
         /\ \A i \in 1 .. Len(q.events) - 1 :
              e.events[i] = IF i < k THEN q.events[i] ELSE q.events[i + 1]
PROOF
<1>1. q.events \in Seq(EventT)
  BY ListIsTyped
<1>2. Erase(q, k) = [q EXCEPT !.events = RemoveAt(q.events, k)]
  BY DEF Erase
<1>3. /\ RemoveAt(q.events, k) \in Seq(EventT)
      /\ Len(RemoveAt(q.events, k)) = Len(q.events) - 1
      /\ DOMAIN RemoveAt(q.events, k) = 1 .. Len(q.events) - 1
      /\ \A i \in 1 .. Len(q.events) - 1 :
           RemoveAt(q.events, k)[i] = IF i < k THEN q.events[i] ELSE q.events[i + 1]
  BY <1>1, RemovedAt
<1>. DEFINE l == RemoveAt(q.events, k)
<1>. HIDE DEF l
<1>4. Erase(q, k) = [q EXCEPT !.events = l] /\ l \in Seq(EventT)
  BY <1>2, <1>3 DEF l
<1>5. Erase(q, k).events = l /\ Erase(q, k).closest = q.closest /\ Erase(q, k) \in ListT
  BY <1>4 DEF ListT
<1>. QED BY <1>3, <1>5 DEF l

(* Three things happen to the list: events are added at its end, the times *)
(* of timers' events are changed, and a pass replaces the event it is at   *)
(* by those that its callback adds.                                        *)
Plain == Funcs \ {"vblank_start", "vblank_end"}

Extended(q, r, F) ==
  /\ r \in ListT /\ r.closest <= q.closest
  /\ Len(q.events) <= Len(r.events)
  /\ \A n \in 1 .. Len(q.events) : r.events[n] = q.events[n]
  /\ \A n \in Len(q.events) + 1 .. Len(r.events) :
       /\ r.events[n].func \in F
       /\ ee <= r.events[n].time /\ r.closest <= r.events[n].time

Shifted(q, p, S) ==
  /\ p \in ListT /\ p.closest <= q.closest
  /\ q.closest <= ee => p.closest = q.closest
  /\ DOMAIN p.events = DOMAIN q.events
  /\ \A n \in DOMAIN q.events :
       /\ p.events[n].func = q.events[n].func
       /\ p.events[n].param = q.events[n].param
       /\ \/ p.events[n] = q.events[n]
          \/ q.events[n].func = "timer" /\ q.events[n].param \in S

Passed(q, p, k) ==
  /\ p \in ListT
  /\ Len(q.events) - 1 <= Len(p.events)
  /\ \A n \in 1 .. Len(q.events) - 1 :
       p.events[n] = IF n < k THEN q.events[n] ELSE q.events[n + 1]
  /\ \A n \in Len(q.events) .. Len(p.events) :
       p.events[n].func \notin {"vblank_start", "vblank_end"} /\ ee <= p.events[n].time

LEMMA ExtendedSelf == ASSUME NEW q \in ListT, NEW F PROVE Extended(q, q, F)
PROOF
<1>1. Len(q.events) \in Nat /\ q.closest \in Int
  BY ListIsTyped
<1>. QED BY <1>1 DEF Extended

LEMMA ExtendedMore ==
  ASSUME NEW q \in ListT, NEW F \in SUBSET Funcs, NEW r, Extended(q, r, F), ee \in Nat,
         NEW func \in F, NEW delta \in Nat
  PROVE  Extended(q, AddEvent(r, func, delta, 0), F)
PROOF
<1>. DEFINE a == AddEvent(r, func, delta, 0)
            m == Len(q.events)
            n == Len(r.events)
<1>1. r \in ListT /\ func \in Funcs \cup {"timer"} /\ delta \in Int /\ 0 \in Nat /\ ee \in Int
  BY DEF Extended
<1>2. /\ a \in ListT
      /\ a.closest <= r.closest /\ a.closest <= ee + delta
      /\ Len(a.events) = n + 1
      /\ \A i \in 1 .. n : a.events[i] = r.events[i]
      /\ a.events[n + 1] = Event(func, ee + delta, 0)
  <2>. HIDE DEF a
  <2>1. a \in ListT /\ Longer(r, a, ee + delta, Event(func, ee + delta, 0))
    BY <1>1, Added DEF a
  <2>. QED BY <2>1 DEF Longer
<1>3. a.events[n + 1].func = func /\ a.events[n + 1].time = ee + delta
  BY <1>2 DEF Event
<1>. HIDE DEF a
<1>4. /\ m \in Nat /\ n \in Nat /\ r.closest \in Int /\ q.closest \in Int /\ a.closest \in Int
      /\ \A i \in 1 .. n : r.events[i].time \in Int
  BY <1>1, <1>2, ListIsTyped
<1>5. /\ r.closest <= q.closest /\ m <= n
      /\ \A i \in 1 .. m : r.events[i] = q.events[i]
      /\ \A i \in m + 1 .. n : /\ r.events[i].func \in F
                               /\ ee <= r.events[i].time /\ r.closest <= r.events[i].time
  BY DEF Extended
<1>. HIDE DEF m, n
<1>6. \A i \in 1 .. m : a.events[i] = q.events[i]
  BY <1>2, <1>4, <1>5
<1>7. ASSUME NEW i \in m + 1 .. n + 1
      PROVE  /\ a.events[i].func \in F
             /\ ee <= a.events[i].time /\ a.closest <= a.events[i].time
  <2>1. CASE i = n + 1
    BY <1>1, <1>2, <1>3, <2>1
  <2>2. CASE i # n + 1
    <3>1. i \in 1 .. n /\ i \in m + 1 .. n
      BY <1>4, <2>2
    <3>2. a.events[i] = r.events[i] /\ r.events[i].time \in Int
      BY <1>2, <1>4, <3>1
    <3>. QED BY <1>2, <1>4, <1>5, <3>1, <3>2
  <2>. QED BY <2>1, <2>2
<1>8. a.closest <= q.closest /\ m <= n + 1
  BY <1>2, <1>4, <1>5
<1>. QED BY <1>2, <1>6, <1>7, <1>8 DEF Extended, a, m, n

LEMMA ExtendedPassed ==
  ASSUME NEW q \in ListT, NEW r, Extended(q, r, Plain), NEW k \in DOMAIN q.events
  PROVE  /\ Passed(q, Erase(r, k), k)
         /\ Erase(r, k).closest <= q.closest
         /\ \A n \in Len(q.events) .. Len(Erase(r, k).events) :
              Erase(r, k).events[n].func \in Plain
PROOF
<1>. DEFINE m == Len(q.events)
            n == Len(r.events)
            e == Erase(r, k)
<1>1. /\ r \in ListT /\ r.closest <= q.closest /\ m <= n
      /\ \A i \in 1 .. m : r.events[i] = q.events[i]
      /\ \A i \in m + 1 .. n : /\ r.events[i].func \in Plain /\ ee <= r.events[i].time
  BY DEF Extended
<1>2. m \in Nat /\ n \in Nat /\ k \in 1 .. m /\ DOMAIN r.events = 1 .. n
  BY <1>1, ListIsTyped
<1>3. k \in DOMAIN r.events
  BY <1>1, <1>2
<1>4. /\ e \in ListT /\ e.closest = r.closest
      /\ Len(e.events) = n - 1
      /\ \A i \in 1 .. n - 1 : e.events[i] = IF i < k THEN r.events[i] ELSE r.events[i + 1]
  BY <1>1, <1>3, Erased
<1>. HIDE DEF m, n, e
<1>5. ASSUME NEW i \in 1 .. m - 1
      PROVE  e.events[i] = IF i < k THEN q.events[i] ELSE q.events[i + 1]
  <2>1. i \in 1 .. n - 1 /\ i \in 1 .. m /\ i + 1 \in 1 .. m
    BY <1>1, <1>2
  <2>2. r.events[i] = q.events[i] /\ r.events[i + 1] = q.events[i + 1]
    BY <1>1, <2>1
  <2>. QED BY <1>4, <2>1, <2>2
<1>6. ASSUME NEW i \in m .. Len(e.events)
      PROVE  e.events[i].func \in Plain /\ ee <= e.events[i].time
  <2>1. i \in 1 .. n - 1 /\ ~(i < k) /\ i + 1 \in m + 1 .. n
    BY <1>2, <1>4
  <2>. QED BY <1>1, <1>4, <2>1
<1>7. m - 1 <= Len(e.events)
  BY <1>1, <1>2, <1>4
<1>8. Passed(q, e, k)
  BY <1>4, <1>5, <1>6, <1>7 DEF Passed, Plain, m
<1>. QED BY <1>1, <1>4, <1>6, <1>8 DEF m, e

(* What the invariant says of the list: every timer has one event, which   *)
(* never comes while the timer is paused; and of the times in it, but for  *)
(* those of the timers in a set A.                                         *)
OneEach(q) ==
  /\ \A n \in DOMAIN q.events : q.events[n].func = "timer" => q.events[n].param \in TimerIds
  /\ \A i \in TimerIds :
       \E n \in DOMAIN q.events : \A m \in DOMAIN q.events :
         IsEventOf(q.events[m], i) <=> m = n

PausedNever(q, ts) ==
  \A n \in DOMAIN q.events :
    q.events[n].func = "timer" =>
      (ts[q.events[n].param].paused = TRUE => q.events[n].time = Never)

Exempt(e, A) == e.func = "timer" /\ e.param \in A

Since(q, A, t) ==
  \A n \in DOMAIN q.events : Exempt(q.events[n], A) \/ t <= q.events[n].time

SinceBefore(q, A, k, t) ==
  \A n \in DOMAIN q.events : n < k => Exempt(q.events[n], A) \/ t <= q.events[n].time

LEMMA ExtendedKeeps ==
  ASSUME NEW q \in ListT, NEW F \in SUBSET Funcs, NEW r, Extended(q, r, F),
         NEW ts, NEW A, NEW t \in Int, ee \in Int
  PROVE  /\ OneEach(q) => OneEach(r)
         /\ PausedNever(q, ts) => PausedNever(r, ts)
         /\ Since(q, A, ee) => Since(r, A, ee)
         /\ Since(q, A, q.closest) => Since(r, A, r.closest)
PROOF
<1>. DEFINE m == Len(q.events)
            n == Len(r.events)
<1>1. /\ r \in ListT /\ r.closest <= q.closest /\ m <= n
      /\ \A i \in 1 .. m : r.events[i] = q.events[i]
      /\ \A i \in m + 1 .. n : /\ r.events[i].func \in F
                               /\ ee <= r.events[i].time /\ r.closest <= r.events[i].time
  BY DEF Extended
<1>2. /\ m \in Nat /\ n \in Nat /\ DOMAIN q.events = 1 .. m /\ DOMAIN r.events = 1 .. n
      /\ r.closest \in Int /\ q.closest \in Int
      /\ \A i \in 1 .. m : q.events[i].time \in Int
  BY <1>1, ListIsTyped
<1>. HIDE DEF m, n
<1>3. "timer" \notin F
  BY DEF Funcs
<1>4. ASSUME NEW i \in 1 .. n
      PROVE  \/ i \in 1 .. m /\ r.events[i] = q.events[i]
             \/ /\ i \notin 1 .. m
                /\ r.events[i].func # "timer"
                /\ ee <= r.events[i].time /\ r.closest <= r.events[i].time
  <2>1. CASE i \in 1 .. m
    BY <1>1, <2>1
  <2>2. CASE i \notin 1 .. m
    <3>1. i \in m + 1 .. n
      BY <1>2, <2>2
    <3>. QED BY <1>1, <1>3, <2>2, <3>1
  <2>. QED BY <2>1, <2>2
<1>5. ASSUME OneEach(q) PROVE OneEach(r)
  <2>1. ASSUME NEW i \in 1 .. n, r.events[i].func = "timer" PROVE r.events[i].param \in TimerIds
    BY <1>2, <1>4, <1>5, <2>1 DEF OneEach
  <2>2. ASSUME NEW i \in TimerIds
        PROVE  \E j \in 1 .. n : \A l \in 1 .. n : IsEventOf(r.events[l], i) <=> l = j
    <3>1. PICK j \in 1 .. m : \A l \in 1 .. m : IsEventOf(q.events[l], i) <=> l = j
      BY <1>2, <1>5 DEF OneEach
    <3>2. j \in 1 .. n
      BY <1>1, <1>2
    <3>3. ASSUME NEW l \in 1 .. n PROVE IsEventOf(r.events[l], i) <=> l = j
      BY <1>4, <3>1 DEF IsEventOf
    <3>. QED BY <3>2, <3>3
  <2>. QED BY <1>2, <2>1, <2>2 DEF OneEach
<1>6. ASSUME PausedNever(q, ts) PROVE PausedNever(r, ts)
  BY <1>2, <1>4, <1>6 DEF PausedNever
<1>7. ASSUME Since(q, A, ee) PROVE Since(r, A, ee)
  BY <1>2, <1>4, <1>7 DEF Since
<1>8. ASSUME Since(q, A, q.closest) PROVE Since(r, A, r.closest)
  <2>1. SUFFICES ASSUME NEW i \in 1 .. n
                 PROVE  Exempt(r.events[i], A) \/ r.closest <= r.events[i].time
    BY <1>2 DEF Since
  <2>2. CASE i \in 1 .. m /\ r.events[i] = q.events[i]
    <3>1. Exempt(q.events[i], A) \/ q.closest <= q.events[i].time
      BY <1>2, <1>8, <2>2 DEF Since
    <3>2. /\ q.events[i].time \in Int /\ r.closest \in Int /\ q.closest \in Int
          /\ r.closest <= q.closest
      BY <1>1, <1>2, <2>2
    <3>. QED BY <2>2, <3>1, <3>2
  <2>. QED BY <1>4, <2>2
<1>. QED BY <1>5, <1>6, <1>7, <1>8

LEMMA ShiftedKeeps ==
  ASSUME NEW q \in ListT, NEW S, NEW p, Shifted(q, p, S), OneEach(q), NEW start
  PROVE  /\ OneEach(p)
         /\ Blanks(q, start) => Blanks(p, start)
         /\ NoStart(q) => NoStart(p)
         /\ NoEnd(q) => NoEnd(p)
PROOF
<1>1. /\ DOMAIN p.events = DOMAIN q.events
      /\ \A n \in DOMAIN q.events :
           /\ p.events[n].func = q.events[n].func
           /\ p.events[n].param = q.events[n].param
           /\ q.events[n].func # "timer" => p.events[n] = q.events[n]
  BY DEF Shifted
<1>2. OneEach(p)
  BY <1>1 DEF OneEach, IsEventOf
<1>3. ASSUME Blanks(q, start) PROVE Blanks(p, start)
  BY <1>1, <1>3 DEF Blanks
<1>4. (NoStart(q) => NoStart(p)) /\ (NoEnd(q) => NoEnd(p))
  BY <1>1 DEF NoStart, NoEnd
<1>. QED BY <1>2, <1>3, <1>4

LEMMA PassedKeeps ==
  ASSUME NEW q \in ListT, NEW k \in DOMAIN q.events, NEW p, Passed(q, p, k), ee \in Int,
         NEW A, NEW t \in Int, NEW start
  PROVE  /\ Since(q, A, ee) => Since(p, A, ee)
         /\ SinceBefore(q, A, k, t) => SinceBefore(p, A, k, t)
         /\ Blanks(q, start) => Blanks(p, start)
         /\ NoStart(q) => NoStart(p)
         /\ Blanks(q, start) /\ (NoEnd(q) \/ q.events[k].func = "vblank_end") => NoEnd(p)
PROOF
<1>. DEFINE m == Len(q.events)
            n == Len(p.events)
            Old(i) == IF i < k THEN i ELSE i + 1
<1>1. /\ p \in ListT /\ m - 1 <= n
      /\ \A i \in 1 .. m - 1 : p.events[i] = IF i < k THEN q.events[i] ELSE q.events[i + 1]
      /\ \A i \in m .. n : p.events[i].func \notin {"vblank_start", "vblank_end"}
                           /\ ee <= p.events[i].time
  BY DEF Passed
<1>2. /\ m \in Nat /\ n \in Nat /\ DOMAIN q.events = 1 .. m /\ DOMAIN p.events = 1 .. n
      /\ k \in 1 .. m
  BY <1>1, ListIsTyped
<1>. HIDE DEF m, n
<1>3. ASSUME NEW i \in 1 .. n
      PROVE  \/ /\ i <= m - 1 /\ Old(i) \in 1 .. m /\ Old(i) # k
                /\ p.events[i] = q.events[Old(i)]
             \/ /\ i >= m
                /\ p.events[i].func \notin {"vblank_start", "vblank_end"}
                /\ ee <= p.events[i].time
  <2>1. CASE i <= m - 1
    BY <1>1, <1>2, <2>1
  <2>2. CASE ~(i <= m - 1)
    <3>1. i \in m .. n
      BY <1>2, <2>2
    <3>. QED BY <1>1, <1>2, <3>1
  <2>. QED BY <2>1, <2>2
<1>4. \A i, j \in 1 .. n : Old(i) = Old(j) => i = j
  BY <1>2
<1>5. \A i \in 1 .. n : i < k => Old(i) = i /\ i <= m - 1
  BY <1>2
<1>. HIDE DEF Old
<1>6. ASSUME Since(q, A, ee) PROVE Since(p, A, ee)
  BY <1>2, <1>3, <1>6 DEF Since
<1>7. ASSUME SinceBefore(q, A, k, t) PROVE SinceBefore(p, A, k, t)
  <2>1. SUFFICES ASSUME NEW i \in 1 .. n, i < k
                 PROVE  Exempt(p.events[i], A) \/ t <= p.events[i].time
    BY <1>2 DEF SinceBefore
  <2>2. p.events[i] = q.events[i] /\ i \in 1 .. m
    BY <1>2, <1>3, <1>5, <2>1
  <2>. QED BY <1>2, <1>7, <2>1, <2>2 DEF SinceBefore
<1>8. ASSUME Blanks(q, start) PROVE Blanks(p, start)
  <2>1. ASSUME NEW i \in 1 .. n
        PROVE  /\ p.events[i].func = "vblank_start" => p.events[i].time = start + VblankStart
               /\ p.events[i].func = "vblank_end" => p.events[i].time = start + FrameCycles
    BY <1>2, <1>3, <1>8 DEF Blanks
  <2>2. ASSUME NEW i \in 1 .. n, NEW j \in 1 .. n,
               p.events[i].func = "vblank_end", p.events[j].func = "vblank_end"
        PROVE  i = j
    BY <1>2, <1>3, <1>4, <1>8, <2>2 DEF Blanks
  <2>. QED BY <1>2, <2>1, <2>2 DEF Blanks
<1>9. NoStart(q) => NoStart(p)
  BY <1>2, <1>3 DEF NoStart
<1>10. ASSUME Blanks(q, start), NoEnd(q) \/ q.events[k].func = "vblank_end" PROVE NoEnd(p)
  BY <1>2, <1>3, <1>10 DEF Blanks, NoEnd
<1>. QED BY <1>6, <1>7, <1>8, <1>9, <1>10

(* A pass goes by an event that is no timer's, or by timer i's event when  *)
(* the last of those added is its next one.                                *)
LEMMA PassedOther ==
  ASSUME NEW q \in ListT, NEW k \in DOMAIN q.events, NEW p, Passed(q, p, k), NEW ts,
         OneEach(q), q.events[k].func # "timer",
         \A n \in Len(q.events) .. Len(p.events) : p.events[n].func # "timer"
  PROVE  /\ OneEach(p)
         /\ PausedNever(q, ts) => PausedNever(p, ts)
PROOF
<1>. DEFINE m == Len(q.events)
            n == Len(p.events)
            Old(i) == IF i < k THEN i ELSE i + 1
            New(i) == IF i < k THEN i ELSE i - 1
<1>1. /\ p \in ListT /\ m - 1 <= n
      /\ \A i \in 1 .. m - 1 : p.events[i] = IF i < k THEN q.events[i] ELSE q.events[i + 1]
      /\ \A i \in m .. n : p.events[i].func # "timer"
  BY DEF Passed
<1>2. /\ m \in Nat /\ n \in Nat /\ DOMAIN q.events = 1 .. m /\ DOMAIN p.events = 1 .. n
      /\ k \in 1 .. m
  BY <1>1, ListIsTyped
<1>. HIDE DEF m, n
<1>3. ASSUME NEW i \in 1 .. n
      PROVE  \/ i \in 1 .. m - 1 /\ Old(i) \in 1 .. m /\ p.events[i] = q.events[Old(i)]
             \/ i \notin 1 .. m - 1 /\ p.events[i].func # "timer"
  <2>1. CASE i <= m - 1
    BY <1>1, <1>2, <2>1
  <2>2. CASE ~(i <= m - 1)
    <3>1. i \in m .. n
      BY <1>2, <2>2
    <3>. QED BY <1>1, <1>2, <2>2, <3>1
  <2>. QED BY <2>1, <2>2
<1>4. ASSUME NEW j \in 1 .. m, j # k
      PROVE  /\ New(j) \in 1 .. n /\ New(j) \in 1 .. m - 1
             /\ \A i \in 1 .. m - 1 : Old(i) = j <=> i = New(j)
  BY <1>1, <1>2, <1>4
<1>. HIDE DEF Old, New
<1>5. \A i \in 1 .. n : p.events[i].func = "timer" => p.events[i].param \in TimerIds
  BY <1>2, <1>3 DEF OneEach
<1>6. ASSUME NEW i \in TimerIds
      PROVE  \E j \in 1 .. n : \A l \in 1 .. n : IsEventOf(p.events[l], i) <=> l = j
  <2>a. PICK j \in DOMAIN q.events :
          \A l \in DOMAIN q.events : IsEventOf(q.events[l], i) <=> l = j
    BY DEF OneEach
  <2>1. j \in 1 .. m /\ \A l \in 1 .. m : IsEventOf(q.events[l], i) <=> l = j
    BY <1>2, <2>a
  <2>2. j # k
    BY <1>2, <2>1 DEF IsEventOf
  <2>3. New(j) \in 1 .. n /\ New(j) \in 1 .. m - 1
    BY <1>4, <2>1, <2>2
  <2>4. ASSUME NEW l \in 1 .. n PROVE IsEventOf(p.events[l], i) <=> l = New(j)
    <3>1. CASE l \in 1 .. m - 1 /\ Old(l) \in 1 .. m /\ p.events[l] = q.events[Old(l)]
      <4>1. IsEventOf(p.events[l], i) <=> Old(l) = j
        BY <2>1, <3>1
      <4>2. Old(l) = j <=> l = New(j)
        BY <1>4, <2>1, <2>2, <3>1
      <4>. QED BY <4>1, <4>2
    <3>2. CASE l \notin 1 .. m - 1 /\ p.events[l].func # "timer"
      BY <2>3, <3>2 DEF IsEventOf
    <3>. QED BY <1>3, <3>1, <3>2
  <2>. QED BY <2>3, <2>4
<1>7. PausedNever(q, ts) => PausedNever(p, ts)
  BY <1>2, <1>3 DEF PausedNever
<1>. QED BY <1>2, <1>5, <1>6, <1>7 DEF OneEach

LEMMA PassedTimer ==
  ASSUME NEW q \in ListT, NEW k \in DOMAIN q.events, NEW p, Passed(q, p, k), NEW ts,
         NEW i \in TimerIds, OneEach(q), IsEventOf(q.events[k], i), ts[i].paused = FALSE,
         Len(q.events) <= Len(p.events), IsEventOf(p.events[Len(p.events)], i),
         \A n \in Len(q.events) .. Len(p.events) - 1 : p.events[n].func # "timer"
  PROVE  /\ OneEach(p)
         /\ PausedNever(q, ts) => PausedNever(p, ts)
PROOF
<1>. DEFINE m == Len(q.events)
            n == Len(p.events)
            Old(j) == IF j < k THEN j ELSE j + 1
            New(j) == IF j < k THEN j ELSE j - 1
<1>1. /\ p \in ListT
      /\ \A j \in 1 .. m - 1 : p.events[j] = IF j < k THEN q.events[j] ELSE q.events[j + 1]
  BY DEF Passed
<1>2. /\ m \in Nat /\ n \in Nat /\ DOMAIN q.events = 1 .. m /\ DOMAIN p.events = 1 .. n
      /\ k \in 1 .. m
  BY <1>1, ListIsTyped
<1>a. /\ m <= n /\ IsEventOf(p.events[n], i)
      /\ \A j \in m .. n - 1 : p.events[j].func # "timer"
  OBVIOUS
<1>. HIDE DEF m, n
<1>3. ASSUME NEW j \in 1 .. n
      PROVE  \/ /\ j \in 1 .. m - 1 /\ j # n /\ Old(j) \in 1 .. m /\ Old(j) # k
                /\ p.events[j] = q.events[Old(j)]
             \/ j \notin 1 .. m - 1 /\ j # n /\ p.events[j].func # "timer"
             \/ j \notin 1 .. m - 1 /\ j = n /\ IsEventOf(p.events[j], i)
  <2>1. CASE j <= m - 1
    BY <1>1, <1>2, <1>a, <2>1
  <2>2. CASE ~(j <= m - 1) /\ j # n
    <3>1. j \in m .. n - 1
      BY <1>2, <2>2
    <3>. QED BY <1>a, <1>2, <2>2, <3>1
  <2>3. CASE j = n
    BY <1>2, <1>a, <2>3
  <2>. QED BY <2>1, <2>2, <2>3
<1>4. ASSUME NEW j \in 1 .. m, j # k
      PROVE  /\ New(j) \in 1 .. n /\ New(j) \in 1 .. m - 1
             /\ \A l \in 1 .. m - 1 : Old(l) = j <=> l = New(j)
  BY <1>a, <1>2, <1>4
<1>. HIDE DEF Old, New
<1>5. \A l \in 1 .. m : IsEventOf(q.events[l], i) <=> l = k
  <2>1. PICK j \in DOMAIN q.events :
          \A l \in DOMAIN q.events : IsEventOf(q.events[l], i) <=> l = j
    BY DEF OneEach
  <2>. QED BY <1>2, <2>1
<1>6. ASSUME NEW j \in 1 .. n, p.events[j].func = "timer" PROVE p.events[j].param \in TimerIds
  <2>1. \A l \in 1 .. m : q.events[l].func = "timer" => q.events[l].param \in TimerIds
    BY <1>2 DEF OneEach
  <2>2. CASE j = n
    BY <1>a, <2>2 DEF IsEventOf
  <2>3. CASE j # n
    <3>1. Old(j) \in 1 .. m /\ p.events[j] = q.events[Old(j)]
      BY <1>3, <1>6, <2>3
    <3>. QED BY <1>6, <2>1, <3>1
  <2>. QED BY <2>2, <2>3
<1>7. ASSUME NEW u \in TimerIds
      PROVE  \E j \in 1 .. n : \A l \in 1 .. n : IsEventOf(p.events[l], u) <=> l = j
  <2>1. CASE u = i
    <3>1. n \in 1 .. n
      BY <1>2, <1>a
    <3>2. ASSUME NEW l \in 1 .. n PROVE IsEventOf(p.events[l], u) <=> l = n
      <4>1. CASE l \in 1 .. m - 1 /\ l # n /\ Old(l) \in 1 .. m /\ Old(l) # k
                 /\ p.events[l] = q.events[Old(l)]
        BY <1>5, <2>1, <4>1
      <4>2. CASE l # n /\ p.events[l].func # "timer"
        BY <4>2 DEF IsEventOf
      <4>. QED BY <1>3, <2>1, <4>1, <4>2
    <3>. QED BY <3>1, <3>2
  <2>2. CASE u # i
    <3>a. PICK j \in DOMAIN q.events :
            \A l \in DOMAIN q.events : IsEventOf(q.events[l], u) <=> l = j
      BY DEF OneEach
    <3>1. j \in 1 .. m /\ \A l \in 1 .. m : IsEventOf(q.events[l], u) <=> l = j
      BY <1>2, <3>a
    <3>2. j # k
      BY <1>2, <2>2, <3>1 DEF IsEventOf
    <3>3. New(j) \in 1 .. n /\ New(j) \in 1 .. m - 1
      BY <1>4, <3>1, <3>2
    <3>4. ASSUME NEW l \in 1 .. n PROVE IsEventOf(p.events[l], u) <=> l = New(j)
      <4>1. CASE l \in 1 .. m - 1 /\ Old(l) \in 1 .. m /\ p.events[l] = q.events[Old(l)]
        <5>1. IsEventOf(p.events[l], u) <=> Old(l) = j
          BY <3>1, <4>1
        <5>2. Old(l) = j <=> l = New(j)
          BY <1>4, <3>1, <3>2, <4>1
        <5>. QED BY <5>1, <5>2
      <4>2. CASE l \notin 1 .. m - 1 /\ p.events[l].func # "timer"
        BY <3>3, <4>2 DEF IsEventOf
      <4>3. CASE l \notin 1 .. m - 1 /\ IsEventOf(p.events[l], i)
        BY <2>2, <3>3, <4>3 DEF IsEventOf
      <4>. QED BY <1>3, <4>1, <4>2, <4>3
    <3>. QED BY <3>3, <3>4
  <2>. QED BY <2>1, <2>2
<1>8. ASSUME PausedNever(q, ts) PROVE PausedNever(p, ts)
  <2>1. SUFFICES ASSUME NEW j \in 1 .. n, p.events[j].func = "timer",
                        ts[p.events[j].param].paused = TRUE
                 PROVE  p.events[j].time = Never
    BY <1>2 DEF PausedNever
  <2>2. ~IsEventOf(p.events[j], i)
    <3>1. ts[i].paused # TRUE
      OBVIOUS
    <3>. QED BY <2>1, <3>1 DEF IsEventOf
  <2>3. Old(j) \in DOMAIN q.events /\ p.events[j] = q.events[Old(j)]
    BY <1>2, <1>3, <2>1, <2>2
  <2>. QED BY <1>8, <2>1, <2>3 DEF PausedNever
<1>9. OneEach(p)
  <2>1. \A j \in DOMAIN p.events :
          p.events[j].func = "timer" => p.events[j].param \in TimerIds
    BY <1>2, <1>6
  <2>2. ASSUME NEW u \in TimerIds
        PROVE  \E j \in DOMAIN p.events : \A l \in DOMAIN p.events :
                 IsEventOf(p.events[l], u) <=> l = j
    <3>1. PICK j \in 1 .. n : \A l \in 1 .. n : IsEventOf(p.events[l], u) <=> l = j
      BY <1>7
    <3>2. j \in DOMAIN p.events
      BY <1>2
    <3>3. ASSUME NEW l \in DOMAIN p.events PROVE IsEventOf(p.events[l], u) <=> l = j
      BY <1>2, <3>1
    <3>. QED BY <3>2, <3>3
  <2>. QED BY <2>1, <2>2 DEF OneEach
<1>. QED BY <1>8, <1>9

-----------------------------------------------------------------------------
(* Counters.  Looking at a counter changes nothing of what it stands for.  *)
Well(t) == t \in TimerState /\ t.rest < t.tick /\ t.last <= ee

LEMMA WholeTicks ==
  ASSUME NEW n \in Nat, NEW d \in Nat \ {0}
  PROVE  n = (n \div d) * d + (n % d) /\ n \div d \in Nat /\ n % d \in 0 .. d - 1
PROOF OBVIOUS

LEMMA Updated ==
  ASSUME ee \in Nat, NEW t, Well(t)
  PROVE  LET u == UpdateCounter(t) IN
         /\ Well(u)
         /\ Position(u) = Position(t)
         /\ Position(u) = u.counter * u.tick + u.rest
         /\ t.counter <= u.counter
         /\ t.paused = FALSE => u.last = ee
         /\ t.paused = TRUE => u = t
         /\ u.tick = t.tick /\ u.paused = t.paused /\ u.target = t.target
         /\ u.gate = t.gate /\ u.gated = t.gated /\ u.enabled = t.enabled
         /\ u.onCompare = t.onCompare /\ u.onOverflow = t.onOverflow
PROOF
<1>. DEFINE u == UpdateCounter(t)
            x == t.rest + (ee - t.last)
<1>1. /\ t \in TimerState /\ t.counter \in Nat /\ t.rest \in Nat /\ t.last \in Nat
      /\ t.tick \in Nat \ {0} /\ t.paused \in BOOLEAN /\ t.rest < t.tick /\ t.last <= ee
  BY DEF Well, TimerState
<1>2. CASE t.paused = TRUE
  <2>1. u = t
    BY <1>2 DEF UpdateCounter
  <2>2. Position(t) = t.counter * t.tick + t.rest
    BY <1>1, <1>2 DEF Position
  <2>. QED BY <1>1, <1>2, <2>1, <2>2
<1>3. CASE t.paused = FALSE
  <2>1. x \in Nat /\ x = (x \div t.tick) * t.tick + (x % t.tick)
        /\ x \div t.tick \in Nat /\ x % t.tick \in 0 .. t.tick - 1
    <3>1. x \in Nat
      BY <1>1
    <3>. DEFINE d == t.tick
    <3>2. d \in Nat \ {0}
      BY <1>1
    <3>. HIDE DEF x, d
    <3>3. /\ x = (x \div d) * d + (x % d)
          /\ x \div d \in Nat /\ x % d \in 0 .. d - 1
      BY <3>1, <3>2, WholeTicks
    <3>. QED BY <3>1, <3>3 DEF d
  <2>. DEFINE c == x \div t.tick
              r == x % t.tick
  <2>2. u = [t EXCEPT !.counter = @ + c, !.rest = r, !.last = ee]
    BY <1>3 DEF UpdateCounter
  <2>3. x = c * t.tick + r /\ c \in Nat /\ r \in 0 .. t.tick - 1 /\ r \in Nat
    BY <1>1, <2>1
  <2>. HIDE DEF c, r, x, u
  <2>4. /\ u.counter = t.counter + c /\ u.rest = r /\ u.last = ee
        /\ u.tick = t.tick /\ u.paused = t.paused /\ u.target = t.target
        /\ u.gate = t.gate /\ u.gated = t.gated /\ u.enabled = t.enabled
        /\ u.onCompare = t.onCompare /\ u.onOverflow = t.onOverflow
    BY <1>1, <2>2 DEF TimerState
  <2>5. u \in TimerState
    <3>1. t.counter + c \in Nat
      BY <1>1, <2>3
    <3>. HIDE DEF TimerState
    <3>. DEFINE t1 == [t EXCEPT !.counter = t.counter + c]
                t2 == [t1 EXCEPT !.rest = r]
                t3 == [t2 EXCEPT !.last = ee]
    <3>2. t1 \in TimerState
      BY <1>1, <3>1 DEF TimerState
    <3>. HIDE DEF t1
    <3>3. t2 \in TimerState
      BY <2>3, <3>2 DEF TimerState
    <3>. HIDE DEF t2
    <3>4. t3 \in TimerState
      BY <3>3 DEF TimerState
    <3>5. t3 = u
      BY <2>2 DEF t1, t2, t3
    <3>. QED BY <3>4, <3>5
  <2>6. (t.counter + c) * t.tick = t.counter * t.tick + c * t.tick
    BY <1>1, <2>3
  <2>7. Position(t) = t.counter * t.tick + t.rest + (ee - t.last)
    BY <1>3 DEF Position
  <2>8. Position(u) = u.counter * u.tick + u.rest + (ee - u.last)
    BY <1>3, <2>4 DEF Position
  <2>9. x = t.rest + (ee - t.last)
    BY DEF x
  <2>10. Position(u) = Position(t) /\ Position(u) = u.counter * u.tick + u.rest
    <3>. DEFINE a == t.counter * t.tick
                b == c * t.tick
    <3>1. a \in Int /\ b \in Int
      BY <1>1, <2>3
    <3>2. u.counter * u.tick = a + b
      BY <2>4, <2>6
    <3>3. x = b + r
      BY <2>3
    <3>. HIDE DEF a, b
    <3>4. Position(t) = a + t.rest + (ee - t.last)
      BY <2>7 DEF a
    <3>5. Position(u) = (a + b) + r + (ee - ee)
      BY <2>4, <2>8, <3>2
    <3>6. Position(u) = u.counter * u.tick + u.rest
      BY <1>1, <2>3, <2>4, <3>1, <3>2, <3>5
    <3>7. Position(u) = Position(t)
      <4>1. (a + b) + r + (ee - ee) = a + t.rest + (ee - t.last)
        BY <1>1, <2>3, <2>9, <3>1, <3>3
      <4>. QED BY <3>4, <3>5, <4>1
    <3>. QED BY <3>6, <3>7
  <2>11. Well(u) /\ t.counter <= u.counter
    BY <1>1, <2>3, <2>4, <2>5 DEF Well
  <2>. QED BY <1>3, <2>4, <2>10, <2>11 DEF u
<1>. QED BY <1>1, <1>2, <1>3

-----------------------------------------------------------------------------
(* What the functions on timers do to the list: only the time of their     *)
(* timer's event changes.                                                  *)
HasTime(q, i, time) ==
  \A n \in DOMAIN q.events : IsEventOf(q.events[n], i) => q.events[n].time = time

LEMMA ShiftedSelf == ASSUME NEW q \in ListT, NEW S PROVE Shifted(q, q, S)
PROOF
<1>1. q.closest \in Int
  BY ListIsTyped
<1>. QED BY <1>1 DEF Shifted

LEMMA ShiftedMore ==
  ASSUME NEW q \in ListT, NEW p, NEW r, NEW S, Shifted(q, p, S), Shifted(p, r, S), ee \in Int
  PROVE  Shifted(q, r, S)
PROOF
<1>1. /\ p \in ListT /\ r \in ListT
      /\ q.closest \in Int /\ p.closest \in Int /\ r.closest \in Int
  BY ListIsTyped DEF Shifted
<1>2. r.closest <= q.closest /\ (q.closest <= ee => r.closest = q.closest)
  BY <1>1 DEF Shifted
<1>3. DOMAIN r.events = DOMAIN q.events
  BY DEF Shifted
<1>4. ASSUME NEW n \in DOMAIN q.events
      PROVE  /\ r.events[n].func = q.events[n].func
             /\ r.events[n].param = q.events[n].param
             /\ \/ r.events[n] = q.events[n]
                \/ q.events[n].func = "timer" /\ q.events[n].param \in S
  BY DEF Shifted
<1>. QED BY <1>1, <1>2, <1>3, <1>4 DEF Shifted

LEMMA Retimed ==
  ASSUME NEW q \in ListT, NEW i, NEW time \in Int
  PROVE  LET p == SetEventTime(q, i, time) IN
         /\ p.closest = q.closest
         /\ Shifted(q, p, {i})
         /\ HasTime(p, i, time)
PROOF
<1>. DEFINE Moved(e) == IF IsEventOf(e, i) THEN [e EXCEPT !.time = time] ELSE e
            l == [n \in DOMAIN q.events |-> Moved(q.events[n])]
            p == SetEventTime(q, i, time)
<1>1. /\ q.events \in Seq(EventT) /\ q.closest \in Int
      /\ Len(q.events) \in Nat /\ DOMAIN q.events = 1 .. Len(q.events)
      /\ \A n \in DOMAIN q.events : q.events[n] \in EventT
  BY ListIsTyped
<1>2. p = [q EXCEPT !.events = l]
  BY DEF SetEventTime
<1>3. ASSUME NEW e \in EventT
      PROVE  /\ Moved(e) \in EventT /\ Moved(e).func = e.func /\ Moved(e).param = e.param
             /\ IsEventOf(e, i) => Moved(e).time = time
             /\ ~IsEventOf(e, i) => Moved(e) = e
  <2>1. CASE IsEventOf(e, i)
    BY <2>1 DEF EventT
  <2>2. CASE ~IsEventOf(e, i)
    BY <2>2
  <2>. QED BY <2>1, <2>2
<1>. HIDE DEF Moved
<1>4. l \in Seq(EventT)
  BY <1>1, <1>3
<1>5. DOMAIN l = DOMAIN q.events /\ \A n \in DOMAIN q.events : l[n] = Moved(q.events[n])
  OBVIOUS
<1>. HIDE DEF l, p
<1>6. p \in ListT /\ p.closest = q.closest /\ p.events = l
  BY <1>1, <1>2, <1>4 DEF ListT
<1>7. ASSUME NEW n \in DOMAIN q.events
      PROVE  /\ p.events[n].func = q.events[n].func
             /\ p.events[n].param = q.events[n].param
             /\ IsEventOf(q.events[n], i) => p.events[n].time = time
             /\ \/ p.events[n] = q.events[n]
                \/ q.events[n].func = "timer" /\ q.events[n].param \in {i}
  <2>1. q.events[n] \in EventT /\ p.events[n] = Moved(q.events[n])
    BY <1>1, <1>5, <1>6
  <2>2. CASE IsEventOf(q.events[n], i)
    BY <1>3, <2>1, <2>2 DEF IsEventOf
  <2>3. CASE ~IsEventOf(q.events[n], i)
    BY <1>3, <2>1, <2>3
  <2>. QED BY <2>2, <2>3
<1>8. Shifted(q, p, {i})
  BY <1>1, <1>5, <1>6, <1>7 DEF Shifted
<1>9. HasTime(p, i, time)
  BY <1>5, <1>6, <1>7 DEF HasTime, IsEventOf
<1>. QED BY <1>6, <1>8, <1>9 DEF p

LEMMA Deltas ==
  ASSUME CyclesAssumption, TimersAssumption, NEW t, Well(t)
  PROVE  /\ EventDelta(t) \in Nat
         /\ t.paused = FALSE => EventDelta(t) \in Nat \ {0}
PROOF
<1>1. /\ Never \in Nat /\ Never \div 2 \in Nat /\ Settle \in Nat \ {0} /\ Mask \in Nat
  BY DEF CyclesAssumption, TimersAssumption
<1>2. /\ t.counter \in Nat /\ t.rest \in Nat /\ t.tick \in Nat \ {0} /\ t.target \in Nat
      /\ t.paused \in BOOLEAN
  BY <1>1 DEF Well, TimerState
<1>. DEFINE overflow == IF t.counter > Mask + 1 THEN Never \div 2
                        ELSE (Mask + 1 - t.counter) * t.tick - t.rest
            target == ((t.target - t.counter) % (Mask + 1)) * t.tick - t.rest
<1>3. EventDelta(t) =
        IF t.paused THEN Never \div 2
        ELSE IF t.target <= t.counter THEN Greater(overflow, Settle)
        ELSE Greater(Lesser(overflow, target), Settle)
  BY DEF EventDelta
<1>4. overflow \in Int
  <2>1. (Mask + 1 - t.counter) * t.tick \in Int
    BY <1>1, <1>2
  <2>. QED BY <1>1, <1>2, <2>1
<1>5. target \in Int
  <2>1. (t.target - t.counter) % (Mask + 1) \in Int
    BY <1>1, <1>2
  <2>2. ((t.target - t.counter) % (Mask + 1)) * t.tick \in Int
    BY <1>2, <2>1
  <2>. QED BY <1>2, <2>2
<1>. HIDE DEF overflow, target
<1>6. ASSUME NEW x \in Int PROVE Greater(x, Settle) \in Nat \ {0}
  BY <1>1 DEF Greater
<1>7. Lesser(overflow, target) \in Int
  BY <1>4, <1>5 DEF Lesser
<1>8. /\ Greater(overflow, Settle) \in Nat \ {0}
      /\ Greater(Lesser(overflow, target), Settle) \in Nat \ {0}
  BY <1>4, <1>6, <1>7
<1>9. CASE t.paused = TRUE
  BY <1>1, <1>3, <1>9
<1>10. CASE t.paused = FALSE
  BY <1>3, <1>8, <1>10
<1>. QED BY <1>2, <1>9, <1>10

LEMMA Planned ==
  ASSUME CyclesAssumption, TimersAssumption, ee \in Nat,
         NEW q \in ListT, NEW i, NEW t, Well(t)
  PROVE  LET p == Plan(q, i, t) IN
         /\ Shifted(q, p, {i})
         /\ HasTime(p, i, ee + EventDelta(t))
         /\ p.closest <= ee + EventDelta(t)
PROOF
<1>. DEFINE time == ee + EventDelta(t)
            r == SetEventTime(q, i, time)
            p == Plan(q, i, t)
<1>1. EventDelta(t) \in Nat
  BY Deltas
<1>2. p = [r EXCEPT !.closest = Lesser(time, @)]
  BY DEF Plan
<1>3. time \in Int /\ ee <= time /\ q.closest \in Int
  BY <1>1, ListIsTyped
<1>. HIDE DEF time, p
<1>4. r.closest = q.closest /\ Shifted(q, r, {i}) /\ HasTime(r, i, time)
  BY <1>3, Retimed
<1>. HIDE DEF r
<1>5. r \in ListT
  BY <1>4 DEF Shifted
<1>6. /\ p \in ListT /\ p.events = r.events
      /\ p.closest = IF time < r.closest THEN time ELSE r.closest
  BY <1>2, <1>3, <1>4, <1>5 DEF ListT, Lesser
<1>7. /\ p.closest <= q.closest /\ p.closest <= time
      /\ q.closest <= ee => p.closest = q.closest
  BY <1>3, <1>4, <1>6
<1>8. Shifted(q, p, {i})
  BY <1>4, <1>6, <1>7 DEF Shifted
<1>9. HasTime(p, i, time)
  BY <1>4, <1>6 DEF HasTime
<1>. QED BY <1>7, <1>8, <1>9 DEF p, time

LEMMA PlannedIfRunning ==
  ASSUME CyclesAssumption, TimersAssumption, ee \in Nat,
         NEW q \in ListT, NEW i, NEW t, Well(t)
  PROVE  LET p == PlanIfRunning(q, i, t) IN
         /\ Shifted(q, p, {i})
         /\ t.paused = TRUE => p = q
         /\ t.paused = FALSE => /\ HasTime(p, i, ee + EventDelta(t))
                                /\ p.closest <= ee + EventDelta(t)
PROOF
<1>1. t.paused \in BOOLEAN
  BY DEF Well, TimerState
<1>2. CASE t.paused = TRUE
  BY <1>2, ShiftedSelf DEF PlanIfRunning
<1>3. CASE t.paused = FALSE
  <2>1. PlanIfRunning(q, i, t) = Plan(q, i, t)
    BY <1>3 DEF PlanIfRunning
  <2>. QED BY <1>3, <2>1, Planned
<1>. QED BY <1>1, <1>2, <1>3

(* A paused timer's event never comes, if it was so before.                *)
NeverIfPaused(s, i) == s.t.paused = TRUE => HasTime(s.q, i, Never)

Paused(s, i, r) ==
  /\ Well(r.t)
  /\ Position(r.t) = Position(s.t) /\ r.t.tick = s.t.tick
  /\ r.t.gate = s.t.gate
  /\ Shifted(s.q, r.q, {i})
  /\ NeverIfPaused(s, i) => NeverIfPaused(r, i)

LEMMA PauseSet ==
  ASSUME CyclesAssumption, TimersAssumption, ee \in Nat,
         NEW q \in ListT, NEW i, NEW t, Well(t), NEW paused \in BOOLEAN,
         NEW s, s = [t |-> t, q |-> q], NEW r, r = SetPause(s, i, paused)
  PROVE  Paused(s, i, r)
PROOF
<1>. USE DEF Paused
<1>1. s.t = t /\ s.q = q
  OBVIOUS
<1>2. t \in TimerState /\ t.paused \in BOOLEAN /\ Never \in Int
  BY DEF Well, TimerState, CyclesAssumption
<1>3. CASE paused = t.paused
  <2>1. r = s
    BY <1>1, <1>3 DEF SetPause
  <2>. QED BY <1>1, <1>3, <2>1, ShiftedSelf
<1>4. CASE paused = TRUE /\ t.paused = FALSE
  <2>. DEFINE u == UpdateCounter(t)
              v == [u EXCEPT !.paused = TRUE]
  <2>1. r = [t |-> v, q |-> SetEventTime(q, i, Never)]
    BY <1>1, <1>4 DEF SetPause
  <2>2. /\ Well(u) /\ Position(u) = Position(t)
        /\ Position(u) = u.counter * u.tick + u.rest
        /\ u.tick = t.tick /\ u.gate = t.gate
    BY Updated
  <2>. HIDE DEF u
  <2>3. /\ v \in TimerState /\ v.paused = TRUE /\ v.rest = u.rest /\ v.tick = u.tick
        /\ v.last = u.last /\ v.counter = u.counter /\ v.gate = u.gate
    BY <2>2 DEF Well, TimerState
  <2>4. Well(v)
    BY <2>2, <2>3 DEF Well
  <2>5. Position(v) = Position(u)
    <3>1. Position(v) = v.counter * v.tick + v.rest + 0
      BY <2>3 DEF Position
    <3>2. u.counter * u.tick + u.rest \in Int
      BY <2>2 DEF Well, TimerState
    <3>. QED BY <2>2, <2>3, <3>1, <3>2
  <2>6. r.t = v /\ r.q = SetEventTime(q, i, Never)
    <3>. HIDE DEF v
    <3>. QED BY <2>1
  <2>. HIDE DEF v
  <2>7. Shifted(q, r.q, {i}) /\ HasTime(r.q, i, Never)
    BY <1>2, <2>6, Retimed
  <2>. QED BY <1>4, <2>2, <2>3, <2>4, <2>5, <2>6, <2>7 DEF NeverIfPaused
<1>5. CASE paused = FALSE /\ t.paused = TRUE
  <2>. DEFINE v1 == [t EXCEPT !.paused = FALSE]
              v == [v1 EXCEPT !.last = ee]
  <2>1. r = [t |-> [t EXCEPT !.paused = FALSE, !.last = ee], q |-> Plan(q, i, t)]
    BY <1>1, <1>5 DEF SetPause
  <2>2. v = [t EXCEPT !.paused = FALSE, !.last = ee]
    OBVIOUS
  <2>3. v1 \in TimerState /\ v1.paused = FALSE /\ v1.rest = t.rest /\ v1.tick = t.tick
        /\ v1.counter = t.counter /\ v1.gate = t.gate
    BY <1>2 DEF TimerState
  <2>. HIDE DEF v1
  <2>4. v \in TimerState /\ v.paused = FALSE /\ v.rest = t.rest /\ v.tick = t.tick
        /\ v.last = ee /\ v.counter = t.counter /\ v.gate = t.gate
    BY <2>3 DEF TimerState
  <2>5. Well(v)
    BY <2>4 DEF Well
  <2>6. Position(v) = Position(t)
    <3>1. Position(v) = v.counter * v.tick + v.rest + (ee - v.last)
      BY <2>4 DEF Position
    <3>2. Position(t) = t.counter * t.tick + t.rest + 0
      BY <1>5 DEF Position
    <3>3. t.counter * t.tick + t.rest \in Int
      BY <1>2 DEF TimerState
    <3>. QED BY <2>4, <3>1, <3>2, <3>3
  <2>7. r.t = v /\ r.q = Plan(q, i, t)
    BY <2>1, <2>2
  <2>. HIDE DEF v
  <2>8. Shifted(q, r.q, {i})
    BY <2>7, Planned
  <2>. QED BY <1>5, <2>4, <2>5, <2>6, <2>7, <2>8 DEF NeverIfPaused
<1>. QED BY <1>2, <1>3, <1>4, <1>5

(* gate, for one timer.                                                    *)
GatedOne(t, u, high) ==
  /\ Well(u) /\ u.gate = t.gate /\ u.tick = t.tick
  /\ t.gate = NoGate => u = t
  /\ ~Resets(t, high) => Position(u) = Position(t)

GatedTo(s, i, r, high) ==
  /\ GatedOne(s.t, r.t, high)
  /\ Shifted(s.q, r.q, {i})
  /\ s.t.gate = NoGate => r = s
  /\ NeverIfPaused(s, i) => NeverIfPaused(r, i)

LEMMA Gated ==
  ASSUME CyclesAssumption, TimersAssumption, ee \in Nat,
         NEW q \in ListT, NEW i, NEW t, Well(t), NEW high \in BOOLEAN,
         NEW s, s = [t |-> t, q |-> q], NEW r, r = Gate(s, i, high)
  PROVE  GatedTo(s, i, r, high)
PROOF
<1>. USE DEF GatedTo, GatedOne
<1>1. s.t = t /\ s.q = q
  OBVIOUS
<1>2. t \in TimerState /\ t.paused \in BOOLEAN /\ t.gate \in {NoGate} \cup 0 .. 3
  BY DEF Well, TimerState
<1>3. CASE t.gate = NoGate
  <2>1. r = s
    BY <1>1, <1>3 DEF Gate
  <2>. QED BY <1>1, <1>3, <2>1, ShiftedSelf
<1>4. CASE t.gate # NoGate
  <2>. DEFINE u == IF Resets(t, high) THEN SetCounter(t, 0) ELSE t
              g == (t.gate = 0 /\ high)
              v == [u EXCEPT !.gated = g]
              p == IF Resets(t, high) THEN PlanIfRunning(q, i, v) ELSE q
              paused == ~(v.enabled /\ ~v.gated)
  <2>1. r = SetPause([t |-> v, q |-> p], i, paused)
    BY <1>1, <1>4 DEF Gate
  <2>2. /\ Well(u) /\ u.paused = t.paused /\ u.tick = t.tick /\ u.gate = t.gate
        /\ ~Resets(t, high) => u = t
    <3>1. CASE Resets(t, high)
      <4>. DEFINE w == UpdateCounter(t)
      <4>1. Well(w) /\ w.paused = t.paused /\ w.tick = t.tick /\ w.gate = t.gate
        BY Updated
      <4>2. u = [w EXCEPT !.counter = 0]
        BY <3>1 DEF SetCounter
      <4>. HIDE DEF w, u
      <4>3. u \in TimerState
        BY <4>1, <4>2 DEF Well, TimerState
      <4>4. u.paused = w.paused /\ u.tick = w.tick /\ u.gate = w.gate
            /\ u.rest = w.rest /\ u.last = w.last
        BY <4>1, <4>2 DEF Well, TimerState
      <4>. QED BY <3>1, <4>1, <4>3, <4>4 DEF Well
    <3>2. CASE ~Resets(t, high)
      BY <3>2
    <3>. QED BY <3>1, <3>2
  <2>. HIDE DEF u
  <2>3. g \in BOOLEAN
    OBVIOUS
  <2>. HIDE DEF g
  <2>4. /\ v \in TimerState /\ v.paused = u.paused /\ v.tick = u.tick /\ v.gate = u.gate
        /\ v.rest = u.rest /\ v.last = u.last /\ v.counter = u.counter
    BY <2>2, <2>3 DEF Well, TimerState
  <2>. HIDE DEF v
  <2>5. Well(v) /\ paused \in BOOLEAN
    BY <2>2, <2>4 DEF Well, TimerState
  <2>. HIDE DEF paused
  <2>6. p \in ListT /\ Shifted(q, p, {i}) /\ (v.paused = TRUE => p = q)
    <3>1. CASE Resets(t, high)
      <4>1. p = PlanIfRunning(q, i, v)
        BY <3>1
      <4>. HIDE DEF p
      <4>2. Shifted(q, p, {i}) /\ (v.paused = TRUE => p = q)
        BY <2>5, <4>1, PlannedIfRunning
      <4>. QED BY <4>2 DEF Shifted
    <3>2. CASE ~Resets(t, high)
      BY <3>2, ShiftedSelf
    <3>. QED BY <3>1, <3>2
  <2>. HIDE DEF p
  <2>7. /\ Well(r.t)
        /\ Position(r.t) = Position(v) /\ r.t.tick = v.tick /\ r.t.gate = v.gate
        /\ Shifted(p, r.q, {i})
        /\ NeverIfPaused([t |-> v, q |-> p], i) => NeverIfPaused(r, i)
    <3>. DEFINE z == [t |-> v, q |-> p]
    <3>1. p \in ListT
      BY <2>6
    <3>a. PICK b \in BOOLEAN : b = paused
      BY <2>5
    <3>2. z = [t |-> v, q |-> p] /\ r = SetPause(z, i, b)
      BY <2>1, <3>a
    <3>. HIDE DEF z
    <3>3. /\ Well(r.t)
          /\ Position(r.t) = Position(v) /\ r.t.tick = v.tick /\ r.t.gate = v.gate
          /\ Shifted(p, r.q, {i})
          /\ NeverIfPaused(z, i) => NeverIfPaused(r, i)
      <4>1. z.t = v /\ z.q = p
        BY DEF z
      <4>2. Paused(z, i, r)
        BY <2>5, <3>1, <3>2, PauseSet, ZenonT(60)
      <4>. QED BY <4>1, <4>2 DEF Paused
    <3>. QED BY <3>3 DEF z
  <2>8. Shifted(q, r.q, {i})
    BY <2>6, <2>7, ShiftedMore
  <2>9. ASSUME ~Resets(t, high) PROVE Position(r.t) = Position(t)
    <3>1. u = t
      BY <2>2, <2>9
    <3>2. Position(v) = Position(t)
      BY <2>4, <3>1 DEF Position
    <3>. QED BY <2>7, <3>2
  <2>10. ASSUME NeverIfPaused(s, i) PROVE NeverIfPaused(r, i)
    <3>1. NeverIfPaused([t |-> v, q |-> p], i)
      BY <1>1, <2>2, <2>4, <2>6, <2>10 DEF NeverIfPaused
    <3>. QED BY <2>7, <3>1
  <2>. QED BY <1>1, <1>4, <2>2, <2>4, <2>7, <2>8, <2>9, <2>10
<1>. QED BY <1>3, <1>4

-----------------------------------------------------------------------------
(* The inductive invariant.  A timer that a gate has controlled and that   *)
(* runs is the exception to the bounds on the times in the list.           *)
Astray(ts, st) == {i \in st : ts[i].paused = FALSE}

HasEnd(q) == \E n \in DOMAIN q.events : q.events[n].func = "vblank_end"

(* A frame that has begun ends before the counters of cycles overflow.     *)
Ending(q) ==
  /\ frameStart < Horizon \/ (ee = 0 /\ frameEnded = TRUE)
  /\ frameEnded = FALSE => HasEnd(q)

Bounds(q, A) ==
  /\ Since(q, A, ee)
  /\ q.closest <= Never /\ newTime <= Never
  /\ at = "events" => q.closest <= ee /\ SinceBefore(q, A, it, newTime)
  /\ at # "events" => Since(q, A, q.closest)

TInv ==
  /\ TimersTypeOK /\ ClocksAgree
  /\ \A i \in TimerIds : timers[i].rest < timers[i].tick /\ timers[i].last <= ee
  /\ OneEach(queue) /\ PausedNever(queue, timers)
  /\ \A i \in TimerIds : timers[i].gate # NoGate => i \in strayed
  /\ Bounds(queue, Astray(timers, strayed))
  /\ FrameInv /\ Ending(queue)

LEMMA TFacts ==
  ASSUME CyclesAssumption, TimersAssumption, TInv
  PROVE  /\ queue \in ListT /\ ee \in Nat /\ newTime \in Int /\ it \in Nat \ {0}
         /\ frameStart \in Nat /\ frameEnded \in BOOLEAN /\ strayed \subseteq TimerIds
         /\ at \in {"frame", "loop", "components", "events"}
         /\ timers \in [TimerIds -> TimerState]
         /\ \A i \in TimerIds : Well(timers[i]) /\ timers[i] \in TimerState
                                /\ timers[i].paused \in BOOLEAN
         /\ Never \in Nat /\ ee < Never
         /\ FrameCycles \in Nat /\ Horizon \in Nat
PROOF
<1>1. /\ queue \in ListT /\ ee \in Nat /\ newTime \in Int /\ it \in Nat \ {0}
      /\ frameStart \in Nat /\ frameEnded \in BOOLEAN /\ strayed \subseteq TimerIds
      /\ at \in {"frame", "loop", "components", "events"}
      /\ timers \in [TimerIds -> TimerState]
  BY DEF TInv, TimersTypeOK, ListT, EventT
<1>2. ASSUME NEW i \in TimerIds
      PROVE  Well(timers[i]) /\ timers[i] \in TimerState /\ timers[i].paused \in BOOLEAN
  <2>1. timers[i] \in TimerState
    BY <1>1
  <2>2. timers[i].paused \in BOOLEAN
    BY <2>1 DEF TimerState
  <2>. QED BY <2>1, <2>2 DEF TInv, Well
<1>3. /\ Never \in Nat /\ Never > 0 /\ FrameCycles \in Nat /\ Horizon \in Nat
      /\ Horizon + FrameCycles <= Never
  BY DEF CyclesAssumption, TimersAssumption
<1>4. ee < Never
  <2>1. CASE frameEnded = TRUE
    <3>1. ee = 0 \/ ee = frameStart + FrameCycles
      BY <2>1 DEF TInv, FrameInv
    <3>2. frameStart < Horizon \/ ee = 0
      BY DEF TInv, Ending
    <3>. QED BY <1>1, <1>3, <3>1, <3>2
  <2>2. CASE frameEnded = FALSE
    <3>1. PICK n \in DOMAIN queue.events : queue.events[n].func = "vblank_end"
      BY <2>2 DEF TInv, Ending, HasEnd
    <3>2. queue.events[n].time = frameStart + FrameCycles
      BY <3>1 DEF TInv, FrameInv, Blanks
    <3>3. ee <= queue.events[n].time
      BY <3>1 DEF TInv, Bounds, Since, Exempt
    <3>4. frameStart < Horizon
      BY <2>2 DEF TInv, Ending
    <3>. QED BY <1>1, <1>3, <3>2, <3>3, <3>4
  <2>. QED BY <1>1, <2>1, <2>2
<1>. QED BY <1>1, <1>2, <1>3, <1>4

(* The invariant in the next state, of the values that the variables have  *)
(* there.                                                                  *)
LEMMA Primed ==
  ASSUME TimersTypeOK', ClocksAgree',
         \A i \in TimerIds : timers'[i].rest < timers'[i].tick /\ timers'[i].last <= ee',
         OneEach(queue'), PausedNever(queue', timers'),
         \A i \in TimerIds : timers'[i].gate # NoGate => i \in strayed',
         NEW A, A = Astray(timers', strayed'),
         Since(queue', A, ee'), queue'.closest <= Never, newTime' <= Never,
         at' = "events" => queue'.closest <= ee' /\ SinceBefore(queue', A, it', newTime'),
         at' # "events" => Since(queue', A, queue'.closest),
         Blanks(queue', frameStart'),
         frameEnded' = TRUE => NoStart(queue') /\ NoEnd(queue'),
         frameEnded' = TRUE => ee' = 0 \/ ee' = frameStart' + FrameCycles,
         at' \in {"loop", "components"} => frameEnded' = FALSE,
         at' = "frame" => frameEnded' = TRUE,
         frameStart' < Horizon \/ (ee' = 0 /\ frameEnded' = TRUE),
         frameEnded' = FALSE => HasEnd(queue')
  PROVE  TInv'
PROOF
<1>1. frameEnded' \in BOOLEAN
  BY DEF TimersTypeOK
<1>2. OneEach(queue)' /\ PausedNever(queue, timers)'
  BY DEF OneEach, PausedNever, IsEventOf
<1>3. A = Astray(timers, strayed)'
  BY DEF Astray
<1>4. Bounds(queue, Astray(timers, strayed))'
  <2>1. Since(queue, Astray(timers, strayed), ee)'
    BY <1>3 DEF Since, Exempt
  <2>2. ASSUME at' = "events"
        PROVE  (queue.closest <= ee /\ SinceBefore(queue, Astray(timers, strayed), it, newTime))'
    BY <1>3, <2>2 DEF SinceBefore, Exempt
  <2>3. ASSUME at' # "events"
        PROVE  Since(queue, Astray(timers, strayed), queue.closest)'
    BY <1>3, <2>3 DEF Since, Exempt
  <2>. QED BY <2>1, <2>2, <2>3 DEF Bounds
<1>5. FrameInv'
  <2>1. Blanks(queue, frameStart)'
    BY DEF Blanks
  <2>2. frameEnded' = TRUE => (NoStart(queue) /\ NoEnd(queue))'
    BY DEF NoStart, NoEnd
  <2>. QED BY <1>1, <2>1, <2>2 DEF FrameInv
<1>6. Ending(queue)'
  <2>1. frameEnded' = FALSE => HasEnd(queue)'
    BY DEF HasEnd
  <2>. QED BY <2>1 DEF Ending
<1>. QED BY <1>2, <1>4, <1>5, <1>6 DEF TInv

(* The steps that leave the list as it is.                                 *)
LEMMA ClocksRun ==
  ASSUME CyclesAssumption, ee \in Nat, queue.closest \in Int, ClocksAgree, RunCycles,
         bus \in [count : Nat, remainder : Nat], iop \in [count : Nat, remainder : Nat],
         given \in [bus : Nat, iop : Nat]
  PROVE  /\ ClocksAgree'
         /\ bus' \in [count : Nat, remainder : Nat] /\ iop' \in [count : Nat, remainder : Nat]
         /\ given' \in [bus : Nat, iop : Nat]
         /\ ee' \in Nat /\ run' \in Nat /\ ee' = ee + run'
         /\ run' = 0 \/ ee' <= queue.closest
PROOF
<1>. DEFINE n == RunCyclesFor(queue.closest)
<1>1. n \in Nat /\ (n = 0 \/ ee + n <= queue.closest)
  BY RunLength
<1>2. /\ run' = n /\ ee' = ee + n
      /\ bus' = UpdateCount(bus, n, 2) /\ iop' = UpdateCount(iop, n, 8)
      /\ given' = [bus |-> given.bus + BusRunCycles(n),
                   iop |-> given.iop + IopRunCycles(n)]
  BY DEF RunCycles
<1>. HIDE DEF n
<1>3. /\ ee = 2 * bus.count + bus.remainder /\ bus.remainder \in 0 .. 1
      /\ ee = 8 * iop.count + iop.remainder /\ iop.remainder \in 0 .. 7
      /\ given.bus = bus.count /\ given.iop = iop.count
  BY DEF ClocksAgree
<1>4. /\ bus' \in [count : Nat, remainder : Nat]
      /\ ee' = 2 * bus'.count + bus'.remainder /\ bus'.remainder \in 0 .. 1
      /\ BusRunCycles(n) \in Nat /\ bus'.count = bus.count + BusRunCycles(n)
  BY <1>1, <1>2, <1>3, BusClock
<1>5. /\ iop' \in [count : Nat, remainder : Nat]
      /\ ee' = 8 * iop'.count + iop'.remainder /\ iop'.remainder \in 0 .. 7
      /\ IopRunCycles(n) \in Nat /\ iop'.count = iop.count + IopRunCycles(n)
  BY <1>1, <1>2, <1>3, IopClock
<1>6. ClocksAgree'
  BY <1>2, <1>3, <1>4, <1>5 DEF ClocksAgree
<1>7. given' \in [bus : Nat, iop : Nat] /\ ee' \in Nat
  BY <1>1, <1>2, <1>4, <1>5
<1>. QED BY <1>1, <1>2, <1>4, <1>5, <1>6, <1>7

LEMMA PositionIsNat ==
  ASSUME ee \in Nat, NEW t, Well(t) PROVE Position(t) \in Nat
PROOF
<1>1. /\ t.counter \in Nat /\ t.tick \in Nat /\ t.rest \in Nat /\ t.last \in Nat
      /\ t.last <= ee /\ t.paused \in BOOLEAN
  BY DEF Well, TimerState
<1>2. t.counter * t.tick \in Nat
  BY <1>1
<1>3. ee - t.last \in Nat
  BY <1>1
<1>. QED BY <1>1, <1>2, <1>3 DEF Position

LEMMA RunTimersKeeps ==
  ASSUME CyclesAssumption, TimersAssumption, TInv, RunTimers PROVE TInv'
PROOF
<1>1. /\ queue \in ListT /\ ee \in Nat /\ frameEnded \in BOOLEAN
      /\ timers \in [TimerIds -> TimerState]
      /\ \A i \in TimerIds : timers[i] \in TimerState
  BY TFacts
<1>2. RunCycles /\ UNCHANGED <<timers, writes, strayed>>
  BY DEF RunTimers
<1>3. /\ at = "loop" /\ at' = "components" /\ frameEnded = FALSE
      /\ UNCHANGED <<queue, it, newTime, frameEnded, frameStart>>
  BY <1>1, <1>2 DEF RunCycles
<1>4. queue.closest \in Int /\ \A n \in DOMAIN queue.events : queue.events[n].time \in Int
  BY <1>1, ListIsTyped
<1>5. /\ ClocksAgree'
      /\ bus' \in [count : Nat, remainder : Nat] /\ iop' \in [count : Nat, remainder : Nat]
      /\ given' \in [bus : Nat, iop : Nat]
      /\ ee' \in Nat /\ run' \in Nat /\ ee' = ee + run'
      /\ run' = 0 \/ ee' <= queue.closest
  <2>1. /\ bus \in [count : Nat, remainder : Nat] /\ iop \in [count : Nat, remainder : Nat]
        /\ given \in [bus : Nat, iop : Nat] /\ ClocksAgree
    BY DEF TInv, TimersTypeOK
  <2>. QED BY <1>1, <1>2, <1>4, <2>1, ClocksRun
<1>6. ideal' \in [TimerIds -> Nat] /\ owed' \in [TimerIds -> SUBSET {"compare", "overflow"}]
  <2>1. ideal \in [TimerIds -> Nat] /\ owed \in [TimerIds -> SUBSET {"compare", "overflow"}]
    BY DEF TInv, TimersTypeOK
  <2>2. ASSUME NEW i \in TimerIds
        PROVE  ideal[i] + (IF timers[i].paused THEN 0 ELSE run') \in Nat
    BY <1>5, <2>1
  <2>3. ideal' \in [TimerIds -> Nat]
    BY <2>2 DEF RunTimers
  <2>4. owed' \in [TimerIds -> SUBSET {"compare", "overflow"}]
    BY <2>1 DEF RunTimers
  <2>. QED BY <2>3, <2>4
<1>7. TimersTypeOK'
  BY <1>2, <1>3, <1>5, <1>6 DEF TInv, TimersTypeOK
<1>. DEFINE A == Astray(timers, strayed)
<1>8. A = Astray(timers', strayed')
  BY <1>2
<1>. HIDE DEF A
<1>9. Since(queue, A, ee) /\ Since(queue, A, queue.closest)
      /\ queue.closest <= Never /\ newTime <= Never
  BY <1>3 DEF TInv, Bounds, A
<1>10. Since(queue, A, ee')
  <2>1. SUFFICES ASSUME NEW n \in DOMAIN queue.events
                 PROVE  Exempt(queue.events[n], A) \/ ee' <= queue.events[n].time
    BY DEF Since
  <2>2. Exempt(queue.events[n], A) \/ (/\ ee <= queue.events[n].time
                                       /\ queue.closest <= queue.events[n].time)
    BY <1>9 DEF Since
  <2>. QED BY <1>1, <1>4, <1>5, <2>2
<1>11. \A i \in TimerIds : timers'[i].rest < timers'[i].tick /\ timers'[i].last <= ee'
  <2>1. ASSUME NEW i \in TimerIds PROVE timers[i].last \in Nat /\ timers[i].last <= ee
    BY <1>1 DEF TInv, TimerState
  <2>. QED BY <1>1, <1>2, <1>5, <2>1 DEF TInv
<1>12. /\ OneEach(queue') /\ PausedNever(queue', timers')
       /\ \A i \in TimerIds : timers'[i].gate # NoGate => i \in strayed'
  BY <1>2, <1>3 DEF TInv
<1>13. /\ Blanks(queue', frameStart')
       /\ frameStart' < Horizon \/ (ee' = 0 /\ frameEnded' = TRUE)
       /\ frameEnded' = FALSE => HasEnd(queue')
  BY <1>3 DEF TInv, FrameInv, Ending
<1>14. Since(queue', A, ee') /\ Since(queue', A, queue'.closest)
       /\ queue'.closest <= Never /\ newTime' <= Never
  BY <1>3, <1>9, <1>10
<1>. QED BY <1>3, <1>5, <1>7, <1>8, <1>11, <1>12, <1>13, <1>14, Primed

LEMMA BeginPassKeeps ==
  ASSUME CyclesAssumption, TimersAssumption, TInv, BeginPass, UNCHANGED timerVars PROVE TInv'
PROOF
<1>1. /\ queue \in ListT /\ ee \in Nat /\ frameEnded \in BOOLEAN /\ Never \in Nat
      /\ newTime \in Int /\ it \in Nat \ {0}
  BY TFacts
<1>2. UNCHANGED <<clocks, queue, frameEnded, frameStart>> /\ at = "components"
      /\ UNCHANGED timerVars
  BY DEF BeginPass
<1>3. /\ \/ ee >= queue.closest /\ at' = "events" /\ it' = 1 /\ newTime' = Never
         \/ at' = "loop" /\ it' = it /\ newTime' = newTime
  BY DEF BeginPass
<1>4. queue.closest \in Int /\ DOMAIN queue.events \subseteq Nat \ {0}
      /\ \A n \in DOMAIN queue.events : queue.events[n].time \in Int
  BY <1>1, ListIsTyped
<1>5. TimersTypeOK'
  <2>1. TimersTypeOK
    BY DEF TInv
  <2>2. /\ ee' = ee /\ run' = run /\ bus' = bus /\ iop' = iop /\ given' = given
        /\ queue' = queue /\ frameEnded' = frameEnded /\ frameStart' = frameStart
        /\ timers' = timers /\ writes' = writes /\ ideal' = ideal /\ owed' = owed
        /\ strayed' = strayed
    BY <1>2 DEF clocks, timerVars
  <2>3. at' \in {"events", "loop"} /\ it' \in Nat \ {0} /\ newTime' \in Int
    BY <1>1, <1>3
  <2>. QED BY <2>1, <2>2, <2>3 DEF TimersTypeOK
<1>6. ClocksAgree'
  BY <1>2 DEF TInv, ClocksAgree, clocks
<1>. DEFINE A == Astray(timers, strayed)
<1>7. A = Astray(timers', strayed')
  BY <1>2 DEF timerVars
<1>. HIDE DEF A
<1>8. Since(queue, A, ee) /\ Since(queue, A, queue.closest)
      /\ queue.closest <= Never /\ newTime <= Never /\ newTime' <= Never
  BY <1>1, <1>2, <1>3 DEF TInv, Bounds, A
<1>9. /\ \A i \in TimerIds : timers'[i].rest < timers'[i].tick /\ timers'[i].last <= ee'
      /\ OneEach(queue') /\ PausedNever(queue', timers')
      /\ \A i \in TimerIds : timers'[i].gate # NoGate => i \in strayed'
  BY <1>2 DEF TInv, clocks, timerVars
<1>10. /\ Blanks(queue', frameStart')
       /\ frameStart' < Horizon \/ (ee' = 0 /\ frameEnded' = TRUE)
       /\ frameEnded' = FALSE => HasEnd(queue')
       /\ frameEnded' = FALSE
  BY <1>1, <1>2 DEF TInv, FrameInv, Ending, clocks
<1>11. /\ Since(queue', A, ee') /\ Since(queue', A, queue'.closest)
       /\ queue'.closest <= Never
       /\ at' = "events" => queue'.closest <= ee'
  BY <1>1, <1>2, <1>3, <1>4, <1>8 DEF clocks
<1>12. ASSUME at' = "events" PROVE SinceBefore(queue', A, it', newTime')
  BY <1>2, <1>3, <1>4, <1>12 DEF SinceBefore
<1>. QED BY <1>3, <1>5, <1>6, <1>7, <1>8, <1>9, <1>10, <1>11, <1>12, Primed

LEMMA SkipEventKeeps ==
  ASSUME CyclesAssumption, TimersAssumption, TInv, SkipEvent, UNCHANGED timerVars PROVE TInv'
PROOF
<1>1. /\ queue \in ListT /\ ee \in Nat /\ frameEnded \in BOOLEAN /\ Never \in Nat
      /\ newTime \in Int /\ it \in Nat \ {0}
  BY TFacts
<1>2. /\ UNCHANGED <<clocks, queue, at, frameEnded, frameStart>> /\ at = "events"
      /\ it \in DOMAIN queue.events /\ it' = it + 1
      /\ newTime' = Lesser(queue.events[it].time, newTime)
      /\ UNCHANGED timerVars
  BY DEF SkipEvent
<1>3. queue.closest \in Int /\ DOMAIN queue.events \subseteq Nat \ {0}
      /\ \A n \in DOMAIN queue.events : queue.events[n].time \in Int
  BY <1>1, ListIsTyped
<1>4. newTime' \in Int /\ newTime' <= newTime /\ newTime' <= queue.events[it].time
  <2>1. queue.events[it].time \in Int
    BY <1>2, <1>3
  <2>. QED BY <1>1, <1>2, <2>1 DEF Lesser
<1>5. TimersTypeOK'
  <2>1. TimersTypeOK
    BY DEF TInv
  <2>2. /\ ee' = ee /\ run' = run /\ bus' = bus /\ iop' = iop /\ given' = given
        /\ queue' = queue /\ frameEnded' = frameEnded /\ frameStart' = frameStart
        /\ timers' = timers /\ writes' = writes /\ ideal' = ideal /\ owed' = owed
        /\ strayed' = strayed
    BY <1>2 DEF clocks, timerVars
  <2>3. at' = at /\ it' \in Nat \ {0} /\ newTime' \in Int
    BY <1>1, <1>2, <1>4
  <2>. QED BY <2>1, <2>2, <2>3 DEF TimersTypeOK
<1>6. ClocksAgree'
  BY <1>2 DEF TInv, ClocksAgree, clocks
<1>. DEFINE A == Astray(timers, strayed)
<1>7. A = Astray(timers', strayed')
  BY <1>2 DEF timerVars
<1>. HIDE DEF A
<1>8. Since(queue, A, ee) /\ SinceBefore(queue, A, it, newTime)
      /\ queue.closest <= Never /\ newTime <= Never /\ queue.closest <= ee
  BY <1>1, <1>2 DEF TInv, Bounds, A
<1>9. /\ \A i \in TimerIds : timers'[i].rest < timers'[i].tick /\ timers'[i].last <= ee'
      /\ OneEach(queue') /\ PausedNever(queue', timers')
      /\ \A i \in TimerIds : timers'[i].gate # NoGate => i \in strayed'
  BY <1>2 DEF TInv, clocks, timerVars
<1>10. /\ Blanks(queue', frameStart')
       /\ frameStart' < Horizon \/ (ee' = 0 /\ frameEnded' = TRUE)
       /\ frameEnded' = FALSE => HasEnd(queue')
       /\ frameEnded' = TRUE => NoStart(queue') /\ NoEnd(queue')
       /\ frameEnded' = TRUE => ee' = 0 \/ ee' = frameStart' + FrameCycles
  BY <1>1, <1>2 DEF TInv, FrameInv, Ending, clocks
<1>11. /\ Since(queue', A, ee') /\ queue'.closest <= ee'
       /\ queue'.closest <= Never
  BY <1>2, <1>8 DEF clocks
<1>12. SinceBefore(queue', A, it', newTime')
  <2>1. SUFFICES ASSUME NEW n \in DOMAIN queue.events, n < it + 1
                 PROVE  Exempt(queue.events[n], A) \/ newTime' <= queue.events[n].time
    BY <1>2 DEF SinceBefore
  <2>2. CASE n < it
    <3>1. Exempt(queue.events[n], A) \/ newTime <= queue.events[n].time
      BY <1>8, <2>2 DEF SinceBefore
    <3>. QED BY <1>1, <1>3, <1>4, <3>1
  <2>3. CASE ~(n < it)
    <3>1. n = it
      BY <1>1, <1>3, <2>1, <2>3
    <3>. QED BY <1>4, <3>1
  <2>. QED BY <2>2, <2>3
<1>13. newTime' <= Never
  BY <1>1, <1>4, <1>8
<1>. QED BY <1>2, <1>5, <1>6, <1>7, <1>9, <1>10, <1>11, <1>12, <1>13, Primed

LEMMA EndPassKeeps ==
  ASSUME CyclesAssumption, TimersAssumption, TInv, EndPass, UNCHANGED timerVars PROVE TInv'
PROOF
<1>1. /\ queue \in ListT /\ ee \in Nat /\ frameEnded \in BOOLEAN /\ Never \in Nat
      /\ newTime \in Int /\ it \in Nat \ {0}
  BY TFacts
<1>2. /\ UNCHANGED <<clocks, it, newTime, frameEnded, frameStart>> /\ at = "events"
      /\ it \notin DOMAIN queue.events
      /\ queue' = [queue EXCEPT !.closest = newTime]
      /\ at' = IF frameEnded THEN "frame" ELSE "loop"
      /\ UNCHANGED timerVars
  BY DEF EndPass
<1>3. /\ Len(queue.events) \in Nat /\ DOMAIN queue.events = 1 .. Len(queue.events)
  BY <1>1, ListIsTyped
<1>4. queue' \in ListT /\ queue'.events = queue.events /\ queue'.closest = newTime
  BY <1>1, <1>2 DEF ListT
<1>5. TimersTypeOK'
  BY <1>1, <1>2, <1>4 DEF TInv, TimersTypeOK, clocks, timerVars, ListT, EventT
<1>6. ClocksAgree'
  BY <1>2 DEF TInv, ClocksAgree, clocks
<1>. DEFINE A == Astray(timers, strayed)
<1>7. A = Astray(timers', strayed')
  BY <1>2 DEF timerVars
<1>. HIDE DEF A
<1>8. Since(queue, A, ee) /\ SinceBefore(queue, A, it, newTime) /\ newTime <= Never
  BY <1>1, <1>2 DEF TInv, Bounds, A
<1>9. /\ \A i \in TimerIds : timers'[i].rest < timers'[i].tick /\ timers'[i].last <= ee'
      /\ \A i \in TimerIds : timers'[i].gate # NoGate => i \in strayed'
  BY <1>2 DEF TInv, clocks, timerVars
<1>10. OneEach(queue') /\ PausedNever(queue', timers')
  <2>1. OneEach(queue) /\ PausedNever(queue, timers) /\ timers' = timers
    BY <1>2 DEF TInv, timerVars
  <2>. QED BY <1>4, <2>1 DEF OneEach, PausedNever
<1>11. /\ Blanks(queue', frameStart')
       /\ frameStart' < Horizon \/ (ee' = 0 /\ frameEnded' = TRUE)
       /\ frameEnded' = FALSE => HasEnd(queue')
       /\ frameEnded' = TRUE => NoStart(queue') /\ NoEnd(queue')
       /\ frameEnded' = TRUE => ee' = 0 \/ ee' = frameStart' + FrameCycles
  <2>1. /\ Blanks(queue, frameStart)
        /\ frameStart < Horizon \/ (ee = 0 /\ frameEnded = TRUE)
        /\ frameEnded = FALSE => HasEnd(queue)
        /\ frameEnded = TRUE => NoStart(queue) /\ NoEnd(queue)
        /\ frameEnded = TRUE => ee = 0 \/ ee = frameStart + FrameCycles
    BY DEF TInv, FrameInv, Ending
  <2>2. ee' = ee /\ frameStart' = frameStart /\ frameEnded' = frameEnded
    BY <1>2 DEF clocks
  <2>. QED BY <1>4, <2>1, <2>2 DEF Blanks, NoStart, NoEnd, HasEnd
<1>12. Since(queue', A, ee')
  BY <1>2, <1>4, <1>8 DEF Since, clocks
<1>13. Since(queue', A, queue'.closest)
  <2>1. ASSUME NEW n \in DOMAIN queue.events PROVE n < it
    <3>. DEFINE m == Len(queue.events)
    <3>1. m \in Nat /\ n \in 1 .. m /\ it \notin 1 .. m
      BY <1>2, <1>3
    <3>. HIDE DEF m
    <3>. QED BY <1>1, <3>1
  <2>. QED BY <1>4, <1>8, <2>1 DEF Since, SinceBefore
<1>14. /\ at' = "frame" => frameEnded' = TRUE
       /\ at' \in {"loop", "components"} => frameEnded' = FALSE
       /\ at' # "events" /\ queue'.closest <= Never /\ newTime' <= Never
  BY <1>1, <1>2, <1>4, <1>8
<1>. QED BY <1>5, <1>6, <1>7, <1>9, <1>10, <1>11, <1>12, <1>13, <1>14, Primed

LEMMA IdleKeeps ==
  ASSUME TInv, UNCHANGED allVars PROVE TInv'
PROOF
<1>1. UNCHANGED <<ee, bus, iop, run, given, queue, at, it, newTime, frameEnded, frameStart,
                  timers, writes, ideal, owed, strayed>>
  BY DEF allVars, schedulerVars, timerVars, clocks, pass
<1>2. TimersTypeOK' /\ ClocksAgree'
  BY <1>1 DEF TInv, TimersTypeOK, ClocksAgree
<1>. DEFINE A == Astray(timers, strayed)
<1>3. A = Astray(timers', strayed')
  BY <1>1
<1>. HIDE DEF A
<1>4. /\ Since(queue, A, ee) /\ queue.closest <= Never /\ newTime <= Never
      /\ at = "events" => queue.closest <= ee /\ SinceBefore(queue, A, it, newTime)
      /\ at # "events" => Since(queue, A, queue.closest)
  BY DEF TInv, Bounds, A
<1>5. /\ \A i \in TimerIds : timers[i].rest < timers[i].tick /\ timers[i].last <= ee
      /\ OneEach(queue) /\ PausedNever(queue, timers)
      /\ \A i \in TimerIds : timers[i].gate # NoGate => i \in strayed
  BY DEF TInv
<1>6. /\ Blanks(queue, frameStart)
      /\ frameEnded = TRUE => NoStart(queue) /\ NoEnd(queue)
      /\ frameEnded = TRUE => ee = 0 \/ ee = frameStart + FrameCycles
      /\ at \in {"loop", "components"} => frameEnded = FALSE
      /\ at = "frame" => frameEnded = TRUE
      /\ frameStart < Horizon \/ (ee = 0 /\ frameEnded = TRUE)
      /\ frameEnded = FALSE => HasEnd(queue)
  BY DEF TInv, FrameInv, Ending, TimersTypeOK
<1>. QED BY <1>1, <1>2, <1>3, <1>4, <1>5, <1>6, Primed

LEMMA ReadCounterKeeps ==
  ASSUME CyclesAssumption, TimersAssumption, TInv, NEW i \in TimerIds, ReadCounter(i)
  PROVE  TInv'
PROOF
<1>1. /\ queue \in ListT /\ ee \in Nat /\ strayed \subseteq TimerIds
      /\ timers \in [TimerIds -> TimerState]
      /\ \A j \in TimerIds : Well(timers[j]) /\ timers[j] \in TimerState
  BY TFacts
<1>. DEFINE u == UpdateCounter(timers[i])
<1>2. /\ UNCHANGED <<ee, bus, iop, run, given, queue, at, it, newTime, frameEnded, frameStart,
                     writes, ideal, owed, strayed>>
      /\ timers' = [timers EXCEPT ![i] = u]
  BY DEF ReadCounter, schedulerVars, clocks, pass
<1>3. /\ Well(u) /\ u.paused = timers[i].paused /\ u.gate = timers[i].gate
      /\ u.tick = timers[i].tick /\ (timers[i].paused = FALSE => u.last = ee)
  BY <1>1, Updated
<1>. HIDE DEF u
<1>4. timers' \in [TimerIds -> TimerState]
  BY <1>1, <1>2, <1>3 DEF Well
<1>5. \A j \in TimerIds : /\ Well(timers'[j])
                          /\ timers'[j].paused = timers[j].paused
                          /\ timers'[j].gate = timers[j].gate
  BY <1>1, <1>2, <1>3
<1>6. TimersTypeOK' /\ ClocksAgree'
  BY <1>2, <1>4 DEF TInv, TimersTypeOK, ClocksAgree
<1>. DEFINE A == Astray(timers, strayed)
<1>7. A = Astray(timers', strayed')
  BY <1>1, <1>2, <1>5 DEF Astray
<1>. HIDE DEF A
<1>8. /\ Since(queue, A, ee) /\ queue.closest <= Never /\ newTime <= Never
      /\ at = "events" => queue.closest <= ee /\ SinceBefore(queue, A, it, newTime)
      /\ at # "events" => Since(queue, A, queue.closest)
  BY DEF TInv, Bounds, A
<1>9. /\ OneEach(queue) /\ PausedNever(queue, timers')
      /\ \A j \in TimerIds : timers'[j].gate # NoGate => j \in strayed
  BY <1>5 DEF TInv, PausedNever, OneEach
<1>10. \A j \in TimerIds : timers'[j].rest < timers'[j].tick /\ timers'[j].last <= ee
  BY <1>5 DEF Well
<1>11. /\ Blanks(queue, frameStart)
       /\ frameEnded = TRUE => NoStart(queue) /\ NoEnd(queue)
       /\ frameEnded = TRUE => ee = 0 \/ ee = frameStart + FrameCycles
       /\ at \in {"loop", "components"} => frameEnded = FALSE
       /\ at = "frame" => frameEnded = TRUE
       /\ frameStart < Horizon \/ (ee = 0 /\ frameEnded = TRUE)
       /\ frameEnded = FALSE => HasEnd(queue)
  BY DEF TInv, FrameInv, Ending, TimersTypeOK
<1>12. /\ ee' = ee /\ queue' = queue /\ at' = at /\ it' = it /\ newTime' = newTime
       /\ frameEnded' = frameEnded /\ frameStart' = frameStart /\ strayed' = strayed
  BY <1>2
<1>13. /\ \A j \in TimerIds : timers'[j].rest < timers'[j].tick /\ timers'[j].last <= ee'
       /\ OneEach(queue') /\ PausedNever(queue', timers')
       /\ \A j \in TimerIds : timers'[j].gate # NoGate => j \in strayed'
  BY <1>9, <1>10, <1>12
<1>14. /\ Since(queue', A, ee') /\ queue'.closest <= Never /\ newTime' <= Never
       /\ at' = "events" => queue'.closest <= ee' /\ SinceBefore(queue', A, it', newTime')
       /\ at' # "events" => Since(queue', A, queue'.closest)
  BY <1>8, <1>12
<1>15. /\ Blanks(queue', frameStart')
       /\ frameEnded' = TRUE => NoStart(queue') /\ NoEnd(queue')
       /\ frameEnded' = TRUE => ee' = 0 \/ ee' = frameStart' + FrameCycles
       /\ at' \in {"loop", "components"} => frameEnded' = FALSE
       /\ at' = "frame" => frameEnded' = TRUE
       /\ frameStart' < Horizon \/ (ee' = 0 /\ frameEnded' = TRUE)
       /\ frameEnded' = FALSE => HasEnd(queue')
  BY <1>11, <1>12
<1>. QED BY <1>6, <1>7, <1>13, <1>14, <1>15, Primed

(* The steps that add to the list.                                         *)
LEMMA ExtendedFrames ==
  ASSUME NEW q \in ListT, NEW r, Extended(q, r, Plain), NEW start
  PROVE  /\ Blanks(q, start) => Blanks(r, start)
         /\ NoStart(q) => NoStart(r)
         /\ NoEnd(q) => NoEnd(r)
         /\ HasEnd(q) => HasEnd(r)
PROOF
<1>. DEFINE m == Len(q.events)
            n == Len(r.events)
<1>1. /\ r \in ListT /\ m <= n
      /\ \A i \in 1 .. m : r.events[i] = q.events[i]
      /\ \A i \in m + 1 .. n : r.events[i].func \in Plain
  BY DEF Extended
<1>2. m \in Nat /\ n \in Nat /\ DOMAIN q.events = 1 .. m /\ DOMAIN r.events = 1 .. n
  BY <1>1, ListIsTyped
<1>. HIDE DEF m, n
<1>3. ASSUME NEW i \in 1 .. n
      PROVE  \/ i \in 1 .. m /\ r.events[i] = q.events[i]
             \/ r.events[i].func \notin {"vblank_start", "vblank_end"}
  <2>1. CASE i \in 1 .. m
    BY <1>1, <2>1
  <2>2. CASE i \notin 1 .. m
    <3>1. i \in m + 1 .. n
      BY <1>2, <2>2
    <3>. QED BY <1>1, <3>1 DEF Plain
  <2>. QED BY <2>1, <2>2
<1>4. ASSUME Blanks(q, start) PROVE Blanks(r, start)
  <2>1. ASSUME NEW i \in 1 .. n
        PROVE  /\ r.events[i].func = "vblank_start" => r.events[i].time = start + VblankStart
               /\ r.events[i].func = "vblank_end" => r.events[i].time = start + FrameCycles
    BY <1>2, <1>3, <1>4 DEF Blanks
  <2>2. ASSUME NEW i \in 1 .. n, NEW j \in 1 .. n,
               r.events[i].func = "vblank_end", r.events[j].func = "vblank_end"
        PROVE  i = j
    BY <1>2, <1>3, <1>4, <2>2 DEF Blanks
  <2>. QED BY <1>2, <2>1, <2>2 DEF Blanks
<1>5. (NoStart(q) => NoStart(r)) /\ (NoEnd(q) => NoEnd(r))
  BY <1>2, <1>3 DEF NoStart, NoEnd
<1>6. ASSUME HasEnd(q) PROVE HasEnd(r)
  <2>1. PICK j \in DOMAIN q.events : q.events[j].func = "vblank_end"
    BY <1>6 DEF HasEnd
  <2>2. j \in DOMAIN r.events /\ r.events[j] = q.events[j]
    BY <1>1, <1>2, <2>1
  <2>. QED BY <2>1, <2>2 DEF HasEnd
<1>. QED BY <1>4, <1>5, <1>6

LEMMA ComponentExtends ==
  ASSUME CyclesAssumption, queue \in ListT, ee \in Nat, ComponentEvent
  PROVE  Extended(queue, queue', Plain)
PROOF
<1>1. PICK r \in Requests : queue' = AddEvent(queue, r[1], r[2], 0)
  BY DEF ComponentEvent
<1>2. r[1] \in Plain /\ r[2] \in Nat
  <2>1. CASE r = <<"int_check", IntDelay>>
    BY <2>1 DEF Plain, Funcs, CyclesAssumption
  <2>2. CASE r \in {"n_command"} \X DriveDelays
    BY <2>2 DEF Plain, Funcs, CyclesAssumption
  <2>. QED BY <1>1, <2>1, <2>2 DEF Requests
<1>3. Extended(queue, queue, Plain) /\ Plain \in SUBSET Funcs
  BY ExtendedSelf DEF Plain
<1>. QED BY <1>1, <1>2, <1>3, ExtendedMore

LEMMA ComponentEventKeeps ==
  ASSUME CyclesAssumption, TimersAssumption, TInv, ComponentEvent, UNCHANGED timerVars
  PROVE  TInv'
PROOF
<1>1. /\ queue \in ListT /\ ee \in Nat /\ frameEnded \in BOOLEAN /\ Never \in Nat
      /\ newTime \in Int
  BY TFacts
<1>2. /\ at = "components"
      /\ UNCHANGED <<ee, bus, iop, run, given, at, it, newTime, frameEnded, frameStart,
                     timers, writes, ideal, owed, strayed>>
  BY DEF ComponentEvent, timerVars, clocks, pass
<1>3. Extended(queue, queue', Plain)
  BY <1>1, ComponentExtends
<1>4. queue' \in ListT /\ queue'.closest <= queue.closest
      /\ queue.closest \in Int /\ queue'.closest \in Int
  BY <1>1, <1>3, ListIsTyped DEF Extended
<1>5. TimersTypeOK' /\ ClocksAgree'
  BY <1>2, <1>4 DEF TInv, TimersTypeOK, ClocksAgree, ListT, EventT
<1>. DEFINE A == Astray(timers, strayed)
<1>6. A = Astray(timers', strayed')
  BY <1>2
<1>. HIDE DEF A
<1>7. /\ Since(queue, A, ee) /\ queue.closest <= Never /\ newTime <= Never
      /\ Since(queue, A, queue.closest)
  BY <1>2 DEF TInv, Bounds, A
<1>8. OneEach(queue) /\ PausedNever(queue, timers) /\ Plain \in SUBSET Funcs /\ ee \in Int
  BY <1>1 DEF TInv, Plain
<1>9. /\ OneEach(queue') /\ PausedNever(queue', timers)
      /\ Since(queue', A, ee) /\ Since(queue', A, queue'.closest)
  BY <1>1, <1>3, <1>7, <1>8, ExtendedKeeps
<1>10. /\ Blanks(queue, frameStart) /\ frameEnded = FALSE /\ HasEnd(queue)
       /\ frameStart < Horizon
  BY <1>1, <1>2 DEF TInv, FrameInv, Ending
<1>11. Blanks(queue', frameStart) /\ HasEnd(queue')
  BY <1>1, <1>3, <1>10, ExtendedFrames
<1>12. /\ ee' = ee /\ at' = at /\ it' = it /\ newTime' = newTime /\ timers' = timers
       /\ frameEnded' = frameEnded /\ frameStart' = frameStart /\ strayed' = strayed
  BY <1>2
<1>13. /\ \A j \in TimerIds : timers'[j].rest < timers'[j].tick /\ timers'[j].last <= ee'
       /\ OneEach(queue') /\ PausedNever(queue', timers')
       /\ \A j \in TimerIds : timers'[j].gate # NoGate => j \in strayed'
  BY <1>9, <1>12 DEF TInv
<1>14. /\ Since(queue', A, ee') /\ queue'.closest <= Never /\ newTime' <= Never
       /\ at' # "events" /\ Since(queue', A, queue'.closest)
  BY <1>1, <1>2, <1>4, <1>7, <1>9, <1>12
<1>15. /\ Blanks(queue', frameStart') /\ frameEnded' = FALSE
       /\ frameStart' < Horizon /\ HasEnd(queue') /\ at' # "frame"
  BY <1>2, <1>10, <1>11, <1>12
<1>. QED BY <1>5, <1>6, <1>13, <1>14, <1>15, Primed

LEMMA StartFrameKeeps ==
  ASSUME CyclesAssumption, TimersAssumption, TInv, StartFrame, UNCHANGED timerVars
  PROVE  TInv'
PROOF
<1>1. /\ queue \in ListT /\ ee \in Nat /\ frameEnded \in BOOLEAN /\ Never \in Nat
      /\ newTime \in Int
  BY TFacts
<1>2. /\ at = "frame" /\ at' = "loop" /\ frameEnded' = FALSE /\ frameStart' = ee
      /\ ee < Horizon
      /\ UNCHANGED <<ee, bus, iop, run, given, it, newTime,
                     timers, writes, ideal, owed, strayed>>
  BY DEF StartFrame, timerVars, clocks
<1>. DEFINE q == AddEvent(queue, "vblank_start", VblankStart, 0)
            p == AddEvent(q, "vblank_end", FrameCycles, 0)
            m == Len(queue.events)
<1>3. queue' = p
  BY DEF StartFrame
<1>4. VblankStart \in Nat /\ FrameCycles \in Nat /\ 0 \in Nat /\ ee \in Int
      /\ "vblank_start" \in Funcs /\ "vblank_end" \in Funcs
      /\ "vblank_start" \in Funcs \cup {"timer"} /\ "vblank_end" \in Funcs \cup {"timer"}
      /\ VblankStart \in Int /\ FrameCycles \in Int
  BY <1>1 DEF CyclesAssumption, Funcs
<1>5. Extended(queue, q, Funcs) /\ Extended(queue, p, Funcs)
  <2>1. Extended(queue, queue, Funcs) /\ Funcs \in SUBSET Funcs
    BY <1>1, ExtendedSelf
  <2>2. Extended(queue, q, Funcs)
    BY <1>1, <1>4, <2>1, ExtendedMore
  <2>. HIDE DEF q
  <2>. QED BY <1>1, <1>4, <2>1, <2>2, ExtendedMore
<1>6. /\ q \in ListT /\ Len(q.events) = m + 1
      /\ \A i \in 1 .. m : q.events[i] = queue.events[i]
      /\ q.events[m + 1] = Event("vblank_start", ee + VblankStart, 0)
  BY <1>1, <1>4, Added DEF Longer
<1>. HIDE DEF q
<1>7. /\ p \in ListT /\ Len(p.events) = m + 1 + 1
      /\ \A i \in 1 .. m + 1 : p.events[i] = q.events[i]
      /\ p.events[m + 1 + 1] = Event("vblank_end", ee + FrameCycles, 0)
  BY <1>4, <1>6, Added DEF Longer
<1>. HIDE DEF p
<1>8. m \in Nat /\ DOMAIN queue.events = 1 .. m /\ DOMAIN p.events = 1 .. m + 2
      /\ queue.closest \in Int /\ p.closest \in Int /\ p.closest <= queue.closest
  <2>1. /\ m \in Nat /\ DOMAIN queue.events = 1 .. m
        /\ queue.closest \in Int
    BY <1>1, ListIsTyped
  <2>2. DOMAIN p.events = 1 .. m + 2 /\ p.closest \in Int
    BY <1>7, <2>1, ListIsTyped
  <2>3. p.closest <= queue.closest
    BY <1>5 DEF Extended
  <2>. QED BY <2>1, <2>2, <2>3
<1>. HIDE DEF m
<1>9. NoStart(queue) /\ NoEnd(queue)
  BY <1>2 DEF TInv, FrameInv
<1>10. ASSUME NEW i \in 1 .. m + 2
       PROVE  \/ i \in 1 .. m /\ p.events[i].func \notin {"vblank_start", "vblank_end"}
              \/ /\ i = m + 1 /\ p.events[i].func = "vblank_start"
                 /\ p.events[i].time = ee + VblankStart
              \/ /\ i = m + 2 /\ p.events[i].func = "vblank_end"
                 /\ p.events[i].time = ee + FrameCycles
  <2>1. CASE i \in 1 .. m
    <3>1. p.events[i] = queue.events[i]
      BY <1>6, <1>7, <1>8, <2>1
    <3>. QED BY <1>8, <1>9, <2>1, <3>1 DEF NoStart, NoEnd
  <2>2. CASE i = m + 1
    <3>1. p.events[i] = Event("vblank_start", ee + VblankStart, 0)
      BY <1>6, <1>7, <1>8, <2>2
    <3>. QED BY <2>2, <3>1 DEF Event
  <2>3. CASE i = m + 2
    <3>1. p.events[i] = Event("vblank_end", ee + FrameCycles, 0)
      BY <1>7, <1>8, <2>3
    <3>. QED BY <2>3, <3>1 DEF Event
  <2>. QED BY <1>8, <2>1, <2>2, <2>3
<1>11. Blanks(p, ee)
  <2>1. ASSUME NEW i \in DOMAIN p.events
        PROVE  /\ p.events[i].func = "vblank_start" => p.events[i].time = ee + VblankStart
               /\ p.events[i].func = "vblank_end" => p.events[i].time = ee + FrameCycles
    BY <1>8, <1>10
  <2>2. ASSUME NEW i \in DOMAIN p.events, NEW j \in DOMAIN p.events,
               p.events[i].func = "vblank_end", p.events[j].func = "vblank_end"
        PROVE  i = j
    BY <1>8, <1>10, <2>2
  <2>. QED BY <2>1, <2>2 DEF Blanks
<1>12. HasEnd(p)
  <2>1. m + 2 \in 1 .. m + 2 /\ p.events[m + 2].func = "vblank_end"
    BY <1>8, <1>10
  <2>. QED BY <1>8, <2>1 DEF HasEnd
<1>13. TimersTypeOK' /\ ClocksAgree'
  BY <1>1, <1>2, <1>3, <1>7 DEF TInv, TimersTypeOK, ClocksAgree, ListT, EventT
<1>. DEFINE A == Astray(timers, strayed)
<1>14. A = Astray(timers', strayed')
  BY <1>2
<1>. HIDE DEF A
<1>15. /\ Since(queue, A, ee) /\ queue.closest <= Never /\ newTime <= Never
       /\ Since(queue, A, queue.closest)
  BY <1>2 DEF TInv, Bounds, A
<1>16. OneEach(queue) /\ PausedNever(queue, timers) /\ Funcs \in SUBSET Funcs
  BY DEF TInv
<1>17. /\ OneEach(p) /\ PausedNever(p, timers)
       /\ Since(p, A, ee) /\ Since(p, A, p.closest)
  BY <1>1, <1>4, <1>5, <1>15, <1>16, ExtendedKeeps
<1>18. /\ ee' = ee /\ newTime' = newTime /\ timers' = timers /\ strayed' = strayed
       /\ queue' = p
  BY <1>2, <1>3
<1>19. /\ \A j \in TimerIds : timers'[j].rest < timers'[j].tick /\ timers'[j].last <= ee'
       /\ OneEach(queue') /\ PausedNever(queue', timers')
       /\ \A j \in TimerIds : timers'[j].gate # NoGate => j \in strayed'
  BY <1>17, <1>18 DEF TInv
<1>20. /\ Since(queue', A, ee') /\ queue'.closest <= Never /\ newTime' <= Never
       /\ at' # "events" /\ Since(queue', A, queue'.closest)
  BY <1>1, <1>2, <1>8, <1>15, <1>17, <1>18
<1>21. /\ Blanks(queue', frameStart') /\ frameEnded' = FALSE
       /\ frameStart' < Horizon /\ HasEnd(queue') /\ at' # "frame"
  BY <1>2, <1>11, <1>12, <1>18
<1>. QED BY <1>13, <1>14, <1>19, <1>20, <1>21, Primed

(* The steps of a pass that call an event.  The list is q when the timers  *)
(* have been gated.                                                        *)
LEMMA PassedHasEnd ==
  ASSUME NEW q \in ListT, NEW k \in DOMAIN q.events, NEW p, Passed(q, p, k),
         HasEnd(q), q.events[k].func # "vblank_end"
  PROVE  HasEnd(p)
PROOF
<1>. DEFINE m == Len(q.events)
            n == Len(p.events)
<1>1. /\ p \in ListT /\ m - 1 <= n
      /\ \A i \in 1 .. m - 1 : p.events[i] = IF i < k THEN q.events[i] ELSE q.events[i + 1]
  BY DEF Passed
<1>2. /\ m \in Nat /\ n \in Nat /\ DOMAIN q.events = 1 .. m /\ DOMAIN p.events = 1 .. n
      /\ k \in 1 .. m
  BY <1>1, ListIsTyped
<1>. HIDE DEF m, n
<1>3. PICK j \in 1 .. m : q.events[j].func = "vblank_end"
  <2>1. PICK i \in DOMAIN q.events : q.events[i].func = "vblank_end"
    BY DEF HasEnd
  <2>. QED BY <1>2, <2>1
<1>4. j # k
  BY <1>3
<1>5. CASE j < k
  <2>1. j \in 1 .. m - 1 /\ j \in 1 .. n
    BY <1>1, <1>2, <1>5
  <2>2. p.events[j] = q.events[j]
    BY <1>1, <1>5, <2>1
  <2>. QED BY <1>2, <1>3, <2>1, <2>2 DEF HasEnd
<1>6. CASE ~(j < k)
  <2>1. j - 1 \in 1 .. m - 1 /\ j - 1 \in 1 .. n /\ ~(j - 1 < k) /\ (j - 1) + 1 = j
    BY <1>1, <1>2, <1>4, <1>6
  <2>2. p.events[j - 1] = q.events[j]
    BY <1>1, <2>1
  <2>. QED BY <1>2, <1>3, <2>1, <2>2 DEF HasEnd
<1>. QED BY <1>5, <1>6

LEMMA PassedStep ==
  ASSUME CyclesAssumption, TimersAssumption, TInv, Due,
         NEW q, NEW S, Shifted(queue, q, S), Passed(q, queue', it),
         queue'.closest <= queue.closest,
         UNCHANGED <<clocks, pass, frameStart>>,
         frameEnded' = (frameEnded \/ queue.events[it].func = "vblank_end"),
         strayed' = strayed, timers' \in [TimerIds -> TimerState], writes' = writes,
         ideal' \in [TimerIds -> Nat], owed' \in [TimerIds -> SUBSET {"compare", "overflow"}],
         \A i \in TimerIds : timers'[i].rest < timers'[i].tick /\ timers'[i].last <= ee,
         \A i \in TimerIds : timers'[i].gate # NoGate => i \in strayed,
         OneEach(queue'), PausedNever(queue', timers'),
         NEW A, A = Astray(timers', strayed),
         Since(q, A, ee), SinceBefore(q, A, it, newTime)
  PROVE  TInv'
PROOF
<1>1. /\ queue \in ListT /\ ee \in Nat /\ frameEnded \in BOOLEAN /\ Never \in Nat
      /\ newTime \in Int /\ frameStart \in Nat
  BY TFacts
<1>2. /\ at = "events" /\ it \in DOMAIN queue.events
      /\ queue.events[it].time <= queue.closest
  BY DEF Due
<1>3. /\ q \in ListT /\ DOMAIN q.events = DOMAIN queue.events /\ queue' \in ListT
      /\ it \in DOMAIN q.events
  BY <1>2 DEF Shifted, Passed
<1>4. /\ ee' = ee /\ at' = at /\ it' = it /\ newTime' = newTime /\ frameStart' = frameStart
      /\ strayed' = strayed /\ UNCHANGED <<bus, iop, run, given>>
  BY DEF clocks, pass
<1>5. /\ queue.closest <= ee /\ queue.closest <= Never /\ newTime <= Never
      /\ queue.closest \in Int /\ queue'.closest \in Int /\ queue.events[it].time \in Int
  BY <1>1, <1>2, <1>3, ListIsTyped DEF TInv, Bounds
<1>6. TimersTypeOK' /\ ClocksAgree'
  <2>1. ClocksAgree'
    BY <1>4 DEF TInv, ClocksAgree
  <2>2. frameEnded' \in BOOLEAN
    OBVIOUS
  <2>. QED BY <1>3, <1>4, <2>1, <2>2 DEF TInv, TimersTypeOK, ListT, EventT
<1>7. OneEach(queue) /\ ee \in Int
  BY <1>1 DEF TInv
<1>8. q.events[it].func = queue.events[it].func
  BY <1>2 DEF Shifted
<1>9. Blanks(queue, frameStart) /\ Blanks(q, frameStart)
  <2>1. Blanks(queue, frameStart)
    BY DEF TInv, FrameInv
  <2>. QED BY <1>1, <1>7, <2>1, ShiftedKeeps
<1>10. /\ Blanks(queue', frameStart)
       /\ Since(queue', A, ee) /\ SinceBefore(queue', A, it, newTime)
       /\ NoStart(q) => NoStart(queue')
       /\ NoEnd(q) \/ q.events[it].func = "vblank_end" => NoEnd(queue')
  BY <1>1, <1>3, <1>7, <1>9, PassedKeeps
<1>11. /\ frameEnded' = FALSE => HasEnd(queue')
       /\ frameEnded' = TRUE => NoStart(queue') /\ NoEnd(queue')
       /\ frameEnded' = TRUE => ee = 0 \/ ee = frameStart + FrameCycles
       /\ frameStart < Horizon \/ (ee = 0 /\ frameEnded' = TRUE)
  <2>1. CASE frameEnded = TRUE
    <3>1. frameEnded' = TRUE
      BY <2>1
    <3>2. /\ NoStart(queue) /\ NoEnd(queue)
          /\ ee = 0 \/ ee = frameStart + FrameCycles
          /\ frameStart < Horizon \/ ee = 0
      BY <2>1 DEF TInv, FrameInv, Ending
    <3>3. NoStart(q) /\ NoEnd(q)
      BY <1>1, <1>7, <3>2, ShiftedKeeps
    <3>. QED BY <1>10, <3>1, <3>2, <3>3
  <2>2. CASE frameEnded = FALSE /\ queue.events[it].func # "vblank_end"
    <3>1. frameEnded' = FALSE
      BY <2>2
    <3>2. HasEnd(queue) /\ frameStart < Horizon
      BY <2>2 DEF TInv, Ending
    <3>3. HasEnd(q)
      BY <1>3, <3>2 DEF HasEnd, Shifted
    <3>4. HasEnd(queue')
      BY <1>3, <1>8, <2>2, <3>3, PassedHasEnd
    <3>. QED BY <3>1, <3>2, <3>4
  <2>3. CASE frameEnded = FALSE /\ queue.events[it].func = "vblank_end"
    <3>1. frameEnded' = TRUE /\ frameStart < Horizon
      BY <2>3 DEF TInv, Ending
    <3>2. NoEnd(queue')
      BY <1>8, <1>10, <2>3
    <3>3. ee = frameStart + FrameCycles
      <4>1. queue.events[it].time = frameStart + FrameCycles
        BY <1>2, <1>9, <2>3 DEF Blanks
      <4>2. ee <= queue.events[it].time
        BY <1>2, <2>3 DEF TInv, Bounds, Since, Exempt
      <4>. QED BY <1>1, <1>2, <1>5, <4>1, <4>2
    <3>4. NoStart(queue')
      <4>1. SUFFICES ASSUME NEW n \in DOMAIN queue'.events,
                            queue'.events[n].func = "vblank_start"
                     PROVE  FALSE
        BY DEF NoStart
      <4>2. queue'.events[n].time = frameStart + VblankStart
        BY <1>10, <4>1 DEF Blanks
      <4>3. ee <= queue'.events[n].time
        BY <1>10, <4>1 DEF Since, Exempt
      <4>4. VblankStart \in Nat /\ FrameCycles \in Nat /\ VblankStart < FrameCycles
        BY DEF CyclesAssumption
      <4>. QED BY <1>1, <3>3, <4>2, <4>3, <4>4
    <3>. QED BY <3>1, <3>2, <3>3, <3>4
  <2>. QED BY <1>1, <2>1, <2>2, <2>3
<1>12. /\ Since(queue', A, ee') /\ SinceBefore(queue', A, it', newTime')
       /\ queue'.closest <= ee' /\ queue'.closest <= Never /\ newTime' <= Never
       /\ at' = "events"
  BY <1>1, <1>2, <1>4, <1>5, <1>10
<1>13. /\ \A i \in TimerIds : timers'[i].rest < timers'[i].tick /\ timers'[i].last <= ee'
       /\ \A i \in TimerIds : timers'[i].gate # NoGate => i \in strayed'
       /\ A = Astray(timers', strayed')
  BY <1>4
<1>14. /\ Blanks(queue', frameStart')
       /\ frameEnded' = FALSE => HasEnd(queue')
       /\ frameEnded' = TRUE => NoStart(queue') /\ NoEnd(queue')
       /\ frameEnded' = TRUE => ee' = 0 \/ ee' = frameStart' + FrameCycles
       /\ frameStart' < Horizon \/ (ee' = 0 /\ frameEnded' = TRUE)
  BY <1>4, <1>10, <1>11
<1>. QED BY <1>6, <1>12, <1>13, <1>14, Primed

LEMMA CallbackExtends ==
  ASSUME CyclesAssumption, NEW q \in ListT, ee \in Nat,
         NEW func \in Plain, NEW p \in Callback(func), q = queue
  PROVE  Extended(q, p, Plain)
PROOF
<1>1. /\ {"hblank", "gs_vblank", "sound", "n_command", "int_check"} \subseteq Plain
      /\ Plain \in SUBSET Funcs
      /\ HblankCycles \in Nat /\ VblankDelay \in Nat /\ SoundCycles \in Nat
      /\ IntDelay \in Nat /\ DriveDelays \subseteq Nat
  BY DEF Plain, Funcs, CyclesAssumption
<1>2. ASSUME NEW r, Extended(q, r, Plain), NEW f \in Plain, NEW d \in Nat
      PROVE  Extended(q, AddEvent(r, f, d, 0), Plain)
  BY <1>1, <1>2, ExtendedMore
<1>3. Extended(q, q, Plain)
  BY ExtendedSelf
<1>4. Extended(q, Raise(q), Plain)
  BY <1>1, <1>2, <1>3 DEF Raise
<1>5. CASE func = "hblank"
  <2>1. \E r \in {q, Raise(q)} : p = AddEvent(r, "hblank", HblankCycles, 0)
    BY <1>5 DEF Callback
  <2>. QED BY <1>1, <1>2, <1>3, <1>4, <2>1
<1>6. CASE func \in {"gs_vblank", "int_check"}
  <2>1. p \in {q, Raise(q)}
    BY <1>6 DEF Callback
  <2>. QED BY <1>3, <1>4, <2>1
<1>7. CASE func = "sound"
  <2>1. p = AddEvent(q, "sound", SoundCycles, 0)
    BY <1>7 DEF Callback
  <2>. QED BY <1>1, <1>2, <1>3, <2>1
<1>8. CASE func = "n_command"
  <2>1. p = q \/ \E d \in DriveDelays : p = AddEvent(q, "n_command", d, 0)
    BY <1>8 DEF Callback
  <2>. QED BY <1>1, <1>2, <1>3, <2>1
<1>. QED BY <1>5, <1>6, <1>7, <1>8 DEF Plain, Funcs

LEMMA OtherEventKeeps ==
  ASSUME CyclesAssumption, TimersAssumption, TInv, RunOtherEvent PROVE TInv'
PROOF
<1>1. /\ queue \in ListT /\ ee \in Nat /\ timers \in [TimerIds -> TimerState]
      /\ queue.closest \in Int
  BY TFacts, ListIsTyped
<1>2. /\ Due /\ it \in DOMAIN queue.events /\ at = "events"
      /\ queue.events[it].func \notin {"vblank_start", "vblank_end", "timer"}
      /\ timers' = timers /\ writes' = writes /\ ideal' = ideal /\ owed' = owed
      /\ strayed' = strayed
      /\ UNCHANGED <<clocks, pass, frameStart>>
      /\ frameEnded' = (frameEnded \/ queue.events[it].func = "vblank_end")
  BY DEF RunOtherEvent, RunEvent, Due, timerVars
<1>3. queue.events[it].func \in Plain
  BY <1>1, <1>2, ListIsTyped DEF Plain
<1>4. PICK r \in Callback(queue.events[it].func) : queue' = Erase(r, it)
  BY DEF RunOtherEvent, RunEvent
<1>5. Extended(queue, r, Plain)
  BY <1>1, <1>3, <1>4, CallbackExtends
<1>6. /\ Passed(queue, queue', it)
      /\ queue'.closest <= queue.closest
      /\ \A n \in Len(queue.events) .. Len(queue'.events) : queue'.events[n].func \in Plain
  BY <1>1, <1>2, <1>4, <1>5, ExtendedPassed
<1>7. \A n \in Len(queue.events) .. Len(queue'.events) : queue'.events[n].func # "timer"
  BY <1>6 DEF Plain, Funcs
<1>. DEFINE A == Astray(timers, strayed)
<1>8. /\ Since(queue, A, ee) /\ SinceBefore(queue, A, it, newTime)
      /\ OneEach(queue) /\ PausedNever(queue, timers)
  BY <1>2 DEF TInv, Bounds
<1>9. A = Astray(timers', strayed)
  BY <1>2
<1>. HIDE DEF A
<1>10. OneEach(queue') /\ PausedNever(queue', timers')
  BY <1>1, <1>2, <1>6, <1>7, <1>8, PassedOther
<1>11. Shifted(queue, queue, {})
  BY <1>1, ShiftedSelf
<1>12. /\ timers' \in [TimerIds -> TimerState]
       /\ ideal' \in [TimerIds -> Nat] /\ owed' \in [TimerIds -> SUBSET {"compare", "overflow"}]
       /\ \A i \in TimerIds : timers'[i].rest < timers'[i].tick /\ timers'[i].last <= ee
       /\ \A i \in TimerIds : timers'[i].gate # NoGate => i \in strayed
  BY <1>1, <1>2 DEF TInv, TimersTypeOK
<1>. QED BY <1>2, <1>6, <1>8, <1>9, <1>10, <1>11, <1>12, PassedStep

(* The program's writes to the registers of a timer.                       *)
Aimed(q, i, t) ==
  /\ t.paused = TRUE => HasTime(q, i, Never)
  /\ t.paused = FALSE => \E time \in Int : /\ ee <= time /\ q.closest <= time
                                           /\ HasTime(q, i, time)
  /\ t.paused = FALSE => HasTime(q, i, ee + EventDelta(t))

LEMMA WriteStep ==
  ASSUME CyclesAssumption, TimersAssumption, TInv, at = "components",
         NEW i \in TimerIds, NEW t, Well(t), timers' = [timers EXCEPT ![i] = t],
         Shifted(queue, queue', {i}), Aimed(queue', i, t),
         UNCHANGED <<clocks, pass, frameEnded, frameStart>>, writes' \in Nat,
         ideal' \in [TimerIds -> Nat], owed' \in [TimerIds -> SUBSET {"compare", "overflow"}],
         strayed' \subseteq TimerIds, t.gate # NoGate => i \in strayed',
         \A j \in TimerIds \ {i} : j \in strayed' <=> j \in strayed
  PROVE  TInv'
PROOF
<1>1. /\ queue \in ListT /\ ee \in Nat /\ frameEnded \in BOOLEAN /\ Never \in Nat /\ ee < Never
      /\ newTime \in Int /\ frameStart \in Nat /\ strayed \subseteq TimerIds
      /\ timers \in [TimerIds -> TimerState]
      /\ \A j \in TimerIds : Well(timers[j])
  BY TFacts
<1>2. /\ ee' = ee /\ at' = at /\ it' = it /\ newTime' = newTime /\ frameStart' = frameStart
      /\ frameEnded' = frameEnded /\ UNCHANGED <<bus, iop, run, given>>
  BY DEF clocks, pass
<1>3. timers' \in [TimerIds -> TimerState]
  BY <1>1 DEF Well
<1>4. timers'[i] = t /\ \A j \in TimerIds \ {i} : timers'[j] = timers[j]
  BY <1>1
<1>5. \A j \in TimerIds : Well(timers'[j])
  BY <1>1, <1>4
<1>6. /\ queue' \in ListT /\ queue'.closest <= queue.closest
      /\ DOMAIN queue'.events = DOMAIN queue.events
      /\ \A n \in DOMAIN queue.events :
           /\ queue'.events[n].func = queue.events[n].func
           /\ queue'.events[n].param = queue.events[n].param
           /\ IsEventOf(queue'.events[n], i) \/ queue'.events[n] = queue.events[n]
  BY DEF Shifted, IsEventOf
<1>7. /\ queue'.closest \in Int /\ queue.closest \in Int
      /\ \A n \in DOMAIN queue.events : queue.events[n].time \in Int
  BY <1>1, <1>6, ListIsTyped
<1>8. TimersTypeOK' /\ ClocksAgree'
  <2>1. ClocksAgree'
    BY <1>2 DEF TInv, ClocksAgree
  <2>. QED BY <1>2, <1>3, <1>6, <2>1 DEF TInv, TimersTypeOK, ListT, EventT
<1>. DEFINE A == Astray(timers, strayed)
            B == Astray(timers', strayed')
<1>9. \A j \in TimerIds \ {i} : j \in A <=> j \in B
  BY <1>4 DEF Astray
<1>. HIDE DEF A, B
<1>10. /\ Since(queue, A, ee) /\ Since(queue, A, queue.closest)
       /\ queue.closest <= Never /\ newTime <= Never
       /\ OneEach(queue) /\ PausedNever(queue, timers)
       /\ \A j \in TimerIds : timers[j].gate # NoGate => j \in strayed
  BY DEF TInv, Bounds, A
<1>11. ASSUME NEW n \in DOMAIN queue'.events
       PROVE  \/ /\ IsEventOf(queue'.events[n], i)
                 /\ t.paused = TRUE => queue'.events[n].time = Never
                 /\ ee <= queue'.events[n].time /\ queue'.closest <= queue'.events[n].time
              \/ /\ ~IsEventOf(queue'.events[n], i)
                 /\ n \in DOMAIN queue.events
                 /\ queue'.events[n] = queue.events[n]
                 /\ Exempt(queue.events[n], A) => Exempt(queue'.events[n], B)
  <2>1. CASE IsEventOf(queue'.events[n], i)
    <3>1. t.paused \in BOOLEAN
      BY DEF Well, TimerState
    <3>2. CASE t.paused = TRUE
      <4>1. queue'.events[n].time = Never
        BY <2>1, <3>2 DEF Aimed, HasTime
      <4>. QED BY <1>1, <1>6, <1>7, <1>10, <2>1, <4>1
    <3>3. CASE t.paused = FALSE
      <4>1. PICK time \in Int : /\ ee <= time /\ queue'.closest <= time
                                /\ HasTime(queue', i, time)
        BY <3>3 DEF Aimed
      <4>2. queue'.events[n].time = time
        BY <2>1, <4>1 DEF HasTime
      <4>. QED BY <2>1, <3>3, <4>1, <4>2
    <3>. QED BY <3>1, <3>2, <3>3
  <2>2. CASE ~IsEventOf(queue'.events[n], i)
    <3>1. n \in DOMAIN queue.events /\ queue'.events[n] = queue.events[n]
      BY <1>6, <2>2
    <3>2. ASSUME Exempt(queue.events[n], A) PROVE Exempt(queue'.events[n], B)
      <4>1. queue.events[n].func = "timer" /\ queue.events[n].param \in A
        BY <3>2 DEF Exempt
      <4>2. queue.events[n].param \in TimerIds \ {i}
        BY <1>10, <2>2, <3>1, <4>1 DEF OneEach, IsEventOf
      <4>. QED BY <1>9, <3>1, <4>1, <4>2 DEF Exempt
    <3>. QED BY <2>2, <3>1, <3>2
  <2>. QED BY <2>1, <2>2
<1>12. Since(queue', B, ee) /\ Since(queue', B, queue'.closest)
  <2>1. ASSUME NEW n \in DOMAIN queue'.events
        PROVE  /\ Exempt(queue'.events[n], B) \/ ee <= queue'.events[n].time
               /\ Exempt(queue'.events[n], B) \/ queue'.closest <= queue'.events[n].time
    <3>1. CASE ee <= queue'.events[n].time /\ queue'.closest <= queue'.events[n].time
      BY <3>1
    <3>2. CASE /\ n \in DOMAIN queue.events
               /\ queue'.events[n] = queue.events[n]
               /\ Exempt(queue.events[n], A) => Exempt(queue'.events[n], B)
      <4>1. \/ Exempt(queue.events[n], A)
            \/ ee <= queue.events[n].time /\ queue.closest <= queue.events[n].time
        BY <1>10, <3>2 DEF Since
      <4>. QED BY <1>6, <1>7, <3>2, <4>1
    <3>. QED BY <1>11, <3>1, <3>2
  <2>. QED BY <2>1 DEF Since
<1>13. PausedNever(queue', timers')
  <2>1. SUFFICES ASSUME NEW n \in DOMAIN queue'.events, queue'.events[n].func = "timer",
                        timers'[queue'.events[n].param].paused = TRUE
                 PROVE  queue'.events[n].time = Never
    BY DEF PausedNever
  <2>2. CASE IsEventOf(queue'.events[n], i)
    BY <1>4, <1>11, <2>1, <2>2 DEF IsEventOf
  <2>3. CASE ~IsEventOf(queue'.events[n], i)
    <3>1. n \in DOMAIN queue.events /\ queue'.events[n] = queue.events[n]
      BY <1>11, <2>3
    <3>2. queue.events[n].param \in TimerIds \ {i}
      BY <1>10, <2>1, <2>3, <3>1 DEF OneEach, IsEventOf
    <3>. QED BY <1>4, <1>10, <2>1, <3>1, <3>2 DEF PausedNever
  <2>. QED BY <2>2, <2>3
<1>14. /\ Blanks(queue, frameStart) /\ frameEnded = FALSE /\ HasEnd(queue)
       /\ frameStart < Horizon
  BY <1>1 DEF TInv, FrameInv, Ending
<1>15. OneEach(queue') /\ Blanks(queue', frameStart) /\ HasEnd(queue')
  <2>1. OneEach(queue') /\ Blanks(queue', frameStart)
    BY <1>1, <1>10, <1>14, ShiftedKeeps
  <2>. QED BY <1>6, <1>14, <2>1 DEF HasEnd
<1>16. /\ \A j \in TimerIds : timers'[j].rest < timers'[j].tick /\ timers'[j].last <= ee'
       /\ \A j \in TimerIds : timers'[j].gate # NoGate => j \in strayed'
       /\ B = Astray(timers', strayed')
  BY <1>2, <1>4, <1>5, <1>10 DEF B, Well
<1>17. /\ Since(queue', B, ee') /\ queue'.closest <= Never /\ newTime' <= Never
       /\ at' # "events" /\ Since(queue', B, queue'.closest)
  BY <1>1, <1>2, <1>6, <1>7, <1>10, <1>12
<1>18. /\ Blanks(queue', frameStart') /\ frameEnded' = FALSE
       /\ frameStart' < Horizon /\ HasEnd(queue') /\ at' # "frame"
  BY <1>2, <1>14, <1>15
<1>. QED BY <1>8, <1>13, <1>15, <1>16, <1>17, <1>18, Primed

LEMMA PlanAims ==
  ASSUME CyclesAssumption, TimersAssumption, ee \in Nat,
         NEW q \in ListT, NEW i, NEW t, Well(t), t.paused = TRUE => HasTime(q, i, Never),
         NEW p, p = PlanIfRunning(q, i, t)
  PROVE  Shifted(q, p, {i}) /\ Aimed(p, i, t)
PROOF
<1>1. /\ Shifted(q, p, {i})
      /\ t.paused = TRUE => p = q
      /\ t.paused = FALSE => /\ HasTime(p, i, ee + EventDelta(t))
                             /\ p.closest <= ee + EventDelta(t)
  BY PlannedIfRunning
<1>2. EventDelta(t) \in Nat
  BY Deltas
<1>. DEFINE d == EventDelta(t)
<1>3. d \in Nat /\ (t.paused = FALSE => HasTime(p, i, ee + d) /\ p.closest <= ee + d)
  BY <1>1, <1>2
<1>. HIDE DEF d
<1>4. ASSUME t.paused = FALSE
      PROVE  \E time \in Int : ee <= time /\ p.closest <= time /\ HasTime(p, i, time)
  <2>1. ee + d \in Int /\ ee <= ee + d
    BY <1>3
  <2>. QED BY <1>3, <1>4, <2>1
<1>. QED BY <1>1, <1>4 DEF Aimed

(* What a write makes of timer i: t.                                       *)
Sets(i, t) ==
  /\ at = "components"
  /\ Well(t) /\ timers' = [timers EXCEPT ![i] = t]
  /\ t.paused = FALSE => t.last = ee
  /\ t.tick = timers[i].tick \/ \E c \in Controls : t.tick = c.tick
  /\ Shifted(queue, queue', {i}) /\ Aimed(queue', i, t)
  /\ UNCHANGED <<clocks, pass, frameEnded, frameStart>> /\ writes' \in Nat
  /\ ideal' \in [TimerIds -> Nat] /\ owed' \in [TimerIds -> SUBSET {"compare", "overflow"}]
  /\ owed'[i] = {} /\ \A j \in TimerIds \ {i} : owed'[j] = owed[j]
  /\ strayed' \subseteq TimerIds /\ (t.gate # NoGate => i \in strayed')
  /\ \A j \in TimerIds \ {i} : j \in strayed' <=> j \in strayed

LEMMA WriteKeeps ==
  ASSUME CyclesAssumption, TimersAssumption, TInv, NEW i \in TimerIds, NEW t, Sets(i, t)
  PROVE  TInv'
PROOF BY WriteStep DEF Sets

LEMMA EventOfPaused ==
  ASSUME TInv, NEW i \in TimerIds, timers[i].paused = TRUE
  PROVE  HasTime(queue, i, Never)
BY DEF TInv, PausedNever, HasTime, IsEventOf

LEMMA WriteCounterSets ==
  ASSUME CyclesAssumption, TimersAssumption, TInv, NEW i \in TimerIds, WriteCounter(i)
  PROVE  \E t : Sets(i, t)
PROOF
<1>1. /\ queue \in ListT /\ ee \in Nat /\ strayed \subseteq TimerIds
      /\ Well(timers[i]) /\ timers[i].paused \in BOOLEAN
      /\ writes \in Nat /\ ideal \in [TimerIds -> Nat]
      /\ owed \in [TimerIds -> SUBSET {"compare", "overflow"}]
  BY TFacts DEF TInv, TimersTypeOK
<1>2. PICK n \in Counters :
        LET t == SetCounter(timers[i], n)
        IN Becomes(i, [t |-> t, q |-> PlanIfRunning(queue, i, t)], TRUE)
  BY DEF WriteCounter
<1>. DEFINE u == UpdateCounter(timers[i])
            t == SetCounter(timers[i], n)
<1>3. /\ Well(u) /\ u.paused = timers[i].paused /\ u.gate = timers[i].gate
      /\ u.tick = timers[i].tick /\ (timers[i].paused = FALSE => u.last = ee)
  BY <1>1, Updated
<1>4. t = [u EXCEPT !.counter = n]
  BY DEF SetCounter
<1>5. n \in Nat
  BY DEF TimersAssumption
<1>. HIDE DEF u, t
<1>6. t \in TimerState /\ t.paused = u.paused /\ t.gate = u.gate /\ t.rest = u.rest
      /\ t.tick = u.tick /\ t.last = u.last
  BY <1>3, <1>4, <1>5 DEF Well, TimerState
<1>7. Well(t)
  BY <1>3, <1>6 DEF Well
<1>8. /\ timers' = [timers EXCEPT ![i] = t]
      /\ queue' = PlanIfRunning(queue, i, t)
      /\ ideal' = [ideal EXCEPT ![i] = Position(t)]
      /\ owed' = [owed EXCEPT ![i] = {}]
  BY <1>2 DEF Becomes, t
<1>9. t.paused = TRUE => HasTime(queue, i, Never)
  BY <1>3, <1>6, EventOfPaused
<1>10. Shifted(queue, queue', {i}) /\ Aimed(queue', i, t)
  BY <1>1, <1>7, <1>8, <1>9, PlanAims
<1>11. Position(t) \in Nat
  BY <1>1, <1>7, PositionIsNat
<1>12. /\ ideal' \in [TimerIds -> Nat] /\ owed' \in [TimerIds -> SUBSET {"compare", "overflow"}]
       /\ owed'[i] = {} /\ \A j \in TimerIds \ {i} : owed'[j] = owed[j]
  BY <1>1, <1>8, <1>11
<1>13. /\ strayed' = IF timers[i].gate = NoGate THEN strayed \ {i} ELSE strayed
       /\ at = "components" /\ writes' = writes + 1
       /\ UNCHANGED <<clocks, pass, frameEnded, frameStart>>
  BY DEF WriteCounter, Writing
<1>14. t.gate # NoGate => i \in strayed'
  BY <1>3, <1>6, <1>13 DEF TInv
<1>15. writes' \in Nat /\ strayed' \subseteq TimerIds
       /\ \A j \in TimerIds \ {i} : j \in strayed' <=> j \in strayed
  BY <1>1, <1>13
<1>16. (t.paused = FALSE => t.last = ee) /\ t.tick = timers[i].tick
  BY <1>3, <1>6
<1>17. Sets(i, t)
  BY <1>7, <1>8, <1>10, <1>12, <1>13, <1>14, <1>15, <1>16 DEF Sets
<1>. QED BY <1>17

LEMMA WriteCompareSets ==
  ASSUME CyclesAssumption, TimersAssumption, TInv, NEW i \in TimerIds, WriteCompare(i)
  PROVE  \E t : Sets(i, t)
PROOF
<1>1. /\ queue \in ListT /\ ee \in Nat /\ strayed \subseteq TimerIds
      /\ Well(timers[i]) /\ timers[i].paused \in BOOLEAN
      /\ writes \in Nat /\ ideal \in [TimerIds -> Nat]
      /\ owed \in [TimerIds -> SUBSET {"compare", "overflow"}]
  BY TFacts DEF TInv, TimersTypeOK
<1>. DEFINE u == UpdateCounter(timers[i])
            Written(n) == [u EXCEPT !.target = n]
<1>2. PICK n \in Compares :
        Becomes(i, [t |-> Written(n), q |-> PlanIfRunning(queue, i, Written(n))], FALSE)
  BY DEF WriteCompare
<1>. DEFINE t == Written(n)
<1>3. /\ Well(u) /\ u.paused = timers[i].paused /\ u.gate = timers[i].gate
      /\ u.tick = timers[i].tick /\ (timers[i].paused = FALSE => u.last = ee)
  BY <1>1, Updated
<1>4. t = [u EXCEPT !.target = n]
  OBVIOUS
<1>5. n \in 0 .. Mask
  BY DEF TimersAssumption
<1>. HIDE DEF u
<1>8. /\ timers' = [timers EXCEPT ![i] = t]
      /\ queue' = PlanIfRunning(queue, i, t)
      /\ ideal' = ideal
      /\ owed' = [owed EXCEPT ![i] = {}]
  BY <1>2 DEF Becomes
<1>. HIDE DEF t, Written
<1>6. t \in TimerState /\ t.paused = u.paused /\ t.gate = u.gate /\ t.rest = u.rest
      /\ t.tick = u.tick /\ t.last = u.last
  BY <1>3, <1>4, <1>5 DEF Well, TimerState
<1>7. Well(t)
  BY <1>3, <1>6 DEF Well
<1>9. t.paused = TRUE => HasTime(queue, i, Never)
  BY <1>3, <1>6, EventOfPaused
<1>10. Shifted(queue, queue', {i}) /\ Aimed(queue', i, t)
  BY <1>1, <1>7, <1>8, <1>9, PlanAims
<1>12. /\ ideal' \in [TimerIds -> Nat] /\ owed' \in [TimerIds -> SUBSET {"compare", "overflow"}]
       /\ owed'[i] = {} /\ \A j \in TimerIds \ {i} : owed'[j] = owed[j]
  BY <1>1, <1>8
<1>13. /\ strayed' = strayed
       /\ at = "components" /\ writes' = writes + 1
       /\ UNCHANGED <<clocks, pass, frameEnded, frameStart>>
  BY DEF WriteCompare, Writing
<1>14. t.gate # NoGate => i \in strayed'
  BY <1>3, <1>6, <1>13 DEF TInv
<1>15. writes' \in Nat /\ strayed' \subseteq TimerIds
       /\ \A j \in TimerIds \ {i} : j \in strayed' <=> j \in strayed
  BY <1>1, <1>13
<1>16. (t.paused = FALSE => t.last = ee) /\ t.tick = timers[i].tick
  BY <1>3, <1>6
<1>17. Sets(i, t)
  BY <1>7, <1>8, <1>10, <1>12, <1>13, <1>14, <1>15, <1>16 DEF Sets
<1>. QED BY <1>17

(* What write_control makes of timer i, before the pause and after it.     *)
Controlled(t, c) ==
  [t EXCEPT !.enabled = c.enabled, !.gate = c.gate, !.clear = c.clear,
            !.gated = (c.gate # NoGate),
            !.compared = @ /\ ~c.ack, !.overflowed = @ /\ ~c.ack]

Clocked(t, c) ==
  [UpdateCounter(t) EXCEPT !.tick = c.tick, !.rest = 0, !.onCompare = c.onCompare,
                           !.onOverflow = c.onOverflow]

LEMMA ControlledIsWell ==
  ASSUME NEW t, Well(t), NEW c \in ControlWords
  PROVE  /\ Well(Controlled(t, c)) /\ Controlled(t, c).gate = c.gate
         /\ Controlled(t, c).paused = t.paused
PROOF
<1>1. t \in TimerState /\ t.compared \in BOOLEAN /\ t.overflowed \in BOOLEAN
  BY DEF Well, TimerState
<1>2. /\ c.enabled \in BOOLEAN /\ c.gate \in {NoGate} \cup 0 .. 3 /\ c.clear \in BOOLEAN
  BY DEF ControlWords
<1>. DEFINE gated == (c.gate # NoGate)
            compared == (t.compared /\ ~c.ack)
            overflowed == (t.overflowed /\ ~c.ack)
            t1 == [t EXCEPT !.enabled = c.enabled]
            t2 == [t1 EXCEPT !.gate = c.gate]
            t3 == [t2 EXCEPT !.clear = c.clear]
            t4 == [t3 EXCEPT !.gated = gated]
            t5 == [t4 EXCEPT !.compared = compared]
            t6 == [t5 EXCEPT !.overflowed = overflowed]
            Same(u) == u \in TimerState /\ u.paused = t.paused /\ u.rest = t.rest
                       /\ u.tick = t.tick /\ u.last = t.last
<1>3. gated \in BOOLEAN /\ compared \in BOOLEAN /\ overflowed \in BOOLEAN
  OBVIOUS
<1>a. Controlled(t, c) =
        [t EXCEPT !.enabled = c.enabled, !.gate = c.gate, !.clear = c.clear,
                  !.gated = gated, !.compared = compared, !.overflowed = overflowed]
  BY <1>1 DEF Controlled, TimerState
<1>. HIDE DEF gated, compared, overflowed
<1>4. t6 = Controlled(t, c)
  BY <1>a
<1>5. Same(t1)
  BY <1>1, <1>2 DEF TimerState
<1>. HIDE DEF t1
<1>6. Same(t2) /\ t2.gate = c.gate
  BY <1>2, <1>5 DEF TimerState
<1>. HIDE DEF t2
<1>7. Same(t3) /\ t3.gate = c.gate
  BY <1>2, <1>6 DEF TimerState
<1>. HIDE DEF t3
<1>8. Same(t4) /\ t4.gate = c.gate
  BY <1>3, <1>7 DEF TimerState
<1>. HIDE DEF t4
<1>9. Same(t5) /\ t5.gate = c.gate
  BY <1>3, <1>8 DEF TimerState
<1>. HIDE DEF t5
<1>10. Same(t6) /\ t6.gate = c.gate
  BY <1>3, <1>9 DEF TimerState
<1>. HIDE DEF t6
<1>. QED BY <1>4, <1>10 DEF Well

LEMMA ClockedIsWell ==
  ASSUME ee \in Nat, NEW t, Well(t), NEW c \in ControlWords
  PROVE  /\ Well(Clocked(t, c)) /\ Clocked(t, c).gate = t.gate
         /\ Clocked(t, c).paused = t.paused /\ Clocked(t, c).tick = c.tick
         /\ t.paused = FALSE => Clocked(t, c).last = ee
PROOF
<1>1. /\ c.tick \in Nat \ {0} /\ c.onCompare \in BOOLEAN /\ c.onOverflow \in BOOLEAN
  BY DEF ControlWords
<1>. DEFINE t0 == UpdateCounter(t)
            t1 == [t0 EXCEPT !.tick = c.tick]
            t2 == [t1 EXCEPT !.rest = 0]
            t3 == [t2 EXCEPT !.onCompare = c.onCompare]
            t4 == [t3 EXCEPT !.onOverflow = c.onOverflow]
            Same(u) == u \in TimerState /\ u.paused = t.paused /\ u.gate = t.gate
                       /\ u.last <= ee /\ (t.paused = FALSE => u.last = ee)
<1>2. Same(t0)
  BY Updated DEF Well
<1>3. t4 = Clocked(t, c)
  BY DEF Clocked
<1>. HIDE DEF t0
<1>4. Same(t1) /\ t1.tick = c.tick
  BY <1>1, <1>2 DEF TimerState
<1>. HIDE DEF t1
<1>5. Same(t2) /\ t2.tick = c.tick /\ t2.rest = 0
  BY <1>4 DEF TimerState
<1>. HIDE DEF t2
<1>6. Same(t3) /\ t3.tick = c.tick /\ t3.rest = 0
  BY <1>1, <1>5 DEF TimerState
<1>. HIDE DEF t3
<1>7. Same(t4) /\ t4.tick = c.tick /\ t4.rest = 0
  BY <1>1, <1>6 DEF TimerState
<1>. HIDE DEF t4
<1>. QED BY <1>1, <1>3, <1>7 DEF Well

LEMMA WriteModeSets ==
  ASSUME CyclesAssumption, TimersAssumption, TInv, NEW i \in TimerIds, WriteMode(i)
  PROVE  \E t : Sets(i, t)
PROOF
<1>1. /\ queue \in ListT /\ ee \in Nat /\ strayed \subseteq TimerIds
      /\ Well(timers[i]) /\ timers[i].paused \in BOOLEAN
      /\ writes \in Nat /\ ideal \in [TimerIds -> Nat]
      /\ owed \in [TimerIds -> SUBSET {"compare", "overflow"}]
  BY TFacts DEF TInv, TimersTypeOK
<1>. DEFINE T(c) == Controlled(timers[i], c)
            S(c) == SetPause([t |-> T(c), q |-> queue], i, ~(T(c).enabled /\ ~T(c).gated))
            U(c) == Clocked(S(c).t, c)
<1>2. PICK c \in Controls :
        /\ Becomes(i, [t |-> U(c), q |-> PlanIfRunning(S(c).q, i, U(c))], TRUE)
        /\ strayed' = IF c.gate = NoGate THEN strayed ELSE strayed \cup {i}
  BY DEF WriteMode, Controlled, Clocked
<1>3. c \in ControlWords
  BY DEF TimersAssumption
<1>. DEFINE t == T(c)
            z == [t |-> t, q |-> queue]
            b == ~(t.enabled /\ ~t.gated)
            s == S(c)
            u == U(c)
<1>4. Well(t) /\ t.gate = c.gate /\ t.paused = timers[i].paused
  BY <1>1, <1>3, ControlledIsWell
<1>5. z = [t |-> t, q |-> queue] /\ s = SetPause(z, i, b) /\ u = Clocked(s.t, c)
  OBVIOUS
<1>6. /\ timers' = [timers EXCEPT ![i] = u]
      /\ queue' = PlanIfRunning(s.q, i, u)
      /\ ideal' = [ideal EXCEPT ![i] = Position(u)]
      /\ owed' = [owed EXCEPT ![i] = {}]
  BY <1>2 DEF Becomes
<1>7. b \in BOOLEAN
  OBVIOUS
<1>8. z.t = t /\ z.q = queue
  OBVIOUS
<1>. HIDE DEF T, S, U, t, z, b, s, u
<1>9. Paused(z, i, s)
  BY <1>1, <1>4, <1>5, <1>7, PauseSet, ZenonT(60)
<1>10. NeverIfPaused(z, i)
  BY <1>4, <1>8, EventOfPaused DEF NeverIfPaused
<1>11. /\ Well(s.t) /\ s.t.gate = c.gate /\ Shifted(queue, s.q, {i}) /\ s.q \in ListT
       /\ s.t.paused = TRUE => HasTime(s.q, i, Never)
  BY <1>4, <1>8, <1>9, <1>10 DEF Paused, NeverIfPaused, Shifted
<1>12. /\ Well(u) /\ u.gate = c.gate /\ u.paused = s.t.paused
       /\ u.tick = c.tick /\ (s.t.paused = FALSE => u.last = ee)
  BY <1>1, <1>3, <1>5, <1>11, ClockedIsWell
<1>13. Shifted(s.q, queue', {i}) /\ Aimed(queue', i, u)
  BY <1>1, <1>6, <1>11, <1>12, PlanAims
<1>14. Shifted(queue, queue', {i})
  BY <1>1, <1>11, <1>13, ShiftedMore
<1>15. Position(u) \in Nat
  BY <1>1, <1>12, PositionIsNat
<1>16. /\ ideal' \in [TimerIds -> Nat] /\ owed' \in [TimerIds -> SUBSET {"compare", "overflow"}]
       /\ owed'[i] = {} /\ \A j \in TimerIds \ {i} : owed'[j] = owed[j]
  BY <1>1, <1>6, <1>15
<1>17. /\ strayed' = IF c.gate = NoGate THEN strayed ELSE strayed \cup {i}
       /\ at = "components" /\ writes' = writes + 1
       /\ UNCHANGED <<clocks, pass, frameEnded, frameStart>>
  BY <1>2 DEF WriteMode, Writing
<1>18. u.gate # NoGate => i \in strayed'
  BY <1>12, <1>17
<1>19. writes' \in Nat /\ strayed' \subseteq TimerIds
       /\ \A j \in TimerIds \ {i} : j \in strayed' <=> j \in strayed
  BY <1>1, <1>17
<1>20. (u.paused = FALSE => u.last = ee) /\ \E d \in Controls : u.tick = d.tick
  BY <1>12
<1>21. Sets(i, u)
  BY <1>6, <1>12, <1>13, <1>14, <1>16, <1>17, <1>18, <1>19, <1>20 DEF Sets
<1>. QED BY <1>21

(* gate, for all the timers, in a pass.                                    *)
LEMMA AllGated ==
  ASSUME CyclesAssumption, TimersAssumption, TInv, at = "events",
         NEW high \in BOOLEAN, NEW g, g = GateAll(high)
  PROVE  /\ g.timers \in [TimerIds -> TimerState]
         /\ \A i \in TimerIds : GatedOne(timers[i], g.timers[i], high)
         /\ Shifted(queue, g.q, TimerIds) /\ g.q.closest = queue.closest
         /\ PausedNever(g.q, g.timers)
         /\ \A n \in DOMAIN queue.events :
              queue.events[n].func = "timer" /\ timers[queue.events[n].param].gate = NoGate
                => g.q.events[n] = queue.events[n]
PROOF
<1>1. /\ queue \in ListT /\ ee \in Nat /\ timers \in [TimerIds -> TimerState]
      /\ \A i \in TimerIds : Well(timers[i])
  BY TFacts
<1>2. /\ queue.closest \in Int /\ Len(queue.events) \in Nat
      /\ DOMAIN queue.events = 1 .. Len(queue.events)
      /\ \A n \in DOMAIN queue.events : queue.events[n] \in EventT
  BY <1>1, ListIsTyped
<1>3. /\ queue.closest <= ee
      /\ \A n \in DOMAIN queue.events :
           queue.events[n].func = "timer" => queue.events[n].param \in TimerIds
  BY DEF TInv, Bounds, OneEach
<1>. DEFINE z(i) == [t |-> timers[i], q |-> queue]
            s == [i \in TimerIds |-> Gate(z(i), i, high)]
            Moved(n) == LET e == queue.events[n]
                        IN IF e.func = "timer" THEN s[e.param].q.events[n] ELSE e
            l == [n \in DOMAIN queue.events |-> Moved(n)]
            closests == {s[i].q.closest : i \in TimerIds}
            ts == [i \in TimerIds |-> s[i].t]
<1>4. g = [timers |-> ts,
           q |-> [events |-> l, closest |-> Min({queue.closest} \cup closests)]]
  BY DEF GateAll
<1>5. ASSUME NEW i \in TimerIds
      PROVE  /\ GatedOne(timers[i], s[i].t, high)
             /\ Shifted(queue, s[i].q, {i})
             /\ timers[i].gate = NoGate => s[i] = z(i)
             /\ NeverIfPaused(z(i), i) => NeverIfPaused(s[i], i)
  <2>. DEFINE t == timers[i]
              y == z(i)
              r == s[i]
  <2>1. /\ Well(t) /\ y = [t |-> t, q |-> queue] /\ r = Gate(y, i, high)
        /\ y.t = t /\ y.q = queue
    BY <1>1
  <2>. HIDE DEF t, y, r, s, z
  <2>2. GatedTo(y, i, r, high)
    BY <1>1, <2>1, Gated, ZenonT(60)
  <2>. QED BY <2>1, <2>2 DEF GatedTo, t, y, r
<1>. HIDE DEF s
<1>6. ts \in [TimerIds -> TimerState] /\ \A i \in TimerIds : ts[i] = s[i].t
  BY <1>5 DEF GatedOne, Well
<1>7. closests \subseteq {queue.closest}
  <2>1. ASSUME NEW i \in TimerIds PROVE s[i].q.closest = queue.closest
    BY <1>3, <1>5 DEF Shifted
  <2>. QED BY <2>1
<1>8. Min({queue.closest} \cup closests) = queue.closest
  <2>1. {queue.closest} \cup closests = {queue.closest}
    BY <1>7
  <2>. DEFINE c == queue.closest
  <2>2. c \in Int
    BY <1>2
  <2>. HIDE DEF c
  <2>3. Min({c}) = c
    <3>1. \E x \in {c} : \A y \in {c} : x =< y
      BY <2>2
    <3>2. Min({c}) \in {c}
      BY <3>1 DEF Min
    <3>. QED BY <3>2
  <2>. QED BY <2>1, <2>3 DEF c
<1>. HIDE DEF closests
<1>9. ASSUME NEW n \in DOMAIN queue.events, queue.events[n].func = "timer"
      PROVE  /\ Moved(n) = s[queue.events[n].param].q.events[n]
             /\ Moved(n) \in EventT
             /\ Moved(n).func = "timer" /\ Moved(n).param = queue.events[n].param
  <2>. DEFINE i == queue.events[n].param
  <2>1. i \in TimerIds
    BY <1>3, <1>9
  <2>2. Moved(n) = s[i].q.events[n]
    BY <1>9
  <2>6. i = queue.events[n].param
    OBVIOUS
  <2>. HIDE DEF Moved, i
  <2>3. /\ s[i].q \in ListT /\ n \in DOMAIN s[i].q.events
        /\ s[i].q.events[n].func = queue.events[n].func
        /\ s[i].q.events[n].param = queue.events[n].param
    BY <1>5, <2>1 DEF Shifted
  <2>4. s[i].q.events[n] \in EventT
    BY <2>3, ListIsTyped
  <2>5. /\ Moved(n) = s[i].q.events[n] /\ Moved(n) \in EventT
        /\ Moved(n).func = "timer" /\ Moved(n).param = queue.events[n].param
    BY <1>9, <2>2, <2>3, <2>4
  <2>. QED BY <2>5, <2>6, ZenonT(60)
<1>10. ASSUME NEW n \in DOMAIN queue.events, queue.events[n].func # "timer"
       PROVE  Moved(n) = queue.events[n]
  BY <1>10
<1>. HIDE DEF Moved
<1>11. \A n \in DOMAIN queue.events : l[n] = Moved(n)
  OBVIOUS
<1>12. l \in Seq(EventT) /\ DOMAIN l = DOMAIN queue.events
  <2>1. \A n \in DOMAIN queue.events : Moved(n) \in EventT
    BY <1>2, <1>9, <1>10
  <2>. QED BY <1>2, <2>1
<1>. HIDE DEF l, ts, z
<1>13. /\ g.timers = ts /\ g.q.events = l /\ g.q.closest = queue.closest
       /\ g.q \in ListT
  BY <1>2, <1>4, <1>8, <1>12 DEF ListT
<1>14. Shifted(queue, g.q, TimerIds)
  <2>1. ASSUME NEW n \in DOMAIN queue.events
        PROVE  /\ g.q.events[n].func = queue.events[n].func
               /\ g.q.events[n].param = queue.events[n].param
               /\ \/ g.q.events[n] = queue.events[n]
                  \/ queue.events[n].func = "timer" /\ queue.events[n].param \in TimerIds
    <3>1. g.q.events[n] = Moved(n)
      BY <1>11, <1>13
    <3>. QED BY <1>3, <1>9, <1>10, <3>1
  <2>. QED BY <1>2, <1>12, <1>13, <2>1 DEF Shifted
<1>15. PausedNever(g.q, g.timers)
  <2>1. SUFFICES ASSUME NEW n \in DOMAIN queue.events, g.q.events[n].func = "timer",
                        g.timers[g.q.events[n].param].paused = TRUE
                 PROVE  g.q.events[n].time = Never
    BY <1>12, <1>13 DEF PausedNever
  <2>. DEFINE i == queue.events[n].param
  <2>2. queue.events[n].func = "timer" /\ g.q.events[n] = Moved(n) /\ g.q.events[n].param = i
    BY <1>11, <1>13, <1>14, <2>1 DEF Shifted
  <2>3. i \in TimerIds /\ g.q.events[n] = s[i].q.events[n]
    BY <1>3, <1>9, <2>2
  <2>. HIDE DEF i
  <2>4. s[i].t.paused = TRUE
    BY <1>6, <1>13, <2>1, <2>2, <2>3
  <2>5. NeverIfPaused(z(i), i)
    <3>1. z(i).t = timers[i] /\ z(i).q = queue
      BY DEF z
    <3>. QED BY <2>3, <3>1, EventOfPaused DEF NeverIfPaused
  <2>6. HasTime(s[i].q, i, Never)
    BY <1>5, <2>3, <2>4, <2>5 DEF NeverIfPaused
  <2>7. n \in DOMAIN s[i].q.events
    BY <1>5, <2>3 DEF Shifted
  <2>. QED BY <2>1, <2>2, <2>3, <2>6, <2>7 DEF HasTime, IsEventOf
<1>16. ASSUME NEW n \in DOMAIN queue.events, queue.events[n].func = "timer",
              timers[queue.events[n].param].gate = NoGate
       PROVE  g.q.events[n] = queue.events[n]
  <2>. DEFINE i == queue.events[n].param
  <2>3. i \in TimerIds /\ timers[i].gate = NoGate
    BY <1>3, <1>16
  <2>4. g.q.events[n] = Moved(n)
    BY <1>11, <1>13
  <2>5. Moved(n) = s[i].q.events[n]
    BY <1>9, <1>16
  <2>. HIDE DEF i
  <2>1. i \in TimerIds /\ g.q.events[n] = s[i].q.events[n] /\ timers[i].gate = NoGate
    BY <2>3, <2>4, <2>5
  <2>2. s[i] = z(i)
    BY <1>5, <2>1
  <2>. QED BY <2>1, <2>2 DEF z
<1>17. ASSUME NEW i \in TimerIds PROVE GatedOne(timers[i], g.timers[i], high)
  <2>1. g.timers[i] = s[i].t
    BY <1>6, <1>13
  <2>. QED BY <1>5, <2>1
<1>. QED BY <1>6, <1>13, <1>14, <1>15, <1>16, <1>17

(* The vertical blank: the gate makes ts of the timers and q of the list,  *)
(* and then the callback's event is replaced.                              *)
BlankTo(q, ts, start) ==
  /\ Due /\ it \in DOMAIN queue.events /\ at = "events"
  /\ queue.events[it].func \in {"vblank_start", "vblank_end"} /\ start \in BOOLEAN
  /\ timers' = ts /\ writes' = writes /\ strayed' = strayed
  /\ UNCHANGED <<clocks, pass, frameStart>>
  /\ frameEnded' = (frameEnded \/ queue.events[it].func = "vblank_end")
  /\ ideal' = [i \in TimerIds |-> IF Resets(timers[i], start) THEN Position(ts[i]) ELSE ideal[i]]
  /\ owed' = [i \in TimerIds |-> IF timers[i].gate = NoGate THEN owed[i] ELSE {}]
  /\ ts \in [TimerIds -> TimerState]
  /\ \A i \in TimerIds : GatedOne(timers[i], ts[i], start)
  /\ Shifted(queue, q, TimerIds) /\ q.closest = queue.closest
  /\ PausedNever(q, ts)
  /\ \A n \in DOMAIN queue.events :
       queue.events[n].func = "timer" /\ timers[queue.events[n].param].gate = NoGate
         => q.events[n] = queue.events[n]
  /\ Passed(q, queue', it) /\ queue'.closest <= queue.closest
  /\ \A n \in Len(q.events) .. Len(queue'.events) : queue'.events[n].func # "timer"

LEMMA BlankIs ==
  ASSUME CyclesAssumption, TimersAssumption, TInv, Blank
  PROVE  \E q, ts, start : BlankTo(q, ts, start)
PROOF
<1>1. /\ queue \in ListT /\ ee \in Nat /\ timers \in [TimerIds -> TimerState]
      /\ queue.closest \in Int /\ Never \in Nat /\ ee < Never /\ newTime \in Int
      /\ \A n \in DOMAIN queue.events : queue.events[n].time \in Int
  BY TFacts, ListIsTyped
<1>. DEFINE start == queue.events[it].func = "vblank_start"
            g == GateAll(start)
            q == g.q
            r == IF start THEN AddEvent(Raise(q), "gs_vblank", VblankDelay, 0) ELSE Raise(q)
<1>2. /\ Due /\ it \in DOMAIN queue.events /\ at = "events"
      /\ queue.events[it].func \in {"vblank_start", "vblank_end"}
      /\ timers' = g.timers /\ writes' = writes
      /\ strayed' = strayed
      /\ UNCHANGED <<clocks, pass, frameStart>>
      /\ queue' = Erase(r, it)
      /\ ideal' = [i \in TimerIds |->
                     IF Resets(timers[i], start) THEN Position(g.timers[i]) ELSE ideal[i]]
      /\ owed' = [i \in TimerIds |-> IF timers[i].gate = NoGate THEN owed[i] ELSE {}]
  BY DEF Blank, Due
<1>3. frameEnded' = (frameEnded \/ queue.events[it].func = "vblank_end")
  <2>1. ~start <=> queue.events[it].func = "vblank_end"
    BY <1>2
  <2>. QED BY <2>1 DEF Blank
<1>4. start \in BOOLEAN
  OBVIOUS
<1>. HIDE DEF start
<1>5. g = GateAll(start)
  OBVIOUS
<1>. HIDE DEF g
<1>6. /\ g.timers \in [TimerIds -> TimerState]
      /\ \A i \in TimerIds : GatedOne(timers[i], g.timers[i], start)
      /\ Shifted(queue, q, TimerIds) /\ q.closest = queue.closest
      /\ PausedNever(q, g.timers)
      /\ \A n \in DOMAIN queue.events :
           queue.events[n].func = "timer" /\ timers[queue.events[n].param].gate = NoGate
             => q.events[n] = queue.events[n]
  BY <1>2, <1>4, <1>5, AllGated
<1>. HIDE DEF q
<1>7. /\ q \in ListT /\ DOMAIN q.events = DOMAIN queue.events
      /\ \A n \in DOMAIN queue.events :
           /\ q.events[n].func = queue.events[n].func
           /\ q.events[n].param = queue.events[n].param
           /\ queue.events[n].func # "timer" => q.events[n] = queue.events[n]
  BY <1>6 DEF Shifted
<1>8. Extended(q, r, Plain)
  <2>1. /\ {"gs_vblank", "int_check"} \subseteq Plain /\ Plain \in SUBSET Funcs
        /\ VblankDelay \in Nat /\ IntDelay \in Nat
    BY DEF Plain, Funcs, CyclesAssumption
  <2>2. Extended(q, q, Plain)
    BY <1>7, ExtendedSelf
  <2>3. Extended(q, Raise(q), Plain)
    BY <1>1, <1>7, <2>1, <2>2, ExtendedMore DEF Raise
  <2>4. Extended(q, AddEvent(Raise(q), "gs_vblank", VblankDelay, 0), Plain)
    BY <1>1, <1>7, <2>1, <2>3, ExtendedMore
  <2>. QED BY <2>3, <2>4
<1>. HIDE DEF r
<1>9. it \in DOMAIN q.events /\ q.events[it].func # "timer"
  BY <1>2, <1>7
<1>10. /\ Passed(q, queue', it)
       /\ queue'.closest <= queue.closest
       /\ \A n \in Len(q.events) .. Len(queue'.events) : queue'.events[n].func \in Plain
  BY <1>2, <1>6, <1>7, <1>8, <1>9, ExtendedPassed
<1>11. \A n \in Len(q.events) .. Len(queue'.events) : queue'.events[n].func # "timer"
  BY <1>10 DEF Plain, Funcs
<1>. DEFINE ts == g.timers
<1>12. /\ timers' = ts /\ ts \in [TimerIds -> TimerState]
       /\ \A i \in TimerIds : GatedOne(timers[i], ts[i], start)
       /\ PausedNever(q, ts)
       /\ ideal' = [i \in TimerIds |->
                      IF Resets(timers[i], start) THEN Position(ts[i]) ELSE ideal[i]]
  BY <1>2, <1>6
<1>. HIDE DEF ts
<1>13. BlankTo(q, ts, start)
  BY <1>2, <1>3, <1>4, <1>6, <1>10, <1>11, <1>12 DEF BlankTo
<1>. QED BY <1>13

LEMMA BlankKeeps ==
  ASSUME CyclesAssumption, TimersAssumption, TInv, Blank PROVE TInv'
PROOF
<1>1. /\ queue \in ListT /\ ee \in Nat /\ timers \in [TimerIds -> TimerState]
      /\ queue.closest \in Int /\ Never \in Nat /\ ee < Never /\ newTime \in Int
      /\ \A n \in DOMAIN queue.events : queue.events[n].time \in Int
  BY TFacts, ListIsTyped
<1>2. PICK q, ts, start : BlankTo(q, ts, start)
  BY BlankIs
<1>3. /\ Due /\ it \in DOMAIN queue.events /\ at = "events"
      /\ queue.events[it].func \in {"vblank_start", "vblank_end"}
      /\ timers' = ts /\ writes' = writes
      /\ strayed' = strayed
      /\ UNCHANGED <<clocks, pass, frameStart>>
      /\ frameEnded' = (frameEnded \/ queue.events[it].func = "vblank_end")
  BY <1>2 DEF BlankTo
<1>4. /\ ideal' = [i \in TimerIds |->
                     IF Resets(timers[i], start) THEN Position(ts[i]) ELSE ideal[i]]
      /\ owed' = [i \in TimerIds |-> IF timers[i].gate = NoGate THEN owed[i] ELSE {}]
  BY <1>2 DEF BlankTo
<1>6. /\ ts \in [TimerIds -> TimerState]
      /\ \A i \in TimerIds : GatedOne(timers[i], ts[i], start)
      /\ Shifted(queue, q, TimerIds) /\ q.closest = queue.closest
      /\ PausedNever(q, ts)
      /\ \A n \in DOMAIN queue.events :
           queue.events[n].func = "timer" /\ timers[queue.events[n].param].gate = NoGate
             => q.events[n] = queue.events[n]
  BY <1>2 DEF BlankTo
<1>7. /\ q \in ListT /\ DOMAIN q.events = DOMAIN queue.events
      /\ \A n \in DOMAIN queue.events :
           /\ q.events[n].func = queue.events[n].func
           /\ q.events[n].param = queue.events[n].param
           /\ queue.events[n].func # "timer" => q.events[n] = queue.events[n]
  BY <1>6 DEF Shifted
<1>9. it \in DOMAIN q.events /\ q.events[it].func # "timer"
  BY <1>3, <1>7
<1>10. Passed(q, queue', it) /\ queue'.closest <= queue.closest
  BY <1>2 DEF BlankTo
<1>11. \A n \in Len(q.events) .. Len(queue'.events) : queue'.events[n].func # "timer"
  BY <1>2 DEF BlankTo
<1>12. /\ OneEach(queue) /\ \A i \in TimerIds : timers[i].gate # NoGate => i \in strayed
       /\ queue.closest <= ee /\ newTime <= Never
  BY <1>3 DEF TInv, Bounds
<1>13. OneEach(q)
  BY <1>1, <1>6, <1>12, ShiftedKeeps
<1>14. OneEach(queue') /\ PausedNever(queue', timers')
  BY <1>3, <1>6, <1>7, <1>9, <1>10, <1>11, <1>13, PassedOther
<1>. DEFINE A == Astray(timers, strayed)
            B == Astray(timers', strayed)
<1>15. ASSUME NEW n \in DOMAIN queue.events
       PROVE  \/ Exempt(q.events[n], B)
              \/ q.events[n].time = Never
              \/ q.events[n] = queue.events[n] /\ ~Exempt(queue.events[n], A)
  <2>1. CASE queue.events[n].func # "timer"
    BY <1>7, <2>1 DEF Exempt
  <2>2. CASE queue.events[n].func = "timer"
    <3>. DEFINE i == queue.events[n].param
    <3>1. i \in TimerIds /\ q.events[n].func = "timer" /\ q.events[n].param = i
      BY <1>7, <1>12, <2>2 DEF OneEach
    <3>2. timers'[i].paused \in BOOLEAN
      BY <1>3, <1>6, <3>1 DEF TimerState
    <3>3. CASE timers'[i].paused = TRUE
      BY <1>3, <1>6, <1>7, <3>1, <3>3 DEF PausedNever
    <3>4. CASE timers'[i].paused = FALSE /\ timers[i].gate # NoGate
      <4>1. i \in B
        BY <1>12, <3>1, <3>4 DEF Astray
      <4>. QED BY <3>1, <4>1 DEF Exempt
    <3>5. CASE timers'[i].paused = FALSE /\ timers[i].gate = NoGate
      <4>1. q.events[n] = queue.events[n] /\ timers'[i] = timers[i]
        BY <1>3, <1>6, <2>2, <3>1, <3>5 DEF GatedOne
      <4>2. i \in A <=> i \in B
        BY <4>1 DEF Astray
      <4>. QED BY <2>2, <4>1, <4>2 DEF Exempt
    <3>. QED BY <3>2, <3>3, <3>4, <3>5
  <2>. QED BY <2>1, <2>2
<1>16. Since(queue, A, ee) /\ SinceBefore(queue, A, it, newTime)
  BY <1>3 DEF TInv, Bounds
<1>17. B = Astray(timers', strayed)
  OBVIOUS
<1>. HIDE DEF A, B
<1>18. Since(q, B, ee)
  <2>1. SUFFICES ASSUME NEW n \in DOMAIN queue.events
                 PROVE  Exempt(q.events[n], B) \/ ee <= q.events[n].time
    BY <1>7 DEF Since
  <2>. QED BY <1>1, <1>15, <1>16 DEF Since
<1>19. SinceBefore(q, B, it, newTime)
  <2>1. SUFFICES ASSUME NEW n \in DOMAIN queue.events, n < it
                 PROVE  Exempt(q.events[n], B) \/ newTime <= q.events[n].time
    BY <1>7 DEF SinceBefore
  <2>. QED BY <1>1, <1>12, <1>15, <1>16, <2>1 DEF SinceBefore
<1>20. \A i \in TimerIds : /\ Well(ts[i]) /\ ts[i].gate = timers[i].gate
  BY <1>6 DEF GatedOne
<1>21. /\ timers' \in [TimerIds -> TimerState]
       /\ \A i \in TimerIds : timers'[i].rest < timers'[i].tick /\ timers'[i].last <= ee
       /\ \A i \in TimerIds : timers'[i].gate # NoGate => i \in strayed
  BY <1>3, <1>6, <1>12, <1>20 DEF Well
<1>22. ideal' \in [TimerIds -> Nat] /\ owed' \in [TimerIds -> SUBSET {"compare", "overflow"}]
  <2>1. ideal \in [TimerIds -> Nat] /\ owed \in [TimerIds -> SUBSET {"compare", "overflow"}]
    BY DEF TInv, TimersTypeOK
  <2>2. \A i \in TimerIds : Position(ts[i]) \in Nat
    BY <1>1, <1>20, PositionIsNat
  <2>. QED BY <1>4, <2>1, <2>2
<1>. QED BY <1>3, <1>6, <1>10, <1>14, <1>17, <1>18, <1>19, <1>21, <1>22, PassedStep

-----------------------------------------------------------------------------
(* timer_event: the timer when its callback for the compare value is done  *)
(* (Met), and when that for the overflow is (Turned); the list before the  *)
(* timer's next event is added to it (Called).                             *)
Reached(t) == Compared(t.counter, UpdateCounter(t)) /\ UpdateCounter(t).onCompare

Met(t) ==
  IF Reached(t)
  THEN [UpdateCounter(t) EXCEPT !.counter = IF UpdateCounter(t).clear THEN 0 ELSE @,
                                !.compared = TRUE]
  ELSE UpdateCounter(t)

Turned(t) ==
  IF Met(t).counter > Mask
  THEN [Met(t) EXCEPT !.counter = @ - (Mask + 1),
                      !.overflowed = @ \/ Met(t).onOverflow]
  ELSE Met(t)

Called(q, i, t) ==
  LET q1 == IF Reached(t) /\ UpdateCounter(t).clear THEN PlanIfRunning(q, i, Met(t)) ELSE q
      q2 == IF Reached(t) /\ ~UpdateCounter(t).compared THEN Raise(q1) ELSE q1
  IN IF Met(t).counter > Mask /\ Met(t).onOverflow /\ ~Met(t).overflowed
     THEN Raise(q2) ELSE q2

LEMMA TimerEventIs ==
  ASSUME NEW i, TimerEvent(i)
  PROVE  /\ timers' = [timers EXCEPT ![i] = Turned(timers[i])]
         /\ queue' = Erase(Restart(Called(queue, i, timers[i]), i, Turned(timers[i])), it)
         /\ ideal' = IF Reached(timers[i]) /\ UpdateCounter(timers[i]).clear
                     THEN [ideal EXCEPT ![i] = Position(Turned(timers[i]))] ELSE ideal
         /\ owed' = [owed EXCEPT ![i] =
                       @ \ {h \in {"compare", "overflow"} :
                              \/ /\ Reached(timers[i])
                                 /\ h = "compare" \/ UpdateCounter(timers[i]).clear
                              \/ Met(timers[i]).counter > Mask /\ h = "overflow"}]
PROOF BY DEF TimerEvent, Reached, Met, Turned, Called

(* What timer i's event, the k-th of q, has done to the list.              *)
Readied(q, p, k, i) ==
  /\ p \in ListT /\ p.closest <= q.closest
  /\ Len(q.events) <= Len(p.events)
  /\ IsEventOf(p.events[k], i)
  /\ \A n \in 1 .. Len(q.events) : n # k => p.events[n] = q.events[n]
  /\ \A n \in Len(q.events) + 1 .. Len(p.events) :
       p.events[n].func = "int_check" /\ ee <= p.events[n].time

LEMMA ReadiedSelf ==
  ASSUME NEW q \in ListT, NEW k, NEW i, IsEventOf(q.events[k], i)
  PROVE  Readied(q, q, k, i)
PROOF
<1>1. Len(q.events) \in Nat /\ q.closest \in Int
  BY ListIsTyped
<1>. QED BY <1>1 DEF Readied

LEMMA ReadiedByPlan ==
  ASSUME NEW q \in ListT, NEW k \in DOMAIN q.events, NEW i \in TimerIds,
         OneEach(q), IsEventOf(q.events[k], i), NEW p, Shifted(q, p, {i})
  PROVE  Readied(q, p, k, i)
PROOF
<1>1. /\ p \in ListT /\ p.closest <= q.closest /\ DOMAIN p.events = DOMAIN q.events
      /\ \A n \in DOMAIN q.events :
           /\ p.events[n].func = q.events[n].func
           /\ p.events[n].param = q.events[n].param
           /\ p.events[n] = q.events[n] \/ IsEventOf(q.events[n], i)
  BY DEF Shifted, IsEventOf
<1>2. PICK j \in DOMAIN q.events :
        \A l \in DOMAIN q.events : IsEventOf(q.events[l], i) <=> l = j
  BY DEF OneEach
<1>3. ASSUME NEW n \in DOMAIN q.events, n # k PROVE p.events[n] = q.events[n]
  BY <1>1, <1>2, <1>3
<1>4. /\ DOMAIN q.events = 1 .. Len(q.events) /\ DOMAIN p.events = 1 .. Len(p.events)
      /\ Len(q.events) \in Nat /\ Len(p.events) \in Nat
  BY <1>1, ListIsTyped
<1>5. Len(p.events) = Len(q.events)
  <2>. DEFINE m == Len(q.events)  n == Len(p.events)
  <2>1. m \in Nat /\ n \in Nat /\ 1 .. m = 1 .. n
    BY <1>1, <1>4
  <2>. HIDE DEF m, n
  <2>2. (m \in 1 .. m \/ m = 0) /\ (n \in 1 .. n \/ n = 0)
    BY <2>1
  <2>3. m <= n /\ n <= m
    BY <2>1, <2>2
  <2>4. m = n
    BY <2>1, <2>3
  <2>. QED BY <2>4 DEF m, n
<1>6. IsEventOf(p.events[k], i)
  BY <1>1 DEF IsEventOf
<1>. QED BY <1>1, <1>3, <1>4, <1>5, <1>6 DEF Readied

LEMMA ReadiedByRaise ==
  ASSUME CyclesAssumption, NEW q \in ListT, NEW k \in DOMAIN q.events, NEW i, ee \in Nat,
         NEW p, Readied(q, p, k, i)
  PROVE  Readied(q, Raise(p), k, i)
PROOF
<1>. DEFINE r == Raise(p)
            m == Len(q.events)
            n == Len(p.events)
<1>1. /\ p \in ListT /\ p.closest <= q.closest /\ m <= n
      /\ IsEventOf(p.events[k], i)
      /\ \A j \in 1 .. m : j # k => p.events[j] = q.events[j]
      /\ \A j \in m + 1 .. n : p.events[j].func = "int_check" /\ ee <= p.events[j].time
  BY DEF Readied
<1>2. IntDelay \in Nat /\ IntDelay \in Int /\ "int_check" \in Funcs \cup {"timer"}
      /\ 0 \in Nat /\ ee \in Int
  BY DEF CyclesAssumption, Funcs
<1>3. /\ r \in ListT /\ r.closest <= p.closest
      /\ Len(r.events) = n + 1
      /\ \A j \in 1 .. n : r.events[j] = p.events[j]
      /\ r.events[n + 1] = Event("int_check", ee + IntDelay, 0)
  <2>. DEFINE a == AddEvent(p, "int_check", IntDelay, 0)
  <2>1. r = a
    BY DEF Raise
  <2>2. /\ a \in ListT /\ a.closest <= p.closest
        /\ Len(a.events) = Len(p.events) + 1
        /\ \A j \in 1 .. Len(p.events) : a.events[j] = p.events[j]
        /\ a.events[Len(p.events) + 1] = Event("int_check", ee + IntDelay, 0)
    BY <1>1, <1>2, Added DEF Longer
  <2>. HIDE DEF a, r
  <2>. QED BY <2>1, <2>2
<1>4. r.events[n + 1].func = "int_check" /\ r.events[n + 1].time = ee + IntDelay
  BY <1>3 DEF Event
<1>. HIDE DEF r
<1>5. /\ m \in Nat /\ n \in Nat /\ k \in 1 .. m
      /\ p.closest \in Int /\ q.closest \in Int /\ r.closest \in Int
  BY <1>1, <1>3, ListIsTyped
<1>. HIDE DEF m, n
<1>6. IsEventOf(r.events[k], i)
  BY <1>1, <1>3, <1>5
<1>7. ASSUME NEW j \in 1 .. m, j # k PROVE r.events[j] = q.events[j]
  BY <1>1, <1>3, <1>5, <1>7
<1>8. ASSUME NEW j \in m + 1 .. n + 1
      PROVE  r.events[j].func = "int_check" /\ ee <= r.events[j].time
  <2>1. CASE j = n + 1
    BY <1>2, <1>4, <2>1
  <2>2. CASE j # n + 1
    <3>1. j \in 1 .. n /\ j \in m + 1 .. n
      BY <1>5, <2>2
    <3>. QED BY <1>1, <1>3, <3>1
  <2>. QED BY <2>1, <2>2
<1>9. r.closest <= q.closest /\ m <= n + 1
  BY <1>1, <1>3, <1>5
<1>. QED BY <1>3, <1>6, <1>7, <1>8, <1>9 DEF Readied, m, n, r

(* restart_timer, and the erasing of the event that has been called.       *)
LEMMA Restarted ==
  ASSUME CyclesAssumption, TimersAssumption, ee \in Nat,
         NEW q \in ListT, NEW k \in DOMAIN q.events, NEW i \in TimerIds, OneEach(q),
         IsEventOf(q.events[k], i), NEW r, Readied(q, r, k, i),
         NEW t, Well(t), NEW p, p = Erase(Restart(r, i, t), k)
  PROVE  /\ Passed(q, p, k) /\ p.closest <= q.closest
         /\ Len(q.events) <= Len(p.events) /\ IsEventOf(p.events[Len(p.events)], i)
         /\ \A n \in Len(q.events) .. Len(p.events) - 1 : p.events[n].func # "timer"
         /\ p.events[Len(p.events)].time = ee + EventDelta(t)
PROOF
<1>. DEFINE m == Len(q.events)
            n == Len(r.events)
            delta == Wrap(ee + Never) - ee
            a == AddEvent(r, "timer", delta, i)
            b == Plan(a, i, t)
            d == EventDelta(t)
<1>1. /\ r \in ListT /\ r.closest <= q.closest /\ m <= n
      /\ IsEventOf(r.events[k], i)
      /\ \A j \in 1 .. m : j # k => r.events[j] = q.events[j]
      /\ \A j \in m + 1 .. n : r.events[j].func = "int_check" /\ ee <= r.events[j].time
  BY DEF Readied
<1>2. /\ Never \in Nat /\ delta \in Int /\ ee + delta = Wrap(ee + Never)
      /\ "timer" \in Funcs \cup {"timer"} /\ i \in Nat /\ ee \in Int
  BY DEF CyclesAssumption, TimersAssumption, Wrap
<1>3. Restart(r, i, t) = b
  BY <1>2 DEF Restart, AddEvent
<1>. HIDE DEF delta
<1>4. /\ a \in ListT /\ a.closest <= r.closest
      /\ Len(a.events) = n + 1
      /\ \A j \in 1 .. n : a.events[j] = r.events[j]
      /\ a.events[n + 1] = Event("timer", ee + delta, i)
  <2>1. r \in ListT /\ ee \in Int /\ "timer" \in Funcs \cup {"timer"} /\ i \in Nat
        /\ delta \in Int
    BY <1>1, <1>2
  <2>2. Grown(r, a, Event("timer", ee + delta, i))
    BY <2>1, AddEventGrows, ZenonT(60)
  <2>. HIDE DEF a
  <2>. QED BY <2>2 DEF Grown
<1>5. IsEventOf(a.events[n + 1], i)
  BY <1>4 DEF Event, IsEventOf
<1>6. d \in Nat
  BY Deltas
<1>. HIDE DEF a
<1>7. Shifted(a, b, {i}) /\ HasTime(b, i, ee + d)
  BY <1>4, Planned
<1>. HIDE DEF b, d
<1>8. /\ b \in ListT /\ b.closest <= a.closest /\ DOMAIN b.events = DOMAIN a.events
      /\ \A j \in DOMAIN a.events :
           /\ b.events[j].func = a.events[j].func
           /\ b.events[j].param = a.events[j].param
           /\ b.events[j] = a.events[j] \/ IsEventOf(a.events[j], i)
  BY <1>7 DEF Shifted, IsEventOf
<1>9. /\ m \in Nat /\ n \in Nat /\ k \in 1 .. m /\ DOMAIN q.events = 1 .. m
      /\ DOMAIN a.events = 1 .. n + 1 /\ DOMAIN b.events = 1 .. Len(b.events)
      /\ Len(b.events) \in Nat
      /\ q.closest \in Int /\ r.closest \in Int /\ a.closest \in Int /\ b.closest \in Int
  BY <1>1, <1>4, <1>8, ListIsTyped
<1>10. Len(b.events) = n + 1
  <2>. DEFINE l == Len(b.events)
  <2>1. l \in Nat /\ n + 1 \in Nat /\ 1 .. l = 1 .. n + 1
    BY <1>8, <1>9
  <2>. HIDE DEF l, n
  <2>2. (l \in 1 .. l \/ l = 0) /\ n + 1 \in 1 .. n + 1
    BY <1>9, <2>1
  <2>3. l <= n + 1 /\ n + 1 <= l
    BY <2>1, <2>2
  <2>4. l = n + 1
    BY <2>1, <2>3
  <2>. QED BY <2>4 DEF l
<1>. HIDE DEF m, n
<1>11. k \in DOMAIN b.events
  BY <1>1, <1>8, <1>9
<1>12. /\ p \in ListT /\ p.closest = b.closest
       /\ Len(p.events) = n
       /\ \A j \in 1 .. n : p.events[j] = IF j < k THEN b.events[j] ELSE b.events[j + 1]
  <2>1. p = Erase(b, k) /\ n + 1 - 1 = n
    BY <1>3, <1>9
  <2>2. b \in ListT
    BY <1>8
  <2>3. /\ Erase(b, k) \in ListT /\ Erase(b, k).closest = b.closest
        /\ Len(Erase(b, k).events) = Len(b.events) - 1
        /\ \A j \in 1 .. Len(b.events) - 1 :
             Erase(b, k).events[j] = IF j < k THEN b.events[j] ELSE b.events[j + 1]
    BY <1>11, <2>2, Erased
  <2>4. Len(b.events) - 1 = n
    BY <1>9, <1>10, <2>1
  <2>. QED BY <2>1, <2>3, <2>4
<1>13. \A j \in 1 .. m : j # k => ~IsEventOf(q.events[j], i)
  <2>1. PICK u \in DOMAIN q.events :
          \A l \in DOMAIN q.events : IsEventOf(q.events[l], i) <=> l = u
    BY DEF OneEach
  <2>. QED BY <1>9, <2>1
<1>14. ASSUME NEW j \in 1 .. m, j # k PROVE b.events[j] = q.events[j]
  <2>1. j \in 1 .. n /\ j \in DOMAIN a.events
    BY <1>1, <1>9
  <2>2. a.events[j] = q.events[j]
    BY <1>1, <1>4, <1>14, <2>1
  <2>. QED BY <1>8, <1>13, <1>14, <2>1, <2>2
<1>15. ASSUME NEW j \in m + 1 .. n
       PROVE  b.events[j].func = "int_check" /\ ee <= b.events[j].time
  <2>1. j \in 1 .. n /\ j \in DOMAIN a.events
    BY <1>1, <1>9
  <2>2. a.events[j] = r.events[j] /\ r.events[j].func = "int_check" /\ ee <= r.events[j].time
    BY <1>1, <1>4, <2>1
  <2>. QED BY <1>8, <2>1, <2>2 DEF IsEventOf
<1>16. IsEventOf(b.events[n + 1], i) /\ b.events[n + 1].time = ee + d
  <2>1. n + 1 \in DOMAIN a.events
    BY <1>9
  <2>2. IsEventOf(b.events[n + 1], i)
    BY <1>5, <1>8, <2>1 DEF IsEventOf
  <2>. QED BY <1>7, <1>8, <2>1, <2>2 DEF HasTime
<1>17. ASSUME NEW j \in 1 .. m - 1
       PROVE  p.events[j] = IF j < k THEN q.events[j] ELSE q.events[j + 1]
  <2>1. j \in 1 .. n /\ j \in 1 .. m /\ j + 1 \in 1 .. m
    BY <1>1, <1>9
  <2>2. CASE j < k
    <3>1. j # k
      BY <1>9, <2>2
    <3>. QED BY <1>12, <1>14, <2>1, <2>2, <3>1
  <2>3. CASE ~(j < k)
    <3>1. j + 1 # k
      BY <1>9, <2>3
    <3>. QED BY <1>12, <1>14, <2>1, <2>3, <3>1
  <2>. QED BY <2>2, <2>3
<1>18. ASSUME NEW j \in m .. n
       PROVE  p.events[j] = b.events[j + 1]
  <2>1. j \in 1 .. n /\ ~(j < k)
    BY <1>9
  <2>. QED BY <1>12, <2>1
<1>19. IsEventOf(p.events[n], i) /\ p.events[n].time = ee + d
  <2>1. n \in m .. n
    BY <1>1, <1>9
  <2>. QED BY <1>16, <1>18, <2>1
<1>20. ASSUME NEW j \in m .. n - 1
       PROVE  p.events[j].func = "int_check" /\ ee <= p.events[j].time
  <2>1. j \in m .. n /\ j + 1 \in m + 1 .. n
    BY <1>9
  <2>. QED BY <1>15, <1>18, <2>1
<1>21. ASSUME NEW j \in m .. n
       PROVE  p.events[j].func \notin {"vblank_start", "vblank_end"} /\ ee <= p.events[j].time
  <2>1. CASE j = n
    <3>1. ee <= ee + d
      BY <1>6
    <3>. QED BY <1>19, <2>1, <3>1 DEF IsEventOf
  <2>2. CASE j # n
    <3>1. j \in m .. n - 1
      BY <1>9, <2>2
    <3>. QED BY <1>20, <3>1
  <2>. QED BY <2>1, <2>2
<1>22. m - 1 <= n /\ p.closest <= q.closest
  <2>1. m \in Nat /\ n \in Nat /\ m <= n
    BY <1>1, <1>9
  <2>2. /\ q.closest \in Int /\ r.closest \in Int /\ a.closest \in Int /\ b.closest \in Int
    BY <1>9
  <2>3. r.closest <= q.closest
    BY <1>1
  <2>4. a.closest <= r.closest
    BY <1>4
  <2>5. b.closest <= a.closest
    BY <1>8
  <2>6. p.closest = b.closest
    BY <1>12
  <2>. QED BY <2>1, <2>2, <2>3, <2>4, <2>5, <2>6
<1>23. Passed(q, p, k)
  BY <1>12, <1>17, <1>21, <1>22 DEF Passed, m
<1>24. \A j \in m .. Len(p.events) - 1 : p.events[j].func # "timer"
  BY <1>12, <1>20
<1>. QED BY <1>1, <1>12, <1>19, <1>22, <1>23, <1>24 DEF m, d

LEMMA TurnedIs ==
  ASSUME TimersAssumption, ee \in Nat, NEW t, Well(t), t.paused = FALSE
  PROVE  /\ Well(Met(t)) /\ Met(t).paused = FALSE /\ Met(t).gate = t.gate
         /\ Met(t).tick = t.tick /\ Met(t).target = t.target /\ Met(t).last = ee
         /\ Met(t).onCompare = t.onCompare /\ Met(t).onOverflow = t.onOverflow
         /\ Met(t).counter = IF Reached(t) /\ UpdateCounter(t).clear
                             THEN 0 ELSE UpdateCounter(t).counter
         /\ Met(t).rest = UpdateCounter(t).rest
         /\ Well(Turned(t)) /\ Turned(t).paused = FALSE /\ Turned(t).gate = t.gate
         /\ Turned(t).tick = t.tick /\ Turned(t).target = t.target /\ Turned(t).last = ee
         /\ Turned(t).counter = IF Met(t).counter > Mask
                                THEN Met(t).counter - (Mask + 1) ELSE Met(t).counter
         /\ Turned(t).rest = UpdateCounter(t).rest
PROOF
<1>. DEFINE u == UpdateCounter(t)
            v == Met(t)
            w == Turned(t)
            c == IF u.clear THEN 0 ELSE u.counter
            v1 == [u EXCEPT !.counter = c]
            v2 == [v1 EXCEPT !.compared = TRUE]
            o == (v.overflowed \/ v.onOverflow)
            w1 == [v EXCEPT !.counter = v.counter - (Mask + 1)]
            w2 == [w1 EXCEPT !.overflowed = o]
            Same(x) == /\ x \in TimerState /\ x.paused = FALSE /\ x.gate = t.gate
                       /\ x.tick = t.tick /\ x.target = t.target /\ x.last = ee
                       /\ x.onCompare = t.onCompare /\ x.onOverflow = t.onOverflow
                       /\ x.rest = u.rest
<1>0. Mask \in Nat
  BY DEF TimersAssumption
<1>1. Same(u) /\ u.rest < u.tick
  BY Updated DEF Well
<1>2. u.clear \in BOOLEAN /\ u.counter \in Nat
  BY <1>1 DEF TimerState
<1>3. Reached(t) => v = [u EXCEPT !.counter = c, !.compared = TRUE]
  BY DEF Met
<1>4. ~Reached(t) => v = u
  BY DEF Met
<1>5. c \in Nat
  BY <1>2
<1>a. c = IF u.clear THEN 0 ELSE u.counter
  OBVIOUS
<1>. HIDE DEF u, c, v
<1>6. v2 = [u EXCEPT !.counter = c, !.compared = TRUE]
  OBVIOUS
<1>7. Same(v1) /\ v1.counter = c
  BY <1>1, <1>5 DEF TimerState
<1>. HIDE DEF v1
<1>8. Same(v2) /\ v2.counter = c
  BY <1>7 DEF TimerState
<1>. HIDE DEF v2
<1>9. Same(v) /\ v.counter = IF Reached(t) /\ u.clear THEN 0 ELSE u.counter
  BY <1>1, <1>3, <1>4, <1>6, <1>8, <1>a
<1>10. v.counter \in Nat /\ v.overflowed \in BOOLEAN /\ v.onOverflow \in BOOLEAN
  BY <1>9 DEF TimerState
<1>11. o \in BOOLEAN
  BY <1>10
<1>12. v.counter > Mask =>
         w = [v EXCEPT !.counter = v.counter - (Mask + 1), !.overflowed = o]
  <2>1. SUFFICES ASSUME v.counter > Mask
                 PROVE  w = [v EXCEPT !.counter = v.counter - (Mask + 1), !.overflowed = o]
    OBVIOUS
  <2>2. w = [v EXCEPT !.counter = @ - (Mask + 1), !.overflowed = @ \/ v.onOverflow]
    BY <2>1 DEF Turned, v
  <2>. QED BY <1>9, <2>2 DEF TimerState
<1>13. ~(v.counter > Mask) => w = v
  BY DEF Turned, v
<1>. HIDE DEF o, w
<1>14. w2 = [v EXCEPT !.counter = v.counter - (Mask + 1), !.overflowed = o]
  OBVIOUS
<1>15. v.counter > Mask => Same(w1) /\ w1.counter = v.counter - (Mask + 1)
  <2>1. SUFFICES ASSUME v.counter > Mask
                 PROVE  Same(w1) /\ w1.counter = v.counter - (Mask + 1)
    OBVIOUS
  <2>2. v.counter - (Mask + 1) \in Nat
    BY <1>0, <1>10, <2>1
  <2>. QED BY <1>9, <2>2 DEF TimerState
<1>. HIDE DEF w1
<1>16. v.counter > Mask => Same(w2) /\ w2.counter = v.counter - (Mask + 1)
  BY <1>11, <1>15 DEF TimerState
<1>. HIDE DEF w2
<1>17. Same(w) /\ w.counter = IF v.counter > Mask THEN v.counter - (Mask + 1) ELSE v.counter
  BY <1>9, <1>12, <1>13, <1>14, <1>16
<1>18. v.rest < v.tick /\ v.last <= ee /\ w.rest < w.tick /\ w.last <= ee
  BY <1>1, <1>9, <1>17
<1>. QED BY <1>9, <1>17, <1>18 DEF Well, u, v, w

LEMMA CalledReadies ==
  ASSUME CyclesAssumption, TimersAssumption, ee \in Nat,
         NEW q \in ListT, NEW k \in DOMAIN q.events, NEW i \in TimerIds, OneEach(q),
         IsEventOf(q.events[k], i), NEW t, Well(t), t.paused = FALSE
  PROVE  Readied(q, Called(q, i, t), k, i)
PROOF
<1>. DEFINE q1 == IF Reached(t) /\ UpdateCounter(t).clear
                  THEN PlanIfRunning(q, i, Met(t)) ELSE q
            q2 == IF Reached(t) /\ ~UpdateCounter(t).compared THEN Raise(q1) ELSE q1
            q3 == IF Met(t).counter > Mask /\ Met(t).onOverflow /\ ~Met(t).overflowed
                  THEN Raise(q2) ELSE q2
<1>1. Called(q, i, t) = q3
  BY DEF Called
<1>2. Well(Met(t))
  BY TurnedIs
<1>3. Readied(q, PlanIfRunning(q, i, Met(t)), k, i)
  <2>. DEFINE m == Met(t)
              p == PlanIfRunning(q, i, m)
  <2>. HIDE DEF m
  <2>1. Shifted(q, p, {i})
    BY <1>2, PlannedIfRunning DEF m
  <2>. HIDE DEF p
  <2>2. Readied(q, p, k, i)
    BY <2>1, ReadiedByPlan
  <2>. QED BY <2>2 DEF p, m
<1>4. Readied(q, q, k, i)
  BY ReadiedSelf
<1>5. Readied(q, q1, k, i)
  BY <1>3, <1>4
<1>. HIDE DEF q1
<1>6. Readied(q, q2, k, i)
  BY <1>5, ReadiedByRaise
<1>. HIDE DEF q2
<1>7. Readied(q, q3, k, i)
  BY <1>6, ReadiedByRaise
<1>. QED BY <1>1, <1>7

LEMMA RunningIfDue ==
  ASSUME CyclesAssumption, TimersAssumption, TInv, NEW i \in TimerIds, TimerEvent(i)
  PROVE  timers[i].paused = FALSE
PROOF
<1>1. /\ queue \in ListT /\ ee \in Nat /\ Never \in Nat /\ ee < Never
      /\ timers[i].paused \in BOOLEAN
  BY TFacts
<1>2. /\ it \in DOMAIN queue.events /\ at = "events"
      /\ queue.events[it].time <= queue.closest
      /\ IsEventOf(queue.events[it], i)
  BY DEF TimerEvent, Due
<1>3. PausedNever(queue, timers) /\ queue.closest <= ee
  BY <1>2 DEF TInv, Bounds
<1>4. SUFFICES ASSUME timers[i].paused = TRUE PROVE FALSE
  BY <1>1
<1>5. queue.events[it].time = Never
  BY <1>2, <1>3, <1>4 DEF PausedNever, IsEventOf
<1>. QED BY <1>1, <1>2, <1>3, <1>5, ListIsTyped

LEMMA TimerEventPasses ==
  ASSUME CyclesAssumption, TimersAssumption, TInv, NEW i \in TimerIds, TimerEvent(i)
  PROVE  /\ Passed(queue, queue', it) /\ queue'.closest <= queue.closest
         /\ Len(queue.events) <= Len(queue'.events)
         /\ IsEventOf(queue'.events[Len(queue'.events)], i)
         /\ \A n \in Len(queue.events) .. Len(queue'.events) - 1 :
              queue'.events[n].func # "timer"
         /\ queue'.events[Len(queue'.events)].time = ee + EventDelta(timers'[i])
PROOF
<1>. DEFINE t == timers[i]
            w == Turned(t)
            r == Called(queue, i, t)
<1>1. /\ queue \in ListT /\ ee \in Nat /\ timers \in [TimerIds -> TimerState] /\ Well(t)
  BY TFacts
<1>2. /\ it \in DOMAIN queue.events /\ at = "events" /\ IsEventOf(queue.events[it], i)
  BY DEF TimerEvent, Due
<1>3. OneEach(queue)
  BY DEF TInv
<1>4. t.paused = FALSE
  BY RunningIfDue
<1>5. /\ timers' = [timers EXCEPT ![i] = w]
      /\ queue' = Erase(Restart(r, i, w), it)
  BY TimerEventIs
<1>6. Well(w)
  BY <1>1, <1>4, TurnedIs
<1>7. Readied(queue, r, it, i)
  BY <1>1, <1>2, <1>3, <1>4, CalledReadies
<1>. HIDE DEF w, r
<1>8. timers'[i] = w
  BY <1>1, <1>5
<1>. QED BY <1>1, <1>2, <1>3, <1>5, <1>6, <1>7, <1>8, Restarted

LEMMA TimerEventKeeps ==
  ASSUME CyclesAssumption, TimersAssumption, TInv, NEW i \in TimerIds, TimerEvent(i)
  PROVE  TInv'
PROOF
<1>. DEFINE t == timers[i]
            w == Turned(t)
            r == Called(queue, i, t)
<1>1. /\ queue \in ListT /\ ee \in Nat /\ Never \in Nat /\ ee < Never
      /\ timers \in [TimerIds -> TimerState]
      /\ \A j \in TimerIds : Well(timers[j])
      /\ t.paused \in BOOLEAN /\ Well(t)
  BY TFacts
<1>2. /\ Due /\ it \in DOMAIN queue.events /\ at = "events"
      /\ queue.events[it].time <= queue.closest
      /\ IsEventOf(queue.events[it], i)
      /\ writes' = writes /\ strayed' = strayed
      /\ UNCHANGED <<clocks, pass, frameStart>> /\ frameEnded' = frameEnded
  BY DEF TimerEvent, Due
<1>3. OneEach(queue) /\ PausedNever(queue, timers) /\ queue.closest <= ee
  BY <1>2 DEF TInv, Bounds
<1>4. t.paused = FALSE
  BY RunningIfDue
<1>5. /\ timers' = [timers EXCEPT ![i] = w]
      /\ queue' = Erase(Restart(r, i, w), it)
  BY TimerEventIs
<1>6. /\ Well(w) /\ w.paused = FALSE /\ w.gate = t.gate
  BY <1>1, <1>4, TurnedIs
<1>. HIDE DEF w, r
<1>8. /\ Passed(queue, queue', it) /\ queue'.closest <= queue.closest
      /\ Len(queue.events) <= Len(queue'.events)
      /\ IsEventOf(queue'.events[Len(queue'.events)], i)
      /\ \A n \in Len(queue.events) .. Len(queue'.events) - 1 :
           queue'.events[n].func # "timer"
  BY TimerEventPasses
<1>9. /\ timers'[i] = w /\ \A j \in TimerIds \ {i} : timers'[j] = timers[j]
      /\ timers' \in [TimerIds -> TimerState]
  BY <1>1, <1>5, <1>6 DEF Well
<1>10. PausedNever(queue, timers')
  <2>1. SUFFICES ASSUME NEW n \in DOMAIN queue.events, queue.events[n].func = "timer",
                        timers'[queue.events[n].param].paused = TRUE
                 PROVE  queue.events[n].time = Never
    BY DEF PausedNever
  <2>2. queue.events[n].param \in TimerIds \ {i}
    BY <1>3, <1>6, <1>9, <2>1 DEF OneEach
  <2>. QED BY <1>3, <1>9, <2>1, <2>2 DEF PausedNever
<1>11. OneEach(queue') /\ PausedNever(queue', timers')
  <2>1. timers'[i].paused = FALSE
    BY <1>6, <1>9
  <2>. QED BY <1>1, <1>2, <1>3, <1>8, <1>10, <2>1, PassedTimer
<1>. DEFINE A == Astray(timers, strayed)
<1>12. A = Astray(timers', strayed')
  <2>1. \A j \in TimerIds : timers'[j].paused = timers[j].paused
    BY <1>4, <1>6, <1>9
  <2>2. strayed \subseteq TimerIds
    BY TFacts
  <2>. QED BY <1>2, <2>1, <2>2 DEF Astray
<1>13. Since(queue, A, ee) /\ SinceBefore(queue, A, it, newTime)
  BY <1>2 DEF TInv, Bounds
<1>. HIDE DEF A
<1>14. /\ \A j \in TimerIds : timers'[j].rest < timers'[j].tick /\ timers'[j].last <= ee
       /\ \A j \in TimerIds : timers'[j].gate # NoGate => j \in strayed
  <2>1. \A j \in TimerIds : Well(timers'[j]) /\ timers'[j].gate = timers[j].gate
    BY <1>1, <1>6, <1>9
  <2>. QED BY <2>1 DEF Well, TInv
<1>15. ideal' \in [TimerIds -> Nat] /\ owed' \in [TimerIds -> SUBSET {"compare", "overflow"}]
  <2>1. Position(w) \in Nat
    BY <1>1, <1>6, PositionIsNat
  <2>2. ideal \in [TimerIds -> Nat] /\ owed \in [TimerIds -> SUBSET {"compare", "overflow"}]
    BY DEF TInv, TimersTypeOK
  <2>3. \/ ideal' = ideal
        \/ ideal' = [ideal EXCEPT ![i] = Position(w)]
    BY TimerEventIs DEF w
  <2>4. PICK S : owed' = [owed EXCEPT ![i] = @ \ S]
    BY DEF TimerEvent
  <2>. QED BY <2>1, <2>2, <2>3, <2>4
<1>16. Shifted(queue, queue, {})
  BY <1>1, ShiftedSelf
<1>17. frameEnded' = (frameEnded \/ queue.events[it].func = "vblank_end")
  <2>1. queue.events[it].func # "vblank_end" /\ frameEnded \in BOOLEAN
    BY <1>2, TFacts DEF IsEventOf
  <2>. QED BY <1>2, <2>1
<1>18. strayed' = strayed /\ writes' = writes /\ A = Astray(timers', strayed)
  BY <1>2, <1>12
<1>. QED BY <1>2, <1>8, <1>9, <1>11, <1>13, <1>14, <1>15, <1>16, <1>17, <1>18, PassedStep

(* The list at the start, with the timers' events in any order.            *)
LEMMA ListOfSet ==
  ASSUME NEW S, IsFiniteSet(S)
  PROVE  /\ SetToSeq(S) \in Seq(S) /\ Len(SetToSeq(S)) \in Nat
         /\ DOMAIN SetToSeq(S) = 1 .. Len(SetToSeq(S))
         /\ \A m, n \in 1 .. Len(SetToSeq(S)) : SetToSeq(S)[m] = SetToSeq(S)[n] => m = n
         /\ \A x \in S : \E n \in 1 .. Len(SetToSeq(S)) : SetToSeq(S)[n] = x
PROOF
<1>. DEFINE c == Cardinality(S)
            f == SetToSeq(S)
<1>1. c \in Nat /\ ExistsBijection(1 .. c, S)
  BY FS_CardinalityType
<1>2. f = CHOOSE g \in [1 .. c -> S] : IsInjective(g)
  BY DEF SetToSeq
<1>. HIDE DEF c, f
<1>3. \E g \in [1 .. c -> S] : IsInjective(g)
  BY <1>1 DEF ExistsBijection, Bijection, Injection
<1>4. f \in [1 .. c -> S] /\ IsInjective(f)
  BY <1>2, <1>3
<1>5. f \in Surjection(1 .. c, S)
  <2>1. f \in Injection(1 .. c, S)
    BY <1>4 DEF Injection
  <2>2. Cardinality(1 .. c) = c
    BY <1>1, FS_Interval
  <2>3. Cardinality(1 .. c) = Cardinality(S) <=> f \in Surjection(1 .. c, S)
    BY <2>1, FS_Injection
  <2>. QED BY <2>2, <2>3 DEF c
<1>6. f \in Seq(S) /\ Len(f) = c
  BY <1>1, <1>4
<1>7. \A m, n \in 1 .. c : f[m] = f[n] => m = n
  BY <1>4 DEF IsInjective
<1>8. \A x \in S : \E n \in 1 .. c : f[n] = x
  BY <1>5 DEF Surjection
<1>. QED BY <1>1, <1>4, <1>6, <1>7, <1>8 DEF f

FirstEvents == AddEvent(AddEvent(NoEvents, "hblank", HblankCycles, 0), "sound", SoundCycles, 0)

LEMMA FirstList ==
  ASSUME CyclesAssumption, TimersAssumption, ee = 0
  PROVE  /\ FirstEvents \in ListT /\ Len(FirstEvents.events) = 2
         /\ FirstEvents.closest <= Never
         /\ \A n \in 1 .. 2 : /\ FirstEvents.events[n].func \in {"hblank", "sound"}
                              /\ 0 <= FirstEvents.events[n].time
                              /\ FirstEvents.closest <= FirstEvents.events[n].time
PROOF
<1>1. /\ Never \in Nat /\ HblankCycles \in Nat /\ SoundCycles \in Nat /\ ee \in Int
      /\ "hblank" \in Funcs \cup {"timer"} /\ "sound" \in Funcs \cup {"timer"} /\ 0 \in Nat
  BY DEF CyclesAssumption, Funcs
<1>. DEFINE q0 == NoEvents
            q1 == AddEvent(q0, "hblank", HblankCycles, 0)
            q2 == AddEvent(q1, "sound", SoundCycles, 0)
<1>2. q0 \in ListT /\ Len(q0.events) = 0 /\ q0.closest = Never
  BY <1>1 DEF NoEvents, ListT
<1>3. q2 = FirstEvents
  BY DEF FirstEvents
<1>. HIDE DEF q0
<1>a. HblankCycles \in Int /\ SoundCycles \in Int
  BY <1>1
<1>4. Grown(q0, q1, Event("hblank", ee + HblankCycles, 0))
  BY <1>1, <1>2, <1>a, AddEventGrows, ZenonT(60)
<1>. HIDE DEF q1
<1>b. q1 \in ListT
  BY <1>4 DEF Grown
<1>5. Grown(q1, q2, Event("sound", ee + SoundCycles, 0))
  BY <1>1, <1>b, <1>a, AddEventGrows, ZenonT(60)
<1>. HIDE DEF q2
<1>c. /\ q1.closest <= q0.closest /\ q1.closest <= ee + HblankCycles
      /\ Len(q1.events) = Len(q0.events) + 1
      /\ q1.events[Len(q0.events) + 1] = Event("hblank", ee + HblankCycles, 0)
  BY <1>4 DEF Grown, Event
<1>d. /\ q2 \in ListT /\ q2.closest <= q1.closest /\ q2.closest <= ee + SoundCycles
      /\ Len(q2.events) = Len(q1.events) + 1
      /\ \A n \in 1 .. Len(q1.events) : q2.events[n] = q1.events[n]
      /\ q2.events[Len(q1.events) + 1] = Event("sound", ee + SoundCycles, 0)
  BY <1>5 DEF Grown, Event
<1>6. /\ q2.closest \in Int /\ q1.closest \in Int
      /\ Len(q1.events) = 1 /\ Len(q2.events) = 2
  BY <1>2, <1>b, <1>c, <1>d, ListIsTyped
<1>7. /\ q2.events[1] = Event("hblank", HblankCycles, 0)
      /\ q2.events[2] = Event("sound", SoundCycles, 0)
  BY <1>1, <1>2, <1>c, <1>d, <1>6
<1>8. /\ q2.events[1].func = "hblank" /\ q2.events[1].time = HblankCycles
      /\ q2.events[2].func = "sound" /\ q2.events[2].time = SoundCycles
  BY <1>7 DEF Event
<1>9. /\ q2.closest <= HblankCycles /\ q2.closest <= SoundCycles /\ q2.closest <= Never
  BY <1>1, <1>2, <1>c, <1>d, <1>6
<1>10. \A n \in 1 .. 2 : n = 1 \/ n = 2
  OBVIOUS
<1>. QED BY <1>1, <1>3, <1>d, <1>6, <1>8, <1>9, <1>10

LEMMA InitKeeps ==
  ASSUME CyclesAssumption, TimersAssumption, TimersInit PROVE TInv
PROOF
<1>. DEFINE E(i) == Event("timer", Never, i)
            S == {E(i) : i \in TimerIds}
            l == SetToSeq(S)
            b == FirstEvents
            c == Len(l)
<1>1. /\ Never \in Nat /\ Never > 0 /\ TimerIds \subseteq Nat /\ Mask \in Nat
      /\ Horizon \in Nat /\ IsFiniteSet(TimerIds)
  BY DEF CyclesAssumption, TimersAssumption
<1>2. ee = 0 /\ at = "frame" /\ it = 1 /\ newTime = Never /\ frameEnded = TRUE
      /\ frameStart = 0 /\ strayed = {}
  BY DEF TimersInit
<1>3. queue = [b EXCEPT !.events = l \o @]
  BY DEF TimersInit, FirstEvents
<1>4. /\ b \in ListT /\ Len(b.events) = 2 /\ b.closest <= Never
      /\ \A n \in 1 .. 2 : /\ b.events[n].func \in {"hblank", "sound"}
                           /\ 0 <= b.events[n].time
                           /\ b.closest <= b.events[n].time
  BY <1>2, FirstList
<1>5. IsFiniteSet(S)
  <2>. DEFINE f == [i \in TimerIds |-> E(i)]
  <2>1. f \in Surjection(TimerIds, S)
    BY DEF Surjection
  <2>. QED BY <1>1, <2>1, FS_Surjection
<1>6. S \subseteq EventT
  BY <1>1 DEF EventT, Event
<1>7. \A i \in TimerIds : E(i).func = "timer" /\ E(i).param = i /\ E(i).time = Never
  BY DEF Event
<1>8. \A x \in S : \E i \in TimerIds : x = E(i)
  OBVIOUS
<1>9. \A i \in TimerIds : E(i) \in S
  OBVIOUS
<1>. HIDE DEF S
<1>10. /\ l \in Seq(S) /\ c \in Nat /\ DOMAIN l = 1 .. c
       /\ \A m, n \in 1 .. c : l[m] = l[n] => m = n
       /\ \A x \in S : \E n \in 1 .. c : l[n] = x
  BY <1>5, ListOfSet
<1>. HIDE DEF l, b, c
<1>11. \A n \in 1 .. c : \E i \in TimerIds : l[n] = E(i)
  <2>1. SUFFICES ASSUME NEW n \in 1 .. c PROVE \E i \in TimerIds : l[n] = E(i)
    OBVIOUS
  <2>2. l[n] \in S
    BY <1>10, ElementOfSeq DEF c
  <2>. QED BY <1>8, <2>2
<1>. HIDE DEF E
<1>12. b.events \in Seq(EventT) /\ b.closest \in Int
  BY <1>4, ListIsTyped
<1>13. l \in Seq(EventT)
  BY <1>6, <1>10, SeqDef
<1>14. /\ l \o b.events \in Seq(EventT)
       /\ Len(l \o b.events) = c + 2
       /\ \A n \in 1 .. c + 2 :
            (l \o b.events)[n] = IF n <= c THEN l[n] ELSE b.events[n - c]
  <2>. DEFINE g == b.events
  <2>1. l \in Seq(EventT) /\ g \in Seq(EventT) /\ Len(g) = 2 /\ Len(l) = c
    BY <1>4, <1>12, <1>13 DEF c
  <2>. HIDE DEF g
  <2>2. /\ l \o g \in Seq(EventT)
        /\ Len(l \o g) = Len(l) + Len(g)
        /\ \A n \in 1 .. Len(l) + Len(g) :
             (l \o g)[n] = IF n <= Len(l) THEN l[n] ELSE g[n - Len(l)]
    BY <2>1, ConcatProperties
  <2>. QED BY <2>1, <2>2 DEF g
<1>15. queue.events = l \o b.events /\ queue.closest = b.closest /\ queue \in ListT
  BY <1>3, <1>4, <1>12, <1>14 DEF ListT
<1>16. /\ DOMAIN queue.events = 1 .. c + 2
       /\ \A n \in 1 .. c : queue.events[n] = l[n]
       /\ \A n \in c + 1 .. c + 2 : queue.events[n] = b.events[n - c] /\ n - c \in 1 .. 2
  BY <1>10, <1>14, <1>15, LenProperties
<1>17. ASSUME NEW n \in DOMAIN queue.events
       PROVE  \/ /\ n \in 1 .. c
                 /\ \E i \in TimerIds : queue.events[n] = E(i)
              \/ /\ queue.events[n].func \in {"hblank", "sound"}
                 /\ 0 <= queue.events[n].time
                 /\ queue.closest <= queue.events[n].time
  <2>1. CASE n \in 1 .. c
    BY <1>11, <1>16, <2>1
  <2>2. CASE n \notin 1 .. c
    <3>1. n \in c + 1 .. c + 2
      BY <1>10, <1>16, <2>2
    <3>. QED BY <1>4, <1>15, <1>16, <3>1
  <2>. QED BY <2>1, <2>2
<1>18. TimersTypeOK
  <2>1. queue \in [events : Seq([func : Funcs \cup {"timer"}, time : Int, param : Nat]),
                   closest : Int]
    BY <1>15 DEF ListT, EventT
  <2>2. timers \in [TimerIds -> TimerState]
    <3>1. [counter |-> 0, target |-> Never, tick |-> Never, rest |-> 0, last |-> 0,
           paused |-> TRUE, onCompare |-> FALSE, onOverflow |-> FALSE, enabled |-> FALSE,
           gated |-> FALSE, gate |-> NoGate, clear |-> FALSE,
           compared |-> FALSE, overflowed |-> FALSE] \in TimerState
      BY <1>1 DEF TimerState
    <3>. QED BY <3>1 DEF TimersInit
  <2>3. /\ ideal = [i \in TimerIds |-> 0] /\ owed = [i \in TimerIds |-> {}]
        /\ writes = 0 /\ run = 0
        /\ bus = [count |-> 0, remainder |-> 0] /\ iop = [count |-> 0, remainder |-> 0]
        /\ given = [bus |-> 0, iop |-> 0]
    BY DEF TimersInit
  <2>4. ideal \in [TimerIds -> Nat] /\ owed \in [TimerIds -> SUBSET {"compare", "overflow"}]
    BY <2>3
  <2>5. /\ bus \in [count : Nat, remainder : Nat] /\ iop \in [count : Nat, remainder : Nat]
        /\ given \in [bus : Nat, iop : Nat] /\ writes \in Nat /\ run \in Nat
    BY <2>3
  <2>. QED BY <1>1, <1>2, <2>1, <2>2, <2>4, <2>5 DEF TimersTypeOK
<1>19. ClocksAgree
  BY DEF TimersInit, ClocksAgree
<1>20. \A i \in TimerIds : /\ timers[i].rest < timers[i].tick /\ timers[i].last <= ee
                           /\ timers[i].gate = NoGate
  BY <1>1, <1>2 DEF TimersInit
<1>21. OneEach(queue)
  <2>1. ASSUME NEW n \in DOMAIN queue.events, queue.events[n].func = "timer"
        PROVE  queue.events[n].param \in TimerIds
    BY <1>7, <1>17, <2>1
  <2>2. ASSUME NEW i \in TimerIds
        PROVE  \E n \in DOMAIN queue.events : \A m \in DOMAIN queue.events :
                 IsEventOf(queue.events[m], i) <=> m = n
    <3>1. PICK n \in 1 .. c : l[n] = E(i)
      BY <1>9, <1>10
    <3>2. n \in DOMAIN queue.events /\ queue.events[n] = E(i)
      BY <1>10, <1>16, <3>1
    <3>3. IsEventOf(queue.events[n], i)
      BY <1>7, <3>2 DEF IsEventOf
    <3>4. ASSUME NEW m \in DOMAIN queue.events, IsEventOf(queue.events[m], i) PROVE m = n
      <4>1. m \in 1 .. c /\ \E j \in TimerIds : queue.events[m] = E(j)
        BY <1>17, <3>4 DEF IsEventOf
      <4>2. PICK j \in TimerIds : queue.events[m] = E(j)
        BY <4>1
      <4>3. j = i
        BY <1>7, <3>4, <4>2 DEF IsEventOf
      <4>. QED BY <1>10, <1>16, <3>1, <4>1, <4>2, <4>3
    <3>. QED BY <3>2, <3>3, <3>4
  <2>. QED BY <2>1, <2>2 DEF OneEach
<1>22. PausedNever(queue, timers)
  <2>1. ASSUME NEW n \in DOMAIN queue.events, queue.events[n].func = "timer"
        PROVE  queue.events[n].time = Never
    BY <1>7, <1>17, <2>1
  <2>. QED BY <2>1 DEF PausedNever
<1>23. ASSUME NEW n \in DOMAIN queue.events
       PROVE  0 <= queue.events[n].time /\ queue.closest <= queue.events[n].time
  <2>1. CASE \E i \in TimerIds : queue.events[n] = E(i)
    BY <1>1, <1>4, <1>7, <1>15, <2>1
  <2>. QED BY <1>17, <2>1
<1>24. Bounds(queue, Astray(timers, strayed))
  BY <1>1, <1>2, <1>4, <1>15, <1>23 DEF Bounds, Since
<1>25. FrameInv
  <2>1. \A n \in DOMAIN queue.events :
          queue.events[n].func \notin {"vblank_start", "vblank_end"}
    BY <1>7, <1>17
  <2>. QED BY <1>2, <2>1 DEF FrameInv, Blanks, NoStart, NoEnd
<1>26. Ending(queue)
  BY <1>2 DEF Ending
<1>. QED BY <1>18, <1>19, <1>20, <1>21, <1>22, <1>24, <1>25, <1>26 DEF TInv

LEMMA TimersNextKeeps ==
  ASSUME CyclesAssumption, TimersAssumption, TInv, [TimersNext]_allVars PROVE TInv'
PROOF
<1>1. CASE RunTimers
  BY <1>1, RunTimersKeeps
<1>2. CASE RunOtherEvent
  BY <1>2, OtherEventKeeps
<1>3. CASE Blank
  BY <1>3, BlankKeeps
<1>4. CASE StartFrame /\ UNCHANGED timerVars
  BY <1>4, StartFrameKeeps
<1>5. CASE ComponentEvent /\ UNCHANGED timerVars
  BY <1>5, ComponentEventKeeps
<1>6. CASE BeginPass /\ UNCHANGED timerVars
  BY <1>6, BeginPassKeeps
<1>7. CASE SkipEvent /\ UNCHANGED timerVars
  BY <1>7, SkipEventKeeps
<1>8. CASE EndPass /\ UNCHANGED timerVars
  BY <1>8, EndPassKeeps
<1>9. ASSUME NEW i \in TimerIds, ReadCounter(i) PROVE TInv'
  BY <1>9, ReadCounterKeeps
<1>10. ASSUME NEW i \in TimerIds, WriteCounter(i) PROVE TInv'
  BY <1>10, WriteCounterSets, WriteKeeps
<1>11. ASSUME NEW i \in TimerIds, WriteCompare(i) PROVE TInv'
  BY <1>11, WriteCompareSets, WriteKeeps
<1>12. ASSUME NEW i \in TimerIds, WriteMode(i) PROVE TInv'
  BY <1>12, WriteModeSets, WriteKeeps
<1>13. ASSUME NEW i \in TimerIds, TimerEvent(i) PROVE TInv'
  BY <1>13, TimerEventKeeps
<1>14. CASE UNCHANGED allVars
  BY <1>14, IdleKeeps
<1>. QED BY <1>1, <1>2, <1>3, <1>4, <1>5, <1>6, <1>7, <1>8, <1>9, <1>10, <1>11, <1>12,
            <1>13, <1>14 DEF TimersNext

(* TInv is inductive: no order of runs, passes, events, vertical blanks    *)
(* and writes breaks the list that the timers and the scheduler share.     *)
THEOREM TimersInvariance == TimersSpec => []TInv
PROOF
<1>. USE CyclesAssumption, TimersAssumption
<1>1. TimersInit => TInv
  BY InitKeeps
<1>2. TInv /\ [TimersNext]_allVars => TInv'
  BY TimersNextKeeps
<1>. QED BY <1>1, <1>2, PTL DEF TimersSpec

(* Timers and the list of events stay well-formed: a counter never falls   *)
(* below 0, and what is looked up or subtracted is there (TimerState).     *)
THEOREM TimersTypes == TimersSpec => []TimersTypeOK
PROOF
<1>1. TInv => TimersTypeOK
  BY DEF TInv
<1>. QED BY <1>1, TimersInvariance, PTL

(* With the timers' events in the list, and their callbacks in the passes, *)
(* the three clocks still stay together (update_cycle_counts).             *)
THEOREM TimersKeepTheClocks == TimersSpec => []ClocksAgree
PROOF
<1>1. TInv => ClocksAgree
  BY DEF TInv
<1>. QED BY <1>1, TimersInvariance, PTL

(* ... and a frame still takes exactly its cycles: no timer's event, nor   *)
(* the closest_event_time that its planning overflows, delays vblank_end   *)
(* (Emulator::run, update_timer_event_time).                               *)
THEOREM TimersKeepTheFrames == TimersSpec => []FrameExact
PROOF
<1>1. TInv => FrameExact
  BY DEF TInv, FrameInv, FrameExact, Pending, NoStart, NoEnd
<1>. QED BY <1>1, TimersInvariance, PTL

(* Time passes no waiting event, but those of timers that a gate has set   *)
(* to 0 in a pass that had been by them (process_events).                  *)
THEOREM EventsAreOnTime == TimersSpec => []EventsOnTime
PROOF
<1>1. TInv => EventsOnTime
  BY DEF TInv, Bounds, Since, Exempt, Astray, EventsOnTime
<1>. QED BY <1>1, TimersInvariance, PTL

-----------------------------------------------------------------------------
(* What a timer has counted.  A step leaves the position of a timer as far *)
(* from the ideal one as it was, or a period less far at an overflow, or   *)
(* sets the ideal.                                                         *)
Drift(t, n) == (Position(t) - n) % Period(t) = 0

Counted == \A i \in TimerIds : Drift(timers[i], ideal[i])

LEMMA PeriodIsNat ==
  ASSUME TimersAssumption, NEW t \in TimerState
  PROVE  Period(t) \in Nat \ {0}
PROOF
<1>1. Mask \in Nat /\ t.tick \in Nat \ {0}
  BY DEF TimersAssumption, TimerState
<1>. DEFINE m == Mask + 1
            d == t.tick
<1>2. m \in Nat \ {0} /\ d \in Nat \ {0}
  BY <1>1
<1>. HIDE DEF m, d
<1>3. m * d \in Nat /\ m * d > 0
  BY <1>2
<1>. QED BY <1>3 DEF Period, m, d

LEMMA WholePeriods ==
  ASSUME NEW n \in Int, NEW d \in Nat \ {0}
  PROVE  n = (n \div d) * d + (n % d) /\ n \div d \in Int /\ n % d \in 0 .. d - 1
PROOF OBVIOUS

LEMMA OnePeriodLess ==
  ASSUME NEW n \in Int, NEW p \in Nat \ {0}, n % p = 0
  PROVE  (n - p) % p = 0
PROOF
<1>. DEFINE k == n \div p
            m == n - p
            j == m \div p
            r == m % p
<1>1. n = k * p + (n % p) /\ k \in Int
  BY WholePeriods
<1>2. m \in Int
  OBVIOUS
<1>a. m = n - p /\ n = k * p
  BY <1>1
<1>. HIDE DEF m, k
<1>3. m = j * p + r /\ j \in Int /\ r \in Int /\ 0 <= r /\ r < p
  BY <1>2
<1>. HIDE DEF j, r
<1>. DEFINE i == k - 1 - j
<1>4. i \in Int /\ i * p = r
  BY <1>1, <1>3, <1>a
<1>. HIDE DEF i
<1>5. i >= 1 => i * p >= p
  BY <1>4
<1>6. i <= -1 => i * p <= -p
  BY <1>4
<1>7. i = 0
  BY <1>3, <1>4, <1>5, <1>6
<1>8. r = 0
  BY <1>3, <1>4, <1>7
<1>. QED BY <1>8 DEF r, m

Counts(t, n, u, m) ==
  \/ /\ u.tick = t.tick /\ m = n
     /\ Position(u) = Position(t) \/ Position(u) = Position(t) - Period(t)
  \/ m = Position(u)

LEMMA DriftKept ==
  ASSUME TimersAssumption, ee \in Nat, NEW t, Well(t), NEW u, Well(u), NEW m \in Nat, NEW n \in Nat,
         Drift(t, n), Counts(t, n, u, m)
  PROVE  Drift(u, m)
PROOF
<1>1. /\ Position(t) \in Nat /\ Position(u) \in Nat
      /\ Period(t) \in Nat \ {0} /\ Period(u) \in Nat \ {0}
      /\ u.tick = t.tick => Period(u) = Period(t)
  BY PositionIsNat, PeriodIsNat DEF Well, Period
<1>. DEFINE a == Position(t)
            b == Position(u)
            p == Period(t)
            q == Period(u)
<1>2. (a - n) % p = 0
  BY DEF Drift
<1>3. a \in Nat /\ b \in Nat /\ p \in Nat \ {0} /\ q \in Nat \ {0}
  BY <1>1
<1>4. \/ b = a /\ m = n /\ q = p
      \/ b = a - p /\ m = n /\ q = p
      \/ b = m
  BY <1>1 DEF Counts
<1>. HIDE DEF a, b, p, q
<1>5. CASE b = a /\ m = n /\ q = p
  <2>1. (b - m) % q = 0
    BY <1>2, <1>5
  <2>. QED BY <2>1 DEF Drift, b, q
<1>6. CASE b = a - p /\ m = n /\ q = p
  <2>1. a - n \in Int /\ b - m = (a - n) - p
    BY <1>3, <1>6
  <2>2. (b - m) % p = 0
    BY <1>2, <1>3, <2>1, OnePeriodLess
  <2>3. (b - m) % q = 0
    BY <1>6, <2>2
  <2>. QED BY <2>3 DEF Drift, b, q
<1>7. CASE b = m
  <2>1. b - m = 0 /\ 0 % q = 0
    BY <1>3, <1>7
  <2>. QED BY <2>1 DEF Drift, b, q
<1>. QED BY <1>4, <1>5, <1>6, <1>7

LEMMA CountedStep ==
  ASSUME CyclesAssumption, TimersAssumption, TInv, TInv', Counted, ee' = ee,
         \A i \in TimerIds : Counts(timers[i], ideal[i], timers'[i], ideal'[i])
  PROVE  Counted'
PROOF
<1>1. SUFFICES ASSUME NEW i \in TimerIds PROVE Drift(timers[i], ideal[i])'
  BY DEF Counted
<1>2. ee \in Nat /\ Well(timers[i])
  BY TFacts
<1>3. timers'[i] \in TimerState /\ ideal'[i] \in Nat /\ ideal[i] \in Nat
  BY DEF TInv, TimersTypeOK
<1>4. Well(timers'[i])
  BY <1>3 DEF TInv, Well
<1>5. Drift(timers[i], ideal[i]) /\ Counts(timers[i], ideal[i], timers'[i], ideal'[i])
  BY DEF Counted
<1>6. Drift(timers'[i], ideal'[i])
  BY <1>2, <1>3, <1>4, <1>5, DriftKept
<1>. QED BY <1>6 DEF Drift, Position, Period

LEMMA CountedByRun ==
  ASSUME CyclesAssumption, TimersAssumption, TInv, Counted, RunTimers PROVE Counted'
PROOF
<1>1. SUFFICES ASSUME NEW i \in TimerIds PROVE Drift(timers[i], ideal[i])'
  BY DEF Counted
<1>. DEFINE t == timers[i]
            n == ideal[i]
            r == IF t.paused = TRUE THEN 0 ELSE run'
            p == Period(t)
            a == Position(t)
<1>2. /\ ee \in Nat /\ Well(t) /\ t.paused \in BOOLEAN /\ n \in Nat /\ a \in Nat
      /\ ideal \in [TimerIds -> Nat] /\ queue.closest \in Int
      /\ bus \in [count : Nat, remainder : Nat] /\ iop \in [count : Nat, remainder : Nat]
      /\ given \in [bus : Nat, iop : Nat] /\ ClocksAgree
  BY TFacts, PositionIsNat, ListIsTyped DEF TInv, TimersTypeOK
<1>3. RunCycles /\ timers' = timers
  BY DEF RunTimers
<1>4. ee' = ee + run' /\ run' \in Nat
  BY <1>2, <1>3, ClocksRun
<1>5. ideal'[i] = n + r
  <2>1. ideal'[i] = ideal[i] + IF timers[i].paused THEN 0 ELSE run'
    BY DEF RunTimers
  <2>. QED BY <1>2, <2>1
<1>6. Position(t)' = a + r
  <2>1. /\ t.counter \in Nat /\ t.tick \in Nat /\ t.rest \in Nat /\ t.last \in Nat
    BY <1>2 DEF Well, TimerState
  <2>. DEFINE c == t.counter * t.tick
  <2>2. c \in Nat
    BY <2>1
  <2>3. a = c + t.rest + IF t.paused THEN 0 ELSE ee - t.last
    BY DEF Position
  <2>4. Position(t)' = c + t.rest + IF t.paused THEN 0 ELSE ee' - t.last
    BY <1>3 DEF Position
  <2>. HIDE DEF c, a
  <2>5. CASE t.paused = TRUE
    BY <1>2, <2>1, <2>2, <2>3, <2>4, <2>5
  <2>6. CASE t.paused = FALSE
    BY <1>2, <1>4, <2>1, <2>2, <2>3, <2>4, <2>6
  <2>. QED BY <1>2, <2>5, <2>6
<1>7. Period(t)' = p
  BY <1>3 DEF Period
<1>8. (a - n) % p = 0
  BY DEF Counted, Drift
<1>9. r \in Nat
  BY <1>4
<1>. HIDE DEF a, n, r, p
<1>10. (a + r) - (n + r) = a - n
  BY <1>2, <1>9
<1>11. ((a + r) - (n + r)) % p = 0
  BY <1>8, <1>10
<1>12. (Position(t)' - ideal'[i]) % Period(t)' = 0
  BY <1>5, <1>6, <1>7, <1>11
<1>. QED BY <1>12 DEF Drift

(* The steps that set timer i's counter, and know what it stands for.      *)
LEMMA CountedBySet ==
  ASSUME CyclesAssumption, TimersAssumption, TInv, TInv', Counted, ee' = ee,
         NEW i \in TimerIds, NEW t, timers' = [timers EXCEPT ![i] = t],
         ideal' = [ideal EXCEPT ![i] = Position(t)]
  PROVE  Counted'
PROOF
<1>1. timers \in [TimerIds -> TimerState] /\ ideal \in [TimerIds -> Nat]
  BY DEF TInv, TimersTypeOK
<1>2. ASSUME NEW j \in TimerIds
      PROVE  Counts(timers[j], ideal[j], timers'[j], ideal'[j])
  <2>1. CASE j = i
    BY <1>1, <2>1 DEF Counts
  <2>2. CASE j # i
    BY <1>1, <2>2 DEF Counts
  <2>. QED BY <2>1, <2>2
<1>. QED BY <1>2, CountedStep

(* Those that bring it up to date, and may count an overflow.              *)
LEMMA CountedByUpdate ==
  ASSUME CyclesAssumption, TimersAssumption, TInv, TInv', Counted, ee' = ee,
         NEW i \in TimerIds, NEW t, timers' = [timers EXCEPT ![i] = t], ideal' = ideal,
         t.tick = timers[i].tick,
         \/ Position(t) = Position(timers[i])
         \/ Position(t) = Position(timers[i]) - Period(timers[i])
  PROVE  Counted'
PROOF
<1>1. timers \in [TimerIds -> TimerState]
  BY DEF TInv, TimersTypeOK
<1>2. ASSUME NEW j \in TimerIds
      PROVE  Counts(timers[j], ideal[j], timers'[j], ideal'[j])
  <2>1. CASE j = i
    BY <1>1, <2>1 DEF Counts
  <2>2. CASE j # i
    BY <1>1, <2>2 DEF Counts
  <2>. QED BY <2>1, <2>2
<1>. QED BY <1>2, CountedStep

LEMMA CountedByCompare ==
  ASSUME CyclesAssumption, TimersAssumption, TInv, TInv', Counted,
         NEW i \in TimerIds, WriteCompare(i)
  PROVE  Counted'
PROOF
<1>. DEFINE u == UpdateCounter(timers[i])
            Written(n) == [u EXCEPT !.target = n]
<1>1. ee \in Nat /\ Well(timers[i]) /\ ee' = ee
  BY TFacts DEF WriteCompare, Writing, clocks
<1>2. PICK n \in Compares :
        Becomes(i, [t |-> Written(n), q |-> PlanIfRunning(queue, i, Written(n))], FALSE)
  BY DEF WriteCompare
<1>. DEFINE t == Written(n)
<1>3. timers' = [timers EXCEPT ![i] = t] /\ ideal' = ideal
  BY <1>2 DEF Becomes
<1>4. Well(u) /\ Position(u) = Position(timers[i]) /\ u.tick = timers[i].tick
  BY <1>1, Updated
<1>. HIDE DEF u
<1>5. /\ t.counter = u.counter /\ t.tick = u.tick /\ t.rest = u.rest /\ t.last = u.last
      /\ t.paused = u.paused
  BY <1>4 DEF Well, TimerState
<1>. HIDE DEF t, Written
<1>6. Position(t) = Position(u)
  BY <1>5 DEF Position
<1>. QED BY <1>1, <1>3, <1>4, <1>5, <1>6, CountedByUpdate

LEMMA CountedByBlank ==
  ASSUME CyclesAssumption, TimersAssumption, TInv, TInv', Counted, Blank
  PROVE  Counted'
PROOF
<1>. DEFINE start == queue.events[it].func = "vblank_start"
            g == GateAll(start)
<1>1. /\ at = "events" /\ ee' = ee /\ timers' = g.timers
      /\ ideal' = [i \in TimerIds |->
                     IF Resets(timers[i], start) THEN Position(g.timers[i]) ELSE ideal[i]]
  BY DEF Blank, Due, clocks
<1>2. start \in BOOLEAN /\ g = GateAll(start)
  OBVIOUS
<1>. HIDE DEF start, g
<1>3. \A i \in TimerIds : GatedOne(timers[i], g.timers[i], start)
  BY <1>1, <1>2, AllGated
<1>4. ASSUME NEW i \in TimerIds
      PROVE  Counts(timers[i], ideal[i], timers'[i], ideal'[i])
  <2>1. CASE Resets(timers[i], start)
    BY <1>1, <2>1 DEF Counts
  <2>2. CASE ~Resets(timers[i], start)
    <3>1. /\ g.timers[i].tick = timers[i].tick
          /\ Position(g.timers[i]) = Position(timers[i])
      BY <1>3, <2>2 DEF GatedOne
    <3>2. ideal'[i] = ideal[i] /\ timers'[i] = g.timers[i]
      BY <1>1, <2>2
    <3>. QED BY <3>1, <3>2 DEF Counts
  <2>. QED BY <2>1, <2>2
<1>. QED BY <1>1, <1>4, CountedStep

LEMMA CountedByEvent ==
  ASSUME CyclesAssumption, TimersAssumption, TInv, TInv', Counted,
         NEW i \in TimerIds, TimerEvent(i)
  PROVE  Counted'
PROOF
<1>. DEFINE t == timers[i]
            u == UpdateCounter(t)
            v == Met(t)
            w == Turned(t)
<1>1. ee \in Nat /\ Well(t) /\ t.paused = FALSE /\ ee' = ee
  BY TFacts, RunningIfDue, ZenonT(60) DEF TimerEvent, clocks
<1>2. /\ timers' = [timers EXCEPT ![i] = w]
      /\ ideal' = IF Reached(t) /\ u.clear
                  THEN [ideal EXCEPT ![i] = Position(w)] ELSE ideal
  BY TimerEventIs
<1>3. CASE Reached(t) /\ u.clear
  <2>1. ideal' = [ideal EXCEPT ![i] = Position(w)]
    BY <1>2, <1>3
  <2>. HIDE DEF w
  <2>. QED BY <1>1, <1>2, <2>1, CountedBySet
<1>4. CASE ~(Reached(t) /\ u.clear)
  <2>1. ideal' = ideal
    BY <1>2, <1>4
  <2>2. Position(u) = Position(t) /\ Position(u) = u.counter * u.tick + u.rest
        /\ u.tick = t.tick /\ u.counter \in Nat /\ u.tick \in Nat /\ u.rest \in Nat
    BY <1>1, Updated DEF Well, TimerState
  <2>3. /\ w.tick = t.tick /\ w.last = ee /\ w.paused = FALSE /\ w.rest = u.rest
        /\ v.counter = u.counter
        /\ w.counter = IF v.counter > Mask THEN v.counter - (Mask + 1) ELSE v.counter
    BY <1>1, <1>4, TurnedIs
  <2>. DEFINE a == u.counter
              b == u.tick
              m == Mask + 1
              c == w.counter
              p == w.rest
              d == w.tick
              e == u.rest
  <2>4. Position(w) = c * d + p
    <3>1. Position(w) = c * d + p + (ee - ee)
      BY <2>3 DEF Position
    <3>2. c \in Nat /\ d \in Nat /\ p \in Nat
      BY <1>1, TurnedIs DEF Well, TimerState
    <3>. HIDE DEF c, d, p, w
    <3>3. c * d \in Nat
      BY <3>2
    <3>. QED BY <1>1, <3>1, <3>2, <3>3
  <2>5. Position(t) = a * b + e /\ Period(t) = m * b /\ d = b /\ p = e
    BY <2>2, <2>3 DEF Period
  <2>6. /\ a \in Nat /\ b \in Nat /\ m \in Nat /\ e \in Nat /\ (c = a \/ c = a - m)
    BY <2>2, <2>3 DEF TimersAssumption
  <2>. HIDE DEF a, b, m, c, d, e, p, w
  <2>7. \/ Position(w) = Position(t)
        \/ Position(w) = Position(t) - Period(t)
    <3>1. CASE c = a
      BY <2>4, <2>5, <3>1
    <3>2. CASE c = a - m
      <4>1. (a - m) * b = a * b - m * b
        BY <2>6
      <4>2. a * b \in Int /\ m * b \in Int
        BY <2>6
      <4>. QED BY <2>4, <2>5, <2>6, <3>2, <4>1, <4>2
    <3>. QED BY <2>6, <3>1, <3>2
  <2>. QED BY <1>1, <1>2, <2>1, <2>3, <2>7, CountedByUpdate
<1>. QED BY <1>3, <1>4

LEMMA CountedNext ==
  ASSUME CyclesAssumption, TimersAssumption, TInv, TInv', Counted, [TimersNext]_allVars
  PROVE  Counted'
PROOF
<1>1. CASE RunTimers
  BY <1>1, CountedByRun
<1>2. CASE Blank
  BY <1>2, CountedByBlank
<1>3. CASE UNCHANGED <<ee, timers, ideal>>
  BY <1>3 DEF Counted, Drift, Position, Period
<1>4. CASE /\ RunOtherEvent \/ StartFrame \/ ComponentEvent \/ BeginPass \/ SkipEvent \/ EndPass
           /\ UNCHANGED timerVars
  BY <1>3, <1>4 DEF RunOtherEvent, RunEvent, StartFrame, ComponentEvent, BeginPass, SkipEvent,
                    EndPass, clocks, timerVars
<1>5. CASE UNCHANGED allVars
  BY <1>3, <1>5 DEF allVars, schedulerVars, clocks, timerVars
<1>6. ASSUME NEW i \in TimerIds, ReadCounter(i) PROVE Counted'
  <2>. DEFINE u == UpdateCounter(timers[i])
  <2>1. /\ ee \in Nat /\ Well(timers[i]) /\ ee' = ee /\ ideal' = ideal
        /\ timers' = [timers EXCEPT ![i] = u]
    BY <1>6, TFacts DEF ReadCounter, schedulerVars, clocks
  <2>2. Position(u) = Position(timers[i]) /\ u.tick = timers[i].tick
    BY <2>1, Updated
  <2>. HIDE DEF u
  <2>. QED BY <2>1, <2>2, CountedByUpdate
<1>7. ASSUME NEW i \in TimerIds, WriteCounter(i) PROVE Counted'
  <2>1. ee' = ee
    BY <1>7 DEF WriteCounter, Writing, clocks
  <2>2. PICK n \in Counters :
          LET t == SetCounter(timers[i], n)
          IN Becomes(i, [t |-> t, q |-> PlanIfRunning(queue, i, t)], TRUE)
    BY <1>7 DEF WriteCounter
  <2>. DEFINE t == SetCounter(timers[i], n)
  <2>3. timers' = [timers EXCEPT ![i] = t] /\ ideal' = [ideal EXCEPT ![i] = Position(t)]
    BY <2>2 DEF Becomes
  <2>. HIDE DEF t
  <2>. QED BY <2>1, <2>3, CountedBySet
<1>8. ASSUME NEW i \in TimerIds, WriteCompare(i) PROVE Counted'
  BY <1>8, CountedByCompare
<1>9. ASSUME NEW i \in TimerIds, WriteMode(i) PROVE Counted'
  <2>1. ee' = ee
    BY <1>9 DEF WriteMode, Writing, clocks
  <2>2. PICK c \in Controls :
          LET t == Controlled(timers[i], c)
              s == SetPause([t |-> t, q |-> queue], i, ~(t.enabled /\ ~t.gated))
              u == Clocked(s.t, c)
          IN Becomes(i, [t |-> u, q |-> PlanIfRunning(s.q, i, u)], TRUE)
    BY <1>9 DEF WriteMode, Controlled, Clocked
  <2>3. PICK s : Becomes(i, s, TRUE)
    BY <2>2
  <2>. DEFINE t == s.t
  <2>4. timers' = [timers EXCEPT ![i] = t] /\ ideal' = [ideal EXCEPT ![i] = Position(t)]
    BY <2>3 DEF Becomes
  <2>. HIDE DEF t
  <2>. QED BY <2>1, <2>4, CountedBySet
<1>10. ASSUME NEW i \in TimerIds, TimerEvent(i) PROVE Counted'
  BY <1>10, CountedByEvent
<1>11. RunOtherEvent => UNCHANGED timerVars
  BY DEF RunOtherEvent
<1>. QED BY <1>1, <1>2, <1>4, <1>5, <1>6, <1>7, <1>8, <1>9, <1>10, <1>11 DEF TimersNext

(* A timer's counter stands for every cycle that it ran, for all rates,    *)
(* all overflows, and any reads, writes and pauses in between              *)
(* (update_timer_counter, set_timer_pause, timer_event).                   *)
THEOREM EveryCycleCounts == TimersSpec => []CountsEveryCycle
PROOF
<1>. USE CyclesAssumption, TimersAssumption
<1>1. TimersInit => Counted
  <2>1. SUFFICES ASSUME TimersInit, NEW i \in TimerIds PROVE Drift(timers[i], ideal[i])
    BY DEF Counted
  <2>2. Position(timers[i]) = 0 /\ ideal[i] = 0 /\ timers[i] \in TimerState
    <3>1. TInv
      BY <2>1, InitKeeps
    <3>2. timers[i] \in TimerState
      BY <3>1, TFacts
    <3>3. /\ timers[i].counter = 0 /\ timers[i].rest = 0 /\ timers[i].paused = TRUE
          /\ timers[i].tick = Never /\ ideal[i] = 0 /\ Never \in Nat
      BY <2>1 DEF TimersInit, CyclesAssumption
    <3>. QED BY <3>2, <3>3 DEF Position
  <2>3. Period(timers[i]) \in Nat \ {0}
    BY <2>2, PeriodIsNat
  <2>. DEFINE p == Period(timers[i])
  <2>4. p \in Nat \ {0} /\ 0 - 0 = 0
    BY <2>3
  <2>. HIDE DEF p
  <2>5. 0 % p = 0
    BY <2>4
  <2>6. (0 - 0) % p = 0
    BY <2>4, <2>5
  <2>. QED BY <2>2, <2>6 DEF Drift, p
<1>2. TInv /\ TInv' /\ Counted /\ [TimersNext]_allVars => Counted'
  BY CountedNext
<1>3. Counted => CountsEveryCycle
  BY DEF Counted, Drift, CountsEveryCycle
<1>. QED BY <1>1, <1>2, <1>3, TimersInvariance, PTL DEF TimersSpec

(* The next hits.  A step leaves a timer's event where it is, and the      *)
(* timer as it was but for a look at its counter, or it plans the event    *)
(* anew.                                                                   *)
SameEvents(q, p, i) ==
  \A n \in DOMAIN p.events : IsEventOf(p.events[n], i) =>
    \E m \in DOMAIN q.events : q.events[m] = p.events[n]

Held(i) ==
  /\ i \notin strayed /\ timers'[i] \in {timers[i], UpdateCounter(timers[i])}
  /\ SameEvents(queue, queue', i)
  /\ owed'[i] = owed[i] \/ RunTimers

Renewed(i) ==
  /\ timers'[i].paused = FALSE /\ timers'[i].last = ee /\ ee' = ee
  /\ HasTime(queue', i, ee + EventDelta(timers'[i]))
  /\ owed'[i] = {} \/ TimerEvent(i)

Followed(i) ==
  \/ timers'[i].paused = TRUE /\ owed'[i] = {}
  \/ Held(i)
  \/ Renewed(i)

LEMMA SameIfExtended ==
  ASSUME NEW q \in ListT, NEW F \in SUBSET Funcs, NEW r, Extended(q, r, F), NEW i
  PROVE  SameEvents(q, r, i)
PROOF
<1>. DEFINE m == Len(q.events)
            n == Len(r.events)
<1>1. /\ r \in ListT /\ m <= n
      /\ \A j \in 1 .. m : r.events[j] = q.events[j]
      /\ \A j \in m + 1 .. n : r.events[j].func \in F
  BY DEF Extended
<1>2. m \in Nat /\ n \in Nat /\ DOMAIN q.events = 1 .. m /\ DOMAIN r.events = 1 .. n
  BY <1>1, ListIsTyped
<1>. HIDE DEF m, n
<1>3. SUFFICES ASSUME NEW j \in DOMAIN r.events, IsEventOf(r.events[j], i)
               PROVE  \E k \in DOMAIN q.events : q.events[k] = r.events[j]
  BY DEF SameEvents
<1>4. r.events[j].func \notin F
  BY <1>3 DEF IsEventOf, Funcs
<1>5. j \in 1 .. m
  BY <1>1, <1>2, <1>3, <1>4
<1>. QED BY <1>1, <1>2, <1>5

LEMMA SameIfPassed ==
  ASSUME NEW q \in ListT, NEW k \in DOMAIN q.events, NEW p, Passed(q, p, k), NEW i,
         \A n \in Len(q.events) .. Len(p.events) : ~IsEventOf(p.events[n], i)
  PROVE  SameEvents(q, p, i)
PROOF
<1>. DEFINE m == Len(q.events)
            n == Len(p.events)
<1>1. /\ p \in ListT
      /\ \A j \in 1 .. m - 1 : p.events[j] = IF j < k THEN q.events[j] ELSE q.events[j + 1]
      /\ \A j \in m .. n : ~IsEventOf(p.events[j], i)
  BY DEF Passed
<1>2. m \in Nat /\ n \in Nat /\ DOMAIN q.events = 1 .. m /\ DOMAIN p.events = 1 .. n
  BY <1>1, ListIsTyped
<1>. HIDE DEF m, n
<1>3. SUFFICES ASSUME NEW j \in DOMAIN p.events, IsEventOf(p.events[j], i)
               PROVE  \E l \in DOMAIN q.events : q.events[l] = p.events[j]
  BY DEF SameEvents
<1>4. j \in 1 .. n /\ j \notin m .. n
  BY <1>1, <1>2, <1>3
<1>5. j \in 1 .. m - 1 /\ j \in 1 .. m /\ j + 1 \in 1 .. m
  BY <1>2, <1>4
<1>6. p.events[j] = q.events[j] \/ p.events[j] = q.events[j + 1]
  BY <1>1, <1>5
<1>. QED BY <1>2, <1>5, <1>6

LEMMA SameIfShifted ==
  ASSUME NEW q, NEW S, NEW p, Shifted(q, p, S), NEW i, i \notin S
  PROVE  SameEvents(q, p, i)
PROOF BY DEF Shifted, SameEvents, IsEventOf

LEMMA SameIfBoth ==
  ASSUME NEW q, NEW r, NEW p, NEW i, SameEvents(q, r, i), SameEvents(r, p, i)
  PROVE  SameEvents(q, p, i)
PROOF BY DEF SameEvents

LEMMA SameIfSame ==
  ASSUME NEW q, NEW p, p.events = q.events, NEW i PROVE SameEvents(q, p, i)
PROOF BY DEF SameEvents

LEMMA FollowedIfSame ==
  ASSUME NEW i \in TimerIds, i \notin strayed', strayed' = strayed, timers' = timers,
         owed' = owed \/ RunTimers, SameEvents(queue, queue', i)
  PROVE  Followed(i)
PROOF BY DEF Followed, Held

LEMMA FollowedByOthers ==
  ASSUME CyclesAssumption, TimersAssumption, TInv, NEW i \in TimerIds, i \notin strayed',
         \/ RunTimers \/ RunOtherEvent
         \/ (StartFrame \/ ComponentEvent \/ BeginPass \/ SkipEvent \/ EndPass)
              /\ UNCHANGED timerVars
         \/ UNCHANGED allVars
  PROVE  Followed(i)
PROOF
<1>1. queue \in ListT /\ ee \in Nat
  BY TFacts
<1>2. SUFFICES /\ strayed' = strayed /\ timers' = timers /\ (owed' = owed \/ RunTimers)
               /\ SameEvents(queue, queue', i)
  BY FollowedIfSame
<1>3. strayed' = strayed /\ timers' = timers /\ (owed' = owed \/ RunTimers)
  BY DEF RunTimers, RunOtherEvent, timerVars, allVars
<1>4. CASE RunTimers \/ BeginPass \/ SkipEvent \/ UNCHANGED allVars
  <2>1. queue' = queue
    BY <1>4 DEF RunTimers, RunCycles, BeginPass, SkipEvent, allVars, schedulerVars
  <2>. QED BY <1>3, <2>1, SameIfSame
<1>5. CASE EndPass
  <2>1. queue' = [queue EXCEPT !.closest = newTime]
    BY <1>5 DEF EndPass
  <2>2. queue'.events = queue.events
    BY <1>1, <2>1 DEF ListT
  <2>. QED BY <1>3, <2>2, SameIfSame
<1>6. CASE ComponentEvent
  <2>1. Extended(queue, queue', Plain) /\ Plain \in SUBSET Funcs
    BY <1>1, <1>6, ComponentExtends DEF Plain
  <2>. QED BY <1>1, <1>3, <2>1, SameIfExtended
<1>7. CASE StartFrame
  <2>. DEFINE q == AddEvent(queue, "vblank_start", VblankStart, 0)
  <2>1. queue' = AddEvent(q, "vblank_end", FrameCycles, 0)
    BY <1>7 DEF StartFrame
  <2>. HIDE DEF q
  <2>2. /\ {"vblank_start", "vblank_end"} \subseteq Funcs
        /\ VblankStart \in Nat /\ FrameCycles \in Nat
    BY DEF Funcs, CyclesAssumption
  <2>3. Extended(queue, queue, Funcs)
    BY <1>1, ExtendedSelf
  <2>4. Extended(queue, q, Funcs)
    BY <1>1, <2>2, <2>3, ExtendedMore DEF q
  <2>5. Extended(queue, queue', Funcs)
    BY <1>1, <2>1, <2>2, <2>4, ExtendedMore
  <2>. QED BY <1>1, <1>3, <2>5, SameIfExtended
<1>8. CASE RunOtherEvent
  <2>1. /\ it \in DOMAIN queue.events
        /\ queue.events[it].func \notin {"vblank_start", "vblank_end", "timer"}
    BY <1>8 DEF RunOtherEvent, RunEvent, Due
  <2>2. queue.events[it].func \in Plain
    BY <1>1, <2>1, ListIsTyped DEF Plain
  <2>3. PICK r \in Callback(queue.events[it].func) : queue' = Erase(r, it)
    BY <1>8 DEF RunOtherEvent, RunEvent
  <2>4. Extended(queue, r, Plain)
    BY <1>1, <2>2, <2>3, CallbackExtends
  <2>5. /\ Passed(queue, queue', it)
        /\ \A n \in Len(queue.events) .. Len(queue'.events) : queue'.events[n].func \in Plain
    BY <1>1, <2>1, <2>3, <2>4, ExtendedPassed
  <2>6. \A n \in Len(queue.events) .. Len(queue'.events) : ~IsEventOf(queue'.events[n], i)
    BY <2>5 DEF Plain, Funcs, IsEventOf
  <2>. QED BY <1>1, <1>3, <2>1, <2>5, <2>6, SameIfPassed
<1>. QED BY <1>4, <1>5, <1>6, <1>7, <1>8

LEMMA FollowedByBlank ==
  ASSUME CyclesAssumption, TimersAssumption, TInv, Blank, NEW i \in TimerIds, i \notin strayed'
  PROVE  Followed(i)
PROOF
<1>1. queue \in ListT /\ OneEach(queue)
  BY TFacts DEF TInv
<1>2. PICK q, ts, start : BlankTo(q, ts, start)
  BY BlankIs
<1>3. /\ it \in DOMAIN queue.events
      /\ queue.events[it].func \in {"vblank_start", "vblank_end"}
      /\ timers' = ts /\ strayed' = strayed
      /\ owed' = [j \in TimerIds |-> IF timers[j].gate = NoGate THEN owed[j] ELSE {}]
      /\ GatedOne(timers[i], ts[i], start)
      /\ Shifted(queue, q, TimerIds)
      /\ \A n \in DOMAIN queue.events :
           queue.events[n].func = "timer" /\ timers[queue.events[n].param].gate = NoGate
             => q.events[n] = queue.events[n]
      /\ Passed(q, queue', it)
      /\ \A n \in Len(q.events) .. Len(queue'.events) : queue'.events[n].func # "timer"
  BY <1>2 DEF BlankTo
<1>4. timers[i].gate = NoGate
  BY <1>3 DEF TInv
<1>5. timers'[i] = timers[i] /\ owed'[i] = owed[i]
  BY <1>3, <1>4 DEF GatedOne
<1>6. /\ q \in ListT /\ DOMAIN q.events = DOMAIN queue.events
      /\ \A n \in DOMAIN queue.events : /\ q.events[n].func = queue.events[n].func
                                        /\ q.events[n].param = queue.events[n].param
  BY <1>3 DEF Shifted
<1>7. SameEvents(queue, q, i)
  BY <1>3, <1>4, <1>6 DEF SameEvents, IsEventOf
<1>8. \A n \in Len(q.events) .. Len(queue'.events) : ~IsEventOf(queue'.events[n], i)
  BY <1>3 DEF IsEventOf
<1>9. SameEvents(q, queue', i)
  BY <1>3, <1>6, <1>8, SameIfPassed
<1>10. SameEvents(queue, queue', i)
  BY <1>7, <1>9, SameIfBoth
<1>. QED BY <1>3, <1>5, <1>10 DEF Followed, Held

LEMMA FollowedByWrite ==
  ASSUME CyclesAssumption, TimersAssumption, TInv, NEW k \in TimerIds, NEW t, Sets(k, t),
         NEW i \in TimerIds, i \notin strayed'
  PROVE  Followed(i)
PROOF
<1>1. /\ timers' = [timers EXCEPT ![k] = t] /\ timers \in [TimerIds -> TimerState]
      /\ Well(t) /\ (t.paused = FALSE => t.last = ee)
      /\ Shifted(queue, queue', {k})
      /\ t.paused = FALSE => HasTime(queue', k, ee + EventDelta(t))
      /\ owed'[k] = {} /\ \A j \in TimerIds \ {k} : owed'[j] = owed[j]
      /\ \A j \in TimerIds \ {k} : j \in strayed' <=> j \in strayed
      /\ ee' = ee
  BY TFacts DEF Sets, Aimed, clocks
<1>2. CASE i = k
  <2>1. timers'[i] = t /\ owed'[i] = {} /\ t.paused \in BOOLEAN
    BY <1>1, <1>2 DEF Well, TimerState
  <2>2. CASE t.paused = TRUE
    BY <2>1, <2>2 DEF Followed
  <2>3. CASE t.paused = FALSE
    BY <1>1, <1>2, <2>1, <2>3 DEF Followed, Renewed
  <2>. QED BY <2>1, <2>2, <2>3
<1>3. CASE i # k
  <2>1. i \notin strayed /\ timers'[i] = timers[i] /\ owed'[i] = owed[i]
    BY <1>1, <1>3
  <2>2. SameEvents(queue, queue', i)
    BY <1>1, <1>3, SameIfShifted
  <2>. QED BY <2>1, <2>2 DEF Followed, Held
<1>. QED BY <1>2, <1>3

LEMMA FollowedByRead ==
  ASSUME CyclesAssumption, TimersAssumption, TInv, NEW k \in TimerIds, ReadCounter(k),
         NEW i \in TimerIds, i \notin strayed'
  PROVE  Followed(i)
PROOF
<1>1. /\ timers' = [timers EXCEPT ![k] = UpdateCounter(timers[k])]
      /\ timers \in [TimerIds -> TimerState]
      /\ queue' = queue /\ owed' = owed /\ strayed' = strayed
  BY TFacts DEF ReadCounter, schedulerVars
<1>2. SameEvents(queue, queue', i)
  BY <1>1, SameIfSame
<1>3. timers'[i] \in {timers[i], UpdateCounter(timers[i])}
  BY <1>1
<1>. QED BY <1>1, <1>2, <1>3 DEF Followed, Held

LEMMA FollowedByEvent ==
  ASSUME CyclesAssumption, TimersAssumption, TInv, NEW k \in TimerIds, TimerEvent(k),
         NEW i \in TimerIds, i \notin strayed'
  PROVE  Followed(i)
PROOF
<1>. DEFINE m == Len(queue.events)
            n == Len(queue'.events)
<1>1. /\ queue \in ListT /\ timers \in [TimerIds -> TimerState] /\ ee \in Nat
      /\ OneEach(queue) /\ Well(timers[k]) /\ timers[k].paused = FALSE
      /\ owed \in [TimerIds -> SUBSET {"compare", "overflow"}]
  BY TFacts, RunningIfDue DEF TInv, TimersTypeOK
<1>2. /\ timers' = [timers EXCEPT ![k] = Turned(timers[k])]
      /\ \A j \in TimerIds \ {k} : owed'[j] = owed[j]
      /\ strayed' = strayed /\ it \in DOMAIN queue.events /\ ee' = ee
      /\ IsEventOf(queue.events[it], k)
  <2>1. PICK S : owed' = [owed EXCEPT ![k] = @ \ S]
    BY DEF TimerEvent
  <2>2. timers' = [timers EXCEPT ![k] = Turned(timers[k])]
    BY TimerEventIs
  <2>. QED BY <1>1, <2>1, <2>2 DEF TimerEvent, Due, clocks
<1>3. /\ Passed(queue, queue', it) /\ m <= n
      /\ IsEventOf(queue'.events[n], k)
      /\ \A j \in m .. n - 1 : queue'.events[j].func # "timer"
      /\ queue'.events[n].time = ee + EventDelta(timers'[k])
  BY TimerEventPasses
<1>4. /\ m \in Nat /\ n \in Nat /\ DOMAIN queue.events = 1 .. m /\ DOMAIN queue'.events = 1 .. n
  BY <1>1, <1>3, ListIsTyped DEF Passed
<1>. HIDE DEF m, n
<1>5. CASE i # k
  <2>1. ASSUME NEW j \in m .. n PROVE ~IsEventOf(queue'.events[j], i)
    <3>1. CASE j = n
      BY <1>3, <1>5, <3>1 DEF IsEventOf
    <3>2. CASE j # n
      <4>1. j \in m .. n - 1
        BY <1>4, <3>2
      <4>. QED BY <1>3, <4>1 DEF IsEventOf
    <3>. QED BY <3>1, <3>2
  <2>2. SameEvents(queue, queue', i)
    BY <1>1, <1>2, <1>3, <2>1, SameIfPassed DEF m, n
  <2>3. timers'[i] = timers[i] /\ owed'[i] = owed[i] /\ i \notin strayed
    BY <1>1, <1>2, <1>5
  <2>. QED BY <2>2, <2>3 DEF Followed, Held
<1>6. CASE i = k
  <2>1. timers'[i].paused = FALSE /\ timers'[i].last = ee
    BY <1>1, <1>2, <1>6, TurnedIs
  <2>2. ASSUME NEW j \in DOMAIN queue'.events, IsEventOf(queue'.events[j], i)
        PROVE  queue'.events[j].time = ee + EventDelta(timers'[i])
    <3>1. ~(j \in 1 .. m - 1)
      <4>1. SUFFICES ASSUME j \in 1 .. m - 1 PROVE FALSE
        OBVIOUS
      <4>2. /\ j \in 1 .. m /\ j + 1 \in 1 .. m
            /\ queue'.events[j] = IF j < it THEN queue.events[j] ELSE queue.events[j + 1]
        <5>1. j \in 1 .. m /\ j + 1 \in 1 .. m
          BY <1>4, <4>1
        <5>2. queue'.events[j] = IF j < it THEN queue.events[j] ELSE queue.events[j + 1]
          BY <1>3, <4>1 DEF Passed, m
        <5>. QED BY <5>1, <5>2
      <4>3. PICK l \in DOMAIN queue.events :
              \A o \in DOMAIN queue.events : IsEventOf(queue.events[o], i) <=> o = l
        BY <1>1 DEF OneEach
      <4>4. l = it
        BY <1>2, <1>6, <4>3
      <4>5. ~(j < it) /\ j + 1 = it
        BY <1>4, <2>2, <4>2, <4>3, <4>4
      <4>. QED BY <1>2, <1>4, <4>1, <4>5
    <3>2. ~(j \in m .. n - 1)
      BY <1>3, <2>2 DEF IsEventOf
    <3>3. j = n
      BY <1>3, <1>4, <3>1, <3>2
    <3>. QED BY <1>3, <1>6, <3>3
  <2>. QED BY <1>2, <1>6, <2>1, <2>2 DEF Followed, Renewed, HasTime
<1>. QED BY <1>5, <1>6

LEMMA FollowedNext ==
  ASSUME CyclesAssumption, TimersAssumption, TInv, [TimersNext]_allVars,
         NEW i \in TimerIds, i \notin strayed'
  PROVE  Followed(i)
PROOF
<1>1. CASE \/ RunTimers \/ RunOtherEvent
           \/ (StartFrame \/ ComponentEvent \/ BeginPass \/ SkipEvent \/ EndPass)
                /\ UNCHANGED timerVars
           \/ UNCHANGED allVars
  BY <1>1, FollowedByOthers
<1>2. CASE Blank
  BY <1>2, FollowedByBlank
<1>3. ASSUME NEW k \in TimerIds, ReadCounter(k) PROVE Followed(i)
  BY <1>3, FollowedByRead
<1>4. ASSUME NEW k \in TimerIds, WriteCounter(k) PROVE Followed(i)
  BY <1>4, WriteCounterSets, FollowedByWrite
<1>5. ASSUME NEW k \in TimerIds, WriteCompare(k) PROVE Followed(i)
  BY <1>5, WriteCompareSets, FollowedByWrite
<1>6. ASSUME NEW k \in TimerIds, WriteMode(k) PROVE Followed(i)
  BY <1>6, WriteModeSets, FollowedByWrite
<1>7. ASSUME NEW k \in TimerIds, TimerEvent(k) PROVE Followed(i)
  BY <1>7, FollowedByEvent
<1>. QED BY <1>1, <1>2, <1>3, <1>4, <1>5, <1>6, <1>7 DEF TimersNext

(* Only a run of the components moves the clock.                           *)
LEMMA TimeGoesOn ==
  ASSUME CyclesAssumption, TimersAssumption, TInv, [TimersNext]_allVars
  PROVE  ee' \in Nat /\ ee <= ee' /\ (RunTimers => run' \in Nat /\ ee' = ee + run')
PROOF
<1>1. ee \in Nat /\ queue \in ListT
  BY TFacts
<1>2. ASSUME RunTimers PROVE ee' \in Nat /\ run' \in Nat /\ ee' = ee + run'
  <2>1. queue.closest \in Int
    BY <1>1, ListIsTyped
  <2>2. run' = RunCyclesFor(queue.closest) /\ ee' = ee + run'
    BY <1>2 DEF RunTimers, RunCycles
  <2>3. RunCyclesFor(queue.closest) \in Nat
    BY <1>1, <2>1, RunLength
  <2>. QED BY <1>1, <2>2, <2>3
<1>3. RunTimers \/ ee' = ee
  <2>1. CASE RunOtherEvent
    BY <2>1 DEF RunOtherEvent, RunEvent, clocks
  <2>2. CASE Blank
    BY <2>2 DEF Blank, clocks
  <2>3. CASE StartFrame \/ ComponentEvent \/ BeginPass \/ SkipEvent \/ EndPass
    BY <2>3 DEF StartFrame, ComponentEvent, BeginPass, SkipEvent, EndPass, clocks
  <2>4. ASSUME NEW i \in TimerIds, ReadCounter(i) PROVE ee' = ee
    BY <2>4 DEF ReadCounter, schedulerVars, clocks
  <2>5. ASSUME NEW i \in TimerIds, WriteCounter(i) \/ WriteCompare(i) \/ WriteMode(i)
        PROVE  ee' = ee
    BY <2>5 DEF WriteCounter, WriteCompare, WriteMode, Writing, schedulerVars, clocks
  <2>6. ASSUME NEW i \in TimerIds, TimerEvent(i) PROVE ee' = ee
    BY <2>6 DEF TimerEvent, clocks
  <2>7. CASE UNCHANGED allVars
    BY <2>7 DEF allVars, schedulerVars, clocks
  <2>. QED BY <2>1, <2>2, <2>3, <2>4, <2>5, <2>6, <2>7 DEF TimersNext
<1>. QED BY <1>1, <1>2, <1>3

(* Where a running timer stands at a time, in the cycles of its period.    *)
Stands(t, now) == t.counter * t.tick + t.rest + (now - t.last)

(* The value that its event is planned for                                 *)
Ahead(t) == IF t.counter < t.target /\ t.target <= Mask THEN t.target ELSE Mask + 1

LEMMA Factors ==
  ASSUME NEW a \in Int, NEW b \in Int, NEW c \in Nat
  PROVE  /\ a * c \in Int /\ b * c \in Int /\ (a - b) * c = a * c - b * c
         /\ (a + 1) * c = a * c + c
         /\ a <= b => a * c <= b * c
PROOF OBVIOUS

LEMMA TimerIsTyped ==
  ASSUME TimersAssumption, CyclesAssumption, NEW t, Well(t)
  PROVE  /\ t.counter \in Nat /\ t.rest \in Nat /\ t.last \in Nat /\ t.tick \in Nat \ {0}
         /\ t.target \in Nat /\ t.paused \in BOOLEAN /\ t.rest < t.tick /\ t.last <= ee
         /\ t.onCompare \in BOOLEAN /\ t.onOverflow \in BOOLEAN /\ t.clear \in BOOLEAN
         /\ t.counter * t.tick \in Nat
         /\ Mask \in Nat /\ Settle \in Nat \ {0} /\ Never \in Nat
PROOF
<1>1. /\ Mask \in Nat /\ Settle \in Nat \ {0} /\ Never \in Nat
  BY DEF TimersAssumption, CyclesAssumption
<1>2. /\ t.counter \in Nat /\ t.rest \in Nat /\ t.last \in Nat /\ t.tick \in Nat \ {0}
      /\ t.target \in Nat /\ t.paused \in BOOLEAN /\ t.rest < t.tick /\ t.last <= ee
      /\ t.onCompare \in BOOLEAN /\ t.onOverflow \in BOOLEAN /\ t.clear \in BOOLEAN
  BY <1>1 DEF Well, TimerState
<1>3. t.counter * t.tick \in Nat
  BY <1>2
<1>. QED BY <1>1, <1>2, <1>3

LEMMA MeetingIs ==
  ASSUME NEW t
  PROVE  NextMeeting(t) = t.last + Ahead(t) * t.tick - (t.counter * t.tick + t.rest)
PROOF BY DEF NextMeeting, Ahead

(* A look at the counter changes nothing of where the timer stands.        *)
LEMMA UpdateStands ==
  ASSUME CyclesAssumption, TimersAssumption, ee \in Nat, NEW t, Well(t), t.paused = FALSE,
         NEW now \in Int
  PROVE  /\ Stands(UpdateCounter(t), now) = Stands(t, now)
         /\ Stands(t, ee) = UpdateCounter(t).counter * t.tick + UpdateCounter(t).rest
         /\ Stands(t, ee) = Position(t)
PROOF
<1>. DEFINE u == UpdateCounter(t)
<1>1. /\ Well(u) /\ Position(u) = Position(t) /\ u.last = ee /\ u.tick = t.tick
      /\ Position(u) = u.counter * u.tick + u.rest
  BY Updated
<1>. HIDE DEF u
<1>2. /\ t.counter * t.tick \in Nat /\ t.rest \in Nat /\ t.last \in Nat
      /\ u.counter * u.tick \in Nat /\ u.rest \in Nat
  BY <1>1, TimerIsTyped
<1>3. Position(t) = t.counter * t.tick + t.rest + (ee - t.last)
  BY DEF Position
<1>4. /\ Stands(t, now) = t.counter * t.tick + t.rest + (now - t.last)
      /\ Stands(t, ee) = t.counter * t.tick + t.rest + (ee - t.last)
      /\ Stands(u, now) = u.counter * u.tick + u.rest + (now - u.last)
  BY DEF Stands
<1>. DEFINE x == t.counter * t.tick
            y == u.counter * u.tick
<1>5. /\ x \in Nat /\ y \in Nat /\ y + u.rest = x + t.rest + (ee - t.last)
  BY <1>1, <1>2, <1>3
<1>6. Stands(u, now) = Stands(t, now)
  <2>1. /\ Stands(t, now) = x + t.rest + (now - t.last)
        /\ Stands(u, now) = y + u.rest + (now - ee)
    BY <1>1, <1>4
  <2>. HIDE DEF x, y
  <2>. QED BY <1>2, <1>5, <2>1
<1>7. Stands(t, ee) = u.counter * t.tick + u.rest /\ Stands(t, ee) = Position(t)
  BY <1>1, <1>3, <1>4
<1>. QED BY <1>6, <1>7 DEF u

OnPlan(t, time, now) == t.counter <= Mask + 1 => time <= Greater(NextMeeting(t), now + Settle)

LEMMA PlannedOn ==
  ASSUME CyclesAssumption, TimersAssumption, ee \in Nat, NEW t, Well(t), t.paused = FALSE,
         t.last = ee
  PROVE  OnPlan(t, ee + EventDelta(t), ee)
PROOF
<1>. DEFINE c == t.counter * t.tick
            o == (Mask + 1) * t.tick
            g == t.target * t.tick
            overflow == (Mask + 1 - t.counter) * t.tick - t.rest
            target == ((t.target - t.counter) % (Mask + 1)) * t.tick - t.rest
<1>1. SUFFICES ASSUME t.counter <= Mask + 1
               PROVE  ee + EventDelta(t) <= Greater(NextMeeting(t), ee + Settle)
  BY DEF OnPlan
<1>2. /\ t.counter \in Nat /\ t.rest \in Nat /\ t.tick \in Nat \ {0} /\ t.target \in Nat
      /\ c \in Nat /\ Mask \in Nat /\ Settle \in Nat
  BY TimerIsTyped
<1>3. overflow = o - c - t.rest /\ o \in Int /\ g \in Int
  BY <1>2, Factors
<1>4. overflow \in Int
  BY <1>2, <1>3
<1>5. EventDelta(t) = IF t.target <= t.counter THEN Greater(overflow, Settle)
                      ELSE Greater(Lesser(overflow, target), Settle)
  <2>1. (IF t.counter > Mask + 1 THEN Never \div 2 ELSE overflow) = overflow
    BY <1>1, <1>2
  <2>. QED BY <2>1 DEF EventDelta
<1>6. NextMeeting(t) = ee + Ahead(t) * t.tick - (c + t.rest)
  BY MeetingIs
<1>7. CASE t.counter < t.target /\ t.target <= Mask
  <2>1. Ahead(t) * t.tick = g
    BY <1>7 DEF Ahead
  <2>2. (t.target - t.counter) % (Mask + 1) = t.target - t.counter
    <3>. DEFINE d == t.target - t.counter
                p == Mask + 1
    <3>1. d \in Nat /\ p \in Nat \ {0} /\ d < p
      BY <1>2, <1>7
    <3>. HIDE DEF d, p
    <3>2. d % p = d
      BY <3>1
    <3>. QED BY <3>2 DEF d, p
  <2>3. target = g - c - t.rest
    BY <1>2, <2>2, Factors
  <2>4. EventDelta(t) = Greater(Lesser(overflow, target), Settle)
    BY <1>2, <1>5, <1>7
  <2>. HIDE DEF overflow, target, c, g, o
  <2>5. target \in Int
    BY <1>2, <1>3, <2>3
  <2>6. ee + EventDelta(t) <= Greater(ee + target, ee + Settle)
    BY <1>2, <1>4, <2>4, <2>5 DEF Greater, Lesser
  <2>7. NextMeeting(t) = ee + target
    BY <1>2, <1>3, <1>6, <2>1, <2>3
  <2>. QED BY <2>6, <2>7
<1>8. CASE ~(t.counter < t.target /\ t.target <= Mask)
  <2>1. Ahead(t) * t.tick = o
    BY <1>8 DEF Ahead
  <2>2. target \in Int
    BY <1>2
  <2>. HIDE DEF overflow, target, c, g, o
  <2>3. NextMeeting(t) = ee + overflow
    BY <1>2, <1>3, <1>6, <2>1
  <2>4. EventDelta(t) <= Greater(overflow, Settle) /\ EventDelta(t) \in Int
    BY <1>2, <1>4, <1>5, <2>2 DEF Greater, Lesser
  <2>5. ee + EventDelta(t) <= Greater(ee + overflow, ee + Settle)
    BY <1>2, <1>4, <2>4 DEF Greater
  <2>. QED BY <2>3, <2>5
<1>. QED BY <1>7, <1>8

LEMMA PlanUpdated ==
  ASSUME CyclesAssumption, TimersAssumption, ee \in Nat, NEW t, Well(t), t.paused = FALSE,
         NEW time \in Int, NEW now \in Int, OnPlan(t, time, now)
  PROVE  OnPlan(UpdateCounter(t), time, now)
PROOF
<1>. DEFINE u == UpdateCounter(t)
            x == t.counter * t.tick
            y == u.counter * u.tick
            a == Ahead(t) * t.tick
            b == Ahead(u) * u.tick
<1>1. /\ Well(u) /\ Position(u) = Position(t) /\ u.last = ee /\ u.tick = t.tick
      /\ u.target = t.target /\ t.counter <= u.counter
      /\ Stands(u, ee) = Stands(t, ee)
  BY Updated, UpdateStands
<1>. HIDE DEF u
<1>2. /\ t.counter \in Nat /\ t.rest \in Nat /\ t.last \in Nat /\ x \in Nat
      /\ t.tick \in Nat \ {0} /\ t.target \in Nat /\ Mask \in Nat /\ Settle \in Nat
      /\ u.counter \in Nat /\ u.rest \in Nat /\ y \in Nat
  BY <1>1, TimerIsTyped
<1>3. SUFFICES ASSUME u.counter <= Mask + 1
               PROVE  time <= Greater(NextMeeting(u), now + Settle)
  BY DEF OnPlan, u
<1>4. time <= Greater(NextMeeting(t), now + Settle)
  <2>1. t.counter <= Mask + 1
    BY <1>1, <1>2, <1>3
  <2>. QED BY <2>1 DEF OnPlan
<1>5. a \in Int /\ b \in Int /\ a <= b
  <2>1. Ahead(t) \in Int /\ Ahead(u) \in Int /\ Ahead(t) <= Ahead(u)
    BY <1>1, <1>2 DEF Ahead
  <2>. QED BY <1>1, <1>2, <2>1, Factors
<1>6. y + u.rest = x + t.rest + (ee - t.last)
  <2>1. Stands(t, ee) = x + t.rest + (ee - t.last) /\ Stands(u, ee) = y + u.rest + (ee - ee)
    BY <1>1 DEF Stands
  <2>. HIDE DEF x, y
  <2>. QED BY <1>1, <1>2, <2>1
<1>7. /\ NextMeeting(t) = t.last + a - (x + t.rest)
      /\ NextMeeting(u) = ee + b - (y + u.rest)
  BY <1>1, MeetingIs
<1>. HIDE DEF x, y, a, b
<1>8. /\ NextMeeting(t) \in Int /\ NextMeeting(u) \in Int
      /\ NextMeeting(t) <= NextMeeting(u)
  BY <1>2, <1>5, <1>6, <1>7
<1>. QED BY <1>2, <1>4, <1>8 DEF Greater

LEMMA PlanOfLater ==
  ASSUME CyclesAssumption, TimersAssumption, NEW t, Well(t), NEW time \in Int, NEW now \in Int,
         NEW then \in Int, now <= then, OnPlan(t, time, now)
  PROVE  OnPlan(t, time, then)
PROOF
<1>1. SUFFICES ASSUME t.counter <= Mask + 1
               PROVE  time <= Greater(NextMeeting(t), then + Settle)
  BY DEF OnPlan
<1>2. /\ t.counter * t.tick \in Nat /\ t.rest \in Nat /\ t.last \in Nat /\ t.tick \in Nat
      /\ t.target \in Nat /\ Mask \in Nat /\ Settle \in Nat
  BY TimerIsTyped
<1>3. Ahead(t) * t.tick \in Int
  <2>1. Ahead(t) \in Int
    BY <1>2 DEF Ahead
  <2>. QED BY <1>2, <2>1, Factors
<1>4. NextMeeting(t) \in Int
  BY <1>2, <1>3, MeetingIs
<1>5. time <= Greater(NextMeeting(t), now + Settle)
  BY <1>1 DEF OnPlan
<1>. QED BY <1>2, <1>4, <1>5 DEF Greater

(* The event of timer i comes by its next hit.                             *)
PlannedFor(q, i, t, now) ==
  \A n \in DOMAIN q.events : IsEventOf(q.events[n], i) => OnPlan(t, q.events[n].time, now)

Plans ==
  \A i \in TimerIds : i \notin strayed /\ timers[i].paused = FALSE =>
    PlannedFor(queue, i, timers[i], ee)

LEMMA PlansNext ==
  ASSUME CyclesAssumption, TimersAssumption, TInv, TInv', Plans, [TimersNext]_allVars
  PROVE  Plans'
PROOF
<1>1. /\ queue \in ListT /\ ee \in Nat /\ ee' \in Nat /\ ee <= ee'
      /\ \A i \in TimerIds : Well(timers[i]) /\ timers[i].paused \in BOOLEAN
  BY TFacts, TimeGoesOn
<1>2. /\ queue' \in ListT
      /\ \A i \in TimerIds : timers'[i] \in TimerState
      /\ \A i \in TimerIds : timers'[i].rest < timers'[i].tick /\ timers'[i].last <= ee'
  BY DEF TInv, TimersTypeOK, ListT, EventT
<1>3. SUFFICES ASSUME NEW i \in TimerIds, i \notin strayed', timers'[i].paused = FALSE
               PROVE  PlannedFor(queue', i, timers'[i], ee')
  BY DEF Plans, PlannedFor
<1>4. Followed(i)
  BY <1>3, FollowedNext
<1>5. CASE Held(i)
  <2>. DEFINE t == timers[i]
              u == timers'[i]
  <2>1. /\ i \notin strayed /\ u \in {t, UpdateCounter(t)}
        /\ SameEvents(queue, queue', i)
    BY <1>5 DEF Held
  <2>2. t.paused = FALSE /\ Well(t)
    BY <1>1, <1>3, <2>1, Updated
  <2>3. Well(u)
    BY <1>1, <2>1, <2>2, Updated
  <2>4. SUFFICES ASSUME NEW n \in DOMAIN queue'.events, IsEventOf(queue'.events[n], i)
                 PROVE  OnPlan(u, queue'.events[n].time, ee')
    BY DEF PlannedFor
  <2>5. PICK m \in DOMAIN queue.events : queue.events[m] = queue'.events[n]
    BY <2>1, <2>4 DEF SameEvents
  <2>. DEFINE time == queue'.events[n].time
  <2>6. time \in Int /\ OnPlan(t, time, ee)
    BY <1>1, <1>3, <2>1, <2>2, <2>4, <2>5, ListIsTyped DEF Plans, PlannedFor
  <2>. HIDE DEF t, u, time
  <2>7. OnPlan(u, time, ee)
    <3>1. /\ ee \in Nat /\ ee \in Int /\ Well(t) /\ t.paused = FALSE
          /\ time \in Int /\ OnPlan(t, time, ee)
      BY <1>1, <2>2, <2>6
    <3>2. OnPlan(UpdateCounter(t), time, ee)
      BY <3>1, PlanUpdated
    <3>. QED BY <2>1, <2>6, <3>2
  <2>8. OnPlan(u, time, ee')
    BY <1>1, <2>3, <2>6, <2>7, PlanOfLater
  <2>. QED BY <2>8 DEF u, time
<1>6. CASE Renewed(i)
  <2>. DEFINE u == timers'[i]
  <2>1. /\ u.last = ee /\ ee' = ee /\ HasTime(queue', i, ee + EventDelta(u))
    BY <1>6 DEF Renewed
  <2>2. Well(u) /\ u.paused = FALSE
    BY <1>1, <1>2, <1>3, <2>1 DEF Well
  <2>. HIDE DEF u
  <2>3. OnPlan(u, ee + EventDelta(u), ee)
    BY <1>1, <2>1, <2>2, PlannedOn
  <2>4. PlannedFor(queue', i, u, ee')
    BY <2>1, <2>3 DEF PlannedFor, HasTime
  <2>. QED BY <2>4 DEF u
<1>. QED BY <1>3, <1>4, <1>5, <1>6 DEF Followed

LEMMA PlansGive ==
  ASSUME CyclesAssumption, TimersAssumption, TInv, Plans PROVE NextHitPlanned
PROOF
<1>1. /\ Never \in Nat /\ ee < Never /\ ee \in Nat /\ queue \in ListT
      /\ \A i \in TimerIds : timers[i].paused \in BOOLEAN
  BY TFacts
<1>2. SUFFICES ASSUME NEW i \in TimerIds
               PROVE  \E n \in DOMAIN queue.events :
                        /\ \A m \in DOMAIN queue.events :
                             IsEventOf(queue.events[m], i) <=> m = n
                        /\ timers[i].paused => queue.events[n].time > ee
                        /\ /\ ~timers[i].paused /\ i \notin strayed
                           /\ timers[i].counter <= Mask + 1
                           => queue.events[n].time <= Greater(NextMeeting(timers[i]), ee + Settle)
  BY DEF NextHitPlanned
<1>3. PICK n \in DOMAIN queue.events :
        \A m \in DOMAIN queue.events : IsEventOf(queue.events[m], i) <=> m = n
  BY DEF TInv, OneEach
<1>4. ASSUME timers[i].paused PROVE queue.events[n].time > ee
  <2>1. timers[i].paused = TRUE
    BY <1>1, <1>4
  <2>2. HasTime(queue, i, Never)
    BY <2>1, EventOfPaused
  <2>3. queue.events[n].time = Never
    BY <1>3, <2>2 DEF HasTime
  <2>. QED BY <1>1, <2>3
<1>5. ASSUME ~timers[i].paused, i \notin strayed, timers[i].counter <= Mask + 1
      PROVE  queue.events[n].time <= Greater(NextMeeting(timers[i]), ee + Settle)
  <2>1. PlannedFor(queue, i, timers[i], ee)
    BY <1>1, <1>5 DEF Plans
  <2>. QED BY <1>3, <1>5, <2>1 DEF PlannedFor, OnPlan
<1>. QED BY <1>3, <1>4, <1>5

(* Every timer that runs has its event by the time of its next hit         *)
(* (update_timer_event_time, restart_timer), for any rates and any writes, *)
(* as long as its counter is not beyond the tick of its overflow.          *)
THEOREM NextHitsArePlanned == TimersSpec => []NextHitPlanned
PROOF
<1>. USE CyclesAssumption, TimersAssumption
<1>1. TimersInit => Plans
  BY DEF TimersInit, Plans
<1>2. TInv /\ TInv' /\ Plans /\ [TimersNext]_allVars => Plans'
  BY PlansNext
<1>3. TInv /\ Plans => NextHitPlanned
  BY PlansGive
<1>. QED BY <1>1, <1>2, <1>3, TimersInvariance, PTL DEF TimersSpec

(* A hit that a running timer has had, and that its callback is to come    *)
(* for.  The event is at most the 8 cycles of calculate_timer_event_delta  *)
(* away; if these are within a tick, the counter is still at the compare   *)
(* value when it comes, and a look before that has not taken it past.      *)
Pends(t, o, time, now) ==
  /\ time <= now + Settle
  /\ "compare" \in o =>
       /\ t.onCompare = TRUE /\ t.target <= Mask /\ t.counter <= t.target
       /\ t.target * t.tick <= Stands(t, now)
       /\ Stands(t, time) < (t.target + 1) * t.tick
  /\ "overflow" \in o => t.onOverflow = TRUE /\ (Mask + 1) * t.tick <= Stands(t, now)

PendsFor(q, i, t, o, now) ==
  \A n \in DOMAIN q.events : IsEventOf(q.events[n], i) => Pends(t, o, q.events[n].time, now)

Owes ==
  \A i \in TimerIds : i \notin strayed /\ owed[i] # {} =>
    timers[i].paused = FALSE /\ PendsFor(queue, i, timers[i], owed[i], ee)

SlowTicks == \A i \in TimerIds : Settle <= timers[i].tick

LEMMA TicksNext ==
  ASSUME CyclesAssumption, TimersAssumption, TInv, SlowTicks, [TimersNext]_allVars,
         \A c \in Controls : Settle <= c.tick
  PROVE  SlowTicks'
PROOF
<1>1. /\ ee \in Nat /\ timers \in [TimerIds -> TimerState]
      /\ \A i \in TimerIds : Well(timers[i])
  BY TFacts
<1>2. SUFFICES ASSUME NEW i \in TimerIds
               PROVE  \/ timers'[i].tick = timers[i].tick
                      \/ \E c \in Controls : timers'[i].tick = c.tick
  BY DEF SlowTicks
<1>3. CASE \/ RunTimers \/ RunOtherEvent
           \/ (StartFrame \/ ComponentEvent \/ BeginPass \/ SkipEvent \/ EndPass)
                /\ UNCHANGED timerVars
           \/ UNCHANGED allVars
  BY <1>3 DEF RunTimers, RunOtherEvent, timerVars, allVars
<1>4. CASE Blank
  <2>1. PICK q, ts, start : BlankTo(q, ts, start)
    BY <1>4, BlankIs
  <2>. QED BY <2>1 DEF BlankTo, GatedOne
<1>5. ASSUME NEW k \in TimerIds, NEW t, timers' = [timers EXCEPT ![k] = t],
             t.tick = timers[k].tick \/ \E c \in Controls : t.tick = c.tick
      PROVE  \/ timers'[i].tick = timers[i].tick
             \/ \E c \in Controls : timers'[i].tick = c.tick
  BY <1>1, <1>5
<1>6. ASSUME NEW k \in TimerIds, ReadCounter(k) PROVE timers'[i].tick = timers[i].tick
  <2>1. timers' = [timers EXCEPT ![k] = UpdateCounter(timers[k])]
    BY <1>6 DEF ReadCounter
  <2>2. UpdateCounter(timers[k]).tick = timers[k].tick
    BY <1>1, Updated
  <2>. QED BY <1>1, <2>1, <2>2
<1>7. ASSUME NEW k \in TimerIds, WriteCounter(k) \/ WriteCompare(k) \/ WriteMode(k)
      PROVE  \/ timers'[i].tick = timers[i].tick
             \/ \E c \in Controls : timers'[i].tick = c.tick
  <2>1. PICK t : Sets(k, t)
    BY <1>7, WriteCounterSets, WriteCompareSets, WriteModeSets
  <2>2. /\ timers' = [timers EXCEPT ![k] = t]
        /\ t.tick = timers[k].tick \/ \E c \in Controls : t.tick = c.tick
    BY <2>1 DEF Sets
  <2>. QED BY <1>5, <2>2
<1>8. ASSUME NEW k \in TimerIds, TimerEvent(k) PROVE timers'[i].tick = timers[i].tick
  <2>1. timers' = [timers EXCEPT ![k] = Turned(timers[k])]
    BY <1>8, TimerEventIs
  <2>2. timers[k].paused = FALSE
    BY <1>8, RunningIfDue
  <2>3. Turned(timers[k]).tick = timers[k].tick
    BY <1>1, <2>2, TurnedIs
  <2>. QED BY <1>1, <2>1, <2>3
<1>. QED BY <1>3, <1>4, <1>6, <1>7, <1>8 DEF TimersNext

LEMMA StandsIsInt ==
  ASSUME CyclesAssumption, TimersAssumption, NEW t, Well(t), NEW now \in Int
  PROVE  /\ Stands(t, now) \in Int
         /\ \A then \in Int : Stands(t, then) = Stands(t, now) + (then - now)
PROOF
<1>. DEFINE x == t.counter * t.tick
<1>1. x \in Nat /\ t.rest \in Nat /\ t.last \in Nat
  BY TimerIsTyped
<1>2. \A n : Stands(t, n) = x + t.rest + (n - t.last)
  BY DEF Stands
<1>. HIDE DEF x
<1>. QED BY <1>1, <1>2

(* A hit stays owed as time goes on and as the counter is looked at.       *)
LEMMA PendsLater ==
  ASSUME CyclesAssumption, TimersAssumption, NEW t, Well(t), NEW o, NEW time \in Int,
         NEW now \in Int, NEW then \in Int, now <= then, Pends(t, o, time, now)
  PROVE  Pends(t, o, time, then)
PROOF
<1>1. /\ Stands(t, now) \in Int /\ Stands(t, then) \in Int
      /\ Stands(t, then) = Stands(t, now) + (then - now)
  BY StandsIsInt
<1>2. /\ t.target * t.tick \in Int /\ (Mask + 1) * t.tick \in Int /\ Settle \in Int
  BY TimerIsTyped, Factors
<1>. QED BY <1>1, <1>2 DEF Pends

(* The greatest value whose multiple of the tick a timer has reached       *)
LEMMA Reaches ==
  ASSUME NEW c \in Nat, NEW r \in Nat, NEW d \in Nat, r < d, NEW n \in Nat
  PROVE  /\ n * d <= c * d + r => n <= c
         /\ c * d + r < (n + 1) * d => c <= n
PROOF
<1>1. ASSUME n > c PROVE c * d + r < n * d
  <2>1. (c + 1) * d = c * d + d /\ (c + 1) * d <= n * d
    BY <1>1, Factors
  <2>2. c * d \in Int /\ n * d \in Int
    BY Factors
  <2>. QED BY <2>1, <2>2
<1>2. ASSUME c > n PROVE (n + 1) * d <= c * d + r
  <2>1. (n + 1) * d <= c * d /\ (n + 1) * d \in Int /\ c * d \in Int
    BY <1>2, Factors
  <2>. QED BY <2>1
<1>3. c * d \in Int /\ n * d \in Int /\ (n + 1) * d \in Int
  BY Factors
<1>. QED BY <1>1, <1>2, <1>3

LEMMA PendsUpdated ==
  ASSUME CyclesAssumption, TimersAssumption, ee \in Nat, NEW t, Well(t), t.paused = FALSE,
         NEW o, NEW time \in Int, ee <= time, Pends(t, o, time, ee)
  PROVE  Pends(UpdateCounter(t), o, time, ee)
PROOF
<1>. DEFINE u == UpdateCounter(t)
<1>1. /\ Well(u) /\ u.tick = t.tick /\ u.target = t.target
      /\ u.onCompare = t.onCompare /\ u.onOverflow = t.onOverflow
      /\ Stands(u, ee) = Stands(t, ee) /\ Stands(u, time) = Stands(t, time)
      /\ Stands(t, ee) = u.counter * t.tick + u.rest
  BY Updated, UpdateStands
<1>. HIDE DEF u
<1>2. ASSUME "compare" \in o PROVE u.counter <= u.target
  <2>1. /\ Stands(t, time) < (t.target + 1) * t.tick
        /\ Stands(t, ee) \in Int /\ Stands(t, time) = Stands(t, ee) + (time - ee)
    BY <1>2, StandsIsInt DEF Pends
  <2>2. /\ u.counter \in Nat /\ u.rest \in Nat /\ u.rest < t.tick /\ t.tick \in Nat
        /\ t.target \in Nat /\ (t.target + 1) * t.tick \in Int
    BY <1>1, TimerIsTyped, Factors
  <2>3. Stands(t, ee) < (t.target + 1) * t.tick
    BY <2>1, <2>2
  <2>4. u.counter * t.tick + u.rest < (t.target + 1) * t.tick
    BY <1>1, <2>3
  <2>5. u.counter <= t.target
    BY <2>2, <2>4, Reaches
  <2>. QED BY <1>1, <2>5
<1>3. Pends(u, o, time, ee)
  BY <1>1, <1>2 DEF Pends
<1>. QED BY <1>3 DEF u

(* A run that brings timer t to a hit leaves its event no more than 8      *)
(* cycles away.                                                            *)
LEMMA RunOwes ==
  ASSUME CyclesAssumption, TimersAssumption, ee \in Nat, NEW r \in Nat,
         NEW t, Well(t), t.paused = FALSE, Settle <= t.tick, NEW time \in Int,
         OnPlan(t, time, ee), NEW o, NEW p,
         o = {} \/ Pends(t, o, time, ee),
         NEW c, c = (t.onCompare = TRUE /\ t.target <= Mask
                       /\ Position(t) < t.target * t.tick
                       /\ t.target * t.tick <= Position(t) + r),
         NEW v, v = (t.onOverflow = TRUE /\ Position(t) < (Mask + 1) * t.tick
                       /\ (Mask + 1) * t.tick <= Position(t) + r),
         "compare" \in p => "compare" \in o \/ c,
         "overflow" \in p => "overflow" \in o \/ v,
         p # {} => o # {} \/ c \/ v
  PROVE  p # {} => Pends(t, p, time, ee + r)
PROOF
<1>. DEFINE g == t.target * t.tick
            w == (Mask + 1) * t.tick
            a == Ahead(t) * t.tick
            s == Stands(t, ee)
<1>1. /\ t.counter \in Nat /\ t.rest \in Nat /\ t.last \in Nat /\ t.tick \in Nat \ {0}
      /\ t.rest < t.tick /\ t.last <= ee
      /\ t.target \in Nat /\ Mask \in Nat /\ Settle \in Nat /\ t.counter * t.tick \in Nat
      /\ g \in Int /\ w \in Int /\ (t.target + 1) * t.tick = g + t.tick
  <2>1. /\ t.counter \in Nat /\ t.rest \in Nat /\ t.last \in Nat /\ t.tick \in Nat \ {0}
        /\ t.rest < t.tick /\ t.last <= ee
        /\ t.target \in Nat /\ Mask \in Nat /\ Settle \in Nat /\ t.counter * t.tick \in Nat
    BY TimerIsTyped
  <2>2. t.target \in Int /\ t.tick \in Nat /\ Mask + 1 \in Int
    BY <2>1
  <2>3. g \in Int /\ w \in Int
    BY <2>2, Factors
  <2>4. (t.target + 1) * t.tick = g + t.tick
    BY <2>2, Factors
  <2>. QED BY <2>1, <2>3, <2>4
<1>2. /\ s \in Int /\ Stands(t, ee + r) = s + r /\ Stands(t, time) = s + (time - ee)
      /\ Position(t) = s
  <2>1. ee \in Int /\ ee + r \in Int /\ (ee + r) - ee = r
    OBVIOUS
  <2>2. s \in Int /\ \A then \in Int : Stands(t, then) = s + (then - ee)
    BY <2>1, StandsIsInt
  <2>3. Position(t) = s
    BY <2>1, UpdateStands
  <2>4. Stands(t, ee + r) = s + ((ee + r) - ee) /\ Stands(t, time) = s + (time - ee)
    BY <2>1, <2>2
  <2>. HIDE DEF s
  <2>. QED BY <2>1, <2>2, <2>3, <2>4
<1>3. NextMeeting(t) = ee + a - s
  <2>1. NextMeeting(t) = t.last + a - (t.counter * t.tick + t.rest)
    BY MeetingIs
  <2>2. s = t.counter * t.tick + t.rest + (ee - t.last)
    BY DEF Stands
  <2>3. a \in Int
    <3>1. Ahead(t) \in Int
      BY <1>1 DEF Ahead
    <3>. QED BY <1>1, <3>1, Factors
  <2>. DEFINE x == t.counter * t.tick
  <2>4. x \in Nat /\ NextMeeting(t) = t.last + a - (x + t.rest)
        /\ s = x + t.rest + (ee - t.last)
    BY <1>1, <2>1, <2>2
  <2>. HIDE DEF x, a, s
  <2>. QED BY <1>1, <2>3, <2>4
<1>4. ASSUME NEW n \in Nat, s < n * t.tick PROVE t.counter < n
  <2>1. t.counter * t.tick <= s
    <3>. DEFINE x == t.counter * t.tick
    <3>1. x \in Nat /\ s = x + t.rest + (ee - t.last)
      BY <1>1 DEF Stands
    <3>. HIDE DEF x, s
    <3>2. x <= s
      BY <1>1, <3>1
    <3>. QED BY <3>2 DEF x
  <2>2. SUFFICES ASSUME n <= t.counter PROVE FALSE
    BY <1>1
  <2>3. n * t.tick <= t.counter * t.tick /\ n * t.tick \in Int /\ t.counter * t.tick \in Int
    BY <1>1, <2>2, Factors
  <2>. QED BY <1>2, <1>4, <2>1, <2>3
<1>5. ASSUME c
      PROVE  /\ time <= ee + r + Settle /\ t.onCompare = TRUE /\ t.target <= Mask
             /\ t.counter <= t.target /\ g <= s + r /\ s + (time - ee) < g + t.tick
  <2>1. /\ t.onCompare = TRUE /\ t.target <= Mask /\ s < g /\ g <= s + r
    BY <1>2, <1>5
  <2>2. t.counter < t.target
    BY <1>1, <1>4, <2>1
  <2>3. a = g /\ t.counter <= Mask + 1
    BY <1>1, <2>1, <2>2 DEF Ahead
  <2>4. time <= Greater(ee + g - s, ee + Settle)
    BY <1>3, <2>3 DEF OnPlan
  <2>. HIDE DEF a, g, s
  <2>5. time <= ee + g - s \/ time <= ee + Settle
    BY <2>4 DEF Greater
  <2>. QED BY <1>1, <1>2, <2>1, <2>2, <2>5
<1>6. ASSUME v
      PROVE  time <= ee + r + Settle /\ t.onOverflow = TRUE /\ w <= s + r
  <2>1. t.onOverflow = TRUE /\ s < w /\ w <= s + r
    BY <1>2, <1>6
  <2>2. t.counter < Mask + 1
    BY <1>1, <1>4, <2>1
  <2>3. a \in Int /\ a <= w
    <3>1. Ahead(t) \in Int /\ Ahead(t) <= Mask + 1 /\ Mask + 1 \in Int
      BY <1>1 DEF Ahead
    <3>. QED BY <1>1, <3>1, Factors
  <2>4. time <= Greater(ee + a - s, ee + Settle)
    BY <1>1, <1>3, <2>2 DEF OnPlan
  <2>. HIDE DEF a, w, s
  <2>5. time <= ee + a - s \/ time <= ee + Settle
    BY <2>4 DEF Greater
  <2>. QED BY <1>1, <1>2, <2>1, <2>3, <2>5
<1>7. SUFFICES ASSUME p # {} PROVE Pends(t, p, time, ee + r)
  OBVIOUS
<1>8. o # {} => Pends(t, o, time, ee + r)
  <2>1. ee + r \in Int /\ ee <= ee + r /\ ee \in Int
    OBVIOUS
  <2>. QED BY <2>1, PendsLater
<1>9. time <= ee + r + Settle
  <2>1. CASE o # {}
    BY <1>8, <2>1 DEF Pends
  <2>2. CASE c
    BY <1>5, <2>2
  <2>3. CASE v
    BY <1>6, <2>3
  <2>. QED BY <1>7, <2>1, <2>2, <2>3
<1>10. ASSUME "compare" \in p
       PROVE  /\ t.onCompare = TRUE /\ t.target <= Mask /\ t.counter <= t.target
              /\ g <= Stands(t, ee + r) /\ Stands(t, time) < (t.target + 1) * t.tick
  <2>1. CASE "compare" \in o
    BY <1>8, <2>1 DEF Pends
  <2>2. CASE c
    BY <1>1, <1>2, <1>5, <2>2
  <2>. QED BY <1>10, <2>1, <2>2
<1>11. ASSUME "overflow" \in p PROVE t.onOverflow = TRUE /\ w <= Stands(t, ee + r)
  <2>1. CASE "overflow" \in o
    BY <1>8, <2>1 DEF Pends
  <2>2. CASE v
    BY <1>2, <1>6, <2>2
  <2>. QED BY <1>11, <2>1, <2>2
<1>. QED BY <1>9, <1>10, <1>11 DEF Pends

(* The event of a timer comes when its time has come.                      *)
LEMMA DueNow ==
  ASSUME CyclesAssumption, TimersAssumption, TInv, NEW i \in TimerIds, TimerEvent(i),
         i \notin strayed
  PROVE  queue.events[it].time = ee
PROOF
<1>1. queue \in ListT /\ ee \in Nat
  BY TFacts
<1>2. /\ it \in DOMAIN queue.events /\ at = "events"
      /\ queue.events[it].time <= queue.closest /\ IsEventOf(queue.events[it], i)
  BY DEF TimerEvent, Due
<1>3. /\ queue.closest <= ee /\ Since(queue, Astray(timers, strayed), ee)
  BY <1>2 DEF TInv, Bounds
<1>4. ~Exempt(queue.events[it], Astray(timers, strayed))
  BY <1>2 DEF Exempt, Astray, IsEventOf
<1>5. ee <= queue.events[it].time
  BY <1>2, <1>3, <1>4 DEF Since
<1>6. queue.events[it].time \in Int /\ queue.closest \in Int
  BY <1>1, <1>2, ListIsTyped
<1>. QED BY <1>1, <1>2, <1>3, <1>5, <1>6

(* timer_event finds every hit that is owed.                               *)
LEMMA EventPays ==
  ASSUME CyclesAssumption, TimersAssumption, TInv, Owes, NEW i \in TimerIds, TimerEvent(i),
         i \notin strayed
  PROVE  owed'[i] = {}
PROOF
<1>. DEFINE t == timers[i]
            u == UpdateCounter(t)
            o == owed[i]
            P == {h \in {"compare", "overflow"} :
                    \/ Reached(t) /\ (h = "compare" \/ u.clear)
                    \/ Met(t).counter > Mask /\ h = "overflow"}
<1>1. /\ ee \in Nat /\ Well(t) /\ t.paused = FALSE
      /\ owed \in [TimerIds -> SUBSET {"compare", "overflow"}]
  BY TFacts, RunningIfDue DEF TInv, TimersTypeOK
<1>2. owed' = [owed EXCEPT ![i] = @ \ P]
  BY TimerEventIs
<1>3. owed'[i] = o \ P /\ o \subseteq {"compare", "overflow"}
  <2>. HIDE DEF P
  <2>. QED BY <1>1, <1>2
<1>4. SUFFICES ASSUME o # {} PROVE o \subseteq P
  BY <1>3
<1>5. Pends(t, o, ee, ee)
  <2>1. it \in DOMAIN queue.events /\ IsEventOf(queue.events[it], i)
    BY DEF TimerEvent, Due
  <2>2. queue.events[it].time = ee
    BY DueNow
  <2>. QED BY <1>4, <2>1, <2>2 DEF Owes, PendsFor
<1>6. /\ u.counter \in Nat /\ u.rest \in Nat /\ u.rest < t.tick
      /\ t.target \in Nat /\ t.tick \in Nat /\ t.counter \in Nat /\ Mask \in Nat
      /\ u.target = t.target /\ u.onCompare = t.onCompare
      /\ Stands(t, ee) = u.counter * t.tick + u.rest
  <2>1. Well(u) /\ u.tick = t.tick /\ u.target = t.target /\ u.onCompare = t.onCompare
    BY <1>1, Updated
  <2>2. Stands(t, ee) = u.counter * t.tick + u.rest
    <3>1. ee \in Nat /\ ee \in Int /\ Well(t) /\ t.paused = FALSE
      BY <1>1
    <3>. HIDE DEF t
    <3>. QED BY <3>1, UpdateStands
  <2>. HIDE DEF u
  <2>3. u.counter \in Nat /\ u.rest \in Nat /\ u.rest < u.tick
    BY <2>1, TimerIsTyped
  <2>. QED BY <1>1, <2>1, <2>2, <2>3, TimerIsTyped
<1>7. Met(t).counter = IF Reached(t) /\ u.clear THEN 0 ELSE u.counter
  BY <1>1, TurnedIs
<1>8. ASSUME "compare" \in o PROVE "compare" \in P
  <2>1. /\ t.onCompare = TRUE /\ t.counter <= t.target
        /\ t.target * t.tick <= u.counter * t.tick + u.rest
    BY <1>5, <1>6, <1>8 DEF Pends
  <2>2. t.target <= u.counter
    <3>. HIDE DEF u, t
    <3>. QED BY <1>6, <2>1, Reaches
  <2>3. Compared(t.counter, u)
    BY <1>6, <2>1, <2>2 DEF Compared
  <2>4. Reached(t)
    BY <1>6, <2>1, <2>3 DEF Reached
  <2>. QED BY <2>4
<1>9. ASSUME "overflow" \in o PROVE "overflow" \in P
  <2>1. (Mask + 1) * t.tick <= u.counter * t.tick + u.rest
    BY <1>5, <1>6, <1>9 DEF Pends
  <2>2. Mask + 1 <= u.counter
    <3>. HIDE DEF u, t
    <3>1. Mask + 1 \in Nat
      BY <1>6
    <3>. QED BY <1>6, <2>1, <3>1, Reaches
  <2>3. CASE Reached(t) /\ u.clear
    BY <2>3
  <2>4. CASE ~(Reached(t) /\ u.clear)
    <3>1. Met(t).counter = u.counter
      BY <1>7, <2>4
    <3>2. Met(t).counter > Mask
      BY <1>6, <2>2, <3>1
    <3>. QED BY <3>2
  <2>. QED BY <2>3, <2>4
<1>. HIDE DEF P
<1>. QED BY <1>3, <1>8, <1>9

LEMMA RunKeepsOwed ==
  ASSUME CyclesAssumption, TimersAssumption, TInv, Plans, SlowTicks, Owes, RunTimers,
         NEW i \in TimerIds, i \notin strayed, owed'[i] # {}
  PROVE  timers'[i].paused = FALSE /\ PendsFor(queue', i, timers'[i], owed'[i], ee')
PROOF
<1>. DEFINE t == timers[i]
            o == owed[i]
            p == owed'[i]
            c == /\ t.onCompare = TRUE /\ t.target <= Mask
                 /\ Position(t) < t.target * t.tick
                 /\ t.target * t.tick <= Position(t) + run'
            v == /\ t.onOverflow = TRUE /\ Position(t) < (Mask + 1) * t.tick
                 /\ (Mask + 1) * t.tick <= Position(t) + run'
<1>1. /\ ee \in Nat /\ Well(t) /\ t.paused \in BOOLEAN /\ queue \in ListT
      /\ t.onCompare \in BOOLEAN /\ t.onOverflow \in BOOLEAN
  <2>1. ee \in Nat /\ Well(t) /\ t.paused \in BOOLEAN /\ queue \in ListT
    BY TFacts
  <2>. QED BY <2>1, TimerIsTyped
<1>2. run' \in Nat /\ ee' = ee + run'
  BY TimeGoesOn DEF TimersNext
<1>3. timers' = timers /\ queue' = queue
  BY DEF RunTimers, RunCycles
<1>4. p = IF t.paused THEN o
          ELSE o \cup {h \in {"compare"} : t.onCompare /\ t.target <= Mask /\ Meets(t, t.target)}
                 \cup {h \in {"overflow"} : t.onOverflow /\ Meets(t, Mask + 1)}
  BY DEF RunTimers
<1>5. t.paused = FALSE
  <2>1. SUFFICES ASSUME t.paused = TRUE PROVE FALSE
    BY <1>1
  <2>2. o # {}
    BY <1>4, <2>1
  <2>. QED BY <2>1, <2>2 DEF Owes
<1>6. /\ "compare" \in p => "compare" \in o \/ c
      /\ "overflow" \in p => "overflow" \in o \/ v
      /\ p # {} => o # {} \/ c \/ v
  BY <1>1, <1>4, <1>5 DEF Meets
<1>7. ASSUME NEW n \in DOMAIN queue.events, IsEventOf(queue.events[n], i)
      PROVE  Pends(t, p, queue.events[n].time, ee + run')
  <2>. DEFINE time == queue.events[n].time
              r == run'
  <2>1. time \in Int
    BY <1>1, <1>7, ListIsTyped
  <2>2. OnPlan(t, time, ee)
    BY <1>5, <1>7 DEF Plans, PlannedFor
  <2>3. o = {} \/ Pends(t, o, time, ee)
    BY <1>7 DEF Owes, PendsFor
  <2>4. Settle <= t.tick
    BY DEF SlowTicks
  <2>5. /\ c = (t.onCompare = TRUE /\ t.target <= Mask
                  /\ Position(t) < t.target * t.tick
                  /\ t.target * t.tick <= Position(t) + r)
        /\ v = (t.onOverflow = TRUE /\ Position(t) < (Mask + 1) * t.tick
                  /\ (Mask + 1) * t.tick <= Position(t) + r)
        /\ r \in Nat
    BY <1>2
  <2>. HIDE DEF t, o, p, c, v, time, r
  <2>6. p # {} => Pends(t, p, time, ee + r)
    BY <1>1, <1>5, <1>6, <2>1, <2>2, <2>3, <2>4, <2>5, RunOwes
  <2>. QED BY <2>6 DEF p, time, r
<1>. QED BY <1>2, <1>3, <1>5, <1>7 DEF PendsFor

LEMMA OwesNext ==
  ASSUME CyclesAssumption, TimersAssumption, TInv, TInv', Plans, SlowTicks, Owes,
         [TimersNext]_allVars
  PROVE  Owes'
PROOF
<1>1. /\ queue \in ListT /\ ee \in Nat /\ ee' \in Nat /\ ee <= ee'
      /\ \A i \in TimerIds : Well(timers[i])
  BY TFacts, TimeGoesOn
<1>2. SUFFICES ASSUME NEW i \in TimerIds, i \notin strayed', owed'[i] # {}
               PROVE  timers'[i].paused = FALSE
                      /\ PendsFor(queue', i, timers'[i], owed'[i], ee')
  BY DEF Owes, PendsFor
<1>3. Followed(i)
  BY <1>2, FollowedNext
<1>4. CASE RunTimers
  <2>1. i \notin strayed
    BY <1>2, <1>4 DEF RunTimers
  <2>. QED BY <1>2, <1>4, <2>1, RunKeepsOwed
<1>5. CASE Held(i) /\ ~RunTimers
  <2>. DEFINE t == timers[i]
              u == timers'[i]
              o == owed[i]
  <2>1. /\ i \notin strayed /\ u \in {t, UpdateCounter(t)} /\ owed'[i] = o
        /\ SameEvents(queue, queue', i)
    BY <1>5 DEF Held
  <2>2. t.paused = FALSE /\ PendsFor(queue, i, t, o, ee) /\ Well(t)
    BY <1>1, <1>2, <2>1 DEF Owes
  <2>3. u.paused = FALSE /\ (u = t \/ (u = UpdateCounter(t) /\ Well(u)))
    BY <1>1, <2>1, <2>2, Updated
  <2>4. ASSUME NEW n \in DOMAIN queue'.events, IsEventOf(queue'.events[n], i)
        PROVE  Pends(u, o, queue'.events[n].time, ee')
    <3>. DEFINE time == queue'.events[n].time
    <3>1. PICK m \in DOMAIN queue.events : queue.events[m] = queue'.events[n]
      BY <2>1, <2>4 DEF SameEvents
    <3>2. time \in Int /\ Pends(t, o, time, ee)
      BY <1>1, <2>2, <2>4, <3>1, ListIsTyped DEF PendsFor
    <3>3. ee <= time
      <4>1. ~Exempt(queue.events[m], Astray(timers, strayed))
        BY <2>1, <2>4, <3>1 DEF Exempt, Astray, IsEventOf
      <4>. QED BY <3>1, <4>1 DEF TInv, Bounds, Since
    <3>. HIDE DEF t, u, o, time
    <3>4. Pends(UpdateCounter(t), o, time, ee)
      BY <1>1, <2>2, <3>2, <3>3, PendsUpdated
    <3>5. Pends(u, o, time, ee) /\ Well(u)
      BY <2>2, <2>3, <3>2, <3>4
    <3>6. ee \in Int /\ ee' \in Int /\ ee <= ee'
      BY <1>1
    <3>7. Pends(u, o, time, ee')
      BY <3>2, <3>5, <3>6, PendsLater
    <3>. QED BY <3>7 DEF time
  <2>. QED BY <2>1, <2>3, <2>4 DEF PendsFor
<1>6. CASE Renewed(i)
  <2>1. TimerEvent(i)
    BY <1>2, <1>6 DEF Renewed
  <2>2. i \notin strayed
    BY <1>2, <2>1 DEF TimerEvent
  <2>. QED BY <1>2, <2>1, <2>2, EventPays
<1>. QED BY <1>2, <1>3, <1>4, <1>5, <1>6 DEF Followed

LEMMA OwesGive ==
  ASSUME CyclesAssumption, TimersAssumption, TInv, Owes PROVE InterruptNotLost
PROOF
<1>1. SUFFICES ASSUME NEW i \in TimerIds, owed[i] # {}, i \notin strayed
               PROVE  \E n \in DOMAIN queue.events :
                        IsEventOf(queue.events[n], i) /\ queue.events[n].time <= ee + Settle
  BY DEF InterruptNotLost
<1>2. PICK n \in DOMAIN queue.events :
        \A m \in DOMAIN queue.events : IsEventOf(queue.events[m], i) <=> m = n
  BY DEF TInv, OneEach
<1>. QED BY <1>1, <1>2 DEF Owes, PendsFor, Pends

(* No interrupt of a timer is lost or late by more than the 8 cycles of    *)
(* calculate_timer_event_delta, whatever the program reads, writes or      *)
(* pauses (timer_event), if the rates that it chooses have ticks of at     *)
(* least these 8 cycles: all but the bus clock itself.                     *)
THEOREM InterruptsAreNotLost ==
  ASSUME \A c \in Controls : Settle <= c.tick
  PROVE  TimersSpec => []InterruptNotLost
PROOF
<1>. USE CyclesAssumption, TimersAssumption
<1>1. TimersInit => Plans /\ SlowTicks /\ Owes
  BY DEF TimersInit, Plans, SlowTicks, Owes, TimersAssumption
<1>2. TInv /\ TInv' /\ Plans /\ [TimersNext]_allVars => Plans'
  BY PlansNext
<1>3. TInv /\ SlowTicks /\ [TimersNext]_allVars => SlowTicks'
  BY TicksNext
<1>4. TInv /\ TInv' /\ Plans /\ SlowTicks /\ Owes /\ [TimersNext]_allVars => Owes'
  BY OwesNext
<1>5. TInv /\ Owes => InterruptNotLost
  BY OwesGive
<1>. QED BY <1>1, <1>2, <1>3, <1>4, <1>5, TimersInvariance, PTL DEF TimersSpec
=============================================================================

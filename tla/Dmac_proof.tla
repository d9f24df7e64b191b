----------------------------- MODULE Dmac_proof -----------------------------
(***************************************************************************)
(* Proofs about Dmac, for any channels, slice and bounds: the channels     *)
(* that take turns are the ready ones, each once; a drain channel stays    *)
(* behind STADR; INT1 follows D_STAT; a withdrawn request is not lost.     *)
(*                                                                         *)
(* The turns are an active channel a and a queue q; Turns(a, q, S) says    *)
(* that they hold exactly the channels of S, each once.  Each method of    *)
(* DMAC gets a lemma that says what it does to S.                          *)
(***************************************************************************)
EXTENDS Dmac, Vif, SequenceTheorems, WellFoundedInduction, TLAPS

(* A leaf that names no backend is given a minute of SMT and then one of Zenon. *)
USE SMTT(60), ZenonT(60)

Turns(a, q, S) ==
  /\ a \in Channels \cup {None} /\ q \in Seq(Channels)
  /\ \A c \in Channels : c \in S <=> a = c \/ \E i \in 1 .. Len(q) : q[i] = c
  /\ \A i, j \in 1 .. Len(q) : q[i] = q[j] => i = j
  /\ \A i \in 1 .. Len(q) : q[i] # a

Ready(d) == {c \in Channels : d.started[c] /\ d.req[c]}

Int1Follows(d) == d.int1 <=> d.stat \cap d.mask # {}

(* No program or peripheral has touched the channels' registers.           *)
SameData(r, d) ==
  /\ r.started = d.started /\ r.interleave = d.interleave
  /\ r.address = d.address /\ r.qwc = d.qwc
  /\ r.tagEnd = d.tagEnd /\ r.stallTag = d.stallTag

(* r is d with an active channel a and a queue q.                          *)
Reordered(r, d, a, q) == r = [d EXCEPT !.active = a, !.queue = q]

StalledKept(r, d) == \A c \in Channels : d.stalled[c] => r.stalled[c]

LEMMA NoneIsNoChannel == None \notin Channels
BY DmacAssumption, SMTT(60) DEF None, AllChannels

(* ReadyTakeTurns, in terms of Turns.                                      *)
LEMMA ExactIsTurns ==
  ASSUME NEW d \in DmacState
  PROVE  TurnsExact(d) <=> Turns(d.active, d.queue, Ready(d))
BY DEF TurnsExact, Turns, Ready, Present, Queued, DmacState

-----------------------------------------------------------------------------
(* Queues                                                                  *)

(* queued_channels.erase takes one channel out and keeps the others.       *)
LEMMA EraseTurns ==
  ASSUME NEW a, NEW q, NEW S, NEW c \in Channels, Turns(a, q, S), a # c
  PROVE  Turns(a, Erase(q, c), S \ {c})
<1> DEFINE r == Erase(q, c)
<1>1. CASE \A i \in 1 .. Len(q) : q[i] # c
  <2>1. r = q
    BY <1>1 DEF Erase
  <2> QED BY <2>1, <1>1 DEF Turns
<1>2. CASE \E i \in 1 .. Len(q) : q[i] = c
  <2> DEFINE k == CHOOSE i \in 1 .. Len(q) : q[i] = c
  <2>1. k \in 1 .. Len(q) /\ q[k] = c
    BY <1>2
  <2> HIDE DEF k
  <2>2. r = [i \in 1 .. Len(q) - 1 |-> IF i < k THEN q[i] ELSE q[i + 1]]
    BY <1>2 DEF Erase, k
  <2>3. q \in Seq(Channels) /\ Len(q) \in Nat
    BY DEF Turns
  <2>4. \A i \in 1 .. Len(q) : q[i] \in Channels
    BY <2>3
  <2>5. r \in Seq(Channels) /\ Len(r) = Len(q) - 1
    BY <2>1, <2>2, <2>3, <2>4
  <2>6. \A i \in 1 .. Len(r) : r[i] = IF i < k THEN q[i] ELSE q[i + 1]
    BY <2>2, <2>5
  <2> HIDE DEF r
  <2>7. ASSUME NEW i \in 1 .. Len(r), NEW j \in 1 .. Len(r), r[i] = r[j]
        PROVE  i = j
    <3> DEFINE From(m) == IF m < k THEN m ELSE m + 1
    <3>1. \A m \in 1 .. Len(r) : From(m) \in 1 .. Len(q) /\ r[m] = q[From(m)]
      BY <2>1, <2>3, <2>5, <2>6
    <3>2. q[From(i)] = q[From(j)]
      BY <3>1, <2>7
    <3> HIDE DEF From
    <3>3. From(i) = From(j)
      BY <3>1, <3>2 DEF Turns
    <3> QED BY <3>3, <2>1, <2>3, <2>5 DEF From
  <2>8. \A i \in 1 .. Len(r) : r[i] # a /\ r[i] # c
    BY <2>1, <2>3, <2>5, <2>6 DEF Turns
  <2>9. ASSUME NEW x \in Channels, x # c, NEW i \in 1 .. Len(q), q[i] = x
        PROVE  \E j \in 1 .. Len(r) : r[j] = x
    <3>1. i # k
      BY <2>1, <2>9
    <3>2. CASE i < k
      BY <3>2, <2>1, <2>3, <2>5, <2>6, <2>9
    <3>3. CASE i > k
      <4>1. i - 1 \in 1 .. Len(r) /\ ~(i - 1 < k) /\ (i - 1) + 1 = i
        BY <3>3, <2>1, <2>3, <2>5
      <4> QED BY <4>1, <2>6, <2>9
    <3> QED BY <3>1, <3>2, <3>3, <2>1, <2>3
  <2>10. ASSUME NEW j \in 1 .. Len(r)
         PROVE  \E i \in 1 .. Len(q) : q[i] = r[j]
    BY <2>1, <2>3, <2>5, <2>6
  <2>11. ASSUME NEW x \in Channels
         PROVE  x \in S \ {c} <=> a = x \/ \E j \in 1 .. Len(r) : r[j] = x
    <3>1. x \in S <=> a = x \/ \E i \in 1 .. Len(q) : q[i] = x
      BY DEF Turns
    <3>2. CASE x = c
      BY <3>2, <2>8
    <3>3. CASE x # c
      BY <3>1, <3>3, <2>9, <2>10
    <3> QED BY <3>2, <3>3
  <2> QED BY <2>5, <2>7, <2>8, <2>11 DEF Turns, r
<1> QED BY <1>1, <1>2

(* queued_channels.push_back of a channel that is not there.               *)
LEMMA AppendTurns ==
  ASSUME NEW a, NEW q, NEW S, NEW c \in Channels, Turns(a, q, S), c \notin S
  PROVE  Turns(a, Append(q, c), S \cup {c})
<1> DEFINE r == Append(q, c)
<1>1. q \in Seq(Channels) /\ Len(q) \in Nat /\ a # c /\ \A i \in 1 .. Len(q) : q[i] # c
  BY DEF Turns
<1>2. r \in Seq(Channels) /\ Len(r) = Len(q) + 1
  BY <1>1
<1>3. \A i \in 1 .. Len(r) : r[i] = IF i = Len(q) + 1 THEN c ELSE q[i]
  BY <1>1, <1>2
<1> HIDE DEF r
<1>4. ASSUME NEW x \in Channels
      PROVE  x \in S \cup {c} <=> a = x \/ \E j \in 1 .. Len(r) : r[j] = x
  <2>1. x \in S <=> a = x \/ \E i \in 1 .. Len(q) : q[i] = x
    BY DEF Turns
  <2>2. (\E j \in 1 .. Len(r) : r[j] = x)
          <=> x = c \/ \E i \in 1 .. Len(q) : q[i] = x
    <3>1. ASSUME NEW i \in 1 .. Len(q) PROVE i \in 1 .. Len(r) /\ r[i] = q[i]
      BY <1>1, <1>2, <1>3
    <3>2. Len(r) \in 1 .. Len(r) /\ r[Len(r)] = c
      BY <1>1, <1>2, <1>3
    <3>3. ASSUME NEW j \in 1 .. Len(r), j # Len(q) + 1 PROVE j \in 1 .. Len(q)
      BY <1>1, <1>2, <3>3
    <3> QED BY <3>1, <3>2, <3>3, <1>3
  <2> QED BY <2>1, <2>2
<1>5. \A i, j \in 1 .. Len(r) : r[i] = r[j] => i = j
  BY <1>1, <1>2, <1>3 DEF Turns
<1>6. \A i \in 1 .. Len(r) : r[i] # a
  BY <1>1, <1>2, <1>3 DEF Turns
<1> QED BY <1>2, <1>4, <1>5, <1>6 DEF Turns, r

(* pop_front of a queue becomes the active channel.                        *)
LEMMA PopTurns ==
  ASSUME NEW q, NEW S, Turns(None, q, S), q # <<>>
  PROVE  Turns(Head(q), Tail(q), S)
<1>1. q \in Seq(Channels) /\ Len(q) \in Nat /\ Len(q) > 0
  BY DEF Turns
<1> DEFINE r == Tail(q)
<1>2. r \in Seq(Channels) /\ Len(r) = Len(q) - 1 /\ Head(q) = q[1] /\ Head(q) \in Channels
  BY <1>1
<1>3. \A i \in 1 .. Len(r) : r[i] = q[i + 1] /\ i + 1 \in 1 .. Len(q) /\ i + 1 # 1
  BY <1>1, <1>2
<1> HIDE DEF r
<1>4. ASSUME NEW x \in Channels
      PROVE  x \in S <=> Head(q) = x \/ \E j \in 1 .. Len(r) : r[j] = x
  <2>1. x \in S <=> \E i \in 1 .. Len(q) : q[i] = x
    BY NoneIsNoChannel DEF Turns
  <2>2. ASSUME NEW i \in 1 .. Len(q), q[i] = x, i # 1
        PROVE  \E j \in 1 .. Len(r) : r[j] = x
    <3>1. i - 1 \in 1 .. Len(r) /\ (i - 1) + 1 = i
      BY <1>1, <1>2, <2>2
    <3> QED BY <3>1, <1>3, <2>2
  <2>3. 1 \in 1 .. Len(q)
    BY <1>1
  <2> QED BY <2>1, <2>2, <2>3, <1>2, <1>3
<1>5. \A i, j \in 1 .. Len(r) : r[i] = r[j] => i = j
  BY <1>1, <1>2, <1>3 DEF Turns
<1>6. \A i \in 1 .. Len(r) : r[i] # Head(q)
  <2>1. 1 \in 1 .. Len(q)
    BY <1>1
  <2> QED BY <2>1, <1>2, <1>3 DEF Turns
<1> QED BY <1>2, <1>4, <1>5, <1>6 DEF Turns, r

-----------------------------------------------------------------------------
(* Methods                                                                 *)

(* find_new_active_channel rotates the turns.                              *)
LEMMA ArbitrateTurns ==
  ASSUME NEW d \in DmacState, NEW S, Turns(d.active, d.queue, S)
  PROVE  \E a, q : /\ Turns(a, q, S)
                   /\ Reordered(Arbitrate(d), d, a, q)
<1>1. CASE d.queue = <<>>
  <2>1. Reordered(Arbitrate(d), d, d.active, d.queue)
    BY <1>1 DEF Arbitrate, DmacState, Reordered
  <2> QED BY <2>1
<1>2. CASE d.queue # <<>>
  <2> DEFINE q == IF d.active = None THEN d.queue ELSE Append(d.queue, d.active)
  <2>1. Reordered(Arbitrate(d), d, Head(q), Tail(q))
    BY <1>2 DEF Arbitrate, FindNewActiveChannel, Reordered
  <2>2. Turns(None, q, S) /\ q # <<>>
    <3>1. CASE d.active = None
      BY <3>1, <1>2
    <3>2. CASE d.active # None
      <4>1. d.active \in Channels /\ d.active \in S
        BY <3>2 DEF Turns
      <4>2. Turns(None, d.queue, S \ {d.active})
        BY <4>1, NoneIsNoChannel DEF Turns
      <4>3. Turns(None, Append(d.queue, d.active), (S \ {d.active}) \cup {d.active})
        BY <4>1, <4>2, AppendTurns
      <4>4. (S \ {d.active}) \cup {d.active} = S
        BY <4>1
      <4>5. d.queue \in Seq(Channels) /\ Len(d.queue) \in Nat
        BY DEF Turns
      <4>6. Len(Append(d.queue, d.active)) = Len(d.queue) + 1
        BY <4>1, <4>5
      <4>7. Append(d.queue, d.active) # <<>>
        BY <4>5, <4>6
      <4> QED BY <3>2, <4>3, <4>4, <4>7
    <3> QED BY <3>1, <3>2
  <2>3. Turns(Head(q), Tail(q), S)
    BY <2>2, PopTurns
  <2> QED BY <2>1, <2>3
<1> QED BY <1>1, <1>2

(* deactivate_channel takes one channel out of the turns.                  *)
LEMMA DeactivateTurns ==
  ASSUME NEW d \in DmacState, NEW S, NEW c \in Channels, Turns(d.active, d.queue, S)
  PROVE  \E a, q : /\ Turns(a, q, S \ {c})
                   /\ Reordered(DeactivateChannel(d, c), d, a, q)
<1>1. CASE d.active # c
  <2>1. Turns(d.active, Erase(d.queue, c), S \ {c})
    BY <1>1, EraseTurns
  <2>2. Reordered(DeactivateChannel(d, c), d, d.active, Erase(d.queue, c))
    BY <1>1 DEF DeactivateChannel, DmacState, Reordered
  <2> QED BY <2>1, <2>2
<1>2. CASE d.active = c
  <2> DEFINE e == [d EXCEPT !.active = None]
  <2>1. e \in DmacState /\ e.active = None /\ e.queue = d.queue
    BY DEF DmacState
  <2>2. Turns(e.active, e.queue, S \ {c})
    BY <1>2, <2>1, NoneIsNoChannel DEF Turns
  <2>4. ASSUME NEW a, NEW q
        PROVE  Reordered(Arbitrate(e), e, a, q) <=> Reordered(Arbitrate(e), d, a, q)
    BY DEF DmacState, Reordered
  <2>5. DeactivateChannel(d, c) = Arbitrate(e)
    BY <1>2 DEF DeactivateChannel
  <2> HIDE DEF e
  <2>3. PICK a, q : Turns(a, q, S \ {c}) /\ Reordered(Arbitrate(e), e, a, q)
    BY <2>1, <2>2, ArbitrateTurns
  <2> QED BY <2>3, <2>4, <2>5
<1> QED BY <1>1, <1>2

(* A change of the turns changes nothing else.                             *)
LEMMA TurnsType ==
  ASSUME NEW d \in DmacState, NEW a, NEW q, NEW S, Turns(a, q, S),
         NEW r, Reordered(r, d, a, q)
  PROVE  /\ r \in DmacState /\ Turns(r.active, r.queue, S)
         /\ SameData(r, d) /\ r.req = d.req /\ r.stalled = d.stalled /\ r.stadr = d.stadr
         /\ Int1Follows(d) => Int1Follows(r)
<1>1. r.active = a /\ r.queue = q
  BY DEF DmacState, Reordered
<1>2. r \in DmacState
  BY DEF DmacState, Turns, Reordered
<1> QED BY <1>1, <1>2 DEF DmacState, SameData, Int1Follows, Reordered

(* A stall is noted, and its interrupt raised; the turns stay.             *)
LEMMA StallKeeps ==
  ASSUME NEW d \in DmacState, NEW c \in Channels, Int1Follows(d),
         NEW e, e = StallChannel(d, c)
  PROVE  /\ e \in DmacState /\ Int1Follows(e) /\ e.active = d.active /\ e.queue = d.queue
         /\ SameData(e, d) /\ e.req = d.req /\ e.stadr = d.stadr /\ StalledKept(e, d)
         /\ e.stalled[c]
<1>1. CASE d.stalled[c]
  BY <1>1 DEF StallChannel, SameData, StalledKept
<1>2. CASE ~d.stalled[c]
  <2> DEFINE m == d.stat \cup ({"DMA_STALL"} \cap Flags)
             n == (m \cap d.mask # {})
             s == [d.stalled EXCEPT ![c] = TRUE]
  <2>1. e = [d EXCEPT !.stat = m, !.int1 = n, !.stalled = s]
    BY <1>2 DEF StallChannel, Int1Check, DmacState
  <2>2. /\ m \in SUBSET Flags /\ n \in BOOLEAN /\ s \in [Channels -> BOOLEAN]
        /\ s[c] /\ \A x \in Channels : d.stalled[x] => s[x]
    BY DEF DmacState
  <2>3. n <=> m \cap d.mask # {}
    OBVIOUS
  <2> HIDE DEF m, n, s
  <2>4. e \in DmacState
    BY <2>1, <2>2 DEF DmacState
  <2>5. /\ e.stat = m /\ e.int1 = n /\ e.stalled = s /\ e.mask = d.mask
        /\ e.active = d.active /\ e.queue = d.queue
        /\ SameData(e, d) /\ e.req = d.req /\ e.stadr = d.stadr
    BY <2>1 DEF DmacState, SameData
  <2> QED BY <2>2, <2>3, <2>4, <2>5 DEF Int1Follows, StalledKept
<1> QED BY <1>1, <1>2

(* What check_for_activation leaves: c has a turn if it is ready.          *)
Checks(d, c, S, r) ==
  /\ r \in DmacState /\ Int1Follows(r)
  /\ Turns(r.active, r.queue, IF d.req[c] /\ d.started[c] THEN S \cup {c} ELSE S)
  /\ SameData(r, d) /\ r.req = d.req /\ r.stadr = d.stadr /\ StalledKept(r, d)

(* check_for_activation adds a channel that is ready and not there.        *)
LEMMA CheckTurns ==
  ASSUME NEW d \in DmacState, NEW S, NEW c \in Channels, Turns(d.active, d.queue, S),
         c \notin S, Int1Follows(d), NEW r, r = CheckForActivation(d, c)
  PROVE  Checks(d, c, S, r)
<1>1. CASE ~(d.req[c] /\ d.started[c])
  <2>1. r = d
    BY <1>1 DEF CheckForActivation
  <2> QED BY <2>1, <1>1 DEF SameData, StalledKept, Checks
<1>2. CASE /\ d.req[c] /\ d.started[c]
           /\ StallsAt(d, c) /\ d.address[c] = d.stadr
  <2> DEFINE e == StallChannel(d, c)
  <2>1. /\ e \in DmacState /\ Int1Follows(e) /\ e.active = d.active /\ e.queue = d.queue
        /\ SameData(e, d) /\ e.req = d.req /\ e.stadr = d.stadr /\ StalledKept(e, d)
    BY StallKeeps
  <2> HIDE DEF e
  <2> DEFINE a == d.active
             q == Append(d.queue, c)
  <2>2. Reordered(r, e, a, q)
    BY <1>2, <2>1 DEF CheckForActivation, Enqueue, DmacState, Reordered, e
  <2>3. Turns(a, q, S \cup {c})
    BY AppendTurns
  <2> HIDE DEF a, q
  <2>4. /\ r \in DmacState /\ Turns(r.active, r.queue, S \cup {c})
        /\ SameData(r, e) /\ r.req = e.req /\ r.stalled = e.stalled /\ r.stadr = e.stadr
        /\ Int1Follows(e) => Int1Follows(r)
    BY <2>1, <2>2, <2>3, TurnsType
  <2> QED BY <1>2, <2>1, <2>4 DEF SameData, StalledKept, Checks
<1>3. CASE /\ d.req[c] /\ d.started[c]
           /\ ~(StallsAt(d, c) /\ d.address[c] = d.stadr) /\ d.active = None
  <2> DEFINE a == c
             q == d.queue
  <2>1. Reordered(r, d, a, q)
    BY <1>3 DEF CheckForActivation, DmacState, Reordered
  <2>2. Turns(a, q, S \cup {c})
    BY <1>3, NoneIsNoChannel DEF Turns
  <2> HIDE DEF a, q
  <2>3. /\ r \in DmacState /\ Turns(r.active, r.queue, S \cup {c})
        /\ SameData(r, d) /\ r.req = d.req /\ r.stalled = d.stalled /\ r.stadr = d.stadr
        /\ Int1Follows(d) => Int1Follows(r)
    BY <2>1, <2>2, TurnsType
  <2> QED BY <1>3, <2>3 DEF StalledKept, Checks
<1>4. CASE /\ d.req[c] /\ d.started[c]
           /\ ~(StallsAt(d, c) /\ d.address[c] = d.stadr) /\ d.active # None
  <2> DEFINE a == d.active
             q == Append(d.queue, c)
  <2>1. Reordered(r, d, a, q)
    BY <1>4 DEF CheckForActivation, Enqueue, DmacState, Reordered
  <2>2. Turns(a, q, S \cup {c})
    BY AppendTurns
  <2> HIDE DEF a, q
  <2>3. /\ r \in DmacState /\ Turns(r.active, r.queue, S \cup {c})
        /\ SameData(r, d) /\ r.req = d.req /\ r.stalled = d.stalled /\ r.stadr = d.stadr
        /\ Int1Follows(d) => Int1Follows(r)
    BY <2>1, <2>2, TurnsType
  <2> QED BY <1>4, <2>3 DEF StalledKept, Checks
<1> QED BY <1>1, <1>2, <1>3, <1>4
(* What every method keeps: the turns are the ready channels, INT1 follows *)
(* D_STAT.                                                                 *)
Sound(d) == d \in DmacState /\ Turns(d.active, d.queue, Ready(d)) /\ Int1Follows(d)

(* arbitrate                                                               *)
LEMMA ArbitrateSound ==
  ASSUME NEW d, Sound(d), NEW r, r = Arbitrate(d)
  PROVE  /\ Sound(r) /\ SameData(r, d) /\ r.req = d.req /\ r.stalled = d.stalled
         /\ r.stadr = d.stadr
<1> DEFINE S == Ready(d)
<1>1. d \in DmacState /\ Turns(d.active, d.queue, S) /\ Int1Follows(d)
  BY DEF Sound
<1> HIDE DEF S
<1>2. PICK a, q : Turns(a, q, S) /\ Reordered(Arbitrate(d), d, a, q)
  BY <1>1, ArbitrateTurns
<1>5. Reordered(r, d, a, q)
  BY <1>2
<1>3. /\ r \in DmacState /\ Turns(r.active, r.queue, S)
      /\ SameData(r, d) /\ r.req = d.req /\ r.stalled = d.stalled /\ r.stadr = d.stadr
      /\ Int1Follows(d) => Int1Follows(r)
  BY <1>1, <1>2, <1>5, TurnsType
<1>4. Ready(r) = S
  BY <1>3 DEF Ready, SameData, S
<1> QED BY <1>1, <1>3, <1>4 DEF Sound

(* set_DMA_request                                                         *)
LEMMA SetRequestSound ==
  ASSUME NEW d, Sound(d), NEW c \in Channels, NEW r, r = SetRequest(d, c)
  PROVE  /\ Sound(r) /\ SameData(r, d) /\ r.req = [d.req EXCEPT ![c] = TRUE]
         /\ r.stadr = d.stadr /\ StalledKept(r, d)
<1>1. CASE d.req[c]
  <2>1. r = d /\ d.req = [d.req EXCEPT ![c] = TRUE]
    BY <1>1 DEF SetRequest, Sound, DmacState
  <2> QED BY <2>1 DEF SameData, StalledKept
<1>2. CASE ~d.req[c]
  <2> DEFINE q == [d.req EXCEPT ![c] = TRUE]
             e == [d EXCEPT !.req = q]
  <2>1. r = CheckForActivation(e, c)
    BY <1>2 DEF SetRequest
  <2>2. q \in [Channels -> BOOLEAN] /\ q[c] /\ \A x \in Channels : x # c => q[x] = d.req[x]
    BY DEF Sound, DmacState
  <2> HIDE DEF q
  <2>3. /\ e \in DmacState /\ e.active = d.active /\ e.queue = d.queue /\ e.req = q
        /\ SameData(e, d) /\ e.stalled = d.stalled /\ e.stadr = d.stadr /\ Int1Follows(e)
    BY <2>2 DEF Sound, DmacState, SameData, Int1Follows
  <2> HIDE DEF e
  <2>4. Turns(e.active, e.queue, Ready(d)) /\ c \notin Ready(d)
    BY <1>2, <2>3 DEF Sound, Ready
  <2>5. /\ r \in DmacState /\ Int1Follows(r)
        /\ Turns(r.active, r.queue, IF e.req[c] /\ e.started[c] THEN Ready(d) \cup {c} ELSE Ready(d))
        /\ SameData(r, e) /\ r.req = e.req /\ r.stadr = e.stadr /\ StalledKept(r, e)
    <3>1. Checks(e, c, Ready(d), r)
      BY <2>1, <2>3, <2>4, CheckTurns
    <3>. QED BY <3>1 DEF Checks
  <2>6. Ready(r) = IF e.req[c] /\ e.started[c] THEN Ready(d) \cup {c} ELSE Ready(d)
    BY <2>2, <2>3, <2>5, <1>2 DEF Ready, SameData
  <2> QED BY <2>3, <2>5, <2>6 DEF Sound, SameData, StalledKept, q
<1> QED BY <1>1, <1>2

(* clear_DMA_request                                                       *)
LEMMA ClearRequestSound ==
  ASSUME NEW d, Sound(d), NEW c \in Channels, NEW r, r = ClearRequest(d, c)
  PROVE  /\ Sound(r) /\ SameData(r, d) /\ r.req = [d.req EXCEPT ![c] = FALSE]
         /\ r.stadr = d.stadr /\ r.stalled = d.stalled
<1>1. CASE ~d.req[c]
  <2>1. r = d /\ d.req = [d.req EXCEPT ![c] = FALSE]
    BY <1>1 DEF ClearRequest, Sound, DmacState
  <2> QED BY <2>1 DEF SameData
<1>2. CASE d.req[c]
  <2> DEFINE f == [d.req EXCEPT ![c] = FALSE]
             e == [d EXCEPT !.req = f]
  <2>1. r = DeactivateChannel(e, c)
    BY <1>2 DEF ClearRequest
  <2>2. f \in [Channels -> BOOLEAN] /\ ~f[c] /\ \A x \in Channels : x # c => f[x] = d.req[x]
    BY DEF Sound, DmacState
  <2> HIDE DEF f
  <2>3. /\ e \in DmacState /\ e.active = d.active /\ e.queue = d.queue /\ e.req = f
        /\ SameData(e, d) /\ e.stalled = d.stalled /\ e.stadr = d.stadr /\ Int1Follows(e)
    BY <2>2 DEF Sound, DmacState, SameData, Int1Follows
  <2> HIDE DEF e
  <2> DEFINE S == Ready(d)
  <2>4. Turns(e.active, e.queue, S)
    BY <2>3 DEF Sound
  <2> HIDE DEF S
  <2>5. PICK a, q : /\ Turns(a, q, S \ {c})
                    /\ Reordered(DeactivateChannel(e, c), e, a, q)
    BY <2>3, <2>4, DeactivateTurns
  <2>8. Reordered(r, e, a, q)
    BY <2>1, <2>5
  <2>6. /\ r \in DmacState /\ Turns(r.active, r.queue, S \ {c}) 
        /\ SameData(r, e) /\ r.req = e.req /\ r.stalled = e.stalled /\ r.stadr = e.stadr
        /\ Int1Follows(e) => Int1Follows(r)
    BY <2>3, <2>5, <2>8, TurnsType
  <2>7. Ready(r) = S \ {c}
    BY <2>2, <2>3, <2>6 DEF Ready, SameData, S
  <2> QED BY <2>3, <2>6, <2>7 DEF Sound, SameData, f
<1> QED BY <1>1, <1>2

(* update_stadr: it gives requests back and withdraws none.                *)
RequestsKept(r, d) == \A c \in Channels : d.req[c] => r.req[c]

LEMMA UpdateStadrSound ==
  ASSUME NEW d, Sound(d), NEW a \in Nat, control.dest \in Channels \cup {None},
         NEW r, r = UpdateStadr(d, a)
  PROVE  /\ Sound(r) /\ SameData(r, d) /\ RequestsKept(r, d) /\ r.stadr = a
         /\ StalledKept(r, d)
<1> DEFINE s == [d EXCEPT !.stadr = a]
<1>1. /\ s \in DmacState /\ s.active = d.active /\ s.queue = d.queue /\ s.req = d.req
      /\ SameData(s, d) /\ s.stalled = d.stalled /\ s.stadr = a /\ Int1Follows(s)
  BY DEF Sound, DmacState, SameData, Int1Follows
<1>2. r = IF control.dest = None THEN s
          ELSE IF s.stalled[control.dest] THEN SetRequest(s, control.dest) ELSE s
  BY DEF UpdateStadr
<1> HIDE DEF s
<1>3. Ready(s) = Ready(d)
  BY <1>1 DEF Ready, SameData
<1>4. Sound(s)
  BY <1>1, <1>3 DEF Sound
<1>5. CASE r = s
  BY <1>1, <1>4, <1>5 DEF SameData, RequestsKept, StalledKept
<1>6. CASE r = SetRequest(s, control.dest) /\ control.dest \in Channels
  <2>1. /\ Sound(r) /\ SameData(r, s) /\ r.req = [s.req EXCEPT ![control.dest] = TRUE]
        /\ r.stadr = s.stadr /\ StalledKept(r, s)
    BY <1>4, <1>6, SetRequestSound
  <2>2. RequestsKept(r, d)
    BY <1>1, <2>1 DEF RequestsKept, Sound, DmacState
  <2> QED BY <1>1, <2>1, <2>2 DEF SameData, StalledKept
<1> QED BY <1>2, <1>5, <1>6
(* advance_source_dma, advance_dest_dma                                    *)
LEMMA AdvanceSound ==
  ASSUME NEW d, Sound(d), NEW c \in Channels, d.qwc[c] > 0,
         control.dest \in Channels \cup {None}, NEW r, r = Advance(d, c)
  PROVE  /\ Sound(r) /\ RequestsKept(r, d) /\ StalledKept(r, d)
         /\ r.stallTag = d.stallTag
         /\ r.address[c] = d.address[c] + 1 /\ r.qwc[c] = d.qwc[c] - 1
         /\ r.stadr = d.stadr \/ control.source = c
<1> DEFINE m == [d.address EXCEPT ![c] = d.address[c] + 1]
           n == [d.qwc EXCEPT ![c] = d.qwc[c] - 1]
           e == [d EXCEPT !.address = m, !.qwc = n]
<1>1. /\ m \in [Channels -> Nat] /\ n \in [Channels -> Nat]
      /\ m[c] = d.address[c] + 1 /\ n[c] = d.qwc[c] - 1
  BY DEF Sound, DmacState
<1>2. r = IF control.source = c /\ d.stallTag[c] THEN UpdateStadr(e, e.address[c]) ELSE e
  BY DEF Advance
<1> HIDE DEF m, n
<1>3. /\ e \in DmacState /\ e.active = d.active /\ e.queue = d.queue /\ e.req = d.req
      /\ e.started = d.started /\ e.stallTag = d.stallTag /\ e.stalled = d.stalled
      /\ e.stadr = d.stadr /\ Int1Follows(e) /\ e.address = m /\ e.qwc = n
  BY <1>1 DEF Sound, DmacState, Int1Follows
<1> HIDE DEF e
<1>4. Ready(e) = Ready(d)
  BY <1>3 DEF Ready
<1>5. Sound(e)
  BY <1>3, <1>4 DEF Sound
<1>6. CASE r = e
  BY <1>1, <1>3, <1>5, <1>6 DEF RequestsKept, StalledKept
<1>7. CASE control.source = c /\ r = UpdateStadr(e, e.address[c])
  <2>1. e.address[c] \in Nat
    BY <1>1, <1>3
  <2>2. /\ Sound(r) /\ SameData(r, e) /\ RequestsKept(r, e) /\ StalledKept(r, e)
    BY <1>5, <1>7, <2>1, UpdateStadrSound
  <2> QED BY <1>1, <1>3, <1>7, <2>2 DEF SameData, RequestsKept, StalledKept
<1> QED BY <1>2, <1>6, <1>7

(* Stopping a channel, by transfer_end or by CHCR, ends its turns.         *)
LEMMA StopSound ==
  ASSUME NEW d, Sound(d), NEW c \in Channels,
         NEW e \in DmacState, e.active = d.active, e.queue = d.queue, Int1Follows(e),
         e.req = d.req, e.started = [d.started EXCEPT ![c] = FALSE],
         NEW r, r = DeactivateChannel(e, c)
  PROVE  Sound(r) /\ r.req = e.req /\ r.stalled = e.stalled /\ SameData(r, e)
<1> DEFINE S == Ready(d)
<1>1. Turns(e.active, e.queue, S)
  BY DEF Sound
<1>2. Ready(e) = S \ {c}
  BY DEF Ready, Sound, DmacState
<1> HIDE DEF S
<1>3. PICK a, q : /\ Turns(a, q, S \ {c})
                  /\ Reordered(DeactivateChannel(e, c), e, a, q)
  BY <1>1, DeactivateTurns
<1>4. Reordered(r, e, a, q)
  BY <1>3
<1>5. /\ r \in DmacState /\ Turns(r.active, r.queue, S \ {c})
      /\ SameData(r, e) /\ r.req = e.req /\ r.stalled = e.stalled
      /\ Int1Follows(e) => Int1Follows(r)
  BY <1>3, <1>4, TurnsType
<1>6. Ready(r) = S \ {c}
  BY <1>2, <1>5 DEF Ready, SameData
<1> QED BY <1>5, <1>6 DEF Sound

(* transfer_end                                                            *)
LEMMA TransferEndSound ==
  ASSUME NEW d, Sound(d), NEW c \in Channels, NEW r, r = TransferEnd(d, c)
  PROVE  Sound(r) /\ r.req = d.req /\ r.stalled = d.stalled
<1> DEFINE f == [d.started EXCEPT ![c] = FALSE]
           m == d.stat \cup ({c} \cap Flags)
           n == (m \cap d.mask # {})
           e == [d EXCEPT !.started = f, !.stat = m, !.int1 = n]
<1>1. r = DeactivateChannel(e, c)
  <2>1. Int1Check([d EXCEPT !.started[c] = FALSE, !.stat = @ \cup ({c} \cap Flags)]) = e
    BY DEF Int1Check, Sound, DmacState
  <2> QED BY <2>1 DEF TransferEnd
<1>2. f \in [Channels -> BOOLEAN] /\ m \in SUBSET Flags /\ n \in BOOLEAN
  BY DEF Sound, DmacState
<1>3. n <=> m \cap d.mask # {}
  OBVIOUS
<1> HIDE DEF m, n
<1>4. e \in DmacState
  BY <1>2 DEF Sound, DmacState
<1>5. /\ e.active = d.active /\ e.queue = d.queue /\ e.started = f
      /\ e.stat = m /\ e.int1 = n /\ e.mask = d.mask /\ e.req = d.req /\ e.stalled = d.stalled
  BY DEF Sound, DmacState
<1>6. Int1Follows(e)
  BY <1>3, <1>5 DEF Int1Follows
<1> HIDE DEF e
<1> QED BY <1>1, <1>4, <1>5, <1>6, StopSound
(* handle_source_chain and handle_dest_chain load the channel's registers. *)
LEMMA ReadTagSound ==
  ASSUME NEW d, Sound(d), NEW c \in Channels, NEW a \in Addresses, NEW n \in 0 .. MaxQWC,
         NEW last \in BOOLEAN, NEW stallTag \in BOOLEAN,
         NEW r, r = ReadTag(d, c, a, n, last, stallTag)
  PROVE  Sound(r) /\ r.req = d.req /\ r.stalled = d.stalled
<1> DEFINE f == [d.address EXCEPT ![c] = a]
           g == [d.qwc EXCEPT ![c] = n]
           h == [d.tagEnd EXCEPT ![c] = last]
           i == [d.stallTag EXCEPT ![c] = stallTag]
           e == [d EXCEPT !.address = f, !.qwc = g, !.tagEnd = h, !.stallTag = i]
<1>1. r = Arbitrate(e)
  BY DEF ReadTag
<1>2. /\ f \in [Channels -> Nat] /\ g \in [Channels -> Nat]
      /\ h \in [Channels -> BOOLEAN] /\ i \in [Channels -> BOOLEAN]
  BY DmacAssumption DEF Sound, DmacState, Addresses
<1> HIDE DEF f, g, h, i
<1>3. /\ e \in DmacState /\ e.active = d.active /\ e.queue = d.queue /\ e.req = d.req
      /\ e.started = d.started /\ e.stalled = d.stalled /\ Int1Follows(e)
  BY <1>2 DEF Sound, DmacState, Int1Follows
<1> HIDE DEF e
<1>4. Ready(e) = Ready(d)
  BY <1>3 DEF Ready
<1>5. Sound(e)
  BY <1>3, <1>4 DEF Sound
<1> QED BY <1>1, <1>3, <1>5, ArbitrateSound

-----------------------------------------------------------------------------
(* The inductive invariant                                                 *)

(* The process_ call under way is of a channel, and moves no more than the *)
(* packet has.                                                             *)
LoopFits == loop # Idle => loop.chan \in Channels /\ loop.left <= dmac.qwc[loop.chan]

DmacInv ==
  /\ TypeOK /\ Sound(dmac) /\ LoopFits /\ DrainBehind /\ RequestsReturn

LEMMA InitInv == Init => DmacInv
<1> SUFFICES ASSUME Init PROVE DmacInv
  OBVIOUS
<1>1. PICK stalled \in SUBSET (Channels \cap Drains) :
        dmac = [active |-> None, queue |-> <<>>,
                started |-> [c \in Channels |-> FALSE],
                req |-> [c \in Channels |-> c \in Requesting],
                stalled |-> [c \in Channels |-> c \in stalled],
                interleave |-> [c \in Channels |-> FALSE],
                address |-> [c \in Channels |-> 0],
                qwc |-> [c \in Channels |-> 0],
                tagEnd |-> [c \in Channels |-> FALSE],
                stallTag |-> [c \in Channels |-> FALSE],
                stadr |-> 0, stat |-> {}, mask |-> {}, int1 |-> FALSE]
  BY DEF Init
<1>2. /\ dmac.active = None /\ dmac.queue = <<>> /\ dmac.stat = {} /\ dmac.int1 = FALSE
      /\ dmac.started = [c \in Channels |-> FALSE]
      /\ dmac.req = [c \in Channels |-> c \in Requesting]
  BY <1>1
<1>3. dmac \in DmacState
  BY <1>1 DEF DmacState
<1>4. control \in [enable : BOOLEAN, source : StallSources, dest : StallDests]
  BY DEF Init
<1>10. loop = Idle /\ wants = [c \in Channels |-> c \in Requesting]
  BY DEF Init
<1>11. wants \in [Channels -> BOOLEAN]
  BY <1>10
<1>5. Turns(dmac.active, dmac.queue, Ready(dmac))
  <2>1. \A c \in Channels : c \notin Ready(dmac)
    BY <1>2 DEF Ready
  <2>2. Len(dmac.queue) = 0
    BY <1>2
  <2>3. dmac.active = None /\ dmac.queue \in Seq(Channels)
    BY <1>2, <1>3 DEF DmacState
  <2> QED BY <2>1, <2>2, <2>3, NoneIsNoChannel DEF Turns
<1>6. Sound(dmac)
  BY <1>2, <1>3, <1>5 DEF Sound, Int1Follows
<1>7. TypeOK
  BY <1>3, <1>4, <1>10, <1>11 DEF TypeOK, Idle
<1>8. LoopFits /\ DrainBehind
  BY <1>10 DEF LoopFits, DrainBehind, Idle
<1>9. RequestsReturn
  BY <1>2, <1>10 DEF RequestsReturn
<1> QED BY <1>6, <1>7, <1>8, <1>9 DEF DmacInv

(* Between two calls of run a step cannot disturb a slice.                 *)
LEMMA IdleInv ==
  ASSUME DmacInv, loop = Idle, loop' = loop,
         Sound(dmac'), control' \in [enable : BOOLEAN, source : StallSources, dest : StallDests],
         wants' \in [Channels -> BOOLEAN], RequestsReturn'
  PROVE  DmacInv'
<1>1. TypeOK'
  BY DEF DmacInv, TypeOK, Sound
<1>2. LoopFits' /\ DrainBehind'
  BY DEF LoopFits, DrainBehind, Idle
<1> QED BY <1>1, <1>2 DEF DmacInv

LEMMA DestIsChannel ==
  ASSUME TypeOK
  PROVE  control.dest \in Channels \cup {None} /\ control.dest \in Drains \cup {None}
         /\ control.source \in Fills \cup {None}
BY DmacAssumption DEF TypeOK

-----------------------------------------------------------------------------
(* One step lemma per action                                               *)

LEMMA ProcessBeginInv == ASSUME DmacInv, ProcessBegin PROVE DmacInv'
<1> DEFINE c == dmac.active
           K == StallsAt(dmac, c) /\ dmac.qwc[c] > 0
<1>1. /\ TypeOK /\ Sound(dmac) /\ RequestsReturn /\ dmac \in DmacState
      /\ c \in Channels /\ loop = Idle /\ UNCHANGED <<control, wants>>
  BY DEF DmacInv, ProcessBegin, TypeOK, DmacState
<1>2. dmac.started[c] /\ dmac.req[c]
  BY <1>1 DEF Sound, Turns, Ready
<1>3. CASE K /\ dmac.address[c] + Quads(dmac, c) > dmac.stadr
  <2> DEFINE e == StallChannel(dmac, c)
  <2>1. dmac' = ClearRequest(e, c) /\ loop' = loop
    BY <1>3 DEF ProcessBegin
  <2>2. /\ e \in DmacState /\ Int1Follows(e) /\ e.active = dmac.active /\ e.queue = dmac.queue
        /\ SameData(e, dmac) /\ e.req = dmac.req /\ e.stadr = dmac.stadr /\ StalledKept(e, dmac)
        /\ e.stalled[c]
    BY <1>1, StallKeeps DEF Sound
  <2> HIDE DEF e
  <2>3. Sound(e)
    <3>1. Ready(e) = Ready(dmac)
      BY <2>2 DEF Ready, SameData
    <3> QED BY <1>1, <2>2, <3>1 DEF Sound
  <2>4. /\ Sound(dmac') /\ dmac'.req = [e.req EXCEPT ![c] = FALSE] /\ dmac'.stalled = e.stalled
    BY <1>1, <2>1, <2>3, ClearRequestSound
  <2>5. RequestsReturn'
    <3> SUFFICES ASSUME NEW x \in Channels, wants[x], ~dmac'.req[x]
                 PROVE  e.stalled[x]
      BY <1>1, <2>4 DEF RequestsReturn
    <3>1. CASE x = c
      BY <3>1, <2>2
    <3>2. CASE x # c
      <4>1. ~dmac.req[x]
        BY <3>2, <1>1, <2>2, <2>4 DEF DmacState
      <4> QED BY <4>1, <1>1, <2>2 DEF RequestsReturn, StalledKept
    <3> QED BY <3>1, <3>2
  <2> QED BY <1>1, <2>1, <2>4, <2>5, IdleInv DEF TypeOK
<1>4. CASE ~(K /\ dmac.address[c] + Quads(dmac, c) > dmac.stadr)
  <2> DEFINE n == Quads(dmac, c)
             s == [dmac.stalled EXCEPT ![c] = @ /\ ~K]
  <2>1. dmac' = [dmac EXCEPT !.stalled = s] /\ loop' = [chan |-> c, left |-> n]
    BY <1>4, <1>1 DEF ProcessBegin, DmacState
  <2>2. n \in Nat /\ n <= dmac.qwc[c]
    <3>1. dmac.address[c] \in Nat /\ dmac.qwc[c] \in Nat /\ Slice \in Nat /\ Slice > 0
      BY <1>1, DmacAssumption DEF DmacState
    <3> DEFINE m == dmac.address[c] % Slice
    <3>2. m \in Nat /\ m < Slice
      BY <3>1
    <3>3. n = IF dmac.qwc[c] < Slice - m THEN dmac.qwc[c] ELSE Slice - m
      BY DEF Quads
    <3> HIDE DEF m
    <3> QED BY <3>1, <3>2, <3>3
  <2>3. s \in [Channels -> BOOLEAN] /\ \A x \in Channels : x # c => s[x] = dmac.stalled[x]
    BY <1>1 DEF DmacState
  <2>9. n > dmac.stadr - dmac.address[c] => ~K
    BY <1>4, <1>1, <2>2 DEF DmacState
  <2>10. K <=> control.dest = c /\ dmac.stallTag[c] /\ dmac.qwc[c] > 0
    BY DEF StallsAt
  <2> HIDE DEF s, n, K
  <2>4. /\ dmac' \in DmacState /\ dmac'.active = dmac.active /\ dmac'.queue = dmac.queue
        /\ dmac'.req = dmac.req /\ dmac'.started = dmac.started /\ dmac'.stalled = s
        /\ dmac'.address = dmac.address /\ dmac'.qwc = dmac.qwc /\ dmac'.stadr = dmac.stadr
        /\ dmac'.stallTag = dmac.stallTag /\ Int1Follows(dmac')
    BY <1>1, <2>1, <2>3 DEF DmacState, Int1Follows, Sound
  <2>5. Sound(dmac')
    <3>1. Ready(dmac') = Ready(dmac)
      BY <2>4 DEF Ready
    <3> QED BY <1>1, <2>4, <3>1 DEF Sound
  <2>6. TypeOK' /\ LoopFits'
    BY <1>1, <2>1, <2>2, <2>4 DEF TypeOK, LoopFits
  <2>7. DrainBehind'
    <3> SUFFICES ASSUME NEW x \in Channels, loop'.chan = x, loop'.left > 0,
                        (StallsAt(dmac, x))'
                 PROVE  dmac'.address[x] + loop'.left <= dmac'.stadr
      BY DEF DrainBehind
    <3>1. x = c /\ loop'.left = n /\ n > 0 /\ dmac.qwc[c] > 0
      BY <1>1, <2>1, <2>2 DEF DmacState
    <3>2. control.dest = c /\ dmac.stallTag[c]
      BY <1>1, <2>4, <3>1 DEF StallsAt
    <3>3. dmac.address[c] \in Nat /\ dmac.stadr \in Nat
      BY <1>1 DEF DmacState
    <3> QED BY <2>2, <2>4, <2>9, <2>10, <3>1, <3>2, <3>3
  <2>8. RequestsReturn'
    BY <1>1, <1>2, <2>3, <2>4 DEF RequestsReturn
  <2> QED BY <2>5, <2>6, <2>7, <2>8 DEF DmacInv
<1> QED BY <1>3, <1>4
(* A quad moves a drain channel on by one and leaves STADR, which only a   *)
(* filling channel moves.                                                  *)
LEMMA QuadInv ==
  ASSUME DmacInv, loop.left > 0, NEW c \in Channels, c = loop.chan, UNCHANGED control,
         Sound(dmac'), dmac'.stallTag = dmac.stallTag,
         dmac'.qwc[c] = dmac.qwc[c] - 1, dmac'.address[c] = dmac.address[c] + 1,
         dmac'.stadr = dmac.stadr \/ control.source = c,
         loop' = [loop EXCEPT !.left = loop.left - 1] \/ loop' = [loop EXCEPT !.left = 0],
         wants' \in [Channels -> BOOLEAN], RequestsReturn'
  PROVE  DmacInv'
<1>1. /\ TypeOK /\ loop \in [chan : Channels \cup {None}, left : Nat] /\ dmac \in DmacState
      /\ loop.left <= dmac.qwc[c]
  BY DEF DmacInv, TypeOK, LoopFits, Idle
<1>2. /\ loop'.chan = c /\ loop'.left \in Nat /\ loop'.left <= dmac'.qwc[c]
      /\ loop'.left > 0 => loop'.left = loop.left - 1
      /\ loop' \in [chan : Channels \cup {None}, left : Nat]
  BY <1>1 DEF DmacState
<1>3. TypeOK'
  BY <1>1, <1>2 DEF TypeOK, Sound
<1>4. LoopFits'
  BY <1>2 DEF LoopFits
<1>5. DrainBehind'
  <2> SUFFICES ASSUME loop'.left > 0, (StallsAt(dmac, c))'
               PROVE  dmac'.address[c] + loop'.left <= dmac'.stadr
    BY <1>2 DEF DrainBehind
  <2>1. StallsAt(dmac, c) /\ control.dest = c
    BY DEF StallsAt
  <2>2. dmac.address[c] + loop.left <= dmac.stadr
    BY <2>1 DEF DmacInv, DrainBehind
  <2>3. c \in Drains /\ control.source # c
    <3>1. c # None
      BY NoneIsNoChannel
    <3>2. c \in Drains \cup {None} /\ control.source \in Fills \cup {None}
      BY <1>1, <2>1, DestIsChannel
    <3>3. \A x \in Drains : x \notin Fills \cup {None}
      BY DEF Drains, Fills, None
    <3> QED BY <3>1, <3>2, <3>3
  <2> QED BY <1>1, <1>2, <2>2, <2>3 DEF DmacState
<1> QED BY <1>3, <1>4, <1>5 DEF DmacInv

(* The end of a slice: no quad is left that could pass STADR.              *)
LEMMA EndInv ==
  ASSUME DmacInv, Sound(dmac'), loop'.left = 0, UNCHANGED control,
         loop' \in [chan : Channels \cup {None}, left : Nat],
         loop' # Idle => loop'.chan \in Channels,
         wants' \in [Channels -> BOOLEAN], RequestsReturn'
  PROVE  DmacInv'
<1>1. TypeOK'
  BY DEF DmacInv, TypeOK, Sound
<1>2. LoopFits'
  BY DEF LoopFits, Sound, DmacState
<1>3. DrainBehind'
  BY DEF DrainBehind
<1> QED BY <1>1, <1>2, <1>3 DEF DmacInv

(* The peripheral takes its request back.                                  *)
LEMMA WithdrawReturns ==
  ASSUME NEW d, NEW c \in Channels, NEW w, NEW v,
         w \in [Channels -> BOOLEAN], d \in DmacState,
         \A x \in Channels : w[x] /\ ~d.req[x] => d.stalled[x],
         v = [w EXCEPT ![c] = FALSE],
         NEW r, \A x \in Channels : x # c /\ d.req[x] => r.req[x], StalledKept(r, d)
  PROVE  /\ v \in [Channels -> BOOLEAN]
         /\ \A x \in Channels : v[x] /\ ~r.req[x] => r.stalled[x]
<1>1. ~v[c] /\ \A x \in Channels : x # c => v[x] = w[x]
  OBVIOUS
<1> QED BY <1>1 DEF StalledKept

LEMMA ProcessQuadInv == ASSUME DmacInv, ProcessQuad PROVE DmacInv'
<1> DEFINE c == loop.chan
<1>1. /\ TypeOK /\ Sound(dmac) /\ RequestsReturn /\ dmac \in DmacState
      /\ c \in Channels /\ loop.left > 0 /\ loop.left <= dmac.qwc[c]
      /\ loop \in [chan : Channels \cup {None}, left : Nat]
      /\ UNCHANGED control /\ wants \in [Channels -> BOOLEAN]
      /\ control.dest \in Channels \cup {None}
  BY DestIsChannel DEF DmacInv, ProcessQuad, TypeOK, LoopFits, Idle
<1>2. dmac.qwc[c] > 0
  BY <1>1 DEF DmacState
<1>3. CASE /\ dmac' = Advance(dmac, c) /\ loop' = [loop EXCEPT !.left = @ - 1]
           /\ UNCHANGED wants
  <2>1. /\ Sound(dmac') /\ RequestsKept(dmac', dmac) /\ StalledKept(dmac', dmac)
        /\ dmac'.stallTag = dmac.stallTag
        /\ dmac'.address[c] = dmac.address[c] + 1 /\ dmac'.qwc[c] = dmac.qwc[c] - 1
        /\ dmac'.stadr = dmac.stadr \/ control.source = c
    BY <1>1, <1>2, <1>3, AdvanceSound
  <2>2. RequestsReturn'
    BY <1>1, <1>3, <2>1 DEF RequestsReturn, RequestsKept, StalledKept
  <2> QED BY <1>1, <1>3, <2>1, <2>2, QuadInv
<1>4. CASE /\ LET d == ClearRequest(dmac, c)
              IN dmac' = IF c \in {"VIF0", "VIF1"} THEN d ELSE Advance(d, c)
           /\ wants' = [wants EXCEPT ![c] = FALSE]
           /\ loop' = [loop EXCEPT !.left = IF c = "EE_SIF1" THEN @ - 1 ELSE 0]
  <2> DEFINE d == ClearRequest(dmac, c)
  <2>1. /\ Sound(d) /\ SameData(d, dmac) /\ d.req = [dmac.req EXCEPT ![c] = FALSE]
        /\ d.stadr = dmac.stadr /\ d.stalled = dmac.stalled
    BY <1>1, ClearRequestSound
  <2>2. dmac' = IF c \in {"VIF0", "VIF1"} THEN d ELSE Advance(d, c)
    BY <1>4
  <2> HIDE DEF d
  <2>3. \A x \in Channels : x # c /\ dmac.req[x] => d.req[x]
    BY <1>1, <2>1 DEF DmacState
  <2>4. CASE c \in {"VIF0", "VIF1"}
    <3>1. dmac' = d /\ loop' = [loop EXCEPT !.left = 0]
      BY <1>4, <2>2, <2>4
    <3>2. wants' \in [Channels -> BOOLEAN] /\ RequestsReturn'
      BY <1>1, <1>4, <2>1, <2>3, <3>1, WithdrawReturns DEF RequestsReturn, StalledKept
    <3> QED BY <1>1, <2>1, <3>1, <3>2, EndInv
  <2>5. CASE c \notin {"VIF0", "VIF1"}
    <3>1. dmac' = Advance(d, c) /\ d.qwc[c] > 0
      BY <1>2, <2>1, <2>2, <2>5 DEF SameData
    <3>2. /\ Sound(dmac') /\ RequestsKept(dmac', d) /\ StalledKept(dmac', d)
          /\ dmac'.stallTag = d.stallTag
          /\ dmac'.address[c] = d.address[c] + 1 /\ dmac'.qwc[c] = d.qwc[c] - 1
          /\ dmac'.stadr = d.stadr \/ control.source = c
      BY <1>1, <2>1, <3>1, AdvanceSound
    <3>3. /\ \A x \in Channels : x # c /\ dmac.req[x] => dmac'.req[x]
          /\ StalledKept(dmac', dmac)
      BY <2>1, <2>3, <3>2 DEF RequestsKept, StalledKept
    <3>4. wants' \in [Channels -> BOOLEAN] /\ RequestsReturn'
      BY <1>1, <1>4, <3>3, WithdrawReturns DEF RequestsReturn
    <3>5. loop' = [loop EXCEPT !.left = loop.left - 1] \/ loop' = [loop EXCEPT !.left = 0]
      BY <1>4
    <3> QED BY <1>1, <2>1, <3>2, <3>4, <3>5, QuadInv DEF SameData
  <2> QED BY <2>4, <2>5
<1>5. CASE /\ dmac' = Arbitrate(Advance(dmac, c)) /\ loop' = [loop EXCEPT !.left = 0]
           /\ UNCHANGED wants
  <2> DEFINE d == Advance(dmac, c)
  <2>1. Sound(d) /\ RequestsKept(d, dmac) /\ StalledKept(d, dmac)
    BY <1>1, <1>2, AdvanceSound
  <2>2. dmac' = Arbitrate(d)
    BY <1>5
  <2> HIDE DEF d
  <2>3. Sound(dmac') /\ dmac'.req = d.req /\ dmac'.stalled = d.stalled
    BY <2>1, <2>2, ArbitrateSound
  <2>4. RequestsReturn'
    BY <1>1, <1>5, <2>1, <2>3 DEF RequestsReturn, RequestsKept, StalledKept
  <2> QED BY <1>1, <1>5, <2>3, <2>4, EndInv
<1> QED BY <1>3, <1>4, <1>5 DEF ProcessQuad
LEMMA ProcessEndInv == ASSUME DmacInv, ProcessEnd PROVE DmacInv'
<1> DEFINE c == loop.chan
           d == IF c = "IPU_FROM" /\ control.source = c
                THEN UpdateStadr(dmac, dmac.address[c]) ELSE dmac
<1>1. /\ TypeOK /\ Sound(dmac) /\ RequestsReturn /\ dmac \in DmacState
      /\ c \in Channels /\ UNCHANGED control /\ loop' = Idle
      /\ wants \in [Channels -> BOOLEAN] /\ control.dest \in Channels \cup {None}
  BY DestIsChannel DEF DmacInv, ProcessEnd, TypeOK, LoopFits
<1>2. loop'.left = 0 /\ loop' \in [chan : Channels \cup {None}, left : Nat]
  BY <1>1 DEF Idle
<1>3. Sound(d) /\ RequestsKept(d, dmac) /\ StalledKept(d, dmac)
  <2>1. dmac.address[c] \in Nat
    BY <1>1 DEF DmacState
  <2>2. CASE d = dmac
    BY <1>1, <2>2 DEF RequestsKept, StalledKept
  <2>3. CASE d = UpdateStadr(dmac, dmac.address[c])
    BY <1>1, <2>1, <2>3, UpdateStadrSound
  <2> QED BY <2>2, <2>3
<1>4. ASSUME Sound(dmac'), dmac'.req = d.req, dmac'.stalled = d.stalled, UNCHANGED wants
      PROVE  DmacInv'
  <2>1. RequestsReturn'
    BY <1>1, <1>3, <1>4 DEF RequestsReturn, RequestsKept, StalledKept
  <2> QED BY <1>1, <1>2, <1>4, <2>1, EndInv
<1>5. CASE dmac' = d /\ UNCHANGED wants
  BY <1>3, <1>4, <1>5
<1>6. CASE dmac' = Arbitrate(d) /\ UNCHANGED wants
  <2>1. Sound(dmac') /\ dmac'.req = d.req /\ dmac'.stalled = d.stalled
    BY <1>3, <1>6, ArbitrateSound
  <2> QED BY <1>4, <1>6, <2>1
<1>7. CASE dmac' = TransferEnd(d, c) /\ UNCHANGED wants
  <2>1. Sound(dmac') /\ dmac'.req = d.req /\ dmac'.stalled = d.stalled
    BY <1>1, <1>3, <1>7, TransferEndSound
  <2> QED BY <1>4, <1>7, <2>1
<1>8. ASSUME NEW e, Sound(e), NEW a \in Addresses, NEW n \in 0 .. MaxQWC,
             NEW last \in BOOLEAN, NEW stallTag \in BOOLEAN,
             dmac' = ReadTag(e, c, a, n, last, stallTag)
      PROVE  Sound(dmac') /\ dmac'.req = e.req /\ dmac'.stalled = e.stalled
  BY <1>1, <1>8, ReadTagSound
<1>9. ASSUME NEW a \in Addresses, NEW n \in 0 .. MaxQWC,
             NEW last \in BOOLEAN, NEW stallTag \in BOOLEAN,
             dmac' = ReadTag(d, c, a, n, last, stallTag), UNCHANGED wants
      PROVE  DmacInv'
  BY <1>3, <1>4, <1>8, <1>9
<1> DEFINE e == ClearRequest(d, c)
<1> HIDE DEF d
<1>10. Sound(e) /\ e.req = [d.req EXCEPT ![c] = FALSE] /\ e.stalled = d.stalled
  BY <1>1, <1>3, ClearRequestSound
<1> HIDE DEF e
<1>11. ASSUME Sound(dmac'), dmac'.req = e.req, dmac'.stalled = e.stalled,
              wants' = [wants EXCEPT ![c] = FALSE]
       PROVE  DmacInv'
  <2>1. \A x \in Channels : x # c /\ dmac.req[x] => dmac'.req[x]
    <3>1. dmac'.req = [d.req EXCEPT ![c] = FALSE]
      BY <1>10, <1>11
    <3>2. d.req \in [Channels -> BOOLEAN]
      BY <1>3 DEF Sound, DmacState
    <3>3. \A x \in Channels : dmac.req[x] => d.req[x]
      BY <1>3 DEF RequestsKept
    <3> QED BY <3>1, <3>2, <3>3
  <2>2. StalledKept(dmac', dmac)
    BY <1>3, <1>10, <1>11 DEF StalledKept
  <2>3. wants' \in [Channels -> BOOLEAN] /\ RequestsReturn'
    BY <1>1, <1>11, <2>1, <2>2, WithdrawReturns DEF RequestsReturn
  <2> QED BY <1>1, <1>2, <1>11, <2>3, EndInv
<1>12. CASE dmac' = Arbitrate(e) /\ wants' = [wants EXCEPT ![c] = FALSE]
  <2> HIDE DEF e
  <2>1. Sound(dmac') /\ dmac'.req = e.req /\ dmac'.stalled = e.stalled
    BY <1>10, <1>12, ArbitrateSound
  <2> QED BY <1>11, <1>12, <2>1
<1>13. ASSUME NEW a \in Addresses, NEW n \in 0 .. MaxQWC,
              NEW last \in BOOLEAN, NEW stallTag \in BOOLEAN,
              dmac' = ReadTag(e, c, a, n, last, stallTag),
              wants' = [wants EXCEPT ![c] = FALSE]
       PROVE  DmacInv'
  BY <1>8, <1>10, <1>11, <1>13
<1> HIDE DEF d, e
<1> QED BY <1>5, <1>6, <1>7, <1>9, <1>12, <1>13 DEF ProcessEnd, d, e
LEMMA RequestsInv == ASSUME DmacInv, PeripheralRequests \/ PeripheralWithdraws PROVE DmacInv'
<1>1. /\ Sound(dmac) /\ RequestsReturn /\ dmac \in DmacState /\ loop = Idle
      /\ UNCHANGED <<control, loop>> /\ wants \in [Channels -> BOOLEAN]
      /\ control \in [enable : BOOLEAN, source : StallSources, dest : StallDests]
  BY DEF DmacInv, TypeOK, PeripheralRequests, PeripheralWithdraws
<1>2. CASE PeripheralRequests
  <2>1. PICK c \in Channels \ ScratchpadChannels :
          wants' = [wants EXCEPT ![c] = TRUE] /\ dmac' = SetRequest(dmac, c)
    BY <1>2 DEF PeripheralRequests
  <2>2. /\ Sound(dmac') /\ dmac'.req = [dmac.req EXCEPT ![c] = TRUE]
        /\ StalledKept(dmac', dmac)
    BY <1>1, <2>1, SetRequestSound
  <2>3. wants' \in [Channels -> BOOLEAN] /\ RequestsReturn'
    <3>1. wants' \in [Channels -> BOOLEAN] /\ \A x \in Channels : x # c => wants'[x] = wants[x]
      BY <1>1, <2>1
    <3>2. dmac'.req[c] /\ \A x \in Channels : x # c => dmac'.req[x] = dmac.req[x]
      BY <1>1, <2>1, <2>2 DEF DmacState
    <3> QED BY <1>1, <2>2, <3>1, <3>2 DEF RequestsReturn, StalledKept
  <2> QED BY <1>1, <2>2, <2>3, IdleInv
<1>3. CASE PeripheralWithdraws
  <2>1. PICK c \in Channels :
          wants' = [wants EXCEPT ![c] = FALSE] /\ dmac' = ClearRequest(dmac, c)
    BY <1>3 DEF PeripheralWithdraws
  <2>2. /\ Sound(dmac') /\ dmac'.req = [dmac.req EXCEPT ![c] = FALSE]
        /\ dmac'.stalled = dmac.stalled
    BY <1>1, <2>1, ClearRequestSound
  <2>3. \A x \in Channels : x # c /\ dmac.req[x] => dmac'.req[x]
    BY <1>1, <2>2 DEF DmacState
  <2>4. wants' \in [Channels -> BOOLEAN] /\ RequestsReturn'
    BY <1>1, <2>1, <2>2, <2>3, WithdrawReturns DEF RequestsReturn, StalledKept
  <2> QED BY <1>1, <2>2, <2>4, IdleInv
<1> QED BY <1>2, <1>3

LEMMA StartInv == ASSUME DmacInv, StartDMA PROVE DmacInv'
<1>1. /\ Sound(dmac) /\ RequestsReturn /\ dmac \in DmacState /\ loop = Idle
      /\ UNCHANGED <<control, loop, wants>> /\ wants \in [Channels -> BOOLEAN]
      /\ control \in [enable : BOOLEAN, source : StallSources, dest : StallDests]
  BY DEF DmacInv, TypeOK, StartDMA
<1>2. PICK c \in Channels, chain \in BOOLEAN, interleave \in BOOLEAN,
           a \in Addresses, n \in 0 .. MaxQWC, last \in BOOLEAN, stallTag \in BOOLEAN :
        /\ ~dmac.started[c]
        /\ dmac' = CheckForActivation(Started(dmac, c, interleave, a, n, last, stallTag), c)
  BY DEF StartDMA
<1> DEFINE f == [dmac.address EXCEPT ![c] = a]
           g == [dmac.qwc EXCEPT ![c] = n]
           h == [dmac.tagEnd EXCEPT ![c] = last]
           i == [dmac.stallTag EXCEPT ![c] = stallTag]
           j == [dmac.interleave EXCEPT ![c] = interleave]
           k == [dmac.started EXCEPT ![c] = TRUE]
           e == [dmac EXCEPT !.started = k, !.interleave = j,
                        !.address = f, !.qwc = g, !.tagEnd = h, !.stallTag = i]
<1>3. dmac' = CheckForActivation(e, c)
  BY <1>2 DEF Started
<1>4. /\ f \in [Channels -> Nat] /\ g \in [Channels -> Nat]
      /\ h \in [Channels -> BOOLEAN] /\ i \in [Channels -> BOOLEAN]
      /\ j \in [Channels -> BOOLEAN] /\ k \in [Channels -> BOOLEAN]
      /\ k[c] /\ \A x \in Channels : x # c => k[x] = dmac.started[x]
  BY <1>1, DmacAssumption DEF DmacState, Addresses
<1> HIDE DEF f, g, h, i, j, k
<1>5. /\ e \in DmacState /\ e.active = dmac.active /\ e.queue = dmac.queue /\ e.req = dmac.req
      /\ e.started = k /\ e.stalled = dmac.stalled /\ Int1Follows(e)
  BY <1>1, <1>4 DEF Sound, DmacState, Int1Follows
<1> DEFINE S == Ready(dmac)
<1>6. Turns(e.active, e.queue, S) /\ c \notin S
  BY <1>1, <1>2, <1>5 DEF Sound, Ready
<1>7. Ready(e) = IF e.req[c] /\ e.started[c] THEN S \cup {c} ELSE S
  BY <1>2, <1>4, <1>5 DEF Ready
<1> HIDE DEF e, S
<1>8. /\ dmac' \in DmacState /\ Int1Follows(dmac')
      /\ Turns(dmac'.active, dmac'.queue, IF e.req[c] /\ e.started[c] THEN S \cup {c} ELSE S)
      /\ SameData(dmac', e) /\ dmac'.req = e.req /\ StalledKept(dmac', e)
  <2>1. Checks(e, c, S, dmac')
    BY <1>3, <1>5, <1>6, CheckTurns
  <2>. QED BY <2>1 DEF Checks
<1>9. Ready(dmac') = Ready(e)
  BY <1>8 DEF Ready, SameData
<1>10. Sound(dmac')
  BY <1>7, <1>8, <1>9 DEF Sound
<1>11. RequestsReturn'
  BY <1>1, <1>5, <1>8 DEF RequestsReturn, StalledKept
<1> QED BY <1>1, <1>10, <1>11, IdleInv

LEMMA StopInv == ASSUME DmacInv, StopDMA PROVE DmacInv'
<1>1. /\ Sound(dmac) /\ RequestsReturn /\ dmac \in DmacState /\ loop = Idle
      /\ UNCHANGED <<control, loop, wants>> /\ wants \in [Channels -> BOOLEAN]
      /\ control \in [enable : BOOLEAN, source : StallSources, dest : StallDests]
  BY DEF DmacInv, TypeOK, StopDMA
<1>2. PICK c \in Channels :
        dmac' = DeactivateChannel([dmac EXCEPT !.started[c] = FALSE], c)
  BY DEF StopDMA
<1> DEFINE f == [dmac.started EXCEPT ![c] = FALSE]
           e == [dmac EXCEPT !.started = f]
<1>3. dmac' = DeactivateChannel(e, c)
  BY <1>2
<1>4. /\ e \in DmacState /\ e.active = dmac.active /\ e.queue = dmac.queue
      /\ e.req = dmac.req /\ e.started = f /\ e.stalled = dmac.stalled /\ Int1Follows(e)
  BY <1>1 DEF Sound, DmacState, Int1Follows
<1> HIDE DEF e
<1>5. Sound(dmac') /\ dmac'.req = e.req /\ dmac'.stalled = e.stalled
  BY <1>1, <1>3, <1>4, StopSound
<1>6. RequestsReturn'
  BY <1>1, <1>4, <1>5 DEF RequestsReturn
<1> QED BY <1>1, <1>5, <1>6, IdleInv

LEMMA RegistersInv == ASSUME DmacInv, WriteCTRL \/ WriteSTAT \/ WriteSTADR PROVE DmacInv'
<1>1. /\ Sound(dmac) /\ RequestsReturn /\ dmac \in DmacState /\ loop = Idle
      /\ UNCHANGED <<loop, wants>> /\ wants \in [Channels -> BOOLEAN]
      /\ control \in [enable : BOOLEAN, source : StallSources, dest : StallDests]
      /\ control.dest \in Channels \cup {None}
  BY DestIsChannel DEF DmacInv, TypeOK, WriteCTRL, WriteSTAT, WriteSTADR
<1>2. CASE WriteCTRL
  <2>1. dmac' = dmac
        /\ control' \in [enable : BOOLEAN, source : StallSources, dest : StallDests]
    BY <1>2 DEF WriteCTRL
  <2> QED BY <1>1, <2>1, IdleInv DEF RequestsReturn
<1>3. CASE WriteSTAT
  <2>1. PICK clear \in SUBSET Flags, toggle \in SUBSET Flags :
          dmac' = Int1Check([dmac EXCEPT !.stat = @ \ clear,
                               !.mask = (@ \ toggle) \cup (toggle \ @)])
    BY <1>3 DEF WriteSTAT
  <2> DEFINE s == dmac.stat \ clear
             m == (dmac.mask \ toggle) \cup (toggle \ dmac.mask)
             n == (s \cap m # {})
  <2>2. dmac' = [dmac EXCEPT !.stat = s, !.mask = m, !.int1 = n]
    BY <1>1, <2>1 DEF Int1Check, DmacState
  <2>3. s \in SUBSET Flags /\ m \in SUBSET Flags /\ n \in BOOLEAN
    BY <1>1 DEF DmacState
  <2>4. n <=> s \cap m # {}
    OBVIOUS
  <2> HIDE DEF s, m, n
  <2>5. dmac' \in DmacState
    BY <1>1, <2>2, <2>3 DEF DmacState
  <2>6. /\ dmac'.active = dmac.active /\ dmac'.queue = dmac.queue
        /\ dmac'.req = dmac.req /\ dmac'.started = dmac.started /\ dmac'.stalled = dmac.stalled
        /\ dmac'.stat = s /\ dmac'.mask = m /\ dmac'.int1 = n
    BY <1>1, <2>2 DEF DmacState
  <2>7. Ready(dmac') = Ready(dmac)
    BY <2>6 DEF Ready
  <2>8. Sound(dmac')
    BY <1>1, <2>4, <2>5, <2>6, <2>7 DEF Sound, Int1Follows
  <2>9. RequestsReturn' /\ UNCHANGED control
    BY <1>1, <1>3, <2>6 DEF RequestsReturn, WriteSTAT
  <2> QED BY <1>1, <2>8, <2>9, IdleInv
<1>4. CASE WriteSTADR
  <2>1. PICK a \in Addresses : dmac' = UpdateStadr(dmac, a)
    BY <1>4 DEF WriteSTADR
  <2>2. a \in Nat
    BY DmacAssumption DEF Addresses
  <2>3. Sound(dmac') /\ RequestsKept(dmac', dmac) /\ StalledKept(dmac', dmac)
    BY <1>1, <2>1, <2>2, UpdateStadrSound
  <2>4. RequestsReturn' /\ UNCHANGED control
    BY <1>1, <1>4, <2>3 DEF RequestsReturn, RequestsKept, StalledKept, WriteSTADR
  <2> QED BY <1>1, <2>3, <2>4, IdleInv
<1> QED BY <1>2, <1>3, <1>4

LEMMA StutterInv == ASSUME DmacInv, UNCHANGED vars PROVE DmacInv'
BY DEF DmacInv, vars, TypeOK, LoopFits, DrainBehind, StallsAt, RequestsReturn

-----------------------------------------------------------------------------
(* Theorems *)

(* Every reachable state satisfies the inductive invariant.                *)
THEOREM DmacInvariance == Spec => []DmacInv
<1>1. Init => DmacInv
  BY InitInv
<1>2. DmacInv /\ [Next]_vars => DmacInv'
  BY ProcessBeginInv, ProcessQuadInv, ProcessEndInv, RequestsInv, StartInv, StopInv,
     RegistersInv, StutterInv DEF Next, Process
<1> QED BY <1>1, <1>2, PTL DEF Spec

(* The fields of DMAC keep their types.                                    *)
THEOREM DmacTypes == Spec => []TypeOK
<1>1. DmacInv => TypeOK
  BY DEF DmacInv
<1> QED BY <1>1, DmacInvariance, PTL

(* The active channel and the queue hold exactly the channels that are     *)
(* started and requested, each once, after any sequence of starts, stops,  *)
(* requests, stalls and slices: arbitrate forgets none and doubles none.   *)
THEOREM TurnsAreExact == Spec => []ReadyTakeTurns
<1>1. DmacInv => ReadyTakeTurns
  BY ExactIsTurns DEF DmacInv, ReadyTakeTurns, Sound
<1> QED BY <1>1, DmacInvariance, PTL

(* No quad of a drain channel passes STADR: the check that the process_    *)
(* function makes before the slice holds for every quad of it.             *)
THEOREM DrainsStayBehind == Spec => []DrainBehind
<1>1. DmacInv => DrainBehind
  BY DEF DmacInv
<1> QED BY <1>1, DmacInvariance, PTL

(* INT1 is asserted exactly while a bit of D_STAT and its mask are set.    *)
THEOREM InterruptFollows == Spec => []Int1Exact
<1>1. DmacInv => Int1Exact
  BY DEF DmacInv, Int1Exact, Sound, Int1Follows
<1> QED BY <1>1, DmacInvariance, PTL

(* A request that the controller withdrew itself is noted as a stall.      *)
THEOREM WithdrawnIsNoted == Spec => []RequestsReturn
<1>1. DmacInv => RequestsReturn
  BY DEF DmacInv
<1> QED BY <1>1, DmacInvariance, PTL

-----------------------------------------------------------------------------
(***************************************************************************)
(* Vif: the words of a packet, from the FIFO that the channel above fills. *)
(* Each word that comes to rest in FIFO, internal_FIFO or the buffer of    *)
(* UNPACK has a place in the program it was compiled from, and the         *)
(* invariant (Kept) says that the places follow one another without a gap  *)
(* and that the word in hand is the one the decoder believes it has.       *)
(***************************************************************************)

(* Induction over the naturals, for sets.                                  *)
LEMMA NaturalsAreLeast == ASSUME NEW S \in SUBSET Nat, S # {} PROVE \E n \in S : \A m \in S : n <= m
PROOF
<1>. DEFINE R == OpToRel(<, Nat)
<1>1. IsWellFoundedOn(R, Nat)
  BY NatLessThanWellFounded
<1>2. PICK n \in S : \A m \in S : ~(<<m, n>> \in R)
  BY <1>1, WFMin
<1>3. \A m \in S : ~(m < n)
  BY <1>2 DEF OpToRel
<1>. QED BY <1>3

LEMMA Induct ==
  ASSUME NEW S \in SUBSET Nat, 0 \in S, \A n \in S : n + 1 \in S PROVE S = Nat
PROOF
<1>. SUFFICES ASSUME S # Nat PROVE FALSE
  OBVIOUS
<1>1. PICK x \in Nat \ S : \A y \in Nat \ S : x <= y
  <2>. DEFINE T == Nat \ S
  <2>1. T \in SUBSET Nat /\ T # {}
    OBVIOUS
  <2>. HIDE DEF T
  <2>2. \E x \in T : \A y \in T : x <= y
    BY <2>1, NaturalsAreLeast
  <2>. QED BY <2>2 DEF T
<1>2. x # 0 /\ x - 1 \in Nat /\ ~(x <= x - 1) /\ (x - 1) + 1 = x
  BY <1>1
<1>. QED BY <1>1, <1>2

-----------------------------------------------------------------------------
(* The formats of UNPACK                                                   *)
LEMMA Parts ==
  ASSUME NEW c \in CommandWords
  PROVE  /\ c.vn \in 0 .. 3 /\ c.vl \in 0 .. 3 /\ c.num \in 1 .. 256
         /\ c.cl \in 0 .. 255 /\ c.wl \in 1 .. 256
BY DEF CommandWords

LEMMA QuadBitsIs ==
  ASSUME NEW c \in CommandWords
  PROVE  /\ QuadBits(c) \in Nat /\ QuadBits(c) \in 1 .. 64 \cup {96, 128}
         /\ c.vn = 2 /\ c.vl = 0 => QuadBits(c) = 96
         /\ QuadBits(c) = 96 => c.vn = 2 /\ c.vl = 0
PROOF
<1>1. c.vn \in {0, 1, 2, 3} /\ c.vl \in {0, 1, 2, 3}
  BY Parts
<1>2. CASE c.vl = 0
  BY <1>1, <1>2 DEF QuadBits
<1>3. CASE c.vl = 1
  BY <1>1, <1>3 DEF QuadBits
<1>4. CASE c.vl = 2
  BY <1>1, <1>4 DEF QuadBits
<1>5. CASE c.vl = 3
  BY <1>1, <1>5 DEF QuadBits
<1>. QED BY <1>1, <1>2, <1>3, <1>4, <1>5

(* What n quadwords read.                                                  *)
ReadsOf(c, n) ==
  IF c.wl <= c.cl THEN n
  ELSE c.cl * (n \div c.wl) + IF n % c.wl < c.cl THEN n % c.wl ELSE c.cl

LEMMA Divided ==
  ASSUME NEW n \in Nat, NEW d \in Nat \ {0}
  PROVE  n = (n \div d) * d + (n % d) /\ n \div d \in Nat /\ n % d \in 0 .. d - 1
PROOF OBVIOUS

LEMMA Distributes ==
  ASSUME NEW a \in Int, NEW b \in Int, NEW c \in Nat
  PROVE  /\ a * c \in Int /\ b * c \in Int /\ (a - b) * c = a * c - b * c
         /\ (a + 1) * c = a * c + c /\ (a + b) * c = a * c + b * c
         /\ a <= b => a * c <= b * c
PROOF OBVIOUS

(* The quotient and the rest are the only ones.                            *)
LEMMA DividedOnce ==
  ASSUME NEW q \in Nat, NEW r \in Nat, NEW p \in Nat, NEW s \in Nat, NEW d \in Nat \ {0},
         r < d, s < d, q * d + r = p * d + s
  PROVE  q = p /\ r = s
PROOF
<1>1. q * d \in Int /\ p * d \in Int
  BY Distributes
<1>2. ASSUME q + 1 <= p PROVE FALSE
  <2>1. (q + 1) * d <= p * d /\ (q + 1) * d = q * d + d
    BY <1>2, Distributes
  <2>. QED BY <1>1, <2>1
<1>3. ASSUME p + 1 <= q PROVE FALSE
  <2>1. (p + 1) * d <= q * d /\ (p + 1) * d = p * d + d
    BY <1>3, Distributes
  <2>. QED BY <1>1, <2>1
<1>4. q = p
  BY <1>2, <1>3
<1>. QED BY <1>1, <1>4

LEMMA NextDivided ==
  ASSUME NEW n \in Nat, NEW d \in Nat \ {0}
  PROVE  IF (n % d) + 1 >= d THEN (n + 1) % d = 0 /\ (n + 1) \div d = (n \div d) + 1
         ELSE (n + 1) % d = (n % d) + 1 /\ (n + 1) \div d = n \div d
PROOF
<1>. DEFINE q == n \div d
            r == n % d
            m == n + 1
            p == m \div d
            s == m % d
<1>1. n = q * d + r /\ q \in Nat /\ r \in Nat /\ r < d
  BY Divided
<1>2. m = p * d + s /\ p \in Nat /\ s \in Nat /\ s < d
  <2>1. m \in Nat
    OBVIOUS
  <2>. HIDE DEF m
  <2>. QED BY <2>1, Divided
<1>3. m = n + 1
  OBVIOUS
<1>. HIDE DEF q, r, m, p, s
<1>4. q * d \in Int /\ (q + 1) * d = q * d + d
  BY <1>1, Distributes
<1>5. CASE r + 1 >= d
  <2>1. (q + 1) * d + 0 = p * d + s /\ q + 1 \in Nat
    BY <1>1, <1>2, <1>3, <1>4, <1>5
  <2>2. q + 1 = p /\ s = 0
    BY <1>2, <2>1, DividedOnce
  <2>. QED BY <1>5, <2>2 DEF q, r, m, p, s
<1>6. CASE ~(r + 1 >= d)
  <2>1. q * d + (r + 1) = p * d + s /\ r + 1 \in Nat /\ r + 1 < d
    BY <1>1, <1>2, <1>3, <1>4, <1>6
  <2>2. q = p /\ s = r + 1
    BY <1>1, <1>2, <2>1, DividedOnce
  <2>. QED BY <1>6, <2>2 DEF q, r, m, p, s
<1>. QED BY <1>5, <1>6 DEF q, r, m, p, s

LEMMA ReadsStep ==
  ASSUME NEW c \in CommandWords, NEW n \in Nat
  PROVE  /\ ReadsOf(c, n) \in Nat
         /\ ReadsOf(c, n + 1) = ReadsOf(c, n) + (IF n % c.wl < c.cl THEN 1 ELSE 0)
         /\ (n + 1) % c.wl = IF (n % c.wl) + 1 >= c.wl THEN 0 ELSE (n % c.wl) + 1
         /\ n % c.wl \in 0 .. c.wl - 1
PROOF
<1>. DEFINE w == c.wl
            l == c.cl
            q == n \div w
            r == n % w
            p == (n + 1) \div w
            s == (n + 1) % w
<1>1. w \in Nat \ {0} /\ l \in Nat
  BY Parts
<1>. HIDE DEF w, l
<1>2. q \in Nat /\ r \in Nat /\ r < w
  BY <1>1, Divided
<1>3. IF r + 1 >= w THEN s = 0 /\ p = q + 1 ELSE s = r + 1 /\ p = q
  BY <1>1, NextDivided
<1>. HIDE DEF q, r, p, s
<1>4. ReadsOf(c, n) = (IF w <= l THEN n ELSE l * q + IF r < l THEN r ELSE l)
  BY DEF ReadsOf, w, l, q, r
<1>5. ReadsOf(c, n + 1) = (IF w <= l THEN n + 1 ELSE l * p + IF s < l THEN s ELSE l)
  BY DEF ReadsOf, w, l, p, s
<1>6. l * q \in Nat /\ l * (q + 1) = l * q + l
  <2>1. q * l \in Int /\ (q + 1) * l = q * l + l /\ 0 * l <= q * l
    BY <1>1, <1>2, Distributes
  <2>. QED BY <1>1, <1>2, <2>1
<1>7. ReadsOf(c, n) \in Nat
  BY <1>1, <1>2, <1>4, <1>6
<1>8. ReadsOf(c, n + 1) = ReadsOf(c, n) + (IF r < l THEN 1 ELSE 0)
  <2>1. CASE w <= l
    BY <1>2, <1>1, <1>4, <1>5, <2>1
  <2>2. CASE ~(w <= l) /\ r + 1 >= w
    BY <1>2, <1>1, <1>3, <1>4, <1>5, <1>6, <2>2
  <2>3. CASE ~(w <= l) /\ ~(r + 1 >= w)
    BY <1>2, <1>1, <1>3, <1>4, <1>5, <1>6, <2>3
  <2>. QED BY <2>1, <2>2, <2>3
<1>9. s = IF r + 1 >= w THEN 0 ELSE r + 1
  BY <1>3
<1>. QED BY <1>1, <1>2, <1>7, <1>8, <1>9 DEF w, l, r, s

LEMMA ReadsGrow ==
  ASSUME NEW c \in CommandWords, NEW n \in Nat, NEW m \in Nat, n <= m
  PROVE  ReadsOf(c, n) <= ReadsOf(c, m)
PROOF
<1>. DEFINE S == {k \in Nat : ReadsOf(c, n) <= ReadsOf(c, n + k)}
<1>1. 0 \in S
  <2>1. ReadsOf(c, n) \in Nat /\ n + 0 = n
    BY ReadsStep
  <2>. QED BY <2>1
<1>2. ASSUME NEW k \in S PROVE k + 1 \in S
  <2>1. k \in Nat /\ n + k \in Nat /\ (n + k) + 1 = n + (k + 1) /\ k + 1 \in Nat
    OBVIOUS
  <2>2. /\ ReadsOf(c, n) \in Nat /\ ReadsOf(c, n + k) \in Nat /\ ReadsOf(c, n + (k + 1)) \in Nat
        /\ ReadsOf(c, n + k) <= ReadsOf(c, n + (k + 1))
    <3>. DEFINE a == n + k
                b == n + (k + 1)
    <3>1. a \in Nat /\ b = a + 1 /\ b \in Nat
      BY <2>1
    <3>. HIDE DEF a, b
    <3>2. ReadsOf(c, n) \in Nat /\ ReadsOf(c, a) \in Nat /\ ReadsOf(c, b) \in Nat
      BY <3>1, ReadsStep
    <3>3. ReadsOf(c, b) = ReadsOf(c, a) + (IF a % c.wl < c.cl THEN 1 ELSE 0)
      BY <3>1, ReadsStep
    <3>4. ReadsOf(c, a) <= ReadsOf(c, b)
      BY <3>2, <3>3
    <3>. QED BY <3>2, <3>4 DEF a, b
  <2>3. ReadsOf(c, n) <= ReadsOf(c, n + k)
    OBVIOUS
  <2>. QED BY <2>1, <2>2, <2>3
<1>3. S = Nat
  <2>. HIDE DEF S
  <2>1. S \in SUBSET Nat
    BY DEF S
  <2>. QED BY <1>1, <1>2, <2>1, Induct
<1>4. m - n \in Nat /\ n + (m - n) = m
  OBVIOUS
<1>5. m - n \in S
  BY <1>3, <1>4
<1>. QED BY <1>4, <1>5

-----------------------------------------------------------------------------
(* The loop of handle_UNPACK                                               *)
LEMMA CommandIs ==
  ASSUME NEW c \in Names
  PROVE  /\ Commands[c] \in CommandWords /\ c # NoCommand /\ Op(c) = Commands[c].op
         /\ Count[c] \in Nat
PROOF
<1>1. Commands[c] \in CommandWords /\ c # NoCommand
  BY VifAssumption DEF Names
<1>2. Op(c) = Commands[c].op
  BY <1>1 DEF Op
<1>3. Commands[c].words \in Nat
  BY <1>1 DEF CommandWords
<1>4. UnpackWords(Commands[c]) \in Nat
  <2>. DEFINE q == QuadBits(Commands[c])
              r == Reads(Commands[c])
              n == Commands[c].num
  <2>1. q \in Nat
    BY <1>1, QuadBitsIs, ZenonT(60)
  <2>2. n \in Nat
    <3>1. n \in 1 .. 256
      BY <1>1, Parts
    <3>. QED BY <3>1
  <2>3. r = ReadsOf(Commands[c], n)
    BY DEF Reads, ReadsOf
  <2>4. r \in Nat
    <3>. HIDE DEF r, n
    <3>. QED BY <1>1, <2>2, <2>3, ReadsStep
  <2>5. UnpackWords(Commands[c]) = (q * r + 31) \div 32
    BY DEF UnpackWords
  <2>. HIDE DEF q, r
  <2>6. q * r \in Nat
    BY <2>1, <2>4
  <2>. QED BY <2>5, <2>6
<1>5. Count[c] \in Nat
  BY <1>3, <1>4 DEF Count
<1>. QED BY <1>1, <1>2, <1>5

(* What a turn of the loop does, and that it is a state of the interface.  *)
CanWrite(v) == v.num # 0 /\ (Filling(v) \/ Readable(v))

LEMMA UnpackingIs ==
  ASSUME NEW v \in Unpacking
  PROVE  /\ v \in VifState /\ v.command \in Names /\ Commands[v.command] \in CommandWords
         /\ v.num \in 0 .. 256 /\ v.bits \in Nat /\ v.blocks \in Nat
         /\ Op(v.command) = "unpack"
PROOF
<1>1. v \in VifState /\ Op(v.command) = "unpack"
  BY DEF Unpacking
<1>2. /\ v.command \in Names \cup {NoCommand} /\ v.num \in 0 .. 256
      /\ v.bits \in Nat /\ v.blocks \in Nat
  BY <1>1 DEF VifState
<1>3. v.command # NoCommand
  BY <1>1 DEF Op
<1>4. v.command \in Names
  BY <1>2, <1>3
<1>. QED BY <1>1, <1>2, <1>4, CommandIs

LEMMA QuadWritten ==
  ASSUME NEW v \in Unpacking, CanWrite(v)
  PROVE  LET u == WriteQuad(v)
             c == Commands[v.command]
         IN /\ u \in Unpacking /\ u.num = v.num - 1 /\ u.command = v.command
            /\ u.bits = (IF v.blocks < c.cl THEN v.bits - QuadBits(c) ELSE v.bits)
            /\ u.blocks = (IF v.blocks + 1 >= c.wl THEN 0 ELSE v.blocks + 1)
            /\ u.fifo = v.fifo /\ u.internal = v.internal /\ u.len = v.len /\ u.code = v.code
            /\ u.waits = v.waits /\ u.ibit = v.ibit /\ u.stop = v.stop /\ u.broken = v.broken
            /\ u.stalled = v.stalled /\ u.interrupt = v.interrupt /\ u.transfer = v.transfer
PROOF
<1>. DEFINE c == Commands[v.command]
            k == QuadBits(c)
            m == v.num - 1
            b == IF v.blocks < c.cl THEN v.bits - k ELSE v.bits
            o == IF v.blocks + 1 >= c.wl THEN 0 ELSE v.blocks + 1
<1>1. /\ v \in VifState /\ v.command \in Names /\ c \in CommandWords
      /\ v.num \in 0 .. 256 /\ v.bits \in Nat /\ v.blocks \in Nat
      /\ Op(v.command) = "unpack"
  BY UnpackingIs
<1>2. WriteQuad(v) = [v EXCEPT !.num = m, !.bits = b, !.blocks = o]
  BY <1>1 DEF WriteQuad, VifState
<1>3. k \in Nat /\ c.cl \in Nat /\ c.wl \in Nat
  <2>1. k \in Nat
    BY <1>1, QuadBitsIs, ZenonT(60)
  <2>2. c.cl \in 0 .. 255 /\ c.wl \in 1 .. 256
    <3>. HIDE DEF c, k, m, b, o
    <3>. QED BY <1>1, Parts
  <2>. HIDE DEF c, k
  <2>. QED BY <2>1, <2>2
<1>4. v.blocks < c.cl => v.bits >= k
  <2>1. ASSUME v.blocks < c.cl PROVE ~Filling(v)
    BY <1>1, <1>3, <2>1 DEF Filling
  <2>2. ASSUME Readable(v) PROVE v.bits >= k
    BY <2>2 DEF Readable
  <2>. QED BY <2>1, <2>2 DEF CanWrite
<1>5. m \in 0 .. 256 /\ b \in Nat /\ o \in Nat
  <2>. HIDE DEF c, k
  <2>. QED BY <1>1, <1>3, <1>4 DEF CanWrite
<1>. HIDE DEF m, b, o
<1>6. [v EXCEPT !.num = m, !.bits = b, !.blocks = o] \in VifState
  BY <1>1, <1>5 DEF VifState
<1>7. LET u == [v EXCEPT !.num = m, !.bits = b, !.blocks = o]
      IN /\ u.num = m /\ u.bits = b /\ u.blocks = o /\ u.command = v.command
         /\ u.fifo = v.fifo /\ u.internal = v.internal /\ u.len = v.len /\ u.code = v.code
         /\ u.waits = v.waits /\ u.ibit = v.ibit /\ u.stop = v.stop /\ u.broken = v.broken
         /\ u.stalled = v.stalled /\ u.interrupt = v.interrupt /\ u.transfer = v.transfer
  BY <1>1 DEF VifState
<1>8. [v EXCEPT !.num = m, !.bits = b, !.blocks = o] \in Unpacking
  BY <1>1, <1>6, <1>7 DEF Unpacking
<1>. QED BY <1>2, <1>7, <1>8 DEF m, b, o, c, k

(* The recursion of the loop is well founded.                              *)
Loop(f, v) ==
  IF v.num = 0 THEN [v EXCEPT !.command = NoCommand, !.transfer = FALSE]
  ELSE IF ~(Filling(v) \/ Readable(v)) THEN v
  ELSE f[WriteQuad(v)]

UpTo(n) == {v \in Unpacking : v.num <= n}

LEMMA LoopExists ==
  \E f : f = [v \in Unpacking |-> Loop(f, v)]
PROOF
<1>. DEFINE S == {n \in Nat : \E f : f = [v \in UpTo(n) |-> Loop(f, v)]}
<1>1. 0 \in S
  <2>. DEFINE f == [v \in UpTo(0) |-> [v EXCEPT !.command = NoCommand, !.transfer = FALSE]]
  <2>1. ASSUME NEW v \in UpTo(0)
        PROVE  Loop(f, v) = [v EXCEPT !.command = NoCommand, !.transfer = FALSE]
    <3>1. v \in Unpacking /\ v.num <= 0
      BY DEF UpTo
    <3>2. v.num \in 0 .. 256
      BY <3>1, UnpackingIs, ZenonT(60)
    <3>3. v.num = 0
      BY <3>1, <3>2
    <3>. QED BY <3>3 DEF Loop
  <2>. HIDE DEF f
  <2>2. f = [v \in UpTo(0) |-> Loop(f, v)]
    BY <2>1 DEF f
  <2>. QED BY <2>2
<1>2. ASSUME NEW n \in S PROVE n + 1 \in S
  <2>1. PICK f : f = [v \in UpTo(n) |-> Loop(f, v)]
    OBVIOUS
  <2>. DEFINE g == [v \in UpTo(n + 1) |-> Loop(f, v)]
  <2>2. ASSUME NEW v \in UpTo(n + 1) PROVE Loop(g, v) = Loop(f, v)
    <3>1. v \in Unpacking /\ v.num <= n + 1 /\ n \in Nat
      BY DEF UpTo
    <3>2. CASE ~CanWrite(v)
      BY <3>2 DEF Loop, CanWrite
    <3>3. CASE CanWrite(v)
      <4>1. WriteQuad(v) \in Unpacking /\ WriteQuad(v).num = v.num - 1
        BY <3>1, <3>3, QuadWritten, ZenonT(60)
      <4>5. v.num \in 0 .. 256
        BY <3>1, UnpackingIs, ZenonT(60)
      <4>2. WriteQuad(v) \in UpTo(n) /\ WriteQuad(v) \in UpTo(n + 1)
        BY <3>1, <4>1, <4>5 DEF UpTo
      <4>3. g[WriteQuad(v)] = Loop(f, WriteQuad(v))
        BY <4>2
      <4>4. f[WriteQuad(v)] = Loop(f, WriteQuad(v))
        BY <2>1, <4>2
      <4>6. Loop(g, v) = g[WriteQuad(v)] /\ Loop(f, v) = f[WriteQuad(v)]
        BY <3>3 DEF Loop, CanWrite
      <4>. QED BY <4>3, <4>4, <4>6
    <3>. QED BY <3>2, <3>3
  <2>. HIDE DEF g
  <2>3. g = [v \in UpTo(n + 1) |-> Loop(g, v)]
    BY <2>2 DEF g
  <2>4. n + 1 \in Nat
    OBVIOUS
  <2>. QED BY <2>3, <2>4
<1>3. S = Nat
  <2>. HIDE DEF S
  <2>1. S \in SUBSET Nat
    BY DEF S
  <2>. QED BY <1>1, <1>2, <2>1, Induct
<1>4. \E f : f = [v \in UpTo(256) |-> Loop(f, v)]
  BY <1>3
<1>5. UpTo(256) = Unpacking
  <2>1. ASSUME NEW v \in Unpacking PROVE v.num <= 256
    <3>1. v.num \in 0 .. 256
      BY UnpackingIs, ZenonT(60)
    <3>. QED BY <3>1
  <2>. QED BY <2>1 DEF UpTo
<1>. QED BY <1>4, <1>5

LEMMA HandleUnpackIs ==
  ASSUME NEW v \in Unpacking
  PROVE  HandleUnpack[v] = Loop(HandleUnpack, v)
PROOF
<1>. DEFINE h == CHOOSE f : f = [u \in Unpacking |-> Loop(f, u)]
<1>1. HandleUnpack = h
  BY DEF HandleUnpack, Loop
<1>2. h = [u \in Unpacking |-> Loop(h, u)]
  BY LoopExists
<1>. HIDE DEF h
<1>. QED BY <1>1, <1>2

(* Where the loop is: it has written some of the quadwords, and what they  *)
(* have read and is left of the words is what has come.                    *)
Format(v) == Commands[v.command]

BitsSeen(v) == v.bits + QuadBits(Format(v)) * ReadsOf(Format(v), Format(v).num - v.num)

Counting(v) ==
  /\ v \in Unpacking /\ v.num <= Format(v).num
  /\ v.blocks = (Format(v).num - v.num) % Format(v).wl

RestIsSame(u, v) ==
  /\ u.fifo = v.fifo /\ u.internal = v.internal /\ u.len = v.len /\ u.code = v.code
  /\ u.waits = v.waits /\ u.ibit = v.ibit /\ u.stop = v.stop /\ u.broken = v.broken
  /\ u.stalled = v.stalled /\ u.interrupt = v.interrupt

LoopDone(v, u) ==
  /\ u.command = NoCommand /\ u.transfer = FALSE
  /\ u.bits + QuadBits(Format(v)) * Reads(Format(v)) = BitsSeen(v)

LoopStuck(v, u) ==
  /\ u.command = v.command /\ u.transfer = v.transfer /\ Counting(u)
  /\ BitsSeen(u) = BitsSeen(v) /\ u.num # 0 /\ ~(Filling(u) \/ Readable(u))

Looped(v, u) ==
  /\ u \in VifState /\ RestIsSame(u, v) /\ u.bits <= v.bits
  /\ LoopDone(v, u) \/ LoopStuck(v, u)

LEMMA OneLess ==
  ASSUME NEW a \in 0 .. 256, NEW b \in 1 .. 256, a # 0, a <= b
  PROVE  b - a \in Nat /\ b - (a - 1) = (b - a) + 1 /\ a - 1 <= b /\ a - 1 \in 0 .. 256
PROOF OBVIOUS

LEMMA QuadCounted ==
  ASSUME NEW v, Counting(v), CanWrite(v)
  PROVE  LET u == WriteQuad(v)
         IN Counting(u) /\ BitsSeen(u) = BitsSeen(v) /\ u.bits <= v.bits
PROOF
<1>. DEFINE u == WriteQuad(v)
            c == Format(v)
            k == QuadBits(c)
            n == c.num - v.num
            m == c.num - u.num
<1>1. v \in Unpacking /\ v.num <= c.num /\ v.blocks = n % c.wl
  BY DEF Counting
<1>2. c \in CommandWords /\ v.num \in 0 .. 256 /\ v.bits \in Nat
  BY <1>1, UnpackingIs DEF Format
<1>3. /\ u \in Unpacking /\ u.num = v.num - 1 /\ Format(u) = c
      /\ u.bits = (IF v.blocks < c.cl THEN v.bits - k ELSE v.bits)
      /\ u.blocks = (IF v.blocks + 1 >= c.wl THEN 0 ELSE v.blocks + 1)
  BY <1>1, QuadWritten DEF Format
<1>4. c.num \in 1 .. 256 /\ c.cl \in 0 .. 255 /\ c.wl \in 1 .. 256 /\ k \in Nat
  BY <1>2, Parts, QuadBitsIs
<1>. HIDE DEF u, c, k
<1>13. n = c.num - v.num /\ m = c.num - u.num
  OBVIOUS
<1>. HIDE DEF n, m
<1>5. n \in Nat /\ m = n + 1 /\ v.num # 0 /\ u.num <= c.num
  <2>1. v.num # 0
    BY DEF CanWrite
  <2>2. v.num <= c.num /\ v.num \in 0 .. 256
    BY <1>1, <1>2
  <2>3. u.num = v.num - 1 /\ c.num \in 1 .. 256
    BY <1>3, <1>4
  <2>4. c.num - v.num \in Nat /\ c.num - (v.num - 1) = (c.num - v.num) + 1 /\ v.num - 1 <= c.num
    BY <2>1, <2>2, <2>3, OneLess, ZenonT(60)
  <2>. QED BY <1>13, <2>1, <2>3, <2>4, ZenonT(60)
<1>6. /\ ReadsOf(c, n) \in Nat
      /\ ReadsOf(c, m) = ReadsOf(c, n) + (IF n % c.wl < c.cl THEN 1 ELSE 0)
      /\ m % c.wl = IF (n % c.wl) + 1 >= c.wl THEN 0 ELSE (n % c.wl) + 1
      /\ n % c.wl \in 0 .. c.wl - 1
  BY <1>2, <1>5, ReadsStep
<1>7. u.blocks = m % c.wl
  BY <1>1, <1>3, <1>6
<1>8. Counting(u)
  BY <1>3, <1>5, <1>7, <1>13 DEF Counting
<1>. DEFINE r == ReadsOf(c, n)
            s == ReadsOf(c, m)
<1>9. BitsSeen(v) = v.bits + k * r /\ BitsSeen(u) = u.bits + k * s
  BY <1>3 DEF BitsSeen, n, m, k, c
<1>10. r \in Nat /\ s = r + (IF v.blocks < c.cl THEN 1 ELSE 0)
  BY <1>1, <1>6
<1>. HIDE DEF r, s
<1>11. k * r \in Int /\ k * (r + 1) = k * r + k
  <2>1. r * k \in Int /\ (r + 1) * k = r * k + k
    BY <1>4, <1>10, Distributes
  <2>. QED BY <1>4, <1>10, <2>1
<1>12. BitsSeen(u) = BitsSeen(v) /\ u.bits <= v.bits
  <2>1. CASE v.blocks < c.cl
    BY <1>2, <1>3, <1>4, <1>9, <1>10, <1>11, <2>1
  <2>2. CASE ~(v.blocks < c.cl)
    BY <1>2, <1>3, <1>4, <1>9, <1>10, <1>11, <2>2
  <2>. QED BY <2>1, <2>2
<1>. QED BY <1>8, <1>12 DEF u

LEMMA EndedIs ==
  ASSUME NEW x \in VifState
  PROVE  [x EXCEPT !.command = NoCommand, !.transfer = FALSE] \in VifState
BY DEF VifState

LEMMA LoopGives ==
  ASSUME NEW v, Counting(v)
  PROVE  Looped(v, HandleUnpack[v])
PROOF
<1>. DEFINE S == {n \in Nat : \A x \in Unpacking :
                    Counting(x) /\ x.num <= n => Looped(x, HandleUnpack[x])}
<1>1. ASSUME NEW x \in Unpacking, Counting(x), ~CanWrite(x)
      PROVE  Looped(x, HandleUnpack[x])
  <2>. DEFINE h == HandleUnpack[x]
  <2>1. /\ x \in VifState /\ x.num \in 0 .. 256 /\ x.bits \in Nat /\ x.command \in Names
        /\ Format(x) \in CommandWords
    BY UnpackingIs DEF Format
  <2>2. h = Loop(HandleUnpack, x)
    BY HandleUnpackIs
  <2>3. CASE x.num = 0
    <3>1. h = [x EXCEPT !.command = NoCommand, !.transfer = FALSE]
      BY <2>2, <2>3 DEF Loop
    <3>. HIDE DEF h
    <3>2. h \in VifState
      BY <2>1, <3>1, EndedIs
    <3>3. RestIsSame(h, x) /\ h.bits = x.bits /\ h.command = NoCommand /\ h.transfer = FALSE
      BY <2>1, <3>1 DEF VifState, RestIsSame
    <3>4. Format(x).num - x.num = Format(x).num /\ Reads(Format(x)) = ReadsOf(Format(x), Format(x).num)
      <4>1. Format(x).num \in 1 .. 256
        BY <2>1, Parts
      <4>. QED BY <2>3, <4>1 DEF Reads, ReadsOf
    <3>5. h.bits + QuadBits(Format(x)) * Reads(Format(x)) = BitsSeen(x)
      BY <3>3, <3>4 DEF BitsSeen
    <3>6. h.bits <= x.bits
      BY <2>1, <3>3
    <3>. QED BY <3>2, <3>3, <3>5, <3>6 DEF Looped, LoopDone, h
  <2>4. CASE x.num # 0
    <3>1. h = x /\ ~(Filling(x) \/ Readable(x))
      BY <1>1, <2>2, <2>4 DEF Loop, CanWrite
    <3>2. x.bits <= x.bits
      BY <2>1
    <3>3. RestIsSame(x, x)
      BY DEF RestIsSame
    <3>. HIDE DEF h
    <3>4. Looped(x, x)
      BY <1>1, <2>1, <2>4, <3>1, <3>2, <3>3 DEF Looped, LoopStuck
    <3>. QED BY <3>1, <3>4 DEF h
  <2>. QED BY <2>3, <2>4
<1>2. ASSUME NEW x \in Unpacking, Counting(x), CanWrite(x),
             Looped(WriteQuad(x), HandleUnpack[WriteQuad(x)])
      PROVE  Looped(x, HandleUnpack[x])
  <2>. DEFINE u == WriteQuad(x)
              h == HandleUnpack[x]
  <2>1. h = HandleUnpack[u]
    BY <1>2, HandleUnpackIs DEF Loop, CanWrite
  <2>2. u.bits <= x.bits /\ BitsSeen(u) = BitsSeen(x) /\ u \in Unpacking
    BY <1>2, QuadCounted, QuadWritten
  <2>3. RestIsSame(u, x) /\ u.command = x.command /\ u.transfer = x.transfer
    BY <1>2, QuadWritten DEF RestIsSame
  <2>4. u.bits \in Nat /\ x.bits \in Nat
    BY <2>2, UnpackingIs
  <2>. HIDE DEF u, h
  <2>5. Looped(u, h)
    BY <1>2, <2>1 DEF u
  <2>6. h \in VifState /\ RestIsSame(h, u) /\ h.bits <= u.bits
    BY <2>5 DEF Looped
  <2>7. h.bits \in Nat
    BY <2>6 DEF VifState
  <2>8. h.bits <= x.bits
    BY <2>2, <2>4, <2>6, <2>7
  <2>9. RestIsSame(h, x)
    BY <2>3, <2>6 DEF RestIsSame
  <2>10. LoopDone(u, h) => LoopDone(x, h)
    BY <2>2, <2>3 DEF LoopDone, Format
  <2>11. LoopStuck(u, h) => LoopStuck(x, h)
    BY <2>2, <2>3 DEF LoopStuck
  <2>. QED BY <2>5, <2>6, <2>8, <2>9, <2>10, <2>11 DEF Looped, h
<1>3. 0 \in S
  <2>1. ASSUME NEW x \in Unpacking, Counting(x), x.num <= 0 PROVE Looped(x, HandleUnpack[x])
    <3>1. x.num \in 0 .. 256
      BY UnpackingIs
    <3>2. ~CanWrite(x)
      BY <2>1, <3>1 DEF CanWrite
    <3>. QED BY <1>1, <2>1, <3>2
  <2>. QED BY <2>1
<1>4. ASSUME NEW n \in S PROVE n + 1 \in S
  <2>1. ASSUME NEW x \in Unpacking, Counting(x), x.num <= n + 1
        PROVE  Looped(x, HandleUnpack[x])
    <3>1. CASE CanWrite(x)
      <4>1. WriteQuad(x) \in Unpacking /\ WriteQuad(x).num = x.num - 1 /\ Counting(WriteQuad(x))
        BY <2>1, <3>1, QuadWritten, QuadCounted
      <4>2. x.num \in 0 .. 256 /\ n \in Nat
        BY UnpackingIs
      <4>3. WriteQuad(x).num <= n
        BY <2>1, <4>1, <4>2
      <4>4. Looped(WriteQuad(x), HandleUnpack[WriteQuad(x)])
        BY <4>1, <4>3
      <4>. QED BY <1>2, <2>1, <3>1, <4>4
    <3>2. CASE ~CanWrite(x)
      BY <1>1, <2>1, <3>2
    <3>. QED BY <3>1, <3>2
  <2>2. n + 1 \in Nat
    OBVIOUS
  <2>. QED BY <2>1, <2>2
<1>5. S = Nat
  <2>. HIDE DEF S
  <2>1. S \in SUBSET Nat
    BY DEF S
  <2>. QED BY <1>3, <1>4, <2>1, Induct
<1>6. v \in Unpacking /\ v.num \in Nat
  <2>1. v \in Unpacking
    BY DEF Counting
  <2>2. v.num \in 0 .. 256
    BY <2>1, UnpackingIs
  <2>. QED BY <2>1, <2>2
<1>7. v.num \in S
  BY <1>5, <1>6
<1>8. v.num <= v.num
  BY <1>6
<1>. QED BY <1>6, <1>7, <1>8

(* Only a filling V3-32 may need a word more than init_UNPACK counted.     *)
Mixed(c) == c.vn = 2 /\ c.vl = 0 /\ c.cl < c.wl

Spare(c) == IF Mixed(c) THEN 32 ELSE 0

LEMMA WordsAreEnough ==
  ASSUME NEW c \in CommandWords
  PROVE  /\ UnpackWords(c) \in Nat /\ Reads(c) \in Nat /\ Reads(c) = ReadsOf(c, c.num)
         /\ QuadBits(c) * Reads(c) \in Nat
         /\ QuadBits(c) * Reads(c) <= 32 * UnpackWords(c)
         /\ 32 * UnpackWords(c) < QuadBits(c) * Reads(c) + 32
PROOF
<1>. DEFINE q == QuadBits(c)
            r == Reads(c)
            n == c.num
            w == UnpackWords(c)
            p == q * r
<1>1. q \in Nat
  BY QuadBitsIs, ZenonT(60)
<1>2. n \in Nat
  <2>1. n \in 1 .. 256
    BY Parts
  <2>. QED BY <2>1
<1>3. r = ReadsOf(c, n)
  BY DEF Reads, ReadsOf
<1>4. r \in Nat
  <2>. HIDE DEF r, n
  <2>. QED BY <1>2, <1>3, ReadsStep
<1>5. w = (p + 31) \div 32
  BY DEF UnpackWords
<1>6. p \in Nat
  <2>. HIDE DEF q, r
  <2>. QED BY <1>1, <1>4
<1>. HIDE DEF q, r, w, p
<1>7. w \in Nat /\ p <= 32 * w /\ 32 * w < p + 32
  BY <1>5, <1>6
<1>. QED BY <1>3, <1>4, <1>6, <1>7 DEF p, q, r, w

(* The loop stops for want of data only when they have not all come.       *)
LEMMA LoopEnds ==
  ASSUME NEW v, Counting(v),
         QuadBits(Format(v)) * Reads(Format(v)) + Spare(Format(v)) <= BitsSeen(v)
  PROVE  HandleUnpack[v].command = NoCommand
PROOF
<1>. DEFINE u == HandleUnpack[v]
            c == Format(v)
            k == QuadBits(c)
            n == c.num - u.num
            r == ReadsOf(c, n)
            a == Reads(c)
<1>. HIDE DEF u
<1>1. Looped(v, u)
  BY LoopGives DEF u
<1>2. CASE LoopDone(v, u)
  BY <1>2 DEF LoopDone, u
<1>3. CASE LoopStuck(v, u)
  <2>1. u.command = v.command /\ Counting(u) /\ BitsSeen(u) = BitsSeen(v) /\ u.num # 0
    BY <1>3 DEF LoopStuck
  <2>2. u \in Unpacking /\ u.num <= c.num /\ u.blocks = n % c.wl /\ Format(u) = c
    BY <2>1 DEF Counting, Format
  <2>3. c \in CommandWords /\ u.num \in 0 .. 256 /\ u.bits \in Nat
    BY <2>2, UnpackingIs DEF Format
  <2>4. c.num \in 1 .. 256 /\ c.cl \in 0 .. 255 /\ c.wl \in 1 .. 256
    BY <2>3, Parts
  <2>5. k \in Nat
    BY <2>3, QuadBitsIs, ZenonT(60)
  <2>6. BitsSeen(u) = u.bits + k * r
    BY <2>2 DEF BitsSeen
  <2>7. a = ReadsOf(c, c.num) /\ a \in Nat
    BY <2>3, WordsAreEnough
  <2>. DEFINE w == c.wl
              l == c.cl
              g == c.num
              x == u.num
              y == u.bits
              d == Spare(c)
  <2>8. n = g - x
    OBVIOUS
  <2>9. /\ c = Format(v) /\ k = QuadBits(c) /\ a = Reads(c) /\ r = ReadsOf(c, n)
        /\ w = c.wl /\ l = c.cl /\ g = c.num /\ x = u.num /\ y = u.bits /\ d = Spare(c)
    OBVIOUS
  <2>. HIDE DEF c, k, n, r, a, w, l, g, x, y, d
  <2>21. /\ x \in 0 .. 256 /\ y \in Nat /\ x # 0 /\ x <= g
         /\ g \in 1 .. 256 /\ l \in 0 .. 255 /\ w \in 1 .. 256
    BY <2>1, <2>2, <2>3, <2>4, <2>9
  <2>10. n \in Nat /\ n + 1 <= g /\ n + 1 \in Nat /\ g \in Nat
    BY <2>8, <2>21
  <2>11. n % w < l /\ n % c.wl < c.cl
    <3>1. ~Filling(u)
      BY <1>3 DEF LoopStuck
    <3>2. ~(l < w) \/ ~(n % w >= l)
      BY <2>2, <2>9, <3>1 DEF Filling, Format
    <3>3. n % w \in 0 .. w - 1
      BY <2>3, <2>9, <2>10, ReadsStep
    <3>4. n % w < l
      <4>. DEFINE z == n % w
      <4>. HIDE DEF z
      <4>1. z \in 0 .. w - 1 /\ (~(l < w) \/ ~(z >= l))
        BY <3>2, <3>3 DEF z
      <4>2. z < l
        BY <2>21, <4>1
      <4>. QED BY <4>2 DEF z
    <3>. QED BY <2>9, <3>4, ZenonT(60)
  <2>12. r \in Nat /\ r + 1 <= a
    <3>1. r \in Nat /\ ReadsOf(c, n + 1) = r + (IF n % c.wl < c.cl THEN 1 ELSE 0)
      BY <2>3, <2>9, <2>10, ReadsStep
    <3>2. ReadsOf(c, n + 1) <= a
      BY <2>3, <2>7, <2>9, <2>10, ReadsGrow
    <3>. QED BY <2>11, <3>1, <3>2
  <2>13. Readable(u) <=> y >= k /\ (c.vn = 2 /\ c.vl = 0 /\ x > 1 /\ x < g => y >= 128)
    BY <2>2, <2>9 DEF Readable, Format
  <2>14. k * a + d <= y + k * r
    BY <2>1, <2>6, <2>9
  <2>15. /\ k * a \in Int /\ k * r \in Int /\ k * (r + 1) = k * r + k /\ k * (r + 1) <= k * a
         /\ k * (a - r) = k * a - k * r
    <3>1. r + 1 \in Int /\ a \in Int /\ r \in Int
      BY <2>7, <2>12
    <3>2. a * k \in Int /\ r * k \in Int /\ (r + 1) * k = r * k + k
      BY <2>5, <3>1, Distributes
    <3>3. (r + 1) * k <= a * k
      BY <2>5, <2>12, <3>1, Distributes
    <3>4. (a - r) * k = a * k - r * k
      BY <2>5, <3>1, Distributes
    <3>5. a * k = k * a /\ r * k = k * r /\ (r + 1) * k = k * (r + 1) /\ (a - r) * k = k * (a - r)
      BY <2>5, <3>1
    <3>. QED BY <3>2, <3>3, <3>4, <3>5, ZenonT(60)
  <2>16. d \in Nat
    BY <2>9 DEF Spare
  <2>17. y >= k + d
    BY <2>21, <2>5, <2>14, <2>15, <2>16
  <2>18. y >= k
    BY <2>21, <2>5, <2>16, <2>17
  <2>19. ASSUME c.vn = 2, c.vl = 0, x > 1 PROVE y >= 128
    <3>1. k = 96
      BY <2>3, <2>9, <2>19, QuadBitsIs
    <3>2. CASE l < w
      <4>1. d = 32
        BY <2>9, <2>19, <3>2 DEF Spare, Mixed
      <4>. QED BY <2>21, <2>17, <3>1, <4>1
    <3>3. CASE ~(l < w)
      <4>1. w <= l
        BY <2>21, <3>3
      <4>2. r = n /\ a = g
        BY <2>7, <2>9, <4>1 DEF ReadsOf
      <4>3. a - r = x
        BY <2>21, <2>8, <4>2
      <4>4. k * (a - r) >= 192
        BY <2>21, <2>19, <3>1, <4>3
      <4>. QED BY <2>21, <2>14, <2>15, <2>16, <4>4
    <3>. QED BY <3>2, <3>3
  <2>20. ~Readable(u)
    BY <1>3 DEF LoopStuck
  <2>. QED BY <2>13, <2>18, <2>19, <2>20
<1>. QED BY <1>1, <1>2, <1>3 DEF Looped, u

(* What is left when the loop stops is less than a quadword can need.      *)
LEMMA LeftOver ==
  ASSUME NEW u \in Unpacking, ~Readable(u), NEW x \in Int, BitsSeen(u) = 32 * x,
         u.num <= Format(u).num
  PROVE  u.bits <= 96
PROOF
<1>. DEFINE c == Format(u)
            k == QuadBits(c)
            n == c.num - u.num
            r == ReadsOf(c, n)
            y == u.bits
<1>1. c \in CommandWords /\ u.num \in 0 .. 256 /\ y \in Nat
  BY UnpackingIs DEF Format
<1>2. c.num \in 1 .. 256
  BY <1>1, Parts
<1>3. k \in Nat /\ k \in 1 .. 64 \cup {96, 128} /\ (k = 96 => c.vn = 2 /\ c.vl = 0)
  BY <1>1, QuadBitsIs, ZenonT(60)
<1>4. 32 * x = y + k * r
  BY DEF BitsSeen
<1>5. Readable(u) <=> y >= k /\ (c.vn = 2 /\ c.vl = 0 /\ u.num > 1 /\ u.num < c.num => y >= 128)
  BY DEF Readable, Format
<1>6. r \in Nat
  <2>1. n \in Nat
    <3>. DEFINE a == c.num
                b == u.num
    <3>1. a \in 1 .. 256 /\ b \in 0 .. 256 /\ b <= a
      BY <1>1, <1>2
    <3>. HIDE DEF a, b
    <3>2. a - b \in Nat
      BY <3>1
    <3>. QED BY <3>2 DEF a, b
  <2>. HIDE DEF c, n
  <2>. QED BY <1>1, <2>1, ReadsStep
<1>7. c.vn = 2 /\ c.vl = 0 => k = 96
  BY <1>1, QuadBitsIs, ZenonT(60)
<1>14. y = u.bits
  OBVIOUS
<1>. HIDE DEF c, k, n, r, y
<1>13. y \in Nat
  BY <1>1
<1>8. y < k \/ (y < 128 /\ k = 96)
  <2>1. ~(y >= k) \/ (k = 96 /\ ~(y >= 128))
    BY <1>5, <1>7
  <2>. QED BY <1>3, <1>13, <2>1
<1>9. ASSUME k = 96 PROVE y <= 96
  BY <1>13, <1>4, <1>6, <1>8, <1>9
<1>10. ASSUME k = 128 PROVE y <= 96
  BY <1>13, <1>4, <1>6, <1>8, <1>10
<1>11. ASSUME k \in 1 .. 64 PROVE y <= 96
  BY <1>13, <1>8, <1>11
<1>12. y <= 96
  BY <1>3, <1>9, <1>10, <1>11
<1>. QED BY <1>12, <1>14

-----------------------------------------------------------------------------
(* UNPACK between two turns: what has been read is what has come.          *)
UnpackKept(v) ==
  Op(v.command) = "unpack" =>
    /\ v.num \in 1 .. Format(v).num
    /\ v.blocks = (Format(v).num - v.num) % Format(v).wl
    /\ \/ BitsSeen(v) = 32 * (UnpackWords(Format(v)) - v.len)
       \/ v.len = 0 /\ Mixed(Format(v)) /\ BitsSeen(v) = 32 * UnpackWords(Format(v)) + 32

Unpacked(v, w) ==
  /\ w \in VifState /\ RestIsSame(w, v) /\ w.bits <= v.bits
  /\ \/ w.command = NoCommand /\ w.transfer = FALSE /\ w.len = 0
     \/ /\ w.command = v.command /\ w.transfer = TRUE /\ UnpackKept(w) /\ w.bits <= 96
        /\ w.len = 0 => /\ Mixed(Format(w))
                        /\ BitsSeen(w) = 32 * UnpackWords(Format(w))

LEMMA UnpackGives ==
  ASSUME NEW v \in VifState, Op(v.command) = "unpack", UnpackKept(v)
  PROVE  Unpacked(v, Unpack(v))
PROOF
<1>. DEFINE t == [v EXCEPT !.transfer = TRUE]
            w == HandleUnpack[t]
            c == Format(v)
            p == QuadBits(c) * Reads(c)
            a == UnpackWords(c)
            b == BitsSeen(v)
            l == v.len
<1>1. Unpack(v) = w
  BY DEF Unpack
<1>2. /\ t \in VifState /\ t.command = v.command /\ t.num = v.num /\ t.bits = v.bits
      /\ t.blocks = v.blocks /\ t.transfer = TRUE /\ RestIsSame(t, v)
  BY DEF VifState, RestIsSame
<1>. HIDE DEF t, w
<1>3. t \in Unpacking
  BY <1>2 DEF Unpacking
<1>4. Format(t) = c /\ BitsSeen(t) = b
  BY <1>2 DEF Format, BitsSeen
<1>5. c \in CommandWords /\ v.bits \in Nat /\ v.num \in 0 .. 256 /\ l \in Nat
  <2>1. v \in Unpacking
    BY DEF Unpacking
  <2>2. v.len \in Nat
    BY DEF VifState
  <2>. QED BY <2>1, <2>2, UnpackingIs DEF Format
<1>6. c.num \in 1 .. 256
  BY <1>5, Parts
<1>7. v.num \in 1 .. c.num /\ v.blocks = (c.num - v.num) % c.wl
  BY DEF UnpackKept
<1>8. v.num <= c.num
  <2>. DEFINE x == v.num
              g == c.num
  <2>1. x \in 1 .. g /\ g \in 1 .. 256
    BY <1>6, <1>7
  <2>. HIDE DEF x, g
  <2>2. x <= g
    BY <2>1
  <2>. QED BY <2>2 DEF x, g
<1>9. Counting(t)
  BY <1>2, <1>3, <1>4, <1>7, <1>8 DEF Counting
<1>10. Looped(t, w)
  BY <1>9, LoopGives DEF w
<1>11. p \in Nat /\ a \in Nat /\ p <= 32 * a /\ 32 * a < p + 32
  BY <1>5, WordsAreEnough
<1>12. b = 32 * (a - l) \/ (l = 0 /\ Mixed(c) /\ b = 32 * a + 32)
  BY DEF UnpackKept
<1>13. w \in VifState /\ RestIsSame(w, v) /\ w.bits <= v.bits /\ w.len = l
  BY <1>2, <1>10 DEF Looped, RestIsSame
<1>14. CASE LoopDone(t, w)
  <2>1. w.command = NoCommand /\ w.transfer = FALSE /\ w.bits + p = b
    BY <1>4, <1>14 DEF LoopDone
  <2>2. w.bits \in Nat
    BY <1>13 DEF VifState
  <2>. DEFINE y == w.bits
  <2>. HIDE DEF y, p, a, b, l
  <2>3. y \in Nat /\ y + p = b
    BY <2>1, <2>2 DEF y
  <2>4. l = 0
    BY <2>3, <1>5, <1>11, <1>12
  <2>5. Unpacked(v, w)
    BY <1>13, <2>1, <2>4 DEF Unpacked
  <2>. QED BY <1>1, <2>5
<1>15. CASE LoopStuck(t, w)
  <2>1. /\ w.command = v.command /\ w.transfer = TRUE /\ Counting(w)
        /\ BitsSeen(w) = b /\ w.num # 0 /\ ~Readable(w)
    BY <1>2, <1>4, <1>15 DEF LoopStuck
  <2>2. Format(w) = c
    BY <2>1 DEF Format
  <2>3. w \in Unpacking /\ w.num <= c.num /\ w.blocks = (c.num - w.num) % c.wl
    BY <2>1, <2>2 DEF Counting
  <2>4. w.num \in 0 .. 256
    BY <2>3, UnpackingIs
  <2>5. w.num \in 1 .. c.num
    <3>. DEFINE x == w.num
                g == c.num
    <3>1. x \in 0 .. 256 /\ x # 0 /\ x <= g /\ g \in 1 .. 256
      BY <1>6, <2>1, <2>3, <2>4
    <3>. HIDE DEF x, g
    <3>2. x \in 1 .. g
      BY <3>1
    <3>. QED BY <3>2 DEF x, g
  <2>6. UnpackKept(w)
    BY <1>12, <1>13, <2>1, <2>2, <2>3, <2>5 DEF UnpackKept
  <2>7. \E x \in Int : b = 32 * x
    <3>. HIDE DEF b, l, a
    <3>1. a - l \in Int /\ a + 1 \in Int /\ 32 * a + 32 = 32 * (a + 1)
      BY <1>5, <1>11
    <3>. QED BY <1>12, <3>1
  <2>8. w.bits <= 96
    <3>1. PICK x \in Int : b = 32 * x
      BY <2>7
    <3>2. BitsSeen(w) = 32 * x /\ w.num <= Format(w).num
      BY <2>1, <2>2, <2>3, <3>1
    <3>. QED BY <2>1, <2>3, <3>2, LeftOver
  <2>9. ASSUME l = 0 PROVE Mixed(c) /\ b = 32 * a
    <3>1. ~(p + Spare(c) <= b)
      <4>1. ASSUME p + Spare(c) <= b PROVE FALSE
        <5>1. w.command = NoCommand
          BY <1>4, <1>9, <4>1, LoopEnds DEF w
        <5>2. w.command # NoCommand
          BY <2>3, UnpackingIs, CommandIs
        <5>. QED BY <5>1, <5>2
      <4>. QED BY <4>1
    <3>2. Mixed(c)
      <4>1. ASSUME ~Mixed(c) PROVE FALSE
        <5>1. Spare(c) = 0
          BY <4>1 DEF Spare
        <5>. HIDE DEF p, a, b, l, c
        <5>2. b = 32 * a
          BY <1>5, <1>11, <1>12, <2>9, <4>1
        <5>. QED BY <1>11, <3>1, <5>1, <5>2
      <4>. QED BY <4>1
    <3>3. Spare(c) = 32
      BY <3>2 DEF Spare
    <3>. HIDE DEF p, a, b, l, c
    <3>. QED BY <1>5, <1>11, <1>12, <2>9, <3>1, <3>2, <3>3
  <2>10. w.len = 0 => Mixed(Format(w)) /\ BitsSeen(w) = 32 * UnpackWords(Format(w))
    BY <1>13, <2>1, <2>2, <2>9
  <2>11. Unpacked(v, w)
    BY <1>13, <2>1, <2>6, <2>8, <2>10 DEF Unpacked
  <2>. QED BY <1>1, <2>11
<1>. QED BY <1>1, <1>10, <1>14, <1>15 DEF Looped

-----------------------------------------------------------------------------
(* The words that are on their way                                         *)
VifWords == [of : Names, place : Nat]

Stream == (vif.internal \o vif.fifo) \o coming

(* Every command is whole, and starts after another's last word.           *)
WholeAt(s, i) ==
  /\ s[i].place <= Count[s[i].of]
  /\ IF s[i].place = Count[s[i].of] THEN i < Len(s) => s[i + 1].place = 0
     ELSE i < Len(s) /\ s[i + 1] = Word(s[i].of, s[i].place + 1)

Whole(s) == \A i \in 1 .. Len(s) : WholeAt(s, i)

LEMMA JoinedIs ==
  ASSUME NEW S, NEW a \in Seq(S), NEW b \in Seq(S)
  PROVE  /\ a \o b \in Seq(S) /\ Len(a \o b) = Len(a) + Len(b) /\ Len(a) \in Nat /\ Len(b) \in Nat
         /\ \A i \in 1 .. Len(a) : (a \o b)[i] = a[i]
         /\ \A j \in 1 .. Len(b) : (a \o b)[Len(a) + j] = b[j]
PROOF
<1>1. a \o b \in Seq(S) /\ Len(a \o b) = Len(a) + Len(b)
        /\ \A i \in 1 .. Len(a) + Len(b) : (a \o b)[i] = IF i <= Len(a) THEN a[i] ELSE b[i - Len(a)]
  BY ConcatProperties
<1>2. Len(a) \in Nat /\ Len(b) \in Nat
  BY LenProperties
<1>3. ASSUME NEW i \in 1 .. Len(a) PROVE (a \o b)[i] = a[i]
  <2>1. i \in 1 .. Len(a) + Len(b) /\ i <= Len(a)
    BY <1>2
  <2>. QED BY <1>1, <2>1
<1>4. ASSUME NEW j \in 1 .. Len(b) PROVE (a \o b)[Len(a) + j] = b[j]
  <2>1. Len(a) + j \in 1 .. Len(a) + Len(b) /\ ~(Len(a) + j <= Len(a)) /\ (Len(a) + j) - Len(a) = j
    BY <1>2
  <2>. QED BY <1>1, <2>1
<1>. QED BY <1>1, <1>2, <1>3, <1>4

LEMMA TailJoined ==
  ASSUME NEW S, NEW a \in Seq(S), NEW b \in Seq(S), a # <<>>
  PROVE  /\ Tail(a) \in Seq(S) /\ a[1] \in S /\ Head(a) = a[1] /\ (a \o b)[1] = a[1]
         /\ a \o b # <<>> /\ a \o b \in Seq(S) /\ Tail(a \o b) = Tail(a) \o b
PROOF
<1>. DEFINE l == Len(a)
            m == Len(b)
            t == Tail(a \o b)
            u == Tail(a) \o b
<1>1. l \in Nat /\ l # 0 /\ m \in Nat
  BY EmptySeq, LenProperties
<1>2. Tail(a) \in Seq(S) /\ Len(Tail(a)) = l - 1 /\ \A i \in 1 .. l - 1 : Tail(a)[i] = a[i + 1]
  BY HeadTailProperties
<1>3. a \o b \in Seq(S) /\ Len(a \o b) = l + m
  BY JoinedIs
<1>4. a \o b # <<>>
  <2>1. Len(a \o b) # 0
    BY <1>1, <1>3
  <2>. QED BY <2>1, EmptySeq
<1>5. t \in Seq(S) /\ Len(t) = (l + m) - 1 /\ \A i \in 1 .. (l + m) - 1 : t[i] = (a \o b)[i + 1]
  BY <1>3, <1>4, HeadTailProperties
<1>6. u \in Seq(S) /\ Len(u) = (l - 1) + m
  BY <1>2, JoinedIs
<1>7. (a \o b)[1] = a[1] /\ a[1] \in S
  <2>1. 1 \in 1 .. l
    BY <1>1
  <2>2. a[1] \in S
    BY <2>1, ElementOfSeq
  <2>. QED BY <2>1, <2>2, JoinedIs
<1>8. Head(a) = a[1]
  OBVIOUS
<1>9. ASSUME NEW i \in 1 .. Len(t) PROVE t[i] = u[i]
  <2>1. i \in 1 .. (l + m) - 1
    BY <1>5
  <2>2. t[i] = (a \o b)[i + 1]
    BY <1>5, <2>1
  <2>3. CASE i <= l - 1
    <3>1. i + 1 \in 1 .. l /\ i \in 1 .. l - 1
      BY <1>1, <2>1, <2>3
    <3>2. (a \o b)[i + 1] = a[i + 1] /\ Tail(a)[i] = a[i + 1]
      BY <1>2, <3>1, JoinedIs
    <3>3. i \in 1 .. Len(Tail(a))
      BY <1>2, <3>1
    <3>4. u[i] = Tail(a)[i]
      BY <1>2, <3>3, JoinedIs
    <3>. QED BY <2>2, <3>2, <3>4
  <2>4. CASE ~(i <= l - 1)
    <3>. DEFINE j == i - (l - 1)
    <3>1. j \in 1 .. m /\ l + j = i + 1 /\ (l - 1) + j = i
      BY <1>1, <2>1, <2>4
    <3>. HIDE DEF j
    <3>2. (a \o b)[l + j] = b[j]
      BY <3>1, JoinedIs
    <3>3. u[Len(Tail(a)) + j] = b[j]
      BY <1>2, <3>1, JoinedIs
    <3>. QED BY <1>2, <2>2, <3>1, <3>2, <3>3
  <2>. QED BY <2>3, <2>4
<1>10. Len(t) = Len(u)
  BY <1>1, <1>5, <1>6
<1>11. t = u
  <2>. HIDE DEF t, u
  <2>. QED BY <1>5, <1>6, <1>9, <1>10, SeqEqual
<1>. QED BY <1>2, <1>3, <1>4, <1>7, <1>8, <1>11

LEMMA Regrouped ==
  ASSUME NEW S, NEW a \in Seq(S), NEW b \in Seq(S), NEW c \in Seq(S)
  PROVE  (a \o b) \o c = a \o (b \o c)
BY ConcatAssociative

LEMMA SplitJoined ==
  ASSUME NEW S, NEW a \in Seq(S), NEW n \in 0 .. Len(a)
  PROVE  /\ SubSeq(a, 1, n) \in Seq(S) /\ SubSeq(a, n + 1, Len(a)) \in Seq(S)
         /\ SubSeq(a, 1, n) \o SubSeq(a, n + 1, Len(a)) = a
         /\ Len(SubSeq(a, 1, n)) = n
PROOF
<1>. DEFINE l == Len(a)
<1>1. l \in Nat /\ n \in Int /\ n + 1 \in Int
  BY LenProperties
<1>2. \A i \in 1 .. l : a[i] \in S
  BY ElementOfSeq
<1>. HIDE DEF l
<1>3. (\A i \in 1 .. n : a[i] \in S) /\ (\A i \in n + 1 .. l : a[i] \in S) /\ n <= l
  BY <1>1, <1>2 DEF l
<1>4. SubSeq(a, 1, n) \in Seq(S) /\ Len(SubSeq(a, 1, n)) = IF 1 <= n THEN n - 1 + 1 ELSE 0
  BY <1>1, <1>3, SubSeqProperties
<1>5. SubSeq(a, n + 1, l) \in Seq(S)
  BY <1>1, <1>3, SubSeqProperties
<1>6. 1 \in 1 .. l + 1 /\ n \in 1 - 1 .. l /\ l \in n .. l
  BY <1>1, <1>3 DEF l
<1>7. SubSeq(a, 1, n) \o SubSeq(a, n + 1, l) = SubSeq(a, 1, l)
  BY <1>6, ConcatAdjacentSubSeq DEF l
<1>8. SubSeq(a, 1, l) = a
  BY SubSeqFull DEF l
<1>9. Len(SubSeq(a, 1, n)) = n
  BY <1>1, <1>4
<1>. QED BY <1>4, <1>5, <1>7, <1>8, <1>9, ZenonT(60) DEF l

LEMMA WholeTail ==
  ASSUME NEW s \in Seq(VifWords), s # <<>>, Whole(s)
  PROVE  Whole(Tail(s))
PROOF
<1>. DEFINE t == Tail(s)
            l == Len(s)
<1>1. l \in Nat /\ l # 0
  BY EmptySeq, LenProperties
<1>2. t \in Seq(VifWords) /\ Len(t) = l - 1 /\ \A i \in 1 .. l - 1 : t[i] = s[i + 1]
  BY HeadTailProperties
<1>. HIDE DEF t
<1>3. ASSUME NEW i \in 1 .. l - 1 PROVE WholeAt(t, i)
  <2>1. i + 1 \in 1 .. l /\ t[i] = s[i + 1]
    BY <1>1, <1>2
  <2>2. i < l - 1 => t[i + 1] = s[(i + 1) + 1]
    BY <1>1, <1>2
  <2>3. WholeAt(s, i + 1)
    BY <2>1 DEF Whole
  <2>4. i < l - 1 <=> i + 1 < l
    BY <1>1
  <2>. QED BY <1>2, <2>1, <2>2, <2>3, <2>4 DEF WholeAt
<1>4. Whole(t)
  BY <1>2, <1>3 DEF Whole
<1>. QED BY <1>4 DEF t

(* What the program prepares is a whole command.                           *)
Prepared(c) == [k \in 1 .. 1 + Count[c] |-> Word(c, k - 1)]

LEMMA PreparedIs ==
  ASSUME NEW c \in Names
  PROVE  /\ Prepared(c) \in Seq(VifWords) /\ Len(Prepared(c)) = 1 + Count[c]
         /\ \A k \in 1 .. 1 + Count[c] : Prepared(c)[k] = Word(c, k - 1)
         /\ Whole(Prepared(c))
PROOF
<1>. DEFINE n == Count[c]
            e == Prepared(c)
<1>1. n \in Nat
  BY CommandIs
<1>2. ASSUME NEW k \in 1 .. 1 + n
      PROVE  Word(c, k - 1) \in VifWords /\ Word(c, k - 1).of = c /\ Word(c, k - 1).place = k - 1
  <2>1. k - 1 \in Nat
    BY <1>1
  <2>. QED BY <2>1 DEF Word, VifWords
<1>3. \A k \in 1 .. 1 + n : e[k] = Word(c, k - 1)
  BY DEF Prepared
<1>4. e \in Seq(VifWords) /\ Len(e) = 1 + n
  <2>1. 1 + n \in Nat
    BY <1>1
  <2>2. e = [k \in 1 .. 1 + n |-> Word(c, k - 1)]
    BY DEF Prepared
  <2>3. e \in [1 .. 1 + n -> VifWords]
    BY <1>2, <2>2
  <2>. HIDE DEF e, n
  <2>. QED BY <2>1, <2>3
<1>. HIDE DEF e
<1>5. ASSUME NEW k \in 1 .. 1 + n PROVE WholeAt(e, k)
  <2>1. e[k].of = c /\ e[k].place = k - 1
    BY <1>2, <1>3
  <2>2. k - 1 <= n /\ (k - 1 = n => ~(k < 1 + n)) /\ (k - 1 # n => k < 1 + n /\ k + 1 \in 1 .. 1 + n)
    BY <1>1
  <2>3. k - 1 # n => e[k + 1] = Word(c, (k - 1) + 1)
    <3>1. (k + 1) - 1 = (k - 1) + 1
      BY <1>1
    <3>. QED BY <1>3, <2>2, <3>1
  <2>. HIDE DEF n
  <2>. QED BY <1>4, <2>1, <2>2, <2>3 DEF WholeAt, n
<1>6. Whole(e)
  BY <1>4, <1>5 DEF Whole
<1>. QED BY <1>3, <1>4, <1>6 DEF e

LEMMA WholeMore ==
  ASSUME NEW s \in Seq(VifWords), Whole(s), NEW e \in Seq(VifWords), Whole(e),
         e # <<>>, e[1].place = 0
  PROVE  Whole(s \o e)
PROOF
<1>. DEFINE t == s \o e
            l == Len(s)
            m == Len(e)
<1>1. t \in Seq(VifWords) /\ Len(t) = l + m /\ l \in Nat /\ m \in Nat
  BY JoinedIs
<1>2. m # 0
  BY EmptySeq
<1>3. (\A i \in 1 .. l : t[i] = s[i]) /\ (\A j \in 1 .. m : t[l + j] = e[j])
  BY JoinedIs
<1>. HIDE DEF t, l, m
<1>4. ASSUME NEW i \in 1 .. l PROVE WholeAt(t, i)
  <2>1. WholeAt(s, i) /\ t[i] = s[i]
    BY <1>3 DEF Whole, l
  <2>2. i < l + m
    BY <1>1, <1>2
  <2>3. CASE i < l
    <3>1. t[i + 1] = s[i + 1]
      BY <1>1, <1>3, <2>3
    <3>. QED BY <1>1, <2>1, <2>2, <2>3, <3>1 DEF WholeAt, l
  <2>4. CASE ~(i < l)
    <3>1. t[l + 1] = e[1] /\ i = l
      <4>1. 1 \in 1 .. m /\ i = l
        BY <1>1, <1>2, <2>4
      <4>. QED BY <1>3, <4>1
    <3>2. s[i].place <= Count[s[i].of] /\ s[i].place = Count[s[i].of]
      BY <2>1, <2>4 DEF WholeAt, l
    <3>. QED BY <1>1, <2>1, <2>2, <3>1, <3>2 DEF WholeAt
  <2>. QED BY <2>3, <2>4
<1>5. ASSUME NEW j \in 1 .. m PROVE WholeAt(t, l + j)
  <2>1. WholeAt(e, j) /\ t[l + j] = e[j]
    BY <1>3 DEF Whole, m
  <2>2. l + j < l + m <=> j < m
    BY <1>1
  <2>3. j < m => t[(l + j) + 1] = e[j + 1]
    <3>1. j < m => j + 1 \in 1 .. m /\ (l + j) + 1 = l + (j + 1)
      BY <1>1
    <3>. QED BY <1>3, <3>1
  <2>. QED BY <1>1, <2>1, <2>2, <2>3 DEF WholeAt, m
<1>6. ASSUME NEW i \in 1 .. Len(t) PROVE WholeAt(t, i)
  <2>1. CASE i <= l
    BY <1>1, <1>4, <2>1
  <2>2. CASE ~(i <= l)
    <3>1. i - l \in 1 .. m /\ l + (i - l) = i
      BY <1>1, <2>2
    <3>2. WholeAt(t, l + (i - l))
      BY <1>5, <3>1
    <3>. QED BY <3>1, <3>2
  <2>. QED BY <2>1, <2>2
<1>7. Whole(t)
  BY <1>6 DEF Whole
<1>. QED BY <1>7 DEF t

-----------------------------------------------------------------------------
(* The inductive invariant                                                 *)
Words(v, c) == (v.internal \o v.fifo) \o c

(* The first of the words s is the one that the interface expects.         *)
At(v, s) ==
  IF v.len = 0 THEN s # <<>> => s[1].place = 0
  ELSE /\ v.command # NoCommand /\ s # <<>>
       /\ s[1] = Word(v.command, Count[v.command] - v.len + 1)

CodeKept(v) == v.command \in {NoCommand, v.code} /\ v.waits \in {{}, WaitsOf(Op(v.code))}

Path2Kept(v, path, within) ==
  /\ Op(v.command) = "direct" => v.len # 0
  /\ path # "idle" => Op(v.command) = "direct"
  /\ path = "queued" => v.transfer = TRUE /\ v.internal # <<>>
  /\ path = "active" /\ within = FALSE => v.transfer = TRUE
  /\ within = TRUE => path = "active"

Kept(v, path, within, c) ==
  /\ v \in VifState /\ c \in Seq(VifWords)
  /\ Whole(Words(v, c)) /\ At(v, Words(v, c))
  /\ CodeKept(v) /\ Path2Kept(v, path, within) /\ UnpackKept(v) /\ v.bits <= 128
  /\ Len(v.internal) <= InternalSize

VifInvariant ==
  /\ VifTypeOK /\ Kept(vif, path2, packet, coming)
  /\ program \in Seq(Names) /\ program # <<>>

LEMMA FieldsOf ==
  ASSUME NEW v \in VifState
  PROVE  /\ v.fifo \in Seq(VifWords) /\ v.internal \in Seq(VifWords)
         /\ v.command \in Names \cup {NoCommand} /\ v.code \in Names \cup {NoCommand}
         /\ v.len \in Nat /\ v.waits \in SUBSET {"vu", "paths", "path3"}
         /\ v.bits \in Nat /\ v.num \in 0 .. 256 /\ v.blocks \in Nat
         /\ v.ibit \in BOOLEAN /\ v.stop \in BOOLEAN /\ v.broken \in BOOLEAN
         /\ v.stalled \in SUBSET {"ibit", "mskpath3", "stop", "direct", "forcebreak"}
         /\ v.interrupt \in BOOLEAN /\ v.transfer \in BOOLEAN
BY DEF VifState, VifWords

LEMMA NoneIsNone == Op(NoCommand) = "none"
BY DEF Op

LEMMA WaitsAre ==
  ASSUME NEW op
  PROVE  /\ WaitsOf(op) \in SUBSET {"vu", "paths", "path3"}
         /\ op \in {"direct", "unpack", "data", "none"} => WaitsOf(op) = {}
PROOF
<1>1. CASE op \in {"flushe", "mscal", "mpg"}
  BY <1>1 DEF WaitsOf
<1>2. CASE op \in {"flush", "mscalf"}
  BY <1>2 DEF WaitsOf
<1>3. CASE op = "flusha"
  BY <1>3 DEF WaitsOf
<1>4. CASE ~(op \in {"flushe", "mscal", "mpg"} \/ op \in {"flush", "mscalf"} \/ op = "flusha")
  BY <1>4 DEF WaitsOf
<1>. QED BY <1>1, <1>2, <1>3, <1>4

LEMMA WordsAre ==
  ASSUME NEW v \in VifState, NEW c \in Seq(VifWords)
  PROVE  Words(v, c) \in Seq(VifWords) /\ v.internal \o v.fifo \in Seq(VifWords)
PROOF
<1>1. v.internal \o v.fifo \in Seq(VifWords)
  BY FieldsOf, ConcatProperties
<1>2. (v.internal \o v.fifo) \o c \in Seq(VifWords)
  BY <1>1, ConcatProperties
<1>. QED BY <1>1, <1>2 DEF Words

LEMMA KeptSame ==
  ASSUME NEW v, NEW w \in VifState, NEW path, NEW within, NEW c, Kept(v, path, within, c),
         Words(w, c) = Words(v, c), w.command = v.command, w.len = v.len, w.code = v.code,
         w.waits \in {v.waits, {}}, w.bits = v.bits, w.num = v.num, w.blocks = v.blocks,
         w.transfer = v.transfer, v.internal # <<>> => w.internal # <<>>,
         Len(w.internal) <= InternalSize
  PROVE  Kept(w, path, within, c)
PROOF
<1>1. At(w, Words(w, c)) /\ Whole(Words(w, c)) /\ c \in Seq(VifWords)
  BY DEF Kept, At
<1>2. CodeKept(w)
  BY DEF Kept, CodeKept
<1>3. Path2Kept(w, path, within)
  BY DEF Kept, Path2Kept
<1>4. UnpackKept(w)
  BY DEF Kept, UnpackKept, Format, BitsSeen
<1>5. w.bits <= 128
  BY DEF Kept
<1>. QED BY <1>1, <1>2, <1>3, <1>4, <1>5 DEF Kept

LEMMA FillKeeps ==
  ASSUME NEW v, NEW path, NEW within, NEW c, Kept(v, path, within, c)
  PROVE  /\ Kept(FillInternal(v), path, within, c) /\ FillInternal(v).stalled = v.stalled
         /\ FillInternal(v).waits = v.waits /\ FillInternal(v).code = v.code
PROOF
<1>. DEFINE i == v.internal
            f == v.fifo
            n == IF Len(f) < InternalSize - Len(i) THEN Len(f) ELSE InternalSize - Len(i)
            a == SubSeq(f, 1, n)
            b == SubSeq(f, n + 1, Len(f))
            w == [v EXCEPT !.internal = i \o a, !.fifo = b]
<1>1. v \in VifState /\ c \in Seq(VifWords)
  BY DEF Kept
<1>2. i \in Seq(VifWords) /\ f \in Seq(VifWords)
  BY <1>1, FieldsOf
<1>3. FillInternal(v) = [v EXCEPT !.internal = i \o a, !.fifo = b]
  BY <1>1 DEF FillInternal, VifState
<1>4. n \in 0 .. Len(f) /\ Len(i) + n <= InternalSize
  <2>. DEFINE l == Len(f)
              m == Len(i)
  <2>1. l \in Nat /\ m \in Nat /\ m <= InternalSize /\ InternalSize \in Nat
    BY <1>2, LenProperties, VifAssumption DEF Kept
  <2>. HIDE DEF l, m
  <2>2. LET x == IF l < InternalSize - m THEN l ELSE InternalSize - m
        IN x \in 0 .. l /\ m + x <= InternalSize
    BY <2>1
  <2>. QED BY <2>2 DEF l, m
<1>. HIDE DEF n
<1>5. a \in Seq(VifWords) /\ b \in Seq(VifWords) /\ a \o b = f /\ Len(a) = n
  BY <1>2, <1>4, SplitJoined
<1>. HIDE DEF a, b, i, f
<1>6. i \o a \in Seq(VifWords) /\ Len(i \o a) = Len(i) + Len(a) /\ Len(i) \in Nat
  BY <1>2, <1>5, JoinedIs
<1>7. w \in VifState
  BY <1>1, <1>5, <1>6 DEF VifState, VifWords
<1>8. /\ w.internal = i \o a /\ w.fifo = b /\ w.command = v.command /\ w.len = v.len
      /\ w.code = v.code /\ w.waits = v.waits /\ w.bits = v.bits /\ w.num = v.num
      /\ w.blocks = v.blocks /\ w.transfer = v.transfer /\ w.stalled = v.stalled
  BY <1>1 DEF VifState
<1>. HIDE DEF w
<1>9. (i \o a) \o b = i \o f
  <2>1. (i \o a) \o b = i \o (a \o b)
    <3>1. i \in Seq(VifWords) /\ a \in Seq(VifWords) /\ b \in Seq(VifWords)
      BY <1>2, <1>5
    <3>. QED BY <3>1, Regrouped
  <2>. QED BY <1>5, <2>1
<1>10. Words(w, c) = Words(v, c)
  BY <1>8, <1>9 DEF Words, i, f
<1>11. v.internal # <<>> => w.internal # <<>>
  <2>1. i # <<>> => i \o a # <<>>
    BY <1>2, <1>5, TailJoined
  <2>. QED BY <1>8, <2>1 DEF i
<1>12. Len(w.internal) <= InternalSize
  BY <1>4, <1>5, <1>6, <1>8
<1>13. w.waits \in {v.waits, {}}
  BY <1>8
<1>14. Kept(w, path, within, c)
  BY <1>7, <1>8, <1>10, <1>11, <1>12, <1>13, KeptSame
<1>15. w = FillInternal(v)
  BY <1>3 DEF w
<1>. QED BY <1>8, <1>14, <1>15

(* A wait that ends, and the command with it if it has no data.            *)
LEMMA EndWaitKeeps ==
  ASSUME NEW v, NEW path, NEW within, NEW c, Kept(v, path, within, c)
  PROVE  /\ Kept(EndWait(v), path, within, c) /\ EndWait(v).stalled = v.stalled
         /\ EndWait(v).waits = {}
PROOF
<1>. DEFINE d == IF v.len = 0 THEN NoCommand ELSE v.code
            w == [v EXCEPT !.waits = {}, !.command = d]
<1>1. v \in VifState /\ c \in Seq(VifWords)
  BY DEF Kept
<1>2. /\ v.command \in {NoCommand, v.code} /\ v.waits \in {{}, WaitsOf(Op(v.code))}
      /\ v.code \in Names \cup {NoCommand} /\ v.command \in Names \cup {NoCommand}
      /\ Len(v.internal) <= InternalSize
  BY <1>1, FieldsOf DEF Kept, CodeKept
<1>3. CASE v.waits = {}
  BY <1>3 DEF EndWait
<1>4. CASE v.waits # {}
  <2>1. EndWait(v) = w
    BY <1>1, <1>4 DEF EndWait, VifState
  <2>2. w \in VifState
    BY <1>1, <1>2 DEF VifState
  <2>3. /\ w.internal = v.internal /\ w.fifo = v.fifo /\ w.command = d /\ w.len = v.len
        /\ w.code = v.code /\ w.waits = {} /\ w.bits = v.bits /\ w.num = v.num
        /\ w.blocks = v.blocks /\ w.transfer = v.transfer /\ w.stalled = v.stalled
    BY <1>1 DEF VifState
  <2>. HIDE DEF w
  <2>4. Op(v.command) \notin {"direct", "unpack"} /\ Op(v.code) \notin {"direct", "unpack"}
    <3>1. Op(v.code) \notin {"direct", "unpack"}
      BY <1>2, <1>4, WaitsAre
    <3>. QED BY <1>2, <3>1, NoneIsNone
  <2>5. Words(w, c) = Words(v, c)
    BY <2>3 DEF Words
  <2>6. At(w, Words(w, c))
    <3>1. CASE v.len = 0
      BY <2>3, <2>5, <3>1 DEF Kept, At
    <3>2. CASE v.len # 0
      <4>1. v.command # NoCommand
        BY <3>2 DEF Kept, At
      <4>2. w.command = v.command
        BY <1>2, <2>3, <3>2, <4>1
      <4>. QED BY <2>3, <2>5, <3>2, <4>2 DEF Kept, At
    <3>. QED BY <3>1, <3>2
  <2>7. CodeKept(w)
    BY <1>2, <2>3 DEF CodeKept
  <2>8. Op(w.command) \notin {"direct", "unpack"}
    BY <2>3, <2>4, NoneIsNone
  <2>9. Path2Kept(w, path, within)
    BY <2>4, <2>8 DEF Path2Kept, Kept
  <2>10. UnpackKept(w)
    BY <2>8 DEF UnpackKept
  <2>11. w.bits <= 128 /\ Len(w.internal) <= InternalSize /\ Whole(Words(w, c))
    BY <2>3, <2>5 DEF Kept
  <2>12. Kept(w, path, within, c)
    BY <1>1, <2>2, <2>6, <2>7, <2>9, <2>10, <2>11 DEF Kept
  <2>. QED BY <2>1, <2>3, <2>12
<1>. QED BY <1>3, <1>4

(* Whether the interface may go on with the next word: an UNPACK has       *)
(* nothing left to write.                                                  *)
Emptied(v) ==
  Op(v.command) = "unpack" =>
    /\ v.bits <= 96
    /\ v.len = 0 => Mixed(Format(v)) /\ BitsSeen(v) = 32 * UnpackWords(Format(v))

LEMMA UnpackKeeps ==
  ASSUME NEW v, NEW path, NEW within, NEW c, Kept(v, path, within, c)
  PROVE  /\ Kept(Unpack(v), path, within, c) /\ Emptied(Unpack(v))
         /\ Unpack(v).stalled = v.stalled /\ Unpack(v).waits = v.waits
PROOF
<1>. DEFINE w == Unpack(v)
<1>. HIDE DEF w
<1>1. v \in VifState /\ c \in Seq(VifWords) /\ UnpackKept(v)
  BY DEF Kept
<1>2. CASE Op(v.command) # "unpack"
  <2>1. w = v
    BY <1>2 DEF w, Unpack
  <2>2. Emptied(v)
    BY <1>2 DEF Emptied
  <2>. QED BY <2>1, <2>2 DEF w
<1>3. CASE Op(v.command) = "unpack"
  <2>1. Unpacked(v, w)
    BY <1>1, <1>3, UnpackGives DEF w
  <2>2. w \in VifState /\ RestIsSame(w, v) /\ w.bits <= v.bits
    BY <2>1 DEF Unpacked
  <2>3. Words(w, c) = Words(v, c) /\ w.len = v.len /\ w.internal = v.internal
    BY <2>2 DEF RestIsSame, Words
  <2>4. path = "idle" /\ within # TRUE
    BY <1>3 DEF Kept, Path2Kept
  <2>5. Whole(Words(w, c)) /\ Len(w.internal) <= InternalSize
    BY <2>3 DEF Kept
  <2>6. w.bits <= 128
    <3>1. w.bits \in Nat /\ v.bits \in Nat /\ v.bits <= 128
      BY <1>1, <2>2, FieldsOf DEF Kept
    <3>. QED BY <2>2, <3>1
  <2>7. CASE w.command = NoCommand /\ w.transfer = FALSE /\ w.len = 0
    <3>1. At(w, Words(w, c))
      BY <2>3, <2>7 DEF Kept, At
    <3>2. CodeKept(w)
      BY <2>2, <2>7 DEF Kept, CodeKept, RestIsSame
    <3>3. Op(w.command) = "none"
      BY <2>7, NoneIsNone
    <3>4. Path2Kept(w, path, within) /\ UnpackKept(w) /\ Emptied(w)
      BY <2>4, <3>3 DEF Path2Kept, UnpackKept, Emptied
    <3>5. Kept(w, path, within, c)
      BY <1>1, <2>2, <2>5, <2>6, <3>1, <3>2, <3>4 DEF Kept
    <3>. QED BY <2>2, <3>4, <3>5 DEF w, RestIsSame
  <2>8. CASE /\ w.command = v.command /\ w.transfer = TRUE /\ UnpackKept(w) /\ w.bits <= 96
             /\ w.len = 0 => /\ Mixed(Format(w))
                             /\ BitsSeen(w) = 32 * UnpackWords(Format(w))
    <3>1. At(w, Words(w, c))
      BY <2>3, <2>8 DEF Kept, At
    <3>2. CodeKept(w)
      BY <2>2, <2>8 DEF Kept, CodeKept, RestIsSame
    <3>3. Path2Kept(w, path, within)
      BY <1>3, <2>4, <2>8 DEF Path2Kept
    <3>4. Emptied(w)
      BY <2>8 DEF Emptied
    <3>5. Kept(w, path, within, c)
      BY <1>1, <2>2, <2>5, <2>6, <2>8, <3>1, <3>2, <3>3 DEF Kept
    <3>. QED BY <2>2, <3>4, <3>5 DEF w, RestIsSame
  <2>. QED BY <2>1, <2>7, <2>8 DEF Unpacked
<1>. QED BY <1>2, <1>3

LEMMA StalledIs ==
  ASSUME NEW v \in VifState, NEW i \in BOOLEAN,
         NEW s \in SUBSET {"ibit", "mskpath3", "stop", "direct", "forcebreak"}
  PROVE  [v EXCEPT !.ibit = FALSE, !.interrupt = i, !.stalled = s] \in VifState
PROOF
<1>. DEFINE b == FALSE
<1>1. b \in BOOLEAN
  OBVIOUS
<1>. HIDE DEF b
<1>2. [v EXCEPT !.ibit = b, !.interrupt = i, !.stalled = s] \in VifState
  BY <1>1 DEF VifState
<1>. QED BY <1>2 DEF b

LEMMA CheckStallKeeps ==
  ASSUME NEW v, NEW path, NEW within, NEW c, Kept(v, path, within, c), Emptied(v), v.stalled = {},
         v.waits = {}
  PROVE  LET w == CheckStall(v)
         IN /\ Kept(w, path, within, c) /\ Emptied(w) /\ w.waits = {}
            /\ HasStalled(w) => w.command = NoCommand
PROOF
<1>. DEFINE w == Stalls(v)
            s == v.stalled \cup (IF v.ibit /\ Op(v.code) # "mark" THEN {"ibit"} ELSE {})
                           \cup (IF v.stop THEN {"stop"} ELSE {})
                           \cup (IF v.broken THEN {"forcebreak"} ELSE {})
            i == v.interrupt \/ v.ibit
<1>1. v \in VifState /\ c \in Seq(VifWords)
  BY DEF Kept
<1>2. CASE v.command # NoCommand
  <2>1. CheckStall(v) = v
    BY <1>2 DEF CheckStall
  <2>2. ~HasStalled(v)
    BY DEF HasStalled
  <2>. QED BY <2>1, <2>2
<1>3. CASE v.command = NoCommand
  <2>1. CheckStall(v) = w
    BY <1>3 DEF CheckStall
  <2>2. s \in SUBSET {"ibit", "mskpath3", "stop", "direct", "forcebreak"} /\ i \in BOOLEAN
    <3>1. v.interrupt \in BOOLEAN /\ v.ibit \in BOOLEAN
      BY <1>1, FieldsOf
    <3>. QED BY <3>1
  <2>3. w = [v EXCEPT !.ibit = FALSE, !.interrupt = i, !.stalled = s]
    BY <1>1 DEF Stalls, VifState
  <2>. HIDE DEF s, i, w
  <2>4. w \in VifState
    BY <1>1, <2>2, <2>3, StalledIs
  <2>5. /\ w.internal = v.internal /\ w.fifo = v.fifo /\ w.command = v.command /\ w.len = v.len
        /\ w.code = v.code /\ w.waits = v.waits /\ w.bits = v.bits /\ w.num = v.num
        /\ w.blocks = v.blocks /\ w.transfer = v.transfer
    BY <1>1, <2>3 DEF VifState
  <2>6. Words(w, c) = Words(v, c) /\ Len(w.internal) <= InternalSize
    BY <2>5 DEF Words, Kept
  <2>7. Kept(w, path, within, c)
    BY <2>4, <2>5, <2>6, KeptSame
  <2>8. Emptied(w)
    BY <1>3, <2>5, NoneIsNone DEF Emptied
  <2>. QED BY <1>3, <2>1, <2>5, <2>7, <2>8
<1>. QED BY <1>2, <1>3

-----------------------------------------------------------------------------
(* A word is taken                                                         *)
LEMMA NextWord ==
  ASSUME NEW s \in Seq(VifWords), s # <<>>, Whole(s)
  PROVE  /\ Tail(s) \in Seq(VifWords) /\ Whole(Tail(s)) /\ s[1] \in VifWords
         /\ s[1].place <= Count[s[1].of]
         /\ IF s[1].place = Count[s[1].of] THEN Tail(s) # <<>> => Tail(s)[1].place = 0
            ELSE Tail(s) # <<>> /\ Tail(s)[1] = Word(s[1].of, s[1].place + 1)
PROOF
<1>. DEFINE t == Tail(s)
            l == Len(s)
<1>1. l \in Nat /\ l # 0
  BY EmptySeq, LenProperties
<1>2. t \in Seq(VifWords) /\ Len(t) = l - 1 /\ \A i \in 1 .. l - 1 : t[i] = s[i + 1]
  BY HeadTailProperties
<1>3. Whole(t)
  BY WholeTail
<1>. HIDE DEF t, l
<1>4. t # <<>> <=> 1 < l
  <2>1. t # <<>> => Len(t) \in Nat \ {0}
    BY <1>2, EmptySeq
  <2>2. t = <<>> => Len(t) = 0
    BY EmptySeq
  <2>. QED BY <1>1, <1>2, <2>1, <2>2
<1>5. 1 < l => t[1] = s[1 + 1]
  <2>1. 1 < l => 1 \in 1 .. l - 1
    BY <1>1
  <2>. QED BY <1>2, <2>1
<1>6. 1 \in 1 .. l
  BY <1>1
<1>7. WholeAt(s, 1) /\ s[1] \in VifWords
  BY <1>6, ElementOfSeq DEF Whole, l
<1>8. /\ s[1].place <= Count[s[1].of]
      /\ IF s[1].place = Count[s[1].of] THEN 1 < l => s[1 + 1].place = 0
         ELSE 1 < l /\ s[1 + 1] = Word(s[1].of, s[1].place + 1)
  BY <1>7 DEF WholeAt, l
<1>. QED BY <1>2, <1>3, <1>4, <1>5, <1>7, <1>8 DEF t

LEMMA WordsTail ==
  ASSUME NEW v \in VifState, NEW w, NEW c \in Seq(VifWords), v.internal # <<>>,
         w.internal = Tail(v.internal), w.fifo = v.fifo
  PROVE  /\ Words(w, c) = Tail(Words(v, c)) /\ Words(v, c) \in Seq(VifWords)
         /\ Words(v, c) # <<>> /\ Words(v, c)[1] = Head(v.internal)
         /\ Tail(v.internal) \in Seq(VifWords) /\ Len(Tail(v.internal)) = Len(v.internal) - 1
         /\ Len(v.internal) \in Nat
PROOF
<1>. DEFINE i == v.internal
            f == v.fifo
            a == i \o f
<1>1. i \in Seq(VifWords) /\ f \in Seq(VifWords) /\ i # <<>>
  BY FieldsOf
<1>. HIDE DEF i, f
<1>2. /\ a \in Seq(VifWords) /\ a # <<>> /\ a[1] = i[1] /\ Head(i) = i[1]
      /\ Tail(a) = Tail(i) \o f
  BY <1>1, TailJoined
<1>. HIDE DEF a
<1>3. /\ a \o c \in Seq(VifWords) /\ a \o c # <<>> /\ (a \o c)[1] = a[1]
      /\ Tail(a \o c) = Tail(a) \o c
  BY <1>2, TailJoined
<1>4. Words(v, c) = a \o c /\ Words(w, c) = (Tail(i) \o f) \o c
  BY DEF Words, a, i, f
<1>5. Tail(i) \in Seq(VifWords) /\ Len(Tail(i)) = Len(i) - 1 /\ Len(i) \in Nat
  BY <1>1, HeadTailProperties, LenProperties
<1>. QED BY <1>2, <1>3, <1>4, <1>5 DEF i

Popped(v) == IF v.len = 0 THEN v ELSE [v EXCEPT !.len = @ - 1, !.internal = Tail(@)]

LEMMA TakenIs ==
  ASSUME NEW v, NEW path, NEW within, NEW c, Kept(v, path, within, c), v.waits = {},
         v.internal # <<>>, v.command # NoCommand
  PROVE  LET x == Popped(TakeData(v))
         IN /\ x \in VifState /\ Whole(Words(x, c)) /\ At(x, Words(x, c)) /\ CodeKept(x)
            /\ Len(x.internal) <= InternalSize
            /\ x.bits = (IF Op(v.command) = "unpack" THEN v.bits + 32 ELSE v.bits)
            /\ x.transfer = (v.len > 1 \/ Op(v.command) = "unpack")
            /\ x.command = (IF v.len <= 1 /\ Op(v.command) # "unpack" THEN NoCommand ELSE v.command)
            /\ x.len = (IF v.len = 0 THEN 0 ELSE v.len - 1)
            /\ x.num = v.num /\ x.blocks = v.blocks /\ x.waits = {} /\ x.stalled = v.stalled
PROOF
<1>. DEFINE b == IF Op(v.command) = "unpack" THEN v.bits + 32 ELSE v.bits
            t == v.len > 1 \/ Op(v.command) = "unpack"
            d == IF v.len <= 1 /\ Op(v.command) # "unpack" THEN NoCommand ELSE v.command
            m == IF v.len = 0 THEN 0 ELSE v.len - 1
            i == v.internal
            q == IF v.len = 0 THEN i ELSE Tail(i)
            k == v.command
            x == [v EXCEPT !.bits = b, !.transfer = t, !.command = d, !.len = m, !.internal = q]
            l == v.len
            s == Words(v, c)
            y == Words(x, c)
<1>1. v \in VifState /\ c \in Seq(VifWords)
  BY DEF Kept
<1>2. /\ i \in Seq(VifWords) /\ k \in Names \cup {NoCommand} /\ l \in Nat /\ v.bits \in Nat
      /\ v.code \in Names \cup {NoCommand} /\ v.waits \in SUBSET {"vu", "paths", "path3"}
  BY <1>1, FieldsOf
<1>3. k \in Names /\ Count[k] \in Nat
  BY <1>2, CommandIs
<1>4. Tail(i) \in Seq(VifWords) /\ Len(Tail(i)) = Len(i) - 1 /\ Len(i) \in Nat
  BY <1>2, HeadTailProperties, LenProperties
<1>5. Popped(TakeData(v)) = x
  BY <1>1 DEF Popped, TakeData, VifState
<1>6. b \in Nat /\ t \in BOOLEAN /\ d \in Names \cup {NoCommand} /\ m \in Nat /\ q \in Seq(VifWords)
  BY <1>2, <1>4
<1>7. Len(q) <= InternalSize
  <2>1. Len(i) <= InternalSize
    BY DEF Kept
  <2>2. InternalSize \in Nat
    BY VifAssumption
  <2>. HIDE DEF i
  <2>. QED BY <1>4, <2>1, <2>2
<1>. HIDE DEF b, t, d, m, q
<1>8. x \in VifState
  BY <1>1, <1>6 DEF VifState, VifWords
<1>9. /\ x.bits = b /\ x.transfer = t /\ x.command = d /\ x.len = m /\ x.internal = q
      /\ x.fifo = v.fifo /\ x.num = v.num /\ x.blocks = v.blocks /\ x.code = v.code
      /\ x.waits = v.waits /\ x.stalled = v.stalled
  BY <1>1 DEF VifState
<1>. HIDE DEF x, y, s
<1>10. CodeKept(x)
  BY <1>9 DEF Kept, CodeKept, d
<1>11. Whole(s) /\ At(v, s)
  BY DEF Kept, s
<1>12. Whole(y) /\ At(x, y)
  <2>1. CASE l = 0
    <3>1. q = i /\ m = 0
      BY <2>1 DEF q, m
    <3>2. y = s
      BY <1>9, <3>1 DEF y, s, Words
    <3>. QED BY <1>9, <1>11, <2>1, <3>1, <3>2 DEF At
  <2>2. CASE l # 0
    <3>1. q = Tail(i) /\ m = l - 1
      BY <2>2 DEF q, m
    <3>2. y = Tail(s) /\ s \in Seq(VifWords) /\ s # <<>>
      BY <1>1, <1>9, <3>1, WordsTail DEF y, s
    <3>3. s[1] = Word(k, Count[k] - l + 1)
      BY <1>11, <2>2 DEF At
    <3>4. s[1].of = k /\ s[1].place = Count[k] - l + 1
      BY <3>3 DEF Word
    <3>5. /\ Whole(y)
          /\ IF s[1].place = Count[k] THEN y # <<>> => y[1].place = 0
             ELSE y # <<>> /\ y[1] = Word(k, s[1].place + 1)
      BY <1>11, <3>2, <3>4, NextWord
    <3>6. CASE l = 1
      <4>1. s[1].place = Count[k] /\ m = 0
        BY <1>3, <3>1, <3>4, <3>6
      <4>. QED BY <1>9, <3>5, <4>1 DEF At
    <3>7. CASE l # 1
      <4>1. s[1].place # Count[k] /\ m # 0 /\ s[1].place + 1 = Count[k] - m + 1 /\ ~(l <= 1)
        BY <1>2, <1>3, <2>2, <3>1, <3>4, <3>7
      <4>2. x.command = k
        BY <1>9, <4>1 DEF d
      <4>. QED BY <1>9, <3>5, <4>1, <4>2 DEF At
    <3>. QED BY <3>5, <3>6, <3>7
  <2>. QED BY <2>1, <2>2
<1>. QED BY <1>5, <1>7, <1>8, <1>9, <1>10, <1>12 DEF b, t, d, m, y

LEMMA DataKeeps ==
  ASSUME NEW v, NEW path, NEW within, NEW c, Kept(v, path, within, c), Emptied(v), v.waits = {},
         v.internal # <<>>, v.command # NoCommand, Op(v.command) # "direct"
  PROVE  Kept(Popped(TakeData(v)), path, within, c)
PROOF
<1>. DEFINE x == Popped(TakeData(v))
            l == v.len
            k == v.command
<1>. HIDE DEF x
<1>1. /\ x \in VifState /\ Whole(Words(x, c)) /\ At(x, Words(x, c)) /\ CodeKept(x)
      /\ Len(x.internal) <= InternalSize
      /\ x.bits = (IF Op(k) = "unpack" THEN v.bits + 32 ELSE v.bits)
      /\ x.transfer = (l > 1 \/ Op(k) = "unpack")
      /\ x.command = (IF l <= 1 /\ Op(k) # "unpack" THEN NoCommand ELSE k)
      /\ x.len = (IF l = 0 THEN 0 ELSE l - 1)
      /\ x.num = v.num /\ x.blocks = v.blocks /\ x.waits = {} /\ x.stalled = v.stalled
  BY TakenIs DEF x
<1>2. v \in VifState /\ c \in Seq(VifWords) /\ v.bits <= 128
  BY DEF Kept
<1>3. l \in Nat /\ v.bits \in Nat
  BY <1>2, FieldsOf
<1>4. path = "idle" /\ within # TRUE
  BY DEF Kept, Path2Kept
<1>5. Op(x.command) # "direct"
  BY <1>1, NoneIsNone
<1>6. Path2Kept(x, path, within)
  BY <1>4, <1>5 DEF Path2Kept
<1>7. CASE Op(k) # "unpack"
  <2>1. Op(x.command) # "unpack"
    BY <1>1, <1>7, NoneIsNone
  <2>2. UnpackKept(x)
    BY <2>1 DEF UnpackKept
  <2>3. x.bits <= 128
    BY <1>1, <1>2, <1>7
  <2>. QED BY <1>1, <1>2, <1>6, <2>2, <2>3 DEF Kept, x
<1>8. CASE Op(k) = "unpack"
  <2>. DEFINE f == Format(v)
              b == BitsSeen(v)
              a == UnpackWords(f)
              r == QuadBits(f) * ReadsOf(f, f.num - v.num)
  <2>1. x.command = k /\ x.bits = v.bits + 32
    BY <1>1, <1>8
  <2>2. Format(x) = f
    BY <2>1 DEF Format
  <2>3. v \in Unpacking
    BY <1>2, <1>8 DEF Unpacking
  <2>4. f \in CommandWords
    BY <2>3, UnpackingIs DEF Format
  <2>5. a \in Nat
    BY <2>4, WordsAreEnough
  <2>6. /\ v.num \in 1 .. f.num /\ v.blocks = (f.num - v.num) % f.wl
        /\ \/ b = 32 * (a - l)
           \/ l = 0 /\ Mixed(f) /\ b = 32 * a + 32
    BY <1>8 DEF Kept, UnpackKept
  <2>7. v.bits <= 96 /\ (l = 0 => Mixed(f) /\ b = 32 * a)
    BY <1>8 DEF Emptied
  <2>8. b = v.bits + r /\ BitsSeen(x) = (v.bits + 32) + r
    BY <1>1, <2>1, <2>2 DEF BitsSeen
  <2>9. r \in Int
    <3>1. f.num - v.num \in Nat
      <4>. DEFINE g == f.num
                  n == v.num
      <4>1. n \in 1 .. g /\ g \in 1 .. 256
        BY <2>4, <2>6, Parts
      <4>. HIDE DEF g, n
      <4>2. g - n \in Nat
        BY <4>1
      <4>. QED BY <4>2 DEF g, n
    <3>2. QuadBits(f) \in Nat /\ ReadsOf(f, f.num - v.num) \in Nat
      BY <2>4, <3>1, QuadBitsIs, ReadsStep
    <3>. QED BY <3>2
  <2>. HIDE DEF f, b, a, r, l
  <2>10. BitsSeen(x) = b + 32
    BY <1>3, <2>8, <2>9
  <2>11. \/ BitsSeen(x) = 32 * (a - x.len)
         \/ x.len = 0 /\ Mixed(f) /\ BitsSeen(x) = 32 * a + 32
    <3>1. CASE l = 0
      BY <1>1, <2>7, <2>10, <3>1
    <3>2. CASE l # 0
      <4>1. x.len = l - 1
        BY <1>1, <3>2 DEF l
      <4>2. 32 * (a - (l - 1)) = 32 * (a - l) + 32
        BY <1>3, <2>5
      <4>. QED BY <2>6, <2>10, <3>2, <4>1, <4>2
    <3>. QED BY <3>1, <3>2
  <2>12. UnpackKept(x)
    BY <1>1, <2>2, <2>6, <2>11 DEF UnpackKept, a
  <2>13. x.bits <= 128
    BY <1>3, <2>1, <2>7
  <2>. QED BY <1>1, <1>2, <1>6, <2>12, <2>13 DEF Kept, x
<1>. QED BY <1>7, <1>8

DecodedTo(v, d, k, n, b, h, m, q, z) ==
  [v EXCEPT !.command = d, !.code = k, !.len = n, !.ibit = b, !.waits = h,
            !.transfer = FALSE, !.bits = 0, !.num = m, !.blocks = 0,
            !.stalled = z, !.internal = q]

DecodedFields(d, k, n, b, h, m, q, z) ==
  /\ d \in Names \cup {NoCommand} /\ k \in Names \cup {NoCommand}
  /\ n \in Nat /\ b \in BOOLEAN /\ h \in SUBSET {"vu", "paths", "path3"}
  /\ m \in 0 .. 256 /\ q \in Seq(VifWords)
  /\ z \in SUBSET {"ibit", "mskpath3", "stop", "direct", "forcebreak"}

LEMMA Decoded ==
  ASSUME NEW v \in VifState, NEW d, NEW k, NEW n, NEW b, NEW h, NEW m, NEW q, NEW z,
         DecodedFields(d, k, n, b, h, m, q, z)
  PROVE  DecodedTo(v, d, k, n, b, h, m, q, z) \in VifState
BY DEF VifState, VifWords, DecodedTo, DecodedFields

LEMMA DecodeKeeps ==
  ASSUME NEW v, NEW path, NEW within, NEW c, Kept(v, path, within, c),
         v.internal # <<>>, v.command = NoCommand, NEW masked \in BOOLEAN
  PROVE  LET w == Decode(v, Head(v.internal).of, masked)
         IN w.len # 0 /\ Kept(Popped(w), path, within, c)
PROOF
<1>. DEFINE i == v.internal
            k == Head(i).of
            n == Count[k]
            o == Op(k)
            d == IF o \in {"data", "mpg", "direct", "unpack"} THEN k ELSE NoCommand
            b == v.ibit \/ Commands[k].ibit
            m == IF o = "unpack" THEN Commands[k].num ELSE 0
            z == v.stalled \cup IF o = "mskpath3" /\ masked THEN {"mskpath3"} ELSE {}
            h == WaitsOf(o)
            q == Tail(i)
            w == Decode(v, k, masked)
            x == [v EXCEPT !.command = d, !.code = k, !.len = n, !.ibit = b, !.waits = h,
                           !.transfer = FALSE, !.bits = 0, !.num = m, !.blocks = 0,
                           !.stalled = z, !.internal = q]
            s == Words(v, c)
            y == Words(x, c)
<1>1. v \in VifState /\ c \in Seq(VifWords)
  BY DEF Kept
<1>2. i \in Seq(VifWords) /\ v.ibit \in BOOLEAN
      /\ v.stalled \in SUBSET {"ibit", "mskpath3", "stop", "direct", "forcebreak"}
  BY <1>1, FieldsOf
<1>3. Head(i) \in VifWords /\ q \in Seq(VifWords) /\ Len(q) = Len(i) - 1 /\ Len(i) \in Nat
  BY <1>2, HeadTailProperties, LenProperties
<1>4. k \in Names /\ Head(i).place \in Nat
  BY <1>3 DEF VifWords
<1>5. n \in Nat /\ Commands[k] \in CommandWords /\ k # NoCommand /\ o = Commands[k].op
  BY <1>4, CommandIs
<1>6. Commands[k].ibit \in BOOLEAN /\ Commands[k].num \in 1 .. 256
  BY <1>5, ZenonT(60) DEF CommandWords
<1>7. w.len = 1 + n /\ w.internal = i
  BY <1>1 DEF Decode, VifState
<1>8. w.len # 0 /\ (1 + n) - 1 = n
  <2>. HIDE DEF n, w
  <2>. QED BY <1>5, <1>7
<1>9. Popped(w) = x
  <2>1. Popped(w) = [w EXCEPT !.len = n, !.internal = q]
    BY <1>7, <1>8 DEF Popped
  <2>2. w = [v EXCEPT !.command = d, !.code = k, !.len = 1 + n, !.ibit = b, !.waits = h,
                      !.transfer = FALSE, !.bits = 0, !.num = m, !.blocks = 0, !.stalled = z]
    BY <1>1 DEF Decode, VifState
  <2>. HIDE DEF n, q, m, o, d, k, b, h, z, w
  <2>4. v \in VifState
    BY <1>1
  <2>3. [w EXCEPT !.len = n, !.internal = q] = x
    BY ONLY <2>2, <2>4, ZenonT(60) DEF VifState, x
  <2>. QED BY <2>1, <2>3
<1>10. /\ d \in Names \cup {NoCommand} /\ b \in BOOLEAN /\ m \in 0 .. 256
       /\ z \in SUBSET {"ibit", "mskpath3", "stop", "direct", "forcebreak"}
       /\ h \in SUBSET {"vu", "paths", "path3"}
  <2>. HIDE DEF i, k, n, o, h, q, w, x, s, y
  <2>1. d \in Names \cup {NoCommand}
    BY <1>4
  <2>2. b \in BOOLEAN
    <3>1. v.ibit \in BOOLEAN /\ Commands[k].ibit \in BOOLEAN
      BY <1>2, <1>6, ZenonT(60)
    <3>. QED BY <3>1, ZenonT(60)
  <2>3. m \in 0 .. 256
    <3>1. Commands[k].num \in 1 .. 256
      BY <1>6, ZenonT(60)
    <3>. QED BY <3>1
  <2>4. z \in SUBSET {"ibit", "mskpath3", "stop", "direct", "forcebreak"}
    BY <1>2
  <2>5. h \in SUBSET {"vu", "paths", "path3"}
    <3>. USE DEF h
    <3>. QED BY WaitsAre, ZenonT(60)
  <2>. HIDE DEF d, b, m, z, h
  <2>. QED BY <2>1, <2>2, <2>3, <2>4, <2>5
<1>11. Len(q) <= InternalSize
  <2>1. Len(i) <= InternalSize /\ InternalSize \in Nat
    BY VifAssumption DEF Kept
  <2>. HIDE DEF i, q
  <2>. QED BY <1>3, <2>1
<1>12. path = "idle" /\ within # TRUE
  BY NoneIsNone DEF Kept, Path2Kept
<1>13. Whole(s) /\ At(v, s)
  BY DEF Kept
<1>14. v.len = 0
  BY DEF Kept, At
<1>15. (o = "direct" => n # 0) /\ (n # 0 => d = k)
  <2>1. o = "direct" => Commands[k].words > 0
    BY <1>4, <1>5, VifAssumption DEF Names
  <2>2. n = (IF o = "unpack" THEN UnpackWords(Commands[k])
             ELSE IF o \in {"data", "mpg", "direct"} THEN Commands[k].words ELSE 0)
    BY <1>4 DEF Count
  <2>3. o = "direct" => n # 0
    BY <1>5, <2>1, <2>2
  <2>. QED BY <2>2, <2>3
<1>16. o = "unpack" => n = UnpackWords(Commands[k]) /\ m = Commands[k].num
  BY <1>4 DEF Count
<1>17. d = k \/ (d = NoCommand /\ o \notin {"direct", "unpack"})
  OBVIOUS
<1>. HIDE DEF n, q, m, d, b, h, z, x, s, y, o
<1>18. x \in VifState
  <2>1. k \in Names \cup {NoCommand}
    BY <1>4
  <2>2. q \in Seq(VifWords) /\ n \in Nat
    BY <1>3, <1>5
  <2>3. v \in VifState
    BY <1>1
  <2>. HIDE DEF k
  <2>. HIDE DEF i
  <2>4. x = DecodedTo(v, d, k, n, b, h, m, q, z)
    BY DEF x, DecodedTo
  <2>5. /\ d \in Names \cup {NoCommand} /\ b \in BOOLEAN /\ m \in 0 .. 256
        /\ z \in SUBSET {"ibit", "mskpath3", "stop", "direct", "forcebreak"}
        /\ h \in SUBSET {"vu", "paths", "path3"}
    BY <1>10
  <2>6. DecodedFields(d, k, n, b, h, m, q, z)
    BY <2>1, <2>2, <2>5 DEF DecodedFields
  <2>7. DecodedTo(v, d, k, n, b, h, m, q, z) \in VifState
    BY <2>3, <2>6, Decoded
  <2>. QED BY <2>4, <2>7
<1>19. /\ x.command = d /\ x.code = k /\ x.len = n /\ x.waits = h /\ x.bits = 0 /\ x.num = m
       /\ x.blocks = 0 /\ x.internal = q /\ x.fifo = v.fifo
  <2>. HIDE DEF k
  <2>. QED BY <1>1 DEF x, VifState
<1>20. /\ y = Tail(s) /\ s \in Seq(VifWords) /\ s # <<>> /\ s[1] = Head(i)
  BY <1>1, <1>19, WordsTail DEF y, s, q
<1>21. s[1].of = k /\ s[1].place = 0
  BY <1>13, <1>14, <1>20 DEF At
<1>22. /\ Whole(y)
       /\ IF 0 = n THEN y # <<>> => y[1].place = 0
          ELSE y # <<>> /\ y[1] = Word(k, 0 + 1)
  <2>1. Count[k] = n
    BY DEF n
  <2>. HIDE DEF k
  <2>. QED BY <1>13, <1>20, <1>21, <2>1, NextWord
<1>23. At(x, y)
  <2>1. CASE n = 0
    BY <1>19, <1>22, <2>1 DEF At
  <2>2. CASE n # 0
    <3>1. x.command = k /\ Count[k] = n
      BY <1>15, <1>19, <2>2 DEF n
    <3>2. n - n + 1 = 0 + 1
      BY <1>5
    <3>3. k # NoCommand
      BY <1>5
    <3>. HIDE DEF k
    <3>. QED BY <1>19, <1>22, <2>2, <3>1, <3>2, <3>3 DEF At
  <2>. QED BY <2>1, <2>2
<1>24. CodeKept(x)
  BY <1>17, <1>19 DEF CodeKept, h, o
<1>25. Op(x.command) = o \/ Op(x.command) = "none"
  BY <1>17, <1>19, NoneIsNone DEF o
<1>26. Path2Kept(x, path, within)
  <2>1. Op(x.command) = "direct" => x.len # 0
    BY <1>15, <1>19, <1>25
  <2>. QED BY <1>12, <2>1 DEF Path2Kept
<1>27. UnpackKept(x)
  <2>1. CASE Op(x.command) # "unpack"
    BY <2>1 DEF UnpackKept
  <2>2. CASE Op(x.command) = "unpack"
    <3>. DEFINE f == Commands[k]
                g == f.num
                a == UnpackWords(f)
                j == QuadBits(f)
    <3>1. o = "unpack" /\ x.command = k
      BY <1>17, <1>19, <2>2, NoneIsNone DEF o
    <3>2. n = a /\ m = g /\ Format(x) = f
      BY <1>16, <3>1 DEF Format
    <3>3. f \in CommandWords /\ g \in 1 .. 256 /\ a \in Nat /\ j \in Nat /\ f.wl \in 1 .. 256
          /\ f.cl \in 0 .. 255
      <4>1. f \in CommandWords
        BY <1>5
      <4>. HIDE DEF f
      <4>. QED BY <4>1, Parts, WordsAreEnough, QuadBitsIs
    <3>4. BitsSeen(x) = 0 + j * ReadsOf(f, g - g)
      BY <1>19, <3>2 DEF BitsSeen
    <3>. HIDE DEF k, f
    <3>5. ReadsOf(f, 0) = 0
      <4>. DEFINE w1 == f.wl
                  c1 == f.cl
      <4>1. w1 \in 1 .. 256 /\ c1 \in 0 .. 255
        BY <3>3
      <4>2. ReadsOf(f, 0) = IF w1 <= c1 THEN 0
                            ELSE c1 * (0 \div w1) + IF 0 % w1 < c1 THEN 0 % w1 ELSE c1
        BY DEF ReadsOf
      <4>. HIDE DEF w1, c1
      <4>3. 0 \div w1 = 0 /\ 0 % w1 = 0
        BY <4>1
      <4>. QED BY <4>1, <4>2, <4>3
    <3>6. 0 % f.wl = 0
      <4>. DEFINE w1 == f.wl
      <4>1. w1 \in 1 .. 256
        BY <3>3
      <4>. HIDE DEF w1
      <4>2. 0 % w1 = 0
        BY <4>1
      <4>. QED BY <4>2 DEF w1
    <3>. HIDE DEF g, a, j
    <3>7. g - g = 0 /\ a - a = 0 /\ j * 0 = 0 /\ g \in 1 .. g
      BY <3>3
    <3>8. BitsSeen(x) = 32 * (a - n)
      BY <3>2, <3>4, <3>5, <3>7
    <3>9. x.num \in 1 .. g /\ x.blocks = (g - x.num) % f.wl
      BY <1>19, <3>2, <3>6, <3>7
    <3>. QED BY <1>19, <3>2, <3>8, <3>9 DEF UnpackKept, g, a
  <2>. QED BY <2>1, <2>2
<1>28. x.bits <= 128 /\ Len(x.internal) <= InternalSize
  BY <1>11, <1>19
<1>29. Kept(x, path, within, c)
  BY <1>1, <1>18, <1>22, <1>23, <1>24, <1>26, <1>27, <1>28 DEF Kept, y
<1>. QED BY <1>8, <1>9, <1>29

LEMMA PopIs ==
  ASSUME NEW v, Pop(v), requested \in BOOLEAN
  PROVE  vif' = Popped(v) /\ requested' \in BOOLEAN
PROOF
<1>1. CASE v.len = 0
  BY <1>1 DEF Pop, Popped
<1>2. CASE v.len # 0
  <2>1. /\ vif' = [v EXCEPT !.len = @ - 1, !.internal = Tail(@)]
        /\ requested' = (requested \/ Len(v.fifo) <= FifoSize \div 2)
    BY <1>2 DEF Pop
  <2>2. requested' \in BOOLEAN
    BY <2>1
  <2>. QED BY <1>2, <2>1, <2>2 DEF Popped
<1>. QED BY <1>1, <1>2

GifTypes2 == path2 \in {"idle", "queued", "active"} /\ packet \in BOOLEAN /\ requested \in BOOLEAN

LEMMA DirectKeeps ==
  ASSUME NEW v, Kept(v, path2, packet, coming), GifTypes2, v.waits = {}, v.internal # <<>>,
         Op(v.command) = "direct", Direct(v)
  PROVE  Kept(vif', path2', packet', coming) /\ GifTypes2'
PROOF
<1>. DEFINE k == v.command
            l == v.len
            x == Popped(TakeData(v))
<1>1. v \in VifState /\ coming \in Seq(VifWords) /\ v.bits <= 128
  BY DEF Kept
<1>2. k \in Names \cup {NoCommand} /\ k # NoCommand
  BY <1>1, FieldsOf, NoneIsNone
<1>3. k \in Names /\ Count[k] = Commands[k].words /\ Count[k] % Quad = 0 /\ Count[k] \in Nat
  <2>1. k \in Names /\ Commands[k].op = "direct"
    BY <1>2, CommandIs
  <2>2. Count[k] = Commands[k].words
    BY <2>1 DEF Count
  <2>3. Commands[k].words % Quad = 0
    BY <2>1, VifAssumption DEF Names
  <2>. QED BY <2>1, <2>2, <2>3, CommandIs
<1>4. l \in Nat /\ l # 0
  BY <1>1, FieldsOf DEF Kept, Path2Kept
<1>5. CASE Granted
  <2>1. Pop(TakeData(v))
    BY <1>5 DEF Direct
  <2>2. vif' = x /\ requested' \in BOOLEAN
    BY <2>1, PopIs DEF GifTypes2
  <2>. HIDE DEF x
  <2>3. /\ x \in VifState /\ Whole(Words(x, coming)) /\ At(x, Words(x, coming)) /\ CodeKept(x)
        /\ Len(x.internal) <= InternalSize
        /\ x.bits = v.bits /\ x.transfer = (l > 1)
        /\ x.command = (IF l <= 1 THEN NoCommand ELSE k)
        /\ x.len = l - 1
    BY <1>2, <1>4, TakenIs DEF x
  <2>4. l <= 1 => Sends(v)
    <3>1. ASSUME l <= 1 PROVE Count[k] - l + 1 = Count[k]
      BY <1>3, <1>4, <3>1
    <3>. QED BY <1>3, <3>1 DEF Sends
  <2>5. packet' \in BOOLEAN /\ (l <= 1 => packet' = FALSE)
    <3>1. CASE Sends(v)
      <4>1. packet' \in (IF l <= 1 THEN {FALSE} ELSE BOOLEAN)
        BY <1>5, <3>1 DEF Direct
      <4>. QED BY <4>1
    <3>2. CASE ~Sends(v)
      <4>1. packet' = packet
        BY <1>5, <3>2 DEF Direct
      <4>. QED BY <2>4, <3>2, <4>1 DEF GifTypes2
    <3>. QED BY <3>1, <3>2
  <2>6. path2' = (IF ~packet' /\ (Sends(v) \/ l <= 1) THEN "idle" ELSE "active")
    BY <1>5 DEF Direct
  <2>7. path2' \in {"idle", "active"} /\ (l <= 1 => path2' = "idle")
    BY <2>5, <2>6
  <2>8. packet' = TRUE => path2' = "active"
    BY <2>6
  <2>9. CASE l <= 1
    <3>1. x.command = NoCommand
      BY <2>3, <2>9
    <3>2. Op(x.command) = "none" /\ path2' = "idle" /\ packet' = FALSE
      BY <2>5, <2>7, <2>9, <3>1, NoneIsNone
    <3>3. Path2Kept(x, path2', packet') /\ UnpackKept(x)
      BY <3>2 DEF Path2Kept, UnpackKept
    <3>4. Kept(x, path2', packet', coming)
      BY <1>1, <2>3, <3>3 DEF Kept
    <3>. QED BY <2>2, <2>5, <2>7, <3>4 DEF GifTypes2
  <2>10. CASE ~(l <= 1)
    <3>1. x.command = k /\ x.len # 0 /\ x.transfer = TRUE
      <4>1. l > 1 /\ l - 1 # 0
        BY <1>4, <2>10
      <4>2. x.command = k /\ x.len = l - 1
        BY <2>3, <2>10
      <4>3. x.transfer = (l > 1)
        BY <2>3
      <4>4. x.transfer = TRUE
        BY <4>1, <4>3
      <4>. QED BY <4>1, <4>2, <4>4
    <3>2. Path2Kept(x, path2', packet') /\ UnpackKept(x)
      BY <2>7, <2>8, <3>1 DEF Path2Kept, UnpackKept
    <3>3. Kept(x, path2', packet', coming)
      BY <1>1, <2>3, <3>2 DEF Kept
    <3>. QED BY <2>2, <2>5, <2>7, <3>3 DEF GifTypes2
  <2>. QED BY <2>9, <2>10
<1>6. CASE ~Granted
  <2>. DEFINE z == v.stalled \cup {"direct"}
              w == [v EXCEPT !.stalled = z, !.transfer = TRUE]
  <2>1. path2' = "queued" /\ requested' = requested /\ packet' = packet
    BY <1>6 DEF Direct
  <2>2. vif' = [v EXCEPT !.stalled = @ \cup {"direct"}, !.transfer = TRUE]
    BY <1>6 DEF Direct
  <2>3. vif' = w
    BY <1>1, <2>2 DEF VifState
  <2>4. z \in SUBSET {"ibit", "mskpath3", "stop", "direct", "forcebreak"}
    <3>1. v.stalled \in SUBSET {"ibit", "mskpath3", "stop", "direct", "forcebreak"}
      BY <1>1, FieldsOf
    <3>. QED BY <3>1
  <2>. HIDE DEF z
  <2>5. w \in VifState
    BY <1>1, <2>4 DEF VifState
  <2>6. /\ w.internal = v.internal /\ w.fifo = v.fifo /\ w.command = v.command /\ w.len = v.len
        /\ w.code = v.code /\ w.waits = v.waits /\ w.bits = v.bits /\ w.transfer = TRUE
    BY <1>1 DEF VifState
  <2>. HIDE DEF w
  <2>7. Words(w, coming) = Words(v, coming)
    BY <2>6 DEF Words
  <2>8. packet # TRUE
    <3>1. path2 # "active"
      BY <1>6 DEF Granted
    <3>. QED BY <3>1 DEF Kept, Path2Kept
  <2>9. Path2Kept(w, path2', packet') /\ UnpackKept(w)
    BY <1>4, <2>1, <2>6, <2>8 DEF Path2Kept, UnpackKept
  <2>10. At(w, Words(w, coming)) /\ CodeKept(w) /\ Whole(Words(w, coming))
    BY <2>6, <2>7 DEF Kept, At, CodeKept
  <2>11. w.bits <= 128 /\ Len(w.internal) <= InternalSize
    BY <2>6 DEF Kept
  <2>12. Kept(w, path2', packet', coming)
    BY <1>1, <2>5, <2>9, <2>10, <2>11 DEF Kept
  <2>. QED BY <2>1, <2>3, <2>12 DEF GifTypes2
<1>. QED BY <1>5, <1>6

LEMMA LeaveKeeps ==
  ASSUME NEW v, Kept(v, path2, packet, coming), GifTypes2,
         HasStalled(v) \/ v.internal = <<>>, HasStalled(v) => v.command = NoCommand,
         vif' = [v EXCEPT !.transfer = FALSE], path2' = (IF Leaves(v) THEN "idle" ELSE path2),
         packet' = packet, requested' = requested
  PROVE  Kept(vif', path2', packet', coming) /\ GifTypes2'
PROOF
<1>. DEFINE w == [v EXCEPT !.transfer = FALSE]
<1>1. v \in VifState /\ coming \in Seq(VifWords)
  BY DEF Kept
<1>2. w \in VifState
  BY <1>1 DEF VifState
<1>3. /\ w.internal = v.internal /\ w.fifo = v.fifo /\ w.command = v.command /\ w.len = v.len
      /\ w.code = v.code /\ w.waits = v.waits /\ w.bits = v.bits /\ w.num = v.num
      /\ w.blocks = v.blocks
  BY <1>1 DEF VifState
<1>. HIDE DEF w
<1>4. Words(w, coming) = Words(v, coming)
  BY <1>3 DEF Words
<1>5. At(w, Words(w, coming)) /\ CodeKept(w) /\ Whole(Words(w, coming))
  BY <1>3, <1>4 DEF Kept, At, CodeKept
<1>6. w.bits <= 128 /\ Len(w.internal) <= InternalSize
  BY <1>3 DEF Kept
<1>7. UnpackKept(w)
  BY <1>3 DEF Kept, UnpackKept, Format, BitsSeen
<1>8. path2 # "queued"
  <2>1. ASSUME path2 = "queued" PROVE FALSE
    <3>1. v.internal # <<>> /\ Op(v.command) = "direct"
      BY <2>1 DEF Kept, Path2Kept
    <3>2. v.command = NoCommand
      BY <3>1
    <3>. QED BY <3>1, <3>2, NoneIsNone
  <2>. QED BY <2>1
<1>9. path2 = "active" /\ packet = FALSE => Leaves(v)
  BY DEF Kept, Path2Kept, Leaves
<1>10. Leaves(v) => packet = FALSE
  BY DEF Leaves, GifTypes2
<1>11. path2' \in {"idle", "active"} /\ (path2' = "active" => packet = TRUE /\ path2 = "active")
  BY <1>8, <1>9 DEF GifTypes2
<1>12. packet = TRUE => path2' = "active"
  BY <1>10 DEF Kept, Path2Kept
<1>13. Op(v.command) = "direct" => v.len # 0
  BY DEF Kept, Path2Kept
<1>14. path2 # "idle" => Op(v.command) = "direct"
  BY DEF Kept, Path2Kept
<1>15. Path2Kept(w, path2', packet')
  BY <1>3, <1>11, <1>12, <1>13, <1>14 DEF Path2Kept
<1>16. Kept(w, path2', packet', coming)
  BY <1>1, <1>2, <1>5, <1>6, <1>7, <1>15 DEF Kept
<1>. QED BY <1>11, <1>16 DEF GifTypes2, w

LEMMA WordKeeps ==
  ASSUME NEW v, Kept(v, path2, packet, coming), GifTypes2, Emptied(v), v.waits = {},
         v.internal # <<>>, ProcessDataWord(v)
  PROVE  Kept(vif', path2', packet', coming) /\ GifTypes2'
PROOF
<1>1. CASE Op(v.command) = "direct"
  <2>1. Direct(v)
    BY <1>1 DEF ProcessDataWord
  <2>. QED BY <1>1, <2>1, DirectKeeps
<1>2. CASE Op(v.command) # "direct"
  <2>1. path2' = path2 /\ packet' = packet
    BY <1>2 DEF ProcessDataWord
  <2>2. CASE v.command = NoCommand
    <3>1. PICK masked \in BOOLEAN :
            \E decoded \in {Decode(v, Head(v.internal).of, masked)} : Pop(decoded)
      BY <1>2, <2>2 DEF ProcessDataWord
    <3>. DEFINE w == Decode(v, Head(v.internal).of, masked)
    <3>2. Pop(w)
      BY <3>1
    <3>. HIDE DEF w
    <3>3. vif' = Popped(w) /\ requested' \in BOOLEAN
      BY <3>2, PopIs DEF GifTypes2
    <3>4. Kept(Popped(w), path2, packet, coming)
      BY <2>2, DecodeKeeps DEF w
    <3>. QED BY <2>1, <3>3, <3>4 DEF GifTypes2
  <2>3. CASE v.command # NoCommand
    <3>1. Pop(TakeData(v))
      BY <1>2, <2>3 DEF ProcessDataWord
    <3>2. vif' = Popped(TakeData(v)) /\ requested' \in BOOLEAN
      BY <3>1, PopIs DEF GifTypes2
    <3>3. Kept(Popped(TakeData(v)), path2, packet, coming)
      BY <1>2, <2>3, DataKeeps
    <3>. QED BY <2>1, <3>2, <3>3 DEF GifTypes2
  <2>. QED BY <2>2, <2>3
<1>. QED BY <1>1, <1>2

LEMMA TurnKeeps ==
  ASSUME VifInvariant, Turn
  PROVE  VifInvariant'
PROOF
<1>. DEFINE f == FillInternal(vif)
            e == EndWait(f)
            u == Unpack(e)
            v == CheckStall(u)
<1>1. /\ Kept(vif, path2, packet, coming) /\ GifTypes2
      /\ running \in BOOLEAN /\ other \in {"none", "path1", "path3"}
      /\ program \in Seq(Names) /\ program # <<>>
  BY DEF VifInvariant, VifTypeOK, GifTypes2
<1>2. vif.stalled = {} /\ other' = other /\ program' = program /\ coming' = coming
  BY DEF Turn, data
<1>. HIDE DEF f
<1>3. Kept(f, path2, packet, coming) /\ f.stalled = {}
  BY <1>1, <1>2, FillKeeps DEF f
<1>4. IF Waiting(f)
      THEN vif' = f /\ UNCHANGED <<requested, running, path2, packet>>
      ELSE /\ running' = (running \/ Starts(f))
           /\ IF HasStalled(v) \/ v.internal = <<>>
              THEN /\ vif' = [v EXCEPT !.transfer = FALSE]
                   /\ path2' = IF Leaves(v) THEN "idle" ELSE path2
                   /\ UNCHANGED <<requested, packet>>
              ELSE ProcessDataWord(v)
  BY DEF Turn, f
<1>5. CASE Waiting(f)
  <2>1. vif' = f /\ requested' = requested /\ running' = running /\ path2' = path2 /\ packet' = packet
    BY <1>4, <1>5
  <2>2. f \in VifState
    BY <1>3 DEF Kept
  <2>. QED BY <1>1, <1>2, <1>3, <2>1, <2>2 DEF VifInvariant, VifTypeOK, GifTypes2
<1>6. CASE ~Waiting(f)
  <2>. HIDE DEF e
  <2>1. Kept(e, path2, packet, coming) /\ e.stalled = {} /\ e.waits = {}
    BY <1>3, EndWaitKeeps DEF e
  <2>. HIDE DEF u
  <2>2. Kept(u, path2, packet, coming) /\ Emptied(u) /\ u.stalled = {} /\ u.waits = {}
    BY <2>1, UnpackKeeps DEF u
  <2>. HIDE DEF v
  <2>3. /\ Kept(v, path2, packet, coming) /\ Emptied(v) /\ v.waits = {}
        /\ HasStalled(v) => v.command = NoCommand
    BY <2>2, CheckStallKeeps DEF v
  <2>4. Kept(vif', path2', packet', coming) /\ GifTypes2'
    <3>1. CASE HasStalled(v) \/ v.internal = <<>>
      <4>1. /\ vif' = [v EXCEPT !.transfer = FALSE]
            /\ path2' = (IF Leaves(v) THEN "idle" ELSE path2)
            /\ packet' = packet /\ requested' = requested
        BY <1>4, <1>6, <3>1
      <4>. QED BY <1>1, <2>3, <3>1, <4>1, LeaveKeeps
    <3>2. CASE ~(HasStalled(v) \/ v.internal = <<>>)
      <4>1. ProcessDataWord(v)
        BY <1>4, <1>6, <3>2
      <4>. QED BY <1>1, <2>3, <3>2, <4>1, WordKeeps
    <3>. QED BY <3>1, <3>2
  <2>5. running' \in BOOLEAN
    <3>1. running' = (running \/ Starts(f))
      BY <1>4, <1>6
    <3>. QED BY <3>1
  <2>6. vif' \in VifState
    BY <2>4 DEF Kept
  <2>. QED BY <1>1, <1>2, <2>4, <2>5, <2>6 DEF VifInvariant, VifTypeOK, GifTypes2
<1>. QED BY <1>5, <1>6

-----------------------------------------------------------------------------
(* The other actions                                                       *)
LEMMA KeptMoved ==
  ASSUME NEW v, NEW w \in VifState, NEW path, NEW within, NEW c, NEW d \in Seq(VifWords),
         Kept(v, path, within, c), Words(w, d) = Words(v, c), w.command = v.command,
         w.len = v.len, w.code = v.code, w.waits = v.waits, w.bits = v.bits, w.num = v.num,
         w.blocks = v.blocks, w.transfer = v.transfer, w.internal = v.internal
  PROVE  Kept(w, path, within, d)
PROOF
<1>1. At(w, Words(w, d)) /\ Whole(Words(w, d))
  BY DEF Kept, At
<1>2. CodeKept(w) /\ Path2Kept(w, path, within)
  BY DEF Kept, CodeKept, Path2Kept
<1>3. UnpackKept(w)
  BY DEF Kept, UnpackKept, Format, BitsSeen
<1>4. w.bits <= 128 /\ Len(w.internal) <= InternalSize
  BY DEF Kept
<1>. QED BY <1>1, <1>2, <1>3, <1>4 DEF Kept

LEMMA InvariantIs ==
  ASSUME VifInvariant
  PROVE  /\ Kept(vif, path2, packet, coming) /\ vif \in VifState /\ coming \in Seq(VifWords)
         /\ requested \in BOOLEAN /\ running \in BOOLEAN /\ packet \in BOOLEAN
         /\ path2 \in {"idle", "queued", "active"} /\ other \in {"none", "path1", "path3"}
         /\ program \in Seq(Names) /\ program # <<>>
BY DEF VifInvariant, VifTypeOK, Kept

LEMMA InvariantFrom ==
  ASSUME Kept(vif', path2', packet', coming'), requested' \in BOOLEAN, running' \in BOOLEAN,
         packet' \in BOOLEAN, path2' \in {"idle", "queued", "active"},
         other' \in {"none", "path1", "path3"}, program' \in Seq(Names), program' # <<>>
  PROVE  VifInvariant'
PROOF
<1>1. vif' \in VifState
  BY DEF Kept
<1>. QED BY <1>1 DEF VifInvariant, VifTypeOK

LEMMA FeedKeeps ==
  ASSUME VifInvariant, Feed
  PROVE  VifInvariant'
PROOF
<1>1. requested /\ running' = running /\ path2' = path2 /\ packet' = packet /\ other' = other
      /\ program' = program
  BY DEF Feed, env
<1>2. PICK n \in {Quad, Tag} :
        /\ Len(coming) >= n
        /\ IF Len(vif.fifo) > FifoSize - n
           THEN requested' = FALSE /\ UNCHANGED <<vif, coming>>
           ELSE /\ vif' = [vif EXCEPT !.fifo = @ \o SubSeq(coming, 1, n)]
                /\ coming' = SubSeq(coming, n + 1, Len(coming))
                /\ UNCHANGED requested
  BY DEF Feed
<1>3. CASE Len(vif.fifo) > FifoSize - n
  <2>1. requested' = FALSE /\ vif' = vif /\ coming' = coming
    BY <1>2, <1>3
  <2>2. Kept(vif', path2', packet', coming')
    BY <1>1, <2>1, InvariantIs
  <2>. QED BY <1>1, <2>1, <2>2, InvariantIs, InvariantFrom
<1>4. CASE ~(Len(vif.fifo) > FifoSize - n)
  <2>. DEFINE i == vif.internal
              f == vif.fifo
              a == SubSeq(coming, 1, n)
              b == SubSeq(coming, n + 1, Len(coming))
              w == [vif EXCEPT !.fifo = f \o a]
  <2>1. vif' = w /\ coming' = b /\ requested' = requested
    BY <1>2, <1>4
  <2>2. n \in 0 .. Len(coming)
    <3>1. n \in Nat
      BY VifAssumption
    <3>2. Len(coming) \in Nat
      BY InvariantIs, LenProperties
    <3>. QED BY <1>2, <3>1, <3>2
  <2>3. coming \in Seq(VifWords) /\ vif \in VifState
    BY InvariantIs
  <2>4. i \in Seq(VifWords) /\ f \in Seq(VifWords)
    BY <2>3, FieldsOf
  <2>5. a \in Seq(VifWords) /\ b \in Seq(VifWords) /\ a \o b = coming
    BY <2>2, <2>3, SplitJoined
  <2>. HIDE DEF a, b, i, f
  <2>6. f \o a \in Seq(VifWords) /\ i \o f \in Seq(VifWords)
    BY <2>4, <2>5, ConcatProperties
  <2>7. w \in VifState
    BY <2>3, <2>6 DEF VifState, VifWords
  <2>8. /\ w.internal = i /\ w.fifo = f \o a /\ w.command = vif.command /\ w.len = vif.len
        /\ w.code = vif.code /\ w.waits = vif.waits /\ w.bits = vif.bits /\ w.num = vif.num
        /\ w.blocks = vif.blocks /\ w.transfer = vif.transfer
    BY <2>3 DEF VifState, i
  <2>. HIDE DEF w
  <2>9. (i \o (f \o a)) \o b = (i \o f) \o coming
    <3>1. (i \o f) \o a = i \o (f \o a)
      BY <2>4, <2>5, Regrouped
    <3>2. ((i \o f) \o a) \o b = (i \o f) \o (a \o b)
      <4>. DEFINE g == i \o f
      <4>1. g \in Seq(VifWords) /\ a \in Seq(VifWords) /\ b \in Seq(VifWords)
        BY <2>5, <2>6
      <4>. HIDE DEF g
      <4>2. (g \o a) \o b = g \o (a \o b)
        BY <4>1, Regrouped
      <4>. QED BY <4>2 DEF g
    <3>. QED BY <2>5, <3>1, <3>2
  <2>10. Words(w, b) = Words(vif, coming)
    BY <2>8, <2>9 DEF Words, i, f
  <2>11. w.internal = vif.internal
    BY <2>8 DEF i
  <2>12. Kept(w, path2, packet, b)
    BY <2>5, <2>7, <2>8, <2>10, <2>11, InvariantIs, KeptMoved
  <2>13. Kept(vif', path2', packet', coming')
    BY <1>1, <2>1, <2>12
  <2>. QED BY <1>1, <2>1, <2>13, InvariantIs, InvariantFrom
<1>. QED BY <1>3, <1>4

LEMMA PrepareKeeps ==
  ASSUME VifInvariant, Prepare
  PROVE  VifInvariant'
PROOF
<1>. DEFINE k == Head(program)
            e == Prepared(k)
            i == vif.internal
            f == vif.fifo
            s == Words(vif, coming)
            t == Words(vif, coming \o e)
<1>1. /\ coming' = coming \o e /\ program' = Append(Tail(program), k)
      /\ vif' = vif /\ requested' = requested /\ running' = running /\ path2' = path2
      /\ packet' = packet /\ other' = other
  BY DEF Prepare, Prepared, env
<1>2. program \in Seq(Names) /\ program # <<>> /\ coming \in Seq(VifWords) /\ vif \in VifState
      /\ Kept(vif, path2, packet, coming)
  BY InvariantIs
<1>3. k \in Names /\ Tail(program) \in Seq(Names)
  BY <1>2, HeadTailProperties
<1>. HIDE DEF k
<1>4. Append(Tail(program), k) \in Seq(Names) /\ Append(Tail(program), k) # <<>>
  <2>. DEFINE p == Tail(program)
  <2>. HIDE DEF p
  <2>1. p \in Seq(Names)
    BY <1>3 DEF p
  <2>2. Append(p, k) \in Seq(Names) /\ Append(p, k) # <<>>
    BY <1>3, <2>1
  <2>. QED BY <2>2 DEF p
<1>5. /\ e \in Seq(VifWords) /\ Len(e) = 1 + Count[k] /\ Whole(e)
      /\ \A j \in 1 .. 1 + Count[k] : e[j] = Word(k, j - 1)
  BY <1>3, PreparedIs
<1>6. Count[k] \in Nat
  BY <1>3, CommandIs
<1>7. e # <<>> /\ e[1].place = 0
  <2>. DEFINE n == Count[k]
  <2>. HIDE DEF e, n
  <2>1. n \in Nat /\ Len(e) = 1 + n
    BY <1>5, <1>6 DEF n
  <2>2. Len(e) # 0 /\ 1 \in 1 .. 1 + n
    BY <2>1
  <2>3. e # <<>>
    BY <2>2, EmptySeq
  <2>4. e[1] = Word(k, 1 - 1)
    BY <1>5, <2>2 DEF n
  <2>5. Word(k, 1 - 1).place = 0
    BY DEF Word
  <2>. QED BY <2>3, <2>4, <2>5
<1>. HIDE DEF e
<1>8. s \in Seq(VifWords) /\ i \o f \in Seq(VifWords)
  BY <1>2, WordsAre
<1>9. t = s \o e
  <2>1. ((i \o f) \o coming) \o e = (i \o f) \o (coming \o e)
    <3>. DEFINE g == i \o f
    <3>1. g \in Seq(VifWords) /\ coming \in Seq(VifWords) /\ e \in Seq(VifWords)
      BY <1>2, <1>5, <1>8
    <3>. HIDE DEF g
    <3>2. (g \o coming) \o e = g \o (coming \o e)
      BY <3>1, Regrouped
    <3>. QED BY <3>2 DEF g
  <2>. QED BY <2>1 DEF Words
<1>10. coming \o e \in Seq(VifWords)
  BY <1>2, <1>5, ConcatProperties
<1>. HIDE DEF s, t
<1>11. Whole(s) /\ At(vif, s)
  BY <1>2 DEF Kept, s
<1>12. Whole(t)
  BY <1>5, <1>7, <1>8, <1>9, <1>11, WholeMore
<1>13. At(vif, t)
  <2>1. CASE s = <<>>
    <3>1. t = e
      BY <1>5, <1>9, <2>1, ConcatEmptySeq
    <3>2. vif.len = 0
      BY <1>11, <2>1 DEF At
    <3>. QED BY <1>7, <3>1, <3>2 DEF At
  <2>2. CASE s # <<>>
    <3>1. t # <<>> /\ t[1] = s[1]
      BY <1>5, <1>8, <1>9, <2>2, TailJoined
    <3>. QED BY <1>11, <2>2, <3>1 DEF At
  <2>. QED BY <2>1, <2>2
<1>14. Kept(vif, path2, packet, coming \o e)
  BY <1>2, <1>10, <1>12, <1>13 DEF Kept, t
<1>15. Kept(vif', path2', packet', coming')
  BY <1>1, <1>14 DEF e
<1>. QED BY <1>1, <1>4, <1>15, InvariantIs, InvariantFrom

(* The fields that only stalls and the program's controls change.          *)
LEMMA ControlKeeps ==
  ASSUME VifInvariant, NEW w \in VifState, vif' = w, UNCHANGED <<requested, env, data>>,
         w.internal = vif.internal, w.fifo = vif.fifo, w.command = vif.command,
         w.len = vif.len, w.code = vif.code, w.waits = vif.waits, w.bits = vif.bits,
         w.num = vif.num, w.blocks = vif.blocks, w.transfer = vif.transfer
  PROVE  VifInvariant'
PROOF
<1>1. /\ requested' = requested /\ running' = running /\ path2' = path2 /\ packet' = packet
      /\ other' = other /\ program' = program /\ coming' = coming
  BY DEF env, data
<1>2. Words(w, coming) = Words(vif, coming)
  BY DEF Words
<1>3. Kept(vif, path2, packet, coming) /\ coming \in Seq(VifWords)
  BY InvariantIs
<1>4. Kept(w, path2, packet, coming)
  BY <1>2, <1>3, KeptMoved
<1>5. Kept(vif', path2', packet', coming')
  BY <1>1, <1>4
<1>. QED BY <1>1, <1>5, InvariantIs, InvariantFrom

LEMMA RetryKeeps ==
  ASSUME VifInvariant, Retry
  PROVE  VifInvariant'
PROOF
<1>. DEFINE z == vif.stalled \ {"direct", "mskpath3"}
            w == [vif EXCEPT !.stalled = z]
<1>1. vif \in VifState
  BY InvariantIs
<1>2. vif' = w /\ UNCHANGED <<requested, env, data>>
  BY <1>1 DEF Retry, VifState
<1>3. z \in SUBSET {"ibit", "mskpath3", "stop", "direct", "forcebreak"}
  <2>1. vif.stalled \in SUBSET {"ibit", "mskpath3", "stop", "direct", "forcebreak"}
    BY <1>1, FieldsOf
  <2>. QED BY <2>1
<1>. HIDE DEF z
<1>4. w \in VifState
  BY <1>1, <1>3 DEF VifState
<1>5. /\ w.internal = vif.internal /\ w.fifo = vif.fifo /\ w.command = vif.command
      /\ w.len = vif.len /\ w.code = vif.code /\ w.waits = vif.waits /\ w.bits = vif.bits
      /\ w.num = vif.num /\ w.blocks = vif.blocks /\ w.transfer = vif.transfer
  BY <1>1 DEF VifState
<1>. HIDE DEF w
<1>. QED BY <1>2, <1>4, <1>5, ControlKeeps

LEMMA ResumeKeeps ==
  ASSUME VifInvariant, Resume
  PROVE  VifInvariant'
PROOF
<1>. DEFINE z == vif.stalled \ {"ibit", "stop", "forcebreak"}
            w == [vif EXCEPT !.stalled = z, !.interrupt = FALSE, !.stop = FALSE, !.broken = FALSE]
<1>1. vif \in VifState
  BY InvariantIs
<1>2. vif' = w /\ UNCHANGED <<requested, env, data>>
  BY <1>1 DEF Resume, VifState
<1>3. z \in SUBSET {"ibit", "mskpath3", "stop", "direct", "forcebreak"}
  <2>1. vif.stalled \in SUBSET {"ibit", "mskpath3", "stop", "direct", "forcebreak"}
    BY <1>1, FieldsOf
  <2>. QED BY <2>1
<1>. HIDE DEF z
<1>4. w \in VifState
  BY <1>1, <1>3 DEF VifState
<1>5. /\ w.internal = vif.internal /\ w.fifo = vif.fifo /\ w.command = vif.command
      /\ w.len = vif.len /\ w.code = vif.code /\ w.waits = vif.waits /\ w.bits = vif.bits
      /\ w.num = vif.num /\ w.blocks = vif.blocks /\ w.transfer = vif.transfer
  BY <1>1 DEF VifState
<1>. HIDE DEF w
<1>. QED BY <1>2, <1>4, <1>5, ControlKeeps

LEMMA StopKeeps ==
  ASSUME VifInvariant, Stop
  PROVE  VifInvariant'
PROOF
<1>. DEFINE w == [vif EXCEPT !.stop = TRUE]
<1>1. vif \in VifState
  BY InvariantIs
<1>2. vif' = w /\ UNCHANGED <<requested, env, data>>
  BY DEF Stop, Controlling
<1>4. w \in VifState
  BY <1>1 DEF VifState
<1>5. /\ w.internal = vif.internal /\ w.fifo = vif.fifo /\ w.command = vif.command
      /\ w.len = vif.len /\ w.code = vif.code /\ w.waits = vif.waits /\ w.bits = vif.bits
      /\ w.num = vif.num /\ w.blocks = vif.blocks /\ w.transfer = vif.transfer
  BY <1>1 DEF VifState
<1>. HIDE DEF w
<1>. QED BY <1>2, <1>4, <1>5, ControlKeeps

(* A break or a reset between two commands, which is all that a careful    *)
(* program does.                                                           *)
LEMMA IdleKeeps ==
  ASSUME VifInvariant, NEW w \in VifState, vif.len = 0, vif.command = NoCommand,
         w.command = NoCommand, w.len = 0, w.waits = {}, w.bits = 0,
         w.internal = vif.internal, w.fifo = vif.fifo, vif' = w, coming' = coming,
         UNCHANGED <<requested, env, program>>
  PROVE  VifInvariant'
PROOF
<1>1. Kept(vif, path2, packet, coming) /\ coming \in Seq(VifWords)
  BY InvariantIs
<1>2. Words(w, coming) = Words(vif, coming)
  BY DEF Words
<1>3. Whole(Words(w, coming)) /\ At(w, Words(w, coming))
  BY <1>1, <1>2 DEF Kept, At
<1>4. Path2Kept(w, path2, packet)
  <2>1. path2 = "idle" /\ packet # TRUE
    BY <1>1, NoneIsNone DEF Kept, Path2Kept
  <2>. QED BY <2>1, NoneIsNone DEF Path2Kept
<1>5. CodeKept(w) /\ UnpackKept(w)
  BY NoneIsNone DEF CodeKept, UnpackKept
<1>6. w.bits <= 128 /\ Len(w.internal) <= InternalSize
  BY <1>1 DEF Kept
<1>7. Kept(w, path2, packet, coming)
  BY <1>1, <1>3, <1>4, <1>5, <1>6 DEF Kept
<1>8. /\ requested' = requested /\ running' = running /\ path2' = path2 /\ packet' = packet
      /\ other' = other /\ program' = program
  BY DEF env
<1>9. Kept(vif', path2', packet', coming')
  BY <1>7, <1>8
<1>. QED BY <1>8, <1>9, InvariantIs, InvariantFrom

LEMMA ForceBreakKeeps ==
  ASSUME Careful = TRUE, VifInvariant, ForceBreak
  PROVE  VifInvariant'
PROOF
<1>. DEFINE w == [vif EXCEPT !.command = NoCommand, !.len = 0, !.waits = {}, !.broken = TRUE,
                             !.transfer = FALSE, !.bits = 0]
<1>1. vif \in VifState
  BY InvariantIs
<1>2. vif.len = 0 /\ vif.command = NoCommand
  BY DEF ForceBreak
<1>3. vif' = w /\ coming' = coming /\ UNCHANGED <<requested, env, program>>
  BY DEF ForceBreak, Controlling, data
<1>4. w \in VifState
  BY <1>1 DEF VifState
<1>5. /\ w.command = NoCommand /\ w.len = 0 /\ w.waits = {} /\ w.bits = 0
      /\ w.internal = vif.internal /\ w.fifo = vif.fifo
  BY <1>1 DEF VifState
<1>. HIDE DEF w
<1>. QED BY <1>2, <1>3, <1>4, <1>5, IdleKeeps

LEMMA ResetKeeps ==
  ASSUME Careful = TRUE, VifInvariant, Reset
  PROVE  VifInvariant'
PROOF
<1>. DEFINE w == [vif EXCEPT !.command = NoCommand, !.len = 0, !.code = NoCommand, !.waits = {},
                             !.stalled = {}, !.ibit = FALSE, !.interrupt = FALSE,
                             !.stop = FALSE, !.broken = FALSE, !.transfer = FALSE, !.bits = 0,
                             !.fifo = <<>>]
<1>1. vif \in VifState
  BY InvariantIs
<1>2. vif.len = 0 /\ vif.command = NoCommand /\ vif.fifo = <<>>
  BY DEF Reset
<1>3. vif' = w /\ coming' = coming /\ UNCHANGED <<requested, env, program>>
  BY <1>2 DEF Reset, Controlling
<1>4. w \in VifState
  <2>1. <<>> \in Seq(VifWords)
    BY EmptySeq
  <2>. QED BY <1>1, <2>1 DEF VifState, VifWords
<1>5. /\ w.command = NoCommand /\ w.len = 0 /\ w.waits = {} /\ w.bits = 0
      /\ w.internal = vif.internal /\ w.fifo = <<>>
  BY <1>1 DEF VifState
<1>. HIDE DEF w
<1>. QED BY <1>2, <1>3, <1>4, <1>5, IdleKeeps

LEMMA OthersKeep ==
  ASSUME VifInvariant, UnitStops \/ OtherPathStarts \/ OtherPathEnds
  PROVE  VifInvariant'
PROOF
<1>1. vif' = vif /\ requested' = requested /\ packet' = packet /\ program' = program
      /\ coming' = coming
  BY DEF UnitStops, OtherPathStarts, OtherPathEnds, data
<1>2. path2' = path2 \/ (path2 = "queued" /\ path2' = "active")
  BY DEF UnitStops, OtherPathStarts, OtherPathEnds
<1>3. running' \in BOOLEAN /\ other' \in {"none", "path1", "path3"}
  BY InvariantIs DEF UnitStops, OtherPathStarts, OtherPathEnds
<1>4. Kept(vif, path2, packet, coming)
  BY InvariantIs
<1>5. Path2Kept(vif, path2', packet)
  BY <1>2, <1>4 DEF Kept, Path2Kept
<1>6. Kept(vif, path2', packet, coming)
  BY <1>4, <1>5 DEF Kept
<1>7. Kept(vif', path2', packet', coming')
  BY <1>1, <1>6
<1>8. path2' \in {"idle", "queued", "active"}
  BY <1>2, InvariantIs
<1>. QED BY <1>1, <1>3, <1>7, <1>8, InvariantIs, InvariantFrom

LEMMA VifStarts ==
  ASSUME VifInit
  PROVE  VifInvariant
PROOF
<1>1. /\ vif.internal = <<>> /\ vif.fifo = <<>> /\ vif.command = NoCommand /\ vif.len = 0
      /\ vif.code = NoCommand /\ vif.waits = {} /\ vif.bits = 0 /\ vif.num = 0
  BY DEF VifInit
<1>2. /\ requested = TRUE /\ running = FALSE /\ path2 = "idle" /\ packet = FALSE
      /\ other = "none" /\ program \in Programs /\ coming = <<>>
  BY DEF VifInit
<1>3. <<>> \in Seq(VifWords) /\ Len(<<>>) = 0
  BY EmptySeq
<1>4. vif \in VifState
  <2>. DEFINE e == <<>>
  <2>1. vif = [fifo |-> e, internal |-> e, command |-> NoCommand, len |-> 0, code |-> NoCommand,
               waits |-> {}, bits |-> 0, num |-> 0, blocks |-> 0,
               ibit |-> FALSE, stop |-> FALSE, broken |-> FALSE, stalled |-> {},
               interrupt |-> FALSE, transfer |-> FALSE]
    BY DEF VifInit
  <2>2. e \in Seq(VifWords)
    BY <1>3
  <2>. HIDE DEF e
  <2>. QED BY <2>1, <2>2 DEF VifState, VifWords
<1>5. Words(vif, coming) = <<>>
  <2>. DEFINE e == <<>>
  <2>1. e \in Seq(VifWords)
    BY <1>3
  <2>2. e \o e = e
    BY <2>1, ConcatEmptySeq
  <2>. QED BY <1>1, <1>2, <2>2 DEF Words
<1>6. At(vif, Words(vif, coming))
  BY <1>1, <1>5 DEF At
<1>7. Whole(Words(vif, coming))
  BY <1>3, <1>5 DEF Whole
<1>8. CodeKept(vif) /\ UnpackKept(vif) /\ Path2Kept(vif, path2, packet)
  BY <1>1, <1>2, NoneIsNone DEF CodeKept, UnpackKept, Path2Kept
<1>9. Len(vif.internal) <= InternalSize /\ vif.bits <= 128
  <2>1. InternalSize \in Nat
    BY VifAssumption
  <2>. QED BY <1>1, <1>3, <2>1
<1>10. Kept(vif, path2, packet, coming)
  BY <1>2, <1>3, <1>4, <1>6, <1>7, <1>8, <1>9 DEF Kept
<1>11. program \in Seq(Names) /\ program # <<>>
  BY <1>2, VifAssumption DEF Names
<1>. QED BY <1>2, <1>4, <1>10, <1>11 DEF VifInvariant, VifTypeOK

LEMMA VifSteps ==
  ASSUME Careful = TRUE, VifInvariant, [VifNext]_vifVars
  PROVE  VifInvariant'
PROOF
<1>1. CASE Turn
  BY <1>1, TurnKeeps
<1>2. CASE Retry
  BY <1>2, RetryKeeps
<1>3. CASE Feed
  BY <1>3, FeedKeeps
<1>4. CASE Prepare
  BY <1>4, PrepareKeeps
<1>5. CASE Resume
  BY <1>5, ResumeKeeps
<1>6. CASE Stop
  BY <1>6, StopKeeps
<1>7. CASE ForceBreak
  BY <1>7, ForceBreakKeeps
<1>8. CASE Reset
  BY <1>8, ResetKeeps
<1>9. CASE UnitStops \/ OtherPathStarts \/ OtherPathEnds
  BY <1>9, OthersKeep
<1>10. CASE UNCHANGED vifVars
  <2>1. /\ vif' = vif /\ requested' = requested /\ running' = running /\ path2' = path2
        /\ packet' = packet /\ other' = other /\ program' = program /\ coming' = coming
    BY <1>10 DEF vifVars, env, data
  <2>2. Kept(vif', path2', packet', coming')
    BY <2>1, InvariantIs
  <2>. QED BY <2>1, <2>2, InvariantIs, InvariantFrom
<1>. QED BY <1>1, <1>2, <1>3, <1>4, <1>5, <1>6, <1>7, <1>8, <1>9, <1>10 DEF VifNext

(* The inductive invariant of a careful program: the words that are on     *)
(* their way are whole commands, and the interface is at the first of them *)
(* (VectorInterface).                                                      *)
THEOREM VifInvariance == ASSUME Careful = TRUE PROVE VifSpec => []VifInvariant
PROOF
<1>1. VifInit => VifInvariant
  BY VifStarts
<1>2. VifInvariant /\ [VifNext]_vifVars => VifInvariant'
  BY VifSteps
<1>. QED BY <1>1, <1>2, PTL DEF VifSpec

(* The interface's fields keep their types (VectorInterface).              *)
THEOREM VifTypes == ASSUME Careful = TRUE PROVE VifSpec => []VifTypeOK
PROOF
<1>1. VifInvariant => VifTypeOK
  BY DEF VifInvariant
<1>. QED BY <1>1, VifInvariance, PTL

LEMMA InStepHolds == ASSUME VifInvariant PROVE InStep
PROOF
<1>. DEFINE a == vif.internal \o vif.fifo
            s == Words(vif, coming)
            k == vif.command
<1>1. Kept(vif, path2, packet, coming) /\ coming \in Seq(VifWords) /\ vif \in VifState
  BY InvariantIs
<1>2. a \in Seq(VifWords)
  BY <1>1, WordsAre
<1>3. At(vif, s) /\ s = a \o coming
  BY <1>1 DEF Kept, Words
<1>. HIDE DEF a, s
<1>4. ASSUME a # <<>>
      PROVE  IF vif.len = 0 THEN Head(a).place = 0
             ELSE /\ k # NoCommand /\ Head(a).of = k
                  /\ Head(a).place = Count[k] - vif.len + 1
  <2>1. s # <<>> /\ s[1] = a[1] /\ Head(a) = a[1]
    BY <1>1, <1>2, <1>3, <1>4, TailJoined
  <2>2. CASE vif.len = 0
    BY <1>3, <2>1, <2>2 DEF At
  <2>3. CASE vif.len # 0
    <3>1. k # NoCommand /\ s[1] = Word(k, Count[k] - vif.len + 1)
      BY <1>3, <2>3 DEF At
    <3>2. s[1].of = k /\ s[1].place = Count[k] - vif.len + 1
      BY <3>1 DEF Word
    <3>. QED BY <2>1, <2>3, <3>1, <3>2
  <2>. QED BY <2>2, <2>3
<1>. QED BY <1>4 DEF InStep, a

LEMMA UnpackFitsHolds == ASSUME VifInvariant PROVE UnpackFits
PROOF
<1>1. Kept(vif, path2, packet, coming) /\ vif \in VifState
  BY InvariantIs
<1>2. vif.bits <= 128
  BY <1>1 DEF Kept
<1>3. ASSUME Op(vif.command) = "unpack", vif.len = 0
      PROVE  LET c == Commands[vif.command]
                 next == IF c.vn = 2 /\ c.vl = 0 /\ c.cl < c.wl THEN 32 ELSE 0
             IN Unpack([vif EXCEPT !.bits = @ + next]).command = NoCommand
  <2>. DEFINE c == Commands[vif.command]
              next == Spare(c)
              b == vif.bits + next
              w == [vif EXCEPT !.bits = b]
              t == [w EXCEPT !.transfer = TRUE]
              p == QuadBits(c) * Reads(c)
              a == UnpackWords(c)
              r == QuadBits(c) * ReadsOf(c, c.num - vif.num)
  <2>1. vif \in Unpacking
    BY <1>1, <1>3 DEF Unpacking
  <2>2. c \in CommandWords /\ vif.bits \in Nat /\ vif.num \in 0 .. 256
    BY <2>1, UnpackingIs
  <2>3. c.num \in 1 .. 256
    <3>. HIDE DEF c, next, b, w, t, p, a, r
    <3>. QED BY <2>2, Parts
  <2>4. next \in Nat /\ next = (IF c.vn = 2 /\ c.vl = 0 /\ c.cl < c.wl THEN 32 ELSE 0)
    BY DEF Spare, Mixed
  <2>5. b \in Nat
    BY <2>2, <2>4
  <2>6. [vif EXCEPT !.bits = @ + next] = w
    BY <1>1 DEF VifState
  <2>. HIDE DEF b
  <2>7. w \in VifState /\ w.command = vif.command
    BY <1>1, <2>5 DEF VifState
  <2>8. t \in VifState /\ t.command = vif.command /\ t.num = vif.num /\ t.blocks = vif.blocks
        /\ t.bits = b
    BY <1>1, <2>5 DEF VifState
  <2>9. Unpack(w) = HandleUnpack[t]
    BY <1>3, <2>7 DEF Unpack
  <2>. HIDE DEF w, t, c, next
  <2>10. t \in Unpacking /\ Format(t) = c
    BY <1>3, <2>8 DEF Unpacking, Format, c
  <2>11. /\ vif.num \in 1 .. c.num /\ vif.blocks = (c.num - vif.num) % c.wl
         /\ BitsSeen(vif) = 32 * (a - 0) \/ BitsSeen(vif) = 32 * a + 32
    BY <1>1, <1>3 DEF Kept, UnpackKept, Format, c
  <2>12. vif.num <= c.num
    <3>. DEFINE x == vif.num
                g == c.num
    <3>1. x \in 1 .. g /\ g \in 1 .. 256
      BY <2>3, <2>11
    <3>. HIDE DEF x, g
    <3>2. x <= g
      BY <3>1
    <3>. QED BY <3>2 DEF x, g
  <2>13. Counting(t)
    BY <2>8, <2>10, <2>11, <2>12 DEF Counting
  <2>14. p \in Nat /\ a \in Nat /\ p <= 32 * a
    BY <2>2, WordsAreEnough
  <2>15. BitsSeen(vif) = vif.bits + r /\ BitsSeen(t) = b + r
    BY <2>8, <2>10 DEF BitsSeen, Format, c
  <2>16. r \in Int
    <3>1. c.num - vif.num \in Nat
      <4>. DEFINE g == c.num
                  n == vif.num
      <4>1. n \in 1 .. g /\ g \in 1 .. 256
        BY <2>3, <2>11
      <4>. HIDE DEF g, n
      <4>2. g - n \in Nat
        BY <4>1
      <4>. QED BY <4>2 DEF g, n
    <3>2. QuadBits(c) \in Nat /\ ReadsOf(c, c.num - vif.num) \in Nat
      BY <2>2, <3>1, QuadBitsIs, ReadsStep
    <3>. QED BY <3>2
  <2>17. b = vif.bits + next
    BY DEF b
  <2>. HIDE DEF p, a, r
  <2>18. p + next <= BitsSeen(t)
    BY <2>2, <2>4, <2>11, <2>14, <2>15, <2>16, <2>17
  <2>19. HandleUnpack[t].command = NoCommand
    BY <2>10, <2>13, <2>18, LoopEnds DEF p, next
  <2>20. Unpack([vif EXCEPT !.bits = @ + next]).command = NoCommand
    BY <2>6, <2>9, <2>19
  <2>. QED BY <2>4, <2>20 DEF c
<1>. QED BY <1>2, <1>3 DEF UnpackFits

LEMMA PathLeftHolds == ASSUME VifInvariant PROVE PathLeft
PROOF
<1>1. Path2Kept(vif, path2, packet) /\ packet \in BOOLEAN
  BY InvariantIs DEF Kept
<1>. QED BY <1>1 DEF Path2Kept, PathLeft

(* No word is lost and none is taken for another, whatever the commands,   *)
(* the stalls, the waits and the sizes of the FIFOs (update, init_UNPACK,  *)
(* process_data_word).                                                     *)
THEOREM WordsStayInStep == ASSUME Careful = TRUE PROVE VifSpec => []InStep
PROOF
<1>1. VifInvariant => InStep
  BY InStepHolds
<1>. QED BY <1>1, VifInvariance, PTL

(* The words that init_UNPACK counts are enough for every quadword, and    *)
(* the buffer of four words holds what is left, for every format, count    *)
(* and cycle (handle_UNPACK).                                              *)
THEOREM UnpackComesToAnEnd == ASSUME Careful = TRUE PROVE VifSpec => []UnpackFits
PROOF
<1>1. VifInvariant => UnpackFits
  BY UnpackFitsHolds
<1>. QED BY <1>1, VifInvariance, PTL

(* Only a DIRECT holds PATH2, and one that waits for its data holds it     *)
(* within a packet only (process_data_word, update).                       *)
THEOREM PathIsLeft == ASSUME Careful = TRUE PROVE VifSpec => []PathLeft
PROOF
<1>1. VifInvariant => PathLeft
  BY PathLeftHolds
<1>. QED BY <1>1, VifInvariance, PTL
=============================================================================

---------------------------- MODULE IopDma_proof ----------------------------
(***************************************************************************)
(* Proofs about IopDma, for any set of channels: whatever order requests,  *)
(* withdrawals, starts, stops and ends of transfers come in, the highest   *)
(* ready channel has the bus and the other ready ones wait, each once.     *)
(*                                                                         *)
(* Turns(a, q, S) says that the active channel a is the highest of S and   *)
(* that the queue q holds the others, each once.                           *)
(*                                                                         *)
(* And about Cdvd, the drive on one of the channels: DriveGood says what   *)
(* the drive has in hand, and what of the last read is still to come.      *)
(***************************************************************************)
EXTENDS Cdvd, SequenceTheorems, TLAPS

(* A leaf that names no backend is given a minute of SMT and then one of Zenon. *)
USE SMTT(60), ZenonT(60)

(* A queue holds exactly the channels of W, each once.                     *)
Holds(q, W) ==
  /\ q \in Seq(Channels)
  /\ \A c \in Channels : c \in W <=> \E i \in 1 .. Len(q) : q[i] = c
  /\ \A i, j \in 1 .. Len(q) : q[i] = q[j] => i = j

Turns(a, q, S) ==
  /\ S \subseteq Channels /\ Holds(q, S \ {a})
  /\ S = {} => a = None
  /\ S # {} => a \in S /\ \A c \in S : c <= a

ReadyIn(d) == {c \in Channels : Ready(d, c)}

(* r is d with an active channel a and a queue q.                          *)
Reordered(r, d, a, q) == r = [d EXCEPT !.active = a, !.queue = q]

LEMMA ChannelsAreNumbers == Channels \subseteq 0 .. 14 /\ None \notin Channels
BY IopDmaAssumption DEF None

LEMMA ChannelIsInt == \A c \in Channels : c \in Int
BY ChannelsAreNumbers

(* Of some channels one is the highest.                                    *)
LEMMA Highest ==
  ASSUME NEW H \in SUBSET Channels, H # {}
  PROVE  \E h \in H : \A c \in H : c <= h
<1>1. H \subseteq 0 .. 14
  BY ChannelsAreNumbers
<1>2. SUFFICES ASSUME \A h \in H : \E c \in H : c > h
               PROVE  FALSE
  BY <1>1
<1> DEFINE B(n) == \E c \in H : c >= n
<1>3. ASSUME NEW n \in 0 .. 14, B(n) PROVE B(n + 1)
  <2>1. PICK h \in H : h >= n
    BY <1>3
  <2>2. PICK c \in H : c > h
    BY <1>2
  <2>3. h \in Int /\ c \in Int
    BY <1>1
  <2>4. c >= n + 1
    BY <2>1, <2>2, <2>3
  <2> QED BY <2>4
<1>4. B(0)
  <2>1. PICK c \in H : TRUE
    OBVIOUS
  <2>2. c \in 0 .. 14 /\ c >= 0
    BY <1>1
  <2> QED BY <2>2
<1> HIDE DEF B
<1>5. B(0) /\ B(1) /\ B(2) /\ B(3) /\ B(4)
  BY <1>3, <1>4
<1>6. B(5) /\ B(6) /\ B(7) /\ B(8) /\ B(9)
  BY <1>3, <1>5
<1>7. B(10) /\ B(11) /\ B(12) /\ B(13) /\ B(14)
  BY <1>3, <1>6
<1>8. B(15)
  BY <1>3, <1>7
<1> QED BY <1>1, <1>8 DEF B

-----------------------------------------------------------------------------
(* Queues                                                                  *)

(* queued_channels.erase takes one channel out and keeps the others.       *)
LEMMA EraseHolds ==
  ASSUME NEW q, NEW W, NEW c \in Channels, Holds(q, W)
  PROVE  Holds(Erase(q, c), W \ {c})
<1> DEFINE r == Erase(q, c)
<1>1. CASE \A i \in 1 .. Len(q) : q[i] # c
  <2>1. r = q
    BY <1>1 DEF Erase
  <2> QED BY <2>1, <1>1 DEF Holds
<1>2. CASE \E i \in 1 .. Len(q) : q[i] = c
  <2> DEFINE k == CHOOSE i \in 1 .. Len(q) : q[i] = c
  <2>1. k \in 1 .. Len(q) /\ q[k] = c
    BY <1>2
  <2> HIDE DEF k
  <2>2. r = [i \in 1 .. Len(q) - 1 |-> IF i < k THEN q[i] ELSE q[i + 1]]
    BY <1>2 DEF Erase, k
  <2>3. q \in Seq(Channels) /\ Len(q) \in Nat
    BY DEF Holds
  <2>4. \A i \in 1 .. Len(q) : q[i] \in Channels
    BY <2>3
  <2>5. r \in Seq(Channels) /\ Len(r) = Len(q) - 1
    BY <2>1, <2>2, <2>3, <2>4
  <2>6. \A i \in 1 .. Len(r) : r[i] = IF i < k THEN q[i] ELSE q[i + 1]
    BY <2>2, <2>5
  <2> HIDE DEF r
  <2>7. ASSUME NEW i \in 1 .. Len(r), NEW j \in 1 .. Len(r), r[i] = r[j]
        PROVE  i = j
    <3> DEFINE From(m) == IF m < k THEN m ELSE m + 1
    <3>1. \A m \in 1 .. Len(r) : From(m) \in 1 .. Len(q) /\ r[m] = q[From(m)]
      BY <2>1, <2>3, <2>5, <2>6
    <3>2. q[From(i)] = q[From(j)]
      BY <3>1, <2>7
    <3> HIDE DEF From
    <3>3. From(i) = From(j)
      BY <3>1, <3>2 DEF Holds
    <3> QED BY <3>3, <2>1, <2>3, <2>5 DEF From
  <2>8. ASSUME NEW i \in 1 .. Len(r), r[i] = c PROVE FALSE
    <3> DEFINE m == IF i < k THEN i ELSE i + 1
    <3>1. m \in 1 .. Len(q) /\ m # k /\ r[i] = q[m]
      BY <2>1, <2>3, <2>5, <2>6
    <3> HIDE DEF m
    <3>2. m = k
      BY <2>1, <2>8, <3>1 DEF Holds
    <3> QED BY <3>1, <3>2
  <2>9. ASSUME NEW x \in Channels, x # c, NEW i \in 1 .. Len(q), q[i] = x
        PROVE  \E j \in 1 .. Len(r) : r[j] = x
    <3>1. i # k
      BY <2>1, <2>9
    <3>2. CASE i < k
      BY <3>2, <2>1, <2>3, <2>5, <2>6, <2>9
    <3>3. CASE i > k
      <4>1. i - 1 \in 1 .. Len(r) /\ ~(i - 1 < k) /\ (i - 1) + 1 = i
        BY <3>3, <2>1, <2>3, <2>5
      <4> QED BY <4>1, <2>6, <2>9
    <3> QED BY <3>1, <3>2, <3>3, <2>1, <2>3
  <2>10. ASSUME NEW j \in 1 .. Len(r)
         PROVE  \E i \in 1 .. Len(q) : q[i] = r[j]
    BY <2>1, <2>3, <2>5, <2>6
  <2>11. ASSUME NEW x \in Channels
         PROVE  x \in W \ {c} <=> \E j \in 1 .. Len(r) : r[j] = x
    <3>1. x \in W <=> \E i \in 1 .. Len(q) : q[i] = x
      BY DEF Holds
    <3>2. CASE x = c
      BY <3>2, <2>8
    <3>3. CASE x # c
      BY <3>1, <3>3, <2>9, <2>10
    <3> QED BY <3>2, <3>3
  <2> QED BY <2>5, <2>7, <2>11 DEF Holds, r
<1> QED BY <1>1, <1>2

(* queued_channels.push_back of a channel that is not there.               *)
LEMMA AppendHolds ==
  ASSUME NEW q, NEW W, NEW c \in Channels, Holds(q, W), c \notin W
  PROVE  Holds(Append(q, c), W \cup {c})
<1> DEFINE r == Append(q, c)
<1>1. q \in Seq(Channels) /\ Len(q) \in Nat /\ \A i \in 1 .. Len(q) : q[i] # c
  BY DEF Holds
<1>2. r \in Seq(Channels) /\ Len(r) = Len(q) + 1
  BY <1>1
<1>3. \A i \in 1 .. Len(r) : r[i] = IF i = Len(q) + 1 THEN c ELSE q[i]
  BY <1>1, <1>2
<1> HIDE DEF r
<1>4. ASSUME NEW x \in Channels
      PROVE  x \in W \cup {c} <=> \E j \in 1 .. Len(r) : r[j] = x
  <2>1. x \in W <=> \E i \in 1 .. Len(q) : q[i] = x
    BY DEF Holds
  <2>2. (\E j \in 1 .. Len(r) : r[j] = x)
          <=> x = c \/ \E i \in 1 .. Len(q) : q[i] = x
    <3>1. ASSUME NEW i \in 1 .. Len(q) PROVE i \in 1 .. Len(r) /\ r[i] = q[i]
      BY <1>1, <1>2, <1>3
    <3>2. Len(r) \in 1 .. Len(r) /\ r[Len(r)] = c
      BY <1>1, <1>2, <1>3
    <3>3. ASSUME NEW j \in 1 .. Len(r), j # Len(q) + 1 PROVE j \in 1 .. Len(q)
      BY <1>1, <1>2, <3>3
    <3> QED BY <3>1, <3>2, <3>3, <1>3
  <2> QED BY <2>1, <2>2
<1>5. \A i, j \in 1 .. Len(r) : r[i] = r[j] => i = j
  BY <1>1, <1>2, <1>3 DEF Holds
<1> QED BY <1>2, <1>4, <1>5 DEF Holds, r

-----------------------------------------------------------------------------
(* Methods                                                                 *)

(* find_new_active_channel chooses the highest that waits.                 *)
LEMMA FindTurns ==
  ASSUME NEW d \in IopDmaState, NEW W \in SUBSET Channels, Holds(d.queue, W)
  PROVE  \E a, q : Turns(a, q, W) /\ Reordered(FindNewActiveChannel(d), d, a, q)
<1> DEFINE p == d.queue
<1>1. CASE p = <<>>
  <2>1. W = {}
    BY <1>1 DEF Holds
  <2>2. Turns(None, p, W)
    BY <2>1 DEF Turns, Holds
  <2>3. Reordered(FindNewActiveChannel(d), d, None, p)
    BY <1>1 DEF FindNewActiveChannel, IopDmaState, Reordered
  <2> QED BY <2>2, <2>3
<1>2. CASE p # <<>>
  <2> DEFINE k == CHOOSE i \in 1 .. Len(p) : \A j \in 1 .. Len(p) : p[j] <= p[i]
             h == p[k]
  <2>1. p \in Seq(Channels) /\ Len(p) \in Nat
          /\ \A i \in 1 .. Len(p) : p[i] \in Channels /\ p[i] \in W
    BY DEF Holds
  <2>2. 1 \in 1 .. Len(p)
    BY <1>2, <2>1
  <2>3. PICK t \in W : \A c \in W : c <= t
    BY <2>1, <2>2, Highest
  <2>4. \E i \in 1 .. Len(p) : \A j \in 1 .. Len(p) : p[j] <= p[i]
    <3>1. PICK i \in 1 .. Len(p) : p[i] = t
      BY <2>3 DEF Holds
    <3> QED BY <2>1, <2>3, <3>1
  <2>5. k \in 1 .. Len(p) /\ \A j \in 1 .. Len(p) : p[j] <= p[k]
    BY <2>4
  <2>6. FindNewActiveChannel(d) = [d EXCEPT !.active = h, !.queue = Erase(p, h)]
    BY <1>2 DEF FindNewActiveChannel
  <2> HIDE DEF k
  <2>7. h \in W
    BY <2>1, <2>5
  <2>8. ASSUME NEW c \in W PROVE c <= h
    <3>1. PICK i \in 1 .. Len(p) : p[i] = c
      BY DEF Holds
    <3> QED BY <2>5, <3>1
  <2>9. Holds(Erase(p, h), W \ {h})
    BY <2>7, EraseHolds
  <2>10. Turns(h, Erase(p, h), W)
    BY <2>7, <2>8, <2>9 DEF Turns
  <2>11. Reordered(FindNewActiveChannel(d), d, h, Erase(p, h))
    BY <2>6 DEF Reordered
  <2> QED BY <2>10, <2>11
<1> QED BY <1>1, <1>2

(* deactivate_dma takes one channel out of the turns.                      *)
LEMMA DeactivateTurns ==
  ASSUME NEW d \in IopDmaState, NEW S, NEW c \in Channels, Turns(d.active, d.queue, S)
  PROVE  \E a, q : Turns(a, q, S \ {c}) /\ Reordered(DeactivateDma(d, c), d, a, q)
<1>1. CASE d.active = c
  <2>1. Holds(d.queue, S \ {c}) /\ S \ {c} \in SUBSET Channels
    BY <1>1 DEF Turns
  <2> QED BY <1>1, <2>1, FindTurns DEF DeactivateDma
<1>2. CASE d.active # c
  <2>1. Holds(Erase(d.queue, c), (S \ {d.active}) \ {c})
    BY EraseHolds DEF Turns
  <2>2. (S \ {d.active}) \ {c} = (S \ {c}) \ {d.active}
    OBVIOUS
  <2>3. Turns(d.active, Erase(d.queue, c), S \ {c})
    BY <1>2, <2>1, <2>2 DEF Turns
  <2>4. Reordered(DeactivateDma(d, c), d, d.active, Erase(d.queue, c))
    BY <1>2 DEF DeactivateDma, IopDmaState, Reordered
  <2> QED BY <2>3, <2>4
<1> QED BY <1>1, <1>2

(* active_dma_check of a ready channel gives it a turn, the bus if it is   *)
(* above the channel that has it.                                          *)
LEMMA CheckTurns ==
  ASSUME NEW d \in IopDmaState, NEW S, NEW c \in Channels,
         Turns(d.active, d.queue, S), c \notin S, Ready(d, c)
  PROVE  \E a, q : Turns(a, q, S \cup {c}) /\ Reordered(ActiveDmaCheck(d, c), d, a, q)
<1> DEFINE b == d.active
<1>1. S \subseteq Channels /\ Holds(d.queue, S \ {b}) /\ S \cup {c} # {}
  BY DEF Turns
<1>2. CASE b = None
  <2>1. S = {}
    BY <1>2, ChannelsAreNumbers DEF Turns
  <2>2. S \ {b} = (S \cup {c}) \ {c}
    BY <2>1
  <2>3. c <= c
    BY ChannelsAreNumbers
  <2>4. Turns(c, d.queue, S \cup {c})
    BY <1>1, <2>1, <2>2, <2>3 DEF Turns
  <2>5. Reordered(ActiveDmaCheck(d, c), d, c, d.queue)
    BY <1>2 DEF ActiveDmaCheck, Ready, IopDmaState, Reordered
  <2> QED BY <2>4, <2>5
<1>3. CASE b # None /\ b < c
  <2>1. b \in S /\ b \in Channels /\ \A x \in S : x <= b
    BY <1>3 DEF Turns
  <2>2. Holds(Append(d.queue, b), (S \ {b}) \cup {b})
    BY <1>1, <2>1, AppendHolds
  <2>3. (S \ {b}) \cup {b} = (S \cup {c}) \ {c}
    BY <2>1
  <2>4. \A x \in S \cup {c} : x <= c
    <3>1. c \in Int /\ b \in Int /\ \A x \in S : x \in Int
      BY <1>1, <2>1, ChannelIsInt
    <3> HIDE DEF b
    <3>2. ASSUME NEW x \in S PROVE x <= c
      <4>1. x <= b /\ x \in Int
        BY <2>1, <3>1
      <4> QED BY <4>1, <1>3, <3>1
    <3> QED BY <3>1, <3>2
  <2>5. Turns(c, Append(d.queue, b), S \cup {c})
    BY <1>1, <2>2, <2>3, <2>4 DEF Turns
  <2>6. Reordered(ActiveDmaCheck(d, c), d, c, Append(d.queue, b))
    BY <1>3 DEF ActiveDmaCheck, Ready, Reordered
  <2> QED BY <2>5, <2>6
<1>4. CASE b # None /\ ~(b < c)
  <2>1. b \in S /\ b \in Channels /\ \A x \in S : x <= b
    BY <1>4 DEF Turns
  <2>2. Holds(Append(d.queue, c), (S \ {b}) \cup {c})
    BY <1>1, AppendHolds
  <2>3. (S \ {b}) \cup {c} = (S \cup {c}) \ {b}
    BY <2>1
  <2>4. \A x \in S \cup {c} : x <= b
    <3>1. c \in Int /\ b \in Int
      BY <2>1, ChannelIsInt
    <3> HIDE DEF b
    <3>2. c <= b
      BY <1>4, <3>1
    <3> QED BY <2>1, <3>2
  <2>5. Turns(b, Append(d.queue, c), S \cup {c})
    BY <1>1, <2>1, <2>2, <2>3, <2>4 DEF Turns
  <2>6. Reordered(ActiveDmaCheck(d, c), d, b, Append(d.queue, c))
    BY <1>4 DEF ActiveDmaCheck, Ready, IopDmaState, Reordered
  <2> QED BY <2>5, <2>6
<1> QED BY <1>2, <1>3, <1>4

-----------------------------------------------------------------------------
(* States                                                                  *)

(* The strengthening of HighestTurn that every method keeps.               *)
Good(d) == d \in IopDmaState /\ Turns(d.active, d.queue, ReadyIn(d))

SameButTurns(r, d) ==
  /\ r.req = d.req /\ r.busy = d.busy /\ r.tagEnd = d.tagEnd
  /\ r.enable = d.enable /\ r.stat = d.stat /\ r.mask = d.mask /\ r.irq = d.irq

LEMMA StateIsNew ==
  ASSUME NEW d \in IopDmaState, NEW a, NEW q, NEW r, Reordered(r, d, a, q)
  PROVE  r.active = a /\ r.queue = q /\ SameButTurns(r, d)
BY DEF Reordered, IopDmaState, SameButTurns

LEMMA StateIsTyped ==
  ASSUME NEW d \in IopDmaState, NEW a \in Channels \cup {None}, NEW q \in Seq(Channels),
         NEW r, Reordered(r, d, a, q)
  PROVE  r \in IopDmaState
BY DEF Reordered, IopDmaState

(* A method that gives the ready channels their turns leaves a good state. *)
LEMMA ReorderedIsGood ==
  ASSUME NEW d \in IopDmaState, NEW r,
         \E a, q : Turns(a, q, ReadyIn(d)) /\ Reordered(r, d, a, q)
  PROVE  Good(r) /\ SameButTurns(r, d)
<1>1. PICK a, q : Turns(a, q, ReadyIn(d)) /\ Reordered(r, d, a, q)
  OBVIOUS
<1>2. a \in Channels \cup {None} /\ q \in Seq(Channels)
  BY <1>1 DEF Turns, Holds
<1>3. r \in IopDmaState
  BY <1>1, <1>2, StateIsTyped
<1>4. r.active = a /\ r.queue = q /\ SameButTurns(r, d)
  BY <1>1, StateIsNew
<1>5. ReadyIn(r) = ReadyIn(d)
  BY <1>4 DEF ReadyIn, Ready, SameButTurns
<1> QED BY <1>1, <1>3, <1>4, <1>5 DEF Good

(* e differs from d in the readiness of c alone.                           *)
Flipped(e, d, c) ==
  /\ e \in IopDmaState /\ e.active = d.active /\ e.queue = d.queue
  /\ \A x \in Channels \ {c} : Ready(e, x) <=> Ready(d, x)

LEMMA UnchangedIsGood ==
  ASSUME NEW d, Good(d), NEW c \in Channels, NEW e, Flipped(e, d, c),
         Ready(e, c) <=> Ready(d, c)
  PROVE  Good(e)
<1>1. ReadyIn(e) = ReadyIn(d)
  BY DEF ReadyIn, Flipped
<1> QED BY <1>1 DEF Good, Flipped

LEMMA CheckIsGood ==
  ASSUME NEW d, Good(d), NEW c \in Channels, NEW e, Flipped(e, d, c), ~Ready(d, c)
  PROVE  Good(ActiveDmaCheck(e, c))
<1>1. CASE Ready(e, c)
  <2>1. ReadyIn(e) = ReadyIn(d) \cup {c} /\ c \notin ReadyIn(d)
    BY <1>1 DEF ReadyIn, Flipped
  <2>2. \E a, q : Turns(a, q, ReadyIn(e)) /\ Reordered(ActiveDmaCheck(e, c), e, a, q)
    <3>1. e \in IopDmaState /\ Turns(e.active, e.queue, ReadyIn(d))
      BY DEF Good, Flipped
    <3>2. \E a, q : Turns(a, q, ReadyIn(d) \cup {c})
                      /\ Reordered(ActiveDmaCheck(e, c), e, a, q)
      BY <1>1, <2>1, <3>1, CheckTurns
    <3> QED BY <2>1, <3>2
  <2> QED BY <2>2, ReorderedIsGood DEF Flipped
<1>2. CASE ~Ready(e, c)
  <2>1. ActiveDmaCheck(e, c) = e
    BY <1>2 DEF ActiveDmaCheck, Ready
  <2> QED BY <1>2, <2>1, UnchangedIsGood
<1> QED BY <1>1, <1>2

LEMMA DeactivateIsGood ==
  ASSUME NEW d, Good(d), NEW c \in Channels, NEW e, Flipped(e, d, c), ~Ready(e, c)
  PROVE  Good(DeactivateDma(e, c)) /\ SameButTurns(DeactivateDma(e, c), e)
<1>1. ReadyIn(e) = ReadyIn(d) \ {c}
  BY DEF ReadyIn, Flipped
<1>2. e \in IopDmaState /\ Turns(e.active, e.queue, ReadyIn(d))
  BY DEF Good, Flipped
<1>3. \E a, q : Turns(a, q, ReadyIn(d) \ {c}) /\ Reordered(DeactivateDma(e, c), e, a, q)
  BY <1>2, DeactivateTurns
<1>4. \E a, q : Turns(a, q, ReadyIn(e)) /\ Reordered(DeactivateDma(e, c), e, a, q)
  BY <1>1, <1>3
<1> QED BY <1>2, <1>4, ReorderedIsGood

(* set_DMA_request                                                         *)
LEMMA SetRequestIsGood ==
  ASSUME NEW d, Good(d), NEW c \in Channels
  PROVE  Good(SetRequest(d, c))
<1> DEFINE e == [d EXCEPT !.req[c] = TRUE]
<1>1. CASE d.req[c]
  BY <1>1 DEF SetRequest
<1>2. CASE ~d.req[c]
  <2>1. Flipped(e, d, c)
    BY DEF Flipped, Good, IopDmaState, Ready
  <2>2. ~Ready(d, c)
    BY <1>2 DEF Ready
  <2> QED BY <1>2, <2>1, <2>2, CheckIsGood DEF SetRequest
<1> QED BY <1>1, <1>2

(* clear_DMA_request                                                       *)
LEMMA ClearRequestIsGood ==
  ASSUME NEW d, Good(d), NEW c \in Channels
  PROVE  Good(ClearRequest(d, c)) /\ ~Ready(ClearRequest(d, c), c)
<1> DEFINE e == [d EXCEPT !.req[c] = FALSE]
<1>1. CASE ~d.req[c]
  BY <1>1 DEF ClearRequest, Ready
<1>2. CASE d.req[c]
  <2>1. Flipped(e, d, c) /\ ~e.req[c]
    BY DEF Flipped, Good, IopDmaState, Ready
  <2> HIDE DEF e
  <2>2. ~Ready(e, c)
    BY <2>1 DEF Ready
  <2>3. Good(DeactivateDma(e, c)) /\ SameButTurns(DeactivateDma(e, c), e)
    BY <2>1, <2>2, DeactivateIsGood
  <2> QED BY <1>2, <2>1, <2>3 DEF ClearRequest, SameButTurns, Ready, e
<1> QED BY <1>1, <1>2

(* transfer_end of the active channel, or of one whose device has just     *)
(* withdrawn its request.                                                  *)
LEMMA TransferEndIsGood ==
  ASSUME NEW d, Good(d), NEW c \in Channels, Ready(d, c) => d.active = c
  PROVE  Good(TransferEnd(d, c))
<1> DEFINE e == [d EXCEPT !.busy[c] = FALSE, !.tagEnd[c] = FALSE]
           f == IF e.active = c THEN FindNewActiveChannel(e) ELSE e
           g == [f EXCEPT !.stat = @ \cup {c}, !.irq = TRUE]
<1>1. Flipped(e, d, c) /\ ~e.busy[c]
  BY DEF Flipped, Good, IopDmaState, Ready
<1> HIDE DEF e
<1>2. ~Ready(e, c)
  BY <1>1 DEF Ready
<1>3. Good(f)
  <2>1. CASE e.active = c
    <3>1. f = DeactivateDma(e, c)
      BY <2>1 DEF DeactivateDma
    <3> HIDE DEF f
    <3> QED BY <1>1, <1>2, <3>1, DeactivateIsGood
  <2>2. CASE e.active # c
    <3>1. ~Ready(d, c)
      BY <1>1, <2>2 DEF Flipped
    <3>2. Good(e)
      BY <1>1, <1>2, <3>1, UnchangedIsGood
    <3> QED BY <2>2, <3>2
  <2> QED BY <2>1, <2>2
<1> HIDE DEF f
<1>4. Flipped(g, f, c) /\ (Ready(g, c) <=> Ready(f, c))
  BY <1>3 DEF Flipped, Good, IopDmaState, Ready
<1> HIDE DEF g
<1>5. Good(g)
  BY <1>3, <1>4, UnchangedIsGood
<1>6. TransferEnd(d, c) = IF c \in d.mask THEN g ELSE f
  BY DEF TransferEnd, e, f, g
<1> QED BY <1>3, <1>5, <1>6

(* A write of the registers of a channel.                                  *)
LEMMA SetBusyIsGood ==
  ASSUME NEW d, Good(d), NEW c \in Channels, NEW busy \in BOOLEAN
  PROVE  Good(SetBusy(d, c, busy))
<1> DEFINE e == [d EXCEPT !.busy[c] = busy]
<1>1. Flipped(e, d, c) /\ e.busy[c] = busy /\ e.req = d.req
  BY DEF Flipped, Good, IopDmaState, Ready
<1>2. SetBusy(d, c, busy) = IF busy /\ ~d.busy[c] THEN ActiveDmaCheck(e, c)
                            ELSE IF ~busy /\ d.busy[c] THEN DeactivateDma(e, c)
                            ELSE e
  BY DEF SetBusy
<1> HIDE DEF e
<1>3. CASE busy /\ ~d.busy[c]
  <2>1. ~Ready(d, c)
    BY <1>3 DEF Ready
  <2> QED BY <1>1, <1>2, <1>3, <2>1, CheckIsGood
<1>4. CASE ~busy /\ d.busy[c]
  <2>1. ~Ready(e, c)
    BY <1>1, <1>4 DEF Ready
  <2> QED BY <1>1, <1>2, <1>4, <2>1, DeactivateIsGood
<1>5. CASE busy <=> d.busy[c]
  <2>1. d.busy[c] \in BOOLEAN
    BY DEF Good, IopDmaState
  <2>2. Ready(e, c) <=> Ready(d, c)
    BY <1>1, <1>5 DEF Ready
  <2>3. SetBusy(d, c, busy) = e
    BY <1>2, <1>5
  <2> QED BY <1>1, <2>2, <2>3, UnchangedIsGood
<1> QED BY <1>3, <1>4, <1>5

(* Whoever writes the other fields leaves the turns alone.                 *)
LEMMA OtherFieldsAreGood ==
  ASSUME NEW d, Good(d), NEW e \in IopDmaState,
         e.active = d.active, e.queue = d.queue, e.req = d.req, e.busy = d.busy
  PROVE  Good(e)
<1>1. ReadyIn(e) = ReadyIn(d)
  BY DEF ReadyIn, Ready
<1> QED BY <1>1 DEF Good

LEMMA GoodIsHighest ==
  ASSUME NEW d, Good(d) PROVE HighestTurn(d)
<1> DEFINE S == ReadyIn(d)
<1>1. Turns(d.active, d.queue, S) /\ S \subseteq Channels
        /\ (d.active \in Channels \/ d.active = None)
  BY DEF Good, IopDmaState, ReadyIn
<1>2. \A c \in Channels : c \in S <=> Ready(d, c)
  BY DEF ReadyIn
<1> HIDE DEF S
<1>3. d.active # None => Ready(d, d.active)
  BY <1>1, <1>2, ChannelsAreNumbers DEF Turns
<1>4. \A c \in Channels : Ready(d, c) => d.active # None /\ c <= d.active
  BY <1>1, <1>2, ChannelsAreNumbers DEF Turns
<1>5. \A c \in Channels : Waits(d, c) <=> Ready(d, c) /\ c # d.active
  BY <1>1, <1>2 DEF Turns, Holds, Waits
<1>6. \A i, j \in 1 .. Len(d.queue) : d.queue[i] = d.queue[j] => i = j
  BY <1>1 DEF Turns, Holds
<1> QED BY <1>3, <1>4, <1>5, <1>6 DEF HighestTurn

-----------------------------------------------------------------------------
(* The specification                                                       *)

IopDmaInv == Good(dma)

LEMMA IopDmaInitGood == IopDmaInit => IopDmaInv
<1> SUFFICES ASSUME IopDmaInit PROVE Good(dma)
  BY DEF IopDmaInv
<1>1. dma \in IopDmaState
  <2> DEFINE req == [c \in Channels |-> c \in Requesting]
  <2>1. req \in [Channels -> BOOLEAN]
    OBVIOUS
  <2>2. dma = [active |-> None, queue |-> <<>>, req |-> req,
               busy |-> [c \in Channels |-> FALSE],
               tagEnd |-> [c \in Channels |-> FALSE],
               enable |-> {}, stat |-> {}, mask |-> {}, irq |-> FALSE]
    BY DEF IopDmaInit
  <2> HIDE DEF req
  <2> QED BY <2>1, <2>2 DEF IopDmaState
<1>2. ReadyIn(dma) = {} /\ dma.active = None /\ dma.queue = <<>>
  BY DEF IopDmaInit, ReadyIn, Ready
<1> QED BY <1>1, <1>2 DEF Good, Turns, Holds

LEMMA ProcessIsGood ==
  ASSUME IopDmaInv, NEW c \in Channels, Process(c)
  PROVE  IopDmaInv'
<1>1. PICK withdraw \in BOOLEAN, tag \in BOOLEAN, end \in BOOLEAN :
        LET d == IF withdraw THEN ClearRequest(dma, c) ELSE dma
            e == [d EXCEPT !.tagEnd[c] = @ \/ (tag /\ c \in {SIF0, SIF1})]
        IN dma' = IF end THEN TransferEnd(e, c) ELSE e
  BY DEF Process
<1> DEFINE d == IF withdraw THEN ClearRequest(dma, c) ELSE dma
           e == [d EXCEPT !.tagEnd[c] = @ \/ (tag /\ c \in {SIF0, SIF1})]
<1>2. dma' = IF end THEN TransferEnd(e, c) ELSE e
  BY <1>1
<1>3. Good(d) /\ (Ready(d, c) => d.active = c)
  BY ClearRequestIsGood DEF IopDmaInv, Process
<1> HIDE DEF d
<1>4. e \in IopDmaState /\ e.active = d.active /\ e.queue = d.queue
        /\ e.req = d.req /\ e.busy = d.busy
  BY <1>3 DEF Good, IopDmaState
<1> HIDE DEF e
<1>5. Good(e)
  BY <1>3, <1>4, OtherFieldsAreGood
<1>6. Ready(e, c) => e.active = c
  BY <1>3, <1>4 DEF Ready
<1> QED BY <1>2, <1>5, <1>6, TransferEndIsGood DEF IopDmaInv

LEMMA IopDmaStep == IopDmaInv /\ [IopDmaNext]_dma => IopDmaInv'
<1> SUFFICES ASSUME IopDmaInv, [IopDmaNext]_dma PROVE Good(dma')
  BY DEF IopDmaInv
<1> USE DEF IopDmaInv
<1>1. ASSUME NEW c \in Channels, DeviceRequests(c) PROVE Good(dma')
  BY <1>1, SetRequestIsGood DEF DeviceRequests
<1>2. ASSUME NEW c \in Channels, DeviceWithdraws(c) PROVE Good(dma')
  BY <1>2, ClearRequestIsGood DEF DeviceWithdraws
<1>3. ASSUME NEW c \in Channels, Process(c) PROVE Good(dma')
  BY <1>3, ProcessIsGood
<1>4. ASSUME NEW c \in Channels, WriteControl(c) PROVE Good(dma')
  BY <1>4, SetBusyIsGood DEF WriteControl
<1>5. ASSUME NEW h \in {0, 1}, WriteDPCR(h) PROVE Good(dma')
  <2>1. PICK on \in SUBSET Half(h) : dma' = SetDPCR(dma, h, on)
    BY <1>5 DEF WriteDPCR
  <2>2. on \subseteq Channels
    BY DEF Half
  <2>3. dma' \in IopDmaState /\ dma'.active = dma.active /\ dma'.queue = dma.queue
          /\ dma'.req = dma.req /\ dma'.busy = dma.busy
    BY <2>1, <2>2 DEF SetDPCR, Good, IopDmaState
  <2> QED BY <2>3, OtherFieldsAreGood
<1>6. ASSUME NEW h \in {0, 1}, WriteDICR(h) PROVE Good(dma')
  <2>1. PICK mask \in SUBSET Half(h), clear \in SUBSET Half(h), force \in BOOLEAN :
          dma' = SetDICR(dma, h, mask, clear, force)
    BY <1>6 DEF WriteDICR
  <2>2. mask \subseteq Channels
    BY DEF Half
  <2>3. dma' \in IopDmaState /\ dma'.active = dma.active /\ dma'.queue = dma.queue
          /\ dma'.req = dma.req /\ dma'.busy = dma.busy
    BY <2>1, <2>2 DEF SetDICR, Good, IopDmaState
  <2> QED BY <2>3, OtherFieldsAreGood
<1>7. ASSUME AcknowledgeDma PROVE Good(dma')
  <2>1. dma' \in IopDmaState /\ dma'.active = dma.active /\ dma'.queue = dma.queue
          /\ dma'.req = dma.req /\ dma'.busy = dma.busy
    BY <1>7 DEF AcknowledgeDma, Good, IopDmaState
  <2> QED BY <2>1, OtherFieldsAreGood
<1>8. CASE UNCHANGED dma
  BY <1>8
<1> QED BY <1>1, <1>2, <1>3, <1>4, <1>5, <1>6, <1>7, <1>8 DEF IopDmaNext

THEOREM IopDmaInvariance == IopDmaSpec => []IopDmaInv
BY IopDmaInitGood, IopDmaStep, PTL DEF IopDmaSpec

(* The fields of IOP_DMA keep their types, and the active channel is one   *)
(* of the channels or none (iop_dma.hpp).                                  *)
THEOREM IopDmaTypes == IopDmaSpec => []IopDmaTypeOK
<1>1. IopDmaInv => IopDmaTypeOK
  BY DEF IopDmaInv, Good, IopDmaTypeOK
<1> QED BY <1>1, IopDmaInvariance, PTL

(* The highest ready channel has the bus and the others wait, each once,   *)
(* whatever requests, withdrawals, starts, stops and ends of transfers     *)
(* come (active_dma_check, deactivate_dma, find_new_active_channel).       *)
THEOREM HighestAlwaysRuns == IopDmaSpec => []HighestRuns
<1>1. IopDmaInv => HighestRuns
  BY GoodIsHighest DEF IopDmaInv, HighestRuns
<1> QED BY <1>1, IopDmaInvariance, PTL

-----------------------------------------------------------------------------
(* The disc drive (Cdvd): it and its program are devices and programs of   *)
(* the controller                                                          *)

LEMMA CdvdIsChannel == CDVD \in Channels /\ \A h \in {0, 1} : Half(h) \subseteq Channels
BY CdvdAssumption DEF Half

(* process_CDVD withdraws the request and ends the transfer with the last  *)
(* sector.                                                                 *)
LEMMA ProcessCDVDProcesses ==
  ASSUME IopDmaInv, ProcessCDVD PROVE Process(CDVD)
<1> DEFINE d == ClearRequest(dma, CDVD)
           e == [d EXCEPT !.tagEnd[CDVD] = @ \/ (FALSE /\ CDVD \in {SIF0, SIF1})]
<1>1. d \in IopDmaState
  BY CdvdIsChannel, ClearRequestIsGood DEF IopDmaInv, Good
<1>2. dma.active = CDVD /\ dma' = IF words <= 1 THEN TransferEnd(d, CDVD) ELSE d
  BY DEF ProcessCDVD
<1> HIDE DEF d
<1>3. e = d
  BY <1>1, CdvdIsChannel DEF IopDmaState
<1>4. words <= 1 => dma' = TransferEnd(e, CDVD)
  BY <1>2, <1>3
<1>5. ~(words <= 1) => dma' = e
  BY <1>2, <1>3
<1>6. \E end \in BOOLEAN : dma' = IF end THEN TransferEnd(e, CDVD) ELSE e
  <2>1. CASE words <= 1
    BY <1>4, <2>1
  <2>2. CASE ~(words <= 1)
    BY <1>5, <2>2
  <2> QED BY <2>1, <2>2
<1>7. PICK end \in BOOLEAN : dma' = IF end THEN TransferEnd(e, CDVD) ELSE e
  BY <1>6
<1> QED BY <1>2, <1>7 DEF Process, d

LEMMA CdvdStepsAreDmaSteps ==
  ASSUME IopDmaInv, [Next]_vars PROVE [IopDmaNext]_dma
<1> USE CdvdIsChannel
<1>1. CASE HandleNCommand
  BY <1>1 DEF HandleNCommand, IopDmaNext, DeviceRequests
<1>2. CASE ProcessCDVD
  BY <1>2, ProcessCDVDProcesses DEF IopDmaNext
<1>3. CASE Program
  <2>1. CASE SendNCommand
    BY <2>1 DEF SendNCommand, IopDmaNext, DeviceRequests
  <2>2. CASE WriteBREAK \/ Acknowledge
    BY <2>2 DEF WriteBREAK, Acknowledge
  <2>3. CASE StartChannel \/ StopChannel
    <3>1. \E busy \in BOOLEAN : dma' = SetBusy(dma, CDVD, busy)
      BY <2>3 DEF StartChannel, StopChannel
    <3> QED BY <3>1 DEF IopDmaNext, WriteControl
  <2> QED BY <1>3, <2>1, <2>2, <2>3 DEF Program
<1>4. CASE OtherChannel
  BY <1>4 DEF OtherChannel, IopDmaNext
<1>5. CASE DmaRegisters
  BY <1>5 DEF DmaRegisters, IopDmaNext
<1>6. CASE UNCHANGED vars
  BY <1>6 DEF vars
<1> QED BY <1>1, <1>2, <1>3, <1>4, <1>5, <1>6 DEF Next

(* Everything the drive, its channel and its program do is something that  *)
(* IopDma allows a device and a program.                                   *)
THEOREM DriveUsesController == Spec => IopDmaSpec
<1>1. Init => IopDmaInit
  BY DEF Init
<1>2. IopDmaInv /\ [Next]_vars => IopDmaInv'
  BY CdvdStepsAreDmaSteps, IopDmaStep
<1>3. Spec => []IopDmaInv
  BY <1>1, <1>2, IopDmaInitGood, PTL DEF Spec
<1>4. IopDmaInv /\ [Next]_vars => [IopDmaNext]_dma
  BY CdvdStepsAreDmaSteps
<1> QED BY <1>1, <1>3, <1>4, PTL DEF Spec, IopDmaSpec

-----------------------------------------------------------------------------
(* The drive's part of a state                                             *)

(* Requests change only where devices say so.                              *)
LEMMA TurnsKeepRequests ==
  ASSUME NEW d \in IopDmaState, NEW c \in Channels, NEW busy \in BOOLEAN
  PROVE  /\ ActiveDmaCheck(d, c).req = d.req
         /\ DeactivateDma(d, c).req = d.req
         /\ TransferEnd(d, c).req = d.req
         /\ SetBusy(d, c, busy).req = d.req
<1>1. ASSUME NEW e \in IopDmaState PROVE FindNewActiveChannel(e).req = e.req
  BY DEF FindNewActiveChannel, IopDmaState
<1>2. ASSUME NEW e \in IopDmaState PROVE ActiveDmaCheck(e, c).req = e.req
  BY DEF ActiveDmaCheck, IopDmaState
<1>3. ASSUME NEW e \in IopDmaState PROVE DeactivateDma(e, c).req = e.req
  <2>1. CASE e.active = c
    BY <2>1, <1>1 DEF DeactivateDma
  <2>2. CASE e.active # c
    BY <2>2 DEF DeactivateDma, IopDmaState
  <2> QED BY <2>1, <2>2
<1>4. TransferEnd(d, c).req = d.req
  <2> DEFINE e == [d EXCEPT !.busy[c] = FALSE, !.tagEnd[c] = FALSE]
             f == IF e.active = c THEN FindNewActiveChannel(e) ELSE e
             g == [f EXCEPT !.stat = @ \cup {c}, !.irq = TRUE]
  <2>1. e \in IopDmaState /\ e.req = d.req
    BY DEF IopDmaState
  <2>2. TransferEnd(d, c) = IF c \in d.mask THEN g ELSE f
    BY DEF TransferEnd
  <2>3. f.req = e.req
    <3> HIDE DEF e
    <3> QED BY <2>1, <1>1
  <2> HIDE DEF e, f
  <2>4. g.req = f.req
    OBVIOUS
  <2> QED BY <2>1, <2>2, <2>3, <2>4
<1>5. SetBusy(d, c, busy).req = d.req
  <2> DEFINE e == [d EXCEPT !.busy[c] = busy]
  <2>1. e \in IopDmaState /\ e.req = d.req
    BY DEF IopDmaState
  <2>2. SetBusy(d, c, busy) = IF busy /\ ~d.busy[c] THEN ActiveDmaCheck(e, c)
                              ELSE IF ~busy /\ d.busy[c] THEN DeactivateDma(e, c)
                              ELSE e
    BY DEF SetBusy
  <2> HIDE DEF e
  <2> QED BY <2>1, <2>2, <1>2, <1>3
<1> QED BY <1>2, <1>3, <1>4, <1>5

LEMMA RequestsOf ==
  ASSUME NEW d \in IopDmaState, NEW c \in Channels
  PROVE  /\ SetRequest(d, c).req = [d.req EXCEPT ![c] = TRUE]
         /\ ClearRequest(d, c).req = [d.req EXCEPT ![c] = FALSE]
<1> DEFINE s == [d EXCEPT !.req[c] = TRUE]
           t == [d EXCEPT !.req[c] = FALSE]
<1>1. s \in IopDmaState /\ s.req = [d.req EXCEPT ![c] = TRUE]
        /\ t \in IopDmaState /\ t.req = [d.req EXCEPT ![c] = FALSE]
  BY DEF IopDmaState
<1>2. d.req \in [Channels -> BOOLEAN]
  BY DEF IopDmaState
<1>3. SetRequest(d, c) = IF d.req[c] THEN d ELSE ActiveDmaCheck(s, c)
  BY DEF SetRequest
<1>4. ClearRequest(d, c) = IF d.req[c] THEN DeactivateDma(t, c) ELSE d
  BY DEF ClearRequest
<1>5. d.req[c] => d.req = [d.req EXCEPT ![c] = TRUE]
  BY <1>2
<1>6. ~d.req[c] => d.req = [d.req EXCEPT ![c] = FALSE]
  BY <1>2
<1> HIDE DEF s, t
<1>7. ActiveDmaCheck(s, c).req = s.req /\ DeactivateDma(t, c).req = t.req
  BY <1>1, TurnsKeepRequests
<1>8. SetRequest(d, c).req = [d.req EXCEPT ![c] = TRUE]
  BY <1>1, <1>3, <1>5, <1>7
<1>9. ClearRequest(d, c).req = [d.req EXCEPT ![c] = FALSE]
  BY <1>1, <1>4, <1>6, <1>7
<1> QED BY <1>8, <1>9

LEMMA DriveFields ==
  ASSUME NEW v \in DriveState
  PROVE  /\ \A b \in [data : Toc .. Disc \cup {Empty}, header : 0 .. Disc] :
              [v EXCEPT !.buffer = b] \in DriveState
         /\ [v EXCEPT !.active = "BREAK"] \in DriveState
<1>1. ASSUME NEW b \in [data : Toc .. Disc \cup {Empty}, header : 0 .. Disc]
      PROVE  [v EXCEPT !.buffer = b] \in DriveState
  BY DEF DriveState
<1>2. [v EXCEPT !.active = "BREAK"] \in DriveState
  BY DEF DriveState
<1> QED BY <1>1, <1>2

(* The methods keep the types of the fields.                               *)
LEMMA DriveMethods ==
  ASSUME NEW v \in DriveState
  PROVE  /\ AddEvent(v) \in DriveState /\ Interrupt(v) \in DriveState
         /\ Finished(v) \in DriveState
         /\ ReadSector(v) \in DriveState /\ ReadToRAM(v) \in DriveState
         /\ \A p \in 0 .. Disc, active \in {"SEEK", "STANDBY", "READ_SEEK"} :
              StartSeek(v, p, active) \in DriveState
<1>1. Disc \in Nat
  BY CdvdAssumption
<1>2. ASSUME NEW w \in DriveState
      PROVE  AddEvent(w) \in DriveState /\ Interrupt(w) \in DriveState
               /\ Finished(w) \in DriveState
  <2>1. AddEvent(w) \in DriveState
    BY DEF AddEvent, DriveState
  <2>2. ASSUME NEW x \in DriveState PROVE Interrupt(x) \in DriveState
    BY DEF Interrupt, DriveState
  <2>3. [w EXCEPT !.active = "NONE"] \in DriveState
    BY DEF DriveState
  <2> QED BY <2>1, <2>2, <2>3 DEF Finished
<1>3. ReadSector(v) \in DriveState
  <2> DEFINE next(n) == (n + 1) % (Disc + 1)
  <2>1. \A n \in 0 .. Disc : next(n) \in 0 .. Disc
    BY <1>1
  <2>2. v.file \in 0 .. Disc /\ v.current \in 0 .. Disc
    BY DEF DriveState
  <2>3. ReadSector(v) = [v EXCEPT !.buffer = [data |-> v.file, header |-> v.current],
                                  !.full = 1, !.file = next(v.file),
                                  !.current = next(v.current), !.left = @ - 1]
    BY DEF ReadSector, DriveState
  <2>4. next(v.file) \in 0 .. Disc /\ next(v.current) \in 0 .. Disc
    BY <2>1, <2>2
  <2>5. v.file \in Toc .. Disc \cup {Empty}
    BY <1>1, <2>2 DEF Toc
  <2> HIDE DEF next
  <2> DEFINE b == [data |-> v.file, header |-> v.current]
             x == [v EXCEPT !.buffer = b]
             y == [x EXCEPT !.full = 1]
             z == [y EXCEPT !.file = next(v.file), !.current = next(v.current)]
  <2>6. b \in [data : Toc .. Disc \cup {Empty}, header : 0 .. Disc]
    BY <2>2, <2>5
  <2>8. ReadSector(v) = [z EXCEPT !.left = @ - 1]
    BY <2>3 DEF DriveState
  <2> HIDE DEF b
  <2>11. x \in DriveState
    BY <2>6, DriveFields
  <2> HIDE DEF x
  <2>7. y \in DriveState
    BY <2>11 DEF DriveState
  <2> HIDE DEF y
  <2>9. z \in DriveState
    BY <2>4, <2>7 DEF DriveState
  <2> HIDE DEF z
  <2> QED BY <2>8, <2>9 DEF DriveState
<1>4. ReadToRAM(v) \in DriveState
  <2> DEFINE e == [v EXCEPT !.full = @ - 1]
             f == [e EXCEPT !.active = "READ"]
  <2>1. e \in DriveState
    BY DEF DriveState
  <2>2. f \in DriveState
    BY <2>1 DEF DriveState
  <2>3. ReadToRAM(v) = IF e.full > 0 THEN e
                       ELSE IF e.left = 0 THEN Finished(e) ELSE AddEvent(f)
    BY DEF ReadToRAM
  <2> HIDE DEF e, f
  <2> QED BY <1>2, <2>1, <2>2, <2>3
<1>5. ASSUME NEW p \in 0 .. Disc, NEW active \in {"SEEK", "STANDBY", "READ_SEEK"}
      PROVE  StartSeek(v, p, active) \in DriveState
  <2> DEFINE s == [v EXCEPT !.target = p, !.file = p]
  <2>1. s \in DriveState
    BY DEF DriveState
  <2>2. [s EXCEPT !.active = active] = [v EXCEPT !.target = p, !.file = p, !.active = active]
    BY DEF DriveState
  <2> HIDE DEF s
  <2>3. [s EXCEPT !.active = active] \in DriveState
    BY <1>5, <2>1 DEF DriveState
  <2> QED BY <1>2, <2>2, <2>3 DEF StartSeek
<1> QED BY <1>2, <1>3, <1>4, <1>5

CdvdInv == IopDmaInv /\ TypeOK

LEMMA CdvdInit == Init => CdvdInv
<1> SUFFICES ASSUME Init PROVE CdvdInv
  OBVIOUS
<1>1. IopDmaInv
  BY IopDmaInitGood DEF Init
<1>2. drive \in DriveState
  BY CdvdAssumption DEF Init, DriveState, Empty, Toc
<1> QED BY <1>1, <1>2 DEF CdvdInv, TypeOK, IopDmaInv, Good, Init

LEMMA CdvdStep == CdvdInv /\ [Next]_vars => CdvdInv'
<1> SUFFICES ASSUME CdvdInv, [Next]_vars PROVE CdvdInv'
  OBVIOUS
<1>1. IopDmaInv'
  BY CdvdStepsAreDmaSteps, IopDmaStep DEF CdvdInv
<1>2. drive \in DriveState /\ words \in Nat /\ breaks \in Nat /\ awaited \in BOOLEAN
  BY DEF CdvdInv, TypeOK
<1>0. SUFFICES drive' \in DriveState /\ words' \in Nat /\ breaks' \in Nat
                 /\ awaited' \in BOOLEAN
  <2>1. dma' \in IopDmaState
    BY <1>1 DEF IopDmaInv, Good
  <2> QED BY <1>1, <2>1 DEF CdvdInv, TypeOK
<1>3. CASE HandleNCommand
  <2> DEFINE v == [drive EXCEPT !.events = @ - 1]
             w == [v EXCEPT !.current = v.target]
             x == [v EXCEPT !.active = "READ", !.current = v.target]
  <2>1. drive.events > 0
    BY <1>3 DEF HandleNCommand
  <2>2. v \in DriveState
    BY <1>2, <2>1 DEF DriveState
  <2>3. w \in DriveState /\ x \in DriveState
    BY <2>2 DEF DriveState
  <2>4. \/ drive' = Finished(w) \/ drive' = Finished(v) \/ drive' = Interrupt(v)
        \/ drive' = ReadSector(v) \/ drive' = AddEvent(v) \/ drive' = AddEvent(x)
        \/ drive' = v
    BY <1>3 DEF HandleNCommand
  <2>5. words' = words /\ breaks' = breaks /\ awaited' \in {FALSE, awaited}
    BY <1>3 DEF HandleNCommand
  <2> HIDE DEF v, w, x
  <2>6. drive' \in DriveState
    BY <2>2, <2>3, <2>4, DriveMethods
  <2> QED BY <1>2, <2>5, <2>6
<1>4. CASE ProcessCDVD
  <2>1. drive' = ReadToRAM(drive) /\ breaks' = breaks /\ awaited' \in BOOLEAN
    BY <1>4, <1>2 DEF ProcessCDVD
  <2>2. words' = IF words <= 1 THEN 0 ELSE words - 1
    BY <1>4 DEF ProcessCDVD
  <2> QED BY <1>2, <2>1, <2>2, DriveMethods
<1>5. CASE SendNCommand
  <2>1. PICK command \in Commands, next \in DriveState :
          drive' = [next EXCEPT !.reads = (command = "read")]
    <3>1. ASSUME NEW command, NEW next, NEW await, NEW sectors,
                 Send(command, next, await, sectors), next \in DriveState
          PROVE  \E c \in Commands, n \in DriveState :
                   drive' = [n EXCEPT !.reads = (c = "read")]
      BY <3>1 DEF Send
    <3>2. Interrupt(drive) \in DriveState
      BY <1>2, DriveMethods
    <3>3. StartSeek(drive, 0, "STANDBY") \in DriveState
      BY <1>2, DriveMethods, CdvdAssumption
    <3>4. [AddEvent(drive) EXCEPT !.active = "STOP"] \in DriveState
      BY <1>2, DriveMethods DEF DriveState
    <3>5. ASSUME NEW p \in Positions PROVE StartSeek(drive, p, "SEEK") \in DriveState
      BY <1>2, DriveMethods, CdvdAssumption
    <3>6. ASSUME NEW p \in Positions, NEW n \in Lengths
          PROVE  StartSeek([drive EXCEPT !.left = n], p, "READ_SEEK") \in DriveState
      <4>1. [drive EXCEPT !.left = n] \in DriveState /\ p \in 0 .. Disc
        BY <1>2, CdvdAssumption DEF DriveState
      <4> QED BY <4>1, DriveMethods
    <3>7. [drive EXCEPT !.left = 0, !.full = 1,
                        !.buffer = [data |-> Toc, header |-> 0]] \in DriveState
      <4>1. [data |-> Toc, header |-> 0]
              \in [data : Toc .. Disc \cup {Empty}, header : 0 .. Disc]
        BY CdvdAssumption DEF Toc
      <4> DEFINE b == [data |-> Toc, header |-> 0]
                 x == [drive EXCEPT !.left = 0]
                 y == [x EXCEPT !.full = 1]
      <4>2. [drive EXCEPT !.left = 0, !.full = 1, !.buffer = b] = [y EXCEPT !.buffer = b]
        BY <1>2 DEF DriveState
      <4>3. x \in DriveState
        BY <1>2 DEF DriveState
      <4> HIDE DEF b, x
      <4>4. y \in DriveState
        BY <4>3 DEF DriveState
      <4> HIDE DEF y
      <4>5. [y EXCEPT !.buffer = b] \in DriveState
        BY <4>1, <4>4, DriveFields DEF b
      <4> QED BY <4>2, <4>5 DEF b
    <3> QED BY <1>5, <3>1, <3>2, <3>3, <3>4, <3>5, <3>6, <3>7 DEF SendNCommand
  <2>2. words' = words /\ breaks' = breaks /\ awaited' \in BOOLEAN
    BY <1>5 DEF SendNCommand, Send
  <2>3. drive' \in DriveState
    <3>1. (command = "read") \in BOOLEAN
      OBVIOUS
    <3> QED BY <2>1, <3>1 DEF DriveState
  <2> QED BY <1>2, <2>2, <2>3
<1>6. CASE WriteBREAK
  <2>1. drive' = [AddEvent(drive) EXCEPT !.active = "BREAK", !.full = 0]
          /\ words' = words /\ breaks' = breaks + 1 /\ awaited' = TRUE
    BY <1>6 DEF WriteBREAK
  <2>2. AddEvent(drive) \in DriveState
    BY <1>2, DriveMethods
  <2> DEFINE x == [AddEvent(drive) EXCEPT !.active = "BREAK"]
  <2>3. x \in DriveState /\ drive' = [x EXCEPT !.full = 0]
    BY <2>1, <2>2, DriveFields DEF DriveState
  <2> HIDE DEF x
  <2>4. drive' \in DriveState
    BY <2>3 DEF DriveState
  <2> QED BY <1>2, <2>1, <2>4
<1>7. CASE StartChannel \/ StopChannel
  <2>1. drive' = drive /\ breaks' = breaks /\ awaited' = awaited
          /\ (words' = words \/ words' \in Lengths)
    BY <1>7 DEF StartChannel, StopChannel
  <2> QED BY <1>2, <2>1, CdvdAssumption
<1>8. CASE Acknowledge
  <2>1. drive' \in DriveState
    BY <1>2, <1>8 DEF Acknowledge, DriveState
  <2> QED BY <1>2, <1>8, <2>1 DEF Acknowledge
<1>9. CASE OtherChannel \/ DmaRegisters \/ UNCHANGED vars
  <2>1. UNCHANGED driveVars
    BY <1>9 DEF OtherChannel, DmaRegisters, vars
  <2> QED BY <1>2, <2>1 DEF driveVars
<1> QED BY <1>3, <1>4, <1>5, <1>6, <1>7, <1>8, <1>9 DEF Next, Program

(* The fields of the drive keep their types, whatever program drives it:   *)
(* the positions stay on the disc and no event of a command fires that was *)
(* not added (CDVD_Drive, handle_N_command).                               *)
THEOREM CdvdTypes == Spec => []TypeOK
<1>1. CdvdInv => TypeOK
  BY DEF CdvdInv
<1> QED BY <1>1, CdvdInit, CdvdStep, PTL DEF Spec

(* So the highest ready channel has the bus while the drive is one of the  *)
(* devices (active_dma_check, deactivate_dma).                             *)
THEOREM DriveKeepsTurns == Spec => []HighestRuns
BY DriveUsesController, HighestAlwaysRuns, PTL

-----------------------------------------------------------------------------
(* What the drive has in hand                                              *)

(* What is left of the last read: n sectors from p.                        *)
Coming(a, p, n) ==
  /\ Len(a) = n /\ \A i \in 1 .. n : a[i] = p + i - 1
  /\ p + n <= Disc

(* What a drive v, its request r, a waiting program w and the sectors a it *)
(* asked for have to do with each other, if the program is careful.        *)
InHand(v, a) ==
  IF v.active = "READ"
  THEN /\ v.file >= 1 /\ v.buffer.data = v.file - 1 /\ v.buffer.header = v.file - 1
       /\ Coming(a, v.file - 1, v.left + 1)
  ELSE /\ v.active \in {"NONE", "STOP"} /\ v.left = 0
       /\ v.buffer.data = Toc /\ a = <<Toc>>

DriveGood(v, r, w, a) ==
  /\ v.full \in {0, 1}
  /\ (r = TRUE) <=> v.full = 1
  /\ v.full = 1 => w = TRUE /\ InHand(v, a)
  /\ v.active \notin {"NONE", "STOP"} => w = TRUE
  /\ v.active = "STOP" /\ v.events > 0 => v.events = 1 /\ v.full = 0 /\ w = TRUE
  /\ v.active \in {"READ_SEEK", "READ"} => v.reads = TRUE /\ v.left >= 0
  /\ v.active \in {"READ_SEEK", "READ"} /\ v.full = 0 => v.left >= 1 /\ Coming(a, v.file, v.left)
  /\ v.active = "READ_SEEK" => v.file = v.target
  /\ v.active = "READ" => v.file = v.current

CareInv ==
  CdvdInv /\ asked \in Seq(Int) /\ DriveGood(drive, dma.req[CDVD], awaited, asked)

(* The request of the drive changes by the drive's own calls.              *)
LEMMA DriveRequests ==
  ASSUME CdvdInv, [Next]_vars
  PROVE  /\ ProcessCDVD => dma.req[CDVD] = TRUE /\ dma'.req[CDVD] = FALSE
         /\ dma' = SetRequest(dma, CDVD) => dma'.req[CDVD] = TRUE
         /\ OtherChannel \/ DmaRegisters \/ StartChannel \/ StopChannel
              => dma'.req[CDVD] = dma.req[CDVD]
<1> USE CdvdIsChannel
<1>1. dma \in IopDmaState /\ dma.req \in [Channels -> BOOLEAN] /\ Good(dma)
  BY DEF CdvdInv, IopDmaInv, Good, IopDmaState
<1>2. ASSUME ProcessCDVD PROVE dma.req[CDVD] = TRUE /\ dma'.req[CDVD] = FALSE
  <2> DEFINE d == ClearRequest(dma, CDVD)
  <2>1. dma.active = CDVD /\ (dma' = TransferEnd(d, CDVD) \/ dma' = d)
    BY <1>2 DEF ProcessCDVD
  <2>2. d \in IopDmaState /\ d.req[CDVD] = FALSE
    BY <1>1, ClearRequestIsGood, RequestsOf DEF Good
  <2> HIDE DEF d
  <2>3. TransferEnd(d, CDVD).req = d.req
    BY <2>2, TurnsKeepRequests
  <2>4. CDVD # None
    BY DEF CDVD, None
  <2>5. dma.req[CDVD]
    BY <1>1, <2>1, <2>4, GoodIsHighest DEF HighestTurn, Ready
  <2> QED BY <1>1, <2>1, <2>2, <2>3, <2>5
<1>3. ASSUME dma' = SetRequest(dma, CDVD) PROVE dma'.req[CDVD] = TRUE
  BY <1>1, <1>3, RequestsOf
<1>7. ASSUME NEW c \in Channels \ {CDVD}
      PROVE  /\ SetRequest(dma, c).req[CDVD] = dma.req[CDVD]
             /\ ClearRequest(dma, c).req[CDVD] = dma.req[CDVD]
  <2>1. SetRequest(dma, c).req = [dma.req EXCEPT ![c] = TRUE]
    BY <1>1, RequestsOf
  <2>2. ClearRequest(dma, c).req = [dma.req EXCEPT ![c] = FALSE]
    BY <1>1, RequestsOf
  <2>3. c # CDVD /\ c \in Channels
    OBVIOUS
  <2> QED BY <1>1, <2>1, <2>2, <2>3
<1>4. ASSUME OtherChannel PROVE dma'.req[CDVD] = dma.req[CDVD]
  <2>1. PICK c \in Channels \ {CDVD} :
          DeviceRequests(c) \/ DeviceWithdraws(c) \/ Process(c) \/ WriteControl(c)
    BY <1>4 DEF OtherChannel
  <2>2. CASE DeviceRequests(c)
    BY <1>7, <2>2 DEF DeviceRequests
  <2>3. CASE DeviceWithdraws(c)
    BY <1>7, <2>3 DEF DeviceWithdraws
  <2>4. CASE WriteControl(c)
    <3>1. PICK busy \in BOOLEAN : dma' = SetBusy(dma, c, busy)
      BY <2>4 DEF WriteControl
    <3> QED BY <1>1, <3>1, TurnsKeepRequests
  <2>5. CASE Process(c)
    <3>1. PICK withdraw \in BOOLEAN, tag \in BOOLEAN, end \in BOOLEAN :
            LET d == IF withdraw THEN ClearRequest(dma, c) ELSE dma
                e == [d EXCEPT !.tagEnd[c] = @ \/ (tag /\ c \in {SIF0, SIF1})]
            IN dma' = IF end THEN TransferEnd(e, c) ELSE e
      BY <2>5 DEF Process
    <3> DEFINE d == IF withdraw THEN ClearRequest(dma, c) ELSE dma
               e == [d EXCEPT !.tagEnd[c] = @ \/ (tag /\ c \in {SIF0, SIF1})]
    <3>2. dma' = IF end THEN TransferEnd(e, c) ELSE e
      BY <3>1
    <3>3. d \in IopDmaState /\ d.req[CDVD] = dma.req[CDVD]
      <4>1. ClearRequest(dma, c) \in IopDmaState
        BY <1>1, ClearRequestIsGood DEF Good
      <4> QED BY <1>1, <1>7, <4>1
    <3> HIDE DEF d
    <3>4. e \in IopDmaState /\ e.req = d.req
      BY <3>3 DEF IopDmaState
    <3> HIDE DEF e
    <3>5. TransferEnd(e, c).req = e.req
      BY <3>4, TurnsKeepRequests
    <3> QED BY <3>2, <3>3, <3>4, <3>5
  <2> QED BY <2>1, <2>2, <2>3, <2>4, <2>5
<1>5. ASSUME DmaRegisters PROVE dma'.req[CDVD] = dma.req[CDVD]
  BY <1>1, <1>5
  DEF DmaRegisters, WriteDICR, WriteDPCR, SetDICR, SetDPCR, AcknowledgeDma, IopDmaState
<1>6. ASSUME StartChannel \/ StopChannel PROVE dma'.req[CDVD] = dma.req[CDVD]
  <2>1. PICK busy \in BOOLEAN : dma' = SetBusy(dma, CDVD, busy)
    BY <1>6 DEF StartChannel, StopChannel
  <2> QED BY <1>1, <2>1, TurnsKeepRequests
<1> QED BY <1>2, <1>3, <1>4, <1>5, <1>6

LEMMA CareInit == Init => CareInv
<1> SUFFICES ASSUME Init PROVE CareInv
  OBVIOUS
<1>1. CDVD \notin Requesting
  BY DEF CDVD, Requesting, SIO2in, SIO2out, SIF0
<1>2. dma.req[CDVD] = FALSE
  <2> DEFINE req == [c \in Channels |-> c \in Requesting]
  <2>1. dma.req = req
    BY DEF Init, IopDmaInit
  <2>2. req[CDVD] = (CDVD \in Requesting)
    BY CdvdIsChannel
  <2>3. (CDVD \in Requesting) = FALSE
    BY <1>1
  <2> HIDE DEF req
  <2> QED BY <2>1, <2>2, <2>3
<1>3. drive.full = 0 /\ drive.active = "NONE" /\ drive.events = 0
  BY DEF Init
<1>4. asked \in Seq(Int)
  BY DEF Init
<1> QED BY <1>2, <1>3, <1>4, CdvdInit DEF CareInv, DriveGood

(* A sector more than the program has had.                                 *)
LEMMA ComingTail ==
  ASSUME NEW a \in Seq(Int), NEW p \in Nat, NEW n \in Nat, Coming(a, p, n + 1)
  PROVE  /\ a # <<>> /\ Head(a) = p
         /\ Tail(a) \in Seq(Int) /\ Coming(Tail(a), p + 1, n)
<1>1. Len(a) = n + 1 /\ (\A i \in 1 .. n + 1 : a[i] = p + i - 1) /\ p + (n + 1) <= Disc
  BY DEF Coming
<1>2. a # <<>>
  BY <1>1
<1>3. Head(a) = a[1] /\ Tail(a) \in Seq(Int) /\ Len(Tail(a)) = n
        /\ \A i \in 1 .. n : Tail(a)[i] = a[i + 1]
  BY <1>1, <1>2
<1>4. ASSUME NEW i \in 1 .. n PROVE Tail(a)[i] = (p + 1) + i - 1
  BY <1>1, <1>3
<1>5. Disc \in Nat
  BY CdvdAssumption
<1> QED BY <1>1, <1>2, <1>3, <1>4, <1>5 DEF Coming

(* An event of the drive.                                                  *)
LEMMA CareHandle ==
  ASSUME CareInv, HandleNCommand, DriveGood(drive, dma.req[CDVD], awaited, asked),
         dma' = SetRequest(dma, CDVD) => dma'.req[CDVD] = TRUE
  PROVE  DriveGood(drive', dma'.req[CDVD], awaited', asked')
<1> DEFINE v == [drive EXCEPT !.events = @ - 1]
<1>1. drive \in DriveState /\ drive.events > 0 /\ asked' = asked /\ asked \in Seq(Int)
  BY DEF HandleNCommand, CareInv, CdvdInv, TypeOK
<1>2. /\ v.active = drive.active /\ v.reads = drive.reads /\ v.left = drive.left
      /\ v.events = drive.events - 1 /\ v.full = drive.full /\ v.file = drive.file
      /\ v.target = drive.target /\ v.current = drive.current
      /\ v.buffer = drive.buffer
      /\ v.events \in Nat
  BY <1>1 DEF DriveState
<1>3. v \in DriveState
  <2>1. drive \in DriveState /\ drive.events > 0
    BY <1>1
  <2> QED BY <2>1 DEF DriveState
<1>4. \/ /\ v.active = "SEEK"
         /\ drive' = Finished([v EXCEPT !.current = v.target])
         /\ awaited' = FALSE /\ dma' = dma
      \/ /\ v.active \in {"STANDBY", "BREAK"}
         /\ drive' = Finished(v)
         /\ awaited' = FALSE /\ dma' = dma
      \/ /\ v.active = "STOP"
         /\ drive' = Interrupt(v)
         /\ awaited' = FALSE /\ dma' = dma
      \/ /\ v.active = "READ" /\ v.full = 0
         /\ drive' = ReadSector(v)
         /\ dma' = SetRequest(dma, CDVD) /\ awaited' = awaited
      \/ /\ v.active = "READ" /\ v.full # 0
         /\ drive' = AddEvent(v)
         /\ dma' = dma /\ awaited' = awaited
      \/ /\ v.active = "READ_SEEK"
         /\ drive' = AddEvent([v EXCEPT !.active = "READ", !.current = v.target])
         /\ dma' = dma /\ awaited' = awaited
      \/ /\ v.active = "NONE" \/ (v.active = "READ" /\ v.full = 0 /\ ~v.reads)
         /\ drive' = v
         /\ dma' = dma /\ awaited' = awaited
  BY DEF HandleNCommand
<1> HIDE DEF v
<1>5. CASE v.active \in {"SEEK", "STANDBY", "BREAK"}
  <2>1. drive'.active = "NONE" /\ drive'.full = v.full /\ awaited' = FALSE /\ dma' = dma
    BY <1>3, <1>4, <1>5 DEF Finished, Interrupt, DriveState
  <2>2. v.full = 0
    BY <1>2, <1>5 DEF DriveGood, InHand
  <2> QED BY <1>1, <1>2, <2>1, <2>2 DEF DriveGood
<1>6. CASE v.active = "STOP"
  <2>1. drive'.active = "STOP" /\ drive'.full = v.full /\ drive'.events = v.events
          /\ awaited' = FALSE /\ dma' = dma
    BY <1>3, <1>4, <1>6 DEF Interrupt, DriveState
  <2>2. v.full = 0 /\ v.events = 0
    BY <1>1, <1>2, <1>6 DEF DriveGood
  <2> QED BY <1>1, <1>2, <2>1, <2>2 DEF DriveGood
<1>7. CASE v.active = "READ" /\ v.full = 0
  <2>1. /\ v.reads = TRUE /\ v.left >= 1 /\ Coming(asked, v.file, v.left)
        /\ v.file = v.current /\ awaited = TRUE
    BY <1>2, <1>7 DEF DriveGood
  <2>2. drive' = ReadSector(v) /\ dma'.req[CDVD] = TRUE /\ awaited' = TRUE
    BY <1>4, <1>7, <2>1
  <2>3. v.file \in Nat /\ v.left \in Int /\ v.file + v.left <= Disc /\ Disc \in Nat
    BY <1>3, <2>1, CdvdAssumption DEF DriveState, Coming
  <2>4. (v.file + 1) % (Disc + 1) = v.file + 1 /\ (v.current + 1) % (Disc + 1) = v.file + 1
    BY <2>1, <2>3
  <2>5. /\ drive'.active = "READ" /\ drive'.reads = TRUE /\ drive'.full = 1
        /\ drive'.file = v.file + 1 /\ drive'.current = v.file + 1
        /\ drive'.left = v.left - 1
        /\ drive'.buffer.data = v.file /\ drive'.buffer.header = v.file
    BY <1>3, <1>7, <2>1, <2>2, <2>4 DEF ReadSector, DriveState
  <2>6. v.file + 1 >= 1 /\ (v.file + 1) - 1 = v.file /\ (v.left - 1) + 1 = v.left
          /\ v.left - 1 >= 0
    BY <2>1, <2>3
  <2>7. InHand(drive', asked)
    BY <2>1, <2>5, <2>6 DEF InHand
  <2> QED BY <1>1, <2>2, <2>5, <2>6, <2>7 DEF DriveGood
<1>8. CASE v.active = "READ" /\ v.full # 0
  <2>1. drive' = AddEvent(v) /\ dma' = dma /\ awaited' = awaited
    BY <1>4, <1>8
  <2>2. /\ drive'.active = drive.active /\ drive'.reads = drive.reads
        /\ drive'.left = drive.left /\ drive'.full = drive.full
        /\ drive'.file = drive.file /\ drive'.current = drive.current
        /\ drive'.buffer = drive.buffer
    BY <1>2, <1>3, <2>1 DEF AddEvent, DriveState
  <2>3. InHand(drive', asked) <=> InHand(drive, asked)
    BY <2>2 DEF InHand
  <2> QED BY <1>1, <1>2, <1>8, <2>1, <2>2, <2>3 DEF DriveGood
<1>9. CASE v.active = "READ_SEEK"
  <2>1. v.full = 0 /\ v.reads = TRUE /\ v.left >= 1 /\ Coming(asked, v.file, v.left)
          /\ v.file = v.target /\ awaited = TRUE
    BY <1>2, <1>9 DEF DriveGood, InHand
  <2>2. drive' = AddEvent([v EXCEPT !.active = "READ", !.current = v.target])
          /\ dma' = dma /\ awaited' = awaited
    BY <1>4, <1>9
  <2>3. /\ drive'.active = "READ" /\ drive'.reads = v.reads
        /\ drive'.left = v.left /\ drive'.full = v.full
        /\ drive'.file = v.file /\ drive'.current = v.target
    BY <1>3, <2>2 DEF AddEvent, DriveState
  <2>4. v.left >= 0
    BY <1>3, <2>1 DEF DriveState
  <2> QED BY <1>1, <1>2, <2>1, <2>2, <2>3, <2>4 DEF DriveGood
<1>10. CASE v.active = "NONE"
  <2>1. drive' = v /\ dma' = dma /\ awaited' = awaited
    BY <1>4, <1>10
  <2>2. InHand(v, asked) <=> InHand(drive, asked)
    BY <1>2 DEF InHand
  <2> QED BY <1>1, <1>2, <1>10, <2>1, <2>2 DEF DriveGood
<1> QED BY <1>3, <1>5, <1>6, <1>7, <1>8, <1>9, <1>10 DEF DriveState

(* A sector leaves the buffer.                                             *)
LEMMA CareProcess ==
  ASSUME CareInv, ProcessCDVD, dma.req[CDVD] = TRUE, dma'.req[CDVD] = FALSE
  PROVE  asked' \in Seq(Int) /\ DriveGood(drive', dma'.req[CDVD], awaited', asked')
<1>1. /\ drive \in DriveState /\ awaited \in BOOLEAN /\ asked \in Seq(Int)
      /\ DriveGood(drive, dma.req[CDVD], awaited, asked)
  BY DEF CareInv, CdvdInv, TypeOK
<1>2. /\ drive' = ReadToRAM(drive)
      /\ awaited' = (awaited /\ ~(drive.full <= 1 /\ drive.left = 0))
      /\ asked' = IF asked # <<>> THEN Tail(asked) ELSE asked
  BY DEF ProcessCDVD
<1>3. drive.full = 1 /\ awaited = TRUE /\ InHand(drive, asked)
  BY <1>1 DEF DriveGood
<1>4. /\ drive.file \in Int /\ drive.left \in Int /\ drive.events \in Nat
  BY <1>1 DEF DriveState
<1>5. CASE drive.left = 0
  <2>1. drive' = Finished([drive EXCEPT !.full = @ - 1])
    BY <1>1, <1>2, <1>3, <1>5 DEF ReadToRAM, DriveState
  <2>2. drive'.active = "NONE" /\ drive'.full = 0
    BY <1>1, <1>3, <2>1 DEF Finished, Interrupt, DriveState
  <2>3. asked' \in Seq(Int)
    BY <1>1, <1>2
  <2> QED BY <2>2, <2>3 DEF DriveGood
<1>6. CASE drive.left # 0
  <2>1. drive.active = "READ"
    BY <1>3, <1>6 DEF InHand
  <2>2. /\ drive.reads = TRUE /\ drive.left >= 0 /\ drive.file = drive.current
        /\ drive.file >= 1 /\ Coming(asked, drive.file - 1, drive.left + 1)
    BY <1>1, <1>3, <2>1 DEF DriveGood, InHand
  <2>3. drive' = AddEvent([[drive EXCEPT !.full = @ - 1] EXCEPT !.active = "READ"])
    BY <1>1, <1>2, <1>3, <1>6 DEF ReadToRAM, DriveState
  <2>4. /\ drive'.active = "READ" /\ drive'.full = 0 /\ drive'.reads = drive.reads
        /\ drive'.left = drive.left /\ drive'.file = drive.file
        /\ drive'.current = drive.current
    BY <1>1, <1>3, <2>3 DEF AddEvent, DriveState
  <2>5. awaited' = TRUE
    BY <1>2, <1>3, <1>6
  <2>6. drive.file - 1 \in Nat /\ drive.left \in Nat /\ (drive.file - 1) + 1 = drive.file
    BY <1>4, <2>2
  <2>7. asked # <<>> /\ Tail(asked) \in Seq(Int) /\ Coming(Tail(asked), drive.file, drive.left)
    BY <1>1, <2>2, <2>6, ComingTail
  <2>8. asked' = Tail(asked)
    BY <1>2, <2>7
  <2>9. drive.left >= 1
    BY <1>6, <2>6
  <2> QED BY <2>2, <2>4, <2>5, <2>7, <2>8, <2>9 DEF DriveGood
<1> QED BY <1>5, <1>6

(* The sectors of a read                                                   *)
LEMMA ReadIsComing ==
  ASSUME NEW p \in Positions, NEW n \in Lengths
  PROVE  /\ [i \in 1 .. n |-> p + i - 1] \in Seq(Int)
         /\ Coming([i \in 1 .. n |-> p + i - 1], p, n)
<1>1. n \in Nat /\ p \in Nat /\ p + n <= Disc
  BY CdvdAssumption
<1>2. \A i \in 1 .. n : p + i - 1 \in Int
  BY <1>1
<1> DEFINE s == [i \in 1 .. n |-> p + i - 1]
<1>3. s \in Seq(Int) /\ Len(s) = n
  BY <1>1, <1>2
<1>4. \A i \in 1 .. n : s[i] = p + i - 1
  OBVIOUS
<1> QED BY <1>1, <1>3, <1>4 DEF Coming

(* The program sends a command.                                            *)
LEMMA CareSend ==
  ASSUME Careful = TRUE, CareInv, SendNCommand,
         dma' = SetRequest(dma, CDVD) => dma'.req[CDVD] = TRUE
  PROVE  asked' \in Seq(Int) /\ DriveGood(drive', dma'.req[CDVD], awaited', asked')
<1>1. /\ drive \in DriveState /\ awaited = FALSE /\ asked \in Seq(Int)
      /\ DriveGood(drive, dma.req[CDVD], awaited, asked)
      /\ (dma.req[CDVD] = TRUE) <=> drive.full = 1
  BY DEF CareInv, CdvdInv, TypeOK, SendNCommand, DriveGood
<1>2. drive.full = 0 /\ drive.active \in {"NONE", "STOP"} /\ drive.events \in Nat
  BY <1>1 DEF DriveGood, DriveState
<1>4. ASSUME NEW command \in {"nop", "pause", "readkey"}, dma' = dma,
             Send(command, Interrupt(drive), FALSE, asked)
      PROVE  asked' \in Seq(Int) /\ DriveGood(drive', dma'.req[CDVD], awaited', asked')
  <2>1. Interrupt(drive) \in DriveState
    BY <1>1, DriveMethods
  <2>2. drive' = [Interrupt(drive) EXCEPT !.reads = (command = "read")]
          /\ awaited' = FALSE /\ asked' = asked
    BY <1>4 DEF Send
  <2>3. drive'.active = drive.active /\ drive'.full = 0 /\ drive'.events = drive.events
    BY <1>1, <1>2, <2>1, <2>2 DEF Interrupt, DriveState
  <2>4. ~(drive.active = "STOP" /\ drive.events > 0)
    BY <1>1 DEF DriveGood
  <2> QED BY <1>1, <1>2, <1>4, <2>2, <2>3, <2>4 DEF DriveGood
<1>5. ASSUME dma' = dma, Send("standby", StartSeek(drive, 0, "STANDBY"), TRUE, <<>>)
      PROVE  asked' \in Seq(Int) /\ DriveGood(drive', dma'.req[CDVD], awaited', asked')
  <2>1. drive' = [StartSeek(drive, 0, "STANDBY") EXCEPT !.reads = ("standby" = "read")]
          /\ awaited' = TRUE /\ asked' = <<>>
    BY <1>5 DEF Send
  <2>2. drive'.active = "STANDBY" /\ drive'.full = 0
    BY <1>1, <1>2, <2>1 DEF StartSeek, AddEvent, DriveState
  <2> QED BY <1>1, <1>2, <1>5, <2>1, <2>2 DEF DriveGood
<1>6. ASSUME dma' = dma, drive.events = 0,
             Send("stop", [AddEvent(drive) EXCEPT !.active = "STOP"], TRUE, <<>>)
      PROVE  asked' \in Seq(Int) /\ DriveGood(drive', dma'.req[CDVD], awaited', asked')
  <2>1. drive' = [[AddEvent(drive) EXCEPT !.active = "STOP"] EXCEPT !.reads = ("stop" = "read")]
          /\ awaited' = TRUE /\ asked' = <<>>
    BY <1>6 DEF Send
  <2>2. drive'.active = "STOP" /\ drive'.full = 0 /\ drive'.events = 1
    BY <1>1, <1>2, <1>6, <2>1 DEF AddEvent, DriveState
  <2> QED BY <1>1, <1>2, <1>6, <2>1, <2>2 DEF DriveGood
<1>7. ASSUME NEW p \in Positions, dma' = dma,
             Send("seek", StartSeek(drive, p, "SEEK"), TRUE, <<>>)
      PROVE  asked' \in Seq(Int) /\ DriveGood(drive', dma'.req[CDVD], awaited', asked')
  <2>1. drive' = [StartSeek(drive, p, "SEEK") EXCEPT !.reads = ("seek" = "read")]
          /\ awaited' = TRUE /\ asked' = <<>>
    BY <1>7 DEF Send
  <2>2. drive'.active = "SEEK" /\ drive'.full = 0
    BY <1>1, <1>2, <2>1 DEF StartSeek, AddEvent, DriveState
  <2> QED BY <1>1, <1>2, <1>7, <2>1, <2>2 DEF DriveGood
<1>8. ASSUME NEW p \in Positions, NEW n \in Lengths, dma' = dma,
             Send("read", StartSeek([drive EXCEPT !.left = n], p, "READ_SEEK"), TRUE,
                  [i \in 1 .. n |-> p + i - 1])
      PROVE  asked' \in Seq(Int) /\ DriveGood(drive', dma'.req[CDVD], awaited', asked')
  <2> DEFINE x == StartSeek([drive EXCEPT !.left = n], p, "READ_SEEK")
             s == [i \in 1 .. n |-> p + i - 1]
  <2>1. drive' = [x EXCEPT !.reads = ("read" = "read")] /\ awaited' = TRUE /\ asked' = s
    BY <1>8 DEF Send
  <2>2. s \in Seq(Int) /\ Coming(s, p, n) /\ n >= 1 /\ n >= 0
    BY ReadIsComing, CdvdAssumption
  <2> HIDE DEF s
  <2>3. /\ drive'.active = "READ_SEEK" /\ drive'.full = 0 /\ drive'.left = n
        /\ drive'.file = p /\ drive'.target = p /\ drive'.reads = TRUE
    BY <1>1, <1>2, <2>1 DEF StartSeek, AddEvent, DriveState
  <2>4. (dma'.req[CDVD] = TRUE) <=> drive'.full = 1
    BY <1>1, <1>2, <1>8, <2>3
  <2>5. Coming(asked', drive'.file, drive'.left)
    BY <2>1, <2>2, <2>3
  <2> QED BY <2>1, <2>2, <2>3, <2>4, <2>5 DEF DriveGood
<1>9. ASSUME dma' = SetRequest(dma, CDVD),
             Send("gettoc", [drive EXCEPT !.left = 0, !.full = 1,
                                          !.buffer = [data |-> Toc, header |-> 0]], TRUE, <<Toc>>)
      PROVE  asked' \in Seq(Int) /\ DriveGood(drive', dma'.req[CDVD], awaited', asked')
  <2> DEFINE x == [drive EXCEPT !.left = 0, !.full = 1, !.buffer = [data |-> Toc, header |-> 0]]
  <2>1. drive' = [x EXCEPT !.reads = ("gettoc" = "read")] /\ awaited' = TRUE /\ asked' = <<Toc>>
    BY <1>9 DEF Send
  <2>2. /\ drive'.active = drive.active /\ drive'.full = 1 /\ drive'.left = 0
        /\ drive'.buffer.data = Toc /\ drive'.events = drive.events
    BY <1>1, <2>1 DEF DriveState
  <2>3. <<Toc>> \in Seq(Int)
    BY DEF Toc
  <2>4. drive'.active \in {"NONE", "STOP"} /\ InHand(drive', asked')
    BY <1>2, <2>1, <2>2 DEF InHand
  <2>5. ~(drive.active = "STOP" /\ drive.events > 0)
    BY <1>1 DEF DriveGood
  <2> QED BY <1>9, <2>1, <2>2, <2>3, <2>4, <2>5 DEF DriveGood
<1> QED BY <1>4, <1>5, <1>6, <1>7, <1>8, <1>9 DEF SendNCommand

LEMMA CareStep == Careful = TRUE /\ CareInv /\ [Next]_vars => CareInv'
<1> SUFFICES ASSUME Careful = TRUE, CareInv, [Next]_vars PROVE CareInv'
  OBVIOUS
<1>1. CdvdInv /\ CdvdInv' /\ drive \in DriveState /\ asked \in Seq(Int)
        /\ DriveGood(drive, dma.req[CDVD], awaited, asked)
  BY CdvdStep DEF CareInv, CdvdInv, TypeOK
<1>0. SUFFICES asked' \in Seq(Int) /\ DriveGood(drive', dma'.req[CDVD], awaited', asked')
  BY <1>1 DEF CareInv
<1>2. /\ ProcessCDVD => dma.req[CDVD] = TRUE /\ dma'.req[CDVD] = FALSE
      /\ dma' = SetRequest(dma, CDVD) => dma'.req[CDVD] = TRUE
      /\ OtherChannel \/ DmaRegisters \/ StartChannel \/ StopChannel
           => dma'.req[CDVD] = dma.req[CDVD]
  BY <1>1, DriveRequests
<1>3. CASE HandleNCommand
  <2>1. asked' = asked
    BY <1>3 DEF HandleNCommand
  <2> QED BY <1>1, <1>2, <1>3, <2>1, CareHandle
<1>4. CASE ProcessCDVD
  BY <1>2, <1>4, CareProcess
<1>5. CASE SendNCommand
  BY <1>2, <1>5, CareSend
<1>6. CASE WriteBREAK
  <2>1. drive.full = 0 /\ dma' = dma /\ awaited' = TRUE /\ asked' = <<>>
    BY <1>1, <1>6 DEF WriteBREAK, DriveGood
  <2>2. drive'.active = "BREAK" /\ drive'.full = 0
    BY <1>1, <1>6 DEF WriteBREAK, AddEvent, DriveState
  <2> QED BY <1>1, <2>1, <2>2 DEF DriveGood
<1>7. CASE OtherChannel \/ DmaRegisters \/ StartChannel \/ StopChannel
  <2>1. drive' = drive /\ awaited' = awaited /\ asked' = asked
    BY <1>7 DEF OtherChannel, DmaRegisters, StartChannel, StopChannel, driveVars
  <2> QED BY <1>1, <1>2, <1>7, <2>1
<1>8. CASE Acknowledge
  <2>1. drive' = [drive EXCEPT !.irq = FALSE] /\ dma' = dma /\ awaited' = awaited
          /\ asked' = asked
    BY <1>8 DEF Acknowledge
  <2>2. /\ drive'.active = drive.active /\ drive'.reads = drive.reads
        /\ drive'.events = drive.events /\ drive'.left = drive.left
        /\ drive'.full = drive.full /\ drive'.target = drive.target
        /\ drive'.current = drive.current /\ drive'.file = drive.file
        /\ drive'.buffer = drive.buffer
    BY <1>1, <2>1 DEF DriveState
  <2>3. InHand(drive', asked) <=> InHand(drive, asked)
    BY <2>2 DEF InHand
  <2> QED BY <1>1, <2>1, <2>2, <2>3 DEF DriveGood
<1>9. CASE UNCHANGED vars
  BY <1>1, <1>9 DEF vars, driveVars
<1> QED BY <1>3, <1>4, <1>5, <1>6, <1>7, <1>8, <1>9 DEF Next, Program

THEOREM CareInvariance ==
  ASSUME Careful = TRUE PROVE Spec => []CareInv
BY CareInit, CareStep, PTL DEF Spec

(* If the program breaks no sector off that waits for its DMA, the buffer  *)
(* of a drive that requests DMA holds the next sector of the last read,    *)
(* under its own header, whatever stale events fire, commands are broken   *)
(* off and other channels take the bus (read_DVD_sector, read_to_RAM,      *)
(* handle_N_command).                                                      *)
THEOREM SectorsComeInOrder ==
  ASSUME Careful = TRUE PROVE Spec => []SectorsInOrder
<1>1. CareInv => SectorsInOrder
  <2> SUFFICES ASSUME CareInv PROVE SectorsInOrder
    OBVIOUS
  <2>1. /\ drive \in DriveState /\ asked \in Seq(Int)
        /\ DriveGood(drive, dma.req[CDVD], awaited, asked)
        /\ dma.req[CDVD] \in BOOLEAN
    BY CdvdIsChannel DEF CareInv, CdvdInv, TypeOK, IopDmaState
  <2>2. dma.req[CDVD] <=> drive.full = 1
    BY <2>1 DEF DriveGood
  <2>3. ASSUME dma.req[CDVD]
        PROVE  /\ asked # <<>> /\ drive.buffer.data = Head(asked)
               /\ Head(asked) # Toc => drive.buffer.header = Head(asked)
    <3>1. InHand(drive, asked)
      BY <2>1, <2>2, <2>3 DEF DriveGood
    <3>2. CASE drive.active = "READ"
      <4>1. drive.left \in Nat /\ drive.file - 1 \in Nat
        BY <2>1, <3>1, <3>2 DEF DriveGood, DriveState, InHand
      <4>2. Coming(asked, drive.file - 1, drive.left + 1)
        BY <3>1, <3>2 DEF InHand
      <4>3. asked # <<>> /\ Head(asked) = drive.file - 1
        BY <2>1, <4>1, <4>2, ComingTail
      <4> QED BY <3>1, <3>2, <4>3 DEF InHand
    <3>3. CASE drive.active # "READ"
      BY <3>1, <3>3 DEF InHand
    <3> QED BY <3>2, <3>3
  <2> QED BY <2>2, <2>3 DEF SectorsInOrder
<1> QED BY <1>1, CareInvariance, PTL

(* The drive interrupts only for a command that the program waits for,     *)
(* whatever events of commands it broke off are still to fire              *)
(* (handle_N_command).                                                     *)
THEOREM InterruptsAreAwaited ==
  ASSUME Careful = TRUE PROVE Spec => NoStrayInterrupt
<1>1. CareInv /\ [Next]_vars => [HandleNCommand /\ ~drive.irq /\ drive'.irq => awaited]_vars
  <2> SUFFICES ASSUME CareInv, HandleNCommand, ~drive.irq, drive'.irq PROVE awaited
    OBVIOUS
  <2>1. drive \in DriveState /\ DriveGood(drive, dma.req[CDVD], awaited, asked)
    BY DEF CareInv, CdvdInv, TypeOK
  <2> DEFINE v == [drive EXCEPT !.events = @ - 1]
             x == [v EXCEPT !.active = "READ", !.current = v.target]
  <2>2. v.active = drive.active /\ v.irq = drive.irq /\ v \in DriveState
    <3>1. drive.events > 0 /\ drive \in DriveState
      BY <2>1 DEF HandleNCommand
    <3> QED BY <3>1 DEF DriveState
  <2>3. CASE drive.active \in {"SEEK", "STANDBY", "BREAK"}
    BY <2>1, <2>3 DEF DriveGood
  <2>4. CASE drive.active = "STOP"
    BY <2>1, <2>4 DEF DriveGood, HandleNCommand
  <2>5. CASE drive.active \in {"NONE", "READ", "READ_SEEK"}
    <3>1. drive' = v \/ drive' = ReadSector(v) \/ drive' = AddEvent(v) \/ drive' = AddEvent(x)
      BY <2>2, <2>5 DEF HandleNCommand
    <3>2. x.irq = v.irq /\ x \in DriveState
      BY <2>2 DEF DriveState
    <3> HIDE DEF v, x
    <3>3. ReadSector(v).irq = v.irq /\ AddEvent(v).irq = v.irq /\ AddEvent(x).irq = x.irq
      BY <2>2, <3>2 DEF ReadSector, AddEvent, DriveState
    <3> QED BY <2>2, <3>1, <3>2, <3>3
  <2> QED BY <2>1, <2>3, <2>4, <2>5 DEF DriveState
<1> QED BY <1>1, CareInvariance, PTL DEF Spec, NoStrayInterrupt
=============================================================================

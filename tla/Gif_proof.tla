------------------------------ MODULE Gif_proof ------------------------------
(***************************************************************************)
(* The paths of the GIF are kept for every FIFO, set of tags and length of *)
(* transfers.  One lemma per function of GraphicsInterface, whose nesting  *)
(* is the code's; then one step per action.                                *)
(*                                                                         *)
(* The second half is about the order of the quads of PATH3.  What is left *)
(* of a packet is a function of the quads accepted so far, computed along  *)
(* the sequence; that two computations of it agree is an induction over    *)
(* the sequence, which is made from the least natural number at which they *)
(* would differ.                                                           *)
(***************************************************************************)
EXTENDS Gif, WellFoundedInduction, TLAPS

(* A leaf that names no backend is given a minute of SMT and then one of Zenon. *)
USE SMTT(60), ZenonT(60)

(* What arbitrate_paths, deactivate_PATH and request_PATH leave alone; a   *)
(* request to the DMA controller is never taken back by them.              *)
SameBut(g, h) ==
  /\ h.status = g.status /\ h.left = g.left /\ h.eop = g.eop
  /\ h.fifo = g.fifo /\ h.vifMask = g.vifMask /\ h.modeMask = g.modeMask
  /\ h.intermittent = g.intermittent /\ h.running = g.running
  /\ h.stop = g.stop /\ h.outputting = g.outputting
  /\ g.req => h.req

(* Kept, but that a PATH3 about to be requested need not be queued.        *)
KeptFor(g, p) ==
  /\ g.active \notin g.queue
  /\ g.active = 0 => g.queue = {}
  /\ \A o \in {1, 2} : g.status[o] # "idle" => g.active = o
  /\ p = 3 \/ (g.status[3] # "idle" => 3 \in g.queue \cup {g.active})

(* No queued path comes before the active one.                             *)
Ordered(g) == \A o \in g.queue : o > g.active

-----------------------------------------------------------------------------
(* arbitrate_paths finds the first path of a queue that is not empty.      *)
LEMMA FirstIsFirst ==
  ASSUME NEW S \in SUBSET Paths, S # {}
  PROVE  First(S) \in S /\ \A o \in S : First(S) <= o
<1>1. \E p \in S : \A o \in S : p <= o
  <2>1. CASE 1 \in S  BY <2>1 DEF Paths
  <2>2. CASE 1 \notin S /\ 2 \in S
    <3>1. \A o \in S : 2 <= o  BY <2>2 DEF Paths
    <3>. QED  BY <2>2, <3>1
  <2>3. CASE 1 \notin S /\ 2 \notin S
    <3>1. \A o \in S : o = 3  BY <2>3 DEF Paths
    <3>2. 3 \in S  BY <3>1
    <3>. QED  BY <3>1, <3>2
  <2>. QED  BY <2>1, <2>2, <2>3
<1>. QED  BY <1>1 DEF First

(* arbitrate_paths, when no path or PATH3 is active: the first path gets   *)
(* the GIF, and an active PATH3 that loses it is queued.                   *)
LEMMA ArbitrateKeeps ==
  ASSUME NEW g \in GifState, g.active \in {0, 3}, g.active \notin g.queue,
         g.status[1] = "idle", g.status[2] = "idle",
         g.status[3] # "idle" => 3 \in g.queue \cup {g.active}
  PROVE  /\ Arbitrate(g) \in GifState /\ Kept(Arbitrate(g))
         /\ SameBut(g, Arbitrate(g)) /\ Ordered(Arbitrate(g))
<1>. DEFINE h == Arbitrate(g)
<1>1. CASE g.queue = {}
  <2>1. h = g  BY <1>1 DEF Arbitrate
  <2>. QED  BY <1>1, <2>1 DEF Kept, SameBut, Ordered
<1>2. CASE g.queue # {}
  <2>. DEFINE next == First(g.queue)
  <2>1. g.queue \in SUBSET Paths /\ g.active \in 0 .. 3 /\ g.req \in BOOLEAN
    BY DEF GifState
  <2>2. next \in g.queue /\ \A o \in g.queue : next <= o
    BY <1>2, <2>1, FirstIsFirst
  <2>3. next \in Paths /\ ~(g.active # 0 /\ next > g.active)
    BY <2>1, <2>2 DEF Paths
  <2>. HIDE DEF next
  <2>4. h = [g EXCEPT !.queue = (@ \cup ({g.active} \ {0})) \ {next},
                      !.active = next,
                      !.req = @ \/ (next = 3 /\ Len(g.fifo) <= FifoSize \div 2)]
    BY <1>2, <2>1, <2>3 DEF Arbitrate, Activate, GifState, next
  <2>5. /\ h.active = next
        /\ h.queue = (g.queue \cup ({g.active} \ {0})) \ {next}
        /\ h.req = (g.req \/ (next = 3 /\ Len(g.fifo) <= FifoSize \div 2))
    BY <2>4 DEF GifState
  <2>6. SameBut(g, h)  BY <2>4, <2>5 DEF SameBut, GifState
  <2>7. h \in GifState
    <3>1. h.queue \in SUBSET Paths /\ h.active \in 0 .. 3
      BY <2>1, <2>3, <2>5 DEF Paths
    <3>2. h.req \in BOOLEAN  BY <2>1, <2>5
    <3>. QED  BY <2>4, <2>5, <3>1, <3>2 DEF GifState
  <2>8. h.status = g.status  BY <2>6 DEF SameBut
  <2>9. Kept(h)
    BY <2>1, <2>2, <2>3, <2>5, <2>8 DEF Kept, Paths
  <2>10. Ordered(h)
    BY <2>1, <2>2, <2>3, <2>5 DEF Ordered, Paths
  <2>. QED  BY <2>6, <2>7, <2>9, <2>10
<1>. QED  BY <1>1, <1>2

(* deactivate_PATH keeps every path but an idle one that it was asked for. *)
LEMMA DeactivateKeeps ==
  ASSUME NEW g \in GifState, Kept(g), NEW p \in Paths
  PROVE  /\ DeactivatePath(g, p) \in GifState /\ Kept(DeactivatePath(g, p))
         /\ SameBut(g, DeactivatePath(g, p))
         /\ g.active = p /\ g.status[p] = "idle" => Ordered(DeactivatePath(g, p))
<1>0. /\ g.queue \in SUBSET Paths /\ g.active \in 0 .. 3
      /\ g.status \in [Paths -> Statuses]
  BY DEF GifState
<1>1. CASE g.status[p] # "idle"
  <2>1. DeactivatePath(g, p) = g  BY <1>1 DEF DeactivatePath
  <2>. QED  BY <1>1, <2>1 DEF SameBut
<1>2. CASE g.status[p] = "idle" /\ g.active = p
  <2>. DEFINE k == [g EXCEPT !.queue = @ \ {p}, !.active = 0]
  <2>1. DeactivatePath(g, p) = Arbitrate(k)  BY <1>2 DEF DeactivatePath
  <2>2. /\ k.active = 0 /\ k.queue = g.queue \ {p} /\ k.status = g.status
        /\ SameBut(g, k)
    BY DEF GifState, SameBut
  <2>3. k \in GifState
    <3>1. g.queue \ {p} \in SUBSET Paths /\ 0 \in 0 .. 3  BY <1>0
    <3>. QED  BY <3>1 DEF GifState
  <2>4. /\ k.active \notin k.queue
        /\ k.status[1] = "idle" /\ k.status[2] = "idle"
        /\ k.status[3] # "idle" => 3 \in k.queue
    BY <1>0, <1>2, <2>2 DEF Kept, Paths
  <2>. HIDE DEF k
  <2>5. /\ Arbitrate(k) \in GifState /\ Kept(Arbitrate(k))
        /\ SameBut(k, Arbitrate(k)) /\ Ordered(Arbitrate(k))
    BY <2>2, <2>3, <2>4, ArbitrateKeeps
  <2>. QED  BY <2>1, <2>2, <2>5 DEF SameBut
<1>3. CASE g.status[p] = "idle" /\ g.active # p
  <2>. DEFINE k == [g EXCEPT !.queue = @ \ {p}]
  <2>1. DeactivatePath(g, p) = k  BY <1>3 DEF DeactivatePath
  <2>2. /\ k.active = g.active /\ k.queue = g.queue \ {p} /\ k.status = g.status
        /\ SameBut(g, k)
    BY DEF GifState, SameBut
  <2>3. k \in GifState  BY <1>0 DEF GifState
  <2>4. Kept(k)  BY <1>0, <1>3, <2>2 DEF Kept, Paths
  <2>. QED  BY <1>3, <2>1, <2>2, <2>3, <2>4
<1>. QED  BY <1>1, <1>2, <1>3

(* path3_masked, asked with every path kept.                               *)
LEMMA AskMaskedKeeps ==
  ASSUME NEW g \in GifState, Kept(g)
  PROVE  /\ AskMasked(g) \in GifState /\ Kept(AskMasked(g))
         /\ SameBut(g, AskMasked(g))
         /\ Path3Masked(g) /\ g.active = 3 => Ordered(AskMasked(g))
<1>1. 3 \in Paths  BY DEF Paths
<1>2. CASE Path3Masked(g)
  <2>1. AskMasked(g) = DeactivatePath(g, 3) /\ g.status[3] = "idle"
    BY <1>2 DEF AskMasked, Path3Masked
  <2>. QED  BY <1>1, <2>1, DeactivateKeeps
<1>3. CASE ~Path3Masked(g)
  <2>1. AskMasked(g) = g  BY <1>3 DEF AskMasked
  <2>. QED  BY <1>3, <2>1 DEF SameBut
<1>. QED  BY <1>2, <1>3

(* interrupt_path3: the second arbitration of a masked PATH3 does nothing. *)
LEMMA InterruptKeeps ==
  ASSUME NEW g \in GifState, Kept(g), NEW p \in Paths
  PROVE  /\ InterruptPath3(g, p) \in GifState /\ Kept(InterruptPath3(g, p))
         /\ SameBut(g, InterruptPath3(g, p))
<1>. DEFINE h == InterruptPath3(g, p)
<1>1. CASE g.active # 3 \/ p = 3
  <2>1. h = g  BY <1>1 DEF InterruptPath3
  <2>. QED  BY <2>1 DEF SameBut
<1>2. CASE g.active = 3 /\ p # 3 /\ g.intermittent /\ g.status[3] = "image"
  <2>1. h = Arbitrate(g)  BY <1>2 DEF InterruptPath3
  <2>2. /\ g.active \notin g.queue
        /\ g.status[1] = "idle" /\ g.status[2] = "idle"
        /\ g.status[3] # "idle" => 3 \in g.queue \cup {g.active}
    BY <1>2 DEF Kept
  <2>. QED  BY <1>2, <2>1, <2>2, ArbitrateKeeps
<1>3. CASE /\ g.active = 3 /\ p # 3 /\ ~(g.intermittent /\ g.status[3] = "image")
           /\ Path3Masked(g)
  <2>. DEFINE k == AskMasked(g)
  <2>1. h = Arbitrate(k)  BY <1>3 DEF InterruptPath3
  <2>2. k \in GifState /\ Kept(k) /\ SameBut(g, k) /\ Ordered(k)
    BY <1>3, AskMaskedKeeps
  <2>3. k.queue # {} => First(k.queue) > k.active
    <3>1. k.queue \in SUBSET Paths  BY <2>2 DEF GifState
    <3>2. k.queue # {} => First(k.queue) \in k.queue  BY <3>1, FirstIsFirst
    <3>. QED  BY <2>2, <3>2 DEF Ordered
  <2>4. Arbitrate(k) = k  BY <2>2, <2>3 DEF Arbitrate, Kept
  <2>. QED  BY <2>1, <2>2, <2>4
<1>4. CASE /\ g.active = 3 /\ p # 3 /\ ~(g.intermittent /\ g.status[3] = "image")
           /\ ~Path3Masked(g)
  <2>1. h = g  BY <1>4 DEF InterruptPath3
  <2>. QED  BY <2>1 DEF SameBut
<1>. QED  BY <1>1, <1>2, <1>3, <1>4

(* request_PATH: the path is active or queued, or a masked PATH3 is not.   *)
LEMMA RequestKeeps ==
  ASSUME NEW g \in GifState, NEW p \in Paths, KeptFor(g, p),
         NEW interrupts \in BOOLEAN
  PROVE  /\ RequestPath(g, p, interrupts) \in GifState
         /\ Kept(RequestPath(g, p, interrupts))
         /\ SameBut(g, RequestPath(g, p, interrupts))
<1>. DEFINE r == RequestPath(g, p, interrupts)
<1>0. /\ g.queue \in SUBSET Paths /\ g.active \in 0 .. 3 /\ p \in 0 .. 3 /\ p # 0
      /\ g.status \in [Paths -> Statuses] /\ g.req \in BOOLEAN
  BY DEF GifState, Paths
<1>1. CASE g.active \in {0, p}
  <2>. DEFINE h == [g EXCEPT !.active = p]
  <2>1. h \in GifState  BY <1>0 DEF GifState
  <2>2. /\ h.active = p /\ h.queue = g.queue /\ h.status = g.status
        /\ h.req = g.req /\ SameBut(g, h)
    BY DEF GifState, SameBut
  <2>3. Kept(h)  BY <1>0, <1>1, <2>2 DEF Kept, KeptFor, Paths
  <2>4. CASE p # 3
    <3>1. r = h  BY <1>1, <2>4 DEF RequestPath
    <3>. QED  BY <3>1, <2>1, <2>2, <2>3
  <2>5. CASE p = 3
    <3>. DEFINE k == AskMasked(h)
                more == ~Path3Masked(h) \/ Len(h.fifo) < FifoSize
    <3>1. r = [k EXCEPT !.req = @ \/ more]
      BY <1>1, <2>5 DEF RequestPath
    <3>. HIDE DEF h
    <3>2. k \in GifState /\ Kept(k) /\ SameBut(h, k)
      BY <2>1, <2>3, AskMaskedKeeps
    <3>. HIDE DEF k, more
    <3>3. /\ r.active = k.active /\ r.queue = k.queue /\ r.status = k.status
          /\ r.req = (k.req \/ more) /\ SameBut(k, r)
      BY <3>1, <3>2 DEF GifState, SameBut
    <3>4. r \in GifState
      <4>1. r.req \in BOOLEAN  BY <3>2, <3>3 DEF GifState
      <4>. QED  BY <3>1, <3>2, <3>3, <4>1 DEF GifState
    <3>5. Kept(r)  BY <3>2, <3>3 DEF Kept
    <3>. QED  BY <2>2, <3>2, <3>3, <3>4, <3>5 DEF SameBut
  <2>. QED  BY <2>4, <2>5
<1>2. CASE g.active \notin {0, p}
  <2>. DEFINE h == [g EXCEPT !.queue = @ \cup {p}]
  <2>1. h \in GifState
    <3>1. g.queue \cup {p} \in SUBSET Paths  BY <1>0
    <3>. QED  BY <3>1 DEF GifState
  <2>2. /\ h.active = g.active /\ h.queue = g.queue \cup {p}
        /\ h.status = g.status /\ SameBut(g, h)
    BY DEF GifState, SameBut
  <2>3. Kept(h)  BY <1>0, <1>2, <2>2 DEF Kept, KeptFor, Paths
  <2>4. r = IF interrupts THEN InterruptPath3(h, p) ELSE h
    BY <1>2 DEF RequestPath
  <2>. HIDE DEF h
  <2>5. /\ InterruptPath3(h, p) \in GifState /\ Kept(InterruptPath3(h, p))
        /\ SameBut(h, InterruptPath3(h, p))
    BY <2>1, <2>3, InterruptKeeps
  <2>. QED  BY <2>1, <2>2, <2>3, <2>4, <2>5 DEF SameBut
<1>. QED  BY <1>1, <1>2

(* A path may always be requested when all are kept.                       *)
LEMMA KeptForAny ==
  ASSUME NEW g, Kept(g), NEW p
  PROVE  KeptFor(g, p)
BY DEF Kept, KeptFor

-----------------------------------------------------------------------------
(* An idle path has no quad to come, and if any has, OPH is set.           *)
Counted(g) ==
  /\ \A p \in Paths : g.status[p] = "idle" => g.left[p] = 0
  /\ g.outputting \/ \A p \in Paths : g.left[p] = 0

Sound(g) == g \in GifState /\ Kept(g) /\ Counted(g)

(* What feed_GIF leaves alone: the FIFO, the masks, and the other paths.   *)
SameFifo(g, h) ==
  /\ h.fifo = g.fifo /\ h.vifMask = g.vifMask /\ h.modeMask = g.modeMask
  /\ h.running = g.running /\ h.stop = g.stop
  /\ g.req => h.req

LEMMA SameCounted ==
  ASSUME NEW g, NEW h, Counted(g), SameBut(g, h)
  PROVE  Counted(h) /\ SameFifo(g, h)
BY DEF Counted, SameBut, SameFifo

(* feed_GIF: at the end of a packet the GIF is passed on, and FINISH waits *)
(* for the queue.                                                          *)
LEMMA FeedRuns ==
  ASSUME NEW g, Sound(g), g.active \in Paths, NEW q \in Quads
  PROVE  /\ Sound(Feed(g, q)) /\ SameFifo(g, Feed(g, q))
         /\ \A o \in Paths \ {g.active} : Feed(g, q).status[o] = g.status[o]
         /\ Feed(g, q).left =
              [g.left EXCEPT ![g.active] = IF @ = 0 THEN q.n ELSE @ - 1]
<1>. DEFINE p == g.active
            left == IF g.left[p] = 0 THEN q.n ELSE g.left[p] - 1
            eop == IF g.left[p] = 0 THEN q.eop ELSE g.eop[p]
            status == IF g.left[p] > 0 THEN g.status[p]
                      ELSE IF q.image THEN "image" ELSE "drawing"
            h == [g EXCEPT !.left[p] = left, !.eop[p] = eop /\ left > 0,
                           !.outputting = TRUE, !.status[p] = status]
<1>1. /\ g \in GifState /\ Kept(g) /\ Counted(g)
      /\ g.queue \in SUBSET Paths /\ g.left \in [Paths -> Nat]
      /\ g.eop \in [Paths -> BOOLEAN] /\ g.status \in [Paths -> Statuses]
  BY DEF Sound, GifState
<1>2. left \in Nat /\ (eop /\ left > 0) \in BOOLEAN /\ status \in Statuses
  <2>1. g.left[p] \in Nat /\ q.n \in Nat /\ g.status[p] \in Statuses
    BY <1>1 DEF Quads
  <2>. QED  BY <2>1 DEF Statuses
<1>3. Feed(g, q) = IF left = 0 /\ eop THEN EndPacket(h, p) ELSE h
  BY DEF Feed
<1>. HIDE DEF left, eop, status
<1>4. /\ h.active = p /\ h.queue = g.queue /\ h.outputting = TRUE
      /\ h.left = [g.left EXCEPT ![p] = left]
      /\ h.status = [g.status EXCEPT ![p] = status]
      /\ SameFifo(g, h)
  BY <1>1 DEF GifState, SameFifo
<1>5. h \in GifState
  <2>1. /\ h.left \in [Paths -> Nat] /\ h.status \in [Paths -> Statuses]
        /\ [g.eop EXCEPT ![p] = eop /\ left > 0] \in [Paths -> BOOLEAN]
    BY <1>1, <1>2, <1>4
  <2>. QED  BY <1>1, <1>4, <2>1 DEF GifState
<1>6. Kept(h)  BY <1>1, <1>4 DEF Kept, Paths
<1>7. CASE left = 0 /\ eop
  <2>. DEFINE k == [h EXCEPT !.status[p] = "idle",
                             !.outputting = @ /\ h.queue # {}]
              d == DeactivatePath(k, p)
  <2>1. Feed(g, q) = d  BY <1>3, <1>7 DEF EndPacket
  <2>. HIDE DEF h
  <2>2. /\ k.active = p /\ k.queue = g.queue /\ k.left = [g.left EXCEPT ![p] = left]
        /\ k.status = [g.status EXCEPT ![p] = "idle"]
        /\ k.outputting = (g.queue # {}) /\ SameFifo(g, k)
    BY <1>1, <1>4, <1>5 DEF GifState, SameFifo
  <2>3. k \in GifState
    <3>1. k.status \in [Paths -> Statuses] /\ k.outputting \in BOOLEAN
      BY <1>1, <2>2 DEF Statuses
    <3>. QED  BY <1>5, <2>2, <3>1 DEF GifState
  <2>4. Kept(k)  BY <1>1, <2>2 DEF Kept, Paths
  <2>5. Counted(k)
    <3>1. \A o \in Paths \ {p} : k.status[o] = g.status[o] /\ k.left[o] = g.left[o]
      BY <1>1, <2>2
    <3>2. k.status[p] = "idle" /\ k.left[p] = 0  BY <1>1, <1>7, <2>2
    <3>3. g.queue = {} => \A o \in Paths \ {p} : g.status[o] = "idle"
      BY <1>1 DEF Kept, Paths
    <3>4. \A o \in Paths : k.status[o] = "idle" => k.left[o] = 0
      BY <1>1, <3>1, <3>2 DEF Counted
    <3>5. CASE g.queue = {}
      <4>1. \A o \in Paths : k.status[o] = "idle"  BY <3>1, <3>2, <3>3, <3>5
      <4>. QED  BY <3>4, <4>1 DEF Counted
    <3>6. CASE g.queue # {}
      <4>1. k.outputting  BY <2>2, <3>6
      <4>. QED  BY <3>4, <4>1 DEF Counted
    <3>. QED  BY <3>5, <3>6
  <2>. HIDE DEF k
  <2>6. d \in GifState /\ Kept(d) /\ SameBut(k, d)
    BY <2>3, <2>4, DeactivateKeeps
  <2>7. Counted(d) /\ SameFifo(k, d)  BY <2>5, <2>6, SameCounted
  <2>8. \A o \in Paths \ {p} : d.status[o] = g.status[o]
    BY <1>1, <2>2, <2>6 DEF SameBut
  <2>9. d.left = [g.left EXCEPT ![p] = left]  BY <2>2, <2>6 DEF SameBut
  <2>10. d.left = [g.left EXCEPT ![p] = IF @ = 0 THEN q.n ELSE @ - 1]
    BY <1>1, <2>9 DEF left
  <2>. QED  BY <2>1, <2>2, <2>6, <2>7, <2>8, <2>10 DEF Sound, SameFifo
<1>8. CASE ~(left = 0 /\ eop)
  <2>1. Feed(g, q) = h  BY <1>3, <1>8
  <2>2. status = "idle" => left = 0
    <3>1. status = "idle" => g.left[p] > 0 /\ g.status[p] = "idle"  BY DEF status
    <3>2. g.status[p] = "idle" => g.left[p] = 0  BY <1>1 DEF Counted
    <3>. QED  BY <3>1, <3>2
  <2>3. Counted(h)
    BY <1>1, <1>4, <2>2 DEF Counted
  <2>4. \A o \in Paths \ {p} : h.status[o] = g.status[o]  BY <1>1, <1>4
  <2>5. h.left = [g.left EXCEPT ![p] = IF @ = 0 THEN q.n ELSE @ - 1]
    BY <1>1, <1>4 DEF left
  <2>. QED  BY <1>4, <1>5, <1>6, <2>1, <2>3, <2>4, <2>5 DEF Sound
<1>. QED  BY <1>7, <1>8

LEMMA FeedKeeps ==
  ASSUME NEW g, Sound(g), g.active \in Paths, NEW q \in Quads
  PROVE  /\ Sound(Feed(g, q)) /\ SameFifo(g, Feed(g, q))
         /\ \A o \in Paths \ {g.active} : Feed(g, q).status[o] = g.status[o]
BY FeedRuns

LEMMA FeedCounts ==
  ASSUME NEW g, Sound(g), g.active \in Paths, NEW q \in Quads
  PROVE  Feed(g, q).left = [g.left EXCEPT ![g.active] = IF @ = 0 THEN q.n ELSE @ - 1]
BY FeedRuns

-----------------------------------------------------------------------------
(* What the callers need of a request.                                     *)
LEMMA RequestSound ==
  ASSUME NEW g, Sound(g), NEW p \in Paths, NEW interrupts \in BOOLEAN
  PROVE  /\ Sound(RequestPath(g, p, interrupts))
         /\ SameBut(g, RequestPath(g, p, interrupts))
         /\ SameFifo(g, RequestPath(g, p, interrupts))
<1>1. g \in GifState /\ Kept(g) /\ Counted(g)  BY DEF Sound
<1>2. KeptFor(g, p)  BY <1>1, KeptForAny
<1>. DEFINE r == RequestPath(g, p, interrupts)
<1>3. r \in GifState /\ Kept(r) /\ SameBut(g, r)  BY <1>1, <1>2, RequestKeeps
<1>4. Counted(r) /\ SameFifo(g, r)  BY <1>1, <1>3, SameCounted
<1>. QED  BY <1>3, <1>4 DEF Sound

LEMMA InterruptSound ==
  ASSUME NEW g, Sound(g), NEW p \in Paths
  PROVE  /\ Sound(InterruptPath3(g, p)) /\ SameBut(g, InterruptPath3(g, p))
         /\ SameFifo(g, InterruptPath3(g, p))
<1>1. g \in GifState /\ Kept(g) /\ Counted(g)  BY DEF Sound
<1>. DEFINE r == InterruptPath3(g, p)
<1>2. r \in GifState /\ Kept(r) /\ SameBut(g, r)  BY <1>1, InterruptKeeps
<1>3. Counted(r) /\ SameFifo(g, r)  BY <1>1, <1>2, SameCounted
<1>. QED  BY <1>2, <1>3 DEF Sound

LEMMA DeactivateSound ==
  ASSUME NEW g, Sound(g), NEW p \in Paths
  PROVE  /\ Sound(DeactivatePath(g, p)) /\ SameBut(g, DeactivatePath(g, p))
         /\ SameFifo(g, DeactivatePath(g, p))
<1>1. g \in GifState /\ Kept(g) /\ Counted(g)  BY DEF Sound
<1>. DEFINE r == DeactivatePath(g, p)
<1>2. r \in GifState /\ Kept(r) /\ SameBut(g, r)  BY <1>1, DeactivateKeeps
<1>3. Counted(r) /\ SameFifo(g, r)  BY <1>1, <1>2, SameCounted
<1>. QED  BY <1>2, <1>3 DEF Sound

LEMMA AskSound ==
  ASSUME NEW g, Sound(g)
  PROVE  /\ Sound(AskMasked(g)) /\ SameBut(g, AskMasked(g))
         /\ SameFifo(g, AskMasked(g))
<1>1. g \in GifState /\ Kept(g) /\ Counted(g)  BY DEF Sound
<1>. DEFINE r == AskMasked(g)
<1>2. r \in GifState /\ Kept(r) /\ SameBut(g, r)  BY <1>1, AskMaskedKeeps
<1>3. Counted(r) /\ SameFifo(g, r)  BY <1>1, <1>2, SameCounted
<1>. QED  BY <1>2, <1>3 DEF Sound

(* run asks for PATH3 before it empties the FIFO: when PATH3 is active     *)
(* then, the DMA controller has its request.                               *)
LEMMA RequestAsks ==
  ASSUME NEW g, Sound(g), RequestPath(g, 3, FALSE).active = 3, ~Path3Masked(g)
  PROVE  RequestPath(g, 3, FALSE).req
<1>1. g \in GifState /\ Kept(g) /\ 3 \in Paths  BY DEF Sound, Paths
<1>2. CASE g.active \in {0, 3}
  <2>. DEFINE h == [g EXCEPT !.active = 3]
              k == AskMasked(h)
  <2>1. ~Path3Masked(h)  BY <1>1 DEF Path3Masked, GifState
  <2>2. h \in GifState
    <3>1. 3 \in 0 .. 3  OBVIOUS
    <3>. QED  BY <1>1, <3>1 DEF GifState
  <2>4. k = h  BY <2>1 DEF AskMasked
  <2>3. RequestPath(g, 3, FALSE) =
          [k EXCEPT !.req = @ \/ ~Path3Masked(h) \/ Len(h.fifo) < FifoSize]
    BY <1>2 DEF RequestPath
  <2>. HIDE DEF h
  <2>. QED  BY <2>1, <2>2, <2>3, <2>4 DEF GifState
<1>3. CASE g.active \notin {0, 3}
  <2>1. RequestPath(g, 3, FALSE).active = g.active
    BY <1>1, <1>3 DEF RequestPath, GifState
  <2>. QED  BY <1>3, <2>1
<1>. QED  BY <1>2, <1>3

(* resume_path3 makes PATH3 busy before it is queued.                      *)
LEMMA ResumeKeeps ==
  ASSUME NEW g, Sound(g)
  PROVE  /\ Sound(ResumePath3(g)) /\ SameFifo(g, ResumePath3(g))
         /\ ResumePath3(g).left = g.left
<1>. DEFINE k == [g EXCEPT !.status[3] = "drawing"]
            r == RequestPath(k, 3, FALSE)
<1>1. g \in GifState /\ Kept(g) /\ Counted(g) /\ 3 \in Paths  BY DEF Sound, Paths
<1>2. g.status \in [Paths -> Statuses]  BY <1>1 DEF GifState
<1>3. /\ k.status = [g.status EXCEPT ![3] = "drawing"] /\ k.left = g.left
      /\ k.active = g.active /\ k.queue = g.queue /\ k.outputting = g.outputting
      /\ SameFifo(g, k)
  BY <1>1 DEF GifState, SameFifo
<1>4. k \in GifState
  <2>1. k.status \in [Paths -> Statuses]  BY <1>2, <1>3 DEF Statuses
  <2>. QED  BY <1>1, <1>3, <2>1 DEF GifState
<1>5. KeptFor(k, 3)  BY <1>1, <1>2, <1>3 DEF Kept, KeptFor, Paths
<1>6. Counted(k)  BY <1>1, <1>2, <1>3 DEF Counted
<1>. HIDE DEF k
<1>7. r \in GifState /\ Kept(r) /\ SameBut(k, r)
  BY <1>1, <1>4, <1>5, RequestKeeps
<1>8. Counted(r) /\ SameFifo(k, r)  BY <1>6, <1>7, SameCounted
<1>9. ResumePath3(g) \in {g, r}  BY DEF ResumePath3, k
<1>10. r.left = g.left  BY <1>3, <1>7 DEF SameBut
<1>. QED  BY <1>1, <1>3, <1>7, <1>8, <1>9, <1>10 DEF Sound, SameFifo

(* send_PATH3: the request is withdrawn only from a full FIFO, and no quad *)
(* of a masked PATH3 is fed.                                               *)
LEMMA SendKeeps ==
  ASSUME NEW g, Sound(g), Len(g.fifo) <= FifoSize, NEW q \in Quads
  PROVE  /\ Sound(SendPath3(g, q)) /\ Len(SendPath3(g, q).fifo) <= FifoSize
         /\ g.req => SendPath3(g, q).req \/ Full(SendPath3(g, q))
         /\ Path3Masked(g) => SendPath3(g, q).status[3] = "idle"
<1>. DEFINE s == SendPath3(g, q)
            h == IF Done3(g) THEN RequestPath(g, 3, FALSE) ELSE g
            k == AskMasked(h)
<1>1. 3 \in Paths /\ FALSE \in BOOLEAN  BY DEF Paths
<1>2. Sound(h) /\ SameBut(g, h)
  <2>1. CASE Done3(g)  BY <1>1, <2>1, RequestSound
  <2>2. CASE ~Done3(g)  BY <2>2 DEF SameBut
  <2>. QED  BY <2>1, <2>2
<1>3. s = IF ~Path3Masked(h) /\ k.active = 3 /\ ~k.stop THEN Feed(k, q)
          ELSE IF Full(k) THEN k
          ELSE [k EXCEPT !.fifo = Append(@, q),
                         !.req = @ /\ Len(k.fifo) + 1 < FifoSize]
  BY DEF SendPath3
<1>. HIDE DEF h
<1>4. Sound(k) /\ SameBut(h, k)  BY <1>2, AskSound
<1>. HIDE DEF k
<1>5. /\ k.fifo = g.fifo /\ k.status = g.status
      /\ g.req => k.req
      /\ Path3Masked(g) => Path3Masked(h) /\ k.status[3] = "idle"
  BY <1>2, <1>4 DEF SameBut, Path3Masked
<1>6. CASE ~Path3Masked(h) /\ k.active = 3 /\ ~k.stop
  <2>1. s = Feed(k, q)  BY <1>3, <1>6
  <2>2. Sound(s) /\ SameFifo(k, s)  BY <1>1, <1>4, <1>6, <2>1, FeedKeeps
  <2>3. s.fifo = g.fifo /\ (g.req => s.req)  BY <1>5, <2>2 DEF SameFifo
  <2>4. ~Path3Masked(g)  BY <1>5, <1>6
  <2>. QED  BY <2>2, <2>3, <2>4
<1>7. CASE ~(~Path3Masked(h) /\ k.active = 3 /\ ~k.stop) /\ Full(k)
  <2>1. s = k  BY <1>3, <1>7
  <2>. QED  BY <1>4, <1>5, <1>7, <2>1 DEF Full
<1>8. CASE ~(~Path3Masked(h) /\ k.active = 3 /\ ~k.stop) /\ ~Full(k)
  <2>1. s = [k EXCEPT !.fifo = Append(@, q),
                      !.req = @ /\ Len(k.fifo) + 1 < FifoSize]
    BY <1>3, <1>8
  <2>2. k \in GifState /\ Kept(k) /\ Counted(k)  BY <1>4 DEF Sound
  <2>3. k.fifo \in Seq(Quads) /\ k.req \in BOOLEAN  BY <2>2 DEF GifState
  <2>4. /\ s.fifo = Append(k.fifo, q)
        /\ s.req = (k.req /\ Len(k.fifo) + 1 < FifoSize)
        /\ s.active = k.active /\ s.queue = k.queue /\ s.status = k.status
        /\ s.left = k.left /\ s.outputting = k.outputting
    BY <2>1, <2>2 DEF GifState
  <2>5. s \in GifState
    <3>1. s.fifo \in Seq(Quads) /\ s.req \in BOOLEAN  BY <2>3, <2>4
    <3>. QED  BY <2>1, <2>2, <2>4, <3>1 DEF GifState
  <2>6. Kept(s) /\ Counted(s)  BY <2>2, <2>4 DEF Kept, Counted
  <2>7. Len(s.fifo) = Len(k.fifo) + 1 /\ Len(k.fifo) \in Nat  BY <2>3, <2>4
  <2>8. Len(s.fifo) <= FifoSize /\ (Len(k.fifo) + 1 < FifoSize \/ Full(s))
    <3>1. Len(k.fifo) <= FifoSize /\ Len(k.fifo) # FifoSize /\ FifoSize \in Nat
      BY <1>5, <1>8, GifAssumption DEF Full
    <3>2. Len(s.fifo) <= FifoSize  BY <2>7, <3>1
    <3>3. Len(k.fifo) + 1 < FifoSize \/ Len(s.fifo) = FifoSize  BY <2>7, <3>1
    <3>. QED  BY <3>2, <3>3 DEF Full
  <2>9. g.req => s.req \/ Full(s)
    BY <1>5, <2>4, <2>8
  <2>. QED  BY <1>5, <2>4, <2>5, <2>6, <2>8, <2>9 DEF Sound
<1>. QED  BY <1>6, <1>7, <1>8

(* flush_path3_fifo keeps the request that run has just made.              *)
LEMMA FlushKeeps ==
  ASSUME NEW g, Sound(g), g.fifo # <<>>, g.active = 3, g.req,
         Len(g.fifo) <= FifoSize
  PROVE  /\ Sound(FlushPath3(g)) /\ Len(FlushPath3(g).fifo) <= FifoSize
         /\ FlushPath3(g).req
<1>. DEFINE f == Feed(g, Head(g.fifo))
            h == [f EXCEPT !.fifo = Tail(g.fifo)]
            d == DeactivatePath(h, 3)
            a == [h EXCEPT !.req = TRUE]
<1>1. g.fifo \in Seq(Quads) /\ 3 \in Paths  BY DEF Sound, GifState, Paths
<1>2. /\ Head(g.fifo) \in Quads /\ Tail(g.fifo) \in Seq(Quads)
      /\ Len(Tail(g.fifo)) <= FifoSize
  <2>1. Len(Tail(g.fifo)) = Len(g.fifo) - 1 /\ Len(g.fifo) \in Nat  BY <1>1
  <2>. QED  BY <1>1, <2>1, GifAssumption
<1>3. Sound(f) /\ SameFifo(g, f)  BY <1>1, <1>2, FeedKeeps
<1>. HIDE DEF f
<1>4. f \in GifState /\ Kept(f) /\ Counted(f)  BY <1>3 DEF Sound
<1>5. /\ h.active = f.active /\ h.queue = f.queue /\ h.status = f.status
      /\ h.left = f.left /\ h.outputting = f.outputting /\ h.req = f.req
      /\ h.fifo = Tail(g.fifo)
  BY <1>4 DEF GifState
<1>6. h \in GifState  BY <1>2, <1>4 DEF GifState
<1>7. Sound(h) /\ h.req
  <2>1. Kept(h) /\ Counted(h)  BY <1>4, <1>5 DEF Kept, Counted
  <2>2. h.req  BY <1>3, <1>5 DEF SameFifo
  <2>. QED  BY <1>6, <2>1, <2>2 DEF Sound
<1>8. FlushPath3(g) \in {h, d, a}  BY DEF FlushPath3, f
<1>. HIDE DEF h
<1>9. Sound(d) /\ d.req /\ d.fifo = h.fifo
  BY <1>1, <1>7, DeactivateSound DEF SameFifo
<1>10. Sound(a) /\ a.req /\ a.fifo = h.fifo
  <2>1. /\ a \in GifState /\ a.req = TRUE /\ a.fifo = h.fifo
        /\ a.active = h.active /\ a.queue = h.queue /\ a.status = h.status
        /\ a.left = h.left /\ a.outputting = h.outputting
    BY <1>6 DEF GifState
  <2>. QED  BY <1>7, <2>1 DEF Sound, Kept, Counted
<1>. QED  BY <1>2, <1>5, <1>7, <1>8, <1>9, <1>10

-----------------------------------------------------------------------------
(* The inductive invariant.  RequestKept needs the type of the FIFO, and   *)
(* that a request that a stall took is noted until it has come back        *)
(* (Withheld); FinishNotEarly that an idle path has no quad to come.       *)
Others ==
  /\ dma \in [started : BOOLEAN, quads : 0 .. MaxQuads, packet : Nat]
  /\ vif \in [direct : 0 .. MaxQuads, interrupts : BOOLEAN, resume : BOOLEAN]
  /\ vu \in [kick : BOOLEAN, stall : BOOLEAN]
  /\ asked \in {"no", "yes", "withheld"}

IInv ==
  /\ Others /\ Sound(gif) /\ Len(gif.fifo) <= FifoSize
  /\ gif.req \/ Full(gif) \/ asked # "yes"

Withheld == stalled \in BOOLEAN /\ (asked = "withheld" => stalled /\ ~gif.req)

GifInv == IInv /\ Withheld

LEMMA IInvParts ==
  IInv <=> /\ Others /\ Sound(gif) /\ Len(gif.fifo) <= FifoSize
           /\ (gif.req \/ Full(gif) \/ asked # "yes")
BY DEF IInv

(* Every quad that a packet may go on with is a quad.                      *)
LEMMA FollowingAreQuads ==
  ASSUME NEW left \in Nat, NEW q \in Following(left)
  PROVE  q \in Quads /\ LeftAfter(left, q) \in Nat
<1>1. CASE left = 0
  <2>1. q \in [tag : {TRUE}, n : Nat, eop : BOOLEAN, image : BOOLEAN]
    BY <1>1, GifAssumption DEF Following
  <2>. QED  BY <2>1 DEF Quads, LeftAfter
<1>2. CASE left # 0
  <2>1. q = Data(left)  BY <1>2 DEF Following
  <2>. QED  BY <1>2, <2>1 DEF Data, Quads, LeftAfter
<1>. QED  BY <1>1, <1>2

(* A step that leaves the FIFO alone and withdraws no request, whatever    *)
(* the flags become.                                                       *)
LEMMA RequestsOnly ==
  ASSUME IInv, Sound(gif'), gif'.fifo = gif.fifo, gif.req => gif'.req,
         Moves \/ asked' = asked, Others'
  PROVE  IInv'
<1>1. /\ Others /\ Len(gif.fifo) <= FifoSize /\ asked \in {"no", "yes", "withheld"}
      /\ gif.req \/ Full(gif) \/ asked # "yes"
  BY IInvParts DEF Others
<1>2. Len(gif'.fifo) <= FifoSize /\ (Full(gif) => Full(gif'))
  BY <1>1 DEF Full
<1>3. gif'.req \/ Full(gif') \/ asked' # "yes"
  <2>1. CASE gif'.req  BY <2>1
  <2>2. CASE ~gif'.req
    <3>1. asked' = "yes" => asked = "yes"  BY <2>2 DEF Moves, Asks
    <3>. QED  BY <1>1, <1>2, <2>2, <3>1
  <2>. QED  BY <2>1, <2>2
<1>. QED  BY <1>2, <1>3 DEF IInv, Others, Sound

(* The same, as the functions of GraphicsInterface say it.                *)
LEMMA FifoAlone ==
  ASSUME IInv, Sound(gif'), SameFifo(gif, gif'), Moves \/ asked' = asked, Others'
  PROVE  IInv'
BY RequestsOnly DEF SameFifo

(* The first state: nothing is queued, active or counted.                  *)
LEMMA InitHolds == Init => IInv
<1>. SUFFICES ASSUME Init PROVE IInv
  OBVIOUS
<1>1. gif = ResetGif(FALSE)  BY DEF Init
<1>2. /\ gif \in GifState /\ gif.fifo = <<>> /\ gif.active = 0 /\ gif.queue = {}
      /\ \A p \in Paths : gif.status[p] = "idle" /\ gif.left[p] = 0
  BY <1>1 DEF ResetGif, GifState, Paths, Statuses
<1>3. Sound(gif)  BY <1>2 DEF Sound, Kept, Counted, Paths
<1>4. Len(gif.fifo) <= FifoSize  BY <1>2, GifAssumption
<1>5. 0 \in 0 .. MaxQuads  BY GifAssumption
<1>6. Others /\ asked # "yes"  BY <1>5 DEF Init, Others
<1>. QED  BY <1>3, <1>4, <1>6, IInvParts

(* The request of PATH2 or PATH1, which may interrupt PATH3.               *)
LEMMA AskForGif ==
  ASSUME NEW g, Sound(g), NEW p \in Paths, NEW interrupts \in BOOLEAN,
         NEW r, r = RequestPath(g, p, interrupts), NEW k, k = InterruptPath3(r, p)
  PROVE  /\ Sound(r) /\ SameBut(g, r) /\ SameFifo(g, r)
         /\ Sound(k) /\ SameBut(g, k) /\ SameFifo(g, k)
<1>1. Sound(r) /\ SameBut(g, r) /\ SameFifo(g, r)  BY RequestSound
<1>2. Sound(k) /\ SameBut(r, k) /\ SameFifo(r, k)  BY <1>1, InterruptSound
<1>. QED  BY <1>1, <1>2 DEF SameBut, SameFifo

(* The flag of the GIF channel, path3_dma_running, touches no path.        *)
LEMMA RunningSound ==
  ASSUME NEW g, Sound(g), NEW b \in BOOLEAN, NEW k, k = [g EXCEPT !.running = b]
  PROVE  /\ Sound(k) /\ k.fifo = g.fifo /\ k.req = g.req /\ k.status = g.status
         /\ k.vifMask = g.vifMask /\ k.modeMask = g.modeMask
<1>1. g \in GifState /\ Kept(g) /\ Counted(g)  BY DEF Sound
<1>2. /\ k \in GifState /\ k.active = g.active /\ k.queue = g.queue
      /\ k.status = g.status /\ k.left = g.left /\ k.outputting = g.outputting
      /\ k.fifo = g.fifo /\ k.req = g.req
      /\ k.vifMask = g.vifMask /\ k.modeMask = g.modeMask
  BY <1>1 DEF GifState
<1>3. Kept(k) /\ Counted(k)  BY <1>1, <1>2 DEF Kept, Counted
<1>. QED  BY <1>2, <1>3 DEF Sound

(* process_GIF moves a quad, or ends the transfer.                         *)
LEMMA ProcessGIFKeeps == IInv /\ ProcessGIF => IInv'
<1>. SUFFICES ASSUME IInv, ProcessGIF PROVE IInv'
  OBVIOUS
<1>. DEFINE may == dma.quads > 0 /\ ~Full(gif)
            g == IF may /\ gif.fifo # <<>> THEN AskMasked(gif) ELSE gif
<1>1. /\ Others /\ Sound(gif) /\ Len(gif.fifo) <= FifoSize /\ gif.req
      /\ dma.quads \in 0 .. MaxQuads /\ dma.packet \in Nat /\ MaxQuads \in Nat
  BY IInvParts, GifAssumption DEF Others, ProcessGIF
<1>2. Sound(g) /\ SameFifo(gif, g)
  <2>1. Sound(AskMasked(gif)) /\ SameFifo(gif, AskMasked(gif))  BY <1>1, AskSound
  <2>. QED  BY <1>1, <2>1 DEF SameFifo
<1>3. CASE may /\ ~Draining(gif)
  <2>1. PICK q \in Following(dma.packet) :
          /\ gif' = [SendPath3([g EXCEPT !.running = TRUE], q)
                       EXCEPT !.running = dma.quads > 1]
          /\ Moved(dma.quads - 1, LeftAfter(dma.packet, q))
          /\ Asks /\ UNCHANGED <<vif, vu>>
    BY <1>3 DEF ProcessGIF
  <2>2. q \in Quads /\ LeftAfter(dma.packet, q) \in Nat
    BY <1>1, FollowingAreQuads
  <2>. DEFINE k == [g EXCEPT !.running = TRUE]
              s == SendPath3(k, q)
  <2>. HIDE DEF g
  <2>3. Sound(k) /\ k.fifo = gif.fifo /\ k.req
    <3>1. TRUE \in BOOLEAN  OBVIOUS
    <3>2. Sound(k) /\ k.fifo = g.fifo /\ k.req = g.req
      BY <1>2, <3>1, RunningSound
    <3>. QED  BY <1>1, <1>2, <3>2 DEF SameFifo
  <2>. HIDE DEF k
  <2>4. Sound(s) /\ Len(s.fifo) <= FifoSize /\ (s.req \/ Full(s))
    BY <1>1, <2>2, <2>3, SendKeeps
  <2>. HIDE DEF s
  <2>5. gif' = [s EXCEPT !.running = dma.quads > 1]  BY <2>1 DEF s, k
  <2>6. /\ Sound(gif') /\ Len(gif'.fifo) <= FifoSize
        /\ gif'.req \/ Full(gif')
    <3>1. (dma.quads > 1) \in BOOLEAN  OBVIOUS
    <3>2. Sound(gif') /\ gif'.fifo = s.fifo /\ gif'.req = s.req
      BY <2>4, <2>5, <3>1, RunningSound
    <3>. QED  BY <2>4, <3>2 DEF Full
  <2>7. Others'
    BY <1>1, <1>3, <2>1, <2>2 DEF Others, Moved, Asks, Sound, GifState
  <2>. QED  BY <2>6, <2>7 DEF IInv, Others, Sound
<1>4. CASE ~(may /\ ~Draining(gif))
  <2>1. /\ gif' = [g EXCEPT !.running = dma.quads > 0]
        /\ Moved(dma.quads, dma.packet) /\ Asks /\ UNCHANGED <<vif, vu>>
    BY <1>4 DEF ProcessGIF
  <2>. HIDE DEF g
  <2>2. Sound(gif') /\ gif'.fifo = gif.fifo /\ gif'.req
    <3>1. (dma.quads > 0) \in BOOLEAN  OBVIOUS
    <3>2. Sound(gif') /\ gif'.fifo = g.fifo /\ gif'.req = g.req
      BY <1>2, <2>1, <3>1, RunningSound
    <3>. QED  BY <1>1, <1>2, <3>2 DEF SameFifo
  <2>3. Others'  BY <1>1, <2>1, <2>2 DEF Others, Moved, Asks
  <2>4. Len(gif'.fifo) <= FifoSize  BY <1>1, <2>2
  <2>. QED  BY <2>2, <2>3, <2>4 DEF IInv, Others, Sound
<1>. QED  BY <1>3, <1>4

(* run: what flows was asked for first.                                    *)
LEMMA GifRunKeeps == IInv /\ GifRun => IInv'
<1>. SUFFICES ASSUME IInv, GifRun PROVE IInv'
  OBVIOUS
<1>. DEFINE h == IF gif.fifo # <<>> /\ ~Path3Masked(gif)
                 THEN RequestPath(gif, 3, FALSE) ELSE AskMasked(gif)
<1>1. /\ Others /\ Sound(gif) /\ Len(gif.fifo) <= FifoSize
      /\ 3 \in Paths /\ FALSE \in BOOLEAN
  BY IInvParts DEF Paths
<1>2. /\ gif' = IF h.fifo # <<>> /\ h.active = 3 /\ ~h.stop /\ ~Path3Masked(h)
                THEN FlushPath3(h) ELSE h
      /\ Moves /\ UNCHANGED <<dma, vif, vu>>
  BY DEF GifRun
<1>3. Sound(h) /\ SameFifo(gif, h) /\ SameBut(gif, h)
  <2>1. CASE gif.fifo # <<>> /\ ~Path3Masked(gif)  BY <1>1, <2>1, RequestSound
  <2>2. CASE ~(gif.fifo # <<>> /\ ~Path3Masked(gif))  BY <1>1, <2>2, AskSound
  <2>. QED  BY <2>1, <2>2
<1>4. CASE h.fifo # <<>> /\ h.active = 3 /\ ~h.stop /\ ~Path3Masked(h)
  <2>1. gif.fifo # <<>> /\ ~Path3Masked(gif)
    BY <1>3, <1>4 DEF SameBut, Path3Masked
  <2>2. h = RequestPath(gif, 3, FALSE)  BY <2>1
  <2>3. h.req  BY <1>1, <1>4, <2>1, <2>2, RequestAsks
  <2>4. Len(h.fifo) <= FifoSize  BY <1>1, <1>3 DEF SameFifo
  <2>. HIDE DEF h
  <2>5. /\ Sound(gif') /\ Len(gif'.fifo) <= FifoSize /\ gif'.req
    BY <1>2, <1>3, <1>4, <2>3, <2>4, FlushKeeps
  <2>6. Others'  BY <1>1, <1>2, <2>5 DEF Others, Moves, Asks
  <2>. QED  BY <2>5, <2>6 DEF IInv, Others, Sound
<1>5. CASE ~(h.fifo # <<>> /\ h.active = 3 /\ ~h.stop /\ ~Path3Masked(h))
  <2>1. gif' = h  BY <1>2, <1>5
  <2>. HIDE DEF h
  <2>2. Others'
    <3>1. gif'.req \in BOOLEAN  BY <1>3, <2>1 DEF Sound, GifState
    <3>. QED  BY <1>1, <1>2, <3>1 DEF Others, Moves, Asks
  <2>. QED  BY <1>2, <1>3, <2>1, <2>2, FifoAlone
<1>. QED  BY <1>4, <1>5

(* The requests of PATH2: DIRECT has data, or runs out of it.              *)
LEMMA VifKeeps == IInv /\ (VifRun \/ VifOutOfData) => IInv'
<1>1. IInv => /\ Others /\ Sound(gif) /\ gif \in GifState
              /\ 2 \in Paths /\ MaxQuads \in Nat
  BY IInvParts, GifAssumption DEF Paths, Sound
<1>2. ASSUME IInv, VifRun PROVE IInv'
  <2>. DEFINE r == RequestPath(gif, 2, vif.interrupts)
              i == InterruptPath3(r, 2)
              k == IF vif.interrupts THEN i ELSE r
  <2>1. vif.interrupts \in BOOLEAN /\ vif.direct \in 0 .. MaxQuads
    BY <1>1, <1>2 DEF Others
  <2>2. /\ Sound(r) /\ SameFifo(gif, r) /\ Sound(i) /\ SameFifo(gif, i)
    BY <1>1, <1>2, <2>1, AskForGif
  <2>3. Sound(k) /\ SameFifo(gif, k)  BY <2>2
  <2>4. CASE k.active = 2 /\ ~k.stop
    <3>1. PICK q \in Plain(k.left[2]) :
            /\ gif' = IF vif.direct = 1 THEN DeactivatePath(Feed(k, q), 2)
                      ELSE Feed(k, q)
            /\ vif' = [vif EXCEPT !.direct = @ - 1,
                                  !.interrupts = @ /\ vif.direct > 1]
            /\ vif.direct > 0 /\ Moves /\ UNCHANGED <<dma, vu>>
      BY <1>2, <2>4 DEF VifRun
    <3>. HIDE DEF k
    <3>2. q \in Quads
      <4>1. k.left[2] \in Nat  BY <1>1, <1>2, <2>3 DEF Sound, GifState
      <4>2. q \in Following(k.left[2])  BY DEF Plain
      <4>. QED  BY <4>1, <4>2, FollowingAreQuads
    <3>. DEFINE f == Feed(k, q)
    <3>3. Sound(f) /\ SameFifo(k, f)  BY <1>1, <1>2, <2>3, <2>4, <3>2, FeedKeeps
    <3>. HIDE DEF f
    <3>4. Sound(DeactivatePath(f, 2)) /\ SameFifo(f, DeactivatePath(f, 2))
      BY <1>1, <1>2, <3>3, DeactivateSound
    <3>5. gif' \in {f, DeactivatePath(f, 2)}  BY <3>1 DEF f
    <3>6. Sound(gif') /\ SameFifo(gif, gif')
      BY <2>3, <3>3, <3>4, <3>5 DEF SameFifo
    <3>7. Others'
      <4>1. vif.direct - 1 \in 0 .. MaxQuads  BY <1>1, <1>2, <2>1, <3>1
      <4>2. asked' \in {"no", "yes", "withheld"}
        BY <1>1, <1>2, <3>1, <3>6 DEF Others, Moves, Asks, Sound, GifState
      <4>. QED  BY <1>1, <1>2, <3>1, <4>1, <4>2 DEF Others
    <3>. QED  BY <1>2, <3>1, <3>6, <3>7, FifoAlone
  <2>5. CASE ~(k.active = 2 /\ ~k.stop)
    <3>1. gif' = k /\ UNCHANGED vif /\ Moves /\ UNCHANGED <<dma, vu>>
      BY <1>2, <2>5 DEF VifRun
    <3>. HIDE DEF k
    <3>2. Others'
      <4>1. gif'.req \in BOOLEAN  BY <2>3, <3>1 DEF Sound, GifState
      <4>. QED  BY <1>1, <1>2, <3>1, <4>1 DEF Others, Moves, Asks
    <3>. QED  BY <1>2, <2>3, <3>1, <3>2, FifoAlone
  <2>. QED  BY <2>4, <2>5
<1>3. ASSUME IInv, VifOutOfData PROVE IInv'
  <2>1. gif' = DeactivatePath(gif, 2) /\ Moves /\ UNCHANGED <<dma, vif, vu>>
    BY <1>3 DEF VifOutOfData
  <2>2. Sound(gif') /\ SameFifo(gif, gif')
    BY <1>1, <1>3, <2>1, DeactivateSound
  <2>3. Others'
    <3>1. gif'.req \in BOOLEAN  BY <2>2 DEF Sound, GifState
    <3>. QED  BY <1>1, <1>3, <2>1, <3>1 DEF Others, Moves, Asks
  <2>. QED  BY <1>3, <2>1, <2>2, <2>3, FifoAlone
<1>. QED  BY <1>2, <1>3

(* XGKICK: its end starts the stalled one, or gives the GIF up.            *)
LEMMA VuKeeps == IInv /\ VuRun => IInv'
<1>. SUFFICES ASSUME IInv, VuRun PROVE IInv'
  OBVIOUS
<1>1. Others /\ Sound(gif) /\ gif \in GifState /\ 1 \in Paths /\ TRUE \in BOOLEAN
  BY IInvParts DEF Paths, Sound
<1>. DEFINE r == RequestPath(gif, 1, TRUE)
            k == InterruptPath3(r, 1)
<1>2. Sound(k) /\ SameFifo(gif, k)  BY <1>1, AskForGif
<1>3. CASE k.active = 1 /\ ~k.stop
  <2>1. PICK q \in Plain(k.left[1]) :
          LET h == Feed(k, q)
          IN IF h.status[1] # "idle"
             THEN gif' = h /\ UNCHANGED vu
             ELSE /\ gif' = IF vu.stall THEN RequestPath(h, 1, TRUE)
                            ELSE DeactivatePath(h, 1)
                  /\ vu' = [kick |-> vu.stall, stall |-> FALSE]
    BY <1>3 DEF VuRun
  <2>2. Moves /\ UNCHANGED <<dma, vif>>  BY DEF VuRun
  <2>. HIDE DEF k
  <2>3. q \in Quads
    <3>1. k.left[1] \in Nat  BY <1>1, <1>2 DEF Sound, GifState
    <3>2. q \in Following(k.left[1])  BY DEF Plain
    <3>. QED  BY <3>1, <3>2, FollowingAreQuads
  <2>. DEFINE f == Feed(k, q)
  <2>4. Sound(f) /\ SameFifo(k, f)  BY <1>1, <1>2, <1>3, <2>3, FeedKeeps
  <2>5. /\ gif' \in {f, RequestPath(f, 1, TRUE), DeactivatePath(f, 1)}
        /\ vu' = vu \/ vu' = [kick |-> vu.stall, stall |-> FALSE]
    BY <2>1
  <2>. HIDE DEF f
  <2>6. /\ Sound(RequestPath(f, 1, TRUE)) /\ SameFifo(f, RequestPath(f, 1, TRUE))
        /\ Sound(DeactivatePath(f, 1)) /\ SameFifo(f, DeactivatePath(f, 1))
    BY <1>1, <2>4, RequestSound, DeactivateSound
  <2>7. Sound(gif') /\ SameFifo(gif, gif')
    BY <1>2, <2>4, <2>5, <2>6 DEF SameFifo
  <2>8. Others'
    <3>1. gif'.req \in BOOLEAN  BY <2>7 DEF Sound, GifState
    <3>2. vu' \in [kick : BOOLEAN, stall : BOOLEAN]
      <4>1. vu \in [kick : BOOLEAN, stall : BOOLEAN]  BY <1>1 DEF Others
      <4>2. [kick |-> vu.stall, stall |-> FALSE] \in [kick : BOOLEAN, stall : BOOLEAN]
        BY <4>1
      <4>. QED  BY <2>5, <4>1, <4>2
    <3>. QED  BY <1>1, <2>2, <3>1, <3>2 DEF Others, Moves, Asks
  <2>. QED  BY <2>2, <2>7, <2>8, FifoAlone
<1>4. CASE ~(k.active = 1 /\ ~k.stop)
  <2>1. gif' = k /\ UNCHANGED vu /\ Moves /\ UNCHANGED <<dma, vif>>
    BY <1>4 DEF VuRun
  <2>. HIDE DEF k
  <2>2. Others'
    <3>1. gif'.req \in BOOLEAN  BY <1>2, <2>1 DEF Sound, GifState
    <3>. QED  BY <1>1, <2>1, <3>1 DEF Others, Moves, Asks
  <2>. QED  BY <1>2, <2>1, <2>2, FifoAlone
<1>. QED  BY <1>3, <1>4

(* A write of the masks, of the modes or of the stop bit touches no path.  *)
LEMMA PathsAlone ==
  ASSUME NEW g, Sound(g), NEW k \in GifState,
         k.active = g.active, k.queue = g.queue, k.status = g.status,
         k.left = g.left, k.outputting = g.outputting
  PROVE  Sound(k)
BY DEF Sound, Kept, Counted

(* The writes of GIF_MODE and GIF_CTRL, and MSKPATH3 with its resume.      *)
LEMMA WritesKeep ==
  IInv /\ (WriteMODE \/ WriteCTRL \/ VifMask \/ VifResume) => IInv'
<1>1. IInv => Others /\ Sound(gif) /\ gif \in GifState  BY IInvParts DEF Sound
<1>2. ASSUME IInv, WriteMODE PROVE IInv'
  <2>1. PICK mask \in BOOLEAN, intermittent \in BOOLEAN :
          LET h == [gif EXCEPT !.intermittent = intermittent, !.modeMask = mask]
          IN gif' = IF gif.modeMask /\ ~mask THEN ResumePath3(h) ELSE h
    BY <1>2 DEF WriteMODE
  <2>. DEFINE h == [gif EXCEPT !.intermittent = intermittent, !.modeMask = mask]
  <2>2. /\ h \in GifState /\ h.active = gif.active /\ h.queue = gif.queue
        /\ h.status = gif.status /\ h.left = gif.left
        /\ h.outputting = gif.outputting /\ h.fifo = gif.fifo /\ h.req = gif.req
    BY <1>1, <1>2 DEF GifState
  <2>3. gif' \in {h, ResumePath3(h)}  BY <2>1
  <2>. HIDE DEF h
  <2>4. Sound(h)  BY <1>1, <1>2, <2>2, PathsAlone
  <2>5. Sound(ResumePath3(h)) /\ SameFifo(h, ResumePath3(h))  BY <2>4, ResumeKeeps
  <2>6. /\ Sound(gif') /\ gif'.fifo = gif.fifo
        /\ gif.req => gif'.req
    BY <2>2, <2>3, <2>4, <2>5 DEF SameFifo
  <2>7. Moves /\ UNCHANGED <<dma, vif, vu>>  BY <1>2 DEF WriteMODE
  <2>8. Others'
    <3>1. gif'.req \in BOOLEAN  BY <2>6 DEF Sound, GifState
    <3>. QED  BY <1>1, <1>2, <2>7, <3>1 DEF Others, Moves, Asks
  <2>. QED  BY <1>2, <2>6, <2>7, <2>8, RequestsOnly
<1>3. ASSUME IInv, WriteCTRL PROVE IInv'
  <2>1. PICK reset \in BOOLEAN, stop \in BOOLEAN :
          \/ /\ ~reset
             /\ gif' = [gif EXCEPT !.stop = stop] /\ UNCHANGED <<dma, asked>>
          \/ /\ reset /\ ~dma.started
             /\ gif' = [ResetGif(gif.req) EXCEPT !.stop = stop]
             /\ dma' = [dma EXCEPT !.packet = 0]
             /\ asked' = IF gif.req THEN "yes" ELSE "no"
    BY <1>3 DEF WriteCTRL
  <2>2. UNCHANGED <<vif, vu>>  BY <1>3 DEF WriteCTRL
  <2>3. CASE ~reset
    <3>1. gif' = [gif EXCEPT !.stop = stop] /\ UNCHANGED <<dma, asked>>
      BY <2>1, <2>3
    <3>2. /\ gif' \in GifState /\ gif'.active = gif.active /\ gif'.queue = gif.queue
          /\ gif'.status = gif.status /\ gif'.left = gif.left
          /\ gif'.outputting = gif.outputting /\ gif'.fifo = gif.fifo
          /\ gif'.req = gif.req
      BY <1>1, <1>3, <3>1 DEF GifState
    <3>3. Sound(gif')  BY <1>1, <1>3, <3>2, PathsAlone
    <3>4. Others'  BY <1>1, <1>3, <2>2, <3>1 DEF Others
    <3>. QED  BY <1>3, <3>1, <3>2, <3>3, <3>4, RequestsOnly
  <2>4. CASE reset
    <3>1. /\ gif' = [ResetGif(gif.req) EXCEPT !.stop = stop]
          /\ dma' = [dma EXCEPT !.packet = 0]
          /\ asked' = IF gif.req THEN "yes" ELSE "no"
      BY <2>1, <2>4
    <3>2. gif.req \in BOOLEAN  BY <1>1, <1>3 DEF GifState
    <3>3. /\ gif' \in GifState /\ gif'.fifo = <<>> /\ gif'.active = 0
          /\ gif'.queue = {} /\ gif'.req = gif.req
          /\ \A p \in Paths : gif'.status[p] = "idle" /\ gif'.left[p] = 0
      <4>. DEFINE z == ResetGif(gif.req)
      <4>1. /\ z \in GifState /\ z.fifo = <<>> /\ z.active = 0
            /\ z.queue = {} /\ z.req = gif.req
            /\ \A p \in Paths : z.status[p] = "idle" /\ z.left[p] = 0
        BY <3>2 DEF ResetGif, GifState, Paths, Statuses
      <4>2. gif' = [z EXCEPT !.stop = stop]  BY <3>1
      <4>. HIDE DEF z
      <4>. QED  BY <4>1, <4>2 DEF GifState
    <3>4. Sound(gif')  BY <3>3 DEF Sound, Kept, Counted, Paths
    <3>5. Others'  BY <1>1, <1>3, <2>2, <3>1, <3>2 DEF Others
    <3>6. Len(gif'.fifo) <= FifoSize  BY <3>3, GifAssumption
    <3>7. gif'.req \/ asked' # "yes"  BY <3>1, <3>3
    <3>. QED  BY <3>4, <3>5, <3>6, <3>7 DEF IInv, Others, Sound
  <2>. QED  BY <2>3, <2>4
<1>4. ASSUME IInv, VifMask PROVE IInv'
  <2>1. PICK mask \in BOOLEAN :
          /\ gif' = [gif EXCEPT !.vifMask = mask]
          /\ vif' = [vif EXCEPT !.resume = gif.vifMask /\ ~mask]
          /\ UNCHANGED <<dma, vu, asked>>
    BY <1>4 DEF VifMask
  <2>2. /\ gif' \in GifState /\ gif'.active = gif.active /\ gif'.queue = gif.queue
        /\ gif'.status = gif.status /\ gif'.left = gif.left
        /\ gif'.outputting = gif.outputting /\ gif'.fifo = gif.fifo
        /\ gif'.req = gif.req
    BY <1>1, <1>4, <2>1 DEF GifState
  <2>3. Sound(gif')  BY <1>1, <1>4, <2>2, PathsAlone
  <2>4. Others'  BY <1>1, <1>4, <2>1 DEF Others
  <2>. QED  BY <1>4, <2>1, <2>2, <2>3, <2>4, RequestsOnly
<1>5. ASSUME IInv, VifResume PROVE IInv'
  <2>1. /\ gif' = ResumePath3(gif) /\ vif' = [vif EXCEPT !.resume = FALSE]
        /\ Moves /\ UNCHANGED <<dma, vu>>
    BY <1>5 DEF VifResume
  <2>2. Sound(gif') /\ SameFifo(gif, gif')  BY <1>1, <1>5, <2>1, ResumeKeeps
  <2>3. Others'
    <3>1. gif'.req \in BOOLEAN  BY <2>2 DEF Sound, GifState
    <3>. QED  BY <1>1, <1>5, <2>1, <3>1 DEF Others, Moves, Asks
  <2>. QED  BY <1>5, <2>1, <2>2, <2>3, FifoAlone
<1>. QED  BY <1>2, <1>3, <1>4, <1>5

(* The DMA channel, the processor's writes, and what VIF1 and VU1 begin.   *)
LEMMA BeginningsKeep ==
  IInv /\ (StartDMA \/ StopDMA \/ CpuWrite \/ VifDirect \/ VifReset \/ XGKICK)
    => IInv'
<1>1. IInv => /\ Others /\ Sound(gif) /\ gif \in GifState /\ MaxQuads \in Nat
              /\ Len(gif.fifo) <= FifoSize
  BY IInvParts, GifAssumption DEF Sound
<1>2. ASSUME IInv, StartDMA PROVE IInv'
  <2>1. Others' /\ UNCHANGED <<gif, asked>>  BY <1>1, <1>2 DEF StartDMA, Others
  <2>. QED  BY <1>1, <1>2, <2>1, RequestsOnly
<1>3. ASSUME IInv, StopDMA PROVE IInv'
  <2>1. FALSE \in BOOLEAN /\ 0 \in 0 .. MaxQuads  BY <1>1, <1>3
  <2>2. gif' = [gif EXCEPT !.running = FALSE]  BY <1>3 DEF StopDMA
  <2>3. Sound(gif') /\ gif'.fifo = gif.fifo /\ gif'.req = gif.req
    BY <1>1, <1>3, <2>1, <2>2, RunningSound
  <2>4. Others' /\ asked' = asked  BY <1>1, <1>3, <2>1 DEF StopDMA, Others
  <2>. QED  BY <1>3, <2>3, <2>4, RequestsOnly
<1>4. ASSUME IInv, CpuWrite PROVE IInv'
  <2>1. PICK q \in Following(dma.packet) :
          /\ gif' = [gif EXCEPT !.fifo = Append(@, q)]
          /\ dma' = [dma EXCEPT !.packet = LeftAfter(@, q)]
          /\ ~Full(gif) /\ UNCHANGED <<vif, vu, asked>>
    BY <1>4 DEF CpuWrite
  <2>2. dma.packet \in Nat /\ gif.fifo \in Seq(Quads)
    BY <1>1, <1>4 DEF Others, GifState
  <2>3. q \in Quads /\ LeftAfter(dma.packet, q) \in Nat
    BY <2>2, FollowingAreQuads
  <2>4. Append(gif.fifo, q) \in Seq(Quads) /\ Len(Append(gif.fifo, q)) <= FifoSize
    <3>1. Len(Append(gif.fifo, q)) = Len(gif.fifo) + 1 /\ Len(gif.fifo) \in Nat
      BY <2>2
    <3>. QED  BY <1>1, <1>4, <2>1, <2>2, <2>3, <3>1, GifAssumption DEF Full
  <2>5. /\ gif' \in GifState /\ gif'.active = gif.active /\ gif'.queue = gif.queue
        /\ gif'.status = gif.status /\ gif'.left = gif.left
        /\ gif'.outputting = gif.outputting /\ gif'.fifo = Append(gif.fifo, q)
        /\ gif'.req = gif.req
    BY <1>1, <1>4, <2>1, <2>4 DEF GifState
  <2>6. Sound(gif')  BY <1>1, <1>4, <2>5, PathsAlone
  <2>7. Others'  BY <1>1, <1>4, <2>1, <2>3 DEF Others
  <2>8. gif'.req \/ asked' # "yes"
    <3>1. gif.req \/ asked # "yes"  BY <1>4, <2>1, IInvParts
    <3>. QED  BY <2>1, <2>5, <3>1
  <2>. QED
    BY <2>4, <2>5, <2>6, <2>7, <2>8 DEF IInv, Others, Sound
<1>5. ASSUME IInv, VifDirect PROVE IInv'
  <2>1. PICK n \in 1 .. MaxQuads, interrupts \in BOOLEAN :
          vif' = [vif EXCEPT !.direct = n, !.interrupts = interrupts]
    BY <1>5 DEF VifDirect
  <2>2. n \in 0 .. MaxQuads /\ UNCHANGED <<gif, dma, vu, asked>>
    BY <1>1, <1>5 DEF VifDirect
  <2>3. Others'  BY <1>1, <1>5, <2>1, <2>2 DEF Others
  <2>. QED  BY <1>1, <1>5, <2>2, <2>3, RequestsOnly
<1>6. ASSUME IInv, VifReset PROVE IInv'
  <2>1. 0 \in 0 .. MaxQuads  BY <1>1, <1>6
  <2>2. PICK resume \in {FALSE, vif.resume} :
          vif' = [direct |-> 0, interrupts |-> FALSE, resume |-> resume]
    BY <1>6 DEF VifReset
  <2>3. UNCHANGED <<gif, dma, vu, asked>>  BY <1>6 DEF VifReset
  <2>4. resume \in BOOLEAN  BY <1>1, <1>6, <2>2 DEF Others
  <2>5. Others'  BY <1>1, <1>6, <2>1, <2>2, <2>3, <2>4 DEF Others
  <2>. QED  BY <1>1, <1>6, <2>3, <2>5, RequestsOnly
<1>7. ASSUME IInv, XGKICK PROVE IInv'
  <2>1. Others' /\ UNCHANGED <<gif, asked>>  BY <1>1, <1>7 DEF XGKICK, Others
  <2>. QED  BY <1>1, <1>7, <2>1, RequestsOnly
<1>. QED  BY <1>2, <1>3, <1>4, <1>5, <1>6, <1>7

(* Stall control: what takes the request away, and what gives it back.     *)
LEMMA StallKeeps == IInv /\ (StallGIF \/ UpdateSTADR) => IInv'
<1>1. IInv => /\ Others /\ Sound(gif) /\ gif \in GifState
              /\ Len(gif.fifo) <= FifoSize /\ 3 \in Paths
  BY IInvParts DEF Sound, Paths
<1>2. ASSUME IInv, StallGIF PROVE IInv'
  <2>. DEFINE g == [gif EXCEPT !.running = TRUE]
              k == IF stalled THEN g ELSE DeactivatePath(g, 3)
  <2>1. /\ gif' = [k EXCEPT !.req = FALSE]
        /\ asked' = "withheld" /\ UNCHANGED <<dma, vif, vu>>
    BY <1>2 DEF StallGIF
  <2>2. Sound(g) /\ g.fifo = gif.fifo  BY <1>1, <1>2, RunningSound
  <2>. HIDE DEF g
  <2>3. Sound(DeactivatePath(g, 3)) /\ SameFifo(g, DeactivatePath(g, 3))
    BY <1>1, <1>2, <2>2, DeactivateSound
  <2>4. Sound(k) /\ k.fifo = gif.fifo  BY <2>2, <2>3 DEF SameFifo
  <2>. HIDE DEF k
  <2>5. /\ gif' \in GifState /\ gif'.active = k.active /\ gif'.queue = k.queue
        /\ gif'.status = k.status /\ gif'.left = k.left
        /\ gif'.outputting = k.outputting /\ gif'.fifo = k.fifo
    BY <2>1, <2>4 DEF Sound, GifState
  <2>6. Sound(gif')  BY <2>4, <2>5, PathsAlone
  <2>7. Others' /\ asked' # "yes"  BY <1>1, <1>2, <2>1 DEF Others
  <2>8. Len(gif'.fifo) <= FifoSize  BY <1>1, <1>2, <2>4, <2>5
  <2>. QED  BY <2>6, <2>7, <2>8 DEF IInv, Others, Sound
<1>3. ASSUME IInv, UpdateSTADR PROVE IInv'
  <2>1. gif' = [gif EXCEPT !.req = TRUE] /\ Moves /\ UNCHANGED <<dma, vif, vu>>
    BY <1>3 DEF UpdateSTADR
  <2>2. /\ gif' \in GifState /\ gif'.active = gif.active /\ gif'.queue = gif.queue
        /\ gif'.status = gif.status /\ gif'.left = gif.left
        /\ gif'.outputting = gif.outputting /\ gif'.fifo = gif.fifo /\ gif'.req
    BY <1>1, <1>3, <2>1 DEF GifState
  <2>3. Sound(gif')  BY <1>1, <1>3, <2>2, PathsAlone
  <2>4. Others'  BY <1>1, <1>3, <2>1, <2>2 DEF Others, Moves, Asks
  <2>. QED  BY <1>3, <2>1, <2>2, <2>3, <2>4, RequestsOnly
<1>. QED  BY <1>2, <1>3

(* A stall clears the request and sets has_dma_stalled in one call; only a *)
(* call of process_GIF, which the request itself enables, clears the flag. *)
LEMMA WithheldKeeps == IInv /\ Withheld /\ [Next]_vars => Withheld'
<1>. SUFFICES ASSUME IInv, Withheld, [Next]_vars PROVE Withheld'
  OBVIOUS
<1>1. gif \in GifState /\ gif.req \in BOOLEAN  BY IInvParts DEF Sound, GifState
<1>2. CASE Moves
  <2>1. stalled' \in {stalled, stalled \/ (dma.started /\ gif'.req /\ ~gif.req)}
    BY <1>2 DEF Moves
  <2>2. stalled' \in BOOLEAN /\ (stalled => stalled')  BY <2>1 DEF Withheld
  <2>3. asked' = IF gif'.req THEN "yes" ELSE asked  BY <1>2 DEF Moves, Asks
  <2>. QED  BY <2>2, <2>3 DEF Withheld
<1>3. CASE gif'.req = gif.req /\ asked' = asked /\ stalled' = stalled
  BY <1>3 DEF Withheld
<1>4. CASE ProcessGIF
  <2>1. /\ gif.req /\ asked' = (IF gif'.req THEN "yes" ELSE asked)
        /\ stalled' \in {stalled, stalled /\ dma.quads = 0}
    BY <1>4 DEF ProcessGIF, Asks
  <2>2. asked # "withheld"  BY <2>1 DEF Withheld
  <2>. QED  BY <2>1, <2>2 DEF Withheld
<1>5. CASE StallGIF
  <2>. DEFINE g == [gif EXCEPT !.running = TRUE]
              k == IF stalled THEN g ELSE DeactivatePath(g, 3)
  <2>1. gif' = [k EXCEPT !.req = FALSE] /\ stalled' = TRUE  BY <1>5 DEF StallGIF
  <2>2. Sound(g)  BY <1>1, IInvParts, RunningSound
  <2>. HIDE DEF g
  <2>3. Sound(DeactivatePath(g, 3))
    <3>1. 3 \in Paths  BY DEF Paths
    <3>. QED  BY <2>2, <3>1, DeactivateSound
  <2>4. k \in GifState  BY <2>2, <2>3 DEF Sound
  <2>. HIDE DEF k
  <2>5. gif'.req = FALSE  BY <2>1, <2>4 DEF GifState
  <2>. QED  BY <2>1, <2>5 DEF Withheld
<1>6. CASE StartDMA
  <2>1. /\ gif' = gif /\ asked' = asked
        /\ stalled' \in {stalled, stalled \/ gif.req}
    BY <1>6 DEF StartDMA
  <2>. QED  BY <1>1, <2>1 DEF Withheld
<1>7. CASE WriteCTRL
  <2>1. PICK reset \in BOOLEAN, stop \in BOOLEAN :
          \/ gif' = [gif EXCEPT !.stop = stop] /\ asked' = asked
          \/ /\ gif' = [ResetGif(gif.req) EXCEPT !.stop = stop]
             /\ asked' = IF gif.req THEN "yes" ELSE "no"
    BY <1>7 DEF WriteCTRL
  <2>2. stalled' = stalled  BY <1>7 DEF WriteCTRL
  <2>3. CASE gif' = [gif EXCEPT !.stop = stop] /\ asked' = asked
    BY <1>1, <1>3, <2>2, <2>3 DEF GifState
  <2>4. CASE asked' = IF gif.req THEN "yes" ELSE "no"
    BY <2>2, <2>4 DEF Withheld
  <2>. QED  BY <2>1, <2>3, <2>4
<1>8. CASE \/ StopDMA \/ CpuWrite \/ VifDirect \/ VifMask \/ VifReset \/ XGKICK
           \/ UNCHANGED vars
  <2>1. asked' = asked /\ stalled' = stalled
    BY <1>8 DEF StopDMA, CpuWrite, VifDirect, VifMask, VifReset, XGKICK, vars
  <2>2. gif'.req = gif.req
    <3>1. CASE StopDMA  BY <1>1, <3>1 DEF StopDMA, GifState
    <3>2. CASE CpuWrite  BY <1>1, <3>2 DEF CpuWrite, GifState
    <3>3. CASE VifMask  BY <1>1, <3>3 DEF VifMask, GifState
    <3>4. CASE VifDirect \/ VifReset \/ XGKICK \/ UNCHANGED vars
      BY <3>4 DEF VifDirect, VifReset, XGKICK, vars
    <3>. QED  BY <1>8, <3>1, <3>2, <3>3, <3>4
  <2>. QED  BY <1>3, <2>1, <2>2
<1>9. CASE \/ UpdateSTADR \/ GifRun \/ WriteMODE \/ VifRun \/ VifOutOfData
           \/ VifResume \/ VuRun
  <2>1. Moves
    BY <1>9 DEF UpdateSTADR, GifRun, WriteMODE, VifRun, VifOutOfData, VifResume, VuRun
  <2>. QED  BY <1>2, <2>1
<1>. QED  BY <1>4, <1>5, <1>6, <1>7, <1>8, <1>9 DEF Next

(* The invariant of the GIF.                                               *)
THEOREM GifInvariant == Spec => []GifInv
<1>1. IInv /\ [Next]_vars => IInv'
  <2>. SUFFICES ASSUME IInv, [Next]_vars PROVE IInv'
    OBVIOUS
  <2>1. CASE UNCHANGED vars
    BY <2>1 DEF vars, IInv, Others, Sound, Full
  <2>2. CASE ProcessGIF  BY <2>2, ProcessGIFKeeps
  <2>3. CASE GifRun  BY <2>3, GifRunKeeps
  <2>4. CASE VifRun \/ VifOutOfData  BY <2>4, VifKeeps
  <2>5. CASE VuRun  BY <2>5, VuKeeps
  <2>6. CASE WriteMODE \/ WriteCTRL \/ VifMask \/ VifResume  BY <2>6, WritesKeep
  <2>7. CASE StartDMA \/ StopDMA \/ CpuWrite \/ VifDirect \/ VifReset \/ XGKICK
    BY <2>7, BeginningsKeep
  <2>8. CASE StallGIF \/ UpdateSTADR  BY <2>8, StallKeeps
  <2>. QED  BY <2>1, <2>2, <2>3, <2>4, <2>5, <2>6, <2>7, <2>8 DEF Next
<1>2. Init => GifInv
  <2>1. Init => Withheld  BY DEF Init, Withheld
  <2>. QED  BY <2>1, InitHolds DEF GifInv
<1>3. GifInv /\ [Next]_vars => GifInv'  BY <1>1, WithheldKeeps DEF GifInv
<1>. QED  BY <1>2, <1>3, PTL DEF Spec

(* The fields of the GIF keep their types, and the FIFO its size.          *)
THEOREM GifTypes == Spec => []TypeOK
<1>1. GifInv => TypeOK
  BY DEF GifInv, IInv, Withheld, Others, Sound, TypeOK
<1>. QED  BY GifInvariant, <1>1, PTL

(* One owner, and no path forgotten: arbitrate_paths and deactivate_PATH.  *)
THEOREM NoPathForgotten == Spec => []PathsKept
<1>1. GifInv => PathsKept  BY DEF GifInv, IInv, Sound, PathsKept
<1>. QED  BY GifInvariant, <1>1, PTL

(* The DMA controller keeps the request while the FIFO has room, but for a *)
(* stall, which is noted: send_PATH3, run, flush_path3_fifo, process_GIF,  *)
(* update_stadr.                                                           *)
THEOREM RequestComesBack == Spec => []RequestKept
<1>1. GifInv => RequestKept
  BY DEF GifInv, IInv, Withheld, Others, RequestKept
<1>. QED  BY GifInvariant, <1>1, PTL

(* FINISH comes after the last quad of every path: feed_GIF.               *)
THEOREM FinishIsLast == Spec => []FinishNotEarly
<1>1. GifInv => FinishNotEarly
  BY DEF GifInv, IInv, Sound, Counted, FinishNotEarly
<1>. QED  BY GifInvariant, <1>1, PTL

(* While a mask is on, an idle PATH3 starts no packet: path3_masked, which *)
(* every way to PATH3 asks.                                                *)
THEOREM MaskIsObeyed == Spec => MaskHolds
<1>. DEFINE Masked == gif.vifMask \/ gif.modeMask
            Idle == gif.status[3] = "idle"
<1>1. IInv /\ [Next]_vars => (Idle /\ Masked /\ Masked' => Idle')
  <2>. SUFFICES ASSUME IInv, [Next]_vars, Idle, Masked, Masked' PROVE Idle'
    OBVIOUS
  <2>0. /\ Others /\ Sound(gif) /\ gif \in GifState /\ Path3Masked(gif)
        /\ Len(gif.fifo) <= FifoSize
        /\ 1 \in Paths /\ 2 \in Paths /\ 3 \in Paths
        /\ TRUE \in BOOLEAN /\ FALSE \in BOOLEAN
    BY IInvParts DEF Sound, Path3Masked, Paths
  <2>1. CASE UNCHANGED vars  BY <2>1 DEF vars
  <2>2. CASE ProcessGIF
    <3>. DEFINE may == dma.quads > 0 /\ ~Full(gif)
                g == IF may /\ gif.fifo # <<>> THEN AskMasked(gif) ELSE gif
    <3>1. Sound(g) /\ SameBut(gif, g)
      <4>1. Sound(AskMasked(gif)) /\ SameBut(gif, AskMasked(gif))  BY <2>0, AskSound
      <4>. QED  BY <2>0, <4>1 DEF SameBut
    <3>2. CASE may /\ ~Draining(gif)
      <4>. DEFINE k == [g EXCEPT !.running = TRUE]
      <4>1. PICK q \in Following(dma.packet) :
              gif' = [SendPath3(k, q) EXCEPT !.running = dma.quads > 1]
        BY <2>2, <3>2 DEF ProcessGIF
      <4>2. q \in Quads  BY <2>0, FollowingAreQuads DEF Others
      <4>. HIDE DEF g
      <4>3. /\ Sound(k) /\ k.fifo = g.fifo /\ k.status = g.status
            /\ k.vifMask = g.vifMask /\ k.modeMask = g.modeMask
        BY <2>0, <3>1, RunningSound
      <4>. DEFINE s == SendPath3(k, q)
      <4>. HIDE DEF k
      <4>4. Path3Masked(k) /\ Len(k.fifo) <= FifoSize
        BY <2>0, <3>1, <4>3 DEF SameBut, Path3Masked
      <4>5. Sound(s) /\ s.status[3] = "idle"  BY <4>2, <4>3, <4>4, SendKeeps
      <4>6. gif' = [s EXCEPT !.running = dma.quads > 1]  BY <4>1
      <4>. HIDE DEF s
      <4>. QED  BY <4>5, <4>6 DEF Sound, GifState
    <3>3. CASE ~(may /\ ~Draining(gif))
      <4>1. gif' = [g EXCEPT !.running = dma.quads > 0]
        BY <2>2, <3>3 DEF ProcessGIF
      <4>. HIDE DEF g
      <4>. QED  BY <3>1, <4>1 DEF Sound, GifState, SameBut
    <3>. QED  BY <3>2, <3>3
  <2>3. CASE GifRun
    <3>. DEFINE h == AskMasked(gif)
    <3>1. SameBut(gif, h)  BY <2>0, AskSound
    <3>2. Path3Masked(h)  BY <2>0, <3>1 DEF SameBut, Path3Masked
    <3>3. gif' = h  BY <2>0, <2>3, <3>2 DEF GifRun
    <3>. QED  BY <3>1, <3>3 DEF SameBut
  <2>4. CASE VifRun
    <3>. DEFINE r == RequestPath(gif, 2, vif.interrupts)
                i == InterruptPath3(r, 2)
                k == IF vif.interrupts THEN i ELSE r
    <3>1. vif.interrupts \in BOOLEAN  BY <2>0 DEF Others
    <3>2. /\ Sound(r) /\ SameBut(gif, r) /\ Sound(i) /\ SameBut(gif, i)
      BY <2>0, <3>1, AskForGif
    <3>3. Sound(k) /\ k.status[3] = "idle"  BY <3>2 DEF SameBut
    <3>4. CASE k.active = 2 /\ ~k.stop
      <4>1. PICK q \in Plain(k.left[2]) :
              gif' = IF vif.direct = 1 THEN DeactivatePath(Feed(k, q), 2)
                     ELSE Feed(k, q)
        BY <2>4, <3>4 DEF VifRun
      <4>. HIDE DEF k
      <4>2. q \in Quads
        <5>1. k.left[2] \in Nat  BY <2>0, <3>3 DEF Sound, GifState
        <5>. QED  BY <5>1, FollowingAreQuads DEF Plain
      <4>. DEFINE f == Feed(k, q)
      <4>3. Sound(f) /\ f.status[3] = "idle"
        BY <2>0, <3>3, <3>4, <4>2, FeedKeeps
      <4>4. gif' \in {f, DeactivatePath(f, 2)}  BY <4>1
      <4>. HIDE DEF f
      <4>5. SameBut(f, DeactivatePath(f, 2))  BY <2>0, <4>3, DeactivateSound
      <4>. QED  BY <4>3, <4>4, <4>5 DEF SameBut
    <3>5. CASE ~(k.active = 2 /\ ~k.stop)
      <4>1. gif' = k  BY <2>4, <3>5 DEF VifRun
      <4>. QED  BY <3>3, <4>1
    <3>. QED  BY <3>4, <3>5
  <2>5. CASE VuRun
    <3>. DEFINE r == RequestPath(gif, 1, TRUE)
                k == InterruptPath3(r, 1)
    <3>1. Sound(k) /\ SameBut(gif, k)  BY <2>0, AskForGif
    <3>2. CASE k.active = 1 /\ ~k.stop
      <4>1. PICK q \in Plain(k.left[1]) :
              gif' \in {Feed(k, q), RequestPath(Feed(k, q), 1, TRUE),
                        DeactivatePath(Feed(k, q), 1)}
        BY <2>5, <3>2 DEF VuRun
      <4>. HIDE DEF k
      <4>2. q \in Quads
        <5>1. k.left[1] \in Nat  BY <2>0, <3>1 DEF Sound, GifState
        <5>. QED  BY <5>1, FollowingAreQuads DEF Plain
      <4>. DEFINE f == Feed(k, q)
      <4>3. Sound(f) /\ f.status[3] = "idle"
        BY <2>0, <3>1, <3>2, <4>2, FeedKeeps DEF SameBut
      <4>4. gif' \in {f, RequestPath(f, 1, TRUE), DeactivatePath(f, 1)}  BY <4>1
      <4>. HIDE DEF f
      <4>5. SameBut(f, RequestPath(f, 1, TRUE)) /\ SameBut(f, DeactivatePath(f, 1))
        BY <2>0, <4>3, RequestSound, DeactivateSound
      <4>. QED  BY <4>3, <4>4, <4>5 DEF SameBut
    <3>3. CASE ~(k.active = 1 /\ ~k.stop)
      <4>1. gif' = k  BY <2>5, <3>3 DEF VuRun
      <4>. QED  BY <3>1, <4>1 DEF SameBut
    <3>. QED  BY <3>2, <3>3
  <2>6. CASE WriteMODE
    <3>1. PICK mask \in BOOLEAN, intermittent \in BOOLEAN :
            LET h == [gif EXCEPT !.intermittent = intermittent, !.modeMask = mask]
            IN gif' = IF gif.modeMask /\ ~mask THEN ResumePath3(h) ELSE h
      BY <2>6 DEF WriteMODE
    <3>. DEFINE h == [gif EXCEPT !.intermittent = intermittent, !.modeMask = mask]
    <3>2. /\ h \in GifState /\ h.active = gif.active /\ h.queue = gif.queue
          /\ h.status = gif.status /\ h.left = gif.left
          /\ h.outputting = gif.outputting
      BY <2>0 DEF GifState
    <3>3. gif' \in {h, ResumePath3(h)}  BY <3>1
    <3>. HIDE DEF h
    <3>4. Sound(h)  BY <2>0, <3>2, PathsAlone
    <3>5. SameFifo(h, ResumePath3(h))  BY <3>4, ResumeKeeps
    <3>6. h.vifMask \/ h.modeMask  BY <3>3, <3>5 DEF SameFifo
    <3>7. gif' = h  BY <3>3, <3>6 DEF ResumePath3
    <3>. QED  BY <3>2, <3>7
  <2>7. CASE WriteCTRL
    <3>1. PICK reset \in BOOLEAN, stop \in BOOLEAN :
            \/ gif' = [gif EXCEPT !.stop = stop]
            \/ gif' = [ResetGif(gif.req) EXCEPT !.stop = stop]
      BY <2>7 DEF WriteCTRL
    <3>2. CASE gif' = [gif EXCEPT !.stop = stop]  BY <2>0, <3>2 DEF GifState
    <3>3. CASE gif' = [ResetGif(gif.req) EXCEPT !.stop = stop]
      BY <2>0, <3>3 DEF ResetGif
    <3>. QED  BY <3>1, <3>2, <3>3
  <2>8. CASE VifMask  BY <2>0, <2>8 DEF VifMask, GifState
  <2>9. CASE VifResume
    <3>1. gif' = gif  BY <2>9 DEF VifResume, ResumePath3
    <3>. QED  BY <3>1
  <2>10. CASE VifOutOfData
    <3>1. SameBut(gif, gif')  BY <2>0, <2>10, DeactivateSound DEF VifOutOfData
    <3>. QED  BY <3>1 DEF SameBut
  <2>11. CASE StopDMA  BY <2>0, <2>11 DEF StopDMA, GifState
  <2>12. CASE CpuWrite
    <3>1. gif'.status = gif.status  BY <2>0, <2>12 DEF CpuWrite, GifState
    <3>. QED  BY <3>1
  <2>13. CASE StartDMA \/ VifDirect \/ VifReset \/ XGKICK
    BY <2>13 DEF StartDMA, VifDirect, VifReset, XGKICK
  <2>14. CASE UpdateSTADR  BY <2>0, <2>14 DEF UpdateSTADR, GifState
  <2>15. CASE StallGIF
    <3>. DEFINE g == [gif EXCEPT !.running = TRUE]
                k == IF stalled THEN g ELSE DeactivatePath(g, 3)
    <3>1. gif' = [k EXCEPT !.req = FALSE]  BY <2>15 DEF StallGIF
    <3>2. Sound(g) /\ g.status = gif.status  BY <2>0, RunningSound
    <3>. HIDE DEF g
    <3>3. Sound(DeactivatePath(g, 3)) /\ SameBut(g, DeactivatePath(g, 3))
      BY <2>0, <3>2, DeactivateSound
    <3>4. Sound(k) /\ k.status[3] = "idle"  BY <3>2, <3>3 DEF SameBut
    <3>. HIDE DEF k
    <3>. QED  BY <3>1, <3>4 DEF Sound, GifState
  <2>. QED
    BY <2>1, <2>2, <2>3, <2>4, <2>5, <2>6, <2>7, <2>8, <2>9, <2>10, <2>11, <2>12,
       <2>13, <2>14, <2>15 DEF Next
<1>2. GifInv /\ [Next]_vars =>
        [gif.status[3] = "idle" /\ (gif.vifMask \/ gif.modeMask)
           /\ (gif'.vifMask \/ gif'.modeMask) => gif'.status[3] = "idle"]_vars
  BY <1>1 DEF GifInv
<1>. QED  BY GifInvariant, <1>2, PTL DEF Spec, MaskHolds

-----------------------------------------------------------------------------
(* Packets of PATH3.  Framed3 counts along the FIFO; a quad that follows   *)
(* says itself how many come after it (After), so that the same can be     *)
(* said of each quad and the one before it.                                *)
After(q) == IF q.tag THEN q.n ELSE q.n - 1

Chain(f, left, packet) ==
  /\ \A i \in 1 .. Len(f) :
       f[i] \in Following(IF i = 1 THEN left ELSE After(f[i - 1]))
  /\ packet = IF Len(f) = 0 THEN left ELSE After(f[Len(f)])

LEMMA FollowingAfter ==
  ASSUME NEW left, NEW q \in Quads, q \in Following(left)
  PROVE  /\ LeftAfter(left, q) = After(q) /\ After(q) \in Nat
         /\ (IF left = 0 THEN q.n ELSE left - 1) = After(q)
<1>1. CASE left = 0
  <2>1. q \in [tag : {TRUE}, n : Nat, eop : BOOLEAN, image : BOOLEAN]
    BY <1>1, GifAssumption DEF Following
  <2>2. q.tag = TRUE /\ q.n \in Nat  BY <2>1
  <2>. QED  BY <1>1, <2>2 DEF LeftAfter, After
<1>2. CASE left # 0
  <2>1. q = Data(left)  BY <1>2 DEF Following
  <2>2. q.tag = FALSE /\ q.n = left /\ left \in Nat  BY <2>1 DEF Data, Quads
  <2>. QED  BY <1>2, <2>2 DEF LeftAfter, After
<1>. QED  BY <1>1, <1>2

LEMMA ChainAppended ==
  ASSUME NEW f \in Seq(Quads), NEW left \in Nat, NEW packet \in Nat,
         Chain(f, left, packet), NEW q \in Following(packet)
  PROVE  Chain(Append(f, q), left, LeftAfter(packet, q))
<1>. DEFINE n == Len(f)
            g == Append(f, q)
<1>1. q \in Quads /\ LeftAfter(packet, q) = After(q)  BY FollowingAfter, FollowingAreQuads
<1>2. /\ n \in Nat /\ Len(g) = n + 1 /\ g[n + 1] = q
      /\ \A i \in 1 .. n : g[i] = f[i]
  BY <1>1
<1>. HIDE DEF n, g
<1>3. ASSUME NEW i \in 1 .. Len(g)
      PROVE  g[i] \in Following(IF i = 1 THEN left ELSE After(g[i - 1]))
  <2>1. CASE i \in 1 .. n
    <3>1. f[i] \in Following(IF i = 1 THEN left ELSE After(f[i - 1]))
      BY <2>1 DEF Chain, n
    <3>2. i # 1 => i - 1 \in 1 .. n  BY <1>2, <2>1
    <3>. QED  BY <1>2, <2>1, <3>1, <3>2
  <2>2. CASE i = n + 1
    <3>1. packet = IF n = 0 THEN left ELSE After(f[n])  BY DEF Chain, n
    <3>2. CASE n = 0
      <4>1. i = 1  BY <2>2, <3>2
      <4>. QED  BY <1>2, <2>2, <3>1, <3>2, <4>1
    <3>3. CASE n # 0
      <4>1. i # 1 /\ i - 1 = n /\ n \in 1 .. n  BY <1>2, <2>2, <3>3
      <4>. QED  BY <1>2, <2>2, <3>1, <3>3, <4>1
    <3>. QED  BY <3>2, <3>3
  <2>. QED  BY <1>2, <2>1, <2>2
<1>4. Len(g) # 0 /\ g[Len(g)] = q  BY <1>2
<1>. QED  BY <1>1, <1>3, <1>4 DEF Chain, g

LEMMA ChainRead ==
  ASSUME NEW f \in Seq(Quads), f # <<>>, NEW left \in Nat, NEW packet,
         Chain(f, left, packet)
  PROVE  /\ Head(f) \in Following(left)
         /\ Chain(Tail(f), After(Head(f)), packet)
<1>. DEFINE n == Len(f)
            g == Tail(f)
<1>1. /\ n \in Nat /\ n # 0 /\ Len(g) = n - 1 /\ Head(f) = f[1]
      /\ \A i \in 1 .. n - 1 : g[i] = f[i + 1]
  OBVIOUS
<1>2. /\ \A i \in 1 .. n : f[i] \in Following(IF i = 1 THEN left ELSE After(f[i - 1]))
      /\ packet = IF n = 0 THEN left ELSE After(f[n])
  BY DEF Chain
<1>. HIDE DEF n, g
<1>3. f[1] \in Following(left)
  <2>1. 1 \in 1 .. n  BY <1>1
  <2>. QED  BY <1>2, <2>1
<1>4. ASSUME NEW i \in 1 .. Len(g)
      PROVE  g[i] \in Following(IF i = 1 THEN After(f[1]) ELSE After(g[i - 1]))
  <2>1. i + 1 \in 1 .. n /\ i + 1 # 1 /\ (i + 1) - 1 = i /\ i \in 1 .. n - 1
    BY <1>1
  <2>2. g[i] \in Following(After(f[i]))  BY <1>1, <1>2, <2>1
  <2>3. CASE i = 1  BY <2>2, <2>3
  <2>4. CASE i # 1
    <3>1. i - 1 \in 1 .. n - 1 /\ (i - 1) + 1 = i  BY <2>1, <2>4, <1>1
    <3>2. g[i - 1] = f[i]  BY <1>1, <3>1
    <3>. QED  BY <2>2, <2>4, <3>2
  <2>. QED  BY <2>3, <2>4
<1>5. packet = IF Len(g) = 0 THEN After(f[1]) ELSE After(g[Len(g)])
  <2>1. CASE n = 1  BY <1>1, <1>2, <2>1
  <2>2. CASE n # 1
    <3>1. n - 1 \in 1 .. n - 1 /\ (n - 1) + 1 = n  BY <1>1, <2>2
    <3>2. g[n - 1] = f[n]  BY <1>1, <3>1
    <3>. QED  BY <1>1, <1>2, <2>2, <3>1, <3>2
  <2>. QED  BY <2>1, <2>2
<1>. QED  BY <1>1, <1>3, <1>4, <1>5 DEF Chain, g

-----------------------------------------------------------------------------
(* Induction on the places of the FIFO, from the least place where what is *)
(* to be shown would fail.                                                 *)
LEMMA LeastNatural ==
  ASSUME NEW T, T \subseteq Nat, T # {}
  PROVE  \E x \in T : \A y \in T : x <= y
<1>. DEFINE R == OpToRel(<, Nat)
<1>1. \E x \in T : \A y \in T : ~(<<y, x>> \in R)
  BY NatLessThanWellFounded, WFMin
<1>2. \A x, y \in T : y < x => <<y, x>> \in R
  BY DEF OpToRel
<1>. HIDE DEF R
<1>3. \E x \in T : \A y \in T : ~(y < x)
  BY <1>1, <1>2, ZenonT(60)
<1>4. \A x, y \in T : ~(y < x) => x <= y
  OBVIOUS
<1>. QED BY <1>3, <1>4, ZenonT(60)

LEMMA Inductive ==
  ASSUME NEW S, 0 \in S, \A n \in Nat : n \in S => n + 1 \in S
  PROVE  Nat \subseteq S
<1>. SUFFICES ASSUME Nat \ S # {} PROVE FALSE
  OBVIOUS
<1>1. PICK x \in Nat \ S : \A y \in Nat \ S : x <= y
  BY LeastNatural
<1>2. x # 0 /\ x - 1 \in Nat /\ ~(x <= x - 1) /\ (x - 1) + 1 = x
  BY <1>1
<1>. QED BY <1>1, <1>2

(* Counting along a chain: Framed3's function finds what After says.       *)
Counts(f, left0) ==
  LET left[i \in 0 .. Len(f)] ==
        IF i = 0 THEN left0 ELSE LeftAfter(left[i - 1], f[i])
  IN left

LEMMA ChainCounted ==
  ASSUME NEW f \in Seq(Quads), NEW left0 \in Nat, NEW packet \in Nat,
         Chain(f, left0, packet)
  PROVE  /\ \A i \in 1 .. Len(f) : f[i] \in Following(Counts(f, left0)[i - 1])
         /\ Counts(f, left0)[Len(f)] = packet
<1>. DEFINE left[i \in 0 .. Len(f)] ==
              IF i = 0 THEN left0 ELSE LeftAfter(left[i - 1], f[i])
            Left(i) == IF i = 0 THEN left0 ELSE After(f[i])
            n == Len(f)
<1>0. Counts(f, left0) = left  BY DEF Counts
<1>1. n \in Nat  OBVIOUS
<1>2. ASSUME NEW i \in 1 .. n
      PROVE  /\ f[i] \in Following(Left(i - 1))
             /\ LeftAfter(Left(i - 1), f[i]) = Left(i)
  <2>1. f[i] \in Quads /\ i # 0  OBVIOUS
  <2>2. f[i] \in Following(Left(i - 1))
    <3>1. f[i] \in Following(IF i = 1 THEN left0 ELSE After(f[i - 1]))
      BY DEF Chain
    <3>2. (i = 1) <=> (i - 1 = 0)  OBVIOUS
    <3>. QED  BY <3>1, <3>2
  <2>3. LeftAfter(Left(i - 1), f[i]) = After(f[i])
    BY <2>1, <2>2, FollowingAfter
  <2>. QED  BY <2>1, <2>2, <2>3
<1>3. left = [i \in 0 .. n |->
                IF i = 0 THEN left0 ELSE LeftAfter(left[i - 1], f[i])]
  <2>. SUFFICES \E found : found = [i \in 0 .. n |->
                  IF i = 0 THEN left0 ELSE LeftAfter(found[i - 1], f[i])]
    OBVIOUS
  <2>. DEFINE found == [i \in 0 .. n |-> Left(i)]
              again == [i \in 0 .. n |->
                         IF i = 0 THEN left0 ELSE LeftAfter(found[i - 1], f[i])]
  <2>1. ASSUME NEW i \in 0 .. n PROVE found[i] = again[i]
    <3>1. CASE i = 0  BY <3>1
    <3>2. CASE i # 0
      <4>1. i \in 1 .. n /\ i - 1 \in 0 .. n  BY <1>1, <3>2
      <4>2. found[i - 1] = Left(i - 1)  BY <4>1
      <4>3. found[i] = Left(i)  OBVIOUS
      <4>4. again[i] = LeftAfter(found[i - 1], f[i])  BY <3>2
      <4>. QED  BY <1>2, <4>1, <4>2, <4>3, <4>4
    <3>. QED  BY <3>1, <3>2
  <2>2. found = again
    <3>. HIDE DEF Left
    <3>. QED  BY <2>1
  <2>. QED  BY <2>2
<1>. HIDE DEF left
<1>4. /\ left[0] = left0
      /\ \A i \in 1 .. n : left[i] = LeftAfter(left[i - 1], f[i])
  <2>1. 0 \in 0 .. n /\ \A i \in 1 .. n : i \in 0 .. n /\ i # 0  BY <1>1
  <2>. HIDE DEF n
  <2>. QED  BY <1>3, <2>1
<1>. DEFINE S == {i \in Nat : i <= n => left[i] = Left(i)}
<1>. HIDE DEF n, Left
<1>5. Nat \subseteq S
  <2>1. 0 \in S  BY <1>4 DEF Left
  <2>2. ASSUME NEW i \in Nat, i \in S PROVE i + 1 \in S
    <3>. SUFFICES ASSUME i + 1 <= n PROVE left[i + 1] = Left(i + 1)
      OBVIOUS
    <3>1. i + 1 \in 1 .. n /\ (i + 1) - 1 = i /\ i <= n  BY <1>1
    <3>2. left[i] = Left(i)  BY <2>2, <3>1
    <3>3. LeftAfter(Left(i), f[i + 1]) = Left(i + 1)  BY <1>2, <3>1
    <3>4. left[i + 1] = LeftAfter(left[i], f[i + 1])  BY <1>4, <3>1
    <3>. QED  BY <3>2, <3>3, <3>4
  <2>. HIDE DEF S
  <2>. QED  BY <2>1, <2>2, Inductive
<1>6. \A i \in 0 .. n : left[i] = Left(i)
  BY <1>1, <1>5
<1>7. \A i \in 1 .. n : f[i] \in Following(left[i - 1])
  <2>1. \A i \in 1 .. n : i - 1 \in 0 .. n  BY <1>1
  <2>. QED  BY <1>2, <1>6, <2>1
<1>8. left[n] = packet
  <2>1. left[n] = Left(n)  BY <1>1, <1>6
  <2>2. Left(n) = packet  BY DEF Chain, Left, n
  <2>. QED  BY <2>1, <2>2
<1>. QED BY <1>0, <1>7, <1>8 DEF n

-----------------------------------------------------------------------------
(* The steps                                                               *)
Chained == Chain(gif.fifo, gif.left[3], dma.packet)

LEMMA ChainAlone ==
  ASSUME Chained, gif'.fifo = gif.fifo, gif'.left[3] = gif.left[3],
         dma'.packet = dma.packet
  PROVE  Chained'
BY DEF Chained, Chain

(* A packet's other paths count for themselves.                            *)
LEMMA FedElsewhere ==
  ASSUME NEW g, Sound(g), g.active \in {1, 2}, NEW q \in Quads
  PROVE  /\ Sound(Feed(g, q))
         /\ Feed(g, q).fifo = g.fifo /\ Feed(g, q).left[3] = g.left[3]
<1>1. g.active \in Paths /\ g.left \in [Paths -> Nat] /\ 3 \in Paths /\ g.active # 3
  BY DEF Paths, Sound, GifState
<1>2. Sound(Feed(g, q)) /\ SameFifo(g, Feed(g, q))  BY <1>1, FeedKeeps
<1>3. Feed(g, q).left = [g.left EXCEPT ![g.active] = IF @ = 0 THEN q.n ELSE @ - 1]
  BY <1>1, FeedCounts
<1>. QED  BY <1>1, <1>2, <1>3 DEF SameFifo

(* A quad of PATH3 is the next of its packet.                              *)
LEMMA FedPath3 ==
  ASSUME NEW g, Sound(g), g.active = 3, NEW q \in Quads, q \in Following(g.left[3])
  PROVE  /\ Sound(Feed(g, q))
         /\ Feed(g, q).fifo = g.fifo /\ Feed(g, q).left[3] = After(q)
<1>1. 3 \in Paths /\ g.left \in [Paths -> Nat]  BY DEF Paths, Sound, GifState
<1>2. Sound(Feed(g, q)) /\ SameFifo(g, Feed(g, q))  BY <1>1, FeedKeeps
<1>3. Feed(g, q).left = [g.left EXCEPT ![3] = IF @ = 0 THEN q.n ELSE @ - 1]
  BY <1>1, FeedCounts
<1>4. Feed(g, q).left[3] = IF g.left[3] = 0 THEN q.n ELSE g.left[3] - 1
  BY <1>1, <1>3
<1>5. (IF g.left[3] = 0 THEN q.n ELSE g.left[3] - 1) = After(q)
  BY FollowingAfter
<1>. QED  BY <1>2, <1>4, <1>5 DEF SameFifo

(* send_PATH3: the quad goes behind what is in the FIFO, or to the GS when *)
(* the FIFO is empty.                                                      *)
LEMMA SendChains ==
  ASSUME NEW g, Sound(g), NEW packet \in Nat, NEW q \in Following(packet),
         Chain(g.fifo, g.left[3], packet), ~Full(g),
         g.fifo = <<>> \/ Path3Masked(g)
  PROVE  Chain(SendPath3(g, q).fifo, SendPath3(g, q).left[3], LeftAfter(packet, q))
<1>. DEFINE s == SendPath3(g, q)
            h == IF Done3(g) THEN RequestPath(g, 3, FALSE) ELSE g
            k == AskMasked(h)
<1>1. 3 \in Paths /\ FALSE \in BOOLEAN /\ q \in Quads /\ LeftAfter(packet, q) = After(q)
  BY FollowingAreQuads, FollowingAfter DEF Paths
<1>2. Sound(h) /\ SameBut(g, h)
  <2>1. CASE Done3(g)  BY <1>1, <2>1, RequestSound
  <2>2. CASE ~Done3(g)  BY <2>2 DEF SameBut
  <2>. QED  BY <2>1, <2>2
<1>3. s = IF ~Path3Masked(h) /\ k.active = 3 /\ ~k.stop THEN Feed(k, q)
          ELSE IF Full(k) THEN k
          ELSE [k EXCEPT !.fifo = Append(@, q),
                         !.req = @ /\ Len(k.fifo) + 1 < FifoSize]
  BY DEF SendPath3
<1>. HIDE DEF h
<1>4. Sound(k) /\ SameBut(h, k)  BY <1>2, AskSound
<1>. HIDE DEF k, s
<1>5. /\ k.fifo = g.fifo /\ k.left = g.left /\ ~Full(k)
      /\ Path3Masked(g) => Path3Masked(h)
  BY <1>2, <1>4 DEF SameBut, Path3Masked, Full
<1>6. /\ k \in GifState /\ k.fifo \in Seq(Quads) /\ k.left[3] \in Nat
      /\ k.left \in [Paths -> Nat]
  BY <1>1, <1>4 DEF Sound, GifState
<1>7. CASE ~Path3Masked(h) /\ k.active = 3 /\ ~k.stop
  <2>1. s = Feed(k, q) /\ k.fifo = <<>>  BY <1>3, <1>5, <1>7
  <2>2. packet = k.left[3]
    <3>1. Len(g.fifo) = 0  BY <1>5, <2>1
    <3>. QED  BY <1>5, <3>1 DEF Chain
  <2>3. s.fifo = k.fifo /\ s.left[3] = After(q)
    BY <1>1, <1>4, <1>7, <2>1, <2>2, FedPath3
  <2>4. Len(s.fifo) = 0  BY <2>1, <2>3
  <2>5. Chain(s.fifo, s.left[3], After(q))
    <3>1. \A i \in 1 .. Len(s.fifo) : FALSE  BY <2>4
    <3>. QED  BY <2>3, <2>4, <3>1 DEF Chain
  <2>. QED  BY <1>1, <2>5 DEF s
<1>8. CASE ~(~Path3Masked(h) /\ k.active = 3 /\ ~k.stop)
  <2>1. s = [k EXCEPT !.fifo = Append(@, q),
                      !.req = @ /\ Len(k.fifo) + 1 < FifoSize]
    BY <1>3, <1>5, <1>8
  <2>2. s.fifo = Append(k.fifo, q) /\ s.left = k.left
    BY <1>6, <2>1 DEF GifState
  <2>3. Chain(Append(k.fifo, q), k.left[3], LeftAfter(packet, q))
    BY <1>5, <1>6, ChainAppended
  <2>. QED  BY <2>2, <2>3 DEF s
<1>. QED  BY <1>7, <1>8

(* flush_path3_fifo: the first quad of the FIFO is the next of its packet. *)
LEMMA FlushChains ==
  ASSUME NEW g, Sound(g), g.fifo # <<>>, g.active = 3, NEW packet,
         Chain(g.fifo, g.left[3], packet)
  PROVE  Chain(FlushPath3(g).fifo, FlushPath3(g).left[3], packet)
<1>. DEFINE f == Feed(g, Head(g.fifo))
            h == [f EXCEPT !.fifo = Tail(g.fifo)]
            d == DeactivatePath(h, 3)
            a == [h EXCEPT !.req = TRUE]
            r == FlushPath3(g)
<1>1. /\ g.fifo \in Seq(Quads) /\ 3 \in Paths /\ g.left[3] \in Nat
      /\ Head(g.fifo) \in Quads /\ Tail(g.fifo) \in Seq(Quads)
  <2>1. g.fifo \in Seq(Quads) /\ 3 \in Paths /\ g.left \in [Paths -> Nat]
    BY DEF Sound, GifState, Paths
  <2>. QED  BY <2>1
<1>2. /\ Head(g.fifo) \in Following(g.left[3])
      /\ Chain(Tail(g.fifo), After(Head(g.fifo)), packet)
  BY <1>1, ChainRead
<1>3. Sound(f) /\ f.left[3] = After(Head(g.fifo))
  BY <1>1, <1>2, FedPath3
<1>4. r \in {h, d, a}  BY DEF FlushPath3
<1>. HIDE DEF f, r
<1>5. f \in GifState /\ Kept(f) /\ Counted(f)  BY <1>3 DEF Sound
<1>6. /\ h \in GifState /\ h.fifo = Tail(g.fifo) /\ h.left = f.left
      /\ h.active = f.active /\ h.queue = f.queue /\ h.status = f.status
      /\ h.outputting = f.outputting
  BY <1>1, <1>5 DEF GifState
<1>. HIDE DEF h
<1>7. Sound(h)  BY <1>5, <1>6 DEF Sound, Kept, Counted
<1>8. d.fifo = h.fifo /\ d.left = h.left
  BY <1>1, <1>7, DeactivateSound DEF SameBut
<1>9. a.fifo = h.fifo /\ a.left = h.left  BY <1>6 DEF GifState
<1>10. r.fifo = Tail(g.fifo) /\ r.left[3] = After(Head(g.fifo))
  BY <1>3, <1>4, <1>6, <1>8, <1>9
<1>. QED  BY <1>2, <1>10 DEF r

(* process_GIF, with the quad it moves.                                    *)
LEMMA ProcessGIFChains == IInv /\ Chained /\ ProcessGIF => Chained'
<1>. SUFFICES ASSUME IInv, Chained, ProcessGIF PROVE Chained'
  OBVIOUS
<1>. DEFINE may == dma.quads > 0 /\ ~Full(gif)
            g == IF may /\ gif.fifo # <<>> THEN AskMasked(gif) ELSE gif
<1>1. Others /\ Sound(gif) /\ dma.packet \in Nat /\ TRUE \in BOOLEAN
  BY IInvParts DEF Others
<1>2. Sound(g) /\ SameBut(gif, g)
  <2>1. Sound(AskMasked(gif)) /\ SameBut(gif, AskMasked(gif))  BY <1>1, AskSound
  <2>. QED  BY <1>1, <2>1 DEF SameBut
<1>3. CASE may /\ ~Draining(gif)
  <2>. DEFINE k == [g EXCEPT !.running = TRUE]
  <2>1. PICK q \in Following(dma.packet) :
          /\ gif' = [SendPath3(k, q) EXCEPT !.running = dma.quads > 1]
          /\ Moved(dma.quads - 1, LeftAfter(dma.packet, q))
    BY <1>3 DEF ProcessGIF
  <2>2. q \in Quads  BY <1>1, FollowingAreQuads
  <2>. HIDE DEF g
  <2>3. /\ Sound(k) /\ k.fifo = g.fifo /\ k.status = g.status
        /\ k.vifMask = g.vifMask /\ k.modeMask = g.modeMask
    BY <1>1, <1>2, RunningSound
  <2>4. k.left = g.left  BY <1>2 DEF Sound, GifState
  <2>. DEFINE s == SendPath3(k, q)
  <2>. HIDE DEF k
  <2>5. /\ k.fifo = gif.fifo /\ k.left = gif.left /\ ~Full(k)
        /\ gif.fifo = <<>> \/ Path3Masked(k)
    BY <1>2, <1>3, <2>3, <2>4 DEF SameBut, Path3Masked, Full, Draining
  <2>6. Chain(s.fifo, s.left[3], LeftAfter(dma.packet, q))
    BY <1>1, <2>3, <2>5, SendChains DEF Chained
  <2>7. Sound(s)
    <3>1. Len(k.fifo) <= FifoSize  BY <2>5, IInvParts
    <3>. QED  BY <2>2, <2>3, <3>1, SendKeeps
  <2>8. gif' = [s EXCEPT !.running = dma.quads > 1]  BY <2>1
  <2>. HIDE DEF s
  <2>9. gif'.fifo = s.fifo /\ gif'.left = s.left  BY <2>7, <2>8 DEF Sound, GifState
  <2>10. dma'.packet = LeftAfter(dma.packet, q)  BY <2>1 DEF Moved
  <2>11. Chain(gif'.fifo, gif'.left[3], dma'.packet)  BY <2>6, <2>9, <2>10
  <2>. QED  BY <2>11 DEF Chained, Chain
<1>4. CASE ~(may /\ ~Draining(gif))
  <2>1. gif' = [g EXCEPT !.running = dma.quads > 0] /\ Moved(dma.quads, dma.packet)
    BY <1>4 DEF ProcessGIF
  <2>. HIDE DEF g
  <2>2. gif'.fifo = gif.fifo /\ gif'.left = gif.left /\ dma'.packet = dma.packet
    BY <1>2, <2>1 DEF Sound, GifState, SameBut, Moved
  <2>. QED  BY <2>2, ChainAlone
<1>. QED  BY <1>3, <1>4

(* run, with the quad that flows.                                          *)
LEMMA GifRunChains == IInv /\ Chained /\ GifRun => Chained'
<1>. SUFFICES ASSUME IInv, Chained, GifRun PROVE Chained'
  OBVIOUS
<1>. DEFINE h == IF gif.fifo # <<>> /\ ~Path3Masked(gif)
                 THEN RequestPath(gif, 3, FALSE) ELSE AskMasked(gif)
<1>1. Sound(gif) /\ 3 \in Paths /\ FALSE \in BOOLEAN
  BY IInvParts DEF Paths
<1>2. /\ gif' = IF h.fifo # <<>> /\ h.active = 3 /\ ~h.stop /\ ~Path3Masked(h)
                THEN FlushPath3(h) ELSE h
      /\ dma' = dma
  BY DEF GifRun
<1>3. Sound(h) /\ SameBut(gif, h)
  <2>1. CASE gif.fifo # <<>> /\ ~Path3Masked(gif)  BY <1>1, <2>1, RequestSound
  <2>2. CASE ~(gif.fifo # <<>> /\ ~Path3Masked(gif))  BY <1>1, <2>2, AskSound
  <2>. QED  BY <2>1, <2>2
<1>. HIDE DEF h
<1>4. Chain(h.fifo, h.left[3], dma.packet)  BY <1>3 DEF SameBut, Chained
<1>5. CASE h.fifo # <<>> /\ h.active = 3 /\ ~h.stop /\ ~Path3Masked(h)
  <2>1. gif' = FlushPath3(h)  BY <1>2, <1>5
  <2>2. Chain(FlushPath3(h).fifo, FlushPath3(h).left[3], dma.packet)
    BY <1>3, <1>4, <1>5, FlushChains
  <2>3. Chain(gif'.fifo, gif'.left[3], dma'.packet)  BY <1>2, <2>1, <2>2
  <2>. QED  BY <2>3 DEF Chained, Chain
<1>6. CASE ~(h.fifo # <<>> /\ h.active = 3 /\ ~h.stop /\ ~Path3Masked(h))
  <2>1. gif' = h  BY <1>2, <1>6
  <2>. QED  BY <1>2, <1>3, <2>1, ChainAlone DEF SameBut
<1>. QED  BY <1>5, <1>6

(* PATH2 and PATH1, which read nothing of the FIFO.                        *)
LEMMA OthersChain == IInv /\ Chained /\ (VifRun \/ VifOutOfData \/ VuRun) => Chained'
<1>1. IInv => /\ Others /\ Sound(gif) /\ 1 \in Paths /\ 2 \in Paths
              /\ TRUE \in BOOLEAN /\ 1 \in {1, 2} /\ 2 \in {1, 2}
  BY IInvParts DEF Paths
<1>2. ASSUME IInv, Chained, VifRun PROVE Chained'
  <2>. DEFINE r == RequestPath(gif, 2, vif.interrupts)
              i == InterruptPath3(r, 2)
              k == IF vif.interrupts THEN i ELSE r
  <2>1. vif.interrupts \in BOOLEAN  BY <1>1, <1>2 DEF Others
  <2>2. Sound(r) /\ SameBut(gif, r) /\ Sound(i) /\ SameBut(gif, i)
    BY <1>1, <1>2, <2>1, AskForGif
  <2>3. Sound(k) /\ k.fifo = gif.fifo /\ k.left = gif.left  BY <2>2 DEF SameBut
  <2>4. dma' = dma  BY <1>2 DEF VifRun
  <2>5. CASE k.active = 2 /\ ~k.stop
    <3>1. PICK q \in Plain(k.left[2]) :
            gif' = IF vif.direct = 1 THEN DeactivatePath(Feed(k, q), 2) ELSE Feed(k, q)
      BY <1>2, <2>5 DEF VifRun
    <3>. HIDE DEF k
    <3>2. q \in Quads
      <4>1. k.left[2] \in Nat  BY <1>1, <1>2, <2>3 DEF Sound, GifState
      <4>. QED  BY <4>1, FollowingAreQuads DEF Plain
    <3>. DEFINE f == Feed(k, q)
    <3>3. Sound(f) /\ f.fifo = k.fifo /\ f.left[3] = k.left[3]
      BY <2>3, <2>5, <3>2, FedElsewhere
    <3>4. gif' \in {f, DeactivatePath(f, 2)}  BY <3>1
    <3>. HIDE DEF f
    <3>5. SameBut(f, DeactivatePath(f, 2))  BY <1>1, <1>2, <3>3, DeactivateSound
    <3>6. gif'.fifo = gif.fifo /\ gif'.left[3] = gif.left[3]
      BY <2>3, <3>3, <3>4, <3>5 DEF SameBut
    <3>. QED  BY <1>2, <2>4, <3>6, ChainAlone
  <2>6. CASE ~(k.active = 2 /\ ~k.stop)
    <3>1. gif' = k  BY <1>2, <2>6 DEF VifRun
    <3>. HIDE DEF k
    <3>. QED  BY <1>2, <2>3, <2>4, <3>1, ChainAlone
  <2>. QED  BY <2>5, <2>6
<1>3. ASSUME IInv, Chained, VifOutOfData PROVE Chained'
  <2>1. gif' = DeactivatePath(gif, 2) /\ dma' = dma  BY <1>3 DEF VifOutOfData
  <2>2. SameBut(gif, gif')  BY <1>1, <1>3, <2>1, DeactivateSound
  <2>. QED  BY <1>3, <2>1, <2>2, ChainAlone DEF SameBut
<1>4. ASSUME IInv, Chained, VuRun PROVE Chained'
  <2>. DEFINE r == RequestPath(gif, 1, TRUE)
              k == InterruptPath3(r, 1)
  <2>1. Sound(k) /\ SameBut(gif, k)  BY <1>1, <1>4, AskForGif
  <2>2. k.fifo = gif.fifo /\ k.left = gif.left /\ dma' = dma
    BY <1>4, <2>1 DEF SameBut, VuRun
  <2>3. CASE k.active = 1 /\ ~k.stop
    <3>1. PICK q \in Plain(k.left[1]) :
            gif' \in {Feed(k, q), RequestPath(Feed(k, q), 1, TRUE),
                      DeactivatePath(Feed(k, q), 1)}
      BY <1>4, <2>3 DEF VuRun
    <3>. HIDE DEF k
    <3>2. q \in Quads
      <4>1. k.left[1] \in Nat  BY <1>1, <1>4, <2>1 DEF Sound, GifState
      <4>. QED  BY <4>1, FollowingAreQuads DEF Plain
    <3>. DEFINE f == Feed(k, q)
    <3>3. Sound(f) /\ f.fifo = k.fifo /\ f.left[3] = k.left[3]
      BY <2>1, <2>3, <3>2, FedElsewhere
    <3>4. gif' \in {f, RequestPath(f, 1, TRUE), DeactivatePath(f, 1)}  BY <3>1
    <3>. HIDE DEF f
    <3>5. SameBut(f, RequestPath(f, 1, TRUE)) /\ SameBut(f, DeactivatePath(f, 1))
      BY <1>1, <1>4, <3>3, RequestSound, DeactivateSound
    <3>6. gif'.fifo = gif.fifo /\ gif'.left[3] = gif.left[3]
      BY <2>2, <3>3, <3>4, <3>5 DEF SameBut
    <3>. QED  BY <1>4, <2>2, <3>6, ChainAlone
  <2>4. CASE ~(k.active = 1 /\ ~k.stop)
    <3>1. gif' = k  BY <1>4, <2>4 DEF VuRun
    <3>. HIDE DEF k
    <3>. QED  BY <1>4, <2>2, <3>1, ChainAlone
  <2>. QED  BY <2>3, <2>4
<1>. QED  BY <1>2, <1>3, <1>4

(* The writes of the registers: a reset drops the FIFO with the packet.    *)
LEMMA WritesChain ==
  IInv /\ Chained /\ (WriteMODE \/ WriteCTRL \/ VifMask \/ VifResume) => Chained'
<1>1. IInv => Sound(gif) /\ gif \in GifState  BY IInvParts DEF Sound
<1>2. ASSUME IInv, Chained, WriteMODE PROVE Chained'
  <2>1. PICK mask \in BOOLEAN, intermittent \in BOOLEAN :
          LET h == [gif EXCEPT !.intermittent = intermittent, !.modeMask = mask]
          IN gif' = IF gif.modeMask /\ ~mask THEN ResumePath3(h) ELSE h
    BY <1>2 DEF WriteMODE
  <2>. DEFINE h == [gif EXCEPT !.intermittent = intermittent, !.modeMask = mask]
  <2>2. /\ h \in GifState /\ h.active = gif.active /\ h.queue = gif.queue
        /\ h.status = gif.status /\ h.left = gif.left
        /\ h.outputting = gif.outputting /\ h.fifo = gif.fifo
    BY <1>1, <1>2 DEF GifState
  <2>3. gif' \in {h, ResumePath3(h)} /\ dma' = dma  BY <1>2, <2>1 DEF WriteMODE
  <2>. HIDE DEF h
  <2>4. Sound(h)  BY <1>1, <1>2, <2>2, PathsAlone
  <2>5. ResumePath3(h).fifo = h.fifo /\ ResumePath3(h).left = h.left
    BY <2>4, ResumeKeeps DEF SameFifo
  <2>. QED  BY <1>2, <2>2, <2>3, <2>5, ChainAlone
<1>3. ASSUME IInv, Chained, WriteCTRL PROVE Chained'
  <2>1. PICK reset \in BOOLEAN, stop \in BOOLEAN :
          \/ gif' = [gif EXCEPT !.stop = stop] /\ dma' = dma
          \/ /\ gif' = [ResetGif(gif.req) EXCEPT !.stop = stop]
             /\ dma' = [dma EXCEPT !.packet = 0]
    BY <1>3 DEF WriteCTRL
  <2>2. CASE gif' = [gif EXCEPT !.stop = stop] /\ dma' = dma
    <3>1. gif'.fifo = gif.fifo /\ gif'.left = gif.left
      BY <1>1, <1>3, <2>2 DEF GifState
    <3>. QED  BY <1>3, <2>2, <3>1, ChainAlone
  <2>3. CASE /\ gif' = [ResetGif(gif.req) EXCEPT !.stop = stop]
             /\ dma' = [dma EXCEPT !.packet = 0]
    <3>1. gif'.fifo = <<>> /\ gif'.left[3] = 0
      BY <2>3 DEF ResetGif, Paths
    <3>2. dma'.packet = 0  BY <1>3, <2>3, IInvParts DEF Others
    <3>3. Len(gif'.fifo) = 0 /\ \A i \in 1 .. Len(gif'.fifo) : FALSE  BY <3>1
    <3>. QED  BY <3>1, <3>2, <3>3 DEF Chained, Chain
  <2>. QED  BY <2>1, <2>2, <2>3
<1>4. ASSUME IInv, Chained, VifMask PROVE Chained'
  <2>1. gif'.fifo = gif.fifo /\ gif'.left = gif.left /\ dma' = dma
    BY <1>1, <1>4 DEF VifMask, GifState
  <2>. QED  BY <1>4, <2>1, ChainAlone
<1>5. ASSUME IInv, Chained, VifResume PROVE Chained'
  <2>1. gif' = ResumePath3(gif) /\ dma' = dma  BY <1>5 DEF VifResume
  <2>2. gif'.fifo = gif.fifo /\ gif'.left = gif.left
    BY <1>1, <1>5, <2>1, ResumeKeeps DEF SameFifo
  <2>. QED  BY <1>5, <2>1, <2>2, ChainAlone
<1>. QED  BY <1>2, <1>3, <1>4, <1>5

LEMMA BeginningsChain ==
  IInv /\ Chained /\ (StartDMA \/ StopDMA \/ CpuWrite \/ VifDirect \/ VifReset \/ XGKICK)
    => Chained'
<1>1. IInv => Others /\ gif \in GifState  BY IInvParts DEF Sound
<1>2. ASSUME IInv, Chained, StartDMA \/ StopDMA PROVE Chained'
  <2>1. gif'.fifo = gif.fifo /\ gif'.left = gif.left /\ dma'.packet = dma.packet
    BY <1>1, <1>2 DEF StartDMA, StopDMA, Others, GifState
  <2>. QED  BY <1>2, <2>1, ChainAlone
<1>3. ASSUME IInv, Chained, CpuWrite PROVE Chained'
  <2>1. PICK q \in Following(dma.packet) :
          /\ gif' = [gif EXCEPT !.fifo = Append(@, q)]
          /\ dma' = [dma EXCEPT !.packet = LeftAfter(@, q)]
    BY <1>3 DEF CpuWrite
  <2>2. /\ gif.fifo \in Seq(Quads) /\ gif.left[3] \in Nat /\ dma.packet \in Nat
        /\ gif'.fifo = Append(gif.fifo, q) /\ gif'.left = gif.left
        /\ dma'.packet = LeftAfter(dma.packet, q)
    <3>1. gif.left \in [Paths -> Nat] /\ 3 \in Paths
      BY <1>1, <1>3 DEF GifState, Paths
    <3>. QED  BY <1>1, <1>3, <2>1, <3>1 DEF Others, GifState
  <2>3. Chain(Append(gif.fifo, q), gif.left[3], LeftAfter(dma.packet, q))
    BY <1>3, <2>2, ChainAppended DEF Chained
  <2>4. Chain(gif'.fifo, gif'.left[3], dma'.packet)  BY <2>2, <2>3
  <2>. QED  BY <2>4 DEF Chained, Chain
<1>4. ASSUME IInv, Chained, VifDirect \/ VifReset \/ XGKICK PROVE Chained'
  <2>1. gif' = gif /\ dma' = dma  BY <1>4 DEF VifDirect, VifReset, XGKICK
  <2>. QED  BY <1>4, <2>1, ChainAlone
<1>. QED  BY <1>2, <1>3, <1>4

(* A stall moves no quad.                                                  *)
LEMMA StallChains == IInv /\ Chained /\ (StallGIF \/ UpdateSTADR) => Chained'
<1>1. IInv => Sound(gif) /\ gif \in GifState /\ 3 \in Paths
  BY IInvParts DEF Sound, Paths
<1>2. ASSUME IInv, Chained, StallGIF PROVE Chained'
  <2>. DEFINE g == [gif EXCEPT !.running = TRUE]
              k == IF stalled THEN g ELSE DeactivatePath(g, 3)
  <2>1. gif' = [k EXCEPT !.req = FALSE] /\ dma' = dma  BY <1>2 DEF StallGIF
  <2>2. Sound(g) /\ g.fifo = gif.fifo /\ g.left = gif.left
    <3>1. Sound(g) /\ g.fifo = gif.fifo  BY <1>1, <1>2, RunningSound
    <3>2. g.left = gif.left  BY <1>1, <1>2 DEF GifState
    <3>. HIDE DEF g
    <3>. QED  BY <3>1, <3>2
  <2>. HIDE DEF g
  <2>3. Sound(DeactivatePath(g, 3)) /\ SameBut(g, DeactivatePath(g, 3))
    BY <1>1, <1>2, <2>2, DeactivateSound
  <2>4. k \in GifState /\ k.fifo = gif.fifo /\ k.left = gif.left
    BY <2>2, <2>3 DEF Sound, SameBut
  <2>. HIDE DEF k
  <2>5. gif'.fifo = gif.fifo /\ gif'.left = gif.left  BY <2>1, <2>4 DEF GifState
  <2>. QED  BY <1>2, <2>1, <2>5, ChainAlone
<1>3. ASSUME IInv, Chained, UpdateSTADR PROVE Chained'
  <2>1. gif'.fifo = gif.fifo /\ gif'.left = gif.left /\ dma' = dma
    BY <1>1, <1>3 DEF UpdateSTADR, GifState
  <2>. QED  BY <1>3, <2>1, ChainAlone
<1>. QED  BY <1>2, <1>3

(* No quad of a PATH3 packet is lost in a full FIFO, fed out of its turn   *)
(* or taken for a tag, however the masks, the interruptions of images, the *)
(* stops and the processor's own writes fall (send_PATH3, flush_path3_     *)
(* fifo, fifo_draining).                                                   *)
THEOREM Path3StaysFramed == Spec => []Framed3
<1>1. Init => Chained
  <2>. SUFFICES ASSUME Init PROVE Chained
    OBVIOUS
  <2>1. gif.fifo = <<>> /\ gif.left[3] = 0 /\ dma.packet = 0
    BY DEF Init, ResetGif, Paths
  <2>2. Len(gif.fifo) = 0 /\ \A i \in 1 .. Len(gif.fifo) : FALSE  BY <2>1
  <2>. QED  BY <2>1, <2>2 DEF Chained, Chain
<1>2. IInv /\ Chained /\ [Next]_vars => Chained'
  <2>. SUFFICES ASSUME IInv, Chained, [Next]_vars PROVE Chained'
    OBVIOUS
  <2>1. CASE UNCHANGED vars  BY <2>1, ChainAlone DEF vars
  <2>2. CASE ProcessGIF  BY <2>2, ProcessGIFChains
  <2>3. CASE GifRun  BY <2>3, GifRunChains
  <2>4. CASE VifRun \/ VifOutOfData \/ VuRun  BY <2>4, OthersChain
  <2>5. CASE WriteMODE \/ WriteCTRL \/ VifMask \/ VifResume  BY <2>5, WritesChain
  <2>6. CASE StartDMA \/ StopDMA \/ CpuWrite \/ VifDirect \/ VifReset \/ XGKICK
    BY <2>6, BeginningsChain
  <2>7. CASE StallGIF \/ UpdateSTADR  BY <2>7, StallChains
  <2>. QED  BY <2>1, <2>2, <2>3, <2>4, <2>5, <2>6, <2>7 DEF Next
<1>3. IInv /\ Chained => Framed3
  <2>. SUFFICES ASSUME IInv, Chained PROVE Framed3
    OBVIOUS
  <2>1. gif.fifo \in Seq(Quads) /\ gif.left[3] \in Nat /\ dma.packet \in Nat
    <3>1. gif.left \in [Paths -> Nat] /\ 3 \in Paths
      BY IInvParts DEF Sound, GifState, Paths
    <3>. QED  BY <3>1, IInvParts DEF Sound, GifState, Others
  <2>2. /\ \A i \in 1 .. Len(gif.fifo) :
             gif.fifo[i] \in Following(Counts(gif.fifo, gif.left[3])[i - 1])
        /\ Counts(gif.fifo, gif.left[3])[Len(gif.fifo)] = dma.packet
    BY <2>1, ChainCounted DEF Chained
  <2>. QED  BY <2>2, ZenonT(60) DEF Framed3, Counts
<1>4. GifInv => IInv  BY DEF GifInv
<1>. QED  BY GifInvariant, <1>1, <1>2, <1>3, <1>4, PTL DEF Spec
=============================================================================

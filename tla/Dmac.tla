-------------------------------- MODULE Dmac --------------------------------
(***************************************************************************)
(* The DMA controller of the EE (DMAC, ee/dmac.cpp): which channel runs,   *)
(* which wait for their turn, and stall control, by which a channel that   *)
(* drains memory (VIF1, GIF, SIF1) stays behind one that fills it (SIF0,   *)
(* SPR_FROM, IPU_FROM): the filler moves STADR, the drainer stops there.   *)
(*                                                                         *)
(* A channel is ready when the program has started it and its peripheral   *)
(* requests data; run calls the process_ function of the active channel    *)
(* until it has no cycles left.  Everything happens on one thread: the     *)
(* processor's writes and the peripherals' calls come between two calls of *)
(* a process_ function, except the calls the peripheral makes while it is  *)
(* fed, which are part of ProcessQuad and ProcessEnd.                      *)
(*                                                                         *)
(* Addresses count quadwords.  DMAtags are not read from memory: any tag   *)
(* may come.  The memory FIFO (D_CTRL.MFD) is off.                         *)
(***************************************************************************)
EXTENDS Integers, Sequences, FiniteSets

CONSTANTS
  Channels,        (* the channels that are used, of AllChannels           *)
  StallSources,    (* the values the program writes to D_CTRL.STS          *)
  StallDests,      (* the values the program writes to D_CTRL.STD          *)
  Flags,           (* the bits of D_STAT that are modelled                 *)
  Slice,           (* quadwords of a slice: 8                              *)
  MaxAddress,      (* bound: the largest address                           *)
  MaxQWC           (* bound: the most quadwords of a packet                *)

None == "none"
AllChannels == {"VIF0", "VIF1", "GIF", "IPU_FROM", "IPU_TO", "EE_SIF0", "EE_SIF1",
                "SPR_FROM", "SPR_TO"}
Drains == {"VIF1", "GIF", "EE_SIF1"}
Fills == {"EE_SIF0", "SPR_FROM", "IPU_FROM"}
ScratchpadChannels == {"SPR_FROM", "SPR_TO"}

ASSUME DmacAssumption ==
  /\ Channels \subseteq AllChannels
  /\ StallSources \subseteq Fills \cup {None}
  /\ StallDests \subseteq (Drains \cap Channels) \cup {None}
  /\ StallDests # {} /\ StallSources # {}
  /\ Flags \subseteq Channels \cup {"DMA_STALL"}
  /\ Slice \in Nat \ {0} /\ MaxAddress \in Nat /\ MaxQWC \in Nat

VARIABLES
  dmac,            (* the fields of DMAC, see DmacState                    *)
  control,         (* D_CTRL: master enable, stall source, stall drain     *)
  loop,            (* the process_ call under way, and the quads it may    *)
                   (* still move                                           *)
  wants            (* the last thing each peripheral said of its request   *)

vars == <<dmac, control, loop, wants>>

Addresses == 0 .. MaxAddress
Idle == [chan |-> None, left |-> 0]

DmacState ==
  [active : Channels \cup {None}, queue : Seq(Channels),
   started : [Channels -> BOOLEAN], req : [Channels -> BOOLEAN],
   stalled : [Channels -> BOOLEAN],         (* has_dma_stalled             *)
   interleave : [Channels -> BOOLEAN],
   address : [Channels -> Nat], qwc : [Channels -> Nat],
   tagEnd : [Channels -> BOOLEAN],
   stallTag : [Channels -> BOOLEAN],        (* the packet takes part in    *)
                                            (* stall control               *)
   stadr : Nat, stat : SUBSET Flags, mask : SUBSET Flags, int1 : BOOLEAN]

(* reset.  It leaves has_dma_stalled and STS and STD as they are, which    *)
(* the constructor has not set either.                                     *)
Requesting == {"VIF0", "VIF1", "IPU_TO", "EE_SIF1"} \cup ScratchpadChannels

Init ==
  /\ \E stalled \in SUBSET (Channels \cap Drains) :
       dmac = [active |-> None, queue |-> <<>>,
               started |-> [c \in Channels |-> FALSE],
               req |-> [c \in Channels |-> c \in Requesting],
               stalled |-> [c \in Channels |-> c \in stalled],
               interleave |-> [c \in Channels |-> FALSE],
               address |-> [c \in Channels |-> 0],
               qwc |-> [c \in Channels |-> 0],
               tagEnd |-> [c \in Channels |-> FALSE],
               stallTag |-> [c \in Channels |-> FALSE],
               stadr |-> 0, stat |-> {}, mask |-> {}, int1 |-> FALSE]
  /\ \E source \in StallSources, dest \in StallDests :
       control = [enable |-> FALSE, source |-> source, dest |-> dest]
  /\ loop = Idle
  /\ wants = [c \in Channels |-> c \in Requesting]

-----------------------------------------------------------------------------
(* The methods, as functions of the fields d                               *)

Int1Check(d) == [d EXCEPT !.int1 = (d.stat \cap d.mask # {})]

(* queued_channels.erase                                                   *)
Erase(q, c) ==
  IF \A i \in 1 .. Len(q) : q[i] # c THEN q
  ELSE LET k == CHOOSE i \in 1 .. Len(q) : q[i] = c
       IN [i \in 1 .. Len(q) - 1 |-> IF i < k THEN q[i] ELSE q[i + 1]]

(* Mutant: the channel that was active goes to the front of the queue.     *)
FindNewActiveChannelFront(d) ==
  LET q == IF d.active = None THEN d.queue ELSE <<d.active>> \o d.queue
  IN [d EXCEPT !.active = Head(q), !.queue = Tail(q)]

FindNewActiveChannel(d) ==
  LET q == IF d.active = None THEN d.queue ELSE Append(d.queue, d.active)
  IN [d EXCEPT !.active = Head(q), !.queue = Tail(q)]

Arbitrate(d) == IF d.queue = <<>> THEN d ELSE FindNewActiveChannel(d)

DeactivateChannel(d, c) ==
  IF d.active # c THEN [d EXCEPT !.queue = Erase(d.queue, c)]
  ELSE Arbitrate([d EXCEPT !.active = None])

(* Mutant: the stall is not noted.                                         *)
StallChannelUnnoted(d, c) ==
  IF d.stalled[c] THEN d
  ELSE Int1Check([d EXCEPT !.stat = @ \cup ({"DMA_STALL"} \cap Flags)])

(* The interrupt comes with the first stall only.                          *)
StallChannel(d, c) ==
  IF d.stalled[c] THEN d
  ELSE [Int1Check([d EXCEPT !.stat = @ \cup ({"DMA_STALL"} \cap Flags)]) EXCEPT !.stalled[c] = TRUE]

StallsAt(d, c) == control.dest = c /\ d.stallTag[c]

Enqueue(d, c) == [d EXCEPT !.queue = Append(d.queue, c)]

CheckForActivation(d, c) ==
  IF ~(d.req[c] /\ d.started[c]) THEN d
  ELSE IF StallsAt(d, c) /\ d.address[c] = d.stadr THEN Enqueue(StallChannel(d, c), c)
  ELSE IF d.active = None THEN [d EXCEPT !.active = c]
  ELSE Enqueue(d, c)

(* Mutant: an old request is not told from a new one.                      *)
SetRequestAgain(d, c) == CheckForActivation([d EXCEPT !.req[c] = TRUE], c)

SetRequest(d, c) ==
  IF d.req[c] THEN d ELSE CheckForActivation([d EXCEPT !.req[c] = TRUE], c)

ClearRequest(d, c) ==
  IF d.req[c] THEN DeactivateChannel([d EXCEPT !.req[c] = FALSE], c) ELSE d

UpdateStadr(d, a) ==
  LET s == [d EXCEPT !.stadr = a]
      c == control.dest
  IN IF c = None THEN s ELSE IF s.stalled[c] THEN SetRequest(s, c) ELSE s

TransferEnd(d, c) ==
  DeactivateChannel(Int1Check([d EXCEPT !.started[c] = FALSE, !.stat = @ \cup ({c} \cap Flags)]), c)

(* advance_source_dma, advance_dest_dma                                    *)
Advance(d, c) ==
  LET a == [d EXCEPT !.address[c] = d.address[c] + 1, !.qwc[c] = d.qwc[c] - 1]
  IN IF control.source = c /\ d.stallTag[c] THEN UpdateStadr(a, a.address[c]) ELSE a

Quads(d, c) ==
  LET room == Slice - (d.address[c] % Slice)
  IN IF d.qwc[c] < room THEN d.qwc[c] ELSE room

-----------------------------------------------------------------------------
(* run: one call of a process_ function                                    *)

(* Mutant: the slice is checked by its first quadword only.                *)
ProcessBeginFirstQuad ==
  /\ loop = Idle /\ control.enable /\ dmac.active # None
  /\ LET c == dmac.active IN
       IF StallsAt(dmac, c) /\ dmac.qwc[c] > 0 /\ dmac.address[c] + 1 > dmac.stadr
       THEN /\ dmac' = ClearRequest(StallChannel(dmac, c), c)
            /\ UNCHANGED loop
       ELSE /\ dmac' = [dmac EXCEPT !.stalled[c] =
                          @ /\ ~(StallsAt(dmac, c) /\ dmac.qwc[c] > 0)]
            /\ loop' = [chan |-> c, left |-> Quads(dmac, c)]
  /\ UNCHANGED <<control, wants>>

(* A drain channel stops before a slice that STADR has not passed.         *)
ProcessBegin ==
  /\ loop = Idle /\ control.enable /\ dmac.active # None
  /\ LET c == dmac.active IN
       IF StallsAt(dmac, c) /\ dmac.qwc[c] > 0
            /\ dmac.address[c] + Quads(dmac, c) > dmac.stadr
       THEN /\ dmac' = ClearRequest(StallChannel(dmac, c), c)
            /\ UNCHANGED loop
       ELSE /\ dmac' = [dmac EXCEPT !.stalled[c] =
                          @ /\ ~(StallsAt(dmac, c) /\ dmac.qwc[c] > 0)]
            /\ loop' = [chan |-> c, left |-> Quads(dmac, c)]
  /\ UNCHANGED <<control, wants>>

(* The peripheral is fed or read and may withdraw its request: VIF refuses *)
(* the quad with it, the others are then full or empty.  SIF1 is written   *)
(* to the end of the slice.                                                *)
ProcessQuad ==
  /\ loop.left > 0
  /\ LET c == loop.chan IN
     \/ /\ dmac' = Advance(dmac, c)
        /\ loop' = [loop EXCEPT !.left = @ - 1]
        /\ UNCHANGED wants
     \/ /\ c \notin ScratchpadChannels
        /\ LET d == ClearRequest(dmac, c)
           IN dmac' = IF c \in {"VIF0", "VIF1"} THEN d ELSE Advance(d, c)
        /\ wants' = [wants EXCEPT ![c] = FALSE]
        /\ loop' = [loop EXCEPT !.left = IF c = "EE_SIF1" THEN @ - 1 ELSE 0]
     \/ /\ dmac.interleave[c]
        /\ dmac' = Arbitrate(Advance(dmac, c))       (* the end of a row    *)
        /\ loop' = [loop EXCEPT !.left = 0]
        /\ UNCHANGED wants
  /\ UNCHANGED control

(* The tag that is read, from memory or from the peripheral.               *)
ReadTag(d, c, a, n, last, stallTag) ==
  Arbitrate([d EXCEPT !.address[c] = a, !.qwc[c] = n, !.tagEnd[c] = last,
                      !.stallTag[c] = stallTag])

(* The loop is over, or ends early because the peripheral cannot go on.    *)
ProcessEnd ==
  /\ loop # Idle
  /\ loop.chan \in ScratchpadChannels \cup {"EE_SIF1"} => loop.left = 0
  /\ LET c == loop.chan
         d == IF c = "IPU_FROM" /\ control.source = c
              THEN UpdateStadr(dmac, dmac.address[c]) ELSE dmac
     IN
     \/ /\ dmac.qwc[c] > 0
        /\ dmac' = IF c \in ScratchpadChannels \cup {"EE_SIF1"} THEN d ELSE Arbitrate(d)
        /\ UNCHANGED wants
     \/ /\ dmac.qwc[c] = 0 /\ dmac.tagEnd[c]
        /\ dmac' = TransferEnd(d, c)
        /\ UNCHANGED wants
     \/ /\ dmac.qwc[c] = 0 /\ ~dmac.tagEnd[c]
        /\ \E a \in Addresses, n \in 0 .. MaxQWC, last, stallTag \in BOOLEAN :
             /\ a + n <= MaxAddress
             /\ dmac' = ReadTag(d, c, a, n, last, stallTag)
        /\ UNCHANGED wants
     \/ /\ dmac.qwc[c] = 0 /\ ~dmac.tagEnd[c]
        /\ c \in {"VIF0", "VIF1"}                    (* transfer_DMAtag     *)
        /\ dmac' = Arbitrate(ClearRequest(d, c))
        /\ wants' = [wants EXCEPT ![c] = FALSE]
     \/ /\ dmac.qwc[c] = 0 /\ ~dmac.tagEnd[c]
        /\ c = "EE_SIF0"                             (* read_SIF0, twice    *)
        /\ \E a \in Addresses, n \in 0 .. MaxQWC, last, stallTag \in BOOLEAN :
             /\ a + n <= MaxAddress
             /\ dmac' = ReadTag(ClearRequest(d, c), c, a, n, last, stallTag)
        /\ wants' = [wants EXCEPT ![c] = FALSE]
     \/ /\ dmac.qwc[c] = 0 /\ ~dmac.tagEnd[c]
        /\ c = "EE_SIF0" /\ ~dmac.req[c]             (* no tag there yet    *)
        /\ dmac' = d
        /\ UNCHANGED wants
  /\ loop' = Idle
  /\ UNCHANGED control

-----------------------------------------------------------------------------
(* The processor and the peripherals, between two calls of run             *)

(* set_DMA_request                                                         *)
PeripheralRequests ==
  /\ loop = Idle
  /\ \E c \in Channels \ ScratchpadChannels :
       /\ wants' = [wants EXCEPT ![c] = TRUE]
       /\ dmac' = SetRequest(dmac, c)
  /\ UNCHANGED <<control, loop>>

(* clear_DMA_request: the processor reads or writes a FIFO itself.         *)
PeripheralWithdraws ==
  /\ loop = Idle
  /\ \E c \in Channels \cap {"IPU_FROM", "IPU_TO"} :
       /\ wants' = [wants EXCEPT ![c] = FALSE]
       /\ dmac' = ClearRequest(dmac, c)
  /\ UNCHANGED <<control, loop>>

(* The registers of a channel that is started.                             *)
Started(d, c, interleave, a, n, last, stallTag) ==
  [d EXCEPT !.started[c] = TRUE, !.interleave[c] = interleave, !.address[c] = a,
            !.qwc[c] = n, !.tagEnd[c] = last, !.stallTag[c] = stallTag]

(* MADR and QWC of a channel that is not started, and then its CHCR.  The  *)
(* IPU_FROM channel has no chain mode (Errors::die).                       *)
StartDMA ==
  /\ loop = Idle
  /\ \E c \in Channels, chain, interleave \in BOOLEAN,
        a \in Addresses, n \in 0 .. MaxQWC, last, stallTag \in BOOLEAN :
       /\ ~dmac.started[c]
       /\ a + n <= MaxAddress
       /\ chain => c # "IPU_FROM" /\ (last => n > 0)
       /\ ~chain => last /\ stallTag
       /\ interleave => ~chain /\ c \in ScratchpadChannels
       /\ dmac' = CheckForActivation(Started(dmac, c, interleave, a, n, last, stallTag), c)
  /\ UNCHANGED <<control, loop, wants>>

(* CHCR.STR cleared while the channel is started.                          *)
StopDMA ==
  /\ loop = Idle
  /\ \E c \in Channels :
       /\ dmac.started[c]
       /\ dmac' = DeactivateChannel([dmac EXCEPT !.started[c] = FALSE], c)
  /\ UNCHANGED <<control, loop, wants>>

WriteCTRL ==
  /\ loop = Idle
  /\ \E e \in BOOLEAN, source \in StallSources, dest \in StallDests :
       control' = [enable |-> e, source |-> source, dest |-> dest]
  /\ UNCHANGED <<dmac, loop, wants>>

(* Ones clear bits of the status and toggle bits of the mask.              *)
WriteSTAT ==
  /\ loop = Idle
  /\ \E clear, toggle \in SUBSET Flags :
       dmac' = Int1Check([dmac EXCEPT !.stat = @ \ clear,
                            !.mask = (@ \ toggle) \cup (toggle \ @)])
  /\ UNCHANGED <<control, loop, wants>>

WriteSTADR ==
  /\ loop = Idle
  /\ \E a \in Addresses : dmac' = UpdateStadr(dmac, a)
  /\ UNCHANGED <<control, loop, wants>>

-----------------------------------------------------------------------------
Process == ProcessBegin \/ ProcessQuad \/ ProcessEnd

Next ==
  \/ Process
  \/ PeripheralRequests \/ PeripheralWithdraws
  \/ StartDMA \/ StopDMA \/ WriteCTRL \/ WriteSTAT \/ WriteSTADR

Spec == Init /\ [][Next]_vars

(* Emulator::run calls run in every slice of its loop.                     *)
FairSpec == Spec /\ WF_vars(Process)

-----------------------------------------------------------------------------
(* Properties *)

TypeOK ==
  /\ dmac \in DmacState
  /\ control \in [enable : BOOLEAN, source : StallSources, dest : StallDests]
  /\ loop \in [chan : Channels \cup {None}, left : Nat]
  /\ wants \in [Channels -> BOOLEAN]

Queued(d, c) == \E i \in 1 .. Len(d.queue) : d.queue[i] = c
Present(d, c) == d.active = c \/ Queued(d, c)

(* The channels that take turns are the ready ones, each once: none is     *)
(* forgotten, none runs that was stopped or whose peripheral is busy.      *)
TurnsExact(d) ==
  /\ \A c \in Channels : Present(d, c) <=> d.started[c] /\ d.req[c]
  /\ \A i, j \in 1 .. Len(d.queue) : d.queue[i] = d.queue[j] => i = j
  /\ \A i \in 1 .. Len(d.queue) : d.queue[i] # d.active

ReadyTakeTurns == TurnsExact(dmac)

(* INT1 is what D_STAT says, after every event that sets or clears a bit.  *)
Int1Exact == dmac.int1 <=> dmac.stat \cap dmac.mask # {}

(* A drain channel under stall control never moves a quad that STADR has   *)
(* not passed, however the slice is cut short or the channels take turns.  *)
DrainBehind ==
  \A c \in Channels :
    loop.chan = c /\ loop.left > 0 /\ StallsAt(dmac, c) =>
      dmac.address[c] + loop.left <= dmac.stadr

(* The controller withdraws a request itself only for a stall, and notes   *)
(* it, so that UpdateStadr can give it back.                               *)
RequestsReturn ==
  \A c \in Channels : wants[c] /\ ~dmac.req[c] => dmac.stalled[c]

(* "If another channel is queued, always switch to it on a tag boundary"   *)
(* (handle_source_chain): a queued channel that stays ready is served (its *)
(* process_ function called), while the controller is enabled and some     *)
(* channel is active.                                                      *)
Served ==
  \A c \in Channels :
    Queued(dmac, c) ~>
      \/ loop.chan = c \/ ~dmac.started[c] \/ ~dmac.req[c]
      \/ dmac.active = None \/ ~control.enable

(* A peripheral withdraws its request in the call that serves its channel; *)
(* the end of the call then turns the queue once more.                     *)
Withdraws ==
  /\ loop # Idle
  /\ dmac.req[loop.chan] /\ ~dmac'.req[loop.chan]

(* Nothing else starves a channel: whatever is started, stopped, read and  *)
(* requested, a queued one gets its turn unless peripherals withdraw in    *)
(* the middle of their turns for ever (arbitrate, find_new_active_channel).*)
ServedIfKept == <>[][~Withdraws]_vars => Served
=============================================================================

------------------------------- MODULE IopDma -------------------------------
(***************************************************************************)
(* The DMA controller of the IOP (IOP_DMA, iop/iop_dma.cpp): which of its  *)
(* channels has the bus.  A channel is ready when the program has started  *)
(* it (control.busy) and its device requests data (dma_req).  Of the ready *)
(* ones the highest index runs: a channel that becomes ready takes the bus *)
(* from a lower one, which waits in queued_channels.                       *)
(*                                                                         *)
(* run calls the process_ function of the active channel once per cycle.   *)
(* Everything happens on the emulation thread: the processor's writes and  *)
(* the devices' calls come between two calls of a process_ function,       *)
(* except those the device makes while it is read or fed.                  *)
(***************************************************************************)
EXTENDS Integers, Sequences

CONSTANT Channels   (* the channels that are used, by index                *)

CDVD == 3
SPU == 4
SIF0 == 10
SIF1 == 11
SIO2in == 12
SIO2out == 13
None == -1          (* nullptr *)

ASSUME IopDmaAssumption == Channels \subseteq (0 .. 6) \cup (8 .. 14)

VARIABLE dma        (* the fields of IOP_DMA, see IopDmaState              *)

IopDmaState ==
  [active : Channels \cup {None}, queue : Seq(Channels),
   req : [Channels -> BOOLEAN], busy : [Channels -> BOOLEAN],
   tagEnd : [Channels -> BOOLEAN],
   enable : SUBSET Channels,                (* DPCR                        *)
   stat : SUBSET Channels, mask : SUBSET Channels,   (* DICR               *)
   irq : BOOLEAN]                           (* bit 3 of the INTC's I_STAT  *)

Requesting == {SIO2in, SIO2out, SIF0}

(* reset *)
IopDmaInit ==
  dma = [active |-> None, queue |-> <<>>,
         req |-> [c \in Channels |-> c \in Requesting],
         busy |-> [c \in Channels |-> FALSE],
         tagEnd |-> [c \in Channels |-> FALSE],
         enable |-> {}, stat |-> {}, mask |-> {}, irq |-> FALSE]

-----------------------------------------------------------------------------
(* The methods, as functions of the fields d                               *)

(* queued_channels.erase                                                   *)
Erase(q, c) ==
  IF \A i \in 1 .. Len(q) : q[i] # c THEN q
  ELSE LET k == CHOOSE i \in 1 .. Len(q) : q[i] = c
       IN [i \in 1 .. Len(q) - 1 |-> IF i < k THEN q[i] ELSE q[i + 1]]

FindNewActiveChannel(d) ==
  IF d.queue = <<>> THEN [d EXCEPT !.active = None]
  ELSE LET k == CHOOSE i \in 1 .. Len(d.queue) :
                  \A j \in 1 .. Len(d.queue) : d.queue[j] <= d.queue[i]
       IN [d EXCEPT !.active = d.queue[k], !.queue = Erase(d.queue, d.queue[k])]

(* Mutant: the channel that runs keeps the bus.                            *)
ActiveDmaCheckWaits(d, c) ==
  IF ~(d.req[c] /\ d.busy[c]) THEN d
  ELSE IF d.active = None THEN [d EXCEPT !.active = c]
  ELSE [d EXCEPT !.queue = Append(@, c)]

ActiveDmaCheck(d, c) ==
  IF ~(d.req[c] /\ d.busy[c]) THEN d
  ELSE IF d.active = None THEN [d EXCEPT !.active = c]
  ELSE IF d.active < c THEN [d EXCEPT !.queue = Append(@, d.active), !.active = c]
  ELSE [d EXCEPT !.queue = Append(@, c)]

DeactivateDma(d, c) ==
  IF d.active = c THEN FindNewActiveChannel(d)
  ELSE [d EXCEPT !.queue = Erase(@, c)]

SetRequest(d, c) ==
  IF d.req[c] THEN d ELSE ActiveDmaCheck([d EXCEPT !.req[c] = TRUE], c)

ClearRequest(d, c) ==
  IF d.req[c] THEN DeactivateDma([d EXCEPT !.req[c] = FALSE], c) ELSE d

TransferEnd(d, c) ==
  LET e == [d EXCEPT !.busy[c] = FALSE, !.tagEnd[c] = FALSE]
      f == IF e.active = c THEN FindNewActiveChannel(e) ELSE e
  IN IF c \in d.mask THEN [f EXCEPT !.stat = @ \cup {c}, !.irq = TRUE] ELSE f

(* set_chan_control, what it does to the turns                             *)
SetBusy(d, c, busy) ==
  LET e == [d EXCEPT !.busy[c] = busy]
  IN IF busy /\ ~d.busy[c] THEN ActiveDmaCheck(e, c)
     ELSE IF ~busy /\ d.busy[c] THEN DeactivateDma(e, c)
     ELSE e

(* set_DPCR, set_DPCR2: the enable bits of eight channels.  They stop no   *)
(* channel.                                                                *)
Half(h) == {c \in Channels : c \div 8 = h}

SetDPCR(d, h, on) ==
  [d EXCEPT !.enable = (@ \ Half(h)) \cup on,
            !.tagEnd = [c \in Channels |-> d.tagEnd[c] /\ ~(c \in on /\ c \notin d.enable)]]

(* set_DICR, set_DICR2: the mask, and ones that clear bits of the status.  *)
SetDICR(d, h, mask, clear, force) ==
  [d EXCEPT !.mask = (@ \ Half(h)) \cup mask, !.stat = @ \ clear, !.irq = @ \/ force]

-----------------------------------------------------------------------------
(* The controller with devices and a program of which nothing is known     *)

DeviceRequests(c) == dma' = SetRequest(dma, c)
DeviceWithdraws(c) == dma' = ClearRequest(dma, c)

(* One call of a process_ function: the device may withdraw its request    *)
(* while it is read or fed, a SIF channel may read its last tag, and the   *)
(* transfer may be over.                                                   *)
Process(c) ==
  /\ dma.active = c
  /\ \E withdraw, tag, end \in BOOLEAN :
       LET d == IF withdraw THEN ClearRequest(dma, c) ELSE dma
           e == [d EXCEPT !.tagEnd[c] = @ \/ (tag /\ c \in {SIF0, SIF1})]
       IN dma' = IF end THEN TransferEnd(e, c) ELSE e

WriteControl(c) == \E busy \in BOOLEAN : dma' = SetBusy(dma, c, busy)
WriteDPCR(h) == \E on \in SUBSET Half(h) : dma' = SetDPCR(dma, h, on)
WriteDICR(h) ==
  \E mask, clear \in SUBSET Half(h), force \in BOOLEAN :
    dma' = SetDICR(dma, h, mask, clear, force)

(* write_istat of the INTC                                                 *)
AcknowledgeDma == dma' = [dma EXCEPT !.irq = FALSE]

IopDmaNext ==
  \/ \E c \in Channels : \/ DeviceRequests(c) \/ DeviceWithdraws(c)
                         \/ Process(c) \/ WriteControl(c)
  \/ \E h \in {0, 1} : WriteDPCR(h) \/ WriteDICR(h)
  \/ AcknowledgeDma

IopDmaSpec == IopDmaInit /\ [][IopDmaNext]_dma

-----------------------------------------------------------------------------
(* Properties *)

IopDmaTypeOK == dma \in IopDmaState

Waits(d, c) == \E i \in 1 .. Len(d.queue) : d.queue[i] = c
Ready(d, c) == d.req[c] /\ d.busy[c]

(* The channel that has the bus is the highest ready one, and the others   *)
(* that are ready wait, each once: whatever order requests come, are       *)
(* withdrawn and transfers end in, no channel is forgotten, runs twice or  *)
(* runs after its device withdrew (active_dma_check, deactivate_dma,       *)
(* find_new_active_channel, transfer_end).                                 *)
HighestTurn(d) ==
  /\ d.active # None => Ready(d, d.active)
  /\ \A c \in Channels : Ready(d, c) => d.active # None /\ c <= d.active
  /\ \A c \in Channels : Waits(d, c) <=> Ready(d, c) /\ c # d.active
  /\ \A i, j \in 1 .. Len(d.queue) : d.queue[i] = d.queue[j] => i = j

HighestRuns == HighestTurn(dma)
=============================================================================

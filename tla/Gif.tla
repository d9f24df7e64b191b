--------------------------------- MODULE Gif ---------------------------------
(***************************************************************************)
(* The GIF (gif.cpp): the one way into the GS, shared by three paths.      *)
(* PATH1 is VU1's XGKICK (vu.cpp), PATH2 VIF1's DIRECT (vif.cpp), PATH3    *)
(* the GIF channel of the DMA controller (DMAC::process_GIF), with a FIFO. *)
(*                                                                         *)
(* A path asks for the GIF (request_PATH) and is active or queued; the end *)
(* of its packet passes the GIF on (arbitrate_paths).  PATH3 may also be   *)
(* masked between its packets, by VIF1 or by GIF_MODE, and interrupted in  *)
(* an image.  Much of this happens in tests: path3_masked deactivates      *)
(* PATH3, path_active interrupts it.                                       *)
(*                                                                         *)
(* A packet is its tag and as many quads as the tag says.  What they write *)
(* to the GS is left out.  The components of Emulator::run's loop take     *)
(* turns; one quad is moved at a time.  When the GIF channel is a stall    *)
(* drain (D_CTRL.STD), any slice may pass STADR: addresses are left out    *)
(* here (Dmac has them), and so is the memory FIFO.                        *)
(***************************************************************************)
EXTENDS Integers, Sequences

CONSTANTS
  FifoSize,        (* 16 quads                                             *)
  Tags,            (* bound: the tags that programs send                   *)
  MaxQuads         (* bound: the most quads of a DMA transfer or a DIRECT  *)

ASSUME GifAssumption ==
  /\ FifoSize \in Nat \ {0} /\ MaxQuads \in Nat
  /\ Tags \subseteq [tag : {TRUE}, n : Nat, eop : BOOLEAN, image : BOOLEAN]

VARIABLES
  gif,             (* the fields of GraphicsInterface, and dma_req of GIF  *)
  dma,             (* the GIF channel: its quads, and how many of the      *)
                   (* packet they are from are still to come               *)
  vif,             (* VIF1: the quads left of a DIRECT, whether it may     *)
                   (* interrupt PATH3 (DIRECT, not DIRECTHL), and whether  *)
                   (* it owes PATH3 a resume (STALL_MSKPATH3)              *)
  vu,              (* VU1: transferring_GIF and XGKICK_stall               *)
  stalled,         (* has_dma_stalled of the GIF channel                   *)
  asked            (* whether the GIF has asked for DMA since the reset,   *)
                   (* "withheld" after a stall that took the request back  *)

vars == <<gif, dma, vif, vu, stalled, asked>>

Paths == 1 .. 3
Statuses == {"idle", "drawing", "image"}

(* A quad: a tag, or one of the n last quads of its packet.  Only PATH3 is *)
(* interrupted in an image: PATH1 and PATH2 get plain ones.                *)
Data(n) == [tag |-> FALSE, n |-> n, eop |-> FALSE, image |-> FALSE]
Quads == [tag : BOOLEAN, n : Nat, eop : BOOLEAN, image : BOOLEAN]
Following(left) == IF left = 0 THEN Tags ELSE {Data(left)}
Plain(left) == {q \in Following(left) : ~q.image}
LeftAfter(left, q) == IF q.tag THEN q.n ELSE left - 1

GifState ==
  [active : 0 .. 3, queue : SUBSET Paths, status : [Paths -> Statuses],
   left : [Paths -> Nat],                    (* current_tag.data_left      *)
   eop : [Paths -> BOOLEAN],                 (* its EOP, while left > 0    *)
   fifo : Seq(Quads), vifMask : BOOLEAN, modeMask : BOOLEAN,
   intermittent : BOOLEAN, running : BOOLEAN,         (* path3_dma_running *)
   stop : BOOLEAN,         (* gif_temporary_stop, or the GS takes no data  *)
   outputting : BOOLEAN, req : BOOLEAN]

(* reset, which keeps the request to the DMA controller.                   *)
ResetGif(req) ==
  [active |-> 0, queue |-> {}, status |-> [p \in Paths |-> "idle"],
   left |-> [p \in Paths |-> 0], eop |-> [p \in Paths |-> FALSE],
   fifo |-> <<>>, vifMask |-> FALSE, modeMask |-> FALSE,
   intermittent |-> FALSE, running |-> FALSE, stop |-> FALSE,
   outputting |-> FALSE, req |-> req]

Init ==
  /\ gif = ResetGif(FALSE)
  /\ dma = [started |-> FALSE, quads |-> 0, packet |-> 0]
  /\ vif = [direct |-> 0, interrupts |-> FALSE, resume |-> FALSE]
  /\ vu = [kick |-> FALSE, stall |-> FALSE]
  /\ stalled \in BOOLEAN
  /\ asked = "no"

-----------------------------------------------------------------------------
(* The functions of GraphicsInterface                                      *)

Full(g) == Len(g.fifo) = FifoSize

First(queue) == CHOOSE p \in queue : \A o \in queue : p <= o

(* A PATH3 that gets the GIF asks for data, if the FIFO is half empty.     *)
Activate(g, p) ==
  [g EXCEPT !.active = p,
            !.req = @ \/ (p = 3 /\ Len(g.fifo) <= FifoSize \div 2)]

(* Mutant: arbitrate_paths forgets the path it takes the GIF from.         *)
ArbitrateForgetful(g) ==
  IF g.queue = {} \/ (g.active # 0 /\ First(g.queue) > g.active) THEN g
  ELSE Activate([g EXCEPT !.queue = @ \ {First(@)}], First(g.queue))

(* arbitrate_paths: the GIF goes to the first path of the queue, unless    *)
(* the active one comes before it.                                         *)
Arbitrate(g) ==
  IF g.queue = {} \/ (g.active # 0 /\ First(g.queue) > g.active) THEN g
  ELSE Activate([g EXCEPT !.queue = (@ \cup ({g.active} \ {0})) \ {First(@)}],
                First(g.queue))

(* deactivate_PATH: only an idle path.                                     *)
DeactivatePath(g, p) ==
  IF g.status[p] # "idle" THEN g
  ELSE IF g.active = p
       THEN Arbitrate([g EXCEPT !.queue = @ \ {p}, !.active = 0])
       ELSE [g EXCEPT !.queue = @ \ {p}]

(* path3_masked: its answer, and AskMasked, what asking does.              *)
Path3Masked(g) == (g.vifMask \/ g.modeMask) /\ g.status[3] = "idle"

AskMasked(g) == IF Path3Masked(g) THEN DeactivatePath(g, 3) ELSE g

(* interrupt_path3: in an image, or when it is masked.                     *)
InterruptPath3(g, p) ==
  IF g.active # 3 \/ p = 3 THEN g
  ELSE IF g.intermittent /\ g.status[3] = "image" THEN Arbitrate(g)
  ELSE IF Path3Masked(g) THEN Arbitrate(AskMasked(g))
  ELSE g

(* request_PATH: to be active or queued; the latter may interrupt PATH3.   *)
RequestPath(g, p, interrupts) ==
  IF g.active \in {0, p}
  THEN LET h == [g EXCEPT !.active = p]
       IN IF p = 3
          THEN [AskMasked(h) EXCEPT
                  !.req = @ \/ ~Path3Masked(h) \/ Len(h.fifo) < FifoSize]
          ELSE h
  ELSE LET h == [g EXCEPT !.queue = @ \cup {p}]
       IN IF interrupts THEN InterruptPath3(h, p) ELSE h

(* resume_path3: PATH3 is busy at once, so that a mask that comes back     *)
(* does not stop it.                                                       *)
ResumePath3(g) ==
  IF ~g.vifMask /\ ~g.modeMask /\ g.fifo # <<>> /\ g.status[3] = "idle"
  THEN RequestPath([g EXCEPT !.status[3] = "drawing"], 3, FALSE) ELSE g

(* Mutant: FINISH does not wait for the queue.                             *)
EndPacketEarly(g, p) ==
  DeactivatePath([g EXCEPT !.status[p] = "idle", !.outputting = FALSE], p)

(* The end of feed_GIF: FINISH is asserted and nothing is output any more  *)
(* if no path is queued; the GIF is passed on.                             *)
EndPacket(g, p) ==
  DeactivatePath([g EXCEPT !.status[p] = "idle",
                           !.outputting = @ /\ g.queue # {}], p)

(* feed_GIF: a quad of the active path.                                    *)
Feed(g, q) ==
  LET p == g.active
      left == IF g.left[p] = 0 THEN q.n ELSE g.left[p] - 1
      eop == IF g.left[p] = 0 THEN q.eop ELSE g.eop[p]
      h == [g EXCEPT !.left[p] = left, !.eop[p] = eop /\ left > 0,
                     !.outputting = TRUE,
                     !.status[p] = IF g.left[p] > 0 THEN @
                                   ELSE IF q.image THEN "image" ELSE "drawing"]
  IN IF left = 0 /\ eop THEN EndPacket(h, p) ELSE h

(* path3_done.                                                             *)
Done3(g) == g.active # 3 /\ 3 \notin g.queue

(* Mutant: one quad in the FIFO is enough to withdraw the request.         *)
SendPath3Withdraws(g, q) ==
  LET h == IF Done3(g) THEN RequestPath(g, 3, FALSE) ELSE g
      k == AskMasked(h)
  IN IF ~Path3Masked(h) /\ k.active = 3 /\ ~k.stop THEN Feed(k, q)
     ELSE IF Full(k) THEN k
     ELSE [k EXCEPT !.fifo = Append(@, q), !.req = FALSE]

(* send_PATH3: to the GS, or into the FIFO, which withdraws the request    *)
(* when it is full.                                                        *)
SendPath3(g, q) ==
  LET h == IF Done3(g) THEN RequestPath(g, 3, FALSE) ELSE g
      k == AskMasked(h)
  IN IF ~Path3Masked(h) /\ k.active = 3 /\ ~k.stop THEN Feed(k, q)
     ELSE IF Full(k) THEN k
     ELSE [k EXCEPT !.fifo = Append(@, q),
                    !.req = @ /\ Len(k.fifo) + 1 < FifoSize]

(* flush_path3_fifo: the oldest quad; when it was the last, PATH3 ends or  *)
(* asks for more.                                                          *)
FlushPath3(g) ==
  LET h == [Feed(g, Head(g.fifo)) EXCEPT !.fifo = Tail(g.fifo)]
  IN IF h.fifo # <<>> THEN h
     ELSE IF ~h.running \/ Path3Masked(h) THEN DeactivatePath(h, 3)
     ELSE [h EXCEPT !.req = TRUE]

(* Mutant: what comes next does not wait for the FIFO.                     *)
DrainingNever(g) == FALSE

(* fifo_draining.                                                          *)
Draining(g) == g.fifo # <<>> /\ ~Path3Masked(g)

-----------------------------------------------------------------------------
(* PATH3: the GIF channel, the processor, and the GIF itself               *)

(* A request is remembered.                                                *)
Asks == asked' = IF gif'.req THEN "yes" ELSE asked

(* check_for_activation: a new request may find the channel at STADR.      *)
Moves ==
  /\ Asks
  /\ stalled' \in {stalled, stalled \/ (dma.started /\ gif'.req /\ ~gif.req)}

(* The last quad of a transfer ends it in the same call.                   *)
Moved(quads, packet) ==
  dma' = [started |-> quads > 0, quads |-> quads, packet |-> packet]

(* process_GIF for one quad: fifo_draining asks for the mask, if it is     *)
(* called at all.  A drain that is not past STADR is not stalled any more. *)
ProcessGIF ==
  /\ dma.started /\ gif.req
  /\ LET may == dma.quads > 0 /\ ~Full(gif)
         g == IF may /\ gif.fifo # <<>> THEN AskMasked(gif) ELSE gif
     IN IF may /\ ~Draining(gif)
        THEN \E q \in Following(dma.packet) :
               /\ gif' = [SendPath3([g EXCEPT !.running = TRUE], q)
                            EXCEPT !.running = dma.quads > 1]
               /\ Moved(dma.quads - 1, LeftAfter(dma.packet, q))
        ELSE /\ gif' = [g EXCEPT !.running = dma.quads > 0]
             /\ Moved(dma.quads, dma.packet)
  /\ Asks /\ stalled' \in {stalled, stalled /\ dma.quads = 0}
  /\ UNCHANGED <<vif, vu>>

(* process_GIF when the slice passes STADR: the first time PATH3 gives up  *)
(* the GIF, each time the request is withdrawn.                            *)
StallGIF ==
  /\ dma.started /\ gif.req /\ dma.quads > 0
  /\ LET g == [gif EXCEPT !.running = TRUE]
     IN gif' = [IF stalled THEN g ELSE DeactivatePath(g, 3) EXCEPT !.req = FALSE]
  /\ stalled' = TRUE /\ asked' = "withheld"
  /\ UNCHANGED <<dma, vif, vu>>

(* update_stadr: the filler moves on, or the program writes STADR.         *)
UpdateSTADR ==
  /\ stalled
  /\ gif' = [gif EXCEPT !.req = TRUE]
  /\ Moves /\ UNCHANGED <<dma, vif, vu>>

StartDMA ==
  /\ ~dma.started
  /\ \E n \in 0 .. MaxQuads : dma' = [dma EXCEPT !.started = TRUE, !.quads = n]
  /\ stalled' \in {stalled, stalled \/ gif.req}   (* check_for_activation *)
  /\ UNCHANGED <<gif, vif, vu, asked>>

(* D2_CHCR with STR cleared; what was left is for a new transfer.          *)
StopDMA ==
  /\ dma.started
  /\ dma' = [dma EXCEPT !.started = FALSE, !.quads = 0]
  /\ gif' = [gif EXCEPT !.running = FALSE]
  /\ UNCHANGED <<vif, vu, stalled, asked>>

(* send_PATH3_FIFO: a program writes while no DMA runs and there is room.  *)
CpuWrite ==
  /\ ~dma.started /\ ~Full(gif)
  /\ \E q \in Following(dma.packet) :
       /\ gif' = [gif EXCEPT !.fifo = Append(@, q)]
       /\ dma' = [dma EXCEPT !.packet = LeftAfter(@, q)]
  /\ UNCHANGED <<vif, vu, stalled, asked>>

(* run: PATH3 is requested for what is in the FIFO, one quad flows.        *)
GifRun ==
  /\ LET h == IF gif.fifo # <<>> /\ ~Path3Masked(gif)
              THEN RequestPath(gif, 3, FALSE) ELSE AskMasked(gif)
     IN gif' = IF h.fifo # <<>> /\ h.active = 3 /\ ~h.stop /\ ~Path3Masked(h)
               THEN FlushPath3(h) ELSE h
  /\ Moves /\ UNCHANGED <<dma, vif, vu>>

(* write_MODE.                                                             *)
WriteMODE ==
  /\ \E mask, intermittent \in BOOLEAN :
       LET h == [gif EXCEPT !.intermittent = intermittent, !.modeMask = mask]
       IN gif' = IF gif.modeMask /\ ~mask THEN ResumePath3(h) ELSE h
  /\ Moves /\ UNCHANGED <<dma, vif, vu>>

(* write_CTRL: a program resets the GIF while no DMA runs, and sends new   *)
(* packets.  stop is also what the GS says.                                *)
WriteCTRL ==
  /\ \E reset, stop \in BOOLEAN :
       \/ /\ ~reset
          /\ gif' = [gif EXCEPT !.stop = stop] /\ UNCHANGED <<dma, asked>>
       \/ /\ reset /\ ~dma.started
          /\ gif' = [ResetGif(gif.req) EXCEPT !.stop = stop]
          /\ dma' = [dma EXCEPT !.packet = 0]
          /\ asked' = IF gif.req THEN "yes" ELSE "no"
  /\ UNCHANGED <<vif, vu, stalled>>

-----------------------------------------------------------------------------
(* PATH2: VIF1                                                             *)

(* DIRECT and DIRECTHL.                                                    *)
VifDirect ==
  /\ vif.direct = 0 /\ ~vif.resume
  /\ \E n \in 1 .. MaxQuads, interrupts \in BOOLEAN :
       vif' = [vif EXCEPT !.direct = n, !.interrupts = interrupts]
  /\ UNCHANGED <<gif, dma, vu, stalled, asked>>

(* process_data_word: the request, and a quad if PATH2 is active.          *)
VifRun ==
  /\ vif.direct > 0
  /\ LET r == RequestPath(gif, 2, vif.interrupts)
         k == IF vif.interrupts THEN InterruptPath3(r, 2) ELSE r
     IN IF k.active = 2 /\ ~k.stop
        THEN \E q \in Plain(k.left[2]) :
               /\ gif' = IF vif.direct = 1 THEN DeactivatePath(Feed(k, q), 2)
                         ELSE Feed(k, q)
               /\ vif' = [vif EXCEPT !.direct = @ - 1,
                                     !.interrupts = @ /\ vif.direct > 1]
        ELSE gif' = k /\ UNCHANGED vif
  /\ Moves /\ UNCHANGED <<dma, vu>>

(* update: nothing comes in the middle of a DIRECT.                        *)
VifOutOfData ==
  /\ vif.direct > 0 /\ gif.active = 2 /\ ~gif.stop
  /\ gif' = DeactivatePath(gif, 2)
  /\ Moves /\ UNCHANGED <<dma, vif, vu>>

(* MSKPATH3: PATH3 is resumed when update is called again.                 *)
VifMask ==
  /\ vif.direct = 0 /\ ~vif.resume
  /\ \E mask \in BOOLEAN :
       /\ gif' = [gif EXCEPT !.vifMask = mask]
       /\ vif' = [vif EXCEPT !.resume = gif.vifMask /\ ~mask]
  /\ UNCHANGED <<dma, vu, stalled, asked>>

VifResume ==
  /\ vif.resume
  /\ gif' = ResumePath3(gif)
  /\ vif' = [vif EXCEPT !.resume = FALSE]
  /\ Moves /\ UNCHANGED <<dma, vu>>

(* FBRST: the DIRECT is dropped and PATH2 stays as it is; a reset forgets  *)
(* the resume, a forced break does not.                                    *)
VifReset ==
  /\ \E resume \in {FALSE, vif.resume} :
       vif' = [direct |-> 0, interrupts |-> FALSE, resume |-> resume]
  /\ UNCHANGED <<gif, dma, vu, stalled, asked>>

-----------------------------------------------------------------------------
(* PATH1: VU1                                                              *)

(* xgkick: a second one waits for the end of the first.                    *)
XGKICK ==
  /\ ~vu.stall
  /\ vu' = [kick |-> TRUE, stall |-> vu.kick]
  /\ UNCHANGED <<gif, dma, vif, stalled, asked>>

(* run and handle_XGKICK: the request, and a quad if PATH1 is active.      *)
VuRun ==
  /\ vu.kick
  /\ LET k == InterruptPath3(RequestPath(gif, 1, TRUE), 1)
     IN IF k.active = 1 /\ ~k.stop
        THEN \E q \in Plain(k.left[1]) :
               LET h == Feed(k, q)
               IN IF h.status[1] # "idle"
                  THEN gif' = h /\ UNCHANGED vu
                  ELSE /\ gif' = IF vu.stall THEN RequestPath(h, 1, TRUE)
                                 ELSE DeactivatePath(h, 1)
                       /\ vu' = [kick |-> vu.stall, stall |-> FALSE]
        ELSE gif' = k /\ UNCHANGED vu
  /\ Moves /\ UNCHANGED <<dma, vif>>

-----------------------------------------------------------------------------
Next ==
  \/ ProcessGIF \/ StallGIF \/ UpdateSTADR \/ StartDMA \/ StopDMA \/ CpuWrite \/ GifRun
  \/ WriteMODE \/ WriteCTRL
  \/ VifDirect \/ VifRun \/ VifOutOfData \/ VifMask \/ VifResume \/ VifReset
  \/ XGKICK \/ VuRun

Spec == Init /\ [][Next]_vars

-----------------------------------------------------------------------------
(* Properties                                                              *)

TypeOK ==
  /\ gif \in GifState /\ Len(gif.fifo) <= FifoSize
  /\ dma \in [started : BOOLEAN, quads : 0 .. MaxQuads, packet : Nat]
  /\ vif \in [direct : 0 .. MaxQuads, interrupts : BOOLEAN, resume : BOOLEAN]
  /\ vu \in [kick : BOOLEAN, stall : BOOLEAN]
  /\ stalled \in BOOLEAN
  /\ asked \in {"no", "yes", "withheld"}

(* No path is forgotten, owns the GIF twice, or is passed over while all   *)
(* are idle; a PATH1 or PATH2 inside a packet keeps the GIF, a PATH3 that  *)
(* was interrupted is queued (arbitrate_paths, deactivate_PATH).           *)
Kept(g) ==
  /\ g.active \notin g.queue
  /\ g.active = 0 => g.queue = {}
  /\ \A p \in {1, 2} : g.status[p] # "idle" => g.active = p
  /\ g.status[3] # "idle" => 3 \in g.queue \cup {g.active}
PathsKept == Kept(gif)

(* The quads that end PATH3's packet, the first of the FIFO and then what  *)
(* the DMA still sends, number exactly what its tag announced: none was    *)
(* lost in a full FIFO or fed before its turn (send_PATH3).                *)
Framed3 ==
  LET s == gif.fifo
      left[i \in 0 .. Len(s)] ==
        IF i = 0 THEN gif.left[3] ELSE LeftAfter(left[i - 1], s[i])
  IN /\ \A i \in 1 .. Len(s) : s[i] \in Following(left[i - 1])
     /\ left[Len(s)] = dma.packet

(* Once the GIF has asked for data, the DMA controller keeps the request   *)
(* while there is room, unless a stall took it: then has_dma_stalled is    *)
(* set, by which update_stadr gives it back.  "If the dma execution is     *)
(* paused before then, the game will hang" (send_PATH3).                   *)
RequestKept ==
  gif.req \/ Full(gif) \/ asked = "no" \/ (asked = "withheld" /\ stalled)

(* While a mask is on, an idle PATH3 starts no packet (path3_masked).      *)
MaskHolds ==
  [][gif.status[3] = "idle" /\ (gif.vifMask \/ gif.modeMask)
       /\ (gif'.vifMask \/ gif'.modeMask) => gif'.status[3] = "idle"]_vars

(* FINISH and the end of OPH come after the last quad of every path, an    *)
(* interrupted PATH3 included (feed_GIF).                                  *)
FinishNotEarly == gif.outputting \/ \A p \in Paths : gif.left[p] = 0
=============================================================================

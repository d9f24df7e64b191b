---------------------------- MODULE GSRegisters ----------------------------
(***************************************************************************)
(* The privileged registers of the GS (GS_REGISTERS, gsregisters.cpp) are  *)
(* kept twice: the emulation thread has a copy for the programs that read  *)
(* them (GraphicsSynthesizer::reg, gs.cpp), and the GS thread has one that *)
(* it draws by.  Neither reads the other's.  Whatever changes them is sent *)
(* through the ring of CircularFifo, and the two threads apply it to their *)
(* copies at different times, the emulation thread when send_message has   *)
(* returned, the GS thread when it has popped the message.                 *)
(*                                                                         *)
(* The emulation thread also raises the GS interrupt, by its own copy.     *)
(***************************************************************************)
EXTENDS CircularFifo

CONSTANTS
  Ids,        (* what SIGNAL and LABEL carry, 0 for none                   *)
  Displays    (* the values of the registers that choose the picture       *)

Causes == {"signal", "finish", "hblank", "vblank"}

Registers ==
  [generated : SUBSET Causes,   (* CSR: SIGNAL_generated and the others    *)
   masked : SUBSET Causes,                                 (* IMR          *)
   stall : BOOLEAN,             (* SIGNAL_stall                            *)
   pending : BOOLEAN,           (* SIGNAL_irq_pending                      *)
   requested : BOOLEAN,         (* FINISH_requested                        *)
   odd : BOOLEAN,               (* is_odd_frame                            *)
   swaps : BOOLEAN,             (* SYNCV.vertical_front_porch & 1          *)
   sig : Ids, backup : Ids, label : Ids,                   (* SIGLBLID     *)
   display : Displays]          (* PMODE, DISPFB, DISPLAY, SMODE2          *)

(* The messages that concern these registers, by the write or the event    *)
(* that they stand for.                                                    *)
Messages ==
  [type : {"SIGNAL", "LABEL"}, id : Ids]
    \cup [type : {"SIGLBLID"}, sig : Ids, label : Ids]
    \cup [type : {"CSR"}, bits : SUBSET (Causes \cup {"reset"})]
    \cup [type : {"IMR"}, masks : SUBSET Causes]
    \cup [type : {"SYNCV"}, swaps : BOOLEAN]
    \cup [type : {"display"}, value : Displays]
    \cup [type : {"FINISH", "assert_finish", "assert_vsync", "assert_hblank",
                  "swap_field"}]

ASSUME RegistersAssumption ==
  /\ 0 \in Ids
  /\ "reset" \in Displays      (* what reset leaves in them                *)
  /\ Element \subseteq Messages

VARIABLES
  ours,       (* the copy of the emulation thread                          *)
  theirs,     (* the copy of the GS thread                                 *)
  raised,     (* the interrupts of the SIGNAL that CSR shows, since it did *)
  died,       (* send_message found the ring full                          *)
  was         (* history: ours when each message in the ring was sent      *)

registerVars == <<ours, theirs, raised, died, was>>
allVars == <<vars, registerVars>>

-----------------------------------------------------------------------------
(* GS_REGISTERS: what each write and each event does to a copy r           *)

(* reset(TRUE), the soft one, which leaves the field as it is              *)
ResetRegisters(r) ==
  [generated |-> {}, masked |-> Causes, stall |-> FALSE, pending |-> FALSE,
   requested |-> FALSE, odd |-> r.odd, swaps |-> FALSE,
   sig |-> 0, backup |-> 0, label |-> 0, display |-> "reset"]

(* SIGNAL: a second one before the first is acknowledged waits.            *)
Signal(r, id) ==
  IF "signal" \in r.generated THEN [r EXCEPT !.stall = TRUE, !.backup = id]
  ELSE [r EXCEPT !.generated = @ \cup {"signal"}, !.sig = id]

(* Mutant: an acknowledged SIGNAL keeps the interrupt it has not raised.   *)
AcknowledgeSignalKeeps(r) ==
  IF r.stall THEN [r EXCEPT !.stall = FALSE, !.sig = r.backup, !.pending = TRUE,
                            !.generated = @ \cup {"signal"}]
  ELSE [r EXCEPT !.generated = @ \ {"signal"}]

(* The SIGNAL bit of a write to CSR: the SIGNAL that waits comes next, its *)
(* interrupt when IMR is opened.                                           *)
AcknowledgeSignal(r) ==
  IF r.stall THEN [r EXCEPT !.stall = FALSE, !.sig = r.backup, !.pending = TRUE,
                            !.generated = @ \cup {"signal"}]
  ELSE [r EXCEPT !.generated = @ \ {"signal"}, !.pending = FALSE]

WriteCSR(r, bits) ==
  LET a == IF "signal" \in bits THEN AcknowledgeSignal(r) ELSE r
      b == [a EXCEPT !.generated = @ \ (bits \ {"signal"})]
  IN IF "reset" \in bits THEN ResetRegisters(b) ELSE b

(* assert_HBLANK, assert_VSYNC                                             *)
Assert(r, cause) == [r EXCEPT !.generated = @ \cup {cause}]

(* assert_FINISH                                                           *)
AssertFinish(r) ==
  IF r.requested /\ "finish" \notin r.generated
  THEN [r EXCEPT !.requested = FALSE, !.generated = @ \cup {"finish"}]
  ELSE r

Apply(r, m) ==
  CASE m.type = "SIGNAL" -> Signal(r, m.id)
    [] m.type = "LABEL" -> [r EXCEPT !.label = m.id]
    [] m.type = "SIGLBLID" -> [r EXCEPT !.sig = m.sig, !.label = m.label]
    [] m.type = "FINISH" -> [r EXCEPT !.requested = TRUE]
    [] m.type = "CSR" -> WriteCSR(r, m.bits)
    [] m.type = "IMR" -> [r EXCEPT !.masked = m.masks]
    [] m.type = "SYNCV" -> [r EXCEPT !.swaps = m.swaps]
    [] m.type = "display" -> [r EXCEPT !.display = m.value]
    [] m.type = "assert_finish" -> AssertFinish(r)
    [] m.type = "assert_vsync" -> Assert(r, "vblank")
    [] m.type = "assert_hblank" -> Assert(r, "hblank")
    [] m.type = "swap_field" -> [r EXCEPT !.odd = r.swaps => ~r.odd]

-----------------------------------------------------------------------------
(* The emulation thread (GraphicsSynthesizer)                              *)

(* write64: a SIGNAL that does not wait raises its interrupt at once, or   *)
(* is noted while IMR masks it.                                            *)
SignalInterrupt(r) ==
  "signal" \in r.generated /\ ~r.stall /\ "signal" \notin r.masked

NoteMasked(r) ==
  IF "signal" \in r.generated /\ ~r.stall /\ "signal" \in r.masked
  THEN [r EXCEPT !.pending = TRUE] ELSE r

(* write64_privileged, write32_privileged: IMR is opened.                  *)
Opens(r, m) ==
  m.type = "IMR" /\ "signal" \in r.masked /\ "signal" \notin m.masks /\ r.pending

(* Mutant: only a SIGNAL is looked at before the GS thread does its part.  *)
OursAfterSignalOnly(r, m) ==
  IF m.type \in {"FINISH", "LABEL"} THEN r
  ELSE IF m.type = "SIGNAL" THEN NoteMasked(Apply(r, m))
  ELSE IF Opens(r, m) THEN [Apply(r, m) EXCEPT !.pending = FALSE]
  ELSE Apply(r, m)

(* The emulation thread's copy after it sent m.                            *)
OursAfter(r, m) ==
  LET a == Apply(r, m)
  IN IF m.type = "SIGNAL" THEN NoteMasked(a)
     ELSE IF Opens(r, m) THEN [a EXCEPT !.pending = FALSE]
     ELSE a

(* intc->assert_IRQ(GS) on account of SIGNAL                               *)
RaisesSignal(r, m) ==
  IF m.type = "SIGNAL" THEN SignalInterrupt(Apply(r, m)) ELSE Opens(r, m)

(* A SIGNAL appears in CSR: a new one, or the one that waited.             *)
SignalAppears(r, m) ==
  \/ m.type = "SIGNAL" /\ "signal" \notin r.generated
  \/ m.type = "CSR" /\ "signal" \in m.bits /\ r.stall

RaisedAfter(r, m, n) ==
  (IF SignalAppears(r, m) THEN 0 ELSE n) + (IF RaisesSignal(r, m) THEN 1 ELSE 0)

(* send_message has returned.                                              *)
SendDone ==
  /\ Publish
  /\ ours' = OursAfter(ours, push.item)
  /\ raised' = RaisedAfter(ours, push.item, raised)
  /\ was' = Append(was, ours)
  /\ UNCHANGED <<theirs, died>>

(* send_message dies: the frame is abandoned before the copy is written,   *)
(* and the program stops until the machine is reset.                       *)
SendDies ==
  /\ \E h \in Index : PushFull(h)
  /\ died' = TRUE
  /\ UNCHANGED <<ours, theirs, raised, was>>

(* send_message, up to its last step                                       *)
Send ==
  /\ \/ ~died /\ \E m \in Element : PushCall(m)
     \/ \E h \in Index : PushHasRoom(h)
     \/ WriteSlot
     \/ WroteSlot
  /\ UNCHANGED registerVars

-----------------------------------------------------------------------------
(* The GS thread (event_loop)                                              *)

(* What is no message is a corrupted command.  After the reset bit of CSR  *)
(* soft_reset resets the registers once more, which changes nothing.       *)
TheirsAfter(r, m) == IF m \notin Element THEN r ELSE Apply(r, m)

Receive ==
  /\ Release
  /\ theirs' = TheirsAfter(theirs, pop.item)
  /\ was' = Tail(was)
  /\ UNCHANGED <<ours, raised, died>>

(* pop, up to its last step                                                *)
Popping ==
  /\ \/ \E t \in Index : PopEmpty(t) \/ PopCheck(t)
     \/ ReadSlot
  /\ UNCHANGED registerVars

-----------------------------------------------------------------------------
(* reset(FALSE): the field is odd                                          *)
PowerOn == ResetRegisters([odd |-> TRUE])

RegistersInit ==
  /\ Init
  /\ ours = PowerOn /\ theirs = PowerOn
  /\ raised = 0
  /\ died = FALSE
  /\ was = <<>>

RegistersNext == Send \/ SendDone \/ SendDies \/ Receive \/ Popping

RegistersSpec == RegistersInit /\ [][RegistersNext]_allVars

-----------------------------------------------------------------------------
(* Properties *)

RegistersTypeOK ==
  /\ ours \in Registers /\ theirs \in Registers
  /\ raised \in 0 .. 2
  /\ died \in BOOLEAN
  /\ was \in Seq(Registers)

(* What the GS thread draws by is what the program wrote, some messages    *)
(* ago: its copy is the one the emulation thread had when it sent the      *)
(* message that the GS thread takes next, and is the same as the emulation *)
(* thread's when the ring is empty.  Only SIGNAL_irq_pending is the        *)
(* emulation thread's alone (gsregisters.hpp).  The property is about      *)
(* send_message and event_loop together: whatever sets a register is sent, *)
(* in the order in which it is done, and both threads do the same with it. *)
Shared(r) == [r EXCEPT !.pending = FALSE]

CopiesAgree ==
  /\ Len(was) = Len(queueContents)
  /\ Shared(theirs) = Shared(Head(Append(was, ours)))

(* A SIGNAL that CSR shows has raised the GS interrupt once, or it will    *)
(* when IMR is opened, not both; and without one no interrupt waits        *)
(* (write64, write64_privileged, write32_privileged): however masking,     *)
(* acknowledging, a second SIGNAL and a reset follow each other.           *)
SignalRaisesOnce ==
  IF "signal" \in ours.generated THEN raised + (IF ours.pending THEN 1 ELSE 0) = 1
  ELSE ~ours.pending
=============================================================================

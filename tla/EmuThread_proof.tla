-------------------------- MODULE EmuThread_proof --------------------------
(***************************************************************************)
(* Proofs about EmuThread, for any actions of the user, any number of      *)
(* them, with and without fatal errors: at most one frame begins after the *)
(* loop is told to stop, frame advance shows no frame that nobody asked    *)
(* for, and no frame runs while the GUI thread is in the emulator.         *)
(* Then about JitCache, the memory of the code that this thread runs.      *)
(***************************************************************************)
EXTENDS EmuThread, JitCache, SequenceTheorems, WellFoundedInduction, TLAPS

(* A leaf that names no backend is given a minute of SMT and then one of Zenon. *)
USE SMTT(60), ZenonT(60)

(* What the GUI thread may have to do.                                     *)
Steps ==
  [op : {"pause", "unpause"}, arg : PauseEvents]
    \cup [op : {"dialog", "advance on", "advance off", "shutdown"}, arg : {None}]
    \cup [op : {"call"}, arg : {"load_BIOS", "load_memcard", "load", "gsdump_read",
                                "set_skip_BIOS_hack", "load state", "save state", "key"}]

TodoOK ==
  /\ todo \in Seq(Steps)
  /\ gui # "idle" => todo # <<>>

PastTest == emu \in {"check", "lock"}

(* A loop that may run has begun no frame since it was stopped, and        *)
(* neither has one that is past its test.                                  *)
FramesCounted ==
  /\ begun \in 0 .. 1
  /\ ~Stopped(pauseStatus, blockRunLoop) \/ PastTest => begun = 0

(* The frames that may begin before the next pause of frame advance: the   *)
(* one that is past its test, and one more unless the loop is paused.      *)
Coming ==
  IF emu = "check" THEN 1
  ELSE (IF emu = "lock" THEN 1 ELSE 0)
         + (IF "FRAME_ADVANCE" \in pauseStatus THEN 0 ELSE 1)

AdvanceCounted == frameAdvance => allowed >= Coming

(* block_run_loop is set from before wait_for_lock waits until its call    *)
(* has returned.                                                           *)
BlockedWhileCalling == blockRunLoop <=> gui \in {"acquire", "call", "unblock"}

(* The parts of TypeOK.                                                    *)
FlagsOK ==
  /\ abort \in BOOLEAN /\ pauseStatus \subseteq PauseEvents
  /\ blockRunLoop \in BOOLEAN /\ frameAdvance \in BOOLEAN /\ gsdumpReading \in BOOLEAN

FieldsOK ==
  /\ mutex \in {None, EMU, GUI}
  /\ emulator \in [save : BOOLEAN, load : BOOLEAN, dead : BOOLEAN]
  /\ emu \in {"loop", "check", "lock", "run", "gsdump", "emit fatal", "emit non-fatal",
              "pause fatal", "pause non-fatal", "ended"}
  /\ gui \in {"idle", "acquire", "call", "unblock", "release"}
  /\ signals \in Seq({"emu_error", "emu_non_fatal_error"})

CountsOK == actions \in 0 .. MaxActions /\ allowed \in Int

MutexHeld ==
  /\ mutex = EMU <=> emu = "run"
  /\ mutex = GUI <=> gui \in {"call", "unblock", "release"}

EmuInv ==
  /\ FlagsOK /\ FieldsOK /\ CountsOK /\ MutexHeld
  /\ TodoOK /\ FramesCounted /\ AdvanceCounted /\ BlockedWhileCalling

-----------------------------------------------------------------------------
(* The steps of the GUI thread                                             *)

Callees == {"load_BIOS", "load_memcard", "load", "gsdump_read", "set_skip_BIOS_hack",
            "load state", "save state", "key"}

LEMMA DoIsStep ==
  /\ \A p \in PauseEvents : Do("pause", p) \in Steps /\ Do("unpause", p) \in Steps
  /\ \A f \in Callees : Do("call", f) \in Steps
  /\ \A op \in {"dialog", "advance on", "advance off", "shutdown"} : Do(op, None) \in Steps
BY DEF Do, Steps, Callees

LEMMA OneStep == ASSUME NEW a \in Steps PROVE <<a>> \in Seq(Steps)
OBVIOUS

LEMMA Appended ==
  ASSUME NEW S, NEW s \in Seq(S), NEW m \in S PROVE Append(s, m) \in Seq(S)
OBVIOUS

LEMMA LoadExecSteps ==
  ASSUME NEW f \in {"load", "gsdump_read"} PROVE LoadExec(f) \in Seq(Steps)
<1> DEFINE a == Do("call", "load_BIOS")
           b == Do("call", "load_memcard")
           c == Do("call", f)
           d == Do("call", "set_skip_BIOS_hack")
           e == Do("unpause", "GAME_NOT_LOADED")
           m == IF f = "load" THEN <<d>> ELSE <<>>
<1>1. a \in Steps /\ b \in Steps /\ c \in Steps /\ d \in Steps /\ e \in Steps
  BY DoIsStep DEF Callees, PauseEvents
<1>2. LoadExec(f) = <<a, b, c>> \o m \o <<e>>
  BY DEF LoadExec
<1> HIDE DEF a, b, c, d, e
<1>3. <<a, b, c>> \in Seq(Steps) /\ m \in Seq(Steps) /\ <<e>> \in Seq(Steps)
  BY <1>1
<1> HIDE DEF m
<1> QED BY <1>2, <1>3

LEMMA DialogSteps ==
  ASSUME NEW s \in Seq(Steps) PROVE InFileDialog(s) \in Seq(Steps)
<1>1. /\ <<Do("pause", "FILE_DIALOG")>> \in Seq(Steps)
      /\ <<Do("unpause", "FILE_DIALOG")>> \in Seq(Steps)
  BY DoIsStep, OneStep DEF PauseEvents
<1> QED BY <1>1 DEF InFileDialog

LEMMA HandlerSteps ==
  ASSUME NEW a \in AllActions
  PROVE  Handler(a) \in Seq(Steps)
<1> DEFINE box == <<Do("dialog", None)>>
<1>1. box \in Seq(Steps)
  BY DoIsStep, OneStep
<1>2. /\ LoadExec("load") \in Seq(Steps)
      /\ box \o LoadExec("load") \in Seq(Steps)
      /\ box \o LoadExec("gsdump_read") \in Seq(Steps)
  BY <1>1, LoadExecSteps
<1>3. CASE a \in {"open file", "cancel dialog", "open gsdump", "quick load"}
  BY <1>1, <1>2, <1>3, DialogSteps DEF Handler
<1>4. CASE a \in {"load state", "save state"}
  <2>1. <<Do("call", a)>> \in Seq(Steps)
    BY <1>4, DoIsStep, OneStep DEF Callees
  <2> QED BY <1>4, <2>1, DialogSteps DEF Handler
<1>5. CASE a \in {"key", "pause", "unpause", "stop", "next frame", "close"}
  <2>1. /\ <<Do("call", "key")>> \in Seq(Steps)
        /\ \A p \in PauseEvents : /\ <<Do("pause", p)>> \in Seq(Steps)
                                  /\ <<Do("unpause", p)>> \in Seq(Steps)
        /\ <<Do("shutdown", None)>> \in Seq(Steps)
    BY DoIsStep, OneStep DEF Callees
  <2> QED BY <1>5, <2>1 DEF Handler, PauseEvents
<1>6. CASE a = "frame advance"
  <2> DEFINE off == Do("advance off", None)
             next == Do("unpause", "FRAME_ADVANCE")
             on == Do("advance on", None)
  <2>1. off \in Steps /\ next \in Steps /\ on \in Steps
    BY DoIsStep DEF PauseEvents
  <2>2. Handler(a) = <<off, next>> \/ Handler(a) = <<on>>
    BY <1>6 DEF Handler
  <2> HIDE DEF off, next, on
  <2>3. <<off, next>> \in Seq(Steps) /\ <<on>> \in Seq(Steps)
    BY <2>1
  <2> QED BY <2>2, <2>3
<1> QED BY <1>3, <1>4, <1>5, <1>6 DEF AllActions

LEMMA SlotSteps ==
  ASSUME NEW s, NEW t \in Seq(Steps) PROVE Slot(s) \o t \in Seq(Steps)
<1> DEFINE box == Do("dialog", None)
           go == Do("unpause", "MESSAGE_BOX")
<1>1. box \in Steps /\ go \in Steps
  BY DoIsStep DEF PauseEvents
<1>2. Slot(s) = <<box>> \/ Slot(s) = <<box, go>>
  BY DEF Slot
<1> HIDE DEF box, go
<1>3. <<box>> \in Seq(Steps) /\ <<box, go>> \in Seq(Steps)
  BY <1>1
<1>4. Slot(s) \in Seq(Steps)
  BY <1>2, <1>3
<1> QED BY <1>4

LEMMA HeadIsStep ==
  ASSUME TodoOK, todo # <<>>
  PROVE  /\ Head(todo) \in Steps /\ Tail(todo) \in Seq(Steps)
         /\ Head(todo).op \in {"pause", "unpause"} =>
              /\ Head(todo).arg \in PauseEvents
              /\ Head(todo) = Do(Head(todo).op, Head(todo).arg)
<1>1. Head(todo) \in Steps /\ Tail(todo) \in Seq(Steps)
  BY DEF TodoOK
<1> QED BY <1>1 DEF Steps, Do

-----------------------------------------------------------------------------
(* Every step keeps the invariant                                          *)

LEMMA EmuInit == Init => EmuInv
<1> SUFFICES ASSUME Init PROVE EmuInv
  OBVIOUS
<1>1. FlagsOK
  BY DEF Init, FlagsOK, PauseEvents
<1>4. FieldsOK
  BY DEF Init, FieldsOK, Fresh, None
<1>5. MutexHeld
  BY DEF Init, MutexHeld, None, EMU, GUI
<1>2. CountsOK /\ TodoOK
  BY EmuThreadAssumption DEF Init, CountsOK, TodoOK
<1>3. FramesCounted /\ AdvanceCounted /\ BlockedWhileCalling
  BY DEF Init, FramesCounted, AdvanceCounted, BlockedWhileCalling, Stopped, PastTest
<1> QED BY <1>1, <1>2, <1>3, <1>4, <1>5 DEF EmuInv

(* What the emulation thread leaves alone.                                 *)
LEMMA RunLeaves ==
  ASSUME Run
  PROVE  UNCHANGED <<abort, blockRunLoop, frameAdvance, gsdumpReading, gui, todo, actions>>
BY DEF Run, LoopAbort, LoopGo, LoopGsdump, LoopFrame, FrameLock, FrameDone, FrameNonFatal,
       FrameFatal, GsdumpFrame, GsdumpEnd, Emit, ErrorPause, control, history

LEMMA EmitSignals ==
  ASSUME FieldsOK, Emit
  PROVE  signals' \in Seq({"emu_error", "emu_non_fatal_error"})
<1>1. signals \in Seq({"emu_error", "emu_non_fatal_error"})
  BY DEF FieldsOK
<1>2. \/ signals' = Append(signals, "emu_error")
      \/ signals' = Append(signals, "emu_non_fatal_error")
  BY DEF Emit
<1> QED BY <1>1, <1>2, Appended

(* The emulation thread: each part of the invariant, by the statements     *)
(* that touch it.                                                          *)
LEMMA RunStep == EmuInv /\ Run => EmuInv'
<1> SUFFICES ASSUME EmuInv, Run PROVE EmuInv'
  OBVIOUS
<1>1. /\ FlagsOK /\ FieldsOK /\ CountsOK /\ MutexHeld
      /\ TodoOK /\ FramesCounted /\ AdvanceCounted /\ BlockedWhileCalling
  BY DEF EmuInv
<1>2. UNCHANGED <<abort, blockRunLoop, frameAdvance, gsdumpReading, gui, todo, actions>>
  BY RunLeaves
<1>3. FlagsOK'
  <2>1. pauseStatus' \subseteq PauseEvents
    BY <1>1 DEF FlagsOK, Run, LoopAbort, LoopGo, LoopGsdump, LoopFrame, FrameLock, FrameDone,
       FrameNonFatal, FrameFatal, GsdumpFrame, GsdumpEnd, Emit, ErrorPause, control,
       history, Pause, PauseEvents
  <2> QED BY <1>1, <1>2, <2>1 DEF FlagsOK
<1>4. FieldsOK' /\ MutexHeld'
  <2> USE <1>1, <1>2 DEF FieldsOK, MutexHeld, EmuGoes, None, EMU, GUI
  <2>1. CASE LoopAbort \/ LoopGo \/ LoopGsdump \/ LoopFrame
    BY <2>1 DEF LoopAbort, LoopGo, LoopGsdump, LoopFrame
  <2>2. CASE FrameLock \/ FrameDone
    BY <2>2 DEF FrameLock, FrameDone
  <2>3. CASE FrameNonFatal \/ FrameFatal
    BY <2>3 DEF FrameNonFatal, FrameFatal, Fresh
  <2>4. CASE GsdumpFrame \/ GsdumpEnd
    BY <2>4 DEF GsdumpFrame, GsdumpEnd
  <2>5. CASE Emit
    <3>2. signals' \in Seq({"emu_error", "emu_non_fatal_error"})
      BY <2>5, EmitSignals
    <3>3. /\ UNCHANGED <<mutex, emulator, gui>>
          /\ \/ emu = "emit fatal" /\ emu' = "pause fatal"
             \/ emu = "emit non-fatal" /\ emu' = "pause non-fatal"
      BY <2>5 DEF Emit
    <3> QED BY <3>2, <3>3
  <2>6. CASE ErrorPause
    BY <2>6 DEF ErrorPause
  <2> QED BY <2>1, <2>2, <2>3, <2>4, <2>5, <2>6 DEF Run
<1>5. CountsOK'
  <2>1. allowed' \in {allowed, allowed - 1}
    BY DEF Run, LoopAbort, LoopGo, LoopGsdump, LoopFrame, FrameLock, FrameDone,
       FrameNonFatal, FrameFatal, GsdumpFrame, GsdumpEnd, Emit, ErrorPause, history
  <2> QED BY <1>1, <1>2, <2>1 DEF CountsOK
<1>6. TodoOK' /\ BlockedWhileCalling'
  BY <1>1, <1>2 DEF TodoOK, BlockedWhileCalling
<1>7. FramesCounted'
  <2> USE <1>1, <1>2 DEF FramesCounted, PastTest, Stopped, EmuGoes
  <2>1. CASE LoopAbort \/ LoopGo
    BY <2>1 DEF LoopAbort, LoopGo, control, history
  <2>2. CASE LoopGsdump \/ FrameLock
    BY <2>2 DEF LoopGsdump, FrameLock, control
  <2>3. CASE LoopFrame
    BY <2>3 DEF LoopFrame, Pause
  <2>4. CASE FrameDone \/ FrameNonFatal \/ FrameFatal \/ Emit
    BY <2>4 DEF FrameDone, FrameNonFatal, FrameFatal, Emit, control, history
  <2>5. CASE GsdumpFrame \/ GsdumpEnd \/ ErrorPause
    BY <2>5 DEF GsdumpFrame, GsdumpEnd, ErrorPause, Pause
  <2> QED BY <2>1, <2>2, <2>3, <2>4, <2>5 DEF Run
<1>8. AdvanceCounted'
  <2> SUFFICES ASSUME frameAdvance PROVE allowed' >= Coming'
    BY <1>2 DEF AdvanceCounted
  <2>1. allowed \in Int /\ allowed >= Coming
    BY <1>1 DEF CountsOK, AdvanceCounted
  <2> USE <2>1 DEF Coming, EmuGoes
  <2>2. CASE LoopAbort \/ LoopGo
    <3>1. /\ UNCHANGED <<allowed, pauseStatus>> /\ emu = "loop"
          /\ emu' = "ended" \/ (emu' = "check" /\ pauseStatus = {})
      BY <2>2 DEF LoopAbort, LoopGo, Stopped, control, history
    <3> QED BY <3>1
  <2>3. CASE LoopGsdump
    BY <2>3 DEF LoopGsdump, control
  <2>4. CASE FrameLock
    <3>1. allowed' = allowed - 1 /\ UNCHANGED pauseStatus /\ emu = "lock" /\ emu' = "run"
      BY <2>4 DEF FrameLock, control
    <3> QED BY <3>1
  <2>5. CASE LoopFrame
    <3>1. /\ UNCHANGED allowed /\ emu = "check" /\ emu' = "lock"
          /\ "FRAME_ADVANCE" \in pauseStatus'
      BY <2>5 DEF LoopFrame, Pause
    <3> QED BY <3>1
  <2>6. CASE FrameDone \/ FrameNonFatal \/ FrameFatal \/ Emit
    <3>1. /\ UNCHANGED <<allowed, pauseStatus>>
          /\ emu \notin {"check", "lock"} /\ emu' \notin {"check", "lock"}
      BY <2>6 DEF FrameDone, FrameNonFatal, FrameFatal, Emit, control, history
    <3> QED BY <3>1
  <2>7. CASE GsdumpFrame \/ GsdumpEnd \/ ErrorPause
    <3>1. /\ UNCHANGED allowed /\ pauseStatus \subseteq pauseStatus'
          /\ emu \notin {"check", "lock"} /\ emu' \notin {"check", "lock"}
      BY <2>7 DEF GsdumpFrame, GsdumpEnd, ErrorPause, Pause
    <3> QED BY <3>1
  <2> QED BY <2>2, <2>3, <2>4, <2>5, <2>6, <2>7 DEF Run
<1> QED BY <1>3, <1>4, <1>5, <1>6, <1>7, <1>8 DEF EmuInv

(* A pause or an unpause of a handler.                                     *)
LEMMA GuiPauseStep == EmuInv /\ GuiPause => EmuInv'
<1> SUFFICES ASSUME EmuInv, GuiPause PROVE EmuInv'
  OBVIOUS
<1> DEFINE p == Head(todo).arg
<1>1. /\ FlagsOK /\ FieldsOK /\ CountsOK /\ MutexHeld
      /\ TodoOK /\ FramesCounted /\ AdvanceCounted /\ BlockedWhileCalling
  BY DEF EmuInv
<1>2. UNCHANGED <<abort, blockRunLoop, frameAdvance, gsdumpReading, mutex, emulator,
                  emu, gui, signals, actions>>
  BY DEF GuiPause
<1>3. /\ Tail(todo) \in Seq(Steps) /\ p \in PauseEvents
      /\ Head(todo) = Do(Head(todo).op, p) /\ gui = "idle"
  BY <1>1, HeadIsStep DEF GuiPause, Next1
<1>4. FlagsOK'
  <2>1. pauseStatus' \subseteq PauseEvents
    BY <1>1, <1>3 DEF GuiPause, Pause, Unpause, FlagsOK
  <2> QED BY <1>1, <1>2, <2>1 DEF FlagsOK
<1>5. FieldsOK' /\ MutexHeld' /\ BlockedWhileCalling'
  BY <1>1, <1>2 DEF FieldsOK, MutexHeld, BlockedWhileCalling
<1>6. CountsOK'
  <2>1. allowed' \in {allowed, allowed + 1}
    BY DEF GuiPause
  <2> QED BY <1>1, <1>2, <2>1 DEF CountsOK
<1>7. TodoOK'
  BY <1>2, <1>3 DEF GuiPause, TodoOK
<1>8. FramesCounted'
  <2>1. CASE Pause(p)
    BY <1>1, <1>2, <2>1 DEF Pause, FramesCounted, Stopped, PastTest
  <2>2. CASE Unpause(p)
    BY <1>1, <1>2, <2>2 DEF Unpause, CountFrom, FramesCounted, Stopped, PastTest
  <2> QED BY <2>1, <2>2 DEF GuiPause
<1>9. AdvanceCounted'
  <2> SUFFICES ASSUME frameAdvance PROVE allowed' >= Coming'
    BY <1>2 DEF AdvanceCounted
  <2>1. allowed \in Int /\ allowed >= Coming
    BY <1>1 DEF CountsOK, AdvanceCounted
  <2>2. CASE Pause(p)
    <3>1. allowed' \in {allowed, allowed + 1}
      BY DEF GuiPause
    <3> QED BY <1>2, <2>1, <2>2, <3>1 DEF Pause, Coming
  <2>3. CASE Next1("unpause") /\ Unpause(p)
    <3>1. p = "FRAME_ADVANCE" => allowed' = allowed + 1
      BY <1>3, <2>3 DEF GuiPause, Next1
    <3>2. allowed' \in {allowed, allowed + 1}
      BY DEF GuiPause
    <3> QED BY <1>2, <2>1, <2>3, <3>1, <3>2 DEF Unpause, Coming
  <2> QED BY <2>2, <2>3 DEF GuiPause
<1> QED BY <1>4, <1>5, <1>6, <1>7, <1>8, <1>9 DEF EmuInv

(* frame_advance is toggled: two frames are allowed, one past its test and *)
(* the one that is shown.                                                  *)
LEMMA GuiFrameAdvanceStep == EmuInv /\ GuiFrameAdvance => EmuInv'
<1> SUFFICES ASSUME EmuInv, GuiFrameAdvance PROVE EmuInv'
  OBVIOUS
<1>1. /\ FlagsOK /\ FieldsOK /\ CountsOK /\ MutexHeld
      /\ TodoOK /\ FramesCounted /\ AdvanceCounted /\ BlockedWhileCalling
  BY DEF EmuInv
<1>2. UNCHANGED <<abort, pauseStatus, blockRunLoop, gsdumpReading, mutex, emulator,
                  emu, gui, signals, actions, begun>>
  BY DEF GuiFrameAdvance
<1>3. /\ frameAdvance' \in BOOLEAN /\ allowed' \in {0, 2}
      /\ frameAdvance' => allowed' = 2
  BY DEF GuiFrameAdvance
<1>4. FlagsOK' /\ FieldsOK' /\ MutexHeld' /\ BlockedWhileCalling'
  <2>1. FlagsOK'
    BY <1>1, <1>2, <1>3 DEF FlagsOK
  <2>2. FieldsOK'
    BY <1>1, <1>2 DEF FieldsOK
  <2>3. MutexHeld' /\ BlockedWhileCalling'
    BY <1>1, <1>2 DEF MutexHeld, BlockedWhileCalling
  <2>. QED BY <2>1, <2>2, <2>3
<1>5. CountsOK' /\ FramesCounted'
  BY <1>1, <1>2, <1>3 DEF CountsOK, FramesCounted, Stopped, PastTest
<1>6. TodoOK'
  BY <1>1, HeadIsStep DEF GuiFrameAdvance, Next1, TodoOK
<1>7. AdvanceCounted'
  BY <1>3 DEF AdvanceCounted, Coming
<1> QED BY <1>4, <1>5, <1>6, <1>7 DEF EmuInv

(* wait_for_lock, from block_run_loop = true to the end of its scope, and  *)
(* the shutdown.                                                           *)
LEMMA CallStep ==
  EmuInv /\ (GuiShutdown \/ GuiBlock \/ GuiAcquire \/ GuiCall \/ GuiUnblock \/ GuiRelease)
    => EmuInv'
<1> DEFINE Calls == GuiShutdown \/ GuiBlock \/ GuiAcquire \/ GuiCall \/ GuiUnblock
                      \/ GuiRelease
<1> SUFFICES ASSUME EmuInv, Calls PROVE EmuInv'
  OBVIOUS
<1>1. /\ FlagsOK /\ FieldsOK /\ CountsOK /\ MutexHeld
      /\ TodoOK /\ FramesCounted /\ AdvanceCounted /\ BlockedWhileCalling
  BY DEF EmuInv
<1>2. UNCHANGED <<pauseStatus, frameAdvance, emu, signals, actions, allowed>>
  BY DEF GuiShutdown, GuiBlock, GuiAcquire, GuiCall, GuiUnblock, GuiRelease, control,
         history
<1>3. FlagsOK'
  <2>1. abort' \in {abort, TRUE} /\ blockRunLoop' \in BOOLEAN /\ gsdumpReading' \in BOOLEAN
    BY <1>1 DEF GuiShutdown, GuiBlock, GuiAcquire, GuiCall, GuiUnblock, GuiRelease, control,
         history, FlagsOK
  <2> QED BY <1>1, <1>2, <2>1 DEF FlagsOK
<1>4. FieldsOK'
  <2>1. mutex' \in {mutex, None, GUI} /\ gui' \in {"idle", "acquire", "call", "unblock", "release"}
    BY <1>1 DEF GuiShutdown, GuiBlock, GuiAcquire, GuiCall, GuiUnblock, GuiRelease, FieldsOK
  <2>2. emulator' \in [save : BOOLEAN, load : BOOLEAN, dead : BOOLEAN]
    <3>1. CASE GuiCall
      BY <1>1, <3>1 DEF GuiCall, FieldsOK, Fresh
    <3>2. CASE ~GuiCall
      BY <1>1, <3>2 DEF GuiShutdown, GuiBlock, GuiAcquire, GuiUnblock, GuiRelease, FieldsOK
    <3> QED BY <3>1, <3>2
  <2> QED BY <1>1, <1>2, <2>1, <2>2 DEF FieldsOK
<1>5. CountsOK' /\ AdvanceCounted'
  BY <1>1, <1>2 DEF CountsOK, AdvanceCounted, Coming
<1>6. MutexHeld' /\ BlockedWhileCalling'
  <2> USE <1>1, <1>2 DEF MutexHeld, BlockedWhileCalling, control, None, EMU, GUI, Next1
  <2>1. CASE GuiShutdown
    BY <2>1 DEF GuiShutdown
  <2>2. CASE GuiBlock
    BY <2>2 DEF GuiBlock
  <2>3. CASE GuiAcquire
    BY <2>3 DEF GuiAcquire
  <2>4. CASE GuiCall
    BY <2>4 DEF GuiCall
  <2>5. CASE GuiUnblock
    BY <2>5 DEF GuiUnblock
  <2>6. CASE GuiRelease
    BY <2>6 DEF GuiRelease
  <2> QED BY <2>1, <2>2, <2>3, <2>4, <2>5, <2>6
<1>7. TodoOK'
  BY <1>1, HeadIsStep DEF GuiShutdown, GuiBlock, GuiAcquire, GuiCall, GuiUnblock, GuiRelease,
     Next1, TodoOK
<1>8. FramesCounted'
  <2>1. CASE GuiUnblock
    BY <1>1, <1>2, <2>1 DEF GuiUnblock, CountFrom, FramesCounted, Stopped, PastTest
  <2>2. CASE ~GuiUnblock
    <3>1. UNCHANGED begun /\ (UNCHANGED blockRunLoop \/ blockRunLoop' = TRUE)
      BY <2>2 DEF GuiShutdown, GuiBlock, GuiAcquire, GuiCall, GuiRelease, control,
         history
    <3> QED BY <1>1, <1>2, <3>1 DEF FramesCounted, Stopped, PastTest
  <2> QED BY <2>1, <2>2
<1> QED BY <1>3, <1>4, <1>5, <1>6, <1>7, <1>8 DEF EmuInv

LEMMA HandleStep == EmuInv /\ Handle => EmuInv'
BY GuiPauseStep, GuiFrameAdvanceStep, CallStep DEF Handle

(* The user and the signals.                                               *)
LEMMA EventStep ==
  EmuInv /\ (HandleSignal \/ CloseDialog \/ UserActs \/ UNCHANGED vars) => EmuInv'
<1> SUFFICES ASSUME EmuInv, HandleSignal \/ CloseDialog \/ UserActs \/ UNCHANGED vars
             PROVE  EmuInv'
  OBVIOUS
<1>1. /\ FlagsOK /\ FieldsOK /\ CountsOK /\ MutexHeld
      /\ TodoOK /\ FramesCounted /\ AdvanceCounted /\ BlockedWhileCalling
  BY DEF EmuInv
<1>2. UNCHANGED <<abort, pauseStatus, blockRunLoop, frameAdvance, gsdumpReading, mutex,
                  emulator, emu, gui, begun, allowed>>
  BY DEF HandleSignal, CloseDialog, UserActs, vars, control, history
<1>3. /\ FlagsOK' /\ MutexHeld' /\ FramesCounted' /\ AdvanceCounted' /\ BlockedWhileCalling'
  BY <1>1, <1>2 DEF FlagsOK, MutexHeld, FramesCounted, AdvanceCounted, Coming,
     BlockedWhileCalling, PastTest, Stopped
<1>4. FieldsOK'
  <2>1. signals' \in Seq({"emu_error", "emu_non_fatal_error"})
    <3> DEFINE Signal == {"emu_error", "emu_non_fatal_error"}
    <3>1. signals \in Seq(Signal)
      BY <1>1 DEF FieldsOK
    <3>2. signals' = signals \/ (signals # <<>> /\ signals' = Tail(signals))
      BY DEF HandleSignal, CloseDialog, UserActs, vars
    <3> HIDE DEF Signal
    <3>3. signals' \in Seq(Signal)
      BY <3>1, <3>2
    <3> QED BY <3>3 DEF Signal
  <2> QED BY <1>1, <1>2, <2>1 DEF FieldsOK
<1>5. CountsOK'
  <2>1. actions' \in 0 .. MaxActions
    BY <1>1, EmuThreadAssumption DEF HandleSignal, CloseDialog, UserActs, vars, history, CountsOK
  <2> QED BY <1>1, <1>2, <2>1 DEF CountsOK
<1>6. TodoOK'
  <2>1. CASE HandleSignal
    BY <1>1, <2>1, SlotSteps DEF HandleSignal, TodoOK
  <2>2. CASE CloseDialog
    BY <1>1, <2>2, HeadIsStep DEF CloseDialog, TodoOK, Next1
  <2>3. CASE UserActs
    <3>1. PICK a \in AllActions : todo' = Handler(a)
      BY <2>3, EmuThreadAssumption DEF UserActs
    <3> QED BY <2>3, <3>1, HandlerSteps DEF UserActs, TodoOK
  <2>4. CASE UNCHANGED vars
    BY <1>1, <2>4 DEF vars, TodoOK
  <2> QED BY <2>1, <2>2, <2>3, <2>4
<1> QED BY <1>3, <1>4, <1>5, <1>6 DEF EmuInv

LEMMA EmuStep == EmuInv /\ [Next]_vars => EmuInv'
BY RunStep, HandleStep, EventStep DEF Next

THEOREM EmuInvariance == Spec => []EmuInv
BY EmuInit, EmuStep, PTL DEF Spec

(* The flags, the emulator's requests and both threads' places keep their  *)
(* types, and emu_mutex is held by the thread that is inside its scope.    *)
THEOREM EmuTypes == Spec => []TypeOK
<1>1. EmuInv => TypeOK
  <2> SUFFICES ASSUME EmuInv PROVE TypeOK
    OBVIOUS
  <2>1. FlagsOK /\ FieldsOK /\ CountsOK /\ MutexHeld
    BY DEF EmuInv
  <2>2. begun \in Nat
    BY DEF EmuInv, FramesCounted
  <2> QED BY <2>1, <2>2 DEF TypeOK, FlagsOK, FieldsOK, CountsOK, MutexHeld
<1> QED BY <1>1, EmuInvariance, PTL

(* After a pause, or once the GUI thread waits for emu_mutex, at most one  *)
(* more frame begins, whatever both threads do (run, wait_for_lock).       *)
THEOREM LoopStopsSoon == Spec => []StopsSoon
<1>1. EmuInv => StopsSoon
  BY DEF EmuInv, FramesCounted, StopsSoon
<1> QED BY <1>1, EmuInvariance, PTL

(* Frame advance shows one frame for each key press, however presses,      *)
(* pauses, errors and GS dumps fall between the statements of run.         *)
THEOREM AdvanceShowsOne == Spec => []FrameAdvanceSteps
<1>1. EmuInv => FrameAdvanceSteps
  <2>1. EmuInv => CountsOK /\ AdvanceCounted
    BY DEF EmuInv
  <2>2. allowed \in Int /\ allowed >= Coming => allowed >= 0
    BY DEF Coming
  <2> QED BY <2>1, <2>2 DEF CountsOK, AdvanceCounted, FrameAdvanceSteps
<1> QED BY <1>1, EmuInvariance, PTL

(* A call of the GUI thread into the emulator never meets a frame: both    *)
(* are under emu_mutex (a frame of a GS dump is not).                      *)
CallsApartFromFrames == ~(emu = "run" /\ gui \in {"call", "unblock", "release"})

THEOREM CallsExcludeFrames == Spec => []CallsApartFromFrames
<1>1. EmuInv => CallsApartFromFrames
  BY DEF EmuInv, MutexHeld, CallsApartFromFrames, EMU, GUI
<1> QED BY <1>1, EmuInvariance, PTL

-----------------------------------------------------------------------------
(***************************************************************************)
(* JitCache: the memory of the code that the emulation thread recompiles   *)
(* and runs.  For any size of the heap, any number of bins, any addresses  *)
(* and sizes of blocks and any order of insertions and flushes the         *)
(* allocator's words, lists and count agree, and so do the records.        *)
(* The argument names the set S of the objects: Tiles says that they tile  *)
(* the memory, and each function of the allocator takes S to another such  *)
(* set T; Objects, the walk of the headers, is shown to be that set.       *)
(***************************************************************************)

(* Induction over the naturals, for sets.                                  *)
LEMMA NaturalsAreLeast == ASSUME NEW S \in SUBSET Nat, S # {} PROVE \E n \in S : \A m \in S : n <= m
<1>. DEFINE R == OpToRel(<, Nat)
<1>1. IsWellFoundedOn(R, Nat)
  BY NatLessThanWellFounded
<1>2. PICK n \in S : \A m \in S : ~(<<m, n>> \in R)
  BY <1>1, WFMin
<1>3. \A m \in S : ~(m < n)
  BY <1>2 DEF OpToRel
<1>. QED BY <1>3

LEMMA Induct ==
  ASSUME NEW S \in SUBSET Nat, 0 \in S, \A n \in S : n + 1 \in S PROVE S = Nat
<1>. SUFFICES ASSUME S # Nat PROVE FALSE
  OBVIOUS
<1>1. PICK x \in Nat \ S : \A y \in Nat \ S : x <= y
  <2>. DEFINE T == Nat \ S
  <2>1. T \in SUBSET Nat /\ T # {}
    OBVIOUS
  <2>. HIDE DEF T
  <2>2. \E x \in T : \A y \in T : x <= y
    BY <2>1, NaturalsAreLeast
  <2>. QED BY <2>2 DEF T
<1>2. x # 0 /\ x - 1 \in Nat /\ ~(x <= x - 1) /\ (x - 1) + 1 = x
  BY <1>1
<1>. QED BY <1>1, <1>2

-----------------------------------------------------------------------------
(* The sizes of the bins                                                   *)
LEMMA PowerOf2Is ==
  /\ PowerOf2[0] = 1
  /\ \A n \in 1 .. BinStart + Bins : PowerOf2[n] = 2 * PowerOf2[n - 1]
<1>. DEFINE K == BinStart + Bins
            Solves(f, m) == f = [n \in 0 .. m |-> IF n = 0 THEN 1 ELSE 2 * f[n - 1]]
            M == {m \in Nat : \E f : Solves(f, m)}
<1>1. 0 \in M
  <2>1. Solves([n \in 0 .. 0 |-> 1], 0)
    OBVIOUS
  <2>. QED BY <2>1
<1>2. ASSUME NEW m \in M PROVE m + 1 \in M
  <2>1. PICK f : Solves(f, m)
    OBVIOUS
  <2>. DEFINE g == [n \in 0 .. m + 1 |-> IF n = m + 1 THEN 2 * f[m] ELSE f[n]]
  <2>2. ASSUME NEW n \in 0 .. m + 1 PROVE g[n] = IF n = 0 THEN 1 ELSE 2 * g[n - 1]
    BY <2>1
  <2>3. Solves(g, m + 1)
    BY <2>2
  <2>. HIDE DEF g
  <2>4. (\E e : Solves(e, m + 1)) /\ m + 1 \in Nat
    BY <2>3
  <2>. HIDE DEF Solves
  <2>. QED BY <2>4
<1>3. M = Nat
  BY <1>1, <1>2, Induct
<1>4. K \in Nat
  BY JitCacheAssumption
<1>5. PICK f : Solves(f, K)
  BY <1>3, <1>4
<1>6. PowerOf2 = [n \in 0 .. K |-> IF n = 0 THEN 1 ELSE 2 * PowerOf2[n - 1]]
  BY <1>5 DEF PowerOf2
<1>. QED BY <1>4, <1>6

LEMMA MinBinSizeIs ==
  /\ \A b \in 0 .. Bins : MinBinSize(b) \in Nat
  /\ MinBinSize(0) >= 4 /\ MinBinSize(Bins) <= HeapSize - 2 /\ HeapSize >= 6
  /\ HeapSize \in Nat /\ Bins \in Nat
<1>1. /\ BinStart \in Nat /\ Bins \in Nat /\ BinStart >= 2 /\ HeapSize \in Nat
      /\ PowerOf2[BinStart + Bins] <= HeapSize - 2
  BY JitCacheAssumption
<1>. DEFINE M == {n \in Nat : n <= BinStart + Bins =>
                      PowerOf2[n] \in Nat /\ (n >= 2 => PowerOf2[n] >= 4) /\ PowerOf2[n] >= 1
                      /\ (n >= 1 => PowerOf2[n] >= 2)}
<1>2. 0 \in M
  BY <1>1, PowerOf2Is
<1>3. ASSUME NEW n \in M PROVE n + 1 \in M
  <2>1. CASE n + 1 <= BinStart + Bins
    <3>1. PowerOf2[n + 1] = 2 * PowerOf2[n]
      BY <1>1, <2>1, PowerOf2Is
    <3>. QED BY <1>1, <2>1, <3>1
  <2>. QED BY <2>1
<1>4. M = Nat
  BY <1>2, <1>3, Induct
<1>5. \A n \in 2 .. BinStart + Bins : PowerOf2[n] \in Nat /\ PowerOf2[n] >= 4
  BY <1>1, <1>4
<1>. HIDE DEF M
<1>6. \A b \in 0 .. Bins : BinStart + b \in 2 .. BinStart + Bins
  BY <1>1
<1>. QED BY <1>1, <1>5, <1>6 DEF MinBinSize

(* Every size has one bin, whose objects are large enough.                 *)
LEMMA BinOfIs ==
  ASSUME NEW size \in Nat
  PROVE  /\ BinOf(size) \in 0 .. Bins
         /\ BinOf(size) \in 1 .. Bins => size >= MinBinSize(BinOf(size))
         /\ size >= MinBinSize(Bins) => BinOf(size) = BigBin
<1>1. Bins \in Nat /\ \A b \in 0 .. Bins : MinBinSize(b) \in Nat
  BY MinBinSizeIs
<1>2. CASE size >= MinBinSize(Bins)
  BY <1>1, <1>2 DEF BinOf, BigBin
<1>3. CASE ~(size >= MinBinSize(Bins)) /\ Bins = 0
  <2>1. size < MinBinSize(0) /\ BinOf(size) \in 0 .. Bins
    BY <1>1, <1>3 DEF BinOf
  <2>. QED BY <1>3, <2>1
<1>4. CASE ~(size >= MinBinSize(Bins)) /\ Bins # 0
  <2>. DEFINE S == {b \in 0 .. Bins - 1 : size < MinBinSize(b + 1)}
  <2>1. S \in SUBSET Nat /\ Bins - 1 \in S
    BY <1>1, <1>4
  <2>2. PICK b \in S : \A a \in S : b <= a
    BY <2>1, NaturalsAreLeast
  <2>3. /\ b \in 0 .. Bins - 1 /\ size < MinBinSize(b + 1)
        /\ \A a \in 0 .. b - 1 : size >= MinBinSize(a + 1)
    <3>1. b \in 0 .. Bins - 1 /\ size < MinBinSize(b + 1)
      BY <2>2
    <3>2. ASSUME NEW a \in 0 .. b - 1 PROVE size >= MinBinSize(a + 1)
      <4>1. a \in 0 .. Bins - 1 /\ a + 1 \in 0 .. Bins /\ ~(b <= a)
        BY <1>1, <3>1
      <4>. QED BY <1>1, <2>2, <4>1
    <3>. QED BY <3>1, <3>2
  <2>. DEFINE c == CHOOSE d \in 0 .. Bins - 1 :
                     /\ size < MinBinSize(d + 1)
                     /\ \A a \in 0 .. d - 1 : size >= MinBinSize(a + 1)
  <2>4. c \in 0 .. Bins - 1 /\ \A a \in 0 .. c - 1 : size >= MinBinSize(a + 1)
    BY <2>3
  <2>5. BinOf(size) = c
    BY <1>4 DEF BinOf
  <2>. HIDE DEF c
  <2>6. c \in 1 .. Bins => c - 1 \in 0 .. c - 1 /\ (c - 1) + 1 = c
    BY <1>1, <2>4
  <2>. QED BY <1>1, <1>4, <2>4, <2>5, <2>6
<1>. QED BY <1>2, <1>3, <1>4


-----------------------------------------------------------------------------
(* Memories and the objects in them                                        *)
Memories == [0 .. HeapSize - 1 -> Int]

EndOf(m, p) == p + m[p - 1]
Behind(m, p) == p + m[p - 1] + 2

(* The objects S tile the memory m.                                        *)
Tiles(m, S) ==
  /\ m \in Memories /\ S \in SUBSET (1 .. HeapSize - 1) /\ 1 \in S
  /\ \A p \in S :
       /\ m[p - 1] \in Nat /\ m[p - 1] >= MinBinSize(0)
       /\ m[EndOf(m, p)] \in {0, m[p - 1]}
       /\ Behind(m, p) \in S \cup {HeapSize + 1}
       /\ p = 1 \/ \E a \in S : Behind(m, a) = p
  /\ \A p, q \in S : p < q => Behind(m, p) <= q

FreeIn(m, S) == {p \in S : m[EndOf(m, p)] # 0}
HeldIn(m, S) == {p \in S : m[EndOf(m, p)] = 0}

LEMMA ObjectIs ==
  ASSUME NEW m, NEW S, Tiles(m, S), NEW p \in S
  PROVE  /\ p \in 1 .. HeapSize - 1 /\ m[p - 1] \in Nat /\ m[p - 1] >= 4
         /\ m[p - 1] >= MinBinSize(0) /\ MinBinSize(0) \in Nat /\ HeapSize \in Nat
         /\ EndOf(m, p) \in p + 4 .. HeapSize - 1 /\ Behind(m, p) = EndOf(m, p) + 2
         /\ Behind(m, p) \in Nat /\ m[EndOf(m, p)] \in {0, m[p - 1]}
         /\ Behind(m, p) \in S \cup {HeapSize + 1}
         /\ p = 1 \/ \E a \in S : Behind(m, a) = p
<1>1. HeapSize \in Nat /\ MinBinSize(0) \in Nat /\ MinBinSize(0) >= 4 /\ Bins \in Nat
  BY MinBinSizeIs
<1>2. /\ p \in 1 .. HeapSize - 1 /\ m[p - 1] \in Nat /\ m[p - 1] >= MinBinSize(0)
      /\ Behind(m, p) \in S \cup {HeapSize + 1} /\ S \in SUBSET (1 .. HeapSize - 1)
      /\ m[EndOf(m, p)] \in {0, m[p - 1]}
      /\ p = 1 \/ \E a \in S : Behind(m, a) = p
  BY DEF Tiles
<1>. DEFINE s == m[p - 1]
<1>3. EndOf(m, p) = p + s /\ Behind(m, p) = p + s + 2
  BY DEF EndOf, Behind
<1>4. s \in Nat /\ s >= 4
  BY <1>1, <1>2
<1>5. p + s + 2 \in 1 .. HeapSize + 1
  BY <1>1, <1>2, <1>3
<1>. HIDE DEF s
<1>6. p + s \in p + 4 .. HeapSize - 1 /\ p + s + 2 = (p + s) + 2 /\ p + s + 2 \in Nat
  BY <1>1, <1>2, <1>4, <1>5
<1>. QED BY <1>1, <1>2, <1>3, <1>4, <1>6 DEF s

(* The words of two objects are different words.                           *)
LEMMA ObjectsApart ==
  ASSUME NEW m, NEW S, Tiles(m, S), NEW p \in S, NEW q \in S, p # q
  PROVE  /\ EndOf(m, p) # EndOf(m, q) /\ EndOf(m, p) # q - 1
         /\ q \notin p .. EndOf(m, p) /\ q - 1 \notin p .. EndOf(m, p)
         /\ EndOf(m, q) \notin p .. EndOf(m, p) /\ EndOf(m, p) # q
         /\ \/ p < q /\ EndOf(m, p) + 2 <= q
            \/ q < p /\ EndOf(m, q) + 2 <= p
<1>. DEFINE e == EndOf(m, p)
            f == EndOf(m, q)
<1>1. p \in Int /\ e \in Int /\ p + 4 <= e /\ Behind(m, p) = e + 2
  BY ObjectIs
<1>2. q \in Int /\ f \in Int /\ q + 4 <= f /\ Behind(m, q) = f + 2
  BY ObjectIs
<1>3. p < q => e + 2 <= q
  BY <1>1 DEF Tiles
<1>4. q < p => f + 2 <= p
  BY <1>2 DEF Tiles
<1>. HIDE DEF e, f
<1>5. p < q \/ q < p
  BY <1>1, <1>2
<1>6. e # f /\ e # q - 1 /\ q \notin p .. e /\ q - 1 \notin p .. e /\ f \notin p .. e /\ e # q
      /\ \/ p < q /\ e + 2 <= q
         \/ q < p /\ f + 2 <= p
  <2>1. CASE p < q
    <3>1. e + 2 <= q
      BY <1>3, <2>1
    <3>. QED BY <1>1, <1>2, <2>1, <3>1
  <2>2. CASE q < p
    <3>1. f + 2 <= p
      BY <1>4, <2>2
    <3>. QED BY <1>1, <1>2, <2>2, <3>1
  <2>. QED BY <1>5, <2>1, <2>2
<1>. QED BY <1>6 DEF e, f

(* Each object of S has the same size and contents in n as in m.           *)
SameObjects(m, n, S) == \A q \in S : n[q - 1] = m[q - 1] /\ n[q] = m[q]

LEMMA SameObjectsTile ==
  ASSUME NEW m, NEW n \in Memories, NEW S, Tiles(m, S),
         \A q \in S : n[q - 1] = m[q - 1],
         \A q \in S : n[EndOf(m, q)] \in {0, m[q - 1]}
  PROVE  /\ Tiles(n, S)
         /\ \A q \in S : EndOf(n, q) = EndOf(m, q) /\ Behind(n, q) = Behind(m, q)
<1>1. \A q \in S : EndOf(n, q) = EndOf(m, q) /\ Behind(n, q) = Behind(m, q)
  BY DEF EndOf, Behind
<1>. QED BY <1>1 DEF Tiles

(* remove_memory_from_bin and add_freed_memory_to_bin write an end.        *)
Wrote(m, n, w, x) == n = [m EXCEPT ![w] = x]

LEMMA EndWritten ==
  ASSUME NEW m, NEW S, Tiles(m, S), NEW p \in S, NEW x \in {0, m[p - 1]},
         NEW n, Wrote(m, n, EndOf(m, p), x)
  PROVE  /\ Tiles(n, S) /\ SameObjects(m, n, S)
         /\ \A q \in S : EndOf(n, q) = EndOf(m, q) /\ Behind(n, q) = Behind(m, q)
         /\ n[EndOf(m, p)] = x
         /\ \A q \in S \ {p} : n[EndOf(m, q)] = m[EndOf(m, q)]
<1>. DEFINE e == EndOf(m, p)
<1>1. m \in Memories /\ m[p - 1] \in Int /\ x \in Int
  BY ObjectIs DEF Tiles
<1>2. e \in 0 .. HeapSize - 1
  <2>1. p \in Int /\ p >= 1 /\ HeapSize \in Int /\ e \in p + 4 .. HeapSize - 1
    BY ObjectIs
  <2>. HIDE DEF e
  <2>. QED BY <2>1
<1>3. n \in Memories
  BY <1>1, <1>2 DEF Memories, Wrote
<1>4. n[e] = x
  BY <1>1, <1>2 DEF Memories, Wrote
<1>5. ASSUME NEW w \in 0 .. HeapSize - 1, w # e PROVE n[w] = m[w]
  BY <1>1, <1>5 DEF Memories, Wrote
<1>6. ASSUME NEW q \in S PROVE n[q - 1] = m[q - 1] /\ n[q] = m[q]
  <2>1. q \in 1 .. HeapSize - 1 /\ HeapSize \in Nat
    BY ObjectIs
  <2>2. q - 1 # e /\ q # e
    <3>1. CASE q = p
      <4>1. p \in Int /\ e \in p + 4 .. HeapSize - 1 /\ HeapSize \in Int
        BY ObjectIs
      <4>. HIDE DEF e
      <4>. QED BY <3>1, <4>1
    <3>2. CASE q # p
      BY <3>2, ObjectsApart
    <3>. QED BY <3>1, <3>2
  <2>3. q - 1 \in 0 .. HeapSize - 1 /\ q \in 0 .. HeapSize - 1
    BY <2>1
  <2>. HIDE DEF e
  <2>. QED BY <1>5, <2>2, <2>3
<1>7. ASSUME NEW q \in S, q # p PROVE n[EndOf(m, q)] = m[EndOf(m, q)]
  <2>. DEFINE f == EndOf(m, q)
  <2>1. f # e
    BY <1>7, ObjectsApart
  <2>2. f \in 0 .. HeapSize - 1
    <3>1. q \in Int /\ q >= 1 /\ HeapSize \in Int /\ f \in q + 4 .. HeapSize - 1
      BY ObjectIs
    <3>. HIDE DEF f
    <3>. QED BY <3>1
  <2>. HIDE DEF f, e
  <2>3. n[f] = m[f]
    BY <1>5, <2>1, <2>2
  <2>. QED BY <2>3 DEF f
<1>8. \A q \in S : n[EndOf(m, q)] \in {0, m[q - 1]}
  <2>. TAKE q \in S
  <2>1. CASE q = p
    BY <1>4, <2>1
  <2>2. CASE q # p
    BY <1>7, <2>2, ObjectIs
  <2>. QED BY <2>1, <2>2
<1>9. Tiles(n, S) /\ \A q \in S : EndOf(n, q) = EndOf(m, q) /\ Behind(n, q) = Behind(m, q)
  BY <1>3, <1>6, <1>8, SameObjectsTile
<1>10. SameObjects(m, n, S)
  BY <1>6 DEF SameObjects
<1>. QED BY <1>4, <1>7, <1>9, <1>10


(* Writing within an object leaves the others and all sizes.               *)
LEMMA InteriorWritten ==
  ASSUME NEW m, NEW S, Tiles(m, S), NEW p \in S, NEW n \in Memories,
         \A w \in 0 .. HeapSize - 1 : w \notin p .. EndOf(m, p) - 1 => n[w] = m[w]
  PROVE  /\ Tiles(n, S)
         /\ \A q \in S : n[q - 1] = m[q - 1] /\ EndOf(n, q) = EndOf(m, q)
                         /\ n[EndOf(m, q)] = m[EndOf(m, q)]
         /\ \A q \in S \ {p} : n[q] = m[q]
<1>1. ASSUME NEW q \in S
      PROVE  /\ q \in 1 .. HeapSize - 1 /\ q - 1 \in 0 .. HeapSize - 1
             /\ EndOf(m, q) \in 0 .. HeapSize - 1 /\ EndOf(m, q) \in q + 4 .. HeapSize - 1
  <2>. DEFINE e == EndOf(m, q)
  <2>1. q \in 1 .. HeapSize - 1 /\ HeapSize \in Nat /\ e \in q + 4 .. HeapSize - 1
    BY ObjectIs
  <2>. HIDE DEF e
  <2>2. q - 1 \in 0 .. HeapSize - 1 /\ e \in 0 .. HeapSize - 1
    BY <2>1
  <2>. QED BY <2>1, <2>2 DEF e
<1>2. ASSUME NEW q \in S PROVE n[q - 1] = m[q - 1] /\ n[EndOf(m, q)] = m[EndOf(m, q)]
  <2>. DEFINE e == EndOf(m, p)
              f == EndOf(m, q)
  <2>1. e \in Int /\ f \in Int /\ q \in Int /\ p \in Int
    BY <1>1
  <2>2. q - 1 \notin p .. e - 1 /\ f \notin p .. e - 1
    <3>1. CASE q = p
      BY <2>1, <3>1
    <3>2. CASE q # p
      <4>1. q - 1 \notin p .. e /\ f \notin p .. e
        BY <3>2, ObjectsApart
      <4>. HIDE DEF e, f
      <4>. QED BY <2>1, <4>1
    <3>. QED BY <3>1, <3>2
  <2>. QED BY <1>1, <2>2
<1>3. ASSUME NEW q \in S, q # p PROVE n[q] = m[q]
  <2>. DEFINE e == EndOf(m, p)
  <2>1. q \notin p .. e /\ e \in Int /\ p \in Int /\ q \in Int /\ q \in 0 .. HeapSize - 1
    <3>1. q \notin p .. e
      BY <1>3, ObjectsApart
    <3>2. HeapSize \in Nat
      BY ObjectIs
    <3>. QED BY <1>1, <3>1, <3>2
  <2>2. q \notin p .. e - 1
    <3>. HIDE DEF e
    <3>. QED BY <2>1
  <2>. QED BY <2>1, <2>2
<1>4. \A q \in S : n[EndOf(m, q)] \in {0, m[q - 1]}
  BY <1>2, ObjectIs
<1>5. Tiles(n, S) /\ \A q \in S : EndOf(n, q) = EndOf(m, q)
  BY <1>2, <1>4, SameObjectsTile
<1>. QED BY <1>2, <1>3, <1>5

(* What a split or a join leaves of the other objects.                     *)
OthersSame(m, n, S, p) ==
  /\ \A q \in S : n[q] = m[q]
  /\ \A q \in S \ {p} : /\ n[q - 1] = m[q - 1] /\ EndOf(n, q) = EndOf(m, q)
                        /\ Behind(n, q) = Behind(m, q) /\ n[EndOf(n, q)] = m[EndOf(m, q)]

(* shrink_object splits an object in use in two.                           *)
SplitAt(m, n, p, size) ==
  n = [m EXCEPT ![p - 1] = size, ![p + size] = 0, ![p + size + 1] = m[p - 1] - size - 2]

Splitting(m, S, p, size, n, q) ==
  /\ Tiles(m, S) /\ p \in S /\ m[EndOf(m, p)] = 0 /\ size \in Nat /\ size >= MinBinSize(0)
  /\ m[p - 1] - size - 2 >= MinBinSize(0) /\ SplitAt(m, n, p, size) /\ q = p + size + 2

SplitIn(m, S, p, size, n, q) ==
  /\ Tiles(n, S \cup {q}) /\ q \notin S /\ OthersSame(m, n, S, p)
  /\ n[p - 1] = size /\ n[EndOf(n, p)] = 0 /\ n[EndOf(n, q)] = 0
  /\ Behind(n, p) = q /\ Behind(n, q) = Behind(m, p)

LEMMA SplitTiles ==
  ASSUME NEW m, NEW S, NEW p, NEW size, NEW n, NEW q, Splitting(m, S, p, size, n, q)
  PROVE  SplitIn(m, S, p, size, n, q)
<1>. DEFINE s == m[p - 1]
            rest == s - size - 2
            e == EndOf(m, p)
            H == HeapSize - 1
            i == p - 1
            j == p + size
            k == p + size + 1
<1>0. /\ Tiles(m, S) /\ p \in S /\ size \in Nat /\ m[EndOf(m, p)] = 0 /\ size >= MinBinSize(0)
      /\ m[p - 1] - size - 2 >= MinBinSize(0) /\ SplitAt(m, n, p, size) /\ q = p + size + 2
  BY DEF Splitting
<1>. USE <1>0
<1>1. /\ p \in 1 .. H /\ s \in Nat /\ MinBinSize(0) \in Nat /\ MinBinSize(0) >= 4
      /\ H \in Int /\ e = p + s /\ e \in p + 4 .. H /\ Behind(m, p) = e + 2
      /\ m[e] = 0 /\ m \in [0 .. H -> Int]
  <2>1. p \in 1 .. H /\ s \in Nat /\ e \in p + 4 .. H /\ Behind(m, p) = e + 2
    BY ObjectIs
  <2>2. MinBinSize(0) \in Nat /\ MinBinSize(0) >= 4 /\ H \in Int
    BY MinBinSizeIs
  <2>3. e = p + s /\ m \in [0 .. H -> Int]
    BY DEF EndOf, Tiles, Memories
  <2>. QED BY <2>1, <2>2, <2>3
<1>2. /\ rest \in Nat /\ rest >= 4 /\ s = size + rest + 2 /\ size >= 4 /\ e = q + rest
      /\ rest >= MinBinSize(0)
  BY <1>1
<1>. HIDE DEF s, e, H
<1>3. /\ i \in 0 .. H /\ j \in 0 .. H /\ k \in 0 .. H /\ e \in 0 .. H
      /\ q - 1 = k /\ q \in 1 .. H /\ i = p - 1 /\ j = p + size /\ k = p + size + 1
      /\ i # j /\ i # k /\ j # k
  <2>1. /\ p \in 1 .. H /\ H \in Int /\ size \in Int /\ rest \in Int /\ e \in p + 4 .. H
        /\ rest >= 4 /\ size >= 4 /\ e = q + rest /\ q = p + size + 2
    BY <1>1, <1>2
  <2>2. i = p - 1 /\ j = p + size /\ k = p + size + 1
    OBVIOUS
  <2>. HIDE DEF i, j, k, rest
  <2>. QED BY ONLY <2>1, <2>2
<1>4. /\ n \in [0 .. H -> Int]
      /\ n[i] = size /\ n[j] = 0 /\ n[k] = rest
      /\ \A w \in 0 .. H : w # i /\ w # j /\ w # k => n[w] = m[w]
  <2>1. rest \in Int /\ size \in Int
    BY <1>2
  <2>2. n = [m EXCEPT ![i] = size, ![j] = 0, ![k] = rest]
    BY DEF SplitAt, s
  <2>. HIDE DEF i, j, k, rest
  <2>. QED BY <1>1, <1>3, <2>1, <2>2
<1>. HIDE DEF i, j, k
<1>5. n[e] = 0
  BY <1>1, <1>2, <1>3, <1>4
<1>6. ASSUME NEW r \in S, r # p
      PROVE  /\ n[r] = m[r] /\ n[r - 1] = m[r - 1] /\ EndOf(n, r) = EndOf(m, r)
             /\ Behind(n, r) = Behind(m, r) /\ n[EndOf(n, r)] = m[EndOf(m, r)] /\ r # q
  <2>. DEFINE f == EndOf(m, r)
  <2>1. r \in 1 .. H /\ f \in r + 4 .. H
    BY ObjectIs DEF H
  <2>2. (r < p /\ f + 2 <= p) \/ (p < r /\ e + 2 <= r)
    <3>1. (r < p /\ f + 2 <= p) \/ (p < r /\ EndOf(m, p) + 2 <= r)
      BY <1>6, ObjectsApart
    <3>. QED BY <3>1 DEF e
  <2>. HIDE DEF f
  <2>3. r \in 0 .. H /\ r - 1 \in 0 .. H /\ f \in 0 .. H
    BY <1>1, <2>1
  <2>6. /\ p \in Int /\ e \in Int /\ r \in Int /\ f \in Int /\ size \in Int /\ f >= r + 4 /\ size >= 4
        /\ i = p - 1 /\ j = p + size /\ k = j + 1 /\ q = j + 2 /\ e >= q + 4
    BY <1>1, <1>2, <1>3, <2>1
  <2>4. /\ r # q /\ r # i /\ r # j /\ r # k /\ r - 1 # i /\ r - 1 # j /\ r - 1 # k
        /\ f # i /\ f # j /\ f # k
    BY ONLY <2>2, <2>6
  <2>5. n[r] = m[r] /\ n[r - 1] = m[r - 1] /\ n[f] = m[f]
    BY <1>4, <2>3, <2>4
  <2>. QED BY <2>4, <2>5 DEF EndOf, Behind, f
<1>7. n[p] = m[p]
  <2>1. p \in 0 .. H /\ p # i /\ p # j /\ p # k
    BY <1>1, <1>2, <1>3
  <2>. QED BY <1>4, <2>1
<1>8. EndOf(n, p) = p + size /\ Behind(n, p) = q /\ EndOf(n, q) = e /\ Behind(n, q) = e + 2
  <2>1. n[p - 1] = size /\ n[q - 1] = rest
    BY <1>3, <1>4
  <2>2. EndOf(n, p) = p + size /\ Behind(n, p) = q
    BY <2>1 DEF EndOf, Behind
  <2>3. EndOf(n, q) = q + rest /\ Behind(n, q) = (q + rest) + 2
    BY <2>1 DEF EndOf, Behind
  <2>. QED BY <1>2, <2>2, <2>3
<1>9. q \notin S
  <2>1. q # p
    BY <1>1, <1>2
  <2>. QED BY <1>6, <2>1
<1>10. S \cup {q} \in SUBSET (1 .. H) /\ 1 \in S
  BY <1>3 DEF Tiles, H
<1>. DEFINE T == S \cup {q}
<1>11. ASSUME NEW r \in T
       PROVE  /\ n[r - 1] \in Nat /\ n[r - 1] >= MinBinSize(0)
              /\ n[EndOf(n, r)] \in {0, n[r - 1]}
              /\ Behind(n, r) \in T \cup {HeapSize + 1}
              /\ r = 1 \/ \E a \in T : Behind(n, a) = r
  <2>1. e + 2 \in S \cup {HeapSize + 1}
    BY <1>1, ObjectIs DEF e
  <2>2. CASE r = q
    <3>1. \E a \in T : Behind(n, a) = r
      BY <1>8, <2>2
    <3>2. n[r - 1] = rest /\ n[EndOf(n, r)] = 0 /\ Behind(n, r) \in T \cup {HeapSize + 1}
      BY <1>3, <1>4, <1>5, <1>8, <2>1, <2>2
    <3>. QED BY <1>2, <3>1, <3>2
  <2>3. ASSUME r \in S PROVE r = 1 \/ \E a \in T : Behind(n, a) = r
    <3>1. CASE r # 1
      <4>1. PICK a \in S : Behind(m, a) = r
        BY <2>3, <3>1, ObjectIs
      <4>2. CASE a = p
        BY <1>1, <1>8, <4>1, <4>2
      <4>3. CASE a # p
        BY <1>6, <4>1, <4>3
      <4>. QED BY <4>2, <4>3
    <3>. QED BY <3>1
  <2>4. CASE r = p
    <3>1. n[r - 1] = size /\ n[EndOf(n, r)] = 0 /\ Behind(n, r) = q
      BY <1>3, <1>4, <1>8, <2>4
    <3>. QED BY <2>3, <2>4, <3>1
  <2>5. CASE r # p /\ r \in S
    BY <1>6, <2>3, <2>5, ObjectIs
  <2>. QED BY <2>2, <2>4, <2>5
<1>12. ASSUME NEW r \in T, NEW t \in T, r < t PROVE Behind(n, r) <= t
  <2>1. \A x \in S : x \in Int
    BY DEF Tiles
  <2>2. CASE r \in S /\ r # p /\ t \in S
    BY <1>6, <1>12, <2>2 DEF Tiles
  <2>3. CASE r = p /\ t = q
    BY <1>2, <1>8, <2>3
  <2>4. CASE r = p /\ t \in S /\ t # p
    <3>1. e + 2 <= t
      BY <1>1, <1>12, <2>4 DEF Tiles
    <3>. QED BY <1>1, <1>2, <1>8, <2>1, <2>4, <3>1
  <2>5. CASE r \in S /\ r # p /\ t = q
    <3>1. CASE r < p
      <4>1. Behind(m, r) <= p
        BY <2>5, <3>1 DEF Tiles
      <4>2. Behind(m, r) \in Int
        BY <2>5, ObjectIs
      <4>. QED BY <1>1, <1>2, <1>6, <2>5, <4>1, <4>2
    <3>2. CASE p < r
      <4>1. e + 2 <= r
        BY <1>1, <2>5, <3>2 DEF Tiles
      <4>. QED BY <1>1, <1>2, <1>12, <2>1, <2>5, <4>1
    <3>. QED BY <1>1, <2>1, <2>5, <3>1, <3>2
  <2>6. CASE r = q /\ t \in S
    <3>1. p < t /\ t # p
      BY <1>1, <1>2, <1>12, <2>1, <2>6
    <3>2. e + 2 <= t
      BY <1>1, <2>6, <3>1 DEF Tiles
    <3>. QED BY <1>8, <2>6, <3>2
  <2>7. ~(r = q /\ t = q) /\ ~(r = p /\ t = p)
    <3>1. p \in Int /\ q \in Int
      BY <1>1, <1>3
    <3>. QED BY ONLY <1>12, <3>1
  <2>. QED BY <2>2, <2>3, <2>4, <2>5, <2>6, <2>7
<1>13. Tiles(n, T)
  <2>1. n \in Memories /\ T \in SUBSET (1 .. HeapSize - 1) /\ 1 \in T
    BY <1>4, <1>10 DEF Memories, H
  <2>. HIDE DEF T
  <2>. QED BY <2>1, <1>11, <1>12 DEF Tiles
<1>14. OthersSame(m, n, S, p)
  BY <1>6, <1>7 DEF OthersSame
<1>15. n[p - 1] = size /\ n[EndOf(n, p)] = 0 /\ n[EndOf(n, q)] = 0
  BY <1>3, <1>4, <1>5, <1>8
<1>16. Behind(n, p) = q /\ Behind(n, q) = Behind(m, p)
  BY <1>1, <1>8
<1>. QED BY <1>9, <1>13, <1>14, <1>15, <1>16 DEF T, SplitIn


(* merge_fwd and merge_bwd join an object a and the one behind it, b.      *)
JoinedAt(m, n, a, b) ==
  n = [m EXCEPT ![a - 1] = m[a - 1] + m[b - 1] + 2, ![a + (m[a - 1] + m[b - 1] + 2)] = 0]

LEMMA JoinTiles ==
  ASSUME NEW m, NEW S, Tiles(m, S), NEW a \in S, NEW b \in S, Behind(m, a) = b,
         NEW n, JoinedAt(m, n, a, b)
  PROVE  /\ a # b /\ Tiles(n, S \ {b}) /\ OthersSame(m, n, S \ {b}, a)
         /\ n[a - 1] = m[a - 1] + m[b - 1] + 2 /\ n[EndOf(n, a)] = 0
         /\ EndOf(n, a) = EndOf(m, b) /\ Behind(n, a) = Behind(m, b)
         /\ \A w \in 0 .. HeapSize - 1 : w # a - 1 /\ w # EndOf(m, b) => n[w] = m[w]
<1>. DEFINE s == m[a - 1]
            t == m[b - 1]
            size == s + t + 2
            d == EndOf(m, a)
            e == EndOf(m, b)
            H == HeapSize - 1
            i == a - 1
            j == a + size
<1>1. /\ a \in 1 .. H /\ s \in Nat /\ H \in Int /\ b \in 1 .. H /\ t \in Nat
      /\ d = a + s /\ b = a + s + 2 /\ e = b + t /\ e \in b + 4 .. H
      /\ m \in [0 .. H -> Int]
  <2>1. a \in 1 .. H /\ s \in Nat /\ b \in 1 .. H /\ t \in Nat /\ e \in b + 4 .. H
    BY ObjectIs
  <2>2. H \in Int
    BY MinBinSizeIs
  <2>3. d = a + s /\ b = a + s + 2 /\ e = b + t /\ m \in [0 .. H -> Int]
    BY DEF EndOf, Behind, Tiles, Memories
  <2>. QED BY <2>1, <2>2, <2>3
<1>. HIDE DEF s, t, d, e, H
<1>2. /\ size \in Nat /\ i \in 0 .. H /\ j \in 0 .. H /\ i # j /\ j = e /\ i = a - 1 /\ a < b
      /\ e = a + size /\ b = d + 2
  BY <1>1
<1>3. /\ n \in [0 .. H -> Int] /\ n[i] = size /\ n[j] = 0
      /\ \A w \in 0 .. H : w # i /\ w # j => n[w] = m[w]
  <2>1. n = [m EXCEPT ![i] = size, ![j] = 0] /\ size \in Int
    BY <1>2 DEF JoinedAt, s, t
  <2>2. m \in [0 .. H -> Int] /\ i \in 0 .. H /\ j \in 0 .. H /\ i # j
    BY <1>1, <1>2
  <2>. HIDE DEF i, j, size
  <2>. QED BY ONLY <2>1, <2>2
<1>. HIDE DEF i, j, size
<1>4. EndOf(n, a) = e /\ Behind(n, a) = e + 2 /\ Behind(m, b) = e + 2
  <2>1. n[a - 1] = size
    BY <1>2, <1>3
  <2>2. EndOf(n, a) = a + size /\ Behind(n, a) = (a + size) + 2
    BY <1>1, <1>2, <2>1 DEF EndOf, Behind
  <2>3. Behind(m, b) = e + 2
    BY ObjectIs DEF e
  <2>. QED BY <1>2, <2>2, <2>3
<1>5. ASSUME NEW r \in S, r # a, r # b
      PROVE  /\ n[r] = m[r] /\ n[r - 1] = m[r - 1] /\ EndOf(n, r) = EndOf(m, r)
             /\ Behind(n, r) = Behind(m, r) /\ n[EndOf(n, r)] = m[EndOf(m, r)]
  <2>. DEFINE f == EndOf(m, r)
  <2>1. r \in 1 .. H /\ f \in r + 4 .. H
    BY ObjectIs DEF H
  <2>2. (r < a /\ f + 2 <= a) \/ (a < r /\ d + 2 <= r)
    <3>1. (r < a /\ f + 2 <= a) \/ (a < r /\ EndOf(m, a) + 2 <= r)
      BY <1>5, ObjectsApart
    <3>. QED BY <3>1 DEF d
  <2>3. (r < b /\ f + 2 <= b) \/ (b < r /\ e + 2 <= r)
    <3>1. (r < b /\ f + 2 <= b) \/ (b < r /\ EndOf(m, b) + 2 <= r)
      BY <1>5, ObjectsApart
    <3>. QED BY <3>1 DEF e
  <2>. HIDE DEF f
  <2>4. r \in 0 .. H /\ r - 1 \in 0 .. H /\ f \in 0 .. H
    BY <1>1, <2>1
  <2>5. /\ r # i /\ r # j /\ r - 1 # i /\ r - 1 # j /\ f # i /\ f # j
    BY <1>1, <1>2, <1>5, <2>1, <2>2, <2>3
  <2>6. n[r] = m[r] /\ n[r - 1] = m[r - 1] /\ n[f] = m[f]
    BY <1>3, <2>4, <2>5
  <2>. QED BY <2>6 DEF EndOf, Behind, f
<1>6. n[a] = m[a]
  <2>1. a \in 0 .. H /\ a # i /\ a # j
    BY <1>1, <1>2
  <2>. QED BY <1>3, <2>1
<1>7. n[a - 1] = size /\ n[EndOf(n, a)] = 0
  BY <1>2, <1>3, <1>4
<1>. DEFINE T == S \ {b}
<1>8. T \in SUBSET (1 .. HeapSize - 1) /\ 1 \in T /\ a \in T /\ n \in Memories
  <2>1. S \in SUBSET (1 .. HeapSize - 1) /\ 1 \in S
    BY DEF Tiles
  <2>2. a # b /\ b # 1
    BY <1>1, <1>2
  <2>. QED BY <1>3, <2>1, <2>2 DEF Memories, H
<1>9. ASSUME NEW r \in T
      PROVE  /\ n[r - 1] \in Nat /\ n[r - 1] >= MinBinSize(0)
             /\ n[EndOf(n, r)] \in {0, n[r - 1]}
             /\ Behind(n, r) \in T \cup {HeapSize + 1}
             /\ r = 1 \/ \E c \in T : Behind(n, c) = r
  <2>1. r = 1 \/ \E c \in T : Behind(n, c) = r
    <3>1. CASE r # 1
      <4>1. PICK c \in S : Behind(m, c) = r
        BY <3>1, ObjectIs
      <4>2. CASE c = b
        BY <1>4, <1>8, <4>1, <4>2
      <4>3. CASE c # b
        <5>1. c # a
          BY <4>1
        <5>. QED BY <1>5, <4>1, <4>3, <5>1
      <4>. QED BY <4>2, <4>3
    <3>. QED BY <3>1
  <2>2. CASE r = a
    <3>1. n[r - 1] = size /\ n[EndOf(n, r)] = 0 /\ Behind(n, r) = Behind(m, b)
      BY <1>4, <1>7, <2>2
    <3>2. Behind(m, b) \in S \cup {HeapSize + 1} /\ Behind(m, b) # b
      <4>1. Behind(m, b) \in S \cup {HeapSize + 1}
        BY ObjectIs
      <4>. QED BY <1>1, <1>4, <4>1
    <3>3. size >= MinBinSize(0)
      <4>1. s >= MinBinSize(0) /\ MinBinSize(0) \in Nat
        BY ObjectIs DEF s
      <4>. QED BY <1>1, <4>1 DEF size
    <3>. QED BY <1>2, <2>1, <3>1, <3>2, <3>3
  <2>3. CASE r # a
    <3>1. Behind(m, r) # b
      <4>1. ASSUME Behind(m, r) = b PROVE FALSE
        <5>1. Behind(m, r) = EndOf(m, r) + 2 /\ Behind(m, a) = EndOf(m, a) + 2
              /\ EndOf(m, r) \in Int /\ EndOf(m, a) \in Int
          BY ObjectIs
        <5>2. EndOf(m, r) # EndOf(m, a)
          BY <2>3, ObjectsApart
        <5>. QED BY <4>1, <5>1, <5>2
      <4>. QED BY <4>1
    <3>2. /\ m[r - 1] \in Nat /\ m[r - 1] >= MinBinSize(0) /\ m[EndOf(m, r)] \in {0, m[r - 1]}
          /\ Behind(m, r) \in S \cup {HeapSize + 1}
      BY ObjectIs
    <3>3. n[r - 1] = m[r - 1] /\ n[EndOf(n, r)] = m[EndOf(m, r)] /\ Behind(n, r) = Behind(m, r)
      BY <1>5, <2>3
    <3>. QED BY <2>1, <3>1, <3>2, <3>3
  <2>. QED BY <2>2, <2>3
<1>10. ASSUME NEW r \in T, NEW u \in T, r < u PROVE Behind(n, r) <= u
  <2>1. CASE r # a
    BY <1>5, <1>10, <2>1 DEF Tiles
  <2>2. CASE r = a
    <3>1. u \in S /\ u # b /\ a < u
      BY <1>10, <2>2
    <3>2. b <= u
      BY <3>1 DEF Tiles
    <3>3. b < u
      BY <1>1, <1>8, <3>1, <3>2
    <3>4. Behind(m, b) <= u
      BY <3>1, <3>3 DEF Tiles
    <3>. QED BY <1>4, <2>2, <3>4
  <2>. QED BY <2>1, <2>2
<1>11. Tiles(n, T)
  <2>. HIDE DEF T
  <2>. QED BY <1>8, <1>9, <1>10 DEF Tiles
<1>12. OthersSame(m, n, T, a)
  BY <1>5, <1>6 DEF OthersSame
<1>13. \A w \in 0 .. HeapSize - 1 : w # a - 1 /\ w # e => n[w] = m[w]
  BY <1>2, <1>3 DEF H
<1>14. a # b
  BY <1>1, <1>2
<1>. QED BY <1>2, <1>4, <1>7, <1>8, <1>11, <1>12, <1>13, <1>14 DEF size, T, s, t, e


-----------------------------------------------------------------------------
(* Walks over the heap: a function that is defined from the end.           *)
IsDefined(N, T, b, next, G) ==
  \E f \in [1 .. N -> T] :
    \A p \in 1 .. N : f[p] = IF p = N THEN b ELSE G[<<p, f[next[p]]>>]

LEMMA DefinedFromEnd ==
  ASSUME NEW N \in Nat \ {0}, NEW T, NEW b \in T,
         NEW next \in [1 .. N - 1 -> 1 .. N], \A p \in 1 .. N - 1 : next[p] > p,
         NEW G \in [(1 .. N - 1) \X T -> T]
  PROVE  IsDefined(N, T, b, next, G)
<1>. DEFINE Solves(f, k) ==
              /\ f \in [1 .. N -> T]
              /\ \A p \in 1 .. N : p >= N - k =>
                   f[p] = IF p = N THEN b ELSE G[<<p, f[next[p]]>>]
            M == {k \in Nat : \E f : Solves(f, k)}
<1>1. 0 \in M
  <2>1. Solves([p \in 1 .. N |-> b], 0)
    OBVIOUS
  <2>. QED BY <2>1
<1>2. ASSUME NEW k \in M PROVE k + 1 \in M
  <2>1. PICK f : Solves(f, k)
    OBVIOUS
  <2>. DEFINE q == N - (k + 1)
              x == G[<<q, f[next[q]]>>]
              g == [f EXCEPT ![q] = x]
  <2>2. CASE q \in 1 .. N - 1
    <3>1. next[q] \in 1 .. N /\ next[q] > q /\ f[next[q]] \in T
      BY <2>1, <2>2
    <3>2. x \in T
      BY <2>2, <3>1
    <3>3. q \in 1 .. N /\ q # N
      BY <2>2
    <3>. HIDE DEF x
    <3>4. g \in [1 .. N -> T] /\ g[q] = x /\ \A p \in 1 .. N : p # q => g[p] = f[p]
      BY <2>1, <3>2, <3>3
    <3>. HIDE DEF g
    <3>5. ASSUME NEW p \in 1 .. N, p >= N - (k + 1)
          PROVE  g[p] = IF p = N THEN b ELSE G[<<p, g[next[p]]>>]
      <4>1. CASE p = q
        <5>1. g[next[q]] = f[next[q]]
          BY <3>1, <3>4
        <5>. QED BY <3>3, <3>4, <4>1, <5>1 DEF x
      <4>2. CASE p # q /\ p # N
        <5>1. p \in 1 .. N - 1 /\ p >= N - k /\ p > q
          BY <3>5, <4>2
        <5>2. next[p] \in 1 .. N /\ next[p] # q
          BY <3>3, <5>1
        <5>. QED BY <2>1, <3>4, <4>2, <5>1, <5>2
      <4>3. CASE p = N
        <5>1. N \in 1 .. N /\ N >= N - k /\ N # q
          BY <3>3
        <5>. QED BY <2>1, <3>4, <4>3, <5>1
      <4>. QED BY <4>1, <4>2, <4>3
    <3>6. Solves(g, k + 1)
      BY <3>4, <3>5
    <3>. HIDE DEF Solves
    <3>7. (\E e : Solves(e, k + 1)) /\ k + 1 \in Nat
      BY <3>6
    <3>. QED BY <3>7
  <2>3. CASE q \notin 1 .. N - 1
    <3>1. Solves(f, k + 1)
      <4>1. ASSUME NEW p \in 1 .. N, p >= N - (k + 1) PROVE p >= N - k
        BY <2>3, <4>1
      <4>. QED BY <2>1, <4>1
    <3>. HIDE DEF Solves
    <3>2. (\E e : Solves(e, k + 1)) /\ k + 1 \in Nat
      BY <3>1
    <3>. QED BY <3>2
  <2>. QED BY <2>2, <2>3
<1>3. M = Nat
  BY <1>1, <1>2, Induct
<1>4. N \in M
  BY <1>3
<1>5. PICK f : Solves(f, N)
  BY <1>4
<1>. QED BY <1>5 DEF IsDefined

(* A set of numbers up to N that holds N and goes down is all of them.     *)
LEMMA DownFromEnd ==
  ASSUME NEW N \in Nat \ {0}, NEW A \in SUBSET (1 .. N), N \in A,
         \A p \in 1 .. N - 1 : (\A q \in p + 1 .. N : q \in A) => p \in A
  PROVE  A = 1 .. N
<1>. DEFINE M == {k \in Nat : \A p \in 1 .. N : p >= N - k => p \in A}
<1>1. 0 \in M
  OBVIOUS
<1>2. ASSUME NEW k \in M PROVE k + 1 \in M
  <2>1. ASSUME NEW p \in 1 .. N, p >= N - (k + 1) PROVE p \in A
    <3>1. CASE p >= N - k
      BY <3>1
    <3>2. CASE ~(p >= N - k)
      <4>1. p \in 1 .. N - 1 /\ \A q \in p + 1 .. N : q >= N - k /\ q \in 1 .. N
        BY <2>1, <3>2
      <4>. QED BY <4>1
    <3>. QED BY <3>1, <3>2
  <2>. QED BY <2>1
<1>3. M = Nat
  BY <1>1, <1>2, Induct
<1>4. N \in M
  BY <1>3
<1>5. \A p \in 1 .. N : p >= N - N
  OBVIOUS
<1>6. \A p \in 1 .. N : p \in A
  BY <1>4, <1>5
<1>. QED BY <1>6

LEMMA OnwardIs ==
  ASSUME NEW h, NEW S, Tiles(h.mem, S)
  PROVE  /\ HeapSize \in Nat \ {0}
         /\ \A p \in 1 .. HeapSize - 1 : Onward(h, p) \in p + 1 .. HeapSize
         /\ \A p \in S : /\ p \in 1 .. HeapSize - 1
                         /\ Onward(h, p) \in S \cup {HeapSize}
                         /\ \A q \in S : q >= p <=> q = p \/ q >= Onward(h, p)
<1>1. HeapSize \in Nat /\ HeapSize >= 6
  BY MinBinSizeIs
<1>2. ASSUME NEW p \in 1 .. HeapSize - 1 PROVE Onward(h, p) \in p + 1 .. HeapSize
  BY <1>1 DEF Onward
<1>3. ASSUME NEW p \in S
      PROVE  /\ p \in 1 .. HeapSize - 1 /\ Onward(h, p) \in S \cup {HeapSize}
             /\ \A q \in S : q >= p <=> q = p \/ q >= Onward(h, p)
  <2>. DEFINE b == Behind(h.mem, p)
  <2>1. NextObject(h, p) = b
    BY DEF NextObject, End, Size, Behind
  <2>2. /\ p \in 1 .. HeapSize - 1 /\ b \in S \cup {HeapSize + 1} /\ b > p
    <3>1. p \in 1 .. HeapSize - 1 /\ b \in S \cup {HeapSize + 1} /\ b = EndOf(h.mem, p) + 2
          /\ EndOf(h.mem, p) \in p + 4 .. HeapSize - 1
      BY ObjectIs
    <3>. HIDE DEF b
    <3>. QED BY <1>1, <3>1
  <2>3. S \in SUBSET (1 .. HeapSize - 1) /\ \A q \in S : p < q => b <= q
    BY DEF Tiles
  <2>. HIDE DEF b
  <2>4. CASE b \in S
    <3>1. Onward(h, p) = b
      BY <1>1, <2>1, <2>2, <2>3, <2>4 DEF Onward
    <3>. QED BY <1>1, <2>2, <2>3, <2>4, <3>1
  <2>5. CASE b = HeapSize + 1
    <3>1. Onward(h, p) = HeapSize
      BY <1>1, <2>1, <2>5 DEF Onward
    <3>. QED BY <1>1, <2>2, <2>3, <2>5, <3>1
  <2>. QED BY <2>2, <2>4, <2>5
<1>. QED BY <1>1, <1>2, <1>3

(* The walk finds the objects that tile the heap.                          *)
LEMMA ObjectsAre ==
  ASSUME NEW h, NEW S, Tiles(h.mem, S) PROVE Objects(h) = S
<1>. DEFINE N == HeapSize
            T == SUBSET (1 .. HeapSize)
            next == [p \in 1 .. N - 1 |-> Onward(h, p)]
            G == [x \in (1 .. N - 1) \X T |-> {x[1]} \cup x[2]]
            Eq(f) == f = [p \in 1 .. HeapSize |-> IF p = HeapSize THEN {} ELSE {p} \cup f[Onward(h, p)]]
<1>1. N \in Nat \ {0} /\ \A p \in 1 .. N - 1 : Onward(h, p) \in p + 1 .. N
  BY OnwardIs
<1>2. \E f : Eq(f)
  <2>1. next \in [1 .. N - 1 -> 1 .. N] /\ \A p \in 1 .. N - 1 : next[p] > p
    BY <1>1
  <2>2. G \in [(1 .. N - 1) \X T -> T]
    BY <1>1
  <2>3. {} \in T
    OBVIOUS
  <2>4. \A p \in 1 .. N - 1 : next[p] = Onward(h, p)
    OBVIOUS
  <2>5. \A p \in 1 .. N - 1 : \A X \in T : G[<<p, X>>] = {p} \cup X
    OBVIOUS
  <2>. DEFINE b == {}
  <2>. HIDE DEF N, G, next, T, b
  <2>10. b \in T
    BY <2>3 DEF b
  <2>11. IsDefined(N, T, b, next, G)
    <3>1. N \in Nat \ {0}
      BY <1>1
    <3>2. \A p \in 1 .. N - 1 : next[p] > p
      BY <2>1
    <3>3. next \in [1 .. N - 1 -> 1 .. N]
      BY <2>1
    <3>. QED BY ONLY <2>2, <2>10, <3>1, <3>2, <3>3, DefinedFromEnd
  <2>6. PICK f \in [1 .. N -> T] :
           \A p \in 1 .. N : f[p] = IF p = N THEN {} ELSE G[<<p, f[next[p]]>>]
    BY <2>11 DEF b, IsDefined
  <2>7. ASSUME NEW p \in 1 .. N PROVE f[p] = IF p = N THEN {} ELSE {p} \cup f[Onward(h, p)]
    <3>1. CASE p # N
      <4>1. p \in 1 .. N - 1 /\ Onward(h, p) \in 1 .. N
        BY <1>1, <3>1
      <4>. QED BY <2>4, <2>5, <2>6, <3>1, <4>1
    <3>. QED BY <2>6, <3>1
  <2>8. f = [p \in 1 .. N |-> IF p = N THEN {} ELSE {p} \cup f[Onward(h, p)]]
    BY <2>7
  <2>9. Eq(f)
    BY <2>8 DEF N
  <2>. QED BY <2>9
<1>. DEFINE from == CHOOSE f : Eq(f)
<1>3. Eq(from) /\ Objects(h) = from[1]
  BY <1>2 DEF Objects
<1>9. \A p \in 1 .. N : from[p] = IF p = N THEN {} ELSE {p} \cup from[Onward(h, p)]
  BY <1>3
<1>. HIDE DEF from
<1>. DEFINE A == {p \in 1 .. N : p \in S \cup {N} => from[p] = {q \in S : q >= p}}
<1>4. N \in A
  <2>1. \A q \in S : ~(q >= N)
    BY <1>1, OnwardIs
  <2>2. from[N] = {} /\ N \in 1 .. N
    <3>1. N \in 1 .. N
      BY <1>1
    <3>2. from[N] = IF N = N THEN {} ELSE {N} \cup from[Onward(h, N)]
      BY <1>9, <3>1, ZenonT(60)
    <3>. QED BY <3>1, <3>2
  <2>. QED BY <1>1, <2>1, <2>2
<1>5. ASSUME NEW p \in 1 .. N - 1, \A q \in p + 1 .. N : q \in A PROVE p \in A
  <2>1. p \in 1 .. N /\ p # N
    BY <1>1
  <2>2. CASE p \in S
    <3>1. from[p] = {p} \cup from[Onward(h, p)]
      BY <1>9, <2>1
    <3>2. Onward(h, p) \in A /\ Onward(h, p) \in S \cup {N}
      BY <1>1, <1>5, <2>2, OnwardIs
    <3>3. from[Onward(h, p)] = {q \in S : q >= Onward(h, p)}
      BY <3>2
    <3>4. \A q \in S : q >= p <=> q = p \/ q >= Onward(h, p)
      BY <2>2, OnwardIs
    <3>5. from[p] = {q \in S : q >= p}
      BY <2>2, <3>1, <3>3, <3>4
    <3>. QED BY <2>1, <3>5
  <2>3. CASE p \notin S
    BY <2>1, <2>3
  <2>. QED BY <2>2, <2>3
<1>6. A = 1 .. N
  <2>1. A \in SUBSET (1 .. N)
    OBVIOUS
  <2>. HIDE DEF A
  <2>. QED BY <1>1, <1>4, <1>5, <2>1, DownFromEnd
<1>7. 1 \in A /\ 1 \in S /\ \A q \in S : q >= 1
  <2>1. 1 \in S /\ S \in SUBSET (1 .. HeapSize - 1)
    BY DEF Tiles
  <2>. QED BY <1>1, <1>6, <2>1
<1>8. from[1] = S
  BY <1>7
<1>. QED BY <1>3, <1>8


(* The words in use, as a sum over the whole heap.                         *)
Weights(m, S) == [p \in 1 .. HeapSize - 1 |-> IF p \in HeldIn(m, S) THEN m[p - 1] ELSE 0]

Totals(w) == CHOOSE D \in [1 .. HeapSize -> Int] :
  /\ D[HeapSize] = 0
  /\ \A p \in 1 .. HeapSize - 1 : D[p] = D[p + 1] + w[p]

Total(w) == Totals(w)[1]

LEMMA TotalsAre ==
  ASSUME NEW w \in [1 .. HeapSize - 1 -> Int]
  PROVE  /\ Totals(w) \in [1 .. HeapSize -> Int] /\ Totals(w)[HeapSize] = 0
         /\ \A p \in 1 .. HeapSize - 1 : Totals(w)[p] = Totals(w)[p + 1] + w[p]
<1>. DEFINE N == HeapSize
            next == [p \in 1 .. N - 1 |-> p + 1]
            G == [x \in (1 .. N - 1) \X Int |-> x[2] + w[x[1]]]
            b == 0
<1>1. N \in Nat \ {0}
  BY MinBinSizeIs
<1>2. next \in [1 .. N - 1 -> 1 .. N] /\ \A p \in 1 .. N - 1 : next[p] > p
  BY <1>1
<1>3. G \in [(1 .. N - 1) \X Int -> Int]
  OBVIOUS
<1>4. \A p \in 1 .. N - 1 : \A x \in Int : G[<<p, x>>] = x + w[p]
  OBVIOUS
<1>5. \A p \in 1 .. N - 1 : next[p] = p + 1
  OBVIOUS
<1>6. b \in Int
  OBVIOUS
<1>7. IsDefined(N, Int, b, next, G)
  <2>. HIDE DEF N, next, G, b
  <2>. QED BY ONLY <1>1, <1>2, <1>3, <1>6, DefinedFromEnd
<1>. HIDE DEF next, G
<1>8. PICK D \in [1 .. N -> Int] :
           \A p \in 1 .. N : D[p] = IF p = N THEN b ELSE G[<<p, D[next[p]]>>]
  BY <1>7 DEF IsDefined
<1>9. D[N] = 0 /\ \A p \in 1 .. N - 1 : D[p] = D[p + 1] + w[p]
  <2>1. ASSUME NEW p \in 1 .. N - 1 PROVE D[p] = D[p + 1] + w[p]
    <3>1. p \in 1 .. N /\ p # N /\ p + 1 \in 1 .. N /\ D[p + 1] \in Int
      BY <1>1
    <3>. QED BY <1>4, <1>5, <1>8, <3>1
  <2>2. N \in 1 .. N
    BY <1>1
  <2>. QED BY <1>8, <2>1, <2>2
<1>. QED BY <1>9 DEF Totals

LEMMA TotalOfNothing ==
  ASSUME NEW w, w = [p \in 1 .. HeapSize - 1 |-> 0] PROVE Total(w) = 0
<1>. DEFINE D == Totals(w)
            A == {p \in 1 .. HeapSize : D[p] = 0}
<1>1. HeapSize \in Nat \ {0}
  BY MinBinSizeIs
<1>2. /\ D \in [1 .. HeapSize -> Int] /\ D[HeapSize] = 0
      /\ \A p \in 1 .. HeapSize - 1 : D[p] = D[p + 1] + w[p]
  <2>1. w \in [1 .. HeapSize - 1 -> Int]
    OBVIOUS
  <2>. QED BY <2>1, TotalsAre
<1>. HIDE DEF D
<1>3. HeapSize \in A /\ A \in SUBSET (1 .. HeapSize)
  BY <1>1, <1>2
<1>4. ASSUME NEW p \in 1 .. HeapSize - 1, \A q \in p + 1 .. HeapSize : q \in A PROVE p \in A
  <2>1. p + 1 \in A /\ p \in 1 .. HeapSize
    BY <1>1, <1>4
  <2>. QED BY <1>2, <2>1
<1>5. A = 1 .. HeapSize
  <2>. HIDE DEF A
  <2>. QED BY <1>1, <1>3, <1>4, DownFromEnd
<1>6. 1 \in A
  BY <1>1, <1>5
<1>. QED BY <1>6 DEF Total, D

LEMMA TotalChanges ==
  ASSUME NEW w \in [1 .. HeapSize - 1 -> Int], NEW v \in [1 .. HeapSize - 1 -> Int],
         NEW k \in 1 .. HeapSize - 1, \A p \in 1 .. HeapSize - 1 : p # k => v[p] = w[p]
  PROVE  Total(w) \in Int /\ Total(v) = Total(w) + (v[k] - w[k])
<1>. DEFINE D == Totals(w)
            E == Totals(v)
            x == v[k] - w[k]
            A == {p \in 1 .. HeapSize : E[p] = D[p] + IF p <= k THEN x ELSE 0}
<1>1. HeapSize \in Nat \ {0} /\ x \in Int
  BY MinBinSizeIs
<1>2. /\ D \in [1 .. HeapSize -> Int] /\ D[HeapSize] = 0
      /\ \A p \in 1 .. HeapSize - 1 : D[p] = D[p + 1] + w[p]
  BY TotalsAre
<1>3. /\ E \in [1 .. HeapSize -> Int] /\ E[HeapSize] = 0
      /\ \A p \in 1 .. HeapSize - 1 : E[p] = E[p + 1] + v[p]
  BY TotalsAre
<1>. HIDE DEF D, E
<1>4. HeapSize \in A /\ A \in SUBSET (1 .. HeapSize)
  <2>1. HeapSize \in 1 .. HeapSize /\ ~(HeapSize <= k)
    BY <1>1
  <2>2. E[HeapSize] = D[HeapSize] + IF HeapSize <= k THEN x ELSE 0
    BY <1>2, <1>3, <2>1
  <2>. QED BY <2>1, <2>2
<1>5. ASSUME NEW p \in 1 .. HeapSize - 1, \A q \in p + 1 .. HeapSize : q \in A PROVE p \in A
  <2>1. p + 1 \in A /\ p \in 1 .. HeapSize /\ p + 1 \in 1 .. HeapSize
    BY <1>1, <1>5
  <2>2. E[p] = E[p + 1] + v[p] /\ D[p] = D[p + 1] + w[p] /\ E[p + 1] \in Int /\ D[p + 1] \in Int
        /\ w[p] \in Int /\ v[p] \in Int
    BY <1>2, <1>3, <2>1
  <2>3. E[p + 1] = D[p + 1] + IF p + 1 <= k THEN x ELSE 0
    BY <2>1
  <2>4. p # k => v[p] = w[p]
    OBVIOUS
  <2>5. p = k => v[p] - w[p] = x
    OBVIOUS
  <2>. DEFINE wp == w[p]
              vp == v[p]
              dp == D[p + 1]
              ep == E[p + 1]
  <2>6. wp \in Int /\ vp \in Int /\ dp \in Int /\ ep \in Int /\ E[p] = ep + vp /\ D[p] = dp + wp
        /\ ep = dp + (IF p + 1 <= k THEN x ELSE 0) /\ (p # k => vp = wp) /\ (p = k => vp - wp = x)
    BY <2>2, <2>3, <2>4, <2>5
  <2>. HIDE DEF wp, vp, dp, ep, x
  <2>7. E[p] = D[p] + IF p <= k THEN x ELSE 0
    <3>1. CASE p = k
      BY <1>1, <2>6, <3>1
    <3>2. CASE p < k
      BY <1>1, <2>6, <3>2
    <3>3. CASE p > k
      BY <1>1, <2>6, <3>3
    <3>. QED BY <3>1, <3>2, <3>3
  <2>. QED BY <2>1, <2>7
<1>6. A = 1 .. HeapSize
  <2>. HIDE DEF A
  <2>. QED BY <1>1, <1>4, <1>5, DownFromEnd
<1>7. E[1] = D[1] + x /\ D[1] \in Int
  <2>1. 1 \in 1 .. HeapSize /\ 1 <= k
    BY <1>1
  <2>2. E[1] = D[1] + IF 1 <= k THEN x ELSE 0
    BY <1>6, <2>1
  <2>. QED BY <1>2, <2>1, <2>2
<1>. QED BY <1>7 DEF Total, D, E

LEMMA WeightsAre ==
  ASSUME NEW m, NEW S, Tiles(m, S)
  PROVE  /\ Weights(m, S) \in [1 .. HeapSize - 1 -> Int]
         /\ \A p \in 1 .. HeapSize - 1 : p \notin HeldIn(m, S) => Weights(m, S)[p] = 0
         /\ \A p \in HeldIn(m, S) : p \in 1 .. HeapSize - 1 /\ Weights(m, S)[p] = m[p - 1]
<1>1. \A p \in HeldIn(m, S) : p \in 1 .. HeapSize - 1 /\ m[p - 1] \in Int
  BY ObjectIs DEF HeldIn
<1>2. HeldIn(m, S) \subseteq 1 .. HeapSize - 1
  BY <1>1
<1>. DEFINE W == Weights(m, S)
<1>3. W = [p \in 1 .. HeapSize - 1 |-> IF p \in HeldIn(m, S) THEN m[p - 1] ELSE 0]
  BY DEF Weights
<1>. HIDE DEF W
<1>4. \A p \in 1 .. HeapSize - 1 : W[p] = IF p \in HeldIn(m, S) THEN m[p - 1] ELSE 0
  BY <1>3
<1>5. \A p \in 1 .. HeapSize - 1 : (IF p \in HeldIn(m, S) THEN m[p - 1] ELSE 0) \in Int
  BY <1>1
<1>6. W \in [1 .. HeapSize - 1 -> Int]
  BY <1>3, <1>5
<1>. QED BY <1>1, <1>4, <1>6 DEF W

LEMMA WordsUsedAre ==
  ASSUME NEW h, NEW S, Tiles(h.mem, S) PROVE WordsUsed(h) = Total(Weights(h.mem, S))
<1>. DEFINE N == HeapSize
            used(p) == IF IsFree(h, p) THEN 0 ELSE Size(h, p)
            w == Weights(h.mem, S)
            D == Totals(w)
            Eq(f) == f = [p \in 1 .. HeapSize |-> IF p = HeapSize THEN 0
                           ELSE f[Onward(h, p)] + IF IsFree(h, p) THEN 0 ELSE Size(h, p)]
            next == [p \in 1 .. N - 1 |-> Onward(h, p)]
            G == [x \in (1 .. N - 1) \X Int |-> x[2] + used(x[1])]
            b == 0
<1>1. N \in Nat \ {0} /\ \A p \in 1 .. N - 1 : Onward(h, p) \in p + 1 .. N
  BY OnwardIs
<1>2. \E f : Eq(f)
  <2>1. next \in [1 .. N - 1 -> 1 .. N] /\ \A p \in 1 .. N - 1 : next[p] > p
    BY <1>1
  <2>2. \A p \in 1 .. N - 1 : used(p) \in Int
    <3>. TAKE p \in 1 .. N - 1
    <3>1. p - 1 \in 0 .. HeapSize - 1 /\ h.mem \in [0 .. HeapSize - 1 -> Int]
      BY <1>1 DEF Tiles, Memories
    <3>2. Size(h, p) \in Int
      BY <3>1 DEF Size
    <3>. QED BY <3>2
  <2>. HIDE DEF used
  <2>3. G \in [(1 .. N - 1) \X Int -> Int]
    BY <2>2
  <2>4. \A p \in 1 .. N - 1 : next[p] = Onward(h, p)
    OBVIOUS
  <2>5. \A p \in 1 .. N - 1 : \A x \in Int : G[<<p, x>>] = x + used(p)
    OBVIOUS
  <2>6. b \in Int
    OBVIOUS
  <2>7. IsDefined(N, Int, b, next, G)
    <3>. HIDE DEF N, next, G, b
    <3>. QED BY ONLY <1>1, <2>1, <2>3, <2>6, DefinedFromEnd
  <2>. HIDE DEF next, G
  <2>8. PICK f \in [1 .. N -> Int] :
           \A p \in 1 .. N : f[p] = IF p = N THEN b ELSE G[<<p, f[next[p]]>>]
    BY <2>7 DEF IsDefined
  <2>9. ASSUME NEW p \in 1 .. N PROVE f[p] = IF p = N THEN 0 ELSE f[Onward(h, p)] + used(p)
    <3>1. CASE p # N
      <4>1. p \in 1 .. N - 1 /\ Onward(h, p) \in 1 .. N
        BY <1>1, <3>1
      <4>3. f[Onward(h, p)] \in Int
        BY <2>8, <4>1
      <4>4. f[p] = G[<<p, f[next[p]]>>]
        BY <2>8, <3>1
      <4>5. f[p] = f[Onward(h, p)] + used(p)
        BY <2>4, <2>5, <4>1, <4>3, <4>4
      <4>. QED BY <3>1, <4>5
    <3>2. CASE p = N
      BY <2>8, <3>2
    <3>. QED BY <3>1, <3>2
  <2>10. f = [p \in 1 .. N |-> IF p = N THEN 0 ELSE f[Onward(h, p)] + used(p)]
    BY <2>9
  <2>11. Eq(f)
    BY <2>10 DEF used
  <2>. QED BY <2>11
<1>. DEFINE from == CHOOSE f : Eq(f)
<1>3. Eq(from) /\ WordsUsed(h) = from[1]
  BY <1>2 DEF WordsUsed
<1>4. \A p \in 1 .. N : from[p] = IF p = N THEN 0 ELSE from[Onward(h, p)] + used(p)
  BY <1>3
<1>5. /\ D \in [1 .. N -> Int] /\ D[N] = 0
      /\ \A p \in 1 .. N - 1 : D[p] = D[p + 1] + w[p]
  BY WeightsAre, TotalsAre
<1>6. \A p \in S : p \in 1 .. N - 1 /\ w[p] = used(p)
  <2>. TAKE p \in S
  <2>1. p \in 1 .. N - 1 /\ h.mem[EndOf(h.mem, p)] \in {0, h.mem[p - 1]}
    BY ObjectIs
  <2>2. End(h, p) = EndOf(h.mem, p) /\ Size(h, p) = h.mem[p - 1]
    BY DEF End, EndOf, Size
  <2>3. CASE h.mem[EndOf(h.mem, p)] = 0
    BY <2>1, <2>2, <2>3, WeightsAre DEF HeldIn, IsFree
  <2>4. CASE h.mem[EndOf(h.mem, p)] # 0
    BY <2>1, <2>2, <2>4, WeightsAre DEF HeldIn, IsFree
  <2>. QED BY <2>3, <2>4
<1>7. \A p \in (1 .. N - 1) \ S : w[p] = 0
  BY WeightsAre DEF HeldIn
<1>. DEFINE From(p, q) == q >= p /\ \A r \in S : r >= p => r >= q
            A == {p \in 1 .. N : \A q \in S \cup {N} : From(p, q) => D[p] = from[q]}
<1>. HIDE DEF from, used, w, D
<1>8. N \in A
  <2>1. \A q \in S \cup {N} : From(N, q) => q = N
    BY <1>1, <1>6
  <2>2. N \in 1 .. N /\ from[N] = 0
    <3>1. N \in 1 .. N
      BY <1>1
    <3>2. from[N] = IF N = N THEN 0 ELSE from[Onward(h, N)] + used(N)
      BY <1>4, <3>1, ZenonT(60)
    <3>. QED BY <3>1, <3>2
  <2>. QED BY <1>5, <2>1, <2>2
<1>9. ASSUME NEW p \in 1 .. N - 1, \A q \in p + 1 .. N : q \in A PROVE p \in A
  <2>1. p \in 1 .. N /\ p # N /\ p + 1 \in A /\ D[p] = D[p + 1] + w[p]
    BY <1>1, <1>5, <1>9
  <2>2. ASSUME NEW q \in S \cup {N}, From(p, q) PROVE D[p] = from[q]
    <3>1. q \in 1 .. N
      BY <1>1, <1>6
    <3>2. CASE p \in S
      <4>1. q = p
        BY <1>6, <2>2, <3>1, <3>2
      <4>2. /\ Onward(h, p) \in S \cup {N} /\ Onward(h, p) \in p + 1 .. N
            /\ \A r \in S : r >= p <=> r = p \/ r >= Onward(h, p)
        BY <1>1, <3>2, OnwardIs
      <4>3. From(p + 1, Onward(h, p))
        <5>1. \A r \in S : r >= p + 1 => r >= p /\ r # p
          BY <1>6
        <5>. QED BY <4>2, <5>1
      <4>4. D[p + 1] = from[Onward(h, p)]
        BY <2>1, <4>2, <4>3
      <4>5. from[p] = from[Onward(h, p)] + used(p)
        BY <1>4, <2>1
      <4>. QED BY <1>6, <2>1, <3>2, <4>1, <4>4, <4>5
    <3>3. CASE p \notin S
      <4>1. q # p
        BY <1>1, <3>3
      <4>2. From(p + 1, q)
        BY <1>6, <2>2, <3>1, <4>1
      <4>3. D[p + 1] = from[q] /\ w[p] = 0 /\ D[p + 1] \in Int
        BY <1>1, <1>5, <1>7, <2>1, <3>3, <4>2
      <4>. QED BY <2>1, <4>3
    <3>. QED BY <3>2, <3>3
  <2>. QED BY <2>1, <2>2
<1>10. A = 1 .. N
  <2>1. A \in SUBSET (1 .. N)
    OBVIOUS
  <2>. HIDE DEF A
  <2>. QED BY <1>1, <1>8, <1>9, <2>1, DownFromEnd
<1>11. 1 \in S /\ From(1, 1)
  <2>1. 1 \in S
    BY DEF Tiles
  <2>. QED BY <2>1
<1>12. D[1] = from[1]
  <2>1. 1 \in A
    BY <1>1, <1>10
  <2>. QED BY <1>11, <2>1
<1>. QED BY <1>3, <1>12 DEF Total, D, w

-----------------------------------------------------------------------------
(* The free lists *)
Once(s) == \A i, j \in DOMAIN s : s[i] = s[j] => i = j

LEMMA UnlinkedIs ==
  ASSUME NEW s \in Seq(Nat), Once(s), NEW p \in Nat
  PROVE  Unlinked(s, p) \in Seq(Nat) /\ Once(Unlinked(s, p)) /\ Listed(Unlinked(s, p)) = Listed(s) \ {p}
<1>1. CASE \A i \in DOMAIN s : s[i] # p
  BY <1>1 DEF Unlinked, Listed
<1>2. CASE \E i \in DOMAIN s : s[i] = p
  <2>. DEFINE k == CHOOSE i \in DOMAIN s : s[i] = p
              t == Unlinked(s, p)
              n == Len(s)
  <2>1. k \in DOMAIN s /\ s[k] = p
    BY <1>2
  <2>2. t = [i \in 1 .. Len(s) - 1 |-> IF i < k THEN s[i] ELSE s[i + 1]]
    BY <1>2 DEF Unlinked
  <2>. HIDE DEF k, t
  <2>3. n \in Nat /\ k \in 1 .. n /\ DOMAIN s = 1 .. n /\ \A i \in 1 .. n : s[i] \in Nat
    BY <2>1
  <2>. HIDE DEF n
  <2>4. t = [i \in 1 .. n - 1 |-> IF i < k THEN s[i] ELSE s[i + 1]]
    BY <2>2 DEF n
  <2>5. /\ DOMAIN t = 1 .. n - 1 /\ n - 1 \in Nat
        /\ \A i \in 1 .. n - 1 : /\ i < k => i \in 1 .. n /\ i # k /\ t[i] = s[i]
                                 /\ ~(i < k) => i + 1 \in 1 .. n /\ i + 1 # k /\ t[i] = s[i + 1]
    BY <2>3, <2>4
  <2>6. \A i \in 1 .. n - 1 : t[i] \in Nat
    BY <2>3, <2>5
  <2>7. t \in Seq(Nat)
    <3>1. t \in [1 .. n - 1 -> Nat]
      BY <2>4, <2>5, <2>6
    <3>. QED BY <2>5, <3>1
  <2>8. Once(t)
    <3>1. ASSUME NEW i \in 1 .. n - 1, NEW j \in 1 .. n - 1, t[i] = t[j] PROVE i = j
      <4>1. \A x, y \in 1 .. n : s[x] = s[y] => x = y
        BY <2>3 DEF Once
      <4>2. CASE i < k /\ j < k
        BY <2>5, <3>1, <4>1, <4>2
      <4>3. CASE i < k /\ ~(j < k)
        <5>1. i = j + 1
          BY <2>5, <3>1, <4>1, <4>3
        <5>. QED BY <2>3, <4>3, <5>1
      <4>4. CASE ~(i < k) /\ j < k
        <5>1. i + 1 = j
          BY <2>5, <3>1, <4>1, <4>4
        <5>. QED BY <2>3, <4>4, <5>1
      <4>5. CASE ~(i < k) /\ ~(j < k)
        <5>1. i + 1 = j + 1
          BY <2>5, <3>1, <4>1, <4>5
        <5>. QED BY <5>1
      <4>. QED BY <4>2, <4>3, <4>4, <4>5
    <3>. QED BY <2>5, <3>1 DEF Once
  <2>9. Listed(t) = Listed(s) \ {p}
    <3>1. ASSUME NEW i \in 1 .. n - 1 PROVE t[i] \in Listed(s) \ {p}
      <4>1. \A x \in 1 .. n : x # k => s[x] \in Listed(s) \ {p}
        BY <2>1, <2>3 DEF Once, Listed
      <4>. QED BY <2>5, <4>1
    <3>2. ASSUME NEW x \in 1 .. n, s[x] # p PROVE \E i \in 1 .. n - 1 : t[i] = s[x]
      <4>1. x # k
        BY <2>1, <3>2
      <4>2. CASE x < k
        <5>1. x \in 1 .. n - 1 /\ t[x] = s[x]
          BY <2>3, <2>5, <4>2
        <5>. QED BY <5>1
      <4>3. CASE ~(x < k)
        <5>1. x - 1 \in 1 .. n - 1 /\ ~(x - 1 < k) /\ (x - 1) + 1 = x
          BY <2>3, <4>1, <4>3
        <5>2. t[x - 1] = s[x]
          BY <2>5, <5>1
        <5>. QED BY <5>1, <5>2
      <4>. QED BY <4>2, <4>3
    <3>3. Listed(t) \subseteq Listed(s) \ {p}
      BY <2>5, <3>1 DEF Listed
    <3>4. ASSUME NEW y \in Listed(s) \ {p} PROVE y \in Listed(t)
      <4>1. PICK x \in 1 .. n : s[x] = y
        BY <2>3 DEF Listed
      <4>2. PICK i \in 1 .. n - 1 : t[i] = y
        BY <3>2, <4>1
      <4>. QED BY <2>5, <4>2 DEF Listed
    <3>. QED BY <3>3, <3>4
  <2>. QED BY <2>7, <2>8, <2>9 DEF t
<1>. QED BY <1>1, <1>2

LEMMA PushedIs ==
  ASSUME NEW s \in Seq(Nat), Once(s), NEW p \in Nat, p \notin Listed(s)
  PROVE  /\ <<p>> \o s \in Seq(Nat) /\ Once(<<p>> \o s) /\ Listed(<<p>> \o s) = Listed(s) \cup {p}
<1>. DEFINE t == <<p>> \o s
            n == Len(s)
<1>1. /\ t \in Seq(Nat) /\ n \in Nat /\ DOMAIN t = 1 .. n + 1 /\ DOMAIN s = 1 .. n /\ t[1] = p
      /\ \A i \in 2 .. n + 1 : t[i] = s[i - 1] /\ i - 1 \in 1 .. n
  OBVIOUS
<1>. HIDE DEF t, n
<1>2. \A i \in 1 .. n : i + 1 \in 2 .. n + 1 /\ t[i + 1] = s[i]
  BY <1>1
<1>3. \A i \in 1 .. n : s[i] # p
  BY <1>1 DEF Listed
<1>4. Once(t)
  <2>1. ASSUME NEW i \in 1 .. n + 1, NEW j \in 1 .. n + 1, t[i] = t[j] PROVE i = j
    <3>1. CASE i = 1 /\ j = 1
      BY <3>1
    <3>2. CASE i = 1 /\ j # 1
      <4>1. j \in 2 .. n + 1
        BY <1>1, <3>2
      <4>. QED BY <1>1, <1>3, <2>1, <3>2, <4>1
    <3>3. CASE i # 1 /\ j = 1
      <4>1. i \in 2 .. n + 1
        BY <1>1, <3>3
      <4>. QED BY <1>1, <1>3, <2>1, <3>3, <4>1
    <3>4. CASE i # 1 /\ j # 1
      <4>1. i \in 2 .. n + 1 /\ j \in 2 .. n + 1
        BY <1>1, <3>4
      <4>2. i - 1 = j - 1
        BY <1>1, <2>1, <4>1 DEF Once
      <4>. QED BY <4>1, <4>2
    <3>. QED BY <3>1, <3>2, <3>3, <3>4
  <2>. QED BY <1>1, <2>1 DEF Once
<1>5. Listed(t) = Listed(s) \cup {p}
  <2>1. ASSUME NEW i \in 1 .. n + 1 PROVE t[i] \in Listed(s) \cup {p}
    <3>1. i = 1 \/ i \in 2 .. n + 1
      BY <1>1
    <3>. QED BY <1>1, <3>1 DEF Listed
  <2>2. 1 \in 1 .. n + 1 /\ \A i \in 1 .. n : i + 1 \in 1 .. n + 1
    BY <1>1
  <2>3. \A i \in DOMAIN t : t[i] \in Listed(s) \cup {p}
    BY <1>1, <2>1
  <2>4. Listed(t) \subseteq Listed(s) \cup {p}
    BY <2>3 DEF Listed
  <2>5. ASSUME NEW y \in Listed(s) PROVE y \in Listed(t)
    <3>1. PICK i \in 1 .. n : s[i] = y
      BY <1>1 DEF Listed
    <3>2. i + 1 \in DOMAIN t /\ t[i + 1] = y
      BY <1>1, <1>2, <2>2, <3>1
    <3>. QED BY <3>2 DEF Listed
  <2>6. p \in Listed(t)
    BY <1>1, <2>2 DEF Listed
  <2>. QED BY <2>4, <2>5, <2>6
<1>. QED BY <1>1, <1>4, <1>5 DEF t

Heaps == [mem : Memories, bins : [0 .. Bins -> Seq(Nat)], usage : Int]

(* The lists hold the objects F, each once and in the bin of its size.     *)
Lists(h, F) ==
  \A b \in 0 .. Bins :
    Listed(h.bins[b]) = {p \in F : BinOf(Size(h, p)) = b} /\ Once(h.bins[b])

Sound(h, S) == h \in Heaps /\ Tiles(h.mem, S) /\ Lists(h, FreeIn(h.mem, S))

LEMMA ListsOfSame ==
  ASSUME NEW h, NEW g, NEW F, Lists(h, F), g.bins = h.bins, \A p \in F : Size(g, p) = Size(h, p)
  PROVE  Lists(g, F)
BY DEF Lists

LEMMA ListsRemoved ==
  ASSUME NEW h \in Heaps, NEW g, NEW F, NEW p \in Nat, Lists(h, F),
         g.bins = [b \in 0 .. Bins |-> Unlinked(h.bins[b], p)],
         \A q \in F : Size(g, q) = Size(h, q)
  PROVE  Lists(g, F \ {p}) /\ g.bins \in [0 .. Bins -> Seq(Nat)]
<1>1. ASSUME NEW b \in 0 .. Bins
      PROVE  /\ g.bins[b] \in Seq(Nat) /\ Once(g.bins[b])
             /\ Listed(g.bins[b]) = {q \in F \ {p} : BinOf(Size(g, q)) = b}
  <2>1. h.bins[b] \in Seq(Nat) /\ g.bins[b] = Unlinked(h.bins[b], p)
    BY DEF Heaps
  <2>2. Once(h.bins[b]) /\ Listed(h.bins[b]) = {q \in F : BinOf(Size(h, q)) = b}
    BY DEF Lists
  <2>3. /\ g.bins[b] \in Seq(Nat) /\ Once(g.bins[b])
        /\ Listed(g.bins[b]) = Listed(h.bins[b]) \ {p}
    BY <2>1, <2>2, UnlinkedIs
  <2>. QED BY <2>2, <2>3
<1>. QED BY <1>1 DEF Lists

LEMMA ListsAdded ==
  ASSUME NEW h \in Heaps, NEW g, NEW F, NEW p \in Nat, Lists(h, F), p \notin F,
         Size(h, p) \in Nat, Size(g, p) = Size(h, p),
         g.bins = [h.bins EXCEPT ![BinOf(Size(h, p))] = <<p>> \o @],
         \A q \in F : Size(g, q) = Size(h, q)
  PROVE  Lists(g, F \cup {p}) /\ g.bins \in [0 .. Bins -> Seq(Nat)]
<1>. DEFINE c == BinOf(Size(h, p))
            s == h.bins
            t == g.bins
<1>1. c \in 0 .. Bins /\ s \in [0 .. Bins -> Seq(Nat)]
  BY BinOfIs DEF Heaps
<1>2. t = [s EXCEPT ![c] = <<p>> \o s[c]]
  OBVIOUS
<1>. HIDE DEF c, s, t
<1>3. t[c] = <<p>> \o s[c] /\ \A b \in 0 .. Bins : b # c => t[b] = s[b]
  BY <1>1, <1>2
<1>4. DOMAIN t = 0 .. Bins /\ t = [b \in 0 .. Bins |-> t[b]]
  BY <1>1, <1>2
<1>5. ASSUME NEW b \in 0 .. Bins
      PROVE  t[b] \in Seq(Nat) /\ Once(t[b]) /\ Listed(t[b]) = {q \in F \cup {p} : BinOf(Size(g, q)) = b}
  <2>1. Once(s[b]) /\ Listed(s[b]) = {q \in F : BinOf(Size(h, q)) = b} /\ s[b] \in Seq(Nat)
    BY <1>1 DEF Lists, s
  <2>2. CASE b = c
    <3>1. p \notin Listed(s[b])
      BY <2>1
    <3>3. /\ <<p>> \o s[b] \in Seq(Nat) /\ Once(<<p>> \o s[b])
          /\ Listed(<<p>> \o s[b]) = Listed(s[b]) \cup {p}
      BY <2>1, <3>1, PushedIs
    <3>2. t[b] \in Seq(Nat) /\ Once(t[b]) /\ Listed(t[b]) = Listed(s[b]) \cup {p}
      BY <1>3, <2>2, <3>3
    <3>. QED BY <2>1, <2>2, <3>2 DEF c
  <2>3. CASE b # c
    BY <1>3, <2>1, <2>3 DEF c
  <2>. QED BY <2>2, <2>3
<1>6. t \in [0 .. Bins -> Seq(Nat)]
  BY <1>4, <1>5
<1>7. Lists(g, F \cup {p})
  BY <1>5 DEF Lists, t
<1>. QED BY <1>6, <1>7 DEF t

-----------------------------------------------------------------------------
(* Sound heaps                                                             *)
LEMMA SoundIs ==
  ASSUME NEW h, NEW S, Sound(h, S)
  PROVE  /\ Tiles(h.mem, S) /\ h \in Heaps /\ h.mem \in Memories /\ Objects(h) = S
         /\ h.usage \in Int /\ h.bins \in [0 .. Bins -> Seq(Nat)]
         /\ h = [mem |-> h.mem, bins |-> h.bins, usage |-> h.usage]
         /\ \A p \in S : /\ p \in Nat /\ p # 0 /\ p - 1 \in Nat /\ End(h, p) = EndOf(h.mem, p)
                         /\ Size(h, p) = h.mem[p - 1] /\ Size(h, p) \in Nat
                         /\ NextObject(h, p) = Behind(h.mem, p)
                         /\ IsFree(h, p) = (p \in FreeIn(h.mem, S))
                         /\ p \in FreeIn(h.mem, S) \/ p \in HeldIn(h.mem, S)
                         /\ p \in FreeIn(h.mem, S) => p \notin HeldIn(h.mem, S)
<1>1. Tiles(h.mem, S) /\ h \in Heaps
  BY DEF Sound
<1>2. Objects(h) = S
  BY <1>1, ObjectsAre
<1>3. /\ h.mem \in Memories /\ h.usage \in Int /\ h.bins \in [0 .. Bins -> Seq(Nat)]
      /\ h = [mem |-> h.mem, bins |-> h.bins, usage |-> h.usage]
  BY <1>1 DEF Heaps
<1>4. ASSUME NEW p \in S
      PROVE  /\ p \in Nat /\ p # 0 /\ p - 1 \in Nat /\ End(h, p) = EndOf(h.mem, p)
             /\ Size(h, p) = h.mem[p - 1] /\ Size(h, p) \in Nat
             /\ NextObject(h, p) = Behind(h.mem, p)
             /\ IsFree(h, p) = (p \in FreeIn(h.mem, S))
             /\ p \in FreeIn(h.mem, S) \/ p \in HeldIn(h.mem, S)
             /\ p \in FreeIn(h.mem, S) => p \notin HeldIn(h.mem, S)
  <2>1. p \in Nat /\ p # 0 /\ p - 1 \in Nat /\ h.mem[p - 1] \in Nat
    <3>1. p \in 1 .. HeapSize - 1 /\ h.mem[p - 1] \in Nat
      BY <1>1, ObjectIs
    <3>. QED BY <3>1
  <2>2. End(h, p) = EndOf(h.mem, p) /\ Size(h, p) = h.mem[p - 1]
        /\ NextObject(h, p) = Behind(h.mem, p)
    BY DEF End, EndOf, Size, NextObject, Behind
  <2>. QED BY <2>1, <2>2 DEF IsFree, FreeIn, HeldIn
<1>. QED BY <1>1, <1>2, <1>3, <1>4

(* remove_memory_from_bin                                                  *)
LEMMA Removed ==
  ASSUME NEW h, NEW S, Sound(h, S), NEW p \in FreeIn(h.mem, S)
  PROVE  LET g == RemoveFromBin(h, p) IN
         /\ Sound(g, S) /\ SameObjects(h.mem, g.mem, S) /\ g.usage = h.usage
         /\ FreeIn(g.mem, S) = FreeIn(h.mem, S) \ {p} /\ HeldIn(g.mem, S) = HeldIn(h.mem, S) \cup {p}
         /\ \A q \in S : EndOf(g.mem, q) = EndOf(h.mem, q) /\ Behind(g.mem, q) = Behind(h.mem, q)
         /\ g.mem[EndOf(h.mem, p)] = 0
<1>. DEFINE g == RemoveFromBin(h, p)
            m == h.mem
            n == g.mem
            e == EndOf(m, p)
<1>1. /\ Tiles(m, S) /\ h \in Heaps /\ p \in S /\ p \in Nat /\ End(h, p) = e /\ Lists(h, FreeIn(m, S))
      /\ h = [mem |-> h.mem, bins |-> h.bins, usage |-> h.usage] /\ h.usage \in Int
  BY SoundIs DEF FreeIn, Sound
<1>2. /\ n = [m EXCEPT ![e] = 0] /\ g.bins = [b \in 0 .. Bins |-> Unlinked(h.bins[b], p)]
      /\ g.usage = h.usage /\ g = [mem |-> n, bins |-> g.bins, usage |-> h.usage]
  <2>1. g = [h EXCEPT !.bins = [b \in 0 .. Bins |-> Unlinked(h.bins[b], p)], !.mem = [m EXCEPT ![e] = 0]]
    BY <1>1 DEF RemoveFromBin
  <2>. HIDE DEF g
  <2>. QED BY <1>1, <2>1
<1>. HIDE DEF g, n
<1>3. /\ Tiles(n, S) /\ SameObjects(m, n, S)
      /\ \A q \in S : EndOf(n, q) = EndOf(m, q) /\ Behind(n, q) = Behind(m, q)
      /\ n[e] = 0 /\ \A q \in S \ {p} : n[EndOf(m, q)] = m[EndOf(m, q)]
  <2>. DEFINE x == 0
  <2>1. x \in {0, m[p - 1]} /\ p \in S /\ Tiles(m, S) /\ Wrote(m, n, EndOf(m, p), x)
    BY <1>1, <1>2 DEF Wrote
  <2>. HIDE DEF x, m
  <2>2. /\ Tiles(n, S) /\ SameObjects(m, n, S)
        /\ \A q \in S : EndOf(n, q) = EndOf(m, q) /\ Behind(n, q) = Behind(m, q)
        /\ n[e] = x /\ \A q \in S \ {p} : n[EndOf(m, q)] = m[EndOf(m, q)]
    BY <2>1, EndWritten
  <2>. QED BY <2>2 DEF x
<1>4. FreeIn(n, S) = FreeIn(m, S) \ {p} /\ HeldIn(n, S) = HeldIn(m, S) \cup {p}
  BY <1>1, <1>3 DEF FreeIn, HeldIn
<1>5. \A q \in FreeIn(m, S) : Size(g, q) = Size(h, q)
  BY <1>3 DEF FreeIn, Size, SameObjects, n
<1>6. Lists(g, FreeIn(m, S) \ {p}) /\ g.bins \in [0 .. Bins -> Seq(Nat)]
  BY <1>1, <1>2, <1>5, ListsRemoved
<1>7. g \in Heaps
  <2>1. n \in Memories
    BY <1>3 DEF Tiles
  <2>. QED BY <1>1, <1>2, <1>6, <2>1 DEF Heaps
<1>8. Sound(g, S)
  BY <1>3, <1>4, <1>6, <1>7 DEF Sound, n
<1>. QED BY <1>2, <1>3, <1>4, <1>8 DEF g, n

(* add_freed_memory_to_bin                                                 *)
LEMMA Added ==
  ASSUME NEW h, NEW S, Sound(h, S), NEW p \in HeldIn(h.mem, S)
  PROVE  LET g == AddToBin(h, p) IN
         /\ Sound(g, S) /\ SameObjects(h.mem, g.mem, S) /\ g.usage = h.usage
         /\ FreeIn(g.mem, S) = FreeIn(h.mem, S) \cup {p} /\ HeldIn(g.mem, S) = HeldIn(h.mem, S) \ {p}
         /\ \A q \in S : EndOf(g.mem, q) = EndOf(h.mem, q) /\ Behind(g.mem, q) = Behind(h.mem, q)
         /\ \A w \in 0 .. HeapSize - 1 : w # EndOf(h.mem, p) => g.mem[w] = h.mem[w]
<1>. DEFINE g == AddToBin(h, p)
            m == h.mem
            n == g.mem
            e == EndOf(m, p)
            x == m[p - 1]
<1>1. /\ Tiles(m, S) /\ h \in Heaps /\ p \in S /\ p \in Nat /\ End(h, p) = e /\ Lists(h, FreeIn(m, S))
      /\ h = [mem |-> h.mem, bins |-> h.bins, usage |-> h.usage] /\ h.usage \in Int
      /\ Size(h, p) = x /\ Size(h, p) \in Nat /\ m[e] = 0 /\ m \in Memories
      /\ h.bins \in [0 .. Bins -> Seq(Nat)]
  BY SoundIs DEF HeldIn, Sound
<1>2. /\ n = [m EXCEPT ![e] = x] /\ g.bins = [h.bins EXCEPT ![BinOf(Size(h, p))] = <<p>> \o @]
      /\ g.usage = h.usage /\ g = [mem |-> n, bins |-> g.bins, usage |-> h.usage]
  <2>. DEFINE c == BinOf(Size(h, p))
              t == [h.bins EXCEPT ![c] = <<p>> \o @]
              k == [m EXCEPT ![e] = x]
  <2>1. g = [h EXCEPT !.bins = t, !.mem = k]
    BY <1>1 DEF AddToBin
  <2>. HIDE DEF g, t, k
  <2>2. n = k /\ g.bins = t /\ g.usage = h.usage /\ g = [mem |-> n, bins |-> g.bins, usage |-> h.usage]
    BY <1>1, <2>1
  <2>. QED BY <2>2 DEF t, k
<1>. HIDE DEF g, n
<1>3. /\ Tiles(n, S) /\ SameObjects(m, n, S)
      /\ \A q \in S : EndOf(n, q) = EndOf(m, q) /\ Behind(n, q) = Behind(m, q)
      /\ n[e] = x /\ \A q \in S \ {p} : n[EndOf(m, q)] = m[EndOf(m, q)]
  <2>1. x \in {0, m[p - 1]} /\ p \in S /\ Tiles(m, S) /\ Wrote(m, n, EndOf(m, p), x)
    BY <1>1, <1>2 DEF Wrote
  <2>. HIDE DEF x, m
  <2>2. /\ Tiles(n, S) /\ SameObjects(m, n, S)
        /\ \A q \in S : EndOf(n, q) = EndOf(m, q) /\ Behind(n, q) = Behind(m, q)
        /\ n[e] = x /\ \A q \in S \ {p} : n[EndOf(m, q)] = m[EndOf(m, q)]
    BY <2>1, EndWritten
  <2>. QED BY <2>2
<1>4. x # 0
  BY <1>1, ObjectIs
<1>5. FreeIn(n, S) = FreeIn(m, S) \cup {p} /\ HeldIn(n, S) = HeldIn(m, S) \ {p}
  BY <1>1, <1>3, <1>4 DEF FreeIn, HeldIn
<1>6. (\A q \in FreeIn(m, S) : Size(g, q) = Size(h, q)) /\ Size(g, p) = Size(h, p)
  BY <1>1, <1>3 DEF FreeIn, Size, SameObjects, n
<1>7. p \notin FreeIn(m, S)
  BY <1>1 DEF FreeIn
<1>8. Lists(g, FreeIn(m, S) \cup {p}) /\ g.bins \in [0 .. Bins -> Seq(Nat)]
  <2>. DEFINE F == FreeIn(m, S)
  <2>1. /\ h \in Heaps /\ p \in Nat /\ Lists(h, F) /\ p \notin F /\ Size(h, p) \in Nat
        /\ Size(g, p) = Size(h, p) /\ \A q \in F : Size(g, q) = Size(h, q)
    BY <1>1, <1>6, <1>7
  <2>2. g.bins = [h.bins EXCEPT ![BinOf(Size(h, p))] = <<p>> \o @]
    BY <1>2
  <2>. HIDE DEF F
  <2>3. Lists(g, F \cup {p}) /\ g.bins \in [0 .. Bins -> Seq(Nat)]
    BY <2>1, <2>2, ListsAdded
  <2>. QED BY <2>3 DEF F
<1>9. g \in Heaps
  <2>1. n \in Memories
    BY <1>3 DEF Tiles
  <2>2. h.usage \in Int /\ g = [mem |-> n, bins |-> g.bins, usage |-> h.usage]
    BY <1>1, <1>2
  <2>. QED BY <1>8, <2>1, <2>2 DEF Heaps
<1>10. Sound(g, S)
  BY <1>3, <1>5, <1>8, <1>9 DEF Sound, n
<1>11. \A w \in 0 .. HeapSize - 1 : w # e => n[w] = m[w]
  <2>. HIDE DEF e, m, x
  <2>. QED BY <1>1, <1>2 DEF Memories
<1>. QED BY <1>2, <1>3, <1>5, <1>10, <1>11 DEF g, n

(* What a change of the heap h, of objects S, into g, of objects T, leaves *)
(* of the objects in use, but for p.                                       *)
HeldSame(h, g, S, T, p) ==
  /\ \A q \in HeldIn(h.mem, S) : q # p =>
       q \in HeldIn(g.mem, T) /\ g.mem[q - 1] = h.mem[q - 1] /\ g.mem[q] = h.mem[q]
  /\ \A q \in HeldIn(g.mem, T) : q # p => q \in HeldIn(h.mem, S)

LEMMA HeldSameTwice ==
  ASSUME NEW h, NEW g, NEW k, NEW S, NEW T, NEW U, NEW p,
         HeldSame(h, g, S, T, p), HeldSame(g, k, T, U, p)
  PROVE  HeldSame(h, k, S, U, p)
BY DEF HeldSame

LEMMA Joined ==
  ASSUME NEW h, NEW S, Sound(h, S), NEW a \in HeldIn(h.mem, S), NEW b \in HeldIn(h.mem, S),
         Behind(h.mem, a) = b, NEW n, JoinedAt(h.mem, n, a, b)
  PROVE  LET g == [h EXCEPT !.mem = n] IN
         /\ Sound(g, S \ {b}) /\ a # b
         /\ FreeIn(g.mem, S \ {b}) = FreeIn(h.mem, S) /\ HeldIn(g.mem, S \ {b}) = HeldIn(h.mem, S) \ {b}
<1>. DEFINE g == [h EXCEPT !.mem = n]
            m == h.mem
            T == S \ {b}
<1>1. /\ Tiles(m, S) /\ h \in Heaps /\ h = [mem |-> h.mem, bins |-> h.bins, usage |-> h.usage]
      /\ a \in S /\ b \in S /\ Lists(h, FreeIn(m, S))
  BY SoundIs DEF HeldIn, Sound
<1>2. g.mem = n /\ g.bins = h.bins /\ g.usage = h.usage
      /\ g = [mem |-> n, bins |-> h.bins, usage |-> h.usage]
  BY <1>1
<1>. HIDE DEF g
<1>3. a # b /\ Tiles(n, T) /\ OthersSame(m, n, T, a) /\ n[EndOf(n, a)] = 0
  <2>. HIDE DEF m
  <2>1. Tiles(m, S) /\ a \in S /\ b \in S /\ Behind(m, a) = b /\ JoinedAt(m, n, a, b)
    BY <1>1 DEF m
  <2>. QED BY ONLY <2>1, JoinTiles
<1>4. m[EndOf(m, a)] = 0 /\ m[EndOf(m, b)] = 0
  BY DEF HeldIn
<1>5. FreeIn(n, T) = FreeIn(m, S) /\ HeldIn(n, T) = HeldIn(m, S) \ {b}
  BY <1>1, <1>3, <1>4 DEF FreeIn, HeldIn, OthersSame
<1>6. \A q \in FreeIn(m, S) : Size(g, q) = Size(h, q)
  BY <1>2, <1>3, <1>4 DEF FreeIn, OthersSame, Size
<1>7. Lists(g, FreeIn(n, T))
  BY <1>1, <1>2, <1>5, <1>6, ListsOfSame
<1>8. g \in Heaps
  <2>1. n \in Memories
    BY <1>3 DEF Tiles
  <2>. QED BY <1>1, <1>2, <2>1 DEF Heaps
<1>. QED BY <1>2, <1>3, <1>5, <1>7, <1>8 DEF g, Sound

PairsIn(m, S) == {x \in FreeIn(m, S) : Behind(m, x) \in FreeIn(m, S)}

MergeGives(h, S, a, b, g, T) ==
  /\ Sound(g, T) /\ a # b /\ g.usage = h.usage /\ \A p : HeldSame(h, g, S, T, p)
  /\ FreeIn(g.mem, T) = FreeIn(h.mem, S) \ {b}
  /\ Behind(g.mem, a) = Behind(h.mem, b)
  /\ \A q \in T : q # a => Behind(g.mem, q) = Behind(h.mem, q)
  /\ g.mem[EndOf(h.mem, a)] = 0

(* merge_fwd and merge_bwd                                                 *)
LEMMA Merged ==
  ASSUME NEW h, NEW S, Sound(h, S), NEW a \in FreeIn(h.mem, S), NEW b \in FreeIn(h.mem, S),
         Behind(h.mem, a) = b, NEW g, g = Merge(h, a, b), NEW T, T = S \ {b}
  PROVE  MergeGives(h, S, a, b, g, T)
<1>. DEFINE g1 == RemoveFromBin(h, a)
            g2 == RemoveFromBin(g1, b)
            size == Size(h, a) + Size(h, b) + 2
            n == [g2.mem EXCEPT ![a - 1] = size, ![a + size] = 0]
            g3 == [g2 EXCEPT !.mem = n]
            g4 == AddToBin(g3, a)
<1>1. /\ a \in S /\ b \in S /\ a # b /\ Tiles(h.mem, S) /\ Size(h, a) = h.mem[a - 1]
      /\ Size(h, b) = h.mem[b - 1] /\ a \notin HeldIn(h.mem, S) /\ b \notin HeldIn(h.mem, S)
  <2>1. a \in S /\ b \in S
    BY DEF FreeIn
  <2>2. a # Behind(h.mem, a)
    <3>. DEFINE e == EndOf(h.mem, a)
    <3>1. Behind(h.mem, a) = e + 2 /\ e \in a + 4 .. HeapSize - 1 /\ a \in 1 .. HeapSize - 1
      BY <2>1, SoundIs, ObjectIs
    <3>. HIDE DEF e
    <3>2. HeapSize \in Int /\ a # e + 2
      BY <3>1, MinBinSizeIs
    <3>. QED BY <3>1, <3>2
  <2>. QED BY <2>1, <2>2, SoundIs
<1>2. /\ Sound(g1, S) /\ SameObjects(h.mem, g1.mem, S) /\ g1.usage = h.usage
      /\ FreeIn(g1.mem, S) = FreeIn(h.mem, S) \ {a} /\ HeldIn(g1.mem, S) = HeldIn(h.mem, S) \cup {a}
      /\ \A q \in S : EndOf(g1.mem, q) = EndOf(h.mem, q) /\ Behind(g1.mem, q) = Behind(h.mem, q)
  BY Removed
<1>. HIDE DEF g1
<1>3. /\ Sound(g2, S) /\ SameObjects(g1.mem, g2.mem, S) /\ g2.usage = g1.usage
      /\ FreeIn(g2.mem, S) = FreeIn(g1.mem, S) \ {b} /\ HeldIn(g2.mem, S) = HeldIn(g1.mem, S) \cup {b}
      /\ \A q \in S : EndOf(g2.mem, q) = EndOf(g1.mem, q) /\ Behind(g2.mem, q) = Behind(g1.mem, q)
  <2>1. b \in FreeIn(g1.mem, S)
    BY <1>1, <1>2
  <2>. QED BY <1>2, <2>1, Removed
<1>4. g = g4
  <2>1. g = AddToBin([g2 EXCEPT !.mem[a - 1] = size, !.mem[a + size] = 0], a)
    BY DEF Merge, g1
  <2>2. g2 = [mem |-> g2.mem, bins |-> g2.bins, usage |-> g2.usage]
    BY <1>3, SoundIs
  <2>. HIDE DEF g2, size
  <2>3. [g2 EXCEPT !.mem[a - 1] = size, !.mem[a + size] = 0] = g3
    BY <2>2
  <2>. QED BY <2>1, <2>3
<1>. HIDE DEF g2
<1>5. /\ JoinedAt(g2.mem, n, a, b) /\ a \in HeldIn(g2.mem, S) /\ b \in HeldIn(g2.mem, S)
      /\ Behind(g2.mem, a) = b
  <2>1. g2.mem[a - 1] = h.mem[a - 1] /\ g2.mem[b - 1] = h.mem[b - 1]
    BY <1>1, <1>2, <1>3 DEF SameObjects
  <2>2. JoinedAt(g2.mem, n, a, b)
    BY <1>1, <2>1 DEF JoinedAt
  <2>. QED BY <1>1, <1>2, <1>3, <2>2
<1>. HIDE DEF n
<1>6. /\ Sound(g3, T) /\ FreeIn(g3.mem, T) = FreeIn(g2.mem, S)
      /\ HeldIn(g3.mem, T) = HeldIn(g2.mem, S) \ {b} /\ g3.mem = n /\ g3.usage = g2.usage
  <2>1. Sound(g3, S \ {b}) /\ FreeIn(g3.mem, S \ {b}) = FreeIn(g2.mem, S)
        /\ HeldIn(g3.mem, S \ {b}) = HeldIn(g2.mem, S) \ {b}
    BY <1>3, <1>5, Joined
  <2>2. g2 = [mem |-> g2.mem, bins |-> g2.bins, usage |-> g2.usage]
    BY <1>3, SoundIs
  <2>3. g3.mem = n /\ g3.usage = g2.usage
    BY <2>2
  <2>. QED BY <2>1, <2>3
<1>7. /\ OthersSame(g2.mem, n, T, a) /\ EndOf(n, a) = EndOf(g2.mem, b)
      /\ Behind(n, a) = Behind(g2.mem, b)
      /\ \A w \in 0 .. HeapSize - 1 : w # a - 1 /\ w # EndOf(g2.mem, b) => n[w] = g2.mem[w]
  <2>. DEFINE m == g2.mem
  <2>1. Tiles(m, S) /\ JoinedAt(m, n, a, b) /\ Behind(m, a) = b
    BY <1>3, <1>5, SoundIs
  <2>. HIDE DEF m
  <2>2. /\ OthersSame(m, n, S \ {b}, a) /\ EndOf(n, a) = EndOf(m, b) /\ Behind(n, a) = Behind(m, b)
        /\ \A w \in 0 .. HeapSize - 1 : w # a - 1 /\ w # EndOf(m, b) => n[w] = m[w]
    BY <1>1, <2>1, JoinTiles
  <2>. QED BY <2>2 DEF m
<1>. HIDE DEF g3
<1>8. /\ Sound(g4, T) /\ SameObjects(g3.mem, g4.mem, T) /\ g4.usage = g3.usage
      /\ FreeIn(g4.mem, T) = FreeIn(g3.mem, T) \cup {a} /\ HeldIn(g4.mem, T) = HeldIn(g3.mem, T) \ {a}
      /\ \A q \in T : EndOf(g4.mem, q) = EndOf(g3.mem, q) /\ Behind(g4.mem, q) = Behind(g3.mem, q)
      /\ \A w \in 0 .. HeapSize - 1 : w # EndOf(g3.mem, a) => g4.mem[w] = g3.mem[w]
  <2>1. a \in HeldIn(g3.mem, T)
    BY <1>1, <1>5, <1>6
  <2>2. Sound(g3, T)
    BY <1>6
  <2>. QED BY ONLY <2>1, <2>2, Added
<1>. HIDE DEF g4
<1>9. FreeIn(g4.mem, T) = FreeIn(h.mem, S) \ {b} /\ HeldIn(g4.mem, T) = HeldIn(h.mem, S)
  BY <1>1, <1>2, <1>3, <1>6, <1>8
<1>10. ASSUME NEW q \in T, q # a
       PROVE  Behind(g4.mem, q) = Behind(h.mem, q) /\ g4.mem[q - 1] = h.mem[q - 1] /\ g4.mem[q] = h.mem[q]
  <2>1. q \in S
    OBVIOUS
  <2>2. Behind(g4.mem, q) = Behind(n, q) /\ g4.mem[q - 1] = n[q - 1] /\ g4.mem[q] = n[q]
    BY <1>6, <1>8 DEF SameObjects
  <2>3. Behind(n, q) = Behind(g2.mem, q) /\ n[q - 1] = g2.mem[q - 1] /\ n[q] = g2.mem[q]
    BY <1>7, <1>10 DEF OthersSame
  <2>4. Behind(g2.mem, q) = Behind(h.mem, q) /\ g2.mem[q - 1] = h.mem[q - 1] /\ g2.mem[q] = h.mem[q]
    BY <1>2, <1>3, <2>1 DEF SameObjects
  <2>. QED BY <2>2, <2>3, <2>4
<1>11. Behind(g4.mem, a) = Behind(h.mem, b)
  <2>1. a \in T
    BY <1>1
  <2>. QED BY <1>1, <1>2, <1>3, <1>6, <1>7, <1>8, <2>1
<1>12. g4.mem[EndOf(h.mem, a)] = 0
  <2>. DEFINE e == EndOf(h.mem, a)
              f == EndOf(h.mem, b)
  <2>1. e = EndOf(g2.mem, a) /\ f = EndOf(g2.mem, b) /\ f = EndOf(n, a) /\ g2.mem[e] = 0
    BY <1>1, <1>2, <1>3, <1>5, <1>7 DEF HeldIn
  <2>2. e # f
    BY <1>1, ObjectsApart
  <2>3. e \in 0 .. HeapSize - 1 /\ e # a - 1
    <3>1. e \in a + 4 .. HeapSize - 1 /\ a \in 1 .. HeapSize - 1 /\ HeapSize \in Int
      BY <1>1, ObjectIs
    <3>. HIDE DEF e
    <3>. QED BY <3>1
  <2>. HIDE DEF e, f
  <2>4. n[e] = g2.mem[e] /\ g4.mem[e] = n[e]
    BY <1>6, <1>7, <1>8, <2>1, <2>2, <2>3
  <2>. QED BY <2>1, <2>4 DEF e
<1>13. ASSUME NEW p PROVE HeldSame(h, g4, S, T, p)
  <2>1. \A q \in HeldIn(h.mem, S) : q \in T /\ q # a
    BY <1>1 DEF HeldIn
  <2>. QED BY <1>9, <1>10, <2>1 DEF HeldSame
<1>14. g4.usage = h.usage
  BY <1>2, <1>3, <1>6, <1>8
<1>. QED BY <1>1, <1>4, <1>8, <1>9, <1>10, <1>11, <1>12, <1>13, <1>14 DEF MergeGives

-----------------------------------------------------------------------------
(* jit_malloc *)
LEMMA AlignedIs ==
  ASSUME NEW n \in Nat
  PROVE  Aligned(n) \in Nat /\ Aligned(n) >= n /\ Aligned(n) >= MinBinSize(0)
<1>. DEFINE m == 2 * ((n + 1) \div 2)
<1>1. m \in Nat /\ m >= n
  OBVIOUS
<1>2. Aligned(n) = IF m < MinBinSize(0) THEN MinBinSize(0) ELSE m
  BY DEF Aligned
<1>3. 0 \in 0 .. Bins
  BY MinBinSizeIs
<1>4. MinBinSize(0) \in Nat
  BY <1>3, MinBinSizeIs
<1>. HIDE DEF m
<1>. QED BY <1>1, <1>2, <1>4

(* find_memory and find_memory_bigbin find a free object large enough.     *)
LEMMA FindMemoryIs ==
  ASSUME NEW h, NEW S, Sound(h, S), NEW size \in Nat, FindMemory(h, size) # Null
  PROVE  /\ FindMemory(h, size) \in FreeIn(h.mem, S)
         /\ Size(h, FindMemory(h, size)) >= size
<1>. DEFINE F == FreeIn(h.mem, S)
            fit == {b \in 0 .. Bins - 1 : MinBinSize(b) >= size /\ h.bins[b] # <<>>}
            big == h.bins[BigBin]
            large == {i \in DOMAIN big : Size(h, big[i]) >= size}
<1>1. Bins \in Nat /\ \A b \in 0 .. Bins : MinBinSize(b) \in Nat
  BY MinBinSizeIs
<1>2. ASSUME NEW b \in 0 .. Bins
      PROVE  h.bins[b] \in Seq(Nat) /\ Listed(h.bins[b]) = {p \in F : BinOf(Size(h, p)) = b}
  <2>1. h.bins \in [0 .. Bins -> Seq(Nat)]
    BY SoundIs
  <2>2. Lists(h, F)
    BY DEF Sound
  <2>. QED BY <2>1, <2>2 DEF Lists
<1>3. \A p \in F : p \in S /\ Size(h, p) \in Nat /\ Size(h, p) >= MinBinSize(0)
  <2>1. \A p \in S : h.mem[p - 1] >= MinBinSize(0) /\ Size(h, p) = h.mem[p - 1] /\ Size(h, p) \in Nat
    BY SoundIs, ObjectIs
  <2>. QED BY <2>1 DEF FreeIn
<1>4. CASE fit # {}
  <2>. DEFINE c == CHOOSE b \in fit : \A a \in fit : b <= a
  <2>1. fit \in SUBSET Nat
    BY <1>1
  <2>2. c \in fit
    <3>. HIDE DEF fit
    <3>1. \E b \in fit : \A a \in fit : b <= a
      BY <1>4, <2>1, NaturalsAreLeast
    <3>. QED BY <3>1
  <2>3. FindMemory(h, size) = Head(h.bins[c])
    BY <1>4 DEF FindMemory
  <2>. HIDE DEF c
  <2>4. c \in 0 .. Bins - 1 /\ c \in 0 .. Bins /\ MinBinSize(c) >= size /\ h.bins[c] # <<>>
    BY <1>1, <2>2
  <2>. DEFINE t == h.bins[c]
              p == Head(t)
  <2>5. p \in Listed(t)
    <3>1. t \in Seq(Nat) /\ t # <<>>
      BY <1>2, <2>4
    <3>. HIDE DEF t
    <3>2. 1 \in DOMAIN t /\ p = t[1]
      BY <3>1
    <3>. QED BY <3>2 DEF Listed
  <2>6. p \in F /\ BinOf(Size(h, p)) = c
    BY <1>2, <2>4, <2>5
  <2>. HIDE DEF p
  <2>7. Size(h, p) >= MinBinSize(c)
    <3>1. CASE c = 0
      BY <1>3, <2>6, <3>1
    <3>2. CASE c # 0
      <4>1. c \in 1 .. Bins /\ Size(h, p) \in Nat
        BY <1>1, <1>3, <2>4, <2>6, <3>2
      <4>. QED BY <2>6, <4>1, BinOfIs
    <3>. QED BY <3>1, <3>2
  <2>8. Size(h, p) \in Nat /\ MinBinSize(c) \in Nat
    BY <1>1, <1>3, <2>4, <2>6
  <2>9. Size(h, p) >= size
    BY <2>4, <2>7, <2>8
  <2>. QED BY <2>3, <2>6, <2>9 DEF p
<1>5. CASE fit = {}
  <2>. DEFINE c == CHOOSE i \in large : \A j \in large :
                     \/ Size(h, big[i]) < Size(h, big[j])
                     \/ Size(h, big[i]) = Size(h, big[j]) /\ i <= j
              Best(k) == \A j \in large :
                     \/ Size(h, big[k]) < Size(h, big[j])
                     \/ Size(h, big[k]) = Size(h, big[j]) /\ k <= j
  <2>1. large # {} /\ FindMemory(h, size) = big[c]
    <3>1. FindMemory(h, size) = IF large = {} THEN Null ELSE big[c]
      <4>1. FindMemory(h, size) =
              IF fit # {} THEN Head(h.bins[CHOOSE b \in fit : \A a \in fit : b <= a])
              ELSE IF large = {} THEN Null ELSE big[c]
        BY ZenonT(60) DEF FindMemory
      <4>. HIDE DEF fit, large, big, c
      <4>. QED BY <1>5, <4>1
    <3>. HIDE DEF large, big, c
    <3>. QED BY <3>1
  <2>. HIDE DEF c
  <2>2. big \in Seq(Nat) /\ Listed(big) = {p \in F : BinOf(Size(h, p)) = Bins}
    BY <1>1, <1>2 DEF BigBin
  <2>3. ASSUME NEW i \in large
        PROVE  i \in Nat /\ big[i] \in F /\ Size(h, big[i]) \in Nat /\ Size(h, big[i]) >= size
    <3>1. i \in DOMAIN big /\ Size(h, big[i]) >= size
      OBVIOUS
    <3>2. big[i] \in Listed(big) /\ i \in Nat
      BY <2>2, <3>1 DEF Listed
    <3>. QED BY <1>3, <2>2, <3>1, <3>2
  <2>. DEFINE sz(i) == Size(h, big[i])
              V == {sz(i) : i \in large}
  <2>. HIDE DEF big, large
  <2>4. PICK v \in V : \A u \in V : v <= u
    <3>1. V \in SUBSET Nat /\ V # {}
      BY <2>1, <2>3
    <3>. HIDE DEF V
    <3>. QED BY <3>1, NaturalsAreLeast
  <2>. DEFINE I == {i \in large : sz(i) = v}
  <2>5. PICK i \in I : \A j \in I : i <= j
    <3>1. I \in SUBSET Nat /\ I # {}
      BY <2>3, <2>4
    <3>. HIDE DEF I
    <3>. QED BY <3>1, NaturalsAreLeast
  <2>6. ASSUME NEW j \in large PROVE sz(i) < sz(j) \/ (sz(i) = sz(j) /\ i <= j)
    <3>1. sz(j) \in V /\ v <= sz(j) /\ sz(i) = v /\ sz(j) \in Nat /\ v \in Nat
      BY <2>3, <2>4, <2>5
    <3>2. sz(j) = v => j \in I
      OBVIOUS
    <3>. HIDE DEF sz, V, I
    <3>. QED BY <2>5, <3>1, <3>2
  <2>7. i \in large
    BY <2>5
  <2>9. Best(i)
    <3>1. ASSUME NEW j \in large
          PROVE  \/ Size(h, big[i]) < Size(h, big[j])
                 \/ Size(h, big[i]) = Size(h, big[j]) /\ i <= j
      BY <2>6
    <3>. QED BY <3>1
  <2>10. c = CHOOSE k \in large : Best(k)
    BY ZenonT(60) DEF c
  <2>. HIDE DEF Best, V, I
  <2>8. c \in large
    BY <2>7, <2>9, <2>10
  <2>. QED BY <2>1, <2>3, <2>8
<1>. QED BY <1>4, <1>5

(* What jit_malloc makes of the heap h: g, where p has at least n words.   *)
Allocated(h, g, S, T, p, n) ==
  /\ Sound(g, T) /\ PairsIn(g.mem, T) = {}
  /\ p \in HeldIn(g.mem, T) /\ HeldSame(h, g, S, T, p)
  /\ g.mem[p - 1] >= n /\ g.usage = h.usage + g.mem[p - 1]

CanSplit(h, S, p, size, n, q, k) ==
  /\ k = [h EXCEPT !.mem = n] /\ Sound(h, S) /\ p \in HeldIn(h.mem, S) /\ size \in Nat
  /\ size >= MinBinSize(0) /\ h.mem[p - 1] - size - 2 >= MinBinSize(0)
  /\ SplitAt(h.mem, n, p, size) /\ q = p + size + 2

HasSplit(h, S, p, size, n, q, k) ==
  /\ Sound(k, S \cup {q}) /\ q \notin S
  /\ FreeIn(n, S \cup {q}) = FreeIn(h.mem, S) /\ HeldIn(n, S \cup {q}) = HeldIn(h.mem, S) \cup {q}
  /\ OthersSame(h.mem, n, S, p) /\ n[p - 1] = size
  /\ Behind(n, p) = q /\ Behind(n, q) = Behind(h.mem, p)

LEMMA Splits ==
  ASSUME NEW h, NEW S, NEW p, NEW size, NEW n, NEW q, NEW k, CanSplit(h, S, p, size, n, q, k)
  PROVE  HasSplit(h, S, p, size, n, q, k)
<1>. DEFINE m == h.mem
            T == S \cup {q}
<1>0. /\ k = [h EXCEPT !.mem = n] /\ Sound(h, S) /\ p \in HeldIn(h.mem, S) /\ size \in Nat
      /\ size >= MinBinSize(0) /\ h.mem[p - 1] - size - 2 >= MinBinSize(0)
      /\ SplitAt(h.mem, n, p, size) /\ q = p + size + 2
  BY DEF CanSplit
<1>1. /\ Tiles(m, S) /\ h \in Heaps /\ h = [mem |-> h.mem, bins |-> h.bins, usage |-> h.usage]
      /\ p \in S /\ Lists(h, FreeIn(m, S)) /\ m[EndOf(m, p)] = 0
  BY <1>0, SoundIs DEF HeldIn, Sound
<1>2. k.mem = n /\ k.bins = h.bins /\ k.usage = h.usage
      /\ k = [mem |-> n, bins |-> h.bins, usage |-> h.usage]
  BY <1>0, <1>1
<1>3. /\ Tiles(n, T) /\ q \notin S /\ OthersSame(m, n, S, p)
      /\ n[p - 1] = size /\ n[EndOf(n, p)] = 0 /\ n[EndOf(n, q)] = 0
      /\ Behind(n, p) = q /\ Behind(n, q) = Behind(m, p)
  <2>1. /\ Tiles(m, S) /\ p \in S /\ m[EndOf(m, p)] = 0 /\ size \in Nat /\ size >= MinBinSize(0)
        /\ m[p - 1] - size - 2 >= MinBinSize(0) /\ SplitAt(m, n, p, size) /\ q = p + size + 2
    BY <1>0, <1>1
  <2>. HIDE DEF m
  <2>2. Splitting(m, S, p, size, n, q)
    BY <2>1 DEF Splitting
  <2>. HIDE DEF T
  <2>5. /\ Tiles(n, S \cup {q}) /\ q \notin S /\ OthersSame(m, n, S, p)
        /\ n[p - 1] = size /\ n[EndOf(n, p)] = 0 /\ n[EndOf(n, q)] = 0
        /\ Behind(n, p) = q /\ Behind(n, q) = Behind(m, p)
    <3>1. SplitIn(m, S, p, size, n, q)
      BY ONLY <2>2, SplitTiles
    <3>. QED BY <3>1 DEF SplitIn
  <2>. QED BY <2>5 DEF T
<1>4. FreeIn(n, T) = FreeIn(m, S) /\ HeldIn(n, T) = HeldIn(m, S) \cup {q}
  BY <1>1, <1>3 DEF FreeIn, HeldIn, OthersSame
<1>5. \A x \in FreeIn(m, S) : Size(k, x) = Size(h, x)
  BY <1>1, <1>2, <1>3 DEF FreeIn, OthersSame, Size
<1>6. Lists(k, FreeIn(n, T))
  BY <1>1, <1>2, <1>4, <1>5, ListsOfSame
<1>7. k \in Heaps
  <2>1. n \in Memories
    BY <1>3 DEF Tiles
  <2>. QED BY <1>1, <1>2, <2>1 DEF Heaps
<1>8. Sound(k, T)
  BY <1>2, <1>3, <1>6, <1>7 DEF Sound
<1>. QED BY <1>2, <1>3, <1>4, <1>8 DEF HasSplit

(* shrink_object *)
ShrunkTo(h, g, S, T, p, size) ==
  /\ Sound(g, T) /\ PairsIn(g.mem, T) = {} /\ p \in HeldIn(g.mem, T)
  /\ HeldSame(h, g, S, T, p) /\ g.mem[p - 1] >= size /\ g.usage = h.usage

LEMMA Shrunk ==
  ASSUME NEW h, NEW S, Sound(h, S), NEW p \in HeldIn(h.mem, S), NEW size \in Nat,
         size >= MinBinSize(0), Size(h, p) >= size,
         PairsIn(h.mem, S) = {}, Behind(h.mem, p) \notin FreeIn(h.mem, S)
  PROVE  \E T : ShrunkTo(h, Shrink(h, p, size), S, T, p, size)
<1>. DEFINE rest == Size(h, p) - size - 2
            q == p + size + 2
            m == h.mem
            n == [m EXCEPT ![p - 1] = size, ![p + size] = 0, ![p + size + 1] = rest]
            k == [h EXCEPT !.mem = n]
            g == AddToBin(k, q)
            T == S \cup {q}
<1>1. /\ p \in S /\ Size(h, p) = m[p - 1] /\ Tiles(m, S) /\ Size(h, p) \in Nat /\ p \in Nat
      /\ h = [mem |-> h.mem, bins |-> h.bins, usage |-> h.usage]
  BY SoundIs DEF HeldIn
<1>2. CASE rest <= MinBinSize(0)
  <2>1. Shrink(h, p, size) = h
    BY <1>2 DEF Shrink
  <2>2. ShrunkTo(h, h, S, S, p, size)
    BY <1>1 DEF ShrunkTo, HeldSame
  <2>. QED BY <2>1, <2>2
<1>3. CASE ~(rest <= MinBinSize(0))
  <2>1. rest >= MinBinSize(0) /\ rest = m[p - 1] - size - 2
    <3>1. MinBinSize(0) \in Int /\ rest \in Int
      BY <1>1, MinBinSizeIs
    <3>. HIDE DEF rest
    <3>2. rest >= MinBinSize(0)
      BY <1>3, <3>1
    <3>. QED BY <1>1, <3>2 DEF rest
  <2>2. SplitAt(m, n, p, size)
    BY <2>1 DEF SplitAt
  <2>3. Shrink(h, p, size) = g
    <3>1. Shrink(h, p, size) =
            AddToBin([h EXCEPT !.mem[p - 1] = size, !.mem[p + size] = 0, !.mem[p + size + 1] = rest], q)
      BY <1>3 DEF Shrink
    <3>. HIDE DEF rest
    <3>2. [h EXCEPT !.mem[p - 1] = size, !.mem[p + size] = 0, !.mem[p + size + 1] = rest] = k
      BY <1>1
    <3>. QED BY <3>1, <3>2
  <2>. HIDE DEF n
  <2>4. /\ Sound(k, T) /\ q \notin S /\ k.mem = n /\ k.usage = h.usage
        /\ FreeIn(n, T) = FreeIn(m, S) /\ HeldIn(n, T) = HeldIn(m, S) \cup {q}
        /\ OthersSame(m, n, S, p) /\ n[p - 1] = size
        /\ Behind(n, p) = q /\ Behind(n, q) = Behind(m, p)
    <3>1. h.mem[p - 1] - size - 2 >= MinBinSize(0)
      BY <2>1
    <3>. DEFINE r == q
    <3>2. r = p + size + 2
      OBVIOUS
    <3>. HIDE DEF r, q, rest
    <3>3. SplitAt(h.mem, n, p, size)
      BY <2>2
    <3>7. CanSplit(h, S, p, size, n, r, k)
      BY <3>1, <3>2, <3>3 DEF CanSplit
    <3>4. HasSplit(h, S, p, size, n, r, k)
      <4>. HIDE DEF k
      <4>. QED BY ONLY <3>7, Splits
    <3>6. k.mem = n /\ k.usage = h.usage
      BY <1>1
    <3>. HIDE DEF k
    <3>. QED BY <3>4, <3>6 DEF r, HasSplit
  <2>. HIDE DEF k
  <2>5. /\ Sound(g, T) /\ SameObjects(n, g.mem, T) /\ g.usage = k.usage
        /\ FreeIn(g.mem, T) = FreeIn(m, S) \cup {q}
        /\ HeldIn(g.mem, T) = (HeldIn(m, S) \cup {q}) \ {q}
        /\ \A x \in T : Behind(g.mem, x) = Behind(n, x)
    <3>1. q \in HeldIn(k.mem, T)
      BY <2>4
    <3>. HIDE DEF q, T, g
    <3>2. LET gg == AddToBin(k, q) IN
         /\ Sound(gg, T) /\ SameObjects(k.mem, gg.mem, T) /\ gg.usage = k.usage
         /\ FreeIn(gg.mem, T) = FreeIn(k.mem, T) \cup {q} /\ HeldIn(gg.mem, T) = HeldIn(k.mem, T) \ {q}
         /\ \A x \in T : EndOf(gg.mem, x) = EndOf(k.mem, x) /\ Behind(gg.mem, x) = Behind(k.mem, x)
      BY <2>4, <3>1, Added
    <3>. QED BY <2>4, <3>2 DEF g
  <2>. HIDE DEF g
  <2>6. HeldIn(g.mem, T) = HeldIn(m, S) /\ p \in HeldIn(g.mem, T)
    BY <2>4, <2>5 DEF HeldIn
  <2>7. \A x \in S : x # p => /\ Behind(g.mem, x) = Behind(m, x) /\ g.mem[x - 1] = m[x - 1]
                              /\ g.mem[x] = m[x]
    BY <2>4, <2>5 DEF OthersSame, SameObjects
  <2>8. PairsIn(g.mem, T) = {}
    <3>1. ASSUME NEW x \in FreeIn(g.mem, T), Behind(g.mem, x) \in FreeIn(g.mem, T) PROVE FALSE
      <4>. DEFINE y == Behind(g.mem, x)
      <4>1. CASE x = q
        <5>1. y = Behind(m, p) /\ y # q
          <6>1. y = Behind(m, p)
            BY <2>4, <2>5, <4>1
          <6>2. y \in S \cup {HeapSize + 1}
            BY <1>1, <6>1, ObjectIs
          <6>3. q \in 1 .. HeapSize - 1 /\ HeapSize \in Int
            BY <2>4, MinBinSizeIs DEF Tiles, Sound
          <6>. HIDE DEF y
          <6>4. q # HeapSize + 1
            BY <6>3
          <6>. QED BY <2>4, <6>1, <6>2, <6>4
        <5>. QED BY <2>5, <3>1, <5>1
      <4>2. CASE x # q
        <5>1. x \in FreeIn(m, S) /\ x # p /\ x \in S
          BY <2>5, <4>2 DEF FreeIn, HeldIn
        <5>2. y = Behind(m, x) /\ y \in S \cup {HeapSize + 1}
          BY <1>1, <2>7, <5>1, ObjectIs
        <5>3. y \in FreeIn(m, S) \/ y = q
          BY <2>5, <3>1
        <5>4. y # q
          <6>3. q \in 1 .. HeapSize - 1 /\ HeapSize \in Int
            BY <2>4, MinBinSizeIs DEF Tiles, Sound
          <6>. HIDE DEF y
          <6>4. q # HeapSize + 1
            BY <6>3
          <6>. QED BY <2>4, <5>2, <6>4
        <5>. QED BY <5>1, <5>2, <5>3, <5>4 DEF PairsIn
      <4>. QED BY <4>1, <4>2
    <3>. QED BY <3>1 DEF PairsIn
  <2>9. HeldSame(h, g, S, T, p)
    <3>1. HeldIn(m, S) \subseteq S
      BY DEF HeldIn
    <3>. QED BY <2>6, <2>7, <3>1 DEF HeldSame
  <2>10. g.mem[p - 1] >= size
    BY <1>1, <2>4, <2>5 DEF SameObjects
  <2>11. ShrunkTo(h, g, S, T, p, size)
    BY <2>4, <2>5, <2>6, <2>8, <2>9, <2>10 DEF ShrunkTo
  <2>. QED BY <2>3, <2>11
<1>. QED BY <1>2, <1>3

LEMMA MallocIs ==
  ASSUME NEW h, NEW S, Sound(h, S), PairsIn(h.mem, S) = {}, NEW n \in Nat,
         NEW p \in FreeIn(h.mem, S), Size(h, p) >= Aligned(n)
  PROVE  \E T : Allocated(h, Malloc(h, p, n), S, T, p, n)
<1>. DEFINE g1 == RemoveFromBin(h, p)
            g2 == Shrink(g1, p, Aligned(n))
            g3 == [g2 EXCEPT !.usage = @ + Size(g2, p)]
<1>1. /\ Sound(g1, S) /\ SameObjects(h.mem, g1.mem, S) /\ g1.usage = h.usage
      /\ FreeIn(g1.mem, S) = FreeIn(h.mem, S) \ {p} /\ HeldIn(g1.mem, S) = HeldIn(h.mem, S) \cup {p}
      /\ \A q \in S : Behind(g1.mem, q) = Behind(h.mem, q)
  BY Removed
<1>2. Malloc(h, p, n) = g3
  BY DEF Malloc
<1>. HIDE DEF g1
<1>3. p \in S /\ Size(g1, p) = Size(h, p)
  BY <1>1 DEF FreeIn, SameObjects, Size
<1>4. Aligned(n) \in Nat /\ Aligned(n) >= n /\ Aligned(n) >= MinBinSize(0)
  BY AlignedIs
<1>5. PairsIn(g1.mem, S) = {} /\ Behind(g1.mem, p) \notin FreeIn(g1.mem, S)
  BY <1>1, <1>3 DEF PairsIn, FreeIn
<1>6. PICK T : ShrunkTo(g1, g2, S, T, p, Aligned(n))
  <2>. DEFINE a == Aligned(n)
  <2>1. a \in Nat /\ a >= MinBinSize(0) /\ Size(g1, p) >= a /\ p \in HeldIn(g1.mem, S)
    BY <1>1, <1>3, <1>4
  <2>. HIDE DEF a
  <2>2. \E T : ShrunkTo(g1, Shrink(g1, p, a), S, T, p, a)
    BY <1>1, <1>5, <2>1, Shrunk
  <2>. QED BY <2>2 DEF a
<1>. HIDE DEF g2
<1>7. /\ Sound(g2, T) /\ PairsIn(g2.mem, T) = {} /\ p \in HeldIn(g2.mem, T)
      /\ HeldSame(g1, g2, S, T, p) /\ g2.mem[p - 1] >= Aligned(n) /\ g2.usage = h.usage
  BY <1>1, <1>6 DEF ShrunkTo
<1>8. /\ g2 = [mem |-> g2.mem, bins |-> g2.bins, usage |-> g2.usage] /\ g2.usage \in Int
      /\ Size(g2, p) = g2.mem[p - 1] /\ Size(g2, p) \in Nat
  BY <1>7, SoundIs DEF HeldIn
<1>9. g3.mem = g2.mem /\ g3.bins = g2.bins /\ g3.usage = g2.usage + g2.mem[p - 1]
      /\ g3 = [mem |-> g2.mem, bins |-> g2.bins, usage |-> g3.usage] /\ g3.usage \in Int
  BY <1>8
<1>. HIDE DEF g3
<1>10. Sound(g3, T)
  <2>1. g2 \in Heaps /\ Tiles(g2.mem, T) /\ Lists(g2, FreeIn(g2.mem, T))
    BY <1>7 DEF Sound
  <2>2. g3 \in Heaps
    BY <1>9, <2>1 DEF Heaps
  <2>3. Lists(g3, FreeIn(g3.mem, T))
    BY <1>9, <2>1 DEF Lists, Size
  <2>. QED BY <1>9, <2>1, <2>2, <2>3 DEF Sound
<1>11. HeldSame(h, g3, S, T, p)
  <2>1. HeldIn(h.mem, S) \subseteq S /\ HeldIn(g1.mem, S) \subseteq S
    BY DEF HeldIn
  <2>. QED BY <1>1, <1>7, <1>9, <2>1 DEF HeldSame, SameObjects
<1>12. g3.mem[p - 1] >= n
  BY <1>4, <1>7, <1>8, <1>9
<1>13. Allocated(h, g3, S, T, p, n)
  BY <1>7, <1>9, <1>10, <1>11, <1>12 DEF Allocated
<1>. QED BY <1>2, <1>13

-----------------------------------------------------------------------------
(* jit_free *)
LEMMA MaxObjectsIs == MaxObjects \in Nat /\ MaxObjects >= 1
<1>1. HeapSize \in Nat /\ HeapSize >= 6
  BY MinBinSizeIs
<1>. QED BY <1>1 DEF MaxObjects

(* The loops of jit_free do at most one merge.                             *)
LEMMA FwdLoop ==
  ASSUME NEW h, NEW p, NEW g, MergeFwdOnce(h, p) = g, MergeFwdOnce(g, p) = g
  PROVE  MergeFwd(h, p) = g
<1>. DEFINE K == MaxObjects
            Eq(f) == f = [n \in 0 .. MaxObjects |-> IF n = 0 THEN h ELSE MergeFwdOnce(f[n - 1], p)]
            c == [n \in 0 .. K |-> IF n = 0 THEN h ELSE g]
            after == CHOOSE f : Eq(f)
<1>1. K \in Nat /\ K >= 1
  BY MaxObjectsIs
<1>2. \E f : Eq(f)
  <2>1. ASSUME NEW n \in 0 .. K PROVE c[n] = IF n = 0 THEN h ELSE MergeFwdOnce(c[n - 1], p)
    <3>1. CASE n = 0
      BY <3>1
    <3>2. CASE n # 0
      <4>1. n - 1 \in 0 .. K /\ c[n] = g
        BY <1>1, <3>2
      <4>2. c[n - 1] = h \/ c[n - 1] = g
        BY <4>1
      <4>. QED BY <3>2, <4>1, <4>2
    <3>. QED BY <3>1, <3>2
  <2>2. Eq(c)
    BY <2>1
  <2>. QED BY <2>2
<1>3. Eq(after) /\ MergeFwd(h, p) = after[K]
  BY <1>2 DEF MergeFwd
<1>4. \A n \in 0 .. K : after[n] = IF n = 0 THEN h ELSE MergeFwdOnce(after[n - 1], p)
  BY <1>3
<1>. HIDE DEF after, K
<1>. DEFINE M == {n \in Nat : n + 1 <= K => after[n + 1] = g}
<1>5. 0 \in M
  <2>1. 0 \in 0 .. K /\ 1 \in 0 .. K /\ 1 - 1 = 0
    BY <1>1
  <2>2. after[0] = h /\ after[1] = MergeFwdOnce(after[0], p)
    BY <1>4, <2>1
  <2>. QED BY <2>2
<1>6. ASSUME NEW n \in M PROVE n + 1 \in M
  <2>1. CASE (n + 1) + 1 <= K
    <3>1. (n + 1) + 1 \in 0 .. K /\ ((n + 1) + 1) - 1 = n + 1 /\ (n + 1) + 1 # 0 /\ n + 1 <= K
      BY <1>1, <2>1
    <3>2. after[(n + 1) + 1] = MergeFwdOnce(after[n + 1], p)
      BY <1>4, <3>1
    <3>. QED BY <3>1, <3>2
  <2>. QED BY <2>1
<1>7. M = Nat
  <2>. HIDE DEF M
  <2>1. M \in SUBSET Nat
    BY DEF M
  <2>. QED BY <1>5, <1>6, <2>1, Induct
<1>8. K - 1 \in Nat /\ (K - 1) + 1 = K /\ K <= K
  BY <1>1
<1>. HIDE DEF M
<1>10. K - 1 \in M
  BY <1>7, <1>8
<1>9. after[K] = g
  BY <1>8, <1>10 DEF M
<1>. QED BY <1>3, <1>9

LEMMA BwdLoop ==
  ASSUME NEW h, NEW p, NEW g, MergeBwdOnce(h, p) = g, MergeBwdOnce(g, p) = g
  PROVE  MergeBwd(h, p) = g
<1>. DEFINE K == MaxObjects
            Eq(f) == f = [n \in 0 .. MaxObjects |-> IF n = 0 THEN h ELSE MergeBwdOnce(f[n - 1], p)]
            c == [n \in 0 .. K |-> IF n = 0 THEN h ELSE g]
            after == CHOOSE f : Eq(f)
<1>1. K \in Nat /\ K >= 1
  BY MaxObjectsIs
<1>2. \E f : Eq(f)
  <2>1. ASSUME NEW n \in 0 .. K PROVE c[n] = IF n = 0 THEN h ELSE MergeBwdOnce(c[n - 1], p)
    <3>1. CASE n = 0
      BY <3>1
    <3>2. CASE n # 0
      <4>1. n - 1 \in 0 .. K /\ c[n] = g
        BY <1>1, <3>2
      <4>2. c[n - 1] = h \/ c[n - 1] = g
        BY <4>1
      <4>. QED BY <3>2, <4>1, <4>2
    <3>. QED BY <3>1, <3>2
  <2>2. Eq(c)
    BY <2>1
  <2>. QED BY <2>2
<1>3. Eq(after) /\ MergeBwd(h, p) = after[K]
  BY <1>2 DEF MergeBwd
<1>4. \A n \in 0 .. K : after[n] = IF n = 0 THEN h ELSE MergeBwdOnce(after[n - 1], p)
  BY <1>3
<1>. HIDE DEF after, K
<1>. DEFINE M == {n \in Nat : n + 1 <= K => after[n + 1] = g}
<1>5. 0 \in M
  <2>1. 0 \in 0 .. K /\ 1 \in 0 .. K /\ 1 - 1 = 0
    BY <1>1
  <2>2. after[0] = h /\ after[1] = MergeBwdOnce(after[0], p)
    BY <1>4, <2>1
  <2>. QED BY <2>2
<1>6. ASSUME NEW n \in M PROVE n + 1 \in M
  <2>1. CASE (n + 1) + 1 <= K
    <3>1. (n + 1) + 1 \in 0 .. K /\ ((n + 1) + 1) - 1 = n + 1 /\ (n + 1) + 1 # 0 /\ n + 1 <= K
      BY <1>1, <2>1
    <3>2. after[(n + 1) + 1] = MergeBwdOnce(after[n + 1], p)
      BY <1>4, <3>1
    <3>. QED BY <3>1, <3>2
  <2>. QED BY <2>1
<1>7. M = Nat
  <2>. HIDE DEF M
  <2>1. M \in SUBSET Nat
    BY DEF M
  <2>. QED BY <1>5, <1>6, <2>1, Induct
<1>8. K - 1 \in Nat /\ (K - 1) + 1 = K /\ K <= K
  BY <1>1
<1>. HIDE DEF M
<1>10. K - 1 \in M
  BY <1>7, <1>8
<1>9. after[K] = g
  BY <1>8, <1>10 DEF M
<1>. QED BY <1>3, <1>9

(* No two objects have the same object behind them, and none is behind     *)
(* itself.                                                                 *)
LEMMA BehindIs ==
  ASSUME NEW m, NEW S, Tiles(m, S), NEW p \in S
  PROVE  /\ p \in 1 .. HeapSize - 1 /\ HeapSize \in Nat
         /\ Behind(m, p) \in Int /\ Behind(m, p) >= p + 6 /\ EndOf(m, p) = Behind(m, p) - 2
         /\ \A q \in S : Behind(m, q) = Behind(m, p) => q = p
<1>. DEFINE e == EndOf(m, p)
            b == Behind(m, p)
<1>1. p \in 1 .. HeapSize - 1 /\ e \in p + 4 .. HeapSize - 1 /\ b = e + 2 /\ HeapSize \in Nat
  BY ObjectIs
<1>. HIDE DEF e, b
<1>2. b \in Int /\ b >= p + 6 /\ e = b - 2
  BY <1>1
<1>3. ASSUME NEW q \in S, Behind(m, q) = b PROVE q = p
  <2>. DEFINE f == EndOf(m, q)
  <2>1. Behind(m, q) = f + 2 /\ f \in q + 4 .. HeapSize - 1 /\ q \in 1 .. HeapSize - 1
    BY ObjectIs
  <2>. HIDE DEF f
  <2>2. f = e
    BY <1>1, <1>3, <2>1
  <2>. QED BY <2>2, ObjectsApart DEF e, f
<1>. QED BY <1>1, <1>2, <1>3 DEF e, b

FwdDone(h, g, S, T, p) ==
  /\ Sound(g, T) /\ p \in FreeIn(g.mem, T) /\ g.usage = h.usage /\ \A r : HeldSame(h, g, S, T, r)
  /\ \A x \in PairsIn(g.mem, T) : Behind(g.mem, x) = p
  /\ MergeFwdOnce(g, p) = g

LEMMA FwdNothing ==
  ASSUME NEW h, NEW S, Sound(h, S), NEW p \in S, Behind(h.mem, p) \notin FreeIn(h.mem, S)
  PROVE  MergeFwdOnce(h, p) = h
<1>. DEFINE q == Behind(h.mem, p)
<1>1. NextObject(h, p) = q /\ Tiles(h.mem, S)
  BY SoundIs
<1>2. q \in S \cup {HeapSize + 1} /\ HeapSize \in Nat
  BY <1>1, ObjectIs
<1>3. CASE q \in S
  <2>1. ~IsFree(h, q)
    <3>1. q \notin FreeIn(h.mem, S)
      OBVIOUS
    <3>. HIDE DEF q
    <3>. QED BY <1>3, <3>1, SoundIs
  <2>. QED BY <1>1, <2>1 DEF MergeFwdOnce
<1>4. CASE q = HeapSize + 1
  <2>. HIDE DEF q
  <2>1. ~(q < HeapSize)
    BY <1>2, <1>4
  <2>. QED BY <1>1, <2>1 DEF MergeFwdOnce
<1>. QED BY <1>2, <1>3, <1>4

LEMMA FwdIs ==
  ASSUME NEW h, NEW S, Sound(h, S), NEW p \in FreeIn(h.mem, S),
         \A x \in PairsIn(h.mem, S) : x = p \/ Behind(h.mem, x) = p
  PROVE  \E T : FwdDone(h, MergeFwdOnce(h, p), S, T, p)
<1>. DEFINE q == Behind(h.mem, p)
<1>1. NextObject(h, p) = q /\ Tiles(h.mem, S) /\ p \in S
  BY SoundIs DEF FreeIn
<1>2. CASE q \notin FreeIn(h.mem, S)
  <2>1. MergeFwdOnce(h, p) = h
    BY <1>1, <1>2, FwdNothing
  <2>2. p \notin PairsIn(h.mem, S)
    BY <1>2 DEF PairsIn
  <2>3. \A r : HeldSame(h, h, S, S, r)
    BY DEF HeldSame
  <2>4. FwdDone(h, h, S, S, p)
    BY <2>1, <2>2, <2>3 DEF FwdDone
  <2>. QED BY <2>1, <2>4
<1>3. CASE q \in FreeIn(h.mem, S)
  <2>. DEFINE g == Merge(h, p, q)
              T == S \ {q}
  <2>1. q \in S /\ IsFree(h, q) /\ q \in 1 .. HeapSize - 1 /\ HeapSize \in Nat /\ q >= p + 6
        /\ p \in Int /\ q \in Int
    <3>1. q \in S
      BY <1>3 DEF FreeIn
    <3>2. IsFree(h, q)
      BY <1>3, <3>1, SoundIs
    <3>3. q >= p + 6 /\ p \in 1 .. HeapSize - 1
      BY <1>1, BehindIs
    <3>4. q \in 1 .. HeapSize - 1 /\ HeapSize \in Nat
      BY <1>1, <3>1, BehindIs
    <3>. HIDE DEF q
    <3>. QED BY <3>1, <3>2, <3>3, <3>4
  <2>2. MergeFwdOnce(h, p) = g
    <3>1. q < HeapSize
      <4>. HIDE DEF q
      <4>. QED BY <2>1
    <3>. QED BY <1>1, <2>1, <3>1 DEF MergeFwdOnce
  <2>3. /\ Sound(g, T) /\ p # q /\ g.usage = h.usage /\ \A r : HeldSame(h, g, S, T, r)
        /\ FreeIn(g.mem, T) = FreeIn(h.mem, S) \ {q}
        /\ Behind(g.mem, p) = Behind(h.mem, q)
        /\ \A x \in T : x # p => Behind(g.mem, x) = Behind(h.mem, x)
    <3>1. MergeGives(h, S, p, q, g, T)
      BY <1>3, Merged
    <3>. QED BY <3>1 DEF MergeGives
  <2>. HIDE DEF g
  <2>4. Behind(h.mem, q) \notin FreeIn(h.mem, S)
    <3>1. Behind(h.mem, q) # p /\ q # p
      <4>1. Behind(h.mem, q) \in Int /\ Behind(h.mem, q) >= q + 6
        BY <1>1, <2>1, BehindIs
      <4>. HIDE DEF q
      <4>. QED BY <2>1, <4>1
    <3>2. q \notin PairsIn(h.mem, S)
      BY <3>1
    <3>. QED BY <1>3, <3>2 DEF PairsIn
  <2>5. Behind(g.mem, p) \notin FreeIn(g.mem, T) /\ p \in FreeIn(g.mem, T) /\ p \in T
    BY <1>1, <2>3, <2>4
  <2>6. MergeFwdOnce(g, p) = g
    BY <2>3, <2>5, FwdNothing
  <2>7. ASSUME NEW x \in PairsIn(g.mem, T) PROVE Behind(g.mem, x) = p
    <3>1. x # p /\ x \in T /\ x \in FreeIn(h.mem, S) /\ Behind(g.mem, x) \in FreeIn(h.mem, S)
      BY <2>3, <2>5 DEF PairsIn, FreeIn
    <3>2. Behind(g.mem, x) = Behind(h.mem, x)
      BY <2>3, <3>1
    <3>. QED BY <3>1, <3>2 DEF PairsIn
  <2>8. FwdDone(h, g, S, T, p)
    BY <2>3, <2>5, <2>6, <2>7 DEF FwdDone
  <2>. QED BY <2>2, <2>8
<1>. QED BY <1>2, <1>3

BwdDone(h, g, S, T, p) ==
  /\ Sound(g, T) /\ PairsIn(g.mem, T) = {} /\ g.usage = h.usage /\ \A r : HeldSame(h, g, S, T, r)
  /\ p \notin HeldIn(g.mem, T) /\ MergeBwdOnce(g, p) = g

LEMMA BwdIs ==
  ASSUME NEW h, NEW S, Sound(h, S), NEW p \in FreeIn(h.mem, S),
         \A x \in PairsIn(h.mem, S) : Behind(h.mem, x) = p
  PROVE  \E T : BwdDone(h, MergeBwdOnce(h, p), S, T, p)
<1>1. Tiles(h.mem, S) /\ p \in S /\ p \notin HeldIn(h.mem, S)
  BY SoundIs DEF FreeIn
<1>2. p \in 1 .. HeapSize - 1 /\ HeapSize \in Nat
  BY <1>1, BehindIs
<1>3. \A r : HeldSame(h, h, S, S, r)
  BY DEF HeldSame
<1>4. CASE p = 1
  <2>1. MergeBwdOnce(h, p) = h
    BY <1>4 DEF MergeBwdOnce
  <2>2. ASSUME NEW x \in S PROVE Behind(h.mem, x) # p
    <3>. DEFINE b == Behind(h.mem, x)
    <3>1. b \in Int /\ b >= x + 6 /\ x \in 1 .. HeapSize - 1
      BY <1>1, BehindIs
    <3>. HIDE DEF b
    <3>2. b # p
      BY <1>2, <1>4, <3>1
    <3>. QED BY <3>2 DEF b
  <2>3. PairsIn(h.mem, S) = {}
    BY <2>2 DEF PairsIn, FreeIn
  <2>4. BwdDone(h, h, S, S, p)
    BY <1>1, <1>3, <2>1, <2>3 DEF BwdDone
  <2>. QED BY <2>1, <2>4
<1>5. CASE p # 1
  <2>1. PICK a \in S : Behind(h.mem, a) = p
    BY <1>1, <1>5, ObjectIs
  <2>. DEFINE e == EndOf(h.mem, a)
              z == h.mem[a - 1]
  <2>2. e = p - 2 /\ p >= a + 6 /\ a \in 1 .. HeapSize - 1 /\ h.mem[e] \in {0, z} /\ z \in Nat
        /\ e = a + z
    <3>1. h.mem[e] \in {0, z} /\ z \in Nat
      BY <1>1, ObjectIs
    <3>2. e = p - 2 /\ p >= a + 6 /\ a \in 1 .. HeapSize - 1
      BY <1>1, <2>1, BehindIs
    <3>. QED BY <3>1, <3>2 DEF EndOf
  <2>3. ~(p - 2 <= 0) /\ a = p - 2 - z
    <3>. HIDE DEF e, z
    <3>. QED BY <1>2, <2>2
  <2>4. CASE h.mem[e] = 0
    <3>1. MergeBwdOnce(h, p) = h
      <4>1. h.mem[p - 2] = 0
        BY <2>2, <2>4
      <4>. QED BY <4>1 DEF MergeBwdOnce
    <3>2. PairsIn(h.mem, S) = {}
      <4>1. ASSUME NEW x \in PairsIn(h.mem, S) PROVE FALSE
        <5>1. Behind(h.mem, x) = Behind(h.mem, a) /\ x \in S
          BY <2>1, <4>1 DEF PairsIn, FreeIn
        <5>2. x = a
          BY <1>1, <2>1, <5>1, BehindIs
        <5>. QED BY <2>4, <4>1, <5>2 DEF PairsIn, FreeIn
      <4>. QED BY <4>1
    <3>3. BwdDone(h, h, S, S, p)
      BY <1>1, <1>3, <3>1, <3>2 DEF BwdDone
    <3>. QED BY <3>1, <3>3
  <2>5. CASE h.mem[e] # 0
    <3>. DEFINE g == Merge(h, a, p)
                T == S \ {p}
    <3>1. h.mem[p - 2] = z /\ h.mem[p - 2] # 0
      BY <2>2, <2>5
    <3>2. MergeBwdOnce(h, p) = g
      <4>1. p - 2 - h.mem[p - 2] = a
        BY <2>3, <3>1
      <4>. HIDE DEF z, e
      <4>. QED BY <2>3, <3>1, <4>1 DEF MergeBwdOnce
    <3>3. a \in FreeIn(h.mem, S)
      BY <2>5 DEF FreeIn
    <3>4. /\ Sound(g, T) /\ a # p /\ g.usage = h.usage /\ \A r : HeldSame(h, g, S, T, r)
          /\ FreeIn(g.mem, T) = FreeIn(h.mem, S) \ {p}
          /\ Behind(g.mem, a) = Behind(h.mem, p)
          /\ \A x \in T : x # a => Behind(g.mem, x) = Behind(h.mem, x)
          /\ g.mem[EndOf(h.mem, a)] = 0
      <4>1. MergeGives(h, S, a, p, g, T)
        BY <2>1, <3>3, Merged
      <4>. QED BY <4>1 DEF MergeGives
    <3>. HIDE DEF g
    <3>5. MergeBwdOnce(g, p) = g
      <4>1. g.mem[p - 2] = 0
        BY <2>2, <3>4
      <4>. QED BY <4>1 DEF MergeBwdOnce
    <3>6. ASSUME NEW x \in PairsIn(g.mem, T) PROVE FALSE
      <4>1. x \in T /\ x \in FreeIn(h.mem, S) /\ Behind(g.mem, x) \in FreeIn(h.mem, S)
        BY <3>4 DEF PairsIn, FreeIn
      <4>2. CASE x = a
        <5>1. p \in PairsIn(h.mem, S)
          BY <3>4, <4>1, <4>2 DEF PairsIn
        <5>2. Behind(h.mem, p) = p
          BY <5>1
        <5>3. Behind(h.mem, p) \in Int /\ Behind(h.mem, p) >= p + 6
          BY <1>1, BehindIs
        <5>4. ~(p >= p + 6)
          BY <1>2
        <5>. QED BY <5>2, <5>3, <5>4
      <4>3. CASE x # a
        <5>1. Behind(g.mem, x) = Behind(h.mem, x) /\ x \in S
          BY <3>4, <4>1, <4>3
        <5>2. x \in PairsIn(h.mem, S)
          BY <4>1, <5>1 DEF PairsIn
        <5>3. Behind(h.mem, x) = Behind(h.mem, a)
          BY <2>1, <5>2
        <5>. QED BY <1>1, <2>1, <4>3, <5>1, <5>3, BehindIs
      <4>. QED BY <4>2, <4>3
    <3>7. p \notin HeldIn(g.mem, T)
      BY DEF HeldIn
    <3>8. BwdDone(h, g, S, T, p)
      BY <3>4, <3>5, <3>6, <3>7 DEF BwdDone
    <3>. QED BY <3>2, <3>8
  <2>. QED BY <2>4, <2>5
<1>. QED BY <1>4, <1>5

(* jit_free gives the object p back.                                       *)
Freed(h, g, S, T, p) ==
  /\ Sound(g, T) /\ PairsIn(g.mem, T) = {} /\ p \notin HeldIn(g.mem, T)
  /\ HeldSame(h, g, S, T, p) /\ g.usage = h.usage - h.mem[p - 1]

LEMMA Forgot ==
  ASSUME NEW h, NEW S, Sound(h, S), NEW p \in HeldIn(h.mem, S), NEW g, g = Forget(h, p)
  PROVE  /\ Sound(g, S) /\ g.usage = h.usage - h.mem[p - 1]
         /\ FreeIn(g.mem, S) = FreeIn(h.mem, S) /\ HeldIn(g.mem, S) = HeldIn(h.mem, S)
         /\ \A q \in S : Behind(g.mem, q) = Behind(h.mem, q) /\ g.mem[q - 1] = h.mem[q - 1]
         /\ \A q \in S \ {p} : g.mem[q] = h.mem[q]
<1>. DEFINE m == h.mem
            e == EndOf(m, p)
            n == [w \in DOMAIN m |-> IF w \in p .. e - 1 THEN Junk ELSE m[w]]
            u == h.usage - m[p - 1]
<1>1. /\ p \in S /\ Tiles(m, S) /\ h \in Heaps /\ End(h, p) = e /\ Size(h, p) = m[p - 1]
      /\ h = [mem |-> h.mem, bins |-> h.bins, usage |-> h.usage] /\ h.usage \in Int /\ m \in Memories
      /\ h.bins \in [0 .. Bins -> Seq(Nat)] /\ m[p - 1] \in Nat /\ Lists(h, FreeIn(m, S))
  <2>1. p \in S /\ Lists(h, FreeIn(m, S))
    BY DEF HeldIn, Sound
  <2>2. /\ Tiles(m, S) /\ h \in Heaps /\ h.usage \in Int /\ m \in Memories
        /\ h.bins \in [0 .. Bins -> Seq(Nat)]
        /\ h = [mem |-> h.mem, bins |-> h.bins, usage |-> h.usage]
    BY SoundIs
  <2>3. End(h, p) = e /\ Size(h, p) = m[p - 1] /\ Size(h, p) \in Nat
    BY <2>1, SoundIs
  <2>. QED BY <2>1, <2>2, <2>3
<1>2. g = [h EXCEPT !.usage = u, !.mem = n]
  BY <1>1 DEF Forget
<1>3. n \in Memories /\ \A w \in 0 .. HeapSize - 1 : w \notin p .. e - 1 => n[w] = m[w]
  <2>1. m \in [0 .. HeapSize - 1 -> Int] /\ Junk \in Int
    BY <1>1 DEF Memories, Junk
  <2>. HIDE DEF m, e
  <2>. QED BY <2>1 DEF Memories
<1>4. u \in Int
  <2>. DEFINE x == m[p - 1]
              y == h.usage
  <2>1. x \in Int /\ y \in Int
    BY <1>1
  <2>. HIDE DEF x, y
  <2>2. y - x \in Int
    BY <2>1
  <2>. QED BY <2>2 DEF x, y
<1>. HIDE DEF n, u
<1>5. /\ g.mem = n /\ g.usage = u /\ g.bins = h.bins
      /\ g = [mem |-> n, bins |-> h.bins, usage |-> u]
  BY <1>1, <1>2
<1>6. /\ Tiles(n, S)
      /\ \A q \in S : n[q - 1] = m[q - 1] /\ EndOf(n, q) = EndOf(m, q)
                      /\ n[EndOf(m, q)] = m[EndOf(m, q)]
      /\ \A q \in S \ {p} : n[q] = m[q]
  <2>. HIDE DEF m
  <2>. QED BY <1>1, <1>3, InteriorWritten
<1>7. \A q \in S : Behind(n, q) = Behind(m, q)
  BY <1>6 DEF Behind
<1>8. FreeIn(n, S) = FreeIn(m, S) /\ HeldIn(n, S) = HeldIn(m, S)
  BY <1>6 DEF FreeIn, HeldIn
<1>9. \A q \in FreeIn(m, S) : Size(g, q) = Size(h, q)
  BY <1>5, <1>6 DEF FreeIn, Size
<1>10. Lists(g, FreeIn(n, S))
  BY <1>1, <1>5, <1>8, <1>9, ListsOfSame
<1>11. g \in Heaps
  BY <1>1, <1>3, <1>4, <1>5 DEF Heaps
<1>12. Sound(g, S)
  BY <1>5, <1>6, <1>10, <1>11 DEF Sound
<1>. QED BY <1>5, <1>6, <1>7, <1>8, <1>12 DEF u

LEMMA FreeIs ==
  ASSUME NEW h, NEW S, Sound(h, S), PairsIn(h.mem, S) = {}, NEW p \in HeldIn(h.mem, S)
  PROVE  \E T : Freed(h, Free(h, p), S, T, p)
<1>. DEFINE g1 == Forget(h, p)
            g2 == AddToBin(g1, p)
            g3 == MergeFwdOnce(g2, p)
            g4 == MergeBwdOnce(g3, p)
<1>1. /\ Sound(g1, S) /\ g1.usage = h.usage - h.mem[p - 1]
      /\ FreeIn(g1.mem, S) = FreeIn(h.mem, S) /\ HeldIn(g1.mem, S) = HeldIn(h.mem, S)
      /\ \A q \in S : Behind(g1.mem, q) = Behind(h.mem, q) /\ g1.mem[q - 1] = h.mem[q - 1]
      /\ \A q \in S \ {p} : g1.mem[q] = h.mem[q]
  BY Forgot
<1>2. Free(h, p) = MergeBwd(MergeFwd(g2, p), p)
  BY DEF Free
<1>. HIDE DEF g1
<1>3. /\ Sound(g2, S) /\ SameObjects(g1.mem, g2.mem, S) /\ g2.usage = g1.usage
      /\ FreeIn(g2.mem, S) = FreeIn(g1.mem, S) \cup {p} /\ HeldIn(g2.mem, S) = HeldIn(g1.mem, S) \ {p}
      /\ \A q \in S : Behind(g2.mem, q) = Behind(g1.mem, q)
  BY <1>1, Added
<1>. HIDE DEF g2
<1>4. /\ FreeIn(g2.mem, S) = FreeIn(h.mem, S) \cup {p} /\ HeldIn(g2.mem, S) = HeldIn(h.mem, S) \ {p}
      /\ \A q \in S : Behind(g2.mem, q) = Behind(h.mem, q) /\ g2.mem[q - 1] = h.mem[q - 1]
      /\ \A q \in S \ {p} : g2.mem[q] = h.mem[q]
      /\ g2.usage = h.usage - h.mem[p - 1]
  BY <1>1, <1>3 DEF SameObjects
<1>5. \A x \in PairsIn(g2.mem, S) : x = p \/ Behind(g2.mem, x) = p
  <2>. SUFFICES ASSUME NEW x \in PairsIn(g2.mem, S), x # p, Behind(g2.mem, x) # p PROVE FALSE
    OBVIOUS
  <2>1. x \in S /\ x \in FreeIn(h.mem, S) /\ Behind(g2.mem, x) \in FreeIn(h.mem, S)
    BY <1>4 DEF PairsIn, FreeIn
  <2>. QED BY <1>4, <2>1 DEF PairsIn
<1>6. p \in FreeIn(g2.mem, S)
  BY <1>4
<1>7. PICK T : FwdDone(g2, g3, S, T, p)
  BY <1>3, <1>5, <1>6, FwdIs
<1>8. MergeFwd(g2, p) = g3
  <2>. HIDE DEF g3
  <2>1. MergeFwdOnce(g2, p) = g3
    BY DEF g3
  <2>2. MergeFwdOnce(g3, p) = g3
    BY <1>7 DEF FwdDone
  <2>. QED BY <2>1, <2>2, FwdLoop
<1>. HIDE DEF g3
<1>9. /\ Sound(g3, T) /\ p \in FreeIn(g3.mem, T) /\ g3.usage = g2.usage
      /\ HeldSame(g2, g3, S, T, p) /\ \A x \in PairsIn(g3.mem, T) : Behind(g3.mem, x) = p
  BY <1>7 DEF FwdDone
<1>10. PICK U : BwdDone(g3, g4, T, U, p)
  BY <1>9, BwdIs
<1>11. MergeBwd(g3, p) = g4
  <2>. HIDE DEF g4
  <2>1. MergeBwdOnce(g3, p) = g4
    BY DEF g4
  <2>2. MergeBwdOnce(g4, p) = g4
    BY <1>10 DEF BwdDone
  <2>. QED BY <2>1, <2>2, BwdLoop
<1>. HIDE DEF g4
<1>12. HeldSame(h, g2, S, S, p)
  <2>1. HeldIn(h.mem, S) \subseteq S
    BY DEF HeldIn
  <2>. QED BY <1>4, <2>1 DEF HeldSame
<1>13. HeldSame(h, g4, S, U, p)
  <2>1. HeldSame(g3, g4, T, U, p)
    BY <1>10 DEF BwdDone
  <2>2. HeldSame(h, g3, S, T, p)
    BY <1>9, <1>12, HeldSameTwice
  <2>. QED BY <2>1, <2>2, HeldSameTwice
<1>14. Freed(h, g4, S, U, p)
  BY <1>4, <1>9, <1>10, <1>13 DEF BwdDone, Freed
<1>. QED BY <1>2, <1>8, <1>11, <1>14

-----------------------------------------------------------------------------
(* A heap between two calls: sound, merged and counted.                    *)
Kept(h, S) == Sound(h, S) /\ PairsIn(h.mem, S) = {} /\ h.usage = WordsUsed(h)

LEMMA UsageChanges ==
  ASSUME NEW h, NEW g, NEW S, NEW T, NEW p \in 1 .. HeapSize - 1, Sound(h, S), Sound(g, T),
         HeldSame(h, g, S, T, p)
  PROVE  LET x == IF p \in HeldIn(h.mem, S) THEN h.mem[p - 1] ELSE 0
             y == IF p \in HeldIn(g.mem, T) THEN g.mem[p - 1] ELSE 0
         IN WordsUsed(h) \in Int /\ WordsUsed(g) = WordsUsed(h) + (y - x)
<1>. DEFINE w == Weights(h.mem, S)
            v == Weights(g.mem, T)
            x == IF p \in HeldIn(h.mem, S) THEN h.mem[p - 1] ELSE 0
            y == IF p \in HeldIn(g.mem, T) THEN g.mem[p - 1] ELSE 0
<1>1. Tiles(h.mem, S) /\ Tiles(g.mem, T)
  BY SoundIs
<1>2. /\ w \in [1 .. HeapSize - 1 -> Int]
      /\ \A q \in 1 .. HeapSize - 1 : q \notin HeldIn(h.mem, S) => w[q] = 0
      /\ \A q \in HeldIn(h.mem, S) : q \in 1 .. HeapSize - 1 /\ w[q] = h.mem[q - 1]
  BY <1>1, WeightsAre
<1>3. /\ v \in [1 .. HeapSize - 1 -> Int]
      /\ \A q \in 1 .. HeapSize - 1 : q \notin HeldIn(g.mem, T) => v[q] = 0
      /\ \A q \in HeldIn(g.mem, T) : q \in 1 .. HeapSize - 1 /\ v[q] = g.mem[q - 1]
  BY <1>1, WeightsAre
<1>4. WordsUsed(h) = Total(w) /\ WordsUsed(g) = Total(v)
  BY <1>1, WordsUsedAre
<1>. HIDE DEF w, v
<1>5. \A q \in 1 .. HeapSize - 1 : q # p => v[q] = w[q]
  <2>. SUFFICES ASSUME NEW q \in 1 .. HeapSize - 1, q # p PROVE v[q] = w[q]
    OBVIOUS
  <2>1. CASE q \in HeldIn(h.mem, S)
    BY <1>2, <1>3, <2>1 DEF HeldSame
  <2>2. CASE q \notin HeldIn(h.mem, S)
    BY <1>2, <1>3, <2>2 DEF HeldSame
  <2>. QED BY <2>1, <2>2
<1>6. Total(w) \in Int /\ Total(v) = Total(w) + (v[p] - w[p])
  BY <1>2, <1>3, <1>5, TotalChanges
<1>7. w[p] = x /\ v[p] = y
  BY <1>2, <1>3
<1>. HIDE DEF x, y
<1>8. WordsUsed(h) \in Int /\ WordsUsed(g) = WordsUsed(h) + (y - x)
  BY <1>4, <1>6, <1>7
<1>. QED BY <1>8 DEF x, y

LEMMA KeptFree ==
  ASSUME NEW h, NEW S, Kept(h, S), NEW p \in HeldIn(h.mem, S)
  PROVE  \E T : /\ Kept(Free(h, p), T) /\ p \notin HeldIn(Free(h, p).mem, T)
                /\ HeldSame(h, Free(h, p), S, T, p)
<1>1. PICK T : Freed(h, Free(h, p), S, T, p)
  BY FreeIs DEF Kept
<1>. DEFINE g == Free(h, p)
<1>. HIDE DEF g
<1>2. /\ Sound(g, T) /\ PairsIn(g.mem, T) = {} /\ p \notin HeldIn(g.mem, T)
      /\ HeldSame(h, g, S, T, p) /\ g.usage = h.usage - h.mem[p - 1]
  BY <1>1 DEF Freed, g
<1>3. p \in 1 .. HeapSize - 1 /\ h.mem[p - 1] \in Int /\ Sound(h, S) /\ h.usage = WordsUsed(h)
  <2>1. p \in S /\ Sound(h, S) /\ h.usage = WordsUsed(h)
    BY DEF HeldIn, Kept
  <2>. QED BY <2>1, SoundIs, ObjectIs
<1>4. g.usage = WordsUsed(g)
  <2>. DEFINE a == WordsUsed(h)
              b == WordsUsed(g)
              c == h.mem[p - 1]
              d == g.usage
  <2>1. a \in Int /\ b = a + (0 - c)
    BY <1>2, <1>3, UsageChanges
  <2>2. d = a - c /\ c \in Int
    BY <1>2, <1>3
  <2>. HIDE DEF a, b, c, d
  <2>3. d = b
    BY <2>1, <2>2
  <2>. QED BY <2>3 DEF b, d
<1>5. Kept(g, T)
  BY <1>2, <1>4 DEF Kept
<1>. QED BY <1>2, <1>5 DEF g

LEMMA KeptMalloc ==
  ASSUME NEW h, NEW S, Kept(h, S), NEW n \in Nat, NEW p \in FreeIn(h.mem, S), Size(h, p) >= Aligned(n)
  PROVE  \E T : /\ Kept(Malloc(h, p, n), T) /\ p \in HeldIn(Malloc(h, p, n).mem, T)
                /\ HeldSame(h, Malloc(h, p, n), S, T, p)
                /\ Malloc(h, p, n).mem[p - 1] >= n
<1>1. PICK T : Allocated(h, Malloc(h, p, n), S, T, p, n)
  BY MallocIs DEF Kept
<1>. DEFINE g == Malloc(h, p, n)
<1>. HIDE DEF g
<1>2. /\ Sound(g, T) /\ PairsIn(g.mem, T) = {} /\ p \in HeldIn(g.mem, T)
      /\ HeldSame(h, g, S, T, p) /\ g.mem[p - 1] >= n /\ g.usage = h.usage + g.mem[p - 1]
  BY <1>1 DEF Allocated, g
<1>3. /\ p \in 1 .. HeapSize - 1 /\ p \notin HeldIn(h.mem, S) /\ Sound(h, S)
      /\ h.usage = WordsUsed(h) /\ g.mem[p - 1] \in Int
  <2>1. p \in S /\ Sound(h, S) /\ h.usage = WordsUsed(h) /\ p \in T
    BY <1>2 DEF HeldIn, FreeIn, Kept
  <2>2. p \in 1 .. HeapSize - 1 /\ p \notin HeldIn(h.mem, S)
    BY <2>1, SoundIs, ObjectIs
  <2>3. g.mem[p - 1] \in Int
    <3>1. Tiles(g.mem, T)
      BY <1>2, SoundIs
    <3>. QED BY <2>1, <3>1, ObjectIs
  <2>. QED BY <2>1, <2>2, <2>3
<1>4. g.usage = WordsUsed(g)
  <2>. DEFINE a == WordsUsed(h)
              b == WordsUsed(g)
              c == g.mem[p - 1]
              d == g.usage
  <2>1. a \in Int /\ b = a + (c - 0)
    BY <1>2, <1>3, UsageChanges
  <2>2. d = a + c /\ c \in Int
    BY <1>2, <1>3
  <2>. HIDE DEF a, b, c, d
  <2>3. d = b
    BY <2>1, <2>2
  <2>. QED BY <2>3 DEF b, d
<1>5. Kept(g, T)
  BY <1>2, <1>4 DEF Kept
<1>. QED BY <1>2, <1>5 DEF g

(* The code of a block is written into its object.                         *)
WithCode(h, p, n, x) == [h EXCEPT !.mem = [w \in DOMAIN @ |-> IF w \in p .. p + n - 1 THEN x ELSE @[w]]]

LEMMA KeptCode ==
  ASSUME NEW h, NEW S, Kept(h, S), NEW p \in HeldIn(h.mem, S), NEW n \in Nat, n >= 1,
         h.mem[p - 1] >= n, NEW x \in Int, NEW g, g = WithCode(h, p, n, x)
  PROVE  /\ Kept(g, S) /\ p \in HeldIn(g.mem, S) /\ HeldSame(h, g, S, S, p) /\ g.mem[p] = x
<1>. DEFINE m == h.mem
            k == [w \in DOMAIN m |-> IF w \in p .. p + n - 1 THEN x ELSE m[w]]
            e == EndOf(m, p)
<1>1. /\ p \in S /\ Tiles(m, S) /\ h \in Heaps /\ Sound(h, S) /\ Lists(h, FreeIn(m, S))
      /\ h.usage = WordsUsed(h) /\ PairsIn(m, S) = {}
  BY DEF HeldIn, Kept, Sound
<1>2. h = [mem |-> h.mem, bins |-> h.bins, usage |-> h.usage] /\ m \in Memories
  BY <1>1, SoundIs
<1>3. g = [h EXCEPT !.mem = k]
  BY DEF WithCode
<1>4. p \in 1 .. HeapSize - 1 /\ HeapSize \in Nat /\ e = p + m[p - 1] /\ m[p - 1] \in Nat
  BY <1>1, ObjectIs DEF EndOf
<1>5. k \in Memories /\ (\A w \in 0 .. HeapSize - 1 : w \notin p .. e - 1 => k[w] = m[w]) /\ k[p] = x
  <2>. DEFINE s == m[p - 1]
  <2>1. s \in Nat /\ s >= n /\ e = p + s /\ m \in [0 .. HeapSize - 1 -> Int]
    BY <1>2, <1>4 DEF Memories
  <2>. HIDE DEF m, e, s
  <2>2. k \in [0 .. HeapSize - 1 -> Int]
    BY <2>1
  <2>3. \A w \in 0 .. HeapSize - 1 : w \notin p .. e - 1 => w \notin p .. p + n - 1
    BY <1>4, <2>1
  <2>4. p \in 0 .. HeapSize - 1 /\ p \in p .. p + n - 1
    BY <1>4
  <2>. QED BY <2>1, <2>2, <2>3, <2>4 DEF Memories
<1>. HIDE DEF k
<1>6. g.mem = k /\ g.usage = h.usage /\ g.bins = h.bins
      /\ g = [mem |-> k, bins |-> h.bins, usage |-> h.usage]
  BY <1>2, <1>3
<1>7. /\ Tiles(k, S)
      /\ \A q \in S : k[q - 1] = m[q - 1] /\ EndOf(k, q) = EndOf(m, q)
                      /\ k[EndOf(m, q)] = m[EndOf(m, q)]
      /\ \A q \in S \ {p} : k[q] = m[q]
  <2>. HIDE DEF m
  <2>. QED BY <1>1, <1>5, InteriorWritten
<1>8. \A q \in S : Behind(k, q) = Behind(m, q)
  BY <1>7 DEF Behind
<1>9. FreeIn(k, S) = FreeIn(m, S) /\ HeldIn(k, S) = HeldIn(m, S)
  BY <1>7 DEF FreeIn, HeldIn
<1>10. PairsIn(k, S) = {}
  BY <1>1, <1>8, <1>9 DEF PairsIn, FreeIn
<1>11. Sound(g, S)
  <2>1. \A q \in FreeIn(m, S) : Size(g, q) = Size(h, q)
    BY <1>6, <1>7 DEF FreeIn, Size
  <2>2. Lists(g, FreeIn(k, S))
    BY <1>1, <1>6, <1>9, <2>1, ListsOfSame
  <2>3. g \in Heaps
    BY <1>1, <1>5, <1>6 DEF Heaps
  <2>. QED BY <1>6, <1>7, <2>2, <2>3 DEF Sound
<1>12. HeldSame(h, g, S, S, p)
  BY <1>6, <1>7, <1>9 DEF HeldSame, HeldIn
<1>13. g.usage = WordsUsed(g)
  <2>. DEFINE a == WordsUsed(h)
              b == WordsUsed(g)
              c == h.mem[p - 1]
  <2>1. a \in Int /\ b = a + (c - c) /\ c \in Int
    <3>1. g.mem[p - 1] = c /\ p \in HeldIn(g.mem, S) /\ c \in Int
      BY <1>1, <1>4, <1>6, <1>7, <1>9
    <3>. QED BY <1>1, <1>4, <1>11, <1>12, <3>1, UsageChanges
  <2>. HIDE DEF a, b, c
  <2>2. a = b
    BY <2>1
  <2>. QED BY <1>1, <1>6, <2>2 DEF a, b
<1>. QED BY <1>5, <1>6, <1>9, <1>10, <1>11, <1>12, <1>13 DEF Kept


(* flush_all_blocks frees the blocks X and leaves the others.              *)
FreedTo(h, g, S, T, X) ==
  /\ Kept(g, T) /\ HeldIn(g.mem, T) = HeldIn(h.mem, S) \ X
  /\ \A q \in HeldIn(g.mem, T) : g.mem[q] = h.mem[q]

LEMMA FreeOneMore ==
  ASSUME NEW h, NEW g, NEW S, NEW T, NEW X, FreedTo(h, g, S, T, X), NEW p \in HeldIn(g.mem, T)
  PROVE  \E U : FreedTo(h, Free(g, p), S, U, X \cup {p})
<1>. DEFINE k == Free(g, p)
<1>1. Kept(g, T) /\ HeldIn(g.mem, T) = HeldIn(h.mem, S) \ X /\ \A q \in HeldIn(g.mem, T) : g.mem[q] = h.mem[q]
  BY DEF FreedTo
<1>2. PICK U : Kept(k, U) /\ p \notin HeldIn(k.mem, U) /\ HeldSame(g, k, T, U, p)
  BY <1>1, KeptFree
<1>. HIDE DEF k
<1>3. HeldIn(k.mem, U) = HeldIn(h.mem, S) \ (X \cup {p})
  BY <1>1, <1>2 DEF HeldSame
<1>4. \A q \in HeldIn(k.mem, U) : k.mem[q] = h.mem[q]
  BY <1>1, <1>2 DEF HeldSame
<1>5. FreedTo(h, k, S, U, X \cup {p})
  BY <1>2, <1>3, <1>4 DEF FreedTo
<1>. QED BY <1>5 DEF k

(* The blocks of a page are objects of their own.                          *)
InUse(m, S, blocks) ==
  /\ \A i \in 0 .. PageWords - 1 : blocks[i] # Null => blocks[i] \in HeldIn(m, S)
  /\ \A i, j \in 0 .. PageWords - 1 : blocks[i] # Null /\ blocks[i] = blocks[j] => i = j

BlocksOf(blocks) == {blocks[i] : i \in 0 .. PageWords - 1}

LEMMA FreeAllIs ==
  ASSUME NEW h, NEW S, Kept(h, S), NEW blocks, InUse(h.mem, S, blocks)
  PROVE  \E T : FreedTo(h, FreeAll(h, blocks), S, T, BlocksOf(blocks))
<1>. SUFFICES ASSUME
         \A i \in 0 .. PageWords - 1 : blocks[i] # Null => blocks[i] \in HeldIn(h.mem, S),
         \A i, j \in 0 .. PageWords - 1 : blocks[i] # Null /\ blocks[i] = blocks[j] => i = j
     PROVE  \E T : FreedTo(h, FreeAll(h, blocks), S, T, {blocks[i] : i \in 0 .. PageWords - 1})
  BY DEF InUse, BlocksOf
<1>. DEFINE K == PageWords
            Step(n, x) == IF blocks[n - 1] = Null THEN x ELSE Free(x, blocks[n - 1])
            Solves(f, k) == f = [n \in 0 .. k |->
                                   IF n = 0 THEN h
                                   ELSE IF blocks[n - 1] = Null THEN f[n - 1]
                                   ELSE Free(f[n - 1], blocks[n - 1])]
            M == {k \in Nat : \E f : Solves(f, k)}
<1>1. 0 \in M
  <2>1. Solves([n \in 0 .. 0 |-> h], 0)
    OBVIOUS
  <2>. QED BY <2>1
<1>2. ASSUME NEW k \in M PROVE k + 1 \in M
  <2>1. PICK f : Solves(f, k)
    OBVIOUS
  <2>. DEFINE g == [n \in 0 .. k + 1 |-> IF n = k + 1 THEN Step(k + 1, f[k]) ELSE f[n]]
  <2>2. ASSUME NEW n \in 0 .. k + 1
        PROVE  g[n] = IF n = 0 THEN h ELSE Step(n, g[n - 1])
    <3>1. CASE n = 0
      BY <2>1, <3>1
    <3>2. CASE n = k + 1
      <4>1. n # 0 /\ n - 1 = k /\ k \in 0 .. k + 1 /\ k # k + 1
        BY <3>2
      <4>2. g[k] = f[k] /\ g[n] = Step(k + 1, f[k])
        BY <3>2, <4>1
      <4>. QED BY <3>2, <4>1, <4>2
    <3>3. CASE n # 0 /\ n # k + 1
      <4>1. n \in 0 .. k /\ n - 1 \in 0 .. k + 1 /\ n - 1 # k + 1
        BY <3>3
      <4>2. g[n] = f[n] /\ g[n - 1] = f[n - 1]
        BY <3>3, <4>1
      <4>3. f[n] = Step(n, f[n - 1])
        BY <2>1, <3>3, <4>1
      <4>. QED BY <3>3, <4>2, <4>3
    <3>. QED BY <3>1, <3>2, <3>3
  <2>3. Solves(g, k + 1)
    BY <2>2
  <2>. HIDE DEF g
  <2>4. (\E e : Solves(e, k + 1)) /\ k + 1 \in Nat
    BY <2>3
  <2>. HIDE DEF Solves
  <2>. QED BY <2>4
<1>3. M = Nat
  <2>. HIDE DEF M
  <2>1. M \in SUBSET Nat
    BY DEF M
  <2>. QED BY <1>1, <1>2, <2>1, Induct
<1>4. K \in Nat /\ K \in M
  BY <1>3, JitCacheAssumption
<1>. DEFINE after == CHOOSE f : Solves(f, PageWords)
<1>5. Solves(after, PageWords) /\ FreeAll(h, blocks) = after[K]
  BY <1>4 DEF FreeAll
<1>6. \A n \in 0 .. K : after[n] = IF n = 0 THEN h ELSE Step(n, after[n - 1])
  BY <1>5
<1>. HIDE DEF after, Step
<1>. DEFINE X(n) == {blocks[i] : i \in 0 .. n - 1}
            Done(n) == \E T : FreedTo(h, after[n], S, T, X(n))
            D == {n \in Nat : n <= K => Done(n)}
<1>7. 0 \in D
  <2>1. after[0] = h /\ X(0) = {}
    BY <1>4, <1>6
  <2>2. FreedTo(h, h, S, S, {})
    BY DEF FreedTo
  <2>. QED BY <2>1, <2>2
<1>8. ASSUME NEW n \in D PROVE n + 1 \in D
  <2>1. CASE n + 1 <= K
    <3>1. n + 1 \in 0 .. K /\ n + 1 # 0 /\ (n + 1) - 1 = n /\ n <= K /\ n \in 0 .. K - 1
      BY <1>4, <2>1
    <3>2. PICK T : FreedTo(h, after[n], S, T, X(n))
      BY <3>1
    <3>. DEFINE p == blocks[n]
    <3>3. after[n + 1] = IF p = Null THEN after[n] ELSE Free(after[n], p)
      BY <1>6, <3>1 DEF Step
    <3>4. X(n + 1) = X(n) \cup {p}
      <4>1. \A i \in 0 .. n : i = n \/ i \in 0 .. n - 1
        OBVIOUS
      <4>2. \A i \in 0 .. n - 1 : i \in 0 .. n
        OBVIOUS
      <4>. QED BY <3>1, <4>1, <4>2
    <3>. HIDE DEF X
    <3>5. CASE p = Null
      <4>1. 0 \notin HeldIn(h.mem, S)
        <5>1. Sound(h, S)
          BY DEF Kept
        <5>. QED BY <5>1, SoundIs DEF HeldIn
      <4>2. FreedTo(h, after[n], S, T, X(n + 1))
        BY <3>2, <3>4, <3>5, <4>1 DEF FreedTo, Null
      <4>. QED BY <3>3, <3>5, <4>2
    <3>6. CASE p # Null
      <4>1. p \notin X(n)
        <5>1. ASSUME NEW i \in 0 .. n - 1, blocks[i] = p PROVE FALSE
          <6>1. i \in 0 .. PageWords - 1 /\ i # n
            BY <1>4, <3>1
          <6>. QED BY <3>1, <3>6, <5>1, <6>1
        <5>. QED BY <5>1 DEF X
      <4>2. p \in HeldIn(after[n].mem, T)
        BY <3>1, <3>2, <3>6, <4>1 DEF FreedTo
      <4>3. PICK U : FreedTo(h, Free(after[n], p), S, U, X(n) \cup {p})
        BY <3>2, <4>2, FreeOneMore
      <4>4. FreedTo(h, after[n + 1], S, U, X(n + 1))
        BY <3>3, <3>4, <3>6, <4>3
      <4>. QED BY <4>4
    <3>. HIDE DEF D
    <3>. QED BY <3>5, <3>6
  <2>2. n + 1 \in Nat
    OBVIOUS
  <2>. HIDE DEF Done
  <2>. QED BY <2>1, <2>2
<1>9. D = Nat
  <2>. HIDE DEF D
  <2>1. D \in SUBSET Nat
    BY DEF D
  <2>. QED BY <1>7, <1>8, <2>1, Induct
<1>10. Done(K)
  <2>. HIDE DEF D
  <2>1. K \in D /\ K <= K
    BY <1>4, <1>9
  <2>. QED BY <2>1 DEF D
<1>. QED BY <1>5, <1>10

-----------------------------------------------------------------------------
(* Addresses, pages and indices                                            *)
LEMMA PageIs ==
  ASSUME NEW pc \in Nat
  PROVE  /\ Page(pc) \in Nat /\ Index(pc) \in 0 .. PageWords - 1
         /\ Page(pc) * PageWords + Index(pc) = pc /\ Entry(pc) \in 0 .. Slots - 1
<1>1. PageWords \in Nat /\ PageWords > 0 /\ Slots \in Nat /\ Slots > 0
  BY JitCacheAssumption
<1>2. Page(pc) \in Nat
  BY <1>1 DEF Page
<1>3. Index(pc) \in 0 .. PageWords - 1
  BY <1>1 DEF Index
<1>4. Entry(pc) \in 0 .. Slots - 1
  BY <1>1 DEF Entry
<1>5. Page(pc) * PageWords + Index(pc) = pc
  BY <1>1 DEF Page, Index
<1>. QED BY <1>2, <1>3, <1>4, <1>5

LEMMA CodeIsOnce ==
  ASSUME NEW q \in Nat, NEW r \in Nat, NEW i \in 0 .. PageWords - 1, NEW j \in 0 .. PageWords - 1,
         Code(q * PageWords + i) = Code(r * PageWords + j)
  PROVE  q = r /\ i = j
<1>. DEFINE N == PageWords
<1>1. N \in Nat /\ N > 0
  BY JitCacheAssumption
<1>2. q * N \in Nat /\ r * N \in Nat
  BY <1>1
<1>3. \A a, b \in Nat : a < b => a * N + N <= b * N
  <2>. SUFFICES ASSUME NEW a \in Nat, NEW b \in Nat, a < b PROVE a * N + N <= b * N
    OBVIOUS
  <2>1. b - a - 1 \in Nat
    OBVIOUS
  <2>. DEFINE d == b - a - 1
  <2>2. d \in Nat /\ b = a + d + 1
    BY <2>1
  <2>. HIDE DEF d, N
  <2>3. d * N >= 0 /\ d * N \in Int /\ a * N \in Int
    BY <1>1, <2>2
  <2>4. b * N = a * N + d * N + N
    BY <1>1, <2>2
  <2>. QED BY <1>1, <2>3, <2>4
<1>4. q * N + i = r * N + j
  <2>. DEFINE x == q * N
              y == r * N
  <2>1. -2 - (x + i) = -2 - (y + j) /\ x \in Nat /\ y \in Nat
    BY <1>2 DEF Code
  <2>. HIDE DEF x, y
  <2>2. x + i = y + j
    BY <1>1, <2>1
  <2>. QED BY <2>2 DEF x, y
<1>5. ~(q < r) /\ ~(r < q)
  <2>1. q < r => q * N + N <= r * N
    BY <1>3
  <2>2. r < q => r * N + N <= q * N
    BY <1>3
  <2>. DEFINE x == q * N
              y == r * N
  <2>3. x \in Nat /\ y \in Nat /\ x + i = y + j
    BY <1>2, <1>4
  <2>4. (q < r => x + N <= y) /\ (r < q => y + N <= x)
    BY <2>1, <2>2
  <2>. HIDE DEF x, y
  <2>. QED BY <1>1, <2>3, <2>4
<1>6. q = r
  BY <1>5
<1>7. i = j
  <2>. DEFINE x == q * N
  <2>1. x \in Nat /\ x + i = x + j
    BY <1>2, <1>4, <1>6
  <2>. HIDE DEF x
  <2>. QED BY <1>1, <2>1
<1>. QED BY <1>6, <1>7

-----------------------------------------------------------------------------
(* The invariant *)
Inserts == [stage : {"insert"}, pc : PCs \cup {Prologue}, size : Nat \ {0}, flushed : BOOLEAN]
Flushes == [stage : {"flush"}, todo : SUBSET Nat, next : Inserts]
Ends == [stage : {"idle", "died", "crashed"}]

WorkOk ==
  /\ work \in Ends \cup Inserts \cup Flushes
  /\ work.stage = "flush" => work.todo \subseteq DOMAIN pages
  /\ work.stage = "insert" => ~Cached(work.pc)

Arrays == {NoArray} \cup [0 .. PageWords - 1 -> Nat]

RecordsOk(pp) ==
  /\ DOMAIN pp \subseteq Nat /\ pp = [q \in DOMAIN pp |-> pp[q]]
  /\ \A q \in DOMAIN pp : pp[q] \in Arrays

(* lookup_cache and the page cache refer to records that exist.            *)
Refers(l, pp, last) ==
  /\ l \in [0 .. Slots - 1 -> Int]
  /\ \A s \in 0 .. Slots - 1 : l[s] = Nothing \/
       /\ l[s] \in Nat /\ Page(l[s]) \in DOMAIN pp /\ pp[Page(l[s])] # NoArray
       /\ pp[Page(l[s])][Index(l[s])] # Null /\ Entry(l[s]) = s
  /\ last = Nothing \/ last \in DOMAIN pp

(* The blocks of the pages Q are the objects in use, and hold their code.  *)
Holds(m, S, pp, Q) ==
  /\ \A q \in Q : pp[q] # NoArray => \A i \in 0 .. PageWords - 1 : pp[q][i] # Null =>
       pp[q][i] \in HeldIn(m, S) /\ m[pp[q][i]] = Code(q * PageWords + i)
  /\ \A p \in HeldIn(m, S) : \E q \in Q : pp[q] # NoArray /\ \E i \in 0 .. PageWords - 1 : pp[q][i] = p

PagesKept == IF work.stage = "flush" THEN work.todo ELSE DOMAIN pages

JitInv ==
  /\ WorkOk /\ RecordsOk(pages) /\ Refers(lookup, pages, lastPage)
  /\ Kept(heap, Heap)
  /\ work.stage # "crashed" => Holds(heap.mem, Heap, pages, PagesKept)

LEMMA KeptIsHeap == ASSUME NEW h, NEW S, Kept(h, S) PROVE Objects(h) = S /\ Kept(h, Objects(h))
BY SoundIs DEF Kept

LEMMA NoArrayIs == /\ NoArray \notin [0 .. PageWords - 1 -> Nat]
                   /\ \A a \in Arrays : a # NoArray => a \in [0 .. PageWords - 1 -> Nat]
<1>1. PageWords \in Nat \ {0}
  BY JitCacheAssumption
<1>2. ASSUME NoArray \in [0 .. PageWords - 1 -> Nat] PROVE FALSE
  <2>1. 0 \in DOMAIN NoArray
    BY <1>1, <1>2
  <2>2. DOMAIN NoArray = {}
    BY DEF NoArray
  <2>. QED BY <2>1, <2>2
<1>. QED BY <1>2 DEF Arrays

LEMMA SmallestFits == MinBinSize(0) <= MinBinSize(Bins)
<1>. DEFINE M == {n \in Nat : n <= Bins => MinBinSize(0) <= MinBinSize(n)}
<1>1. Bins \in Nat /\ BinStart \in Nat /\ \A b \in 0 .. Bins : MinBinSize(b) \in Nat
  BY MinBinSizeIs, JitCacheAssumption
<1>2. 0 \in M
  <2>1. 0 \in 0 .. Bins
    BY <1>1
  <2>2. MinBinSize(0) \in Nat
    BY <1>1, <2>1
  <2>. QED BY <2>2
<1>3. ASSUME NEW n \in M PROVE n + 1 \in M
  <2>1. CASE n + 1 <= Bins
    <3>1. n \in 0 .. Bins /\ n + 1 \in 0 .. Bins /\ 0 \in 0 .. Bins /\ n <= Bins
      BY <1>1, <2>1
    <3>2. MinBinSize(n + 1) = 2 * MinBinSize(n)
      <4>1. BinStart + (n + 1) \in 1 .. BinStart + Bins /\ (BinStart + (n + 1)) - 1 = BinStart + n
        BY <1>1, <2>1
      <4>. QED BY <4>1, PowerOf2Is DEF MinBinSize
    <3>3. MinBinSize(n) \in Nat /\ MinBinSize(n + 1) \in Nat /\ MinBinSize(0) \in Nat
      BY <1>1, <3>1
    <3>4. MinBinSize(0) <= MinBinSize(n)
      BY <3>1
    <3>5. MinBinSize(0) <= MinBinSize(n + 1)
      BY <3>2, <3>3, <3>4
    <3>. QED BY <3>5
  <2>. QED BY <2>1
<1>4. M = Nat
  <2>. HIDE DEF M
  <2>1. M \in SUBSET Nat
    BY DEF M
  <2>. QED BY <1>2, <1>3, <2>1, Induct
<1>5. Bins \in M
  BY <1>1, <1>4
<1>. QED BY <1>1, <1>5

LEMMA EmptyHeapIs == Kept(EmptyHeap, {1}) /\ HeldIn(EmptyHeap.mem, {1}) = {}
<1>. DEFINE m == [w \in 0 .. HeapSize - 1 |-> IF w \in {0, HeapSize - 1} THEN HeapSize - 2 ELSE Junk]
            z == HeapSize - 2
<1>1. /\ HeapSize \in Nat /\ HeapSize >= 6 /\ MinBinSize(0) \in Nat /\ MinBinSize(Bins) \in Nat
      /\ MinBinSize(Bins) <= z /\ Bins \in Nat
  <2>1. 0 \in 0 .. Bins /\ Bins \in 0 .. Bins
    BY MinBinSizeIs
  <2>. QED BY <2>1, MinBinSizeIs
<1>2. MinBinSize(0) <= z
  BY <1>1, SmallestFits
<1>3. EmptyHeap.mem = m /\ EmptyHeap.usage = 0
      /\ EmptyHeap.bins = [b \in 0 .. Bins |-> IF b = BigBin THEN <<1>> ELSE <<>>]
      /\ EmptyHeap = [mem |-> m, bins |-> EmptyHeap.bins, usage |-> 0]
  BY DEF EmptyHeap
<1>4. m[0] = z /\ m[HeapSize - 1] = z /\ m \in Memories
  BY <1>1 DEF Memories, Junk
<1>. HIDE DEF m
<1>5. EndOf(m, 1) = HeapSize - 1 /\ Behind(m, 1) = HeapSize + 1 /\ m[1 - 1] = z
  BY <1>1, <1>4 DEF EndOf, Behind
<1>6. Tiles(m, {1})
  BY <1>1, <1>2, <1>4, <1>5 DEF Tiles
<1>7. FreeIn(m, {1}) = {1} /\ HeldIn(m, {1}) = {}
  BY <1>1, <1>4, <1>5 DEF FreeIn, HeldIn
<1>8. BinOf(z) = BigBin
  BY <1>1, BinOfIs
<1>9. Lists(EmptyHeap, {1})
  <2>1. Size(EmptyHeap, 1) = z
    BY <1>3, <1>5 DEF Size
  <2>2. ASSUME NEW b \in 0 .. Bins
        PROVE  /\ Listed(EmptyHeap.bins[b]) = {p \in {1} : BinOf(Size(EmptyHeap, p)) = b}
               /\ Once(EmptyHeap.bins[b])
    <3>1. CASE b = BigBin
      <4>1. EmptyHeap.bins[b] = <<1>>
        BY <1>3, <3>1
      <4>2. Listed(<<1>>) = {1} /\ Once(<<1>>)
        BY DEF Listed, Once
      <4>. QED BY <1>8, <2>1, <3>1, <4>1, <4>2
    <3>2. CASE b # BigBin
      <4>1. EmptyHeap.bins[b] = <<>>
        BY <1>3, <3>2
      <4>2. Listed(<<>>) = {} /\ Once(<<>>)
        BY DEF Listed, Once
      <4>. QED BY <1>8, <2>1, <3>2, <4>1, <4>2
    <3>. QED BY <3>1, <3>2
  <2>. QED BY <2>2 DEF Lists
<1>10. EmptyHeap \in Heaps
  <2>1. EmptyHeap.bins \in [0 .. Bins -> Seq(Nat)]
    <3>1. <<1>> \in Seq(Nat) /\ <<>> \in Seq(Nat)
      OBVIOUS
    <3>2. \A b \in 0 .. Bins : (IF b = BigBin THEN <<1>> ELSE <<>>) \in Seq(Nat)
      BY <3>1
    <3>. QED BY <1>3, <3>2
  <2>. DEFINE B == EmptyHeap.bins
              E == EmptyHeap
  <2>2. E = [mem |-> m, bins |-> B, usage |-> 0] /\ B \in [0 .. Bins -> Seq(Nat)]
    BY <1>3, <2>1
  <2>. HIDE DEF B, E
  <2>3. E \in Heaps
    BY <1>4, <2>2 DEF Heaps
  <2>. QED BY <2>3 DEF E
<1>11. Sound(EmptyHeap, {1})
  BY <1>3, <1>6, <1>7, <1>9, <1>10 DEF Sound
<1>12. PairsIn(m, {1}) = {}
  BY <1>1, <1>5, <1>7 DEF PairsIn
<1>13. WordsUsed(EmptyHeap) = 0
  <2>1. Weights(m, {1}) = [p \in 1 .. HeapSize - 1 |-> 0]
    BY <1>7 DEF Weights
  <2>2. WordsUsed(EmptyHeap) = Total(Weights(m, {1}))
    BY <1>3, <1>6, WordsUsedAre
  <2>. QED BY <2>1, <2>2, TotalOfNothing
<1>. QED BY <1>3, <1>7, <1>11, <1>12, <1>13 DEF Kept


LEMMA InitKeeps == JitInit => JitInv
<1>. SUFFICES ASSUME JitInit PROVE JitInv
  OBVIOUS
<1>1. /\ heap = EmptyHeap /\ pages = <<>> /\ lastPage = Nothing
      /\ lookup = [s \in 0 .. Slots - 1 |-> Nothing] /\ work = Idle
  BY DEF JitInit
<1>2. Heap = {1} /\ Kept(heap, Heap) /\ HeldIn(heap.mem, Heap) = {}
  BY <1>1, EmptyHeapIs, KeptIsHeap DEF Heap
<1>3. DOMAIN pages = {} /\ pages = [q \in DOMAIN pages |-> pages[q]]
  BY <1>1
<1>4. work.stage = "idle" /\ work \in Ends
  BY <1>1 DEF Idle, Ends
<1>5. WorkOk
  BY <1>4 DEF WorkOk
<1>6. RecordsOk(pages)
  BY <1>3 DEF RecordsOk
<1>7. Refers(lookup, pages, lastPage)
  BY <1>1 DEF Refers, Nothing
<1>8. Holds(heap.mem, Heap, pages, PagesKept)
  <2>1. PagesKept = {}
    BY <1>3, <1>4 DEF PagesKept
  <2>. QED BY <1>2, <2>1 DEF Holds
<1>. QED BY <1>2, <1>5, <1>6, <1>7, <1>8 DEF JitInv

(* The record of the page of pc, with no array if it is new                *)
LEMMA WithPageIs ==
  ASSUME RecordsOk(pages), NEW pc \in Nat
  PROVE  /\ RecordsOk(WithPage(pc)) /\ DOMAIN WithPage(pc) = DOMAIN pages \cup {Page(pc)}
         /\ \A q \in DOMAIN pages : WithPage(pc)[q] = pages[q]
         /\ Page(pc) \notin DOMAIN pages => WithPage(pc)[Page(pc)] = NoArray
BY PageIs DEF WithPage, RecordsOk, Arrays

LEMMA RefersOn ==
  ASSUME NEW l, NEW pp, NEW qq, NEW last, NEW new, Refers(l, pp, last), DOMAIN pp \subseteq DOMAIN qq,
         \A q \in DOMAIN pp : pp[q] # NoArray =>
           qq[q] # NoArray /\ \A i \in 0 .. PageWords - 1 : pp[q][i] # Null => qq[q][i] # Null,
         new = Nothing \/ new \in DOMAIN qq
  PROVE  Refers(l, qq, new)
<1>1. l \in [0 .. Slots - 1 -> Int]
  BY DEF Refers
<1>2. ASSUME NEW s \in 0 .. Slots - 1, l[s] # Nothing
      PROVE  /\ l[s] \in Nat /\ Page(l[s]) \in DOMAIN qq /\ qq[Page(l[s])] # NoArray
             /\ qq[Page(l[s])][Index(l[s])] # Null /\ Entry(l[s]) = s
  <2>. DEFINE e == l[s]
  <2>1. /\ e \in Nat /\ Page(e) \in DOMAIN pp /\ pp[Page(e)] # NoArray
        /\ pp[Page(e)][Index(e)] # Null /\ Entry(e) = s
    BY <1>2 DEF Refers
  <2>. HIDE DEF e
  <2>2. Index(e) \in 0 .. PageWords - 1
    BY <2>1, PageIs
  <2>3. qq[Page(e)] # NoArray /\ qq[Page(e)][Index(e)] # Null /\ Page(e) \in DOMAIN qq
    BY <2>1, <2>2
  <2>. QED BY <2>1, <2>3 DEF e
<1>. QED BY <1>1, <1>2 DEF Refers

LEMMA RefersTo ==
  ASSUME NEW l, NEW pp, NEW last, Refers(l, pp, last), NEW pc \in Nat, Page(pc) \in DOMAIN pp,
         pp[Page(pc)] # NoArray, pp[Page(pc)][Index(pc)] # Null
  PROVE  Refers([l EXCEPT ![Entry(pc)] = pc], pp, last)
<1>. DEFINE k == [l EXCEPT ![Entry(pc)] = pc]
<1>1. Entry(pc) \in 0 .. Slots - 1 /\ l \in [0 .. Slots - 1 -> Int]
  BY PageIs DEF Refers
<1>2. k \in [0 .. Slots - 1 -> Int] /\ k[Entry(pc)] = pc
      /\ \A s \in 0 .. Slots - 1 : s # Entry(pc) => k[s] = l[s]
  BY <1>1
<1>. HIDE DEF k
<1>3. \A s \in 0 .. Slots - 1 : k[s] = Nothing \/
       /\ k[s] \in Nat /\ Page(k[s]) \in DOMAIN pp /\ pp[Page(k[s])] # NoArray
       /\ pp[Page(k[s])][Index(k[s])] # Null /\ Entry(k[s]) = s
  <2>. TAKE s \in 0 .. Slots - 1
  <2>1. CASE s = Entry(pc)
    BY <1>2, <2>1
  <2>2. CASE s # Entry(pc)
    <3>1. k[s] = l[s]
      BY <1>2, <2>2
    <3>. QED BY <3>1 DEF Refers
  <2>. QED BY <2>1, <2>2
<1>. QED BY <1>2, <1>3 DEF Refers, k

LEMMA ProgramCounters == PCs \cup {Prologue} \subseteq Nat /\ BlockSizes \subseteq Nat \ {0} /\ PrologueSize \in Nat \ {0}
BY JitCacheAssumption

(* flush_jit_cache, running and prologue_block are outside the invariant.  *)
LEMMA AskFlushKeeps == ASSUME JitInv, AskFlush PROVE JitInv'
BY DEF JitInv, AskFlush, Heap, WorkOk, Cached, Block, PagesKept

LEMMA LeaveKeeps == ASSUME JitInv, Leave PROVE JitInv'
BY DEF JitInv, Leave, Heap, WorkOk, Cached, Block, PagesKept

LEMMA RunJitKeeps == ASSUME JitInv, RunJit PROVE JitInv'
<1>1. UNCHANGED <<heap, pages, lastPage, lookup>> /\ work = Idle
  BY DEF RunJit
<1>2. Heap' = Heap
  BY <1>1 DEF Heap
<1>3. CASE ~flush
  BY <1>1, <1>2, <1>3 DEF JitInv, RunJit, WorkOk, Cached, Block, PagesKept
<1>4. CASE flush
  <2>. DEFINE w == [stage |-> "flush", todo |-> DOMAIN pages, next |-> Insert(Prologue, PrologueSize)]
  <2>1. work' = w
    BY <1>4 DEF RunJit
  <2>2. Insert(Prologue, PrologueSize) \in Inserts
    BY ProgramCounters DEF Insert, Inserts
  <2>3. w \in Flushes /\ w.stage = "flush" /\ w.todo = DOMAIN pages
    BY <2>2 DEF Flushes, JitInv, RecordsOk
  <2>. HIDE DEF w
  <2>4. WorkOk'
    BY <1>1, <2>1, <2>3 DEF WorkOk
  <2>5. PagesKept' = PagesKept
    BY <1>1, <2>1, <2>3 DEF PagesKept, Idle
  <2>6. Holds(heap.mem, Heap, pages, PagesKept)
    BY <1>1 DEF JitInv, Idle
  <2>. QED BY <1>1, <1>2, <2>4, <2>5, <2>6 DEF JitInv
<1>. QED BY <1>3, <1>4

LEMMA FlushEndKept == ASSUME JitInv, FlushEnd PROVE JitInv'
<1>1. /\ work.stage = "flush" /\ work.todo = {} /\ heap' = heap /\ pages' = <<>> /\ lastPage' = Nothing
      /\ work' = work.next /\ lookup' = [s \in DOMAIN lookup |-> Nothing]
  BY DEF FlushEnd
<1>2. Heap' = Heap
  BY <1>1 DEF Heap
<1>3. work.next \in Inserts
  <2>1. work \in Flushes
    BY <1>1 DEF JitInv, WorkOk, Ends, Inserts
  <2>. QED BY <2>1 DEF Flushes
<1>4. work'.stage = "insert" /\ DOMAIN pages' = {}
  BY <1>1, <1>3 DEF Inserts
<1>5. WorkOk'
  BY <1>1, <1>3, <1>4 DEF WorkOk, Cached
<1>6. RecordsOk(pages')
  BY <1>1, <1>4 DEF RecordsOk
<1>7. Refers(lookup', pages', lastPage')
  BY <1>1 DEF JitInv, Refers, Nothing
<1>8. Holds(heap'.mem, Heap', pages', PagesKept')
  <2>1. PagesKept' = {} /\ PagesKept = {}
    BY <1>1, <1>4 DEF PagesKept
  <2>2. Holds(heap.mem, Heap, pages, {})
    BY <1>1, <2>1 DEF JitInv
  <2>3. Holds(heap.mem, Heap, pages', {})
    BY <2>2 DEF Holds
  <2>. QED BY <1>1, <1>2, <2>1, <2>3
<1>. QED BY <1>1, <1>2, <1>5, <1>6, <1>7, <1>8 DEF JitInv


(* A page without blocks adds nothing to what the records hold.            *)
LEMMA HoldsWithPage ==
  ASSUME NEW m, NEW S, RecordsOk(pages), NEW pc \in Nat, Holds(m, S, pages, DOMAIN pages)
  PROVE  Holds(m, S, WithPage(pc), DOMAIN WithPage(pc))
<1>. DEFINE pp == WithPage(pc)
<1>1. /\ DOMAIN pp = DOMAIN pages \cup {Page(pc)}
      /\ \A q \in DOMAIN pages : pp[q] = pages[q]
      /\ Page(pc) \notin DOMAIN pages => pp[Page(pc)] = NoArray
  BY WithPageIs
<1>. HIDE DEF pp
<1>2. \A q \in DOMAIN pp : pp[q] # NoArray => q \in DOMAIN pages /\ pp[q] = pages[q]
  BY <1>1
<1>3. \A q \in DOMAIN pages : q \in DOMAIN pp /\ pp[q] = pages[q]
  BY <1>1
<1>4. Holds(m, S, pp, DOMAIN pp)
  BY <1>2, <1>3 DEF Holds
<1>. QED BY <1>4 DEF pp

LEMMA RefersWithPage ==
  ASSUME RecordsOk(pages), Refers(lookup, pages, lastPage), NEW pc \in Nat
  PROVE  Refers(lookup, WithPage(pc), Page(pc))
<1>. DEFINE pp == WithPage(pc)
<1>1. /\ DOMAIN pp = DOMAIN pages \cup {Page(pc)}
      /\ \A q \in DOMAIN pages : pp[q] = pages[q]
  BY WithPageIs
<1>. HIDE DEF pp
<1>2. Refers(lookup, pp, Page(pc))
  BY <1>1, RefersOn
<1>. QED BY <1>2 DEF pp

LEMMA DispatchKeeps == ASSUME JitInv, Dispatch PROVE JitInv'
<1>1. /\ work = Idle /\ UNCHANGED heap /\ RecordsOk(pages) /\ Refers(lookup, pages, lastPage)
      /\ work.stage = "idle" /\ PagesKept = DOMAIN pages /\ Kept(heap, Heap)
      /\ Holds(heap.mem, Heap, pages, DOMAIN pages) /\ WorkOk
  BY DEF JitInv, Dispatch, Idle, PagesKept
<1>2. PICK pc \in PCs :
       IF lookup[Entry(pc)] = pc
       THEN running' = Block(pc) /\ UNCHANGED <<pages, lastPage, lookup, work>>
       ELSE /\ lastPage' = Page(pc) /\ pages' = WithPage(pc)
            /\ IF Cached(pc)
               THEN /\ running' = Block(pc) /\ lookup' = [lookup EXCEPT ![Entry(pc)] = pc]
                    /\ UNCHANGED work
               ELSE /\ \E n \in BlockSizes : work' = Insert(pc, n)
                    /\ UNCHANGED <<lookup, running>>
  BY DEF Dispatch
<1>3. Heap' = Heap /\ pc \in Nat
  BY <1>1, ProgramCounters DEF Heap
<1>4. CASE lookup[Entry(pc)] = pc
  <2>1. UNCHANGED <<pages, lastPage, lookup, work>>
    BY <1>2, <1>4
  <2>2. WorkOk'
    BY <1>1, <2>1 DEF WorkOk
  <2>3. PagesKept' = DOMAIN pages
    BY <1>1, <2>1 DEF PagesKept
  <2>. QED BY <1>1, <1>3, <2>1, <2>2, <2>3 DEF JitInv
<1>5. CASE lookup[Entry(pc)] # pc
  <2>1. lastPage' = Page(pc) /\ pages' = WithPage(pc)
    BY <1>2, <1>5
  <2>2. /\ RecordsOk(pages') /\ DOMAIN pages' = DOMAIN pages \cup {Page(pc)}
        /\ \A q \in DOMAIN pages : pages'[q] = pages[q]
        /\ Page(pc) \notin DOMAIN pages => pages'[Page(pc)] = NoArray
    BY <1>1, <1>3, <2>1, WithPageIs
  <2>3. Holds(heap'.mem, Heap', pages', DOMAIN pages')
    BY <1>1, <1>3, <2>1, HoldsWithPage
  <2>4. Refers(lookup, pages', lastPage')
    BY <1>1, <1>3, <2>1, RefersWithPage
  <2>5. CASE Cached(pc)
    <3>1. lookup' = [lookup EXCEPT ![Entry(pc)] = pc] /\ work' = work
      BY <1>2, <1>5, <2>5
    <3>2. Page(pc) \in DOMAIN pages' /\ pages'[Page(pc)] # NoArray /\ pages'[Page(pc)][Index(pc)] # Null
      BY <2>2, <2>5 DEF Cached, Block
    <3>3. Refers(lookup', pages', lastPage')
      BY <1>3, <2>4, <3>1, <3>2, RefersTo
    <3>4. WorkOk' /\ PagesKept' = DOMAIN pages'
      BY <1>1, <3>1 DEF WorkOk, PagesKept
    <3>. QED BY <1>1, <1>3, <2>2, <2>3, <3>3, <3>4 DEF JitInv
  <2>6. CASE ~Cached(pc)
    <3>1. PICK n \in BlockSizes : work' = Insert(pc, n)
      BY <1>2, <1>5, <2>6
    <3>2. lookup' = lookup
      BY <1>2, <1>5, <2>6
    <3>3. work' \in Inserts /\ work'.stage = "insert" /\ work'.pc = pc
      BY <3>1, ProgramCounters DEF Insert, Inserts
    <3>4. ~Cached(pc)'
      BY <2>2, <2>6 DEF Cached, Block
    <3>5. WorkOk' /\ PagesKept' = DOMAIN pages'
      BY <3>3, <3>4 DEF WorkOk, PagesKept, Cached, Block
    <3>. QED BY <1>1, <1>3, <2>2, <2>3, <2>4, <3>2, <3>5 DEF JitInv
  <2>. QED BY <2>5, <2>6
<1>. QED BY <1>4, <1>5


(* insert_block records the block at p for pc.                             *)
WithBlock(pp, pc, p) ==
  [pp EXCEPT ![Page(pc)] =
     [i \in 0 .. PageWords - 1 |-> IF i = Index(pc) THEN p ELSE IF @ = NoArray THEN Null ELSE @[i]]]

BlockAdded(pp, qq, pc, p) ==
  /\ RecordsOk(qq) /\ DOMAIN qq = DOMAIN pp /\ qq[Page(pc)] # NoArray
  /\ qq[Page(pc)][Index(pc)] = p
  /\ \A q \in DOMAIN pp : q # Page(pc) => qq[q] = pp[q]
  /\ \A i \in 0 .. PageWords - 1 : i # Index(pc) =>
       qq[Page(pc)][i] = IF pp[Page(pc)] = NoArray THEN Null ELSE pp[Page(pc)][i]

LEMMA WithBlockIs ==
  ASSUME NEW pp, RecordsOk(pp), NEW pc \in Nat, Page(pc) \in DOMAIN pp, NEW p \in Nat,
         NEW qq, qq = WithBlock(pp, pc, p)
  PROVE  BlockAdded(pp, qq, pc, p)
<1>. DEFINE a == pp[Page(pc)]
            b == [i \in 0 .. PageWords - 1 |-> IF i = Index(pc) THEN p ELSE IF a = NoArray THEN Null ELSE a[i]]
            pg == Page(pc)
<1>1. /\ DOMAIN pp \subseteq Nat /\ pp = [q \in DOMAIN pp |-> pp[q]]
      /\ \A q \in DOMAIN pp : pp[q] \in Arrays
  BY DEF RecordsOk
<1>2. Index(pc) \in 0 .. PageWords - 1
  BY PageIs
<1>3. b \in [0 .. PageWords - 1 -> Nat]
  <2>1. a # NoArray => a \in [0 .. PageWords - 1 -> Nat]
    BY <1>1, NoArrayIs
  <2>. HIDE DEF a
  <2>. QED BY <2>1 DEF Null
<1>4. /\ b[Index(pc)] = p
      /\ \A i \in 0 .. PageWords - 1 : i # Index(pc) => b[i] = IF a = NoArray THEN Null ELSE a[i]
  BY <1>2
<1>5. qq = [pp EXCEPT ![pg] = b]
  BY DEF WithBlock
<1>. HIDE DEF b
<1>6. DOMAIN qq = DOMAIN pp /\ qq[pg] = b /\ (\A q \in DOMAIN pp : q # pg => qq[q] = pp[q])
      /\ qq = [q \in DOMAIN qq |-> qq[q]]
  <2>. HIDE DEF pg
  <2>1. pg \in DOMAIN pp
    BY DEF pg
  <2>2. DOMAIN qq = DOMAIN pp /\ qq = [q \in DOMAIN pp |-> qq[q]]
    BY <1>5
  <2>3. qq[pg] = b /\ \A q \in DOMAIN pp : q # pg => qq[q] = pp[q]
    BY <1>1, <1>5, <2>1
  <2>. QED BY <2>2, <2>3
<1>7. b # NoArray /\ b \in Arrays
  BY <1>3, NoArrayIs DEF Arrays
<1>8. RecordsOk(qq)
  BY <1>1, <1>6, <1>7 DEF RecordsOk
<1>9. \A i \in 0 .. PageWords - 1 : i # Index(pc) => qq[pg][i] = IF a = NoArray THEN Null ELSE a[i]
  BY <1>4, <1>6
<1>. QED BY <1>4, <1>6, <1>7, <1>8, <1>9 DEF BlockAdded

LEMMA NullIsNotHeld == ASSUME NEW h, NEW S, Kept(h, S) PROVE Null \notin HeldIn(h.mem, S)
BY SoundIs DEF Kept, HeldIn, Null

LEMMA HoldsWithBlock ==
  ASSUME NEW h, NEW g, NEW S, Kept(h, S), NEW T, NEW pp, RecordsOk(pp), Holds(h.mem, S, pp, DOMAIN pp),
         NEW p \in Nat, p # Null, p \in HeldIn(g.mem, T), p \notin HeldIn(h.mem, S), HeldSame(h, g, S, T, p),
         NEW pc \in Nat, Page(pc) \in DOMAIN pp, g.mem[p] = Code(pc),
         pp[Page(pc)] = NoArray \/ pp[Page(pc)][Index(pc)] = Null,
         NEW qq, qq = WithBlock(pp, pc, p)
  PROVE  Holds(g.mem, T, qq, DOMAIN qq)
<1>. DEFINE pg == Page(pc)
            ix == Index(pc)
<1>1. /\ DOMAIN qq = DOMAIN pp /\ qq[pg] # NoArray /\ qq[pg][ix] = p
      /\ \A q \in DOMAIN pp : q # pg => qq[q] = pp[q]
      /\ \A i \in 0 .. PageWords - 1 : i # ix =>
              qq[pg][i] = IF pp[pg] = NoArray THEN Null ELSE pp[pg][i]
  <2>1. BlockAdded(pp, qq, pc, p)
    BY WithBlockIs
  <2>. QED BY <2>1 DEF BlockAdded
<1>2. ix \in 0 .. PageWords - 1 /\ pg * PageWords + ix = pc
  BY PageIs
<1>3. pg \in DOMAIN pp /\ (pp[pg] = NoArray \/ pp[pg][ix] = Null)
  OBVIOUS
<1>4. g.mem[p] = Code(pg * PageWords + ix)
  BY <1>2
<1>. HIDE DEF pg, ix
<1>5. ASSUME NEW q \in DOMAIN pp, qq[q] # NoArray, NEW i \in 0 .. PageWords - 1, qq[q][i] # Null
      PROVE  qq[q][i] \in HeldIn(g.mem, T) /\ g.mem[qq[q][i]] = Code(q * PageWords + i)
  <2>1. CASE q = pg /\ i = ix
    BY <1>1, <1>4, <2>1
  <2>2. CASE ~(q = pg /\ i = ix)
    <3>1. pp[q] # NoArray /\ qq[q][i] = pp[q][i]
      BY <1>1, <1>5, <2>2
    <3>2. qq[q][i] \in HeldIn(h.mem, S) /\ h.mem[qq[q][i]] = Code(q * PageWords + i)
      BY <1>5, <3>1 DEF Holds
    <3>. QED BY <3>2 DEF HeldSame
  <2>. QED BY <2>1, <2>2
<1>6. ASSUME NEW x \in HeldIn(g.mem, T)
      PROVE  \E q \in DOMAIN pp : qq[q] # NoArray /\ \E i \in 0 .. PageWords - 1 : qq[q][i] = x
  <2>1. CASE x = p
    BY <1>1, <1>2, <1>3, <2>1
  <2>2. CASE x # p
    <3>1. x \in HeldIn(h.mem, S)
      BY <2>2 DEF HeldSame
    <3>2. PICK q \in DOMAIN pp, i \in 0 .. PageWords - 1 : pp[q] # NoArray /\ pp[q][i] = x
      BY <3>1 DEF Holds
    <3>3. ~(q = pg /\ i = ix)
      <4>. SUFFICES ASSUME q = pg, i = ix PROVE FALSE
        OBVIOUS
      <4>1. x = Null
        BY <1>3, <3>2
      <4>. QED BY <3>1, <4>1, NullIsNotHeld
    <3>4. qq[q] # NoArray /\ qq[q][i] = x
      BY <1>1, <3>2, <3>3
    <3>. QED BY <3>4
  <2>. QED BY <2>1, <2>2
<1>. QED BY <1>1, <1>5, <1>6 DEF Holds

LEMMA InsertBlockKeeps == ASSUME JitInv, InsertBlock PROVE JitInv'
<1>. DEFINE p == FindMemory(heap, Aligned(work.size))
            pc == work.pc
            n == work.size
            h == Malloc(heap, p, n)
            x == Code(pc)
            g == WithCode(h, p, n, x)
            pp == WithPage(pc)
            qq == WithBlock(pp, pc, p)
<1>1. /\ work \in Inserts /\ work.stage = "insert" /\ ~Cached(pc) /\ PagesKept = DOMAIN pages
      /\ RecordsOk(pages) /\ Refers(lookup, pages, lastPage) /\ Kept(heap, Heap)
      /\ Holds(heap.mem, Heap, pages, DOMAIN pages)
  <2>1. work.stage = "insert"
    BY DEF InsertBlock
  <2>2. work \in Inserts /\ ~Cached(pc)
    BY <2>1 DEF JitInv, WorkOk, Ends, Flushes
  <2>. QED BY <2>1, <2>2 DEF JitInv, PagesKept
<1>2. n \in Nat /\ n >= 1 /\ pc \in Nat /\ pc \in PCs \cup {Prologue}
  BY <1>1, ProgramCounters DEF Inserts
<1>3. CASE p = Null
  <2>1. /\ work' = IF work.flushed THEN [stage |-> "died"] ELSE FlushFor(work)
        /\ UNCHANGED <<heap, pages, lastPage, lookup>>
    BY <1>3 DEF InsertBlock
  <2>2. Heap' = Heap
    BY <2>1 DEF Heap
  <2>3. CASE work.flushed
    <3>1. work' = [stage |-> "died"]
      BY <2>1, <2>3
    <3>2. work' \in Ends /\ work'.stage = "died"
      BY <3>1 DEF Ends
    <3>3. WorkOk' /\ PagesKept' = DOMAIN pages
      BY <2>1, <3>2 DEF WorkOk, PagesKept
    <3>. QED BY <1>1, <2>1, <2>2, <3>3 DEF JitInv
  <2>4. CASE ~work.flushed
    <3>1. work' = FlushFor(work)
      BY <2>1, <2>4
    <3>2. [work EXCEPT !.flushed = TRUE] \in Inserts
      BY <1>1 DEF Inserts
    <3>3. work' \in Flushes /\ work'.stage = "flush" /\ work'.todo = DOMAIN pages
      BY <1>1, <3>1, <3>2 DEF Flushes, FlushFor, RecordsOk
    <3>4. WorkOk' /\ PagesKept' = DOMAIN pages
      BY <2>1, <3>3 DEF WorkOk, PagesKept
    <3>. QED BY <1>1, <2>1, <2>2, <3>4 DEF JitInv
  <2>. QED BY <2>3, <2>4
<1>4. CASE p # Null
  <2>1. /\ heap' = g /\ lastPage' = Page(pc) /\ pages' = qq /\ work' = Idle
        /\ IF pc = Prologue THEN lookup' = lookup ELSE lookup' = [lookup EXCEPT ![Entry(pc)] = pc]
    BY <1>4 DEF InsertBlock, WithCode, WithBlock
  <2>2. p \in FreeIn(heap.mem, Heap) /\ Size(heap, p) >= Aligned(n)
    BY <1>1, <1>2, <1>4, AlignedIs, FindMemoryIs DEF Kept
  <2>. HIDE DEF p
  <2>3. PICK T : /\ Kept(h, T) /\ p \in HeldIn(h.mem, T)
                 /\ HeldSame(heap, h, Heap, T, p) /\ h.mem[p - 1] >= n
    BY <1>1, <1>2, <2>2, KeptMalloc
  <2>. HIDE DEF h
  <2>4. x \in Int
    BY <1>2 DEF Code
  <2>. HIDE DEF x
  <2>5. Kept(g, T) /\ p \in HeldIn(g.mem, T) /\ HeldSame(h, g, T, T, p) /\ g.mem[p] = x
    BY <1>2, <2>3, <2>4, KeptCode
  <2>. HIDE DEF g
  <2>6. HeldSame(heap, g, Heap, T, p)
    BY <2>3, <2>5, HeldSameTwice
  <2>7. Heap' = T
    BY <2>1, <2>5, KeptIsHeap DEF Heap
  <2>8. p \in Nat /\ p \notin HeldIn(heap.mem, Heap)
    BY <1>1, <2>2, SoundIs DEF Kept, FreeIn
  <2>9. /\ RecordsOk(pp) /\ Page(pc) \in DOMAIN pp /\ DOMAIN pp = DOMAIN pages \cup {Page(pc)}
        /\ \A q \in DOMAIN pages : pp[q] = pages[q]
        /\ Page(pc) \notin DOMAIN pages => pp[Page(pc)] = NoArray
    BY <1>1, <1>2, WithPageIs
  <2>10. pp[Page(pc)] = NoArray \/ pp[Page(pc)][Index(pc)] = Null
    BY <1>1, <2>9 DEF Cached, Block
  <2>11. Holds(heap.mem, Heap, pp, DOMAIN pp) /\ Refers(lookup, pp, Page(pc))
    BY <1>1, <1>2, HoldsWithPage, RefersWithPage
  <2>. HIDE DEF pp
  <2>12. /\ RecordsOk(qq) /\ DOMAIN qq = DOMAIN pp /\ qq[Page(pc)] # NoArray
         /\ qq[Page(pc)][Index(pc)] = p
         /\ \A q \in DOMAIN pp : q # Page(pc) => qq[q] = pp[q]
         /\ \A i \in 0 .. PageWords - 1 : i # Index(pc) =>
              qq[Page(pc)][i] = IF pp[Page(pc)] = NoArray THEN Null ELSE pp[Page(pc)][i]
    <3>1. BlockAdded(pp, qq, pc, p)
      BY <1>2, <2>8, <2>9, WithBlockIs
    <3>. QED BY <3>1 DEF BlockAdded
  <2>13. Holds(g.mem, T, qq, DOMAIN qq)
    BY <1>1, <1>2, <1>4, <2>5, <2>6, <2>8, <2>9, <2>10, <2>11, HoldsWithBlock DEF x
  <2>. HIDE DEF qq
  <2>14. Refers(lookup, qq, Page(pc))
    <3>1. \A q \in DOMAIN pp : pp[q] # NoArray =>
           qq[q] # NoArray /\ \A i \in 0 .. PageWords - 1 : pp[q][i] # Null => qq[q][i] # Null
      BY <1>4, <2>9, <2>12
    <3>. QED BY <2>9, <2>11, <2>12, <3>1, RefersOn
  <2>15. Refers(lookup', qq, Page(pc))
    <3>1. CASE pc = Prologue
      BY <2>1, <2>14, <3>1
    <3>2. CASE pc # Prologue
      <4>1. lookup' = [lookup EXCEPT ![Entry(pc)] = pc]
        BY <2>1, <3>2
      <4>. QED BY <1>2, <1>4, <2>9, <2>12, <2>14, <4>1, RefersTo
    <3>. QED BY <3>1, <3>2
  <2>16. WorkOk' /\ PagesKept' = DOMAIN pages'
    <3>1. work' \in Ends /\ work'.stage = "idle"
      BY <2>1 DEF Idle, Ends
    <3>. QED BY <3>1 DEF WorkOk, PagesKept
  <2>. QED BY <2>1, <2>5, <2>7, <2>12, <2>13, <2>15, <2>16 DEF JitInv
<1>. QED BY <1>3, <1>4


LEMMA FlushPageKeeps == ASSUME JitInv, FlushPage PROVE JitInv'
<1>1. /\ work \in Flushes /\ work.stage = "flush" /\ PagesKept = work.todo
      /\ work.todo \subseteq DOMAIN pages
      /\ RecordsOk(pages) /\ Refers(lookup, pages, lastPage) /\ Kept(heap, Heap)
      /\ Holds(heap.mem, Heap, pages, work.todo)
  <2>1. work.stage = "flush"
    BY DEF FlushPage
  <2>2. work \in Flushes
    BY <2>1 DEF JitInv, WorkOk, Ends, Inserts
  <2>. QED BY <2>1, <2>2 DEF JitInv, PagesKept, WorkOk
<1>2. UNCHANGED <<pages, lastPage, lookup>>
  BY DEF FlushPage
<1>3. PICK q \in work.todo :
       IF pages[q] = NoArray
       THEN work' = [stage |-> "crashed"] /\ UNCHANGED heap
       ELSE /\ work' = [work EXCEPT !.todo = @ \ {q}]
            /\ heap' = FreeAll(heap, pages[q])
  BY DEF FlushPage
<1>4. CASE pages[q] = NoArray
  <2>1. work' = [stage |-> "crashed"] /\ heap' = heap
    BY <1>3, <1>4
  <2>2. Heap' = Heap
    BY <2>1 DEF Heap
  <2>3. work' \in Ends /\ work'.stage = "crashed"
    BY <2>1 DEF Ends
  <2>4. WorkOk'
    BY <2>3 DEF WorkOk
  <2>. QED BY <1>1, <1>2, <2>1, <2>2, <2>3, <2>4 DEF JitInv
<1>5. CASE pages[q] # NoArray
  <2>. DEFINE blocks == pages[q]
              X == {blocks[i] : i \in 0 .. PageWords - 1}
              g == FreeAll(heap, blocks)
              Q == work.todo \ {q}
  <2>1. work' = [work EXCEPT !.todo = Q] /\ heap' = g
    BY <1>3, <1>5
  <2>2. /\ work' \in Flushes /\ work'.stage = "flush" /\ work'.todo = Q
    BY <1>1, <2>1 DEF Flushes
  <2>3. \A i \in 0 .. PageWords - 1 : blocks[i] # Null =>
          blocks[i] \in HeldIn(heap.mem, Heap) /\ heap.mem[blocks[i]] = Code(q * PageWords + i)
    BY <1>1, <1>3, <1>5 DEF Holds
  <2>4. q \in Nat /\ Q \subseteq Nat
    BY <1>1, <1>3 DEF Flushes
  <2>5. \A i, j \in 0 .. PageWords - 1 : blocks[i] # Null /\ blocks[i] = blocks[j] => i = j
    <3>. SUFFICES ASSUME NEW i \in 0 .. PageWords - 1, NEW j \in 0 .. PageWords - 1,
                         blocks[i] # Null, blocks[i] = blocks[j]
                  PROVE  i = j
      OBVIOUS
    <3>1. Code(q * PageWords + i) = Code(q * PageWords + j)
      BY <2>3
    <3>. QED BY <2>4, <3>1, CodeIsOnce
  <2>6. PICK T : FreedTo(heap, g, Heap, T, X)
    <3>. HIDE DEF blocks
    <3>1. InUse(heap.mem, Heap, blocks)
      BY <2>3, <2>5 DEF InUse
    <3>2. \E T : FreedTo(heap, FreeAll(heap, blocks), Heap, T, BlocksOf(blocks))
      BY <1>1, <3>1, FreeAllIs
    <3>. QED BY <3>2 DEF BlocksOf
  <2>. HIDE DEF g
  <2>7. /\ Kept(g, T) /\ HeldIn(g.mem, T) = HeldIn(heap.mem, Heap) \ X
        /\ \A p \in HeldIn(g.mem, T) : g.mem[p] = heap.mem[p]
    BY <2>6 DEF FreedTo
  <2>8. Heap' = T
    BY <2>1, <2>7, KeptIsHeap DEF Heap
  <2>9. Holds(g.mem, T, pages, Q)
    <3>1. ASSUME NEW r \in Q, pages[r] # NoArray, NEW i \in 0 .. PageWords - 1, pages[r][i] # Null
          PROVE  pages[r][i] \in HeldIn(g.mem, T) /\ g.mem[pages[r][i]] = Code(r * PageWords + i)
      <4>1. r \in work.todo /\ r # q /\ r \in Nat
        BY <2>4, <3>1
      <4>2. pages[r][i] \in HeldIn(heap.mem, Heap) /\ heap.mem[pages[r][i]] = Code(r * PageWords + i)
        BY <1>1, <3>1, <4>1 DEF Holds
      <4>3. pages[r][i] \notin X
        <5>. SUFFICES ASSUME NEW j \in 0 .. PageWords - 1, pages[r][i] = blocks[j] PROVE FALSE
          OBVIOUS
        <5>1. heap.mem[blocks[j]] = Code(q * PageWords + j)
          BY <2>3, <3>1
        <5>2. Code(r * PageWords + i) = Code(q * PageWords + j)
          BY <4>2, <5>1
        <5>3. r = q
          BY <2>4, <4>1, <5>2, CodeIsOnce
        <5>. QED BY <4>1, <5>3
      <4>4. pages[r][i] \in HeldIn(g.mem, T)
        BY <2>7, <4>2, <4>3
      <4>. QED BY <2>7, <4>2, <4>4
    <3>2. ASSUME NEW p \in HeldIn(g.mem, T)
          PROVE  \E r \in Q : pages[r] # NoArray /\ \E i \in 0 .. PageWords - 1 : pages[r][i] = p
      <4>1. p \in HeldIn(heap.mem, Heap) /\ p \notin X
        BY <2>7
      <4>2. PICK r \in work.todo, i \in 0 .. PageWords - 1 : pages[r] # NoArray /\ pages[r][i] = p
        BY <1>1, <4>1 DEF Holds
      <4>3. r # q
        BY <4>1, <4>2
      <4>. QED BY <4>2, <4>3
    <3>. QED BY <3>1, <3>2 DEF Holds
  <2>10. WorkOk' /\ PagesKept' = Q
    BY <1>1, <1>2, <2>2 DEF WorkOk, PagesKept
  <2>. QED BY <1>1, <1>2, <2>1, <2>7, <2>8, <2>9, <2>10 DEF JitInv
<1>. QED BY <1>4, <1>5

(* The objects tile the memory and those in use are the blocks of the      *)
(* records: every handler keeps it (insert_block, flush_all_blocks, the    *)
(* dispatcher, run_jit).                                                   *)
THEOREM JitInvHolds == JitSpec => []JitInv
<1>1. JitInit => JitInv
  BY InitKeeps
<1>2. JitInv /\ [JitNext]_jitVars => JitInv'
  <2>1. JitInv /\ UNCHANGED jitVars => JitInv'
    BY DEF JitInv, jitVars, Heap, WorkOk, Cached, Block, PagesKept
  <2>. QED BY <2>1, RunJitKeeps, AskFlushKeeps, DispatchKeeps, LeaveKeeps, InsertBlockKeeps,
              FlushPageKeeps, FlushEndKept DEF JitNext
<1>. QED BY <1>1, <1>2, PTL DEF JitSpec


LEMMA KeptIsSound == JitInv => HeapSound
<1>. SUFFICES ASSUME JitInv PROVE HeapSound
  OBVIOUS
<1>. DEFINE S == Heap
            m == heap.mem
            F == {p \in S : IsFree(heap, p)}
<1>1. /\ Sound(heap, S) /\ PairsIn(m, S) = {} /\ heap.usage = WordsUsed(heap)
      /\ Tiles(m, S) /\ Lists(heap, FreeIn(m, S))
  BY DEF JitInv, Kept, Sound
<1>2. \A p \in S : /\ End(heap, p) = EndOf(m, p) /\ Size(heap, p) = m[p - 1]
                   /\ NextObject(heap, p) = Behind(m, p)
                   /\ IsFree(heap, p) = (p \in FreeIn(m, S))
  BY <1>1, SoundIs
<1>. HIDE DEF S
<1>3. F = FreeIn(m, S)
  BY <1>2 DEF FreeIn
<1>4. Tiled(S)
  <2>1. ASSUME NEW p \in S
        PROVE  /\ Size(heap, p) >= MinBinSize(0) /\ NextObject(heap, p) <= HeapSize + 1
               /\ heap.mem[End(heap, p)] \in {0, Size(heap, p)}
               /\ ~(NextObject(heap, p) < HeapSize /\ IsFree(heap, p) /\ IsFree(heap, NextObject(heap, p)))
    <3>. DEFINE q == Behind(m, p)
    <3>1. m[p - 1] >= MinBinSize(0) /\ m[EndOf(m, p)] \in {0, m[p - 1]} /\ q \in S \cup {HeapSize + 1}
      BY <1>1 DEF Tiles
    <3>2. HeapSize \in Nat /\ S \subseteq 1 .. HeapSize - 1
      BY <1>1, JitCacheAssumption DEF Tiles
    <3>. HIDE DEF q
    <3>3. q <= HeapSize + 1 /\ (q < HeapSize => q \in S)
      BY <3>1, <3>2
    <3>4. ~(p \in FreeIn(m, S) /\ q \in FreeIn(m, S))
      BY <1>1 DEF PairsIn, q
    <3>5. NextObject(heap, p) = q /\ Size(heap, p) = m[p - 1] /\ End(heap, p) = EndOf(m, p)
      BY <1>2 DEF q
    <3>6. q < HeapSize => ~(IsFree(heap, p) /\ IsFree(heap, q))
      BY <1>2, <3>3, <3>4
    <3>. QED BY <3>1, <3>3, <3>5, <3>6
  <2>. QED BY <2>1 DEF Tiled
<1>5. \A b \in 0 .. Bins :
        /\ Listed(heap.bins[b]) = {p \in F : BinOf(Size(heap, p)) = b}
        /\ \A i, j \in DOMAIN heap.bins[b] : heap.bins[b][i] = heap.bins[b][j] => i = j
  BY <1>1, <1>3 DEF Lists, Once
<1>. HIDE DEF F
<1>6. F = {p \in S : IsFree(heap, p)}
  BY DEF F
<1>. QED BY <1>1, <1>4, <1>5, <1>6 DEF HeapSound, S

LEMMA HeldAreRecorded == JitInv => NoDanglingRecords
<1>. SUFFICES ASSUME JitInv PROVE NoDanglingRecords
  OBVIOUS
<1>1. Sound(heap, Heap) /\ Refers(lookup, pages, lastPage)
  BY DEF JitInv, Kept
<1>2. ASSUME work.stage \notin {"flush", "crashed"}, NEW q \in DOMAIN pages, pages[q] # NoArray,
             NEW i \in 0 .. PageWords - 1, pages[q][i] # Null
      PROVE  /\ pages[q][i] \in Heap /\ ~IsFree(heap, pages[q][i])
             /\ heap.mem[pages[q][i]] = Code(q * PageWords + i)
  <2>1. Holds(heap.mem, Heap, pages, DOMAIN pages)
    BY <1>2 DEF JitInv, PagesKept
  <2>2. pages[q][i] \in HeldIn(heap.mem, Heap) /\ heap.mem[pages[q][i]] = Code(q * PageWords + i)
    BY <1>2, <2>1 DEF Holds
  <2>3. pages[q][i] \in Heap /\ pages[q][i] \notin FreeIn(heap.mem, Heap)
    BY <2>2 DEF HeldIn, FreeIn
  <2>4. ~IsFree(heap, pages[q][i])
    BY <1>1, <2>3, SoundIs
  <2>. QED BY <2>2, <2>3, <2>4
<1>3. /\ \A s \in DOMAIN lookup : lookup[s] = Nothing \/
           /\ Page(lookup[s]) \in DOMAIN pages /\ pages[Page(lookup[s])] # NoArray
           /\ Block(lookup[s]) # Null /\ Entry(lookup[s]) = s
      /\ lastPage = Nothing \/ lastPage \in DOMAIN pages
  BY <1>1 DEF Refers, Block
<1>. QED BY <1>2, <1>3 DEF NoDanglingRecords

LEMMA NothingHeldIsEmpty ==
  ASSUME NEW h, NEW S, Kept(h, S), HeldIn(h.mem, S) = {}
  PROVE  h.usage = 0 /\ h.bins[BigBin] = <<1>> /\ Size(h, 1) = HeapSize - 2
<1>. DEFINE m == h.mem
<1>1. /\ Sound(h, S) /\ PairsIn(m, S) = {} /\ h.usage = WordsUsed(h)
      /\ Tiles(m, S) /\ Lists(h, FreeIn(m, S))
  BY DEF Kept, Sound
<1>2. S = FreeIn(m, S) /\ 1 \in S
  <2>1. 1 \in S /\ \A p \in S : p \in FreeIn(m, S) \/ p \in HeldIn(m, S)
    BY <1>1 DEF Tiles, FreeIn, HeldIn
  <2>. QED BY <2>1 DEF FreeIn
<1>3. HeapSize \in Nat /\ m[0] \in Nat /\ Size(h, 1) = m[0] /\ Behind(m, 1) = 1 + m[0] + 2
  <2>1. m[1 - 1] \in Nat /\ HeapSize \in Nat
    BY <1>1, <1>2, ObjectIs
  <2>. QED BY <2>1 DEF Size, Behind
<1>4. Behind(m, 1) = HeapSize + 1
  <2>1. Behind(m, 1) \notin S
    BY <1>1, <1>2 DEF PairsIn
  <2>. QED BY <1>1, <1>2, <2>1 DEF Tiles
<1>5. Size(h, 1) = HeapSize - 2
  BY <1>3, <1>4
<1>6. S = {1}
  <2>1. ASSUME NEW p \in S, p # 1 PROVE FALSE
    <3>1. p \in 1 .. HeapSize - 1 /\ (1 < p => Behind(m, 1) <= p)
      BY <1>1, <1>2 DEF Tiles
    <3>. QED BY <1>3, <1>4, <2>1, <3>1
  <2>. QED BY <1>2, <2>1
<1>7. BinOf(Size(h, 1)) = BigBin
  BY <1>5, SmallestFits, MinBinSizeIs DEF BinOf
<1>8. h.bins[BigBin] = <<1>>
  <2>. DEFINE s == h.bins[BigBin]
  <2>1. BigBin \in 0 .. Bins
    BY MinBinSizeIs DEF BigBin
  <2>2. s \in Seq(Nat) /\ Listed(s) = {p \in S : BinOf(Size(h, p)) = BigBin} /\ Once(s)
    <3>1. h.bins \in [0 .. Bins -> Seq(Nat)]
      BY <1>1, SoundIs
    <3>2. Listed(s) = {p \in FreeIn(m, S) : BinOf(Size(h, p)) = BigBin} /\ Once(s)
      BY <1>1, <2>1 DEF Lists
    <3>. QED BY <1>2, <2>1, <3>1, <3>2
  <2>3. Listed(s) = {1}
    BY <1>6, <1>7, <2>2
  <2>. HIDE DEF s
  <2>4. /\ \A i \in 1 .. Len(s) : s[i] = 1
        /\ \A i, j \in 1 .. Len(s) : i = j
        /\ Len(s) # 0
    <3>1. DOMAIN s = 1 .. Len(s) /\ Len(s) \in Nat
      BY <2>2
    <3>2. {s[i] : i \in 1 .. Len(s)} = {1}
      BY <2>3, <3>1 DEF Listed
    <3>3. \A i \in 1 .. Len(s) : s[i] = 1
      BY <3>2
    <3>4. \A i, j \in 1 .. Len(s) : i = j
      BY <2>2, <3>1, <3>3 DEF Once
    <3>5. Len(s) # 0
      <4>1. PICK i \in 1 .. Len(s) : s[i] = 1
        BY <3>2
      <4>. QED BY <3>1, <4>1
    <3>. QED BY <3>3, <3>4, <3>5
  <2>5. Len(s) = 1
    <3>1. Len(s) \in Nat
      BY <2>2
    <3>2. ~(Len(s) > 1)
      <4>. SUFFICES ASSUME Len(s) > 1 PROVE FALSE
        OBVIOUS
      <4>1. 1 \in 1 .. Len(s) /\ 2 \in 1 .. Len(s)
        BY <3>1
      <4>. QED BY <2>4, <4>1
    <3>. QED BY <2>4, <3>1, <3>2
  <2>6. s[1] = 1
    BY <2>4, <2>5
  <2>. QED BY <2>2, <2>5, <2>6 DEF s
<1>9. h.usage = 0
  <2>1. WordsUsed(h) = Total(Weights(m, S))
    BY <1>1, WordsUsedAre
  <2>2. Weights(m, S) = [p \in 1 .. HeapSize - 1 |-> 0]
    BY DEF Weights
  <2>. QED BY <1>1, <2>1, <2>2, TotalOfNothing
<1>. QED BY <1>5, <1>8, <1>9

LEMMA FlushedIsEmpty == JitInv => FlushFreesAll
<1>. SUFFICES ASSUME JitInv, work.stage = "flush", work.todo = {}
     PROVE  heap.usage = 0 /\ heap.bins[BigBin] = <<1>> /\ Size(heap, 1) = HeapSize - 2
  BY DEF FlushFreesAll
<1>1. Kept(heap, Heap) /\ Holds(heap.mem, Heap, pages, {})
  BY DEF JitInv, PagesKept
<1>2. HeldIn(heap.mem, Heap) = {}
  BY <1>1 DEF Holds
<1>. QED BY <1>1, <1>2, NothingHeldIsEmpty

(* The allocator's words and lists always agree: objects tile the heap, no *)
(* two free neighbours, every free object once in the bin of its size, and *)
(* heap_usage counts the rest (jit_malloc, jit_free).                      *)
THEOREM HeapStaysSound == JitSpec => []HeapSound
BY JitInvHolds, KeptIsSound, PTL

(* No record leads to freed memory or to another block's code, and neither *)
(* cache of look-ups to a record that is gone (find_block, insert_block).  *)
THEOREM RecordsStayLive == JitSpec => []NoDanglingRecords
BY JitInvHolds, HeldAreRecorded, PTL

(* flush_all_blocks leaves the heap as init_allocator made it: one free    *)
(* object, in the big bin.                                                 *)
THEOREM FlushFreesTheHeap == JitSpec => []FlushFreesAll
BY JitInvHolds, FlushedIsEmpty, PTL
=============================================================================

----------------------------- MODULE EmuThread -----------------------------
(***************************************************************************)
(* The emulation thread's loop (EmuThread, qt/emuthread.cpp) and the GUI   *)
(* thread that controls it (EmuWindow, qt/emuwindow.cpp):                  *)
(*                                                                         *)
(*   - the loop runs a frame when no bit of pause_status is set and        *)
(*     block_run_loop is false, under emu_mutex (a GS dump's frame takes   *)
(*     no mutex);                                                          *)
(*   - the GUI calls into the emulator with wait_for_lock: it sets         *)
(*     block_run_loop, takes emu_mutex, and clears block_run_loop again;   *)
(*   - errors are caught after emu_mutex is released, and shown by the GUI *)
(*     thread, which gets them as signals (queued connections).            *)
(*                                                                         *)
(* What a frame computes is left out: it ends well, with a non-fatal error *)
(* (a state that cannot be saved or loaded), or with a fatal one.          *)
(***************************************************************************)
EXTENDS Integers, Sequences, FiniteSets

CONSTANTS
  UserActions,     (* what the user does, of AllActions                    *)
  FatalErrors,     (* whether a frame may end with Errors::die             *)
  MaxActions       (* bound: how many things the user does                 *)

AllActions ==
  {"open file", "quick load", "cancel dialog", "load state", "save state", "key",
   "pause", "unpause", "stop", "frame advance", "next frame", "open gsdump", "close"}

ASSUME EmuThreadAssumption ==
  /\ UserActions \subseteq AllActions
  /\ FatalErrors \in BOOLEAN
  /\ MaxActions \in Nat

VARIABLES
  abort, pauseStatus, blockRunLoop, frameAdvance, gsdumpReading,
  mutex,           (* who holds emu_mutex                                  *)
  emulator,        (* the Emulator: its requests, and whether it has died  *)
  emu,             (* the statement run is at                              *)
  gui,             (* the statement of wait_for_lock the GUI thread is at  *)
  todo,            (* what the GUI thread still does before its event loop *)
  signals,         (* emitted by the emulation thread, not yet handled     *)
  actions,         (* how many things the user has done                    *)
  begun,           (* frames begun since the loop was last free to run     *)
  allowed          (* frames that frame advance still allows               *)

control == <<abort, pauseStatus, blockRunLoop, frameAdvance, gsdumpReading>>
history == <<actions, begun, allowed>>
vars == <<control, mutex, emulator, emu, gui, todo, signals, history>>

None == "none"
EMU == "emulation thread"
GUI == "GUI thread"

PauseEvents == {"GAME_NOT_LOADED", "FILE_DIALOG", "MESSAGE_BOX", "FRAME_ADVANCE",
                "USER_REQUESTED"}

Fresh == [save |-> FALSE, load |-> FALSE, dead |-> FALSE]

(* EmuWindow's constructor, up to emu_thread.start().                      *)
Init ==
  /\ abort = FALSE /\ pauseStatus = {"GAME_NOT_LOADED"} /\ blockRunLoop = FALSE
  /\ frameAdvance = FALSE /\ gsdumpReading = FALSE
  /\ mutex = None /\ emulator = Fresh
  /\ emu = "loop" /\ gui = "idle" /\ todo = <<>> /\ signals = <<>>
  /\ actions = 0 /\ begun = 0 /\ allowed = 0

Stopped(p, b) == p # {} \/ b

(* begun counts from the moment the loop may no longer start a frame.      *)
CountFrom(p, b) == begun' = IF Stopped(p, b) THEN begun ELSE 0

Pause(p) == pauseStatus' = pauseStatus \cup {p} /\ UNCHANGED begun
Unpause(p) == pauseStatus' = pauseStatus \ {p} /\ CountFrom(pauseStatus \ {p}, blockRunLoop)

-----------------------------------------------------------------------------
(* The emulation thread: run                                               *)

EmuGoes(from, to) == emu = from /\ emu' = to

(* Mutants: run looks at abort after pause_status; it does not look at     *)
(* block_run_loop.                                                         *)
LoopAbortLast ==
  /\ EmuGoes("loop", "ended")
  /\ abort /\ ~Stopped(pauseStatus, blockRunLoop)
  /\ UNCHANGED <<control, mutex, emulator, gui, todo, signals, history>>

LoopGoUnblocked ==
  /\ EmuGoes("loop", "check")
  /\ ~abort /\ pauseStatus = {}
  /\ UNCHANGED <<control, mutex, emulator, gui, todo, signals, history>>

(* if (abort) return; else if (pause_status || block_run_loop) usleep.     *)
LoopAbort ==
  /\ EmuGoes("loop", "ended")
  /\ abort
  /\ UNCHANGED <<control, mutex, emulator, gui, todo, signals, history>>

LoopGo ==
  /\ EmuGoes("loop", "check")
  /\ ~abort /\ ~Stopped(pauseStatus, blockRunLoop)
  /\ UNCHANGED <<control, mutex, emulator, gui, todo, signals, history>>

LoopGsdump ==
  /\ EmuGoes("check", "gsdump")
  /\ gsdumpReading
  /\ begun' = IF Stopped(pauseStatus, blockRunLoop) THEN begun + 1 ELSE 0
  /\ UNCHANGED <<control, mutex, emulator, gui, todo, signals, actions, allowed>>

(* Mutant: frame advance does not pause after the frame.                   *)
LoopFrameUnpaused ==
  /\ EmuGoes("check", "lock")
  /\ ~gsdumpReading
  /\ UNCHANGED <<control, mutex, emulator, gui, todo, signals, history>>

LoopFrame ==
  /\ EmuGoes("check", "lock")
  /\ ~gsdumpReading
  /\ IF frameAdvance THEN Pause("FRAME_ADVANCE") ELSE UNCHANGED <<pauseStatus, begun>>
  /\ UNCHANGED <<abort, blockRunLoop, frameAdvance, gsdumpReading, mutex, emulator,
                 gui, todo, signals, actions, allowed>>

(* QMutexLocker locker(&emu_mutex)                                         *)
FrameLock ==
  /\ EmuGoes("lock", "run")
  /\ mutex = None
  /\ mutex' = EMU
  /\ begun' = IF Stopped(pauseStatus, blockRunLoop) THEN begun + 1 ELSE 0
  /\ allowed' = IF frameAdvance THEN allowed - 1 ELSE allowed
  /\ UNCHANGED <<control, emulator, gui, todo, signals, actions>>

FrameDone ==
  /\ EmuGoes("run", "loop")
  /\ emulator' = [emulator EXCEPT !.save = FALSE, !.load = FALSE]
  /\ mutex' = None
  /\ UNCHANGED <<control, gui, todo, signals, history>>

(* Emulator::run first saves, then loads a state; either may fail.         *)
FrameNonFatal ==
  /\ EmuGoes("run", "emit non-fatal")
  /\ \/ /\ emulator.save
        /\ emulator' = [emulator EXCEPT !.save = FALSE]
     \/ /\ emulator.load
        /\ emulator' = [emulator EXCEPT !.save = FALSE, !.load = FALSE]
  /\ mutex' = None
  /\ UNCHANGED <<control, gui, todo, signals, history>>

FrameFatal ==
  /\ FatalErrors
  /\ EmuGoes("run", "emit fatal")
  /\ emulator' = [Fresh EXCEPT !.dead = TRUE]
  /\ mutex' = None
  /\ UNCHANGED <<control, gui, todo, signals, history>>

(* A frame of a GS dump: a picture or a part of one is shown; the dump     *)
(* ends, or is bad (Errors::die).                                          *)
GsdumpFrame ==
  /\ EmuGoes("gsdump", "loop")
  /\ Pause("FRAME_ADVANCE")
  /\ UNCHANGED <<abort, blockRunLoop, frameAdvance, gsdumpReading, mutex, emulator,
                 gui, todo, signals, actions, allowed>>

GsdumpEnd ==
  /\ EmuGoes("gsdump", "emit fatal")
  /\ Pause("GAME_NOT_LOADED") \/ UNCHANGED <<pauseStatus, begun>>
  /\ UNCHANGED <<abort, blockRunLoop, frameAdvance, gsdumpReading, mutex, emulator,
                 gui, todo, signals, actions, allowed>>

(* The handlers: the signal, then pause.                                   *)
Emit ==
  /\ \/ EmuGoes("emit fatal", "pause fatal") /\ signals' = Append(signals, "emu_error")
     \/ /\ EmuGoes("emit non-fatal", "pause non-fatal")
        /\ signals' = Append(signals, "emu_non_fatal_error")
  /\ UNCHANGED <<control, mutex, emulator, gui, todo, history>>

ErrorPause ==
  /\ \/ EmuGoes("pause fatal", "loop") /\ Pause("GAME_NOT_LOADED")
     \/ EmuGoes("pause non-fatal", "loop") /\ Pause("MESSAGE_BOX")
  /\ UNCHANGED <<abort, blockRunLoop, frameAdvance, gsdumpReading, mutex, emulator,
                 gui, todo, signals, actions, allowed>>

-----------------------------------------------------------------------------
(* The GUI thread.  A dialog or message box runs an event loop of its own, *)
(* in which the emulation thread's signals are handled.                    *)

Do(op, arg) == [op |-> op, arg |-> arg]

(* load_exec: the BIOS, the memory card, the program, how to boot it; each *)
(* is a call of its own, between which the emulation thread may run.       *)
LoadExec(f) ==
  <<Do("call", "load_BIOS"), Do("call", "load_memcard"), Do("call", f)>>
    \o (IF f = "load" THEN <<Do("call", "set_skip_BIOS_hack")>> ELSE <<>>)
    \o <<Do("unpause", "GAME_NOT_LOADED")>>

InFileDialog(steps) ==
  <<Do("pause", "FILE_DIALOG")>> \o steps \o <<Do("unpause", "FILE_DIALOG")>>

Handler(action) ==
  CASE action = "open file" -> InFileDialog(<<Do("dialog", None)>> \o LoadExec("load"))
    [] action = "cancel dialog" -> InFileDialog(<<Do("dialog", None)>>)
    [] action = "open gsdump" ->
         InFileDialog(<<Do("dialog", None)>> \o LoadExec("gsdump_read"))
    [] action = "quick load" -> LoadExec("load")
    [] action \in {"load state", "save state"} -> InFileDialog(<<Do("call", action)>>)
    [] action = "key" -> <<Do("call", "key")>>
    [] action = "pause" -> <<Do("pause", "USER_REQUESTED")>>
    [] action = "unpause" -> <<Do("unpause", "USER_REQUESTED")>>
    [] action = "stop" -> <<Do("pause", "GAME_NOT_LOADED")>>
    [] action = "frame advance" ->
         IF frameAdvance THEN <<Do("advance off", None), Do("unpause", "FRAME_ADVANCE")>>
                         ELSE <<Do("advance on", None)>>
    [] action = "next frame" -> <<Do("unpause", "FRAME_ADVANCE")>>
    [] action = "close" -> <<Do("shutdown", None)>>

UserActs ==
  /\ gui = "idle" /\ todo = <<>> /\ ~abort
  /\ actions < MaxActions
  /\ \E a \in UserActions : todo' = Handler(a)
  /\ actions' = actions + 1
  /\ UNCHANGED <<control, mutex, emulator, emu, gui, signals, begun, allowed>>

(* emu_error and emu_non_fatal_error.                                      *)
Slot(signal) ==
  IF signal = "emu_error" THEN <<Do("dialog", None)>>
  ELSE <<Do("dialog", None), Do("unpause", "MESSAGE_BOX")>>

HandleSignal ==
  /\ signals # <<>> /\ gui = "idle"
  /\ todo # <<>> => Head(todo).op = "dialog"
  /\ todo' = Slot(Head(signals)) \o todo
  /\ signals' = Tail(signals)
  /\ UNCHANGED <<control, mutex, emulator, emu, gui, history>>

Next1(op) == gui = "idle" /\ todo # <<>> /\ Head(todo).op = op

(* The user closes the dialog or the message box.                          *)
CloseDialog ==
  /\ Next1("dialog")
  /\ todo' = Tail(todo)
  /\ UNCHANGED <<control, mutex, emulator, emu, gui, signals, history>>

GuiPause ==
  /\ \/ Next1("pause") /\ Pause(Head(todo).arg)
     \/ Next1("unpause") /\ Unpause(Head(todo).arg)
  /\ todo' = Tail(todo)
  /\ allowed' = IF Head(todo) = Do("unpause", "FRAME_ADVANCE") /\ frameAdvance
                THEN allowed + 1 ELSE allowed
  /\ UNCHANGED <<abort, blockRunLoop, frameAdvance, gsdumpReading, mutex, emulator,
                 emu, gui, signals, actions>>

(* frame_advance = frame_advance ^ true.  One frame may be past its test   *)
(* of frame_advance; the next pauses and is shown.                         *)
GuiFrameAdvance ==
  /\ \/ Next1("advance on") /\ frameAdvance' = TRUE /\ allowed' = 2
     \/ Next1("advance off") /\ frameAdvance' = FALSE /\ allowed' = 0
  /\ todo' = Tail(todo)
  /\ UNCHANGED <<abort, pauseStatus, blockRunLoop, gsdumpReading, mutex, emulator,
                 emu, gui, signals, actions, begun>>

GuiShutdown ==
  /\ Next1("shutdown")
  /\ abort' = TRUE
  /\ todo' = Tail(todo)
  /\ UNCHANGED <<pauseStatus, blockRunLoop, frameAdvance, gsdumpReading, mutex,
                 emulator, emu, gui, signals, history>>

(* Mutant: wait_for_lock only takes the mutex.                             *)
GuiNoBlock ==
  /\ Next1("call")
  /\ gui' = "acquire"
  /\ UNCHANGED <<control, mutex, emulator, emu, todo, signals, history>>

(* wait_for_lock: block_run_loop = true; QMutexLocker locker(&emu_mutex)   *)
GuiBlock ==
  /\ Next1("call")
  /\ blockRunLoop' = TRUE
  /\ gui' = "acquire"
  /\ UNCHANGED <<abort, pauseStatus, frameAdvance, gsdumpReading, mutex, emulator,
                 emu, todo, signals, history>>

GuiAcquire ==
  /\ gui = "acquire" /\ mutex = None
  /\ mutex' = GUI
  /\ gui' = "call"
  /\ UNCHANGED <<control, emulator, emu, todo, signals, history>>

(* f(), and what it does to the emulator.                                  *)
GuiCall ==
  /\ gui = "call"
  /\ LET f == Head(todo).arg IN
       /\ emulator' = CASE f = "load" -> Fresh
                        [] f = "load state" -> [emulator EXCEPT !.load = TRUE]
                        [] f = "save state" -> [emulator EXCEPT !.save = TRUE]
                        [] OTHER -> emulator
       /\ gsdumpReading' = (gsdumpReading \/ f = "gsdump_read")
  /\ gui' = "unblock"
  /\ UNCHANGED <<abort, pauseStatus, blockRunLoop, frameAdvance, mutex, emu, todo,
                 signals, history>>

(* block_run_loop = false, and then the end of the locker's scope.         *)
GuiUnblock ==
  /\ gui = "unblock"
  /\ blockRunLoop' = FALSE
  /\ CountFrom(pauseStatus, FALSE)
  /\ gui' = "release"
  /\ UNCHANGED <<abort, pauseStatus, frameAdvance, gsdumpReading, mutex, emulator,
                 emu, todo, signals, actions, allowed>>

GuiRelease ==
  /\ gui = "release"
  /\ mutex' = None
  /\ gui' = "idle"
  /\ todo' = Tail(todo)
  /\ UNCHANGED <<control, emulator, emu, signals, history>>

-----------------------------------------------------------------------------
Run ==
  \/ LoopAbort \/ LoopGo \/ LoopGsdump \/ LoopFrame
  \/ FrameLock \/ FrameDone \/ FrameNonFatal \/ FrameFatal
  \/ GsdumpFrame \/ GsdumpEnd
  \/ Emit \/ ErrorPause

Handle ==
  \/ GuiPause \/ GuiFrameAdvance \/ GuiShutdown
  \/ GuiBlock \/ GuiAcquire \/ GuiCall \/ GuiUnblock \/ GuiRelease

Next == Run \/ Handle \/ HandleSignal \/ CloseDialog \/ UserActs

Spec == Init /\ [][Next]_vars

(* The operating system runs both threads and every frame ends.  Nothing   *)
(* says that the user acts, and QMutex promises no order: a thread that    *)
(* waits for emu_mutex gets it only if it stays free (weak fairness).      *)
FairSpec == Spec /\ WF_vars(Run) /\ WF_vars(Handle)

-----------------------------------------------------------------------------
(* Properties *)

TypeOK ==
  /\ abort \in BOOLEAN /\ pauseStatus \subseteq PauseEvents
  /\ blockRunLoop \in BOOLEAN /\ frameAdvance \in BOOLEAN /\ gsdumpReading \in BOOLEAN
  /\ mutex \in {None, EMU, GUI}
  /\ emulator \in [save : BOOLEAN, load : BOOLEAN, dead : BOOLEAN]
  /\ emu \in {"loop", "check", "lock", "run", "gsdump", "emit fatal", "emit non-fatal",
              "pause fatal", "pause non-fatal", "ended"}
  /\ gui \in {"idle", "acquire", "call", "unblock", "release"}
  /\ signals \in Seq({"emu_error", "emu_non_fatal_error"})
  /\ actions \in 0 .. MaxActions /\ begun \in Nat /\ allowed \in Int
  /\ mutex = EMU <=> emu = "run"
  /\ mutex = GUI <=> gui \in {"call", "unblock", "release"}

(* Once the loop is told to stop (a pause, or the GUI waiting for the      *)
(* mutex), at most one more frame begins: the one past its test.           *)
StopsSoon == begun <= 1

(* Frame advance shows one frame for each key press, and no more.          *)
FrameAdvanceSteps == frameAdvance => allowed >= 0

(* The GUI thread's calls into the emulator are never put off for ever:    *)
(* block_run_loop keeps the loop from taking the mutex again and again.    *)
LockGranted == gui = "acquire" ~> gui = "call"

(* Closing the window ends the emulation thread, which ~EmuWindow awaits.  *)
ShutdownEnds == abort ~> emu = "ended"
=============================================================================

------------------------------ MODULE GSThread ------------------------------
(***************************************************************************)
(* The protocol between the emulation thread (GraphicsSynthesizer, in      *)
(* core/gs.cpp, driven by Emulator::run and by EmuThread) and the GS       *)
(* thread (GraphicsSynthesizerThread, core/gsthread.cpp).                  *)
(*                                                                         *)
(*   - GSMessages go through message_queue, a CircularFifo; the module     *)
(*     CircularFifo shows that it is a queue when one thread pushes, and   *)
(*     only the emulation thread pushes this one;                          *)
(*   - GSReturnMessages come back through return_queue, also a             *)
(*     CircularFifo.  wait_for_return pushes back what it did not want, so *)
(*     both threads push here and its push is modelled step by step;       *)
(*   - both threads sleep on one condition variable, under data_mutex,     *)
(*     until the flags send_data and recieve_data;                         *)
(*   - the picture goes through two buffers, each under a mutex the GS     *)
(*     thread holds while it renders and the emulation thread holds until  *)
(*     the next picture is ready; a third mutex guards the download buffer.*)
(*                                                                         *)
(* What a write to the GS does to its registers and memory is left out:    *)
(* it is a message that the GS thread handles or that kills the GS thread. *)
(***************************************************************************)
EXTENDS Integers, Sequences, FiniteSets

CONSTANTS
  Events,       (* which of the rarer operations the program performs      *)
  ReturnSize,   (* the Size of return_queue (1024 in the code)             *)
  MaxQueued     (* bound: GS writes wait while message_queue is this long  *)

ASSUME EventsAssumption ==
  Events \subseteq {"save_state", "load_state", "download", "download in vblank",
                    "reset", "emulation error", "GS error", "spurious wakeup"}
ASSUME SizesAssumption ==
  ReturnSize \in Nat \ {0, 1} /\ MaxQueued \in Nat \ {0}

None == "none"
EMU == "emulation thread"
GS == "GS thread"

Buffers == {"buffer1", "buffer2"}
Download == "download"        (* gs_download_buffer and its download_mutex  *)

(* Frames are counted modulo 3: at most two pictures exist at a time.      *)
Frames == 0 .. 2
NextFrame(f) == (f + 1) % 3

Message(type) == [type |-> type, buffer |-> None, frame |-> 0]
Render(b, f) == [type |-> "render_crt", buffer |-> b, frame |-> f]

MessageTypes == {"write", "set_crt", "save_state", "load_state", "local_host_tx", "render_crt", "die"}

(* The GSReturn that the GS thread answers each request with.              *)
Answer == [save_state |-> "save_state_done", load_state |-> "load_state_done",
           local_host_tx |-> "local_host_transfer", render_crt |-> "render_complete"]

VARIABLES
  messageQueue,                    (* message_queue                        *)
  retTail, retHead, retArray,      (* return_queue: _tail, _head, _array   *)
  sendData, recieveData,           (* send_data, recieve_data              *)
  dataMutex,                       (* who holds data_mutex                 *)
  asleep,                          (* who waits on notifier                *)
  bufferMutex,                     (* who holds each buffer's mutex        *)
  currentLock,                     (* the buffer that current_lock locks   *)
  usingFirst,                      (* using_first_buffer                   *)
  frame,                           (* the frame being emulated             *)
  picture,                         (* the frame rendered in each buffer    *)
  emu,                             (* the emulation thread                 *)
  gs                               (* the GS thread                        *)

returnQueue == <<retTail, retHead, retArray>>
flags == <<sendData, recieveData, dataMutex, asleep>>
display == <<bufferMutex, currentLock, usingFirst, frame, picture>>
vars == <<messageQueue, returnQueue, flags, display, emu, gs>>

RetIndex == 0 .. ReturnSize

RetNext(i) == (i + 1) % (ReturnSize + 1)
RetEmpty == retHead = retTail

(* notifier.notify_one(): the other thread, if it waits.                   *)
Notify == asleep' = {}

UsedBuffer == IF usingFirst THEN "buffer1" ELSE "buffer2"

(* The emulation thread: emu.phase is where Emulator::run is in its frame, *)
(* emu.at the statement it is at.                                          *)
EmuIdle(phase) ==
  [phase |-> phase, at |-> "run", msg |-> Message("write"), wake |-> FALSE,
   want |-> None, got |-> None, slot |-> 0, sleeps |-> FALSE]

GSStart == [at |-> "pop", msg |-> Message("write"), ret |-> None, slot |-> 0]

(* After GraphicsSynthesizer::reset, with its set_CRT message queued.      *)
Init ==
  /\ messageQueue = <<Message("set_crt")>>
  /\ retTail = 0 /\ retHead = 0
  /\ retArray = [i \in RetIndex |-> None]
  /\ sendData = TRUE /\ recieveData = FALSE
  /\ dataMutex = None /\ asleep = {}
  /\ bufferMutex = [b \in Buffers \cup {Download} |-> None]
  /\ currentLock = None /\ usingFirst = TRUE
  /\ frame = 0 /\ picture = [b \in Buffers |-> 0]
  /\ emu = EmuIdle("start")
  /\ gs = GSStart

-----------------------------------------------------------------------------
(* The emulation thread: Emulator::run and get_framebuffer                 *)

EmuAt(a) == emu' = IF a = "run" THEN EmuIdle(emu.phase) ELSE [emu EXCEPT !.at = a]

(* A call that sends m, wakes the GS thread if wake, and then waits for    *)
(* the answer want unless it is None.                                      *)
Call(m, wake, want, phase) ==
  emu' = [emu EXCEPT !.at = "push", !.msg = m, !.wake = wake, !.want = want,
                     !.phase = phase]

EmuOnly == UNCHANGED <<messageQueue, returnQueue, flags, display, gs>>

(* save_state and load_state: run does them first thing in a frame.        *)
SaveOrLoad ==
  /\ emu.at = "run" /\ emu.phase = "start"
  /\ \E t \in Events \cap {"save_state", "load_state"} :
       Call(Message(t), TRUE, Answer[t], "start")
  /\ EmuOnly

StartFrame ==
  /\ emu.at = "run" /\ emu.phase = "start"
  /\ frame' = NextFrame(frame)
  /\ emu' = [emu EXCEPT !.phase = "body"]
  /\ UNCHANGED <<messageQueue, returnQueue, flags, bufferMutex, currentLock,
                 usingFirst, picture, gs>>

(* A GIF packet or a register write; some of them wake the GS thread.      *)
GameWrite ==
  /\ emu.at = "run" /\ emu.phase \in {"body", "vblank"}
  /\ Len(messageQueue) < MaxQueued
  /\ \E wake \in BOOLEAN : Call(Message("write"), wake, None, emu.phase)
  /\ EmuOnly

(* Mutant: request_gs_download does not wait for the GS thread.            *)
RequestDownloadUnawaited ==
  /\ emu.at = "run"
  /\ \/ emu.phase = "body" /\ "download" \in Events
     \/ emu.phase = "vblank" /\ "download in vblank" \in Events
  /\ Call([type |-> "local_host_tx", buffer |-> Download, frame |-> 0], TRUE,
          None, emu.phase)
  /\ EmuOnly

(* The game turns the bus round (BUSDIR): request_gs_download.             *)
RequestDownload ==
  /\ emu.at = "run"
  /\ \/ emu.phase = "body" /\ "download" \in Events
     \/ emu.phase = "vblank" /\ "download in vblank" \in Events
  /\ Call([type |-> "local_host_tx", buffer |-> Download, frame |-> 0], TRUE,
          Answer.local_host_tx, emu.phase)
  /\ EmuOnly

(* Mutant: render_CRT passes the buffer of the picture on display.         *)
VblankStartIntoOther ==
  /\ emu.at = "run" /\ emu.phase = "body"
  /\ Call(Render(IF usingFirst THEN "buffer2" ELSE "buffer1", frame), TRUE, None,
          "vblank")
  /\ EmuOnly

(* vblank_start: render_CRT into the buffer that is not displayed.         *)
VblankStart ==
  /\ emu.at = "run" /\ emu.phase = "body"
  /\ Call(Render(UsedBuffer, frame), TRUE, None, "vblank")
  /\ EmuOnly

(* vblank_end ends the frame and EmuThread calls get_framebuffer.          *)
VblankEnd ==
  /\ emu.at = "run" /\ emu.phase = "vblank"
  /\ emu' = [emu EXCEPT !.at = "pop", !.want = Answer.render_crt]
  /\ EmuOnly

(* Errors::die anywhere in the emulation: the frame is abandoned, and      *)
(* only loading another program, which resets, can follow.                 *)
EmulationError ==
  /\ "emulation error" \in Events
  /\ emu.at = "run" /\ emu.phase \in {"body", "vblank"}
  /\ emu' = [emu EXCEPT !.phase = "dead"]
  /\ EmuOnly

(* reset, by the GUI while it keeps the emulation thread out of run:       *)
(* exit() sends die_t, wakes the GS thread and joins it.                   *)
Exit ==
  /\ "reset" \in Events
  /\ emu.at = "run" /\ emu.phase \in {"start", "dead"}
  /\ Call(Message("die"), TRUE, None, "dead")
  /\ EmuOnly

Reset ==
  /\ emu.at = "join" /\ gs.at = "ended"
  /\ messageQueue' = <<Message("set_crt")>>
  /\ retTail' = 0 /\ retHead' = 0
  /\ retArray' = [i \in RetIndex |-> None]
  /\ sendData' = TRUE
  /\ bufferMutex' = [b \in DOMAIN bufferMutex |->
                       IF b = currentLock THEN None ELSE bufferMutex[b]]
  /\ currentLock' = None /\ usingFirst' = TRUE
  /\ emu' = EmuIdle("start")
  /\ gs' = GSStart
  /\ UNCHANGED <<recieveData, dataMutex, asleep, frame, picture>>

-----------------------------------------------------------------------------
(* The emulation thread: send_message and wake_thread                      *)

SendPush ==
  /\ emu.at = "push"
  /\ messageQueue' = Append(messageQueue, emu.msg)
  /\ EmuAt("flag")
  /\ UNCHANGED <<returnQueue, flags, display, gs>>

AfterSend ==
  CASE emu.msg.type = "die" -> "join"
    [] emu.want # None -> "pop"
    [] OTHER -> "run"

(* send_data = true, without data_mutex.                                   *)
SendFlag ==
  /\ emu.at = "flag"
  /\ sendData' = TRUE
  /\ EmuAt(IF emu.wake THEN "wake" ELSE AfterSend)
  /\ UNCHANGED <<messageQueue, returnQueue, recieveData, dataMutex, asleep,
                 display, gs>>

WakeThread ==
  /\ emu.at = "wake" /\ dataMutex = None
  /\ Notify
  /\ EmuAt(AfterSend)
  /\ UNCHANGED <<messageQueue, returnQueue, sendData, recieveData, dataMutex,
                 display, gs>>

-----------------------------------------------------------------------------
(* CircularFifo::push on return_queue, by whichever thread                 *)

RetFull == RetNext(retTail) = retHead

RetStore(slot, msg) ==
  /\ retArray' = [retArray EXCEPT ![slot] = msg]
  /\ UNCHANGED <<retTail, retHead>>

RetPublish(slot) ==
  /\ retTail' = RetNext(slot)
  /\ UNCHANGED <<retHead, retArray>>

-----------------------------------------------------------------------------
(* The emulation thread: wait_for_return                                   *)

AfterReturn == IF emu.want \in {Answer.render_crt, Answer.local_host_tx}
               THEN "buffer" ELSE "run"

(* pop finds a message: an error of the GS thread is thrown, the answer    *)
(* awaited is returned, any other goes on to be put back.                  *)
ReturnPop ==
  /\ emu.at = "pop" /\ ~RetEmpty
  /\ retHead' = RetNext(retHead)
  /\ LET data == retArray[retHead] IN
       \/ /\ data = "death_error"
          /\ emu' = EmuIdle("dead")
       \/ /\ data = emu.want
          /\ EmuAt(AfterReturn)
       \/ /\ data \notin {"death_error", emu.want}
          /\ emu' = [emu EXCEPT !.at = "was_empty", !.got = data]
  /\ UNCHANGED <<messageQueue, retTail, retArray, flags, display, gs>>

ReturnPopEmpty ==
  /\ emu.at = "pop" /\ RetEmpty
  /\ EmuAt("lock")
  /\ EmuOnly

WasEmpty ==
  /\ emu.at = "was_empty"
  /\ emu' = [emu EXCEPT !.at = "putback", !.sleeps = RetEmpty]
  /\ EmuOnly

(* return_queue->push(data), "Put it back on the queue".                   *)
PutBack ==
  /\ emu.at = "putback"
  /\ emu' = IF RetFull THEN EmuIdle("dead")
            ELSE [emu EXCEPT !.at = "store", !.slot = retTail]
  /\ EmuOnly

PutBackStore ==
  /\ emu.at = "store"
  /\ RetStore(emu.slot, emu.got)
  /\ EmuAt("publish")
  /\ UNCHANGED <<messageQueue, flags, display, gs>>

PutBackPublish ==
  /\ emu.at = "publish"
  /\ RetPublish(emu.slot)
  /\ EmuAt(IF emu.sleeps THEN "lock" ELSE "pop")
  /\ UNCHANGED <<messageQueue, flags, display, gs>>

(* lock(data_mutex); notifier.wait(lk, recieve_data); recieve_data = false *)
ReturnLock ==
  /\ dataMutex = None
  /\ emu.at = "lock" \/ (emu.at = "asleep" /\ EMU \notin asleep)
  /\ dataMutex' = EMU
  /\ EmuAt("test")
  /\ UNCHANGED <<messageQueue, returnQueue, sendData, recieveData, asleep,
                 display, gs>>

ReturnTest ==
  /\ emu.at = "test"
  /\ EmuAt(IF recieveData THEN "clear" ELSE "block")
  /\ EmuOnly

ReturnClear ==
  /\ emu.at = "clear"
  /\ recieveData' = FALSE
  /\ dataMutex' = None
  /\ EmuAt("pop")
  /\ UNCHANGED <<messageQueue, returnQueue, sendData, asleep, display, gs>>

ReturnBlock ==
  /\ emu.at = "block"
  /\ dataMutex' = None
  /\ asleep' = asleep \cup {EMU}
  /\ EmuAt("asleep")
  /\ UNCHANGED <<messageQueue, returnQueue, sendData, recieveData, display, gs>>

(* get_framebuffer: lock the buffer just rendered, which lets go of the    *)
(* one before, and turn to the other.                                      *)
GetFramebuffer ==
  /\ emu.at = "buffer" /\ emu.want = Answer.render_crt
  /\ bufferMutex[UsedBuffer] = None
  /\ bufferMutex' = [b \in DOMAIN bufferMutex |->
                       CASE b = UsedBuffer -> EMU
                         [] b = currentLock -> None
                         [] OTHER -> bufferMutex[b]]
  /\ currentLock' = UsedBuffer
  /\ usingFirst' = ~usingFirst
  /\ emu' = EmuIdle("start")
  /\ UNCHANGED <<messageQueue, returnQueue, flags, frame, picture, gs>>

(* request_gs_download: lock download_mutex for the rest of the call.      *)
GetDownload ==
  /\ emu.at = "buffer" /\ emu.want = Answer.local_host_tx
  /\ bufferMutex[Download] = None
  /\ emu' = EmuIdle(emu.phase)
  /\ EmuOnly

-----------------------------------------------------------------------------
(* The GS thread: event_loop                                               *)

GSAt(a) == gs' = IF a = "pop" THEN GSStart ELSE [gs EXCEPT !.at = a]

GSOnly == UNCHANGED <<messageQueue, returnQueue, flags, display, emu>>

(* message_queue->pop: what the message leads to.                          *)
GSPop ==
  /\ gs.at = "pop" /\ messageQueue # <<>>
  /\ messageQueue' = Tail(messageQueue)
  /\ LET m == Head(messageQueue) IN
       \/ /\ m.type \in {"write", "set_crt"}
          /\ UNCHANGED gs
       \/ /\ m.type = "write" /\ "GS error" \in Events
          /\ gs' = [gs EXCEPT !.at = "push", !.ret = "death_error"]
       \/ /\ m.type \in {"render_crt", "local_host_tx"}
          /\ gs' = [gs EXCEPT !.at = "spin", !.msg = m]
       \/ /\ m.type \in {"save_state", "load_state"}
          /\ gs' = [gs EXCEPT !.at = "push", !.msg = m, !.ret = Answer[m.type]]
       \/ /\ m.type = "die"
          /\ GSAt("ended")
  /\ UNCHANGED <<returnQueue, flags, display, emu>>

GSPopEmpty ==
  /\ gs.at = "pop" /\ messageQueue = <<>>
  /\ GSAt("lock")
  /\ GSOnly

(* lock(data_mutex); notifier.wait(lk, send_data); send_data = false       *)
GSLock ==
  /\ dataMutex = None
  /\ gs.at = "lock" \/ (gs.at = "asleep" /\ GS \notin asleep)
  /\ dataMutex' = GS
  /\ GSAt("test")
  /\ UNCHANGED <<messageQueue, returnQueue, sendData, recieveData, asleep,
                 display, emu>>

GSTest ==
  /\ gs.at = "test"
  /\ GSAt(IF sendData THEN "clear" ELSE "block")
  /\ GSOnly

GSClear ==
  /\ gs.at = "clear"
  /\ sendData' = FALSE
  /\ dataMutex' = None
  /\ GSAt("pop")
  /\ UNCHANGED <<messageQueue, returnQueue, recieveData, asleep, display, emu>>

GSBlock ==
  /\ gs.at = "block"
  /\ dataMutex' = None
  /\ asleep' = asleep \cup {GS}
  /\ GSAt("asleep")
  /\ UNCHANGED <<messageQueue, returnQueue, sendData, recieveData, display, emu>>

(* while (!target_mutex->try_lock()) yield();                              *)
GSSpin ==
  /\ gs.at = "spin"
  /\ bufferMutex[gs.msg.buffer] = None
  /\ bufferMutex' = [bufferMutex EXCEPT ![gs.msg.buffer] = GS]
  /\ GSAt("draw")
  /\ UNCHANGED <<messageQueue, returnQueue, flags, currentLock, usingFirst,
                 frame, picture, emu>>

(* render_CRT(target), or local_to_host(target).                           *)
GSDraw ==
  /\ gs.at = "draw"
  /\ picture' = IF gs.msg.type = "render_crt"
                THEN [picture EXCEPT ![gs.msg.buffer] = gs.msg.frame]
                ELSE picture
  /\ gs' = [gs EXCEPT !.at = "push", !.ret = Answer[gs.msg.type]]
  /\ UNCHANGED <<messageQueue, returnQueue, flags, bufferMutex, currentLock,
                 usingFirst, frame, emu>>

(* return_queue->push of the answer, or in the catch of the error.         *)
GSPush ==
  /\ gs.at = "push" /\ ~RetFull
  /\ gs' = [gs EXCEPT !.at = "store", !.slot = retTail]
  /\ GSOnly

GSStore ==
  /\ gs.at = "store"
  /\ RetStore(gs.slot, gs.ret)
  /\ GSAt("publish")
  /\ UNCHANGED <<messageQueue, flags, display, emu>>

GSPublish ==
  /\ gs.at = "publish"
  /\ RetPublish(gs.slot)
  /\ GSAt(IF gs.ret \in {"save_state_done", "death_error"} THEN "set" ELSE "signal")
  /\ UNCHANGED <<messageQueue, flags, display, emu>>

(* Mutant: the answer is signalled without data_mutex.                     *)
GSSignalUnlocked ==
  /\ gs.at = "signal"
  /\ recieveData' = TRUE
  /\ Notify
  /\ bufferMutex' = [b \in DOMAIN bufferMutex |->
                       IF bufferMutex[b] = GS THEN None ELSE bufferMutex[b]]
  /\ GSAt("pop")
  /\ UNCHANGED <<messageQueue, returnQueue, sendData, dataMutex, currentLock,
                 usingFirst, frame, picture, emu>>

(* With data_mutex held: recieve_data = true; notify_one.  Leaving the     *)
(* case block lets go of data_mutex and of the buffer's mutex.             *)
GSSignal ==
  /\ gs.at = "signal" /\ dataMutex = None
  /\ recieveData' = TRUE
  /\ Notify
  /\ bufferMutex' = [b \in DOMAIN bufferMutex |->
                       IF bufferMutex[b] = GS THEN None ELSE bufferMutex[b]]
  /\ GSAt("pop")
  /\ UNCHANGED <<messageQueue, returnQueue, sendData, dataMutex, currentLock,
                 usingFirst, frame, picture, emu>>

(* save_state_t and the catch block do the same without data_mutex; the    *)
(* catch block ends the thread.                                            *)
GSSetUnlocked ==
  /\ gs.at = "set"
  /\ recieveData' = TRUE
  /\ GSAt("notify")
  /\ UNCHANGED <<messageQueue, returnQueue, sendData, dataMutex, asleep,
                 display, emu>>

GSNotifyUnlocked ==
  /\ gs.at = "notify"
  /\ Notify
  /\ GSAt(IF gs.ret = "death_error" THEN "ended" ELSE "pop")
  /\ UNCHANGED <<messageQueue, returnQueue, sendData, recieveData, dataMutex,
                 display, emu>>

-----------------------------------------------------------------------------
(* A condition variable may wake without a notify; the predicate is there  *)
(* for that.                                                               *)
SpuriousWakeup ==
  /\ "spurious wakeup" \in Events
  /\ \E t \in asleep : asleep' = asleep \ {t}
  /\ UNCHANGED <<messageQueue, returnQueue, sendData, recieveData, dataMutex,
                 display, emu, gs>>

WaitForReturn ==
  \/ ReturnPop \/ ReturnPopEmpty
  \/ WasEmpty \/ PutBack \/ PutBackStore \/ PutBackPublish
  \/ ReturnLock \/ ReturnTest \/ ReturnClear \/ ReturnBlock

(* What the emulation thread is free to do next, and what it then has to   *)
(* finish.                                                                 *)
RunsFrame == StartFrame \/ VblankStart \/ VblankEnd

MayDo == SaveOrLoad \/ GameWrite \/ RequestDownload \/ EmulationError \/ Exit

Finishes ==
  \/ SendPush \/ SendFlag \/ WakeThread
  \/ WaitForReturn
  \/ GetFramebuffer \/ GetDownload \/ Reset

EventLoop ==
  \/ GSPop \/ GSPopEmpty \/ GSLock \/ GSTest \/ GSClear \/ GSBlock
  \/ GSSpin \/ GSDraw \/ GSPush \/ GSStore \/ GSPublish
  \/ GSSignal \/ GSSetUnlocked \/ GSNotifyUnlocked

Next == RunsFrame \/ MayDo \/ Finishes \/ EventLoop \/ SpuriousWakeup

Spec == Init /\ [][Next]_vars

(* The operating system runs both threads.  The scheduler's vblank events  *)
(* end every frame and EmuThread::run starts the next, however much the    *)
(* game writes meanwhile; nothing says that the game writes, that the user *)
(* saves a state or that he resets.                                        *)
Fairness ==
  /\ WF_vars(Finishes)
  /\ WF_vars(EventLoop)
  /\ SF_vars(RunsFrame)

FairSpec == Spec /\ Fairness

-----------------------------------------------------------------------------
(* Properties *)

Threads == {EMU, GS}
Answers == {Answer[t] : t \in DOMAIN Answer}
ReturnTypes == Answers \cup {"death_error"}
Messages ==
  [type : MessageTypes \ {"render_crt", "local_host_tx"}, buffer : {None}, frame : {0}]
    \cup [type : {"local_host_tx"}, buffer : {Download}, frame : {0}]
    \cup [type : {"render_crt"}, buffer : Buffers, frame : Frames]

EmuStates ==
  [phase : {"start", "body", "vblank", "dead"},
   at : {"run", "push", "flag", "wake", "join", "pop", "was_empty", "putback",
         "store", "publish", "lock", "test", "clear", "block", "asleep", "buffer"},
   msg : Messages, wake : BOOLEAN, want : Answers \cup {None},
   got : ReturnTypes \cup {None}, slot : RetIndex, sleeps : BOOLEAN]

GSStates ==
  [at : {"pop", "lock", "test", "clear", "block", "asleep", "spin", "draw", "push",
         "store", "publish", "signal", "set", "notify", "ended"},
   msg : Messages, ret : ReturnTypes \cup {None}, slot : RetIndex]

TypeOK ==
  /\ messageQueue \in Seq(Messages)
  /\ retTail \in RetIndex /\ retHead \in RetIndex
  /\ retArray \in [RetIndex -> ReturnTypes \cup {None}]
  /\ sendData \in BOOLEAN /\ recieveData \in BOOLEAN
  /\ dataMutex \in Threads \cup {None}
  /\ asleep \subseteq Threads
  /\ bufferMutex \in [Buffers \cup {Download} -> Threads \cup {None}]
  /\ currentLock \in Buffers \cup {None}
  /\ usingFirst \in BOOLEAN
  /\ frame \in Frames /\ picture \in [Buffers -> Frames]
  /\ emu \in EmuStates /\ gs \in GSStates

(* The picture given to the GUI is the frame that has just been emulated,  *)
(* and it stays so until get_framebuffer gives the next: buffers, toggles  *)
(* and answers stay in step through downloads, states and resets.          *)
DisplayedFrame ==
  currentLock # None =>
    CASE emu.phase = "start" -> picture[currentLock] = frame
      [] emu.phase \in {"body", "vblank"} -> NextFrame(picture[currentLock]) = frame
      [] emu.phase = "dead" -> frame \in {picture[currentLock], NextFrame(picture[currentLock])}

(* When a frame begins nothing is left over from the frame before: no      *)
(* answer still queued, and no request the GS thread still has to answer.  *)
Requests == {"save_state", "load_state", "local_host_tx", "render_crt"}

RetHolds(i) == IF retHead <= retTail THEN retHead <= i /\ i < retTail
                                     ELSE retHead <= i \/ i < retTail

NothingLeftOver ==
  emu.phase = "start" /\ emu.at = "run" =>
    /\ \A i \in RetIndex : RetHolds(i) => retArray[i] = "death_error"
    /\ \A i \in DOMAIN messageQueue : messageQueue[i].type \notin Requests
    /\ gs.at \in {"spin", "draw", "push", "store", "publish"} => gs.ret = "death_error"

(* Every frame is followed by another: whatever the emulation thread waits *)
(* for (an answer, a buffer, the end of the GS thread), it gets.           *)
FramesKeepComing == []<>(emu.phase = "start" /\ emu.at = "run")

(* What the emulation thread waits for in wait_for_return (an answer, or   *)
(* the error the GS thread died of) reaches it.                            *)
RequestReturns == emu.want # None ~> emu.at = "run"
=============================================================================

--------------------------- MODULE GSThread_proof ---------------------------
(***************************************************************************)
(* The picture on display and the requests of the emulation thread, for a  *)
(* return_queue of any size, a message_queue of any length and every       *)
(* choice of events.                                                       *)
(*                                                                         *)
(* Each request of the emulation thread is in one place at a time: not yet *)
(* sent, in message_queue, with the GS thread, in return_queue, or in the  *)
(* hand of the emulation thread that puts it back.  Where both threads     *)
(* push on return_queue at once an answer may be lost; the race is         *)
(* described case by case, and no case leaves an answer behind for the     *)
(* next frame.                                                             *)
(***************************************************************************)
EXTENDS GSThread, TLAPS

(* A leaf that names no backend is given a minute of SMT and then one of Zenon. *)
USE SMTT(60), ZenonT(60)

Death == "death_error"

-----------------------------------------------------------------------------
(* return_queue                                                            *)

(* The slots of a queue that starts at h and ends before t.                *)
Within(h, t, i) == IF h <= t THEN h <= i /\ i < t ELSE h <= i \/ i < t

(* increment steps round the ring, and two steps do not come back.         *)
LEMMA Steps ==
  ASSUME NEW i \in RetIndex
  PROVE  /\ RetNext(i) \in RetIndex
         /\ RetNext(i) = IF i = ReturnSize THEN 0 ELSE i + 1
<1>1. CASE i = ReturnSize  BY <1>1, SizesAssumption DEF RetNext, RetIndex
<1>2. CASE i # ReturnSize  BY <1>2, SizesAssumption DEF RetNext, RetIndex
<1>. QED  BY <1>1, <1>2

LEMMA StepsApart ==
  ASSUME NEW i \in RetIndex
  PROVE  /\ RetNext(i) # i
         /\ RetNext(RetNext(i)) # i
         /\ \A j \in RetIndex : RetNext(i) = RetNext(j) => i = j
<1>1. RetNext(i) \in RetIndex  BY Steps
<1>2. RetNext(RetNext(i)) = IF RetNext(i) = ReturnSize THEN 0 ELSE RetNext(i) + 1
  BY <1>1, Steps
<1>3. \A j \in RetIndex : RetNext(j) = IF j = ReturnSize THEN 0 ELSE j + 1
  BY Steps
<1>. QED  BY <1>2, <1>3, SizesAssumption DEF RetIndex

LEMMA NoneWithin ==
  ASSUME NEW h \in RetIndex, NEW i \in RetIndex
  PROVE  ~Within(h, h, i)
BY SizesAssumption DEF RetIndex, Within

LEMMA HeadWithin ==
  ASSUME NEW h \in RetIndex, NEW t \in RetIndex, h # t
  PROVE  Within(h, t, h)
BY SizesAssumption DEF RetIndex, Within

LEMMA OneWithin ==
  ASSUME NEW h \in RetIndex, NEW i \in RetIndex
  PROVE  Within(h, RetNext(h), i) <=> i = h
BY Steps, SizesAssumption DEF RetIndex, Within

(* pop takes the slot at the head.                                         *)
LEMMA PopWithin ==
  ASSUME NEW h \in RetIndex, NEW t \in RetIndex, h # t, NEW i \in RetIndex
  PROVE  Within(RetNext(h), t, i) <=> Within(h, t, i) /\ i # h
BY Steps, SizesAssumption DEF RetIndex, Within

(* push, on a queue that is not full, adds the slot at the tail.           *)
LEMMA PushWithin ==
  ASSUME NEW h \in RetIndex, NEW t \in RetIndex, RetNext(t) # h, NEW i \in RetIndex
  PROVE  /\ Within(h, RetNext(t), i) <=> Within(h, t, i) \/ i = t
         /\ ~Within(h, t, t)
BY Steps, SizesAssumption DEF RetIndex, Within

LEMMA HoldsWithin ==
  ASSUME NEW i \in RetIndex
  PROVE  RetHolds(i) = Within(retHead, retTail, i)
BY DEF RetHolds, Within

-----------------------------------------------------------------------------
(* The two threads: what a statement leaves alone                          *)

LEMMA AnswerValues ==
  /\ Answer["save_state"] = "save_state_done"
  /\ Answer["load_state"] = "load_state_done"
  /\ Answer["local_host_tx"] = "local_host_transfer"
  /\ Answer["render_crt"] = "render_complete"
  /\ DOMAIN Answer = Requests
  /\ Answers = {"save_state_done", "load_state_done", "local_host_transfer", "render_complete"}
  /\ \A t, u \in Requests : Answer[t] = Answer[u] => t = u
  /\ \A t \in Requests : Answer[t] \in Answers /\ Answer[t] # Death
<1>1. DOMAIN Answer = Requests  BY DEF Answer, Requests
<1>2. /\ Answer["save_state"] = "save_state_done"
      /\ Answer["load_state"] = "load_state_done"
      /\ Answer["local_host_tx"] = "local_host_transfer"
      /\ Answer["render_crt"] = "render_complete"
  BY DEF Answer
<1>3. Answers = {"save_state_done", "load_state_done", "local_host_transfer", "render_complete"}
  BY <1>1, <1>2 DEF Answers, Requests
<1>. QED  BY <1>1, <1>2, <1>3 DEF Requests, Death

(* EmuAt, when the call goes on: only the statement changes.               *)
LEMMA EmuMoves ==
  ASSUME emu \in EmuStates, NEW a, a # "run", EmuAt(a)
  PROVE  /\ emu'.at = a /\ emu'.phase = emu.phase /\ emu'.msg = emu.msg
         /\ emu'.wake = emu.wake /\ emu'.want = emu.want /\ emu'.got = emu.got
         /\ emu'.slot = emu.slot /\ emu'.sleeps = emu.sleeps
BY DEF EmuStates, EmuAt

(* EmuIdle: the call is over.                                              *)
LEMMA EmuRests ==
  ASSUME NEW p, emu' = EmuIdle(p)
  PROVE  /\ emu'.at = "run" /\ emu'.phase = p /\ emu'.msg = Message("write")
         /\ emu'.wake = FALSE /\ emu'.want = None /\ emu'.got = None
         /\ emu'.slot = 0 /\ emu'.sleeps = FALSE
BY DEF EmuIdle

LEMMA EmuCalls ==
  ASSUME emu \in EmuStates, NEW m, NEW wake, NEW want, NEW p, Call(m, wake, want, p)
  PROVE  /\ emu'.at = "push" /\ emu'.phase = p /\ emu'.msg = m
         /\ emu'.wake = wake /\ emu'.want = want /\ emu'.got = emu.got
         /\ emu'.slot = emu.slot /\ emu'.sleeps = emu.sleeps
BY DEF EmuStates, Call

LEMMA GSMoves ==
  ASSUME gs \in GSStates, NEW a, a # "pop", GSAt(a)
  PROVE  gs'.at = a /\ gs'.msg = gs.msg /\ gs'.ret = gs.ret /\ gs'.slot = gs.slot
BY DEF GSStates, GSAt

LEMMA GSRests ==
  ASSUME gs' = GSStart
  PROVE  gs'.at = "pop" /\ gs'.msg = Message("write") /\ gs'.ret = None /\ gs'.slot = 0
BY DEF GSStart

-----------------------------------------------------------------------------
(* Types                                                                   *)

EmuAts == {"run", "push", "flag", "wake", "join", "pop", "was_empty", "putback",
           "store", "publish", "lock", "test", "clear", "block", "asleep", "buffer"}
EmuPhases == {"start", "body", "vblank", "dead"}
GSAts == {"pop", "lock", "test", "clear", "block", "asleep", "spin", "draw", "push",
          "store", "publish", "signal", "set", "notify", "ended"}

LEMMA MessageParts ==
  ASSUME NEW m \in Messages
  PROVE  /\ m.type \in MessageTypes /\ m.frame \in Frames
         /\ m.type = "render_crt" => m.buffer \in Buffers
         /\ m.type = "local_host_tx" => m.buffer = Download
BY DEF Messages, MessageTypes, Frames

LEMMA MessageTypes1 ==
  /\ \A t \in MessageTypes \ {"render_crt", "local_host_tx"} : Message(t) \in Messages
  /\ \A b \in Buffers, f \in Frames : Render(b, f) \in Messages
  /\ [type |-> "local_host_tx", buffer |-> Download, frame |-> 0] \in Messages
  /\ 0 \in RetIndex
  /\ UsedBuffer \in Buffers
BY SizesAssumption
   DEF Message, Render, Messages, MessageTypes, Frames, Buffers, RetIndex, UsedBuffer

(* push and pop, on message_queue.                                         *)
LEMMA HeadAndTail ==
  ASSUME NEW S, NEW s \in Seq(S), s # <<>>
  PROVE  /\ Head(s) \in S /\ Head(s) = s[1] /\ 1 \in DOMAIN s
         /\ Tail(s) \in Seq(S) /\ Len(Tail(s)) = Len(s) - 1
         /\ \A i \in DOMAIN Tail(s) : i + 1 \in DOMAIN s /\ Tail(s)[i] = s[i + 1]
         /\ \A i \in DOMAIN s : i = 1 \/ i - 1 \in DOMAIN Tail(s)
<1>1. Len(s) \in Nat /\ Len(s) # 0 /\ DOMAIN s = 1 .. Len(s)  OBVIOUS
<1>2. Tail(s) \in Seq(S) /\ Len(Tail(s)) = Len(s) - 1  BY <1>1
<1>3. DOMAIN Tail(s) = 1 .. Len(s) - 1  BY <1>1, <1>2
<1>4. \A i \in DOMAIN Tail(s) : Tail(s)[i] = s[i + 1]  BY <1>1, <1>3
<1>5. Head(s) = s[1]  OBVIOUS
<1>6. s[1] \in S  BY <1>1
<1>. QED  BY <1>1, <1>2, <1>3, <1>4, <1>5, <1>6

LEMMA Appending ==
  ASSUME NEW S, NEW s \in Seq(S), NEW m \in S
  PROVE  /\ Append(s, m) \in Seq(S) /\ Len(Append(s, m)) = Len(s) + 1
         /\ DOMAIN Append(s, m) = DOMAIN s \cup {Len(s) + 1}
         /\ Append(s, m)[Len(s) + 1] = m
         /\ \A i \in DOMAIN s : i # Len(s) + 1 /\ Append(s, m)[i] = s[i]
<1>1. Len(s) \in Nat /\ DOMAIN s = 1 .. Len(s)  OBVIOUS
<1>2. Append(s, m) \in Seq(S) /\ Len(Append(s, m)) = Len(s) + 1  OBVIOUS
<1>3. DOMAIN Append(s, m) = 1 .. Len(s) + 1  BY <1>2
<1>4. Append(s, m)[Len(s) + 1] = m  BY <1>1
<1>5. \A i \in DOMAIN s : i # Len(s) + 1 /\ Append(s, m)[i] = s[i]  BY <1>1
<1>. QED  BY <1>1, <1>2, <1>3, <1>4, <1>5

LEMMA EmuMovesTyped ==
  ASSUME emu \in EmuStates, NEW a \in EmuAts, EmuAt(a)
  PROVE  emu' \in EmuStates
<1>1. CASE a = "run"
  <2>1. emu' = EmuIdle(emu.phase)  BY <1>1 DEF EmuAt
  <2>. QED  BY <2>1, MessageTypes1 DEF EmuIdle, EmuStates, MessageTypes
<1>2. CASE a # "run"
  BY <1>2 DEF EmuAt, EmuAts, EmuStates
<1>. QED  BY <1>1, <1>2

LEMMA EmuRestsTyped ==
  ASSUME NEW p \in EmuPhases, emu' = EmuIdle(p)
  PROVE  emu' \in EmuStates
BY MessageTypes1 DEF EmuPhases, EmuIdle, EmuStates, MessageTypes

LEMMA EmuCallsTyped ==
  ASSUME emu \in EmuStates, NEW m \in Messages, NEW wake \in BOOLEAN,
         NEW want \in Answers \cup {None}, NEW p \in EmuPhases, Call(m, wake, want, p)
  PROVE  emu' \in EmuStates
<1>. DEFINE e1 == [emu EXCEPT !.at = "push"]
            e2 == [e1 EXCEPT !.msg = m]
            e3 == [e2 EXCEPT !.wake = wake]
            e4 == [e3 EXCEPT !.want = want]
<1>1. e1 \in EmuStates  BY DEF EmuStates
<1>. HIDE DEF e1
<1>2. e2 \in EmuStates  BY <1>1 DEF EmuStates
<1>. HIDE DEF e2
<1>3. e3 \in EmuStates  BY <1>2 DEF EmuStates
<1>. HIDE DEF e3
<1>4. e4 \in EmuStates  BY <1>3 DEF EmuStates
<1>. HIDE DEF e4
<1>5. [e4 EXCEPT !.phase = p] \in EmuStates  BY <1>4 DEF EmuStates, EmuPhases
<1>6. emu' = [e4 EXCEPT !.phase = p]  BY DEF Call, e1, e2, e3, e4
<1>. QED  BY <1>5, <1>6

LEMMA GSMovesTyped ==
  ASSUME gs \in GSStates, NEW a \in GSAts, GSAt(a)
  PROVE  gs' \in GSStates
<1>1. GSStart \in GSStates  BY MessageTypes1 DEF GSStart, GSStates, MessageTypes
<1>2. CASE a # "pop"  BY <1>2 DEF GSAt, GSAts, GSStates
<1>3. CASE a = "pop"  BY <1>1, <1>3 DEF GSAt
<1>. QED  BY <1>2, <1>3

(* What the GS thread is at, and with what message: an answer is the       *)
(* answer to the message in hand.                                          *)
Loop ==
  /\ gs.at \in {"pop", "lock", "test", "clear", "block", "asleep"} => gs.msg.type = "write"
  /\ gs.at \in {"spin", "draw"} => gs.msg.type \in {"render_crt", "local_host_tx"}
  /\ gs.at \in {"push", "store", "publish", "signal", "set", "notify"} =>
       \/ gs.ret = Death /\ gs.msg.type = "write"
       \/ gs.msg.type \in Requests /\ gs.ret = Answer[gs.msg.type]

LEMMA InitTypes == Init => TypeOK /\ Loop
<1>. SUFFICES ASSUME Init PROVE TypeOK /\ Loop
  OBVIOUS
<1>1. messageQueue \in Seq(Messages)  BY MessageTypes1 DEF Init, MessageTypes
<1>2. retTail \in RetIndex /\ retHead \in RetIndex
      /\ retArray \in [RetIndex -> ReturnTypes \cup {None}]
  BY MessageTypes1 DEF Init
<1>3. emu \in EmuStates
  BY MessageTypes1 DEF Init, EmuIdle, EmuStates, MessageTypes
<1>4. gs \in GSStates
  BY MessageTypes1 DEF Init, GSStart, GSStates, MessageTypes
<1>5. Loop  BY DEF Init, GSStart, Loop, Message
<1>6. bufferMutex \in [Buffers \cup {Download} -> Threads \cup {None}]
      /\ frame \in Frames /\ picture \in [Buffers -> Frames]
      /\ dataMutex \in Threads \cup {None} /\ asleep \subseteq Threads
      /\ currentLock \in Buffers \cup {None}
  BY DEF Init, Frames
<1>7. sendData \in BOOLEAN /\ recieveData \in BOOLEAN /\ usingFirst \in BOOLEAN
  BY DEF Init
<1>. QED  BY <1>1, <1>2, <1>3, <1>4, <1>5, <1>6, <1>7 DEF TypeOK

(* The steps of the emulation thread leave the GS thread alone, and those  *)
(* of the GS thread the emulation thread.                                  *)
EmuSteps ==
  RunsFrame \/ MayDo \/ SendPush \/ SendFlag \/ WakeThread \/ WaitForReturn
            \/ GetFramebuffer \/ GetDownload

LEMMA EmuStepsTyped ==
  ASSUME TypeOK, EmuSteps
  PROVE  emu' \in EmuStates /\ UNCHANGED gs
<1>1. emu \in EmuStates /\ frame \in Frames /\ retTail \in RetIndex /\ retHead \in RetIndex
      /\ retArray \in [RetIndex -> ReturnTypes \cup {None}]
  BY DEF TypeOK
<1>2. emu.phase \in EmuPhases /\ emu.slot \in RetIndex
  BY <1>1 DEF EmuStates, EmuPhases
<1>. USE <1>1, <1>2
<1>3. CASE SaveOrLoad
  <2>1. PICK t \in {"save_state", "load_state"} : Call(Message(t), TRUE, Answer[t], "start")
    BY <1>3 DEF SaveOrLoad
  <2>2. Message(t) \in Messages /\ Answer[t] \in Answers
    BY MessageTypes1, AnswerValues DEF MessageTypes, Requests
  <2>. QED  BY <1>3, <2>1, <2>2, EmuCallsTyped DEF SaveOrLoad, EmuOnly, EmuPhases
<1>4. CASE GameWrite
  <2>1. PICK wake \in BOOLEAN : Call(Message("write"), wake, None, emu.phase)
    BY <1>4 DEF GameWrite
  <2>2. Message("write") \in Messages
    BY MessageTypes1 DEF MessageTypes
  <2>. QED  BY <1>4, <2>1, <2>2, EmuCallsTyped DEF GameWrite, EmuOnly
<1>5. CASE RequestDownload
  <2>1. Answer.local_host_tx \in Answers  BY AnswerValues
  <2>. QED  BY <1>5, <2>1, EmuCallsTyped, MessageTypes1 DEF RequestDownload, EmuOnly
<1>6. CASE VblankStart
  BY <1>6, EmuCallsTyped, MessageTypes1 DEF VblankStart, EmuOnly, EmuPhases
<1>7. CASE Exit
  <2>1. Message("die") \in Messages  BY MessageTypes1 DEF MessageTypes
  <2>. QED  BY <1>7, <2>1, EmuCallsTyped DEF Exit, EmuOnly, EmuPhases
<1>8. CASE StartFrame
  BY <1>8 DEF StartFrame, EmuStates
<1>9. CASE VblankEnd
  <2>1. Answer.render_crt \in Answers  BY AnswerValues
  <2>. DEFINE e1 == [emu EXCEPT !.at = "pop"]
  <2>2. e1 \in EmuStates  BY DEF EmuStates
  <2>3. emu' = [e1 EXCEPT !.want = Answer.render_crt] /\ UNCHANGED gs
    BY <1>9 DEF VblankEnd, EmuOnly
  <2>. HIDE DEF e1
  <2>. QED  BY <2>1, <2>2, <2>3 DEF EmuStates
<1>10. CASE EmulationError
  BY <1>10 DEF EmulationError, EmuOnly, EmuStates
<1>11. CASE SendPush
  <2>1. EmuAt("flag") /\ UNCHANGED gs  BY <1>11 DEF SendPush
  <2>. QED  BY <2>1, EmuMovesTyped DEF EmuAts
<1>12. AfterSend \in EmuAts
  BY DEF AfterSend, EmuAts
<1>13. CASE SendFlag
  <2>1. UNCHANGED gs /\ \/ EmuAt("wake")
                        \/ EmuAt(AfterSend)
    BY <1>13 DEF SendFlag
  <2>. QED  BY <2>1, <1>12, EmuMovesTyped DEF EmuAts
<1>14. CASE WakeThread
  BY <1>12, <1>14, EmuMovesTyped DEF WakeThread
<1>15. CASE ReturnPop
  <2>1. UNCHANGED gs  BY <1>15 DEF ReturnPop
  <2>2. CASE emu' = EmuIdle("dead")
    BY <2>1, <2>2, EmuRestsTyped DEF EmuPhases
  <2>3. CASE EmuAt(AfterReturn)
    BY <2>1, <2>3, EmuMovesTyped DEF AfterReturn, EmuAts
  <2>4. CASE emu' = [emu EXCEPT !.at = "was_empty", !.got = retArray[retHead]]
    <3>. DEFINE e1 == [emu EXCEPT !.at = "was_empty"]
    <3>1. e1 \in EmuStates  BY DEF EmuStates
    <3>2. emu' = [e1 EXCEPT !.got = retArray[retHead]]  BY <2>4
    <3>. HIDE DEF e1
    <3>. QED  BY <2>1, <3>1, <3>2 DEF EmuStates
  <2>. QED  BY <1>15, <2>2, <2>3, <2>4 DEF ReturnPop
<1>16. CASE ReturnPopEmpty
  <2>1. EmuAt("lock") /\ UNCHANGED gs  BY <1>16 DEF ReturnPopEmpty, EmuOnly
  <2>. QED  BY <2>1, EmuMovesTyped DEF EmuAts
<1>17. CASE WasEmpty
  <2>. DEFINE e1 == [emu EXCEPT !.at = "putback"]
  <2>1. e1 \in EmuStates  BY DEF EmuStates
  <2>2. emu' = [e1 EXCEPT !.sleeps = RetEmpty] /\ UNCHANGED gs
    BY <1>17 DEF WasEmpty, EmuOnly
  <2>3. RetEmpty \in BOOLEAN  BY DEF RetEmpty
  <2>. HIDE DEF e1
  <2>. QED  BY <2>1, <2>2, <2>3 DEF EmuStates
<1>18. CASE PutBack
  <2>1. UNCHANGED gs  BY <1>18 DEF PutBack, EmuOnly
  <2>2. CASE emu' = EmuIdle("dead")
    BY <2>1, <2>2, EmuRestsTyped DEF EmuPhases
  <2>3. CASE emu' = [emu EXCEPT !.at = "store", !.slot = retTail]
    <3>. DEFINE e1 == [emu EXCEPT !.at = "store"]
    <3>1. e1 \in EmuStates  BY DEF EmuStates
    <3>2. emu' = [e1 EXCEPT !.slot = retTail]  BY <2>3
    <3>. HIDE DEF e1
    <3>. QED  BY <2>1, <3>1, <3>2 DEF EmuStates
  <2>. QED  BY <1>18, <2>2, <2>3 DEF PutBack
<1>19. CASE PutBackStore
  <2>1. EmuAt("publish") /\ UNCHANGED gs  BY <1>19 DEF PutBackStore
  <2>. QED  BY <2>1, EmuMovesTyped DEF EmuAts
<1>20. CASE PutBackPublish
  <2>1. UNCHANGED gs /\ (EmuAt("lock") \/ EmuAt("pop"))  BY <1>20 DEF PutBackPublish
  <2>. QED  BY <2>1, EmuMovesTyped DEF EmuAts
<1>21. CASE ReturnLock
  <2>1. EmuAt("test") /\ UNCHANGED gs  BY <1>21 DEF ReturnLock
  <2>. QED  BY <2>1, EmuMovesTyped DEF EmuAts
<1>22. CASE ReturnTest
  <2>1. UNCHANGED gs /\ (EmuAt("clear") \/ EmuAt("block"))  BY <1>22 DEF ReturnTest, EmuOnly
  <2>. QED  BY <2>1, EmuMovesTyped DEF EmuAts
<1>23. CASE ReturnClear
  <2>1. EmuAt("pop") /\ UNCHANGED gs  BY <1>23 DEF ReturnClear
  <2>. QED  BY <2>1, EmuMovesTyped DEF EmuAts
<1>24. CASE ReturnBlock
  <2>1. EmuAt("asleep") /\ UNCHANGED gs  BY <1>24 DEF ReturnBlock
  <2>. QED  BY <2>1, EmuMovesTyped DEF EmuAts
<1>25. CASE GetFramebuffer
  BY <1>25, EmuRestsTyped DEF GetFramebuffer, EmuPhases
<1>26. CASE GetDownload
  BY <1>26, EmuRestsTyped DEF GetDownload, EmuOnly
<1>. QED
  BY <1>3, <1>4, <1>5, <1>6, <1>7, <1>8, <1>9, <1>10, <1>11, <1>13, <1>14, <1>15,
     <1>16, <1>17, <1>18, <1>19, <1>20, <1>21, <1>22, <1>23, <1>24, <1>25, <1>26
  DEF EmuSteps, RunsFrame, MayDo, WaitForReturn

LEMMA EventLoopTyped ==
  ASSUME TypeOK, Loop, EventLoop
  PROVE  gs' \in GSStates /\ Loop' /\ UNCHANGED emu
<1>1. gs \in GSStates /\ retTail \in RetIndex /\ messageQueue \in Seq(Messages)
  BY DEF TypeOK
<1>2. /\ gs.msg \in Messages
      /\ \A r \in ReturnTypes : r \in Answers \/ r = Death
  BY <1>1 DEF GSStates, ReturnTypes, Death
<1>. USE <1>1, <1>2
<1>3. UNCHANGED emu
  BY DEF EventLoop, GSPop, GSPopEmpty, GSLock, GSTest, GSClear, GSBlock, GSSpin, GSDraw,
         GSPush, GSStore, GSPublish, GSSignal, GSSetUnlocked, GSNotifyUnlocked, GSOnly
<1>4. CASE GSPop
  <2>1. Head(messageQueue) \in Messages  BY <1>4, HeadAndTail DEF GSPop
  <2>. DEFINE m == Head(messageQueue)
  <2>2. CASE UNCHANGED gs  BY <2>2, <1>3 DEF Loop
  <2>3. CASE gs' = [gs EXCEPT !.at = "push", !.ret = "death_error"]
    <3>. DEFINE g1 == [gs EXCEPT !.at = "push"]
    <3>1. g1 \in GSStates /\ g1.at = "push" /\ g1.msg = gs.msg /\ g1.slot = gs.slot
      BY DEF GSStates
    <3>2. gs' = [g1 EXCEPT !.ret = "death_error"]  BY <2>3
    <3>. HIDE DEF g1
    <3>3. gs' \in GSStates /\ gs'.at = "push" /\ gs'.msg = gs.msg /\ gs'.ret = Death
      BY <3>1, <3>2 DEF GSStates, ReturnTypes, Death
    <3>4. gs.msg.type = "write"  BY <1>4 DEF GSPop, Loop
    <3>. QED  BY <1>3, <3>3, <3>4 DEF Loop
  <2>4. CASE m.type \in {"render_crt", "local_host_tx"} /\ gs' = [gs EXCEPT !.at = "spin", !.msg = m]
    <3>. DEFINE g1 == [gs EXCEPT !.at = "spin"]
    <3>1. g1 \in GSStates /\ g1.at = "spin"  BY DEF GSStates
    <3>2. gs' = [g1 EXCEPT !.msg = m]  BY <2>4
    <3>. HIDE DEF g1, m
    <3>3. gs' \in GSStates /\ gs'.at = "spin" /\ gs'.msg = m
      BY <2>1, <3>1, <3>2 DEF GSStates, m
    <3>. QED  BY <1>3, <2>4, <3>3 DEF Loop
  <2>5. CASE /\ m.type \in {"save_state", "load_state"}
             /\ gs' = [gs EXCEPT !.at = "push", !.msg = m, !.ret = Answer[m.type]]
    <3>1. m.type \in Requests /\ Answer[m.type] \in Answers
      BY <2>5, AnswerValues DEF Requests
    <3>. DEFINE g1 == [gs EXCEPT !.at = "push"]
                g2 == [g1 EXCEPT !.msg = m]
    <3>2. g1 \in GSStates /\ g1.at = "push"  BY DEF GSStates
    <3>3. gs' = [g2 EXCEPT !.ret = Answer[m.type]]  BY <2>5
    <3>. HIDE DEF g1, m
    <3>4. g2 \in GSStates /\ g2.at = "push" /\ g2.msg = m
      BY <2>1, <3>2 DEF GSStates, m
    <3>. HIDE DEF g2
    <3>5. gs' \in GSStates /\ gs'.at = "push" /\ gs'.msg = m /\ gs'.ret = Answer[m.type]
      BY <3>1, <3>3, <3>4 DEF GSStates, ReturnTypes
    <3>. QED  BY <1>3, <3>1, <3>5 DEF Loop
  <2>6. CASE GSAt("ended")
    <3>1. gs' \in GSStates /\ gs'.at = "ended"
      BY <2>6, GSMovesTyped, GSMoves DEF GSAts
    <3>. QED  BY <1>3, <3>1 DEF Loop
  <2>. QED  BY <1>4, <2>2, <2>3, <2>4, <2>5, <2>6 DEF GSPop
<1>5. CASE GSDraw
  <2>1. gs.msg.type \in Requests /\ Answer[gs.msg.type] \in Answers
    BY <1>5, AnswerValues DEF GSDraw, Loop, Requests
  <2>. DEFINE g1 == [gs EXCEPT !.at = "push"]
  <2>2. g1 \in GSStates /\ g1.at = "push" /\ g1.msg = gs.msg  BY DEF GSStates
  <2>3. gs' = [g1 EXCEPT !.ret = Answer[gs.msg.type]]  BY <1>5 DEF GSDraw
  <2>. HIDE DEF g1
  <2>4. gs' \in GSStates /\ gs'.at = "push" /\ gs'.msg = gs.msg /\ gs'.ret = Answer[gs.msg.type]
    BY <2>1, <2>2, <2>3 DEF GSStates, ReturnTypes
  <2>. QED  BY <1>3, <2>1, <2>4 DEF Loop
<1>6. CASE GSPush
  <2>. DEFINE g1 == [gs EXCEPT !.at = "store"]
  <2>1. g1 \in GSStates /\ g1.at = "store" /\ g1.msg = gs.msg /\ g1.ret = gs.ret  BY DEF GSStates
  <2>2. gs' = [g1 EXCEPT !.slot = retTail] /\ gs.at = "push"  BY <1>6 DEF GSPush
  <2>. HIDE DEF g1
  <2>3. gs' \in GSStates /\ gs'.at = "store" /\ gs'.msg = gs.msg /\ gs'.ret = gs.ret
    BY <2>1, <2>2 DEF GSStates
  <2>. QED  BY <1>3, <2>2, <2>3 DEF Loop
<1>7. ASSUME NEW a \in GSAts, a \notin {"push", "draw", "spin"}, GSAt(a),
             \/ /\ gs.at \in {"pop", "lock", "test", "clear", "block", "asleep"}
                /\ a \in {"pop", "lock", "test", "clear", "block", "asleep"}
             \/ /\ gs.at \in {"store", "publish", "signal", "set", "notify"}
                /\ a \in {"publish", "signal", "set", "notify", "ended", "pop"}
      PROVE  gs' \in GSStates /\ Loop' /\ UNCHANGED emu
  <2>1. gs' \in GSStates  BY <1>7, GSMovesTyped
  <2>2. CASE a = "pop"
    <3>1. gs'.at = "pop" /\ gs'.msg = Message("write")
      BY <1>7, <2>2, GSRests DEF GSAt
    <3>. QED  BY <1>3, <2>1, <3>1 DEF Loop, Message
  <2>3. CASE a # "pop"
    <3>1. gs'.at = a /\ gs'.msg = gs.msg /\ gs'.ret = gs.ret
      BY <1>7, <2>3, GSMoves
    <3>2. CASE gs.at \in {"pop", "lock", "test", "clear", "block", "asleep"}
      <4>1. a \in {"lock", "test", "clear", "block", "asleep"}  BY <1>7, <2>3, <3>2
      <4>. QED  BY <1>3, <2>1, <3>1, <3>2, <4>1 DEF Loop
    <3>3. CASE gs.at \in {"store", "publish", "signal", "set", "notify"}
      <4>1. a \in {"publish", "signal", "set", "notify", "ended"}  BY <1>7, <2>3, <3>3
      <4>. QED  BY <1>3, <2>1, <3>1, <3>3, <4>1 DEF Loop
    <3>. QED  BY <1>7, <3>2, <3>3
  <2>. QED  BY <2>2, <2>3
<1>8. CASE GSPopEmpty
  <2>1. gs.at = "pop" /\ GSAt("lock")  BY <1>8 DEF GSPopEmpty
  <2>. QED  BY <2>1, <1>7 DEF GSAts
<1>9. CASE GSLock
  <2>1. gs.at \in {"lock", "asleep"} /\ GSAt("test")  BY <1>9 DEF GSLock
  <2>. QED  BY <2>1, <1>7 DEF GSAts
<1>10. CASE GSTest
  <2>1. gs.at = "test" /\ (GSAt("clear") \/ GSAt("block"))  BY <1>10 DEF GSTest
  <2>2. CASE GSAt("clear")  BY <2>1, <2>2, <1>7 DEF GSAts
  <2>3. CASE GSAt("block")  BY <2>1, <2>3, <1>7 DEF GSAts
  <2>. QED  BY <2>1, <2>2, <2>3
<1>11. CASE GSClear
  <2>1. gs.at = "clear" /\ GSAt("pop")  BY <1>11 DEF GSClear
  <2>. QED  BY <2>1, <1>7 DEF GSAts
<1>12. CASE GSBlock
  <2>1. gs.at = "block" /\ GSAt("asleep")  BY <1>12 DEF GSBlock
  <2>. QED  BY <2>1, <1>7 DEF GSAts
<1>13. CASE GSSpin
  <2>1. gs.at = "spin" /\ GSAt("draw")  BY <1>13 DEF GSSpin
  <2>2. gs' \in GSStates  BY <2>1, GSMovesTyped DEF GSAts
  <2>3. gs'.at = "draw" /\ gs'.msg = gs.msg  BY <2>1, GSMoves
  <2>. QED  BY <1>3, <2>1, <2>2, <2>3 DEF Loop
<1>14. CASE GSStore
  <2>1. gs.at = "store" /\ GSAt("publish")  BY <1>14 DEF GSStore
  <2>. QED  BY <2>1, <1>7 DEF GSAts
<1>15. CASE GSPublish
  <2>1. gs.at = "publish" /\ (GSAt("set") \/ GSAt("signal"))  BY <1>15 DEF GSPublish
  <2>2. CASE GSAt("set")  BY <2>1, <2>2, <1>7 DEF GSAts
  <2>3. CASE GSAt("signal")  BY <2>1, <2>3, <1>7 DEF GSAts
  <2>. QED  BY <2>1, <2>2, <2>3
<1>16. CASE GSSignal
  <2>1. gs.at = "signal" /\ GSAt("pop")  BY <1>16 DEF GSSignal
  <2>. QED  BY <2>1, <1>7 DEF GSAts
<1>17. CASE GSSetUnlocked
  <2>1. gs.at = "set" /\ GSAt("notify")  BY <1>17 DEF GSSetUnlocked
  <2>. QED  BY <2>1, <1>7 DEF GSAts
<1>18. CASE GSNotifyUnlocked
  <2>1. gs.at = "notify" /\ (GSAt("ended") \/ GSAt("pop"))  BY <1>18 DEF GSNotifyUnlocked
  <2>2. CASE GSAt("ended")  BY <2>1, <2>2, <1>7 DEF GSAts
  <2>3. CASE GSAt("pop")  BY <2>1, <2>3, <1>7 DEF GSAts
  <2>. QED  BY <2>1, <2>2, <2>3
<1>. QED
  BY <1>4, <1>5, <1>6, <1>8, <1>9, <1>10, <1>11, <1>12, <1>13, <1>14, <1>15, <1>16,
     <1>17, <1>18 DEF EventLoop

(* Who changes message_queue, return_queue and the buffers.                *)
LEMMA Frames1 ==
  ASSUME Next
  PROVE  /\ UNCHANGED messageQueue \/ SendPush \/ GSPop \/ Reset
         /\ \/ UNCHANGED returnQueue
            \/ ReturnPop \/ PutBackStore \/ PutBackPublish \/ GSStore \/ GSPublish \/ Reset
         /\ \/ UNCHANGED display
            \/ StartFrame \/ GetFramebuffer \/ Reset \/ GSSpin \/ GSDraw \/ GSSignal
<1>1. CASE RunsFrame \/ MayDo
  <2>1. CASE SaveOrLoad  BY <2>1 DEF SaveOrLoad, EmuOnly
  <2>2. CASE GameWrite  BY <2>2 DEF GameWrite, EmuOnly
  <2>3. CASE RequestDownload  BY <2>3 DEF RequestDownload, EmuOnly
  <2>4. CASE VblankStart  BY <2>4 DEF VblankStart, EmuOnly
  <2>5. CASE Exit  BY <2>5 DEF Exit, EmuOnly
  <2>6. CASE VblankEnd  BY <2>6 DEF VblankEnd, EmuOnly
  <2>7. CASE EmulationError  BY <2>7 DEF EmulationError, EmuOnly
  <2>8. CASE StartFrame  BY <2>8 DEF StartFrame
  <2>. QED
    BY <1>1, <2>1, <2>2, <2>3, <2>4, <2>5, <2>6, <2>7, <2>8 DEF RunsFrame, MayDo
<1>2. CASE Finishes
  <2>1. CASE ReturnPopEmpty  BY <2>1 DEF ReturnPopEmpty, EmuOnly
  <2>2. CASE WasEmpty  BY <2>2 DEF WasEmpty, EmuOnly
  <2>3. CASE PutBack  BY <2>3 DEF PutBack, EmuOnly
  <2>4. CASE ReturnTest  BY <2>4 DEF ReturnTest, EmuOnly
  <2>5. CASE GetDownload  BY <2>5 DEF GetDownload, EmuOnly
  <2>6. CASE SendPush \/ SendFlag \/ WakeThread
    BY <2>6 DEF SendPush, SendFlag, WakeThread
  <2>7. CASE ReturnLock \/ ReturnClear \/ ReturnBlock
    BY <2>7 DEF ReturnLock, ReturnClear, ReturnBlock
  <2>8. CASE ReturnPop \/ PutBackStore \/ PutBackPublish
    BY <2>8 DEF ReturnPop, PutBackStore, PutBackPublish
  <2>9. CASE GetFramebuffer  BY <2>9 DEF GetFramebuffer
  <2>. QED
    BY <1>2, <2>1, <2>2, <2>3, <2>4, <2>5, <2>6, <2>7, <2>8, <2>9 DEF Finishes, WaitForReturn
<1>3. CASE EventLoop
  <2>1. CASE GSPopEmpty  BY <2>1 DEF GSPopEmpty, GSOnly
  <2>2. CASE GSTest  BY <2>2 DEF GSTest, GSOnly
  <2>3. CASE GSPush  BY <2>3 DEF GSPush, GSOnly
  <2>4. CASE GSPop \/ GSLock \/ GSClear \/ GSBlock
    BY <2>4 DEF GSPop, GSLock, GSClear, GSBlock
  <2>5. CASE GSSpin \/ GSDraw \/ GSStore \/ GSPublish
    BY <2>5 DEF GSSpin, GSDraw, GSStore, GSPublish
  <2>6. CASE GSSignal \/ GSSetUnlocked \/ GSNotifyUnlocked
    BY <2>6 DEF GSSignal, GSSetUnlocked, GSNotifyUnlocked
  <2>. QED
    BY <1>3, <2>1, <2>2, <2>3, <2>4, <2>5, <2>6 DEF EventLoop
<1>4. CASE SpuriousWakeup
  BY <1>4 DEF SpuriousWakeup
<1>. QED  BY <1>1, <1>2, <1>3, <1>4 DEF Next

LEMMA FlagsTyped ==
  ASSUME TypeOK, Next
  PROVE  /\ sendData' \in BOOLEAN /\ recieveData' \in BOOLEAN
         /\ dataMutex' \in Threads \cup {None} /\ asleep' \subseteq Threads
<1>. USE DEF TypeOK, flags
<1>1. CASE RunsFrame \/ MayDo
  <2>1. UNCHANGED flags
    BY <1>1 DEF RunsFrame, MayDo, SaveOrLoad, GameWrite, RequestDownload, VblankStart, Exit,
                VblankEnd, EmulationError, StartFrame, EmuOnly
  <2>. QED  BY <2>1
<1>2. CASE Finishes
  <2>1. CASE ReturnPopEmpty \/ WasEmpty \/ PutBack \/ ReturnTest \/ GetDownload
    BY <2>1 DEF ReturnPopEmpty, WasEmpty, PutBack, ReturnTest, GetDownload, EmuOnly
  <2>2. CASE SendPush \/ SendFlag \/ WakeThread
    BY <2>2 DEF SendPush, SendFlag, WakeThread, Notify
  <2>3. CASE ReturnLock \/ ReturnClear \/ ReturnBlock
    BY <2>3 DEF ReturnLock, ReturnClear, ReturnBlock, Threads
  <2>4. CASE ReturnPop \/ PutBackStore \/ PutBackPublish \/ GetFramebuffer
    BY <2>4 DEF ReturnPop, PutBackStore, PutBackPublish, GetFramebuffer
  <2>5. CASE Reset  BY <2>5 DEF Reset
  <2>. QED  BY <1>2, <2>1, <2>2, <2>3, <2>4, <2>5 DEF Finishes, WaitForReturn
<1>3. CASE EventLoop
  <2>1. CASE GSPopEmpty \/ GSTest \/ GSPush
    BY <2>1 DEF GSPopEmpty, GSTest, GSPush, GSOnly
  <2>2. CASE GSPop \/ GSLock \/ GSClear \/ GSBlock
    BY <2>2 DEF GSPop, GSLock, GSClear, GSBlock, Threads
  <2>3. CASE GSSpin \/ GSDraw \/ GSStore \/ GSPublish
    BY <2>3 DEF GSSpin, GSDraw, GSStore, GSPublish
  <2>4. CASE GSSignal \/ GSSetUnlocked \/ GSNotifyUnlocked
    BY <2>4 DEF GSSignal, GSSetUnlocked, GSNotifyUnlocked, Notify
  <2>. QED  BY <1>3, <2>1, <2>2, <2>3, <2>4 DEF EventLoop
<1>4. CASE SpuriousWakeup
  BY <1>4 DEF SpuriousWakeup
<1>. QED  BY <1>1, <1>2, <1>3, <1>4 DEF Next

LEMMA QueuesTyped ==
  ASSUME TypeOK, Next
  PROVE  /\ messageQueue' \in Seq(Messages)
         /\ retTail' \in RetIndex /\ retHead' \in RetIndex
         /\ retArray' \in [RetIndex -> ReturnTypes \cup {None}]
<1>1. /\ messageQueue \in Seq(Messages)
      /\ retTail \in RetIndex /\ retHead \in RetIndex
      /\ retArray \in [RetIndex -> ReturnTypes \cup {None}]
      /\ emu.slot \in RetIndex /\ gs.slot \in RetIndex
      /\ emu.got \in ReturnTypes \cup {None} /\ gs.ret \in ReturnTypes \cup {None}
      /\ emu.msg \in Messages
  BY DEF TypeOK, EmuStates, GSStates
<1>2. messageQueue' \in Seq(Messages)
  <2>1. CASE SendPush  BY <1>1, <2>1, Appending DEF SendPush
  <2>2. CASE GSPop  BY <1>1, <2>2, HeadAndTail DEF GSPop
  <2>3. CASE Reset
    <3>1. Message("set_crt") \in Messages  BY MessageTypes1 DEF MessageTypes
    <3>. QED  BY <2>3, <3>1 DEF Reset
  <2>. QED  BY <1>1, <2>1, <2>2, <2>3, Frames1
<1>3. /\ retTail' \in RetIndex /\ retHead' \in RetIndex
      /\ retArray' \in [RetIndex -> ReturnTypes \cup {None}]
  <2>1. CASE ReturnPop  BY <1>1, <2>1, Steps DEF ReturnPop
  <2>2. CASE PutBackStore \/ GSStore
    BY <1>1, <2>2 DEF PutBackStore, GSStore, RetStore
  <2>3. CASE PutBackPublish \/ GSPublish
    BY <1>1, <2>3, Steps DEF PutBackPublish, GSPublish, RetPublish
  <2>4. CASE Reset  BY <2>4, MessageTypes1 DEF Reset
  <2>. QED  BY <1>1, <2>1, <2>2, <2>3, <2>4, Frames1 DEF returnQueue
<1>. QED  BY <1>2, <1>3

LEMMA DisplayTyped ==
  ASSUME TypeOK, Next, Loop
  PROVE  /\ bufferMutex' \in [Buffers \cup {Download} -> Threads \cup {None}]
         /\ currentLock' \in Buffers \cup {None} /\ usingFirst' \in BOOLEAN
         /\ frame' \in Frames /\ picture' \in [Buffers -> Frames]
<1>1. /\ bufferMutex \in [Buffers \cup {Download} -> Threads \cup {None}]
      /\ currentLock \in Buffers \cup {None} /\ usingFirst \in BOOLEAN
      /\ frame \in Frames /\ picture \in [Buffers -> Frames]
      /\ gs.msg \in Messages
  BY DEF TypeOK, GSStates
<1>2. CASE StartFrame
  <2>1. NextFrame(frame) \in Frames  BY <1>1 DEF NextFrame, Frames
  <2>. QED  BY <1>1, <1>2, <2>1 DEF StartFrame
<1>3. CASE GetFramebuffer
  BY <1>1, <1>3, MessageTypes1 DEF GetFramebuffer, Threads
<1>4. CASE Reset
  BY <1>1, <1>4 DEF Reset
<1>5. CASE GSSpin
  BY <1>1, <1>5 DEF GSSpin, Threads
<1>6. CASE GSDraw
  BY <1>1, <1>6, MessageParts DEF GSDraw
<1>7. CASE GSSignal
  BY <1>1, <1>7 DEF GSSignal
<1>8. CASE UNCHANGED display
  BY <1>1, <1>8 DEF display
<1>. QED  BY <1>2, <1>3, <1>4, <1>5, <1>6, <1>7, <1>8, Frames1

LEMMA StepTypes == TypeOK /\ Loop /\ [Next]_vars => TypeOK' /\ Loop'
<1>. SUFFICES ASSUME TypeOK, Loop, [Next]_vars PROVE TypeOK' /\ Loop'
  OBVIOUS
<1>1. CASE Next
  <2>1. emu' \in EmuStates /\ gs' \in GSStates /\ Loop'
    <3>1. CASE EmuSteps
      BY <3>1, EmuStepsTyped DEF TypeOK, Loop
    <3>2. CASE EventLoop
      BY <3>2, EventLoopTyped DEF TypeOK
    <3>3. CASE Reset
      <4>1. emu' = EmuIdle("start") /\ gs' = GSStart  BY <3>3 DEF Reset
      <4>2. gs' \in GSStates
        BY <4>1, MessageTypes1 DEF GSStart, GSStates, MessageTypes
      <4>3. Loop'  BY <4>1 DEF Loop, GSStart, Message
      <4>. QED  BY <4>1, <4>2, <4>3, EmuRestsTyped DEF EmuPhases
    <3>4. CASE SpuriousWakeup
      BY <3>4 DEF SpuriousWakeup, TypeOK, Loop
    <3>. QED  BY <1>1, <3>1, <3>2, <3>3, <3>4 DEF Next, EmuSteps, Finishes
  <2>. QED  BY <1>1, <2>1, FlagsTyped, QueuesTyped, DisplayTyped DEF TypeOK
<1>2. CASE UNCHANGED vars
  BY <1>2 DEF vars, returnQueue, flags, display, TypeOK, Loop
<1>. QED  BY <1>1, <1>2

-----------------------------------------------------------------------------
(* Where the emulation thread is in its frame                              *)

Sending == {"push", "flag", "wake"}
Puts == {"was_empty", "putback", "store", "publish"}
Sleeps == {"lock", "test", "clear", "block", "asleep"}
Waiting == {"pop"} \cup Puts \cup Sleeps

(* A call is made, and waits for its answer, only in its part of a frame;  *)
(* after an error only reset follows.                                      *)
MaySend ==
  \/ emu.msg.type = "write" /\ emu.want = None /\ emu.phase \in {"body", "vblank"}
  \/ emu.msg.type = "render_crt" /\ emu.want = None /\ emu.phase = "vblank"
  \/ /\ emu.msg.type \in {"save_state", "load_state"}
     /\ emu.want = Answer[emu.msg.type] /\ emu.phase = "start"
  \/ /\ emu.msg.type = "local_host_tx"
     /\ emu.want = Answer["local_host_tx"] /\ emu.phase \in {"body", "vblank"}

MayWait ==
  \/ emu.want \in {Answer["save_state"], Answer["load_state"]} /\ emu.phase = "start"
  \/ emu.want = Answer["local_host_tx"] /\ emu.phase \in {"body", "vblank"}
  \/ emu.want = Answer["render_crt"] /\ emu.phase = "vblank"

Calls ==
  /\ emu.at = "run" => emu.want = None
  /\ emu.phase = "dead" =>
       /\ emu.at \in {"run", "join"} \cup Sending
       /\ emu.want = None
       /\ emu.at # "run" => emu.msg.type = "die"
  /\ emu.at = "join" => emu.phase = "dead"
  /\ emu.at \in Sending /\ emu.phase # "dead" => MaySend
  /\ emu.at \in Waiting \cup {"buffer"} => MayWait
  /\ emu.at = "buffer" => emu.want \in {Answer["render_crt"], Answer["local_host_tx"]}

(* A step of a call that only moves on.                                    *)
LEMMA CallsMove ==
  ASSUME TypeOK, Calls, NEW a, a # "run", EmuAt(a),
         \/ emu.at \in Sending /\ a \in Sending
         \/ emu.at \in Waiting /\ a \in Waiting
  PROVE  Calls'
<1>1. /\ emu'.at = a /\ emu'.phase = emu.phase /\ emu'.msg = emu.msg
      /\ emu'.want = emu.want
  BY EmuMoves DEF TypeOK
<1>2. a \notin {"run", "join", "buffer"}
  BY DEF Sending, Waiting, Puts, Sleeps
<1>3. MaySend' = MaySend /\ MayWait' = MayWait
  BY <1>1 DEF MaySend, MayWait
<1>4. CASE emu.at \in Sending /\ a \in Sending
  <2>1. a \notin Waiting  BY <1>4 DEF Sending, Waiting, Puts, Sleeps
  <2>2. emu.at # "run"  BY <1>4 DEF Sending
  <2>. QED  BY <1>1, <1>2, <1>3, <1>4, <2>1, <2>2 DEF Calls
<1>5. CASE emu.at \in Waiting /\ a \in Waiting
  <2>1. a \notin Sending /\ emu.at \notin {"run", "join"} \cup Sending
    BY <1>5 DEF Sending, Waiting, Puts, Sleeps
  <2>2. emu.phase # "dead"  BY <1>5, <2>1 DEF Calls
  <2>. QED  BY <1>1, <1>2, <1>3, <1>5, <2>1, <2>2 DEF Calls
<1>. QED  BY <1>4, <1>5

LEMMA CallsRest ==
  ASSUME NEW p, emu' = EmuIdle(p)
  PROVE  Calls'
BY EmuRests DEF Calls, Sending, Waiting, Puts, Sleeps

LEMMA CallsStart ==
  ASSUME TypeOK, NEW m, NEW wake, NEW want, NEW p, Call(m, wake, want, p),
         p = "dead" => want = None /\ m.type = "die",
         p # "dead" => MaySend'
  PROVE  Calls'
<1>1. emu'.at = "push" /\ emu'.phase = p /\ emu'.msg = m /\ emu'.want = want
  BY EmuCalls DEF TypeOK
<1>. QED  BY <1>1 DEF Calls, Sending, Waiting, Puts, Sleeps

(* send_message and wake_thread return, go on to wait, or to join.         *)
LEMMA CallsAfterSend ==
  ASSUME TypeOK, Calls, emu.at \in Sending, EmuAt(AfterSend)
  PROVE  Calls'
<1>1. CASE emu.msg.type = "die"
  <2>3. emu.phase = "dead" /\ emu.want = None  BY <1>1 DEF Calls, MaySend
  <2>1. AfterSend = "join"  BY <1>1, <2>3 DEF AfterSend
  <2>2. emu'.at = "join" /\ emu'.phase = emu.phase /\ emu'.msg = emu.msg /\ emu'.want = emu.want
    BY <2>1, EmuMoves DEF TypeOK
  <2>. QED  BY <1>1, <2>2, <2>3 DEF Calls, Sending, Waiting, Puts, Sleeps
<1>2. CASE emu.msg.type # "die" /\ emu.want # None
  <2>1. AfterSend = "pop"  BY <1>2 DEF AfterSend
  <2>2. emu'.at = "pop" /\ emu'.phase = emu.phase /\ emu'.want = emu.want
    BY <2>1, EmuMoves DEF TypeOK
  <2>3. emu.phase # "dead"  BY <1>2 DEF Calls
  <2>4. MaySend  BY <2>3 DEF Calls
  <2>5. MayWait'  BY <1>2, <2>2, <2>4 DEF MaySend, MayWait
  <2>. QED  BY <2>2, <2>3, <2>5 DEF Calls, Sending, Waiting, Puts, Sleeps
<1>3. CASE emu.msg.type # "die" /\ emu.want = None
  <2>1. AfterSend = "run"  BY <1>3 DEF AfterSend
  <2>. QED  BY <2>1, CallsRest DEF EmuAt
<1>. QED  BY <1>1, <1>2, <1>3

LEMMA InitCalls == Init => Calls
BY DEF Init, EmuIdle, Calls, Sending, Waiting, Puts, Sleeps

LEMMA StepCalls == TypeOK /\ Calls /\ [Next]_vars => Calls'
<1>. SUFFICES ASSUME TypeOK, Calls, [Next]_vars PROVE Calls'
  OBVIOUS
<1>1. CASE SaveOrLoad
  <2>1. PICK t \in {"save_state", "load_state"} : Call(Message(t), TRUE, Answer[t], "start")
    BY <1>1 DEF SaveOrLoad
  <2>2. emu'.msg = Message(t) /\ emu'.want = Answer[t] /\ emu'.phase = "start"
    BY <2>1, EmuCalls DEF TypeOK
  <2>3. emu'.msg.type = t  BY <2>2 DEF Message
  <2>4. MaySend'  BY <2>2, <2>3 DEF MaySend
  <2>. QED  BY <2>1, <2>4, CallsStart
<1>2. CASE GameWrite
  <2>1. PICK wake \in BOOLEAN : Call(Message("write"), wake, None, emu.phase)
    BY <1>2 DEF GameWrite
  <2>2. emu.phase \in {"body", "vblank"}  BY <1>2 DEF GameWrite
  <2>3. MaySend'
    BY <2>1, <2>2, EmuCalls DEF TypeOK, MaySend, Message
  <2>. QED  BY <2>1, <2>2, <2>3, CallsStart
<1>3. CASE RequestDownload
  <2>. DEFINE m == [type |-> "local_host_tx", buffer |-> Download, frame |-> 0]
  <2>1. Call(m, TRUE, Answer.local_host_tx, emu.phase) /\ emu.phase \in {"body", "vblank"}
    BY <1>3 DEF RequestDownload
  <2>2. m.type = "local_host_tx"  OBVIOUS
  <2>. HIDE DEF m
  <2>4. emu'.msg = m /\ emu'.want = Answer["local_host_tx"] /\ emu'.phase = emu.phase
    BY <2>1, EmuCalls DEF TypeOK
  <2>3. MaySend'
    BY <2>1, <2>2, <2>4 DEF MaySend
  <2>. QED  BY <2>1, <2>3, CallsStart
<1>4. CASE VblankStart
  <2>1. Call(Render(UsedBuffer, frame), TRUE, None, "vblank")  BY <1>4 DEF VblankStart
  <2>3. /\ emu'.msg = Render(UsedBuffer, frame) /\ emu'.want = None /\ emu'.phase = "vblank"
    BY <2>1, EmuCalls DEF TypeOK
  <2>4. emu'.msg.type = "render_crt"  BY <2>3 DEF Render
  <2>2. MaySend'  BY <2>3, <2>4 DEF MaySend
  <2>. QED  BY <2>1, <2>2, CallsStart
<1>5. CASE Exit
  <2>1. Call(Message("die"), TRUE, None, "dead")  BY <1>5 DEF Exit
  <2>2. Message("die").type = "die"  BY DEF Message
  <2>. QED  BY <2>1, <2>2, CallsStart
<1>6. CASE StartFrame
  <2>1. emu.at = "run" /\ emu'.at = "run" /\ emu'.want = emu.want /\ emu'.phase = "body"
    BY <1>6 DEF StartFrame, TypeOK, EmuStates
  <2>. QED  BY <2>1 DEF Calls, Sending, Waiting, Puts, Sleeps
<1>7. CASE VblankEnd
  <2>1. emu'.at = "pop" /\ emu'.want = Answer["render_crt"] /\ emu'.phase = "vblank"
    BY <1>7 DEF VblankEnd, TypeOK, EmuStates
  <2>. QED  BY <2>1 DEF Calls, MayWait, Sending, Waiting, Puts, Sleeps
<1>8. CASE EmulationError
  <2>1. emu.at = "run" /\ emu'.at = "run" /\ emu'.want = emu.want /\ emu'.phase = "dead"
    BY <1>8 DEF EmulationError, TypeOK, EmuStates
  <2>. QED  BY <2>1 DEF Calls, Sending, Waiting, Puts, Sleeps
<1>9. CASE SendPush
  BY <1>9, CallsMove DEF SendPush, Sending
<1>10. CASE SendFlag
  <2>1. CASE emu.wake
    <3>1. EmuAt("wake") /\ emu.at = "flag"  BY <1>10, <2>1 DEF SendFlag
    <3>. QED  BY <3>1, CallsMove DEF Sending
  <2>2. CASE ~emu.wake
    <3>1. EmuAt(AfterSend) /\ emu.at = "flag"  BY <1>10, <2>2 DEF SendFlag
    <3>. QED  BY <3>1, CallsAfterSend DEF Sending
  <2>. QED  BY <2>1, <2>2
<1>11. CASE WakeThread
  BY <1>11, CallsAfterSend DEF WakeThread, Sending
<1>12. CASE ReturnPop
  <2>0. emu.at = "pop"  BY <1>12 DEF ReturnPop
  <2>1. CASE emu' = EmuIdle("dead")  BY <2>1, CallsRest
  <2>2. CASE EmuAt(AfterReturn)
    <3>1. CASE AfterReturn = "run"  BY <2>2, <3>1, CallsRest DEF EmuAt
    <3>2. CASE AfterReturn = "buffer"
      <4>1. emu'.at = "buffer" /\ emu'.phase = emu.phase /\ emu'.want = emu.want
        BY <2>2, <3>2, EmuMoves DEF TypeOK
      <4>2. emu.want \in {Answer["render_crt"], Answer["local_host_tx"]}
        BY <3>2 DEF AfterReturn
      <4>3. MayWait /\ emu.phase # "dead"
        BY <2>0 DEF Calls, Waiting, Sending
      <4>4. MayWait'  BY <4>1, <4>3 DEF MayWait
      <4>. QED  BY <4>1, <4>2, <4>3, <4>4 DEF Calls, Sending, Waiting, Puts, Sleeps
    <3>. QED  BY <3>1, <3>2 DEF AfterReturn
  <2>3. CASE emu' = [emu EXCEPT !.at = "was_empty", !.got = retArray[retHead]]
    <3>1. emu'.at = "was_empty" /\ emu'.phase = emu.phase /\ emu'.want = emu.want
      BY <2>3 DEF TypeOK, EmuStates
    <3>2. MayWait /\ emu.phase # "dead"
      BY <2>0 DEF Calls, Waiting, Sending
    <3>3. MayWait'  BY <3>1, <3>2 DEF MayWait
    <3>. QED  BY <3>1, <3>2, <3>3 DEF Calls, Sending, Waiting, Puts, Sleeps
  <2>. QED  BY <1>12, <2>1, <2>2, <2>3 DEF ReturnPop
<1>13. CASE WasEmpty
  <2>1. emu.at = "was_empty" /\ emu'.at = "putback" /\ emu'.phase = emu.phase /\ emu'.want = emu.want
    BY <1>13 DEF WasEmpty, TypeOK, EmuStates
  <2>2. MayWait /\ emu.phase # "dead"
    BY <2>1 DEF Calls, Waiting, Puts, Sending
  <2>3. MayWait'  BY <2>1, <2>2 DEF MayWait
  <2>. QED  BY <2>1, <2>2, <2>3 DEF Calls, Sending, Waiting, Puts, Sleeps
<1>14. CASE PutBack
  <2>1. CASE emu' = EmuIdle("dead")  BY <2>1, CallsRest
  <2>2. CASE emu' = [emu EXCEPT !.at = "store", !.slot = retTail]
    <3>1. emu.at = "putback" /\ emu'.at = "store" /\ emu'.phase = emu.phase /\ emu'.want = emu.want
      BY <1>14, <2>2 DEF PutBack, TypeOK, EmuStates
    <3>2. MayWait /\ emu.phase # "dead"
      BY <3>1 DEF Calls, Waiting, Puts, Sending
    <3>3. MayWait'  BY <3>1, <3>2 DEF MayWait
    <3>. QED  BY <3>1, <3>2, <3>3 DEF Calls, Sending, Waiting, Puts, Sleeps
  <2>. QED  BY <1>14, <2>1, <2>2 DEF PutBack
<1>15. CASE PutBackStore
  BY <1>15, CallsMove DEF PutBackStore, Waiting, Puts
<1>16. CASE PutBackPublish
  <2>1. emu.at = "publish" /\ (EmuAt("lock") \/ EmuAt("pop"))  BY <1>16 DEF PutBackPublish
  <2>2. "lock" \in Waiting /\ "pop" \in Waiting /\ "publish" \in Waiting
    BY DEF Waiting, Puts, Sleeps
  <2>. QED  BY <2>1, <2>2, CallsMove
<1>17. CASE ReturnPopEmpty
  BY <1>17, CallsMove DEF ReturnPopEmpty, Waiting, Sleeps
<1>18. CASE ReturnLock
  BY <1>18, CallsMove DEF ReturnLock, Waiting, Sleeps
<1>19. CASE ReturnTest
  <2>1. emu.at = "test" /\ (EmuAt("clear") \/ EmuAt("block"))  BY <1>19 DEF ReturnTest
  <2>2. "clear" \in Waiting /\ "block" \in Waiting /\ "test" \in Waiting
    BY DEF Waiting, Sleeps
  <2>. QED  BY <2>1, <2>2, CallsMove
<1>20. CASE ReturnClear
  BY <1>20, CallsMove DEF ReturnClear, Waiting, Sleeps
<1>21. CASE ReturnBlock
  BY <1>21, CallsMove DEF ReturnBlock, Waiting, Sleeps
<1>22. CASE GetFramebuffer
  BY <1>22, CallsRest DEF GetFramebuffer
<1>23. CASE GetDownload
  BY <1>23, CallsRest DEF GetDownload
<1>24. CASE Reset
  BY <1>24, CallsRest DEF Reset
<1>25. CASE UNCHANGED emu
  BY <1>25 DEF Calls, MaySend, MayWait
<1>26. CASE EventLoop
  <2>1. UNCHANGED emu
    BY <1>26 DEF EventLoop, GSPop, GSPopEmpty, GSLock, GSTest, GSClear, GSBlock, GSSpin, GSDraw,
         GSPush, GSStore, GSPublish, GSSignal, GSSetUnlocked, GSNotifyUnlocked, GSOnly
  <2>. QED  BY <1>25, <2>1
<1>27. CASE SpuriousWakeup
  BY <1>25, <1>27 DEF SpuriousWakeup
<1>28. CASE UNCHANGED vars
  BY <1>25, <1>28 DEF vars
<1>. QED
  BY <1>1, <1>2, <1>3, <1>4, <1>5, <1>6, <1>7, <1>8, <1>9, <1>10, <1>11, <1>12, <1>13,
     <1>14, <1>15, <1>16, <1>17, <1>18, <1>19, <1>20, <1>21, <1>22, <1>23, <1>24, <1>26,
     <1>27, <1>28
  DEF Next, RunsFrame, MayDo, Finishes, WaitForReturn

(* Mutual exclusion: the buffer on display is the emulation thread's, and  *)
(* what the GS thread draws into, until it has signalled, is its own.      *)
Holding == {"draw", "push", "store", "publish", "signal"}

Locks ==
  /\ currentLock # None => bufferMutex[currentLock] = EMU
  /\ gs.at \in Holding /\ gs.msg.type \in {"render_crt", "local_host_tx"} =>
       bufferMutex[gs.msg.buffer] = GS

LEMMA InitLocks == Init => Locks
BY DEF Init, GSStart, Locks, Holding

LEMMA StepLocks == TypeOK /\ Loop /\ Locks /\ [Next]_vars => Locks'
<1>. SUFFICES ASSUME TypeOK, Loop, Locks, [Next]_vars PROVE Locks'
  OBVIOUS
<1>1. /\ bufferMutex \in [Buffers \cup {Download} -> Threads \cup {None}]
      /\ currentLock \in Buffers \cup {None} /\ UsedBuffer \in Buffers
      /\ gs \in GSStates /\ gs.msg \in Messages /\ messageQueue \in Seq(Messages)
      /\ EMU # GS /\ EMU # None /\ GS # None /\ None \notin Buffers \cup {Download}
  BY MessageTypes1 DEF TypeOK, GSStates, EMU, GS, None, Buffers, Download
<1>2. gs.msg.type \in {"render_crt", "local_host_tx"} =>
        gs.msg.buffer \in Buffers \cup {Download}
  BY <1>1, MessageParts
<1>3. CASE GetFramebuffer
  <2>1. bufferMutex[UsedBuffer] = None /\ currentLock' = UsedBuffer /\ UNCHANGED gs
    BY <1>3 DEF GetFramebuffer
  <2>2. UsedBuffer # currentLock  BY <1>1, <2>1 DEF Locks
  <2>3. bufferMutex'[UsedBuffer] = EMU
    BY <1>1, <1>3, <2>2 DEF GetFramebuffer
  <2>4. ASSUME NEW b \in Buffers \cup {Download}, bufferMutex[b] = GS
        PROVE  bufferMutex'[b] = GS
    <3>1. b # UsedBuffer /\ b # currentLock  BY <1>1, <2>1, <2>4 DEF Locks
    <3>. QED  BY <1>1, <1>3, <2>4, <3>1 DEF GetFramebuffer
  <2>. QED  BY <1>2, <2>1, <2>3, <2>4 DEF Locks
<1>4. CASE Reset
  <2>1. currentLock' = None /\ gs' = GSStart  BY <1>4 DEF Reset
  <2>. QED  BY <2>1 DEF Locks, GSStart, Message, Holding
<1>5. CASE GSSpin
  <2>1. /\ bufferMutex[gs.msg.buffer] = None
        /\ bufferMutex' = [bufferMutex EXCEPT ![gs.msg.buffer] = GS]
        /\ UNCHANGED currentLock /\ gs.at = "spin" /\ GSAt("draw")
    BY <1>5 DEF GSSpin
  <2>2. gs'.msg = gs.msg  BY <1>1, <2>1, GSMoves
  <2>3. gs.msg.buffer \in Buffers \cup {Download}  BY <1>2, <2>1 DEF Loop
  <2>4. currentLock # None => gs.msg.buffer # currentLock  BY <1>1, <2>1 DEF Locks
  <2>. QED  BY <1>1, <2>1, <2>2, <2>3, <2>4 DEF Locks
<1>6. CASE GSSignal
  <2>1. /\ bufferMutex' = [b \in DOMAIN bufferMutex |->
                             IF bufferMutex[b] = GS THEN None ELSE bufferMutex[b]]
        /\ UNCHANGED currentLock /\ GSAt("pop")
    BY <1>6 DEF GSSignal
  <2>2. gs'.at = "pop"  BY <2>1, GSRests DEF GSAt
  <2>. QED  BY <1>1, <2>1, <2>2 DEF Locks, Holding
<1>7. ASSUME UNCHANGED <<bufferMutex, currentLock>>,
             \/ UNCHANGED gs
             \/ gs'.at \notin Holding
             \/ gs'.msg = gs.msg /\ gs.at \in Holding
             \/ gs'.msg.type \notin {"render_crt", "local_host_tx"}
      PROVE  Locks'
  BY <1>7 DEF Locks
<1>8. CASE RunsFrame \/ MayDo \/ SendPush \/ SendFlag \/ WakeThread \/ WaitForReturn \/ GetDownload
  <2>1. UNCHANGED <<bufferMutex, currentLock>>
    BY <1>8, Frames1 DEF display, RunsFrame, MayDo, WaitForReturn, SaveOrLoad, GameWrite,
       RequestDownload, VblankStart, Exit, VblankEnd, EmulationError, StartFrame, EmuOnly,
       SendPush, SendFlag, WakeThread, ReturnPop, ReturnPopEmpty, WasEmpty, PutBack,
       PutBackStore, PutBackPublish, ReturnLock, ReturnTest, ReturnClear, ReturnBlock,
       GetDownload
  <2>2. UNCHANGED gs  BY <1>8, EmuStepsTyped DEF EmuSteps
  <2>. QED  BY <1>7, <2>1, <2>2
<1>9. CASE GSDraw
  <2>1. gs.at = "draw" /\ gs'.msg = gs.msg
    BY <1>1, <1>9 DEF GSDraw, GSStates
  <2>. QED  BY <1>7, <1>9, <2>1 DEF GSDraw, Holding
<1>10. CASE GSPush
  <2>1. gs.at = "push" /\ gs'.msg = gs.msg
    BY <1>1, <1>10 DEF GSPush, GSStates
  <2>. QED  BY <1>7, <1>10, <2>1 DEF GSPush, GSOnly, display, Holding
<1>11. CASE GSStore
  BY <1>1, <1>7, <1>11, GSMoves DEF GSStore, display, Holding
<1>12. CASE GSPublish
  <2>1. gs.at = "publish" /\ gs'.msg = gs.msg /\ UNCHANGED display
    BY <1>1, <1>12, GSMoves DEF GSPublish
  <2>. QED  BY <1>7, <2>1 DEF display, Holding
<1>13. CASE GSPop
  <2>1. UNCHANGED display /\ gs.at = "pop"  BY <1>13 DEF GSPop
  <2>. DEFINE m == Head(messageQueue)
  <2>2. CASE UNCHANGED gs  BY <1>7, <2>1, <2>2 DEF display
  <2>3. CASE gs' = [gs EXCEPT !.at = "push", !.ret = "death_error"]
    <3>1. gs'.msg = gs.msg /\ gs.msg.type = "write"
      BY <1>1, <2>1, <2>3 DEF GSStates, Loop
    <3>. QED  BY <1>7, <2>1, <3>1 DEF display
  <2>4. CASE gs' = [gs EXCEPT !.at = "spin", !.msg = m]
    <3>1. gs'.at = "spin"  BY <1>1, <2>4 DEF GSStates
    <3>. QED  BY <1>7, <2>1, <3>1 DEF display, Holding
  <2>5. CASE /\ m.type \in {"save_state", "load_state"}
             /\ gs' = [gs EXCEPT !.at = "push", !.msg = m, !.ret = Answer[m.type]]
    <3>1. gs'.msg = m  BY <1>1, <2>5 DEF GSStates
    <3>. QED  BY <1>7, <2>1, <2>5, <3>1 DEF display
  <2>6. CASE GSAt("ended")
    <3>1. gs'.at = "ended"  BY <1>1, <2>6, GSMoves
    <3>. QED  BY <1>7, <2>1, <3>1 DEF display, Holding
  <2>. QED  BY <1>13, <2>2, <2>3, <2>4, <2>5, <2>6 DEF GSPop
<1>14. ASSUME NEW a, a \notin Holding, GSAt(a), UNCHANGED display
       PROVE  Locks'
  <2>1. gs'.at \notin Holding
    BY <1>1, <1>14, GSMoves, GSRests DEF GSAt, Holding
  <2>. QED  BY <1>7, <1>14, <2>1 DEF display
<1>15. CASE GSPopEmpty  BY <1>14, <1>15 DEF GSPopEmpty, GSOnly, Holding
<1>16. CASE GSLock  BY <1>14, <1>16 DEF GSLock, Holding
<1>17. CASE GSTest
  <2>1. (GSAt("clear") \/ GSAt("block")) /\ UNCHANGED display  BY <1>17 DEF GSTest, GSOnly
  <2>. QED  BY <1>14, <2>1 DEF Holding
<1>18. CASE GSClear  BY <1>14, <1>18 DEF GSClear, Holding
<1>19. CASE GSBlock  BY <1>14, <1>19 DEF GSBlock, Holding
<1>20. CASE GSSetUnlocked  BY <1>14, <1>20 DEF GSSetUnlocked, Holding
<1>21. CASE GSNotifyUnlocked
  <2>1. (GSAt("ended") \/ GSAt("pop")) /\ UNCHANGED display  BY <1>21 DEF GSNotifyUnlocked
  <2>. QED  BY <1>14, <2>1 DEF Holding
<1>22. CASE SpuriousWakeup
  BY <1>7, <1>22 DEF SpuriousWakeup, display
<1>23. CASE UNCHANGED vars
  BY <1>7, <1>23 DEF vars, display
<1>. QED
  BY <1>3, <1>4, <1>5, <1>6, <1>8, <1>9, <1>10, <1>11, <1>12, <1>13, <1>15, <1>16, <1>17,
     <1>18, <1>19, <1>20, <1>21, <1>22, <1>23
  DEF Next, Finishes, EventLoop

-----------------------------------------------------------------------------
(* Requests and answers: where each is                                     *)

Live == emu.phase # "dead"

Unsent(t) == emu.at = "push" /\ emu.msg.type = t

InQueue(t) == \E i \in DOMAIN messageQueue : messageQueue[i].type = t

(* The GS thread handles the request, or has not published its answer.     *)
AtGS(t) ==
  \/ gs.at \in {"spin", "draw"} /\ gs.msg.type = t
  \/ gs.at \in {"push", "store"} /\ gs.ret = Answer[t]
  \/ gs.at = "publish" /\ gs.ret = Answer[t] /\ retTail = gs.slot

InRing(r) == \E i \in RetIndex : RetHolds(i) /\ retArray[i] = r

(* wait_for_return popped the answer and has not published it again.       *)
InHand(t) ==
  /\ emu.at \in Puts /\ emu.got = Answer[t]
  /\ emu.at = "publish" => retTail = emu.slot

Out(t) == Unsent(t) \/ InQueue(t) \/ AtGS(t) \/ InRing(Answer[t]) \/ InHand(t)

OnePlace(t) ==
  /\ Unsent(t) => ~InQueue(t) /\ ~AtGS(t) /\ ~InRing(Answer[t]) /\ ~InHand(t)
  /\ InQueue(t) => ~AtGS(t) /\ ~InRing(Answer[t]) /\ ~InHand(t)
  /\ AtGS(t) => ~InRing(Answer[t]) /\ ~InHand(t)
  /\ InRing(Answer[t]) => ~InHand(t)

QueueOnce ==
  \A i, j \in DOMAIN messageQueue :
    messageQueue[i].type \in Requests /\ messageQueue[j].type = messageQueue[i].type => i = j

RingOnce ==
  \A i, j \in RetIndex :
    RetHolds(i) /\ RetHolds(j) /\ retArray[i] \in Answers /\ retArray[j] = retArray[i] => i = j

(* All but render_crt are awaited from the moment they are sent, and       *)
(* render_crt is sent and answered in the vertical blank; an answer that   *)
(* wait_for_return has returned is nowhere else.                           *)
Awaited(t) ==
  /\ Out(t) => IF t = "render_crt" THEN emu.phase = "vblank" ELSE emu.want = Answer[t]
  /\ emu.at = "buffer" /\ emu.want = Answer[t] => ~Out(t)

Tokens == QueueOnce /\ RingOnce /\ \A t \in Requests : OnePlace(t) /\ Awaited(t)

(* Nothing but answers in return_queue; the error the GS thread died of    *)
(* comes after all of them.                                                *)
Returned ==
  /\ \A i \in RetIndex : RetHolds(i) => retArray[i] \in ReturnTypes
  /\ InRing(Death) =>
       \/ gs.at = "ended"
       \/ gs.at \in {"set", "notify"} /\ gs.ret = Death
       \/ gs.at = "publish" /\ gs.ret = Death /\ retTail # gs.slot

(* A request that is awaited is the last message sent.                     *)
Last ==
  emu.at \in Waiting \cup {"flag", "wake"} =>
    \A t \in Requests \ {"render_crt"} : emu.want = Answer[t] =>
      /\ messageQueue # <<>> => messageQueue[Len(messageQueue)].type = t
      /\ gs.at \in {"push", "store", "publish"} /\ gs.ret = Death => messageQueue # <<>>

-----------------------------------------------------------------------------
(* How the places change                                                   *)

(* A request stays where it is, or is gone.                                *)
Stays(t) ==
  /\ Unsent(t)' => Unsent(t)
  /\ InQueue(t)' => InQueue(t)
  /\ AtGS(t)' => AtGS(t)
  /\ InRing(Answer[t])' => InRing(Answer[t])
  /\ InHand(t)' => InHand(t)

LEMMA TokensStep ==
  ASSUME Tokens,
         \A t \in Requests : Stays(t) \/ (Out(t) /\ OnePlace(t)'),
         QueueOnce', RingOnce',
         emu'.want = emu.want, emu'.phase = emu.phase,
         emu'.at = "buffer" => emu.at = "buffer"
  PROVE  Tokens'
<1>1. ASSUME NEW t \in Requests PROVE OnePlace(t)' /\ Awaited(t)'
  <2>1. OnePlace(t) /\ Awaited(t)  BY DEF Tokens
  <2>2. CASE Stays(t)
    <3>1. OnePlace(t)'  BY <2>1, <2>2 DEF OnePlace, Stays
    <3>2. Out(t)' => Out(t)  BY <2>2 DEF Out, Stays
    <3>. QED  BY <2>1, <3>1, <3>2 DEF Awaited
  <2>3. CASE Out(t) /\ OnePlace(t)'
    BY <2>1, <2>3 DEF Awaited
  <2>. QED  BY <2>2, <2>3
<1>. QED  BY <1>1 DEF Tokens

LEMMA QueueSame ==
  ASSUME UNCHANGED messageQueue
  PROVE  QueueOnce' = QueueOnce /\ \A t \in Requests : InQueue(t)' = InQueue(t)
BY DEF QueueOnce, InQueue

LEMMA RingSame ==
  ASSUME UNCHANGED returnQueue
  PROVE  /\ RingOnce' = RingOnce /\ \A r : InRing(r)' = InRing(r)
         /\ \A i \in RetIndex : RetHolds(i)' = RetHolds(i)
BY DEF RingOnce, InRing, RetHolds, returnQueue

LEMMA GSSame ==
  ASSUME gs'.at = gs.at, gs'.msg = gs.msg, gs'.ret = gs.ret, gs'.slot = gs.slot,
         UNCHANGED retTail
  PROVE  \A t \in Requests : AtGS(t)' = AtGS(t)
BY DEF AtGS

(* The emulation thread calls, with nothing of the kind on its way.        *)
LEMMA TokensCall ==
  ASSUME TypeOK, Tokens, emu.at = "run",
         NEW m, NEW wake, NEW want, NEW p, Call(m, wake, want, p),
         UNCHANGED <<messageQueue, returnQueue, gs>>,
         m.type \in Requests => ~Out(m.type),
         m.type = "render_crt" => p = "vblank",
         m.type \in Requests \ {"render_crt"} => want = Answer[m.type],
         \A t \in Requests \ {"render_crt"} : ~Out(t),
         Out("render_crt") => p = "vblank"
  PROVE  Tokens'
<1>1. emu'.at = "push" /\ emu'.phase = p /\ emu'.msg = m /\ emu'.want = want
  BY EmuCalls DEF TypeOK
<1>2. QueueOnce' /\ RingOnce'  BY QueueSame, RingSame DEF Tokens
<1>3. ASSUME NEW t \in Requests PROVE OnePlace(t)' /\ Awaited(t)'
  <2>1. OnePlace(t) /\ Awaited(t)  BY DEF Tokens
  <2>2. InQueue(t)' = InQueue(t) /\ InRing(Answer[t])' = InRing(Answer[t]) /\ AtGS(t)' = AtGS(t)
    BY QueueSame, RingSame, GSSame DEF returnQueue
  <2>3. ~InHand(t)' /\ ~Unsent(t) /\ (Unsent(t)' => m.type = t)
    BY <1>1 DEF InHand, Unsent, Puts
  <2>4. OnePlace(t)'
    <3>1. CASE m.type = t
      <4>1. ~Out(t)  BY <3>1
      <4>. QED  BY <2>2, <2>3, <4>1 DEF OnePlace, Out
    <3>2. CASE m.type # t
      BY <2>1, <2>2, <2>3, <3>2 DEF OnePlace
    <3>. QED  BY <3>1, <3>2
  <2>5. Out(t)' => Out(t) \/ m.type = t
    BY <2>2, <2>3 DEF Out
  <2>6. Awaited(t)'
    <3>1. CASE t = "render_crt"  BY <1>1, <2>5, <3>1 DEF Awaited
    <3>2. CASE t # "render_crt"  BY <1>1, <2>5, <3>2 DEF Awaited
    <3>. QED  BY <3>1, <3>2
  <2>. QED  BY <2>4, <2>6
<1>. QED  BY <1>2, <1>3 DEF Tokens

(* What is out when the emulation thread is not in a call.                 *)
LEMMA NothingOut ==
  ASSUME Tokens, emu.want = None
  PROVE  /\ \A t \in Requests \ {"render_crt"} : ~Out(t)
         /\ emu.phase # "vblank" => ~Out("render_crt")
<1>1. ASSUME NEW t \in Requests \ {"render_crt"} PROVE ~Out(t)
  <2>1. Awaited(t)  BY DEF Tokens
  <2>2. Answer[t] # None  BY AnswerValues DEF None, Requests
  <2>. QED  BY <2>1, <2>2 DEF Awaited
<1>2. Awaited("render_crt")  BY DEF Tokens, Requests
<1>. QED  BY <1>1, <1>2 DEF Awaited

LEMMA TokensSaveOrLoad ==
  ASSUME TypeOK, Calls, Tokens, SaveOrLoad
  PROVE  Tokens'
<1>1. PICK t \in {"save_state", "load_state"} : Call(Message(t), TRUE, Answer[t], "start")
  BY DEF SaveOrLoad
<1>2. emu.at = "run" /\ emu.phase = "start" /\ EmuOnly /\ emu.want = None
  BY DEF SaveOrLoad, Calls
<1>3. Message(t).type = t /\ t \in Requests \ {"render_crt"}  BY DEF Message, Requests
<1>4. ~Out("render_crt") /\ \A u \in Requests \ {"render_crt"} : ~Out(u)
  BY <1>2, NothingOut
<1>. QED  BY <1>1, <1>2, <1>3, <1>4, TokensCall DEF EmuOnly

LEMMA TokensGameWrite ==
  ASSUME TypeOK, Calls, Tokens, GameWrite
  PROVE  Tokens'
<1>1. PICK wake \in BOOLEAN : Call(Message("write"), wake, None, emu.phase)
  BY DEF GameWrite
<1>2. emu.at = "run" /\ EmuOnly /\ emu.want = None
  BY DEF GameWrite, Calls
<1>3. Message("write").type \notin Requests  BY DEF Message, Requests
<1>4. \A u \in Requests \ {"render_crt"} : ~Out(u)  BY <1>2, NothingOut
<1>5. Out("render_crt") => emu.phase = "vblank"  BY <1>2, NothingOut
<1>. QED  BY <1>1, <1>2, <1>3, <1>4, <1>5, TokensCall DEF EmuOnly, Requests

LEMMA TokensRequestDownload ==
  ASSUME TypeOK, Calls, Tokens, RequestDownload
  PROVE  Tokens'
<1>. DEFINE m == [type |-> "local_host_tx", buffer |-> Download, frame |-> 0]
<1>1. Call(m, TRUE, Answer.local_host_tx, emu.phase)
  BY DEF RequestDownload
<1>2. emu.at = "run" /\ EmuOnly /\ emu.want = None
  BY DEF RequestDownload, Calls
<1>3. m.type = "local_host_tx" /\ m.type \in Requests  BY DEF Requests
<1>. HIDE DEF m
<1>4. \A u \in Requests \ {"render_crt"} : ~Out(u)  BY <1>2, NothingOut
<1>5. Out("render_crt") => emu.phase = "vblank"  BY <1>2, NothingOut
<1>. QED  BY <1>1, <1>2, <1>3, <1>4, <1>5, TokensCall DEF EmuOnly

LEMMA TokensVblankStart ==
  ASSUME TypeOK, Calls, Tokens, VblankStart
  PROVE  Tokens'
<1>1. Call(Render(UsedBuffer, frame), TRUE, None, "vblank")
  BY DEF VblankStart
<1>2. emu.at = "run" /\ emu.phase = "body" /\ EmuOnly /\ emu.want = None
  BY DEF VblankStart, Calls
<1>3. Render(UsedBuffer, frame).type = "render_crt"  BY DEF Render
<1>4. ~Out("render_crt") /\ \A u \in Requests \ {"render_crt"} : ~Out(u)
  BY <1>2, NothingOut
<1>. QED  BY <1>1, <1>2, <1>3, <1>4, TokensCall DEF EmuOnly

(* send_message: the request goes to message_queue.                        *)
LEMMA TokensSendPush ==
  ASSUME TypeOK, Tokens, SendPush
  PROVE  Tokens'
<1>1. /\ messageQueue \in Seq(Messages) /\ emu.msg \in Messages /\ emu \in EmuStates
  BY DEF TypeOK, EmuStates
<1>2. /\ emu.at = "push" /\ messageQueue' = Append(messageQueue, emu.msg)
      /\ UNCHANGED <<returnQueue, gs>> /\ EmuAt("flag")
  BY DEF SendPush
<1>3. emu'.at = "flag" /\ emu'.phase = emu.phase /\ emu'.want = emu.want
  BY <1>1, <1>2, EmuMoves
<1>4. /\ DOMAIN messageQueue' = DOMAIN messageQueue \cup {Len(messageQueue) + 1}
      /\ messageQueue'[Len(messageQueue) + 1] = emu.msg
      /\ \A i \in DOMAIN messageQueue :
           i # Len(messageQueue) + 1 /\ messageQueue'[i] = messageQueue[i]
  BY <1>1, <1>2, Appending
<1>5. ASSUME NEW t \in Requests PROVE InQueue(t)' => InQueue(t) \/ Unsent(t)
  BY <1>2, <1>4 DEF InQueue, Unsent
<1>6. ASSUME NEW t \in Requests PROVE Stays(t) \/ (Out(t) /\ OnePlace(t)')
  <2>1. OnePlace(t)  BY DEF Tokens
  <2>2. InRing(Answer[t])' = InRing(Answer[t]) /\ AtGS(t)' = AtGS(t)
    BY <1>2, RingSame, GSSame DEF returnQueue
  <2>3. ~InHand(t)' /\ ~Unsent(t)'  BY <1>3 DEF InHand, Puts, Unsent
  <2>4. CASE Unsent(t)
    <3>1. OnePlace(t)'  BY <2>1, <2>2, <2>3, <2>4 DEF OnePlace
    <3>. QED  BY <2>4, <3>1 DEF Out
  <2>5. CASE ~Unsent(t)
    BY <1>5, <2>2, <2>3, <2>5 DEF Stays
  <2>. QED  BY <2>4, <2>5
<1>7. RingOnce'  BY <1>2, RingSame DEF Tokens
<1>8. QueueOnce'
  <2>1. ASSUME emu.msg.type \in Requests PROVE ~InQueue(emu.msg.type)
    BY <1>2, <2>1 DEF Tokens, OnePlace, Unsent
  <2>2. QueueOnce  BY DEF Tokens
  <2>. QED  BY <1>4, <2>1, <2>2 DEF QueueOnce, InQueue
<1>. QED  BY <1>3, <1>6, <1>7, <1>8, TokensStep

(* The emulation thread moves on, with nothing in hand.                    *)
LEMMA TokensEmuMoves ==
  ASSUME Tokens, emu'.at \notin {"push", "buffer"} \cup Puts,
         emu'.want = emu.want, emu'.phase = emu.phase,
         UNCHANGED <<messageQueue, returnQueue, gs>>
  PROVE  Tokens'
<1>1. ASSUME NEW t \in Requests PROVE Stays(t)
  <2>1. InRing(Answer[t])' = InRing(Answer[t]) /\ AtGS(t)' = AtGS(t) /\ InQueue(t)' = InQueue(t)
    BY QueueSame, RingSame, GSSame DEF returnQueue
  <2>2. ~InHand(t)' /\ ~Unsent(t)'  BY DEF InHand, Puts, Unsent
  <2>. QED  BY <2>1, <2>2 DEF Stays
<1>2. QueueOnce' /\ RingOnce'  BY QueueSame, RingSame DEF Tokens
<1>. QED  BY <1>1, <1>2, TokensStep

(* Only the flags change.                                                  *)
LEMMA TokensSame ==
  ASSUME Tokens, UNCHANGED <<messageQueue, returnQueue, emu, gs>>
  PROVE  Tokens'
<1>1. ASSUME NEW t \in Requests PROVE Stays(t)
  <2>1. InRing(Answer[t])' = InRing(Answer[t]) /\ AtGS(t)' = AtGS(t) /\ InQueue(t)' = InQueue(t)
    BY QueueSame, RingSame, GSSame DEF returnQueue
  <2>2. InHand(t)' = InHand(t) /\ Unsent(t)' = Unsent(t)
    BY DEF InHand, Unsent, returnQueue
  <2>. QED  BY <2>1, <2>2 DEF Stays
<1>2. QueueOnce' /\ RingOnce'  BY QueueSame, RingSame DEF Tokens
<1>. QED  BY <1>1, <1>2, TokensStep

LEMMA TokensWasEmpty ==
  ASSUME TypeOK, Tokens,
         emu.at \in {"was_empty", "putback"}, emu'.at \in {"putback", "store"},
         emu'.got = emu.got, emu'.want = emu.want, emu'.phase = emu.phase,
         UNCHANGED <<messageQueue, returnQueue, gs>>
  PROVE  Tokens'
<1>1. ASSUME NEW t \in Requests PROVE Stays(t)
  <2>1. InRing(Answer[t])' = InRing(Answer[t]) /\ AtGS(t)' = AtGS(t) /\ InQueue(t)' = InQueue(t)
    BY QueueSame, RingSame, GSSame DEF returnQueue
  <2>2. InHand(t)' = InHand(t) /\ ~Unsent(t)'
    BY DEF InHand, Puts, Unsent
  <2>. QED  BY <2>1, <2>2 DEF Stays
<1>2. QueueOnce' /\ RingOnce'  BY QueueSame, RingSame DEF Tokens
<1>. QED  BY <1>1, <1>2, TokensStep

LEMMA TokensFrame ==
  ASSUME TypeOK, Calls, Tokens, StartFrame \/ VblankEnd
  PROVE  Tokens'
<1>1. /\ emu.at = "run" /\ emu.want = None
      /\ UNCHANGED <<messageQueue, returnQueue, gs>>
      /\ emu'.at \in {"run", "pop"}
      /\ emu.phase = "vblank" => emu'.phase = "vblank"
  BY DEF StartFrame, VblankEnd, EmuOnly, Calls, TypeOK, EmuStates
<1>2. QueueOnce' /\ RingOnce'  BY <1>1, QueueSame, RingSame DEF Tokens
<1>3. ASSUME NEW t \in Requests PROVE OnePlace(t)' /\ Awaited(t)'
  <2>1. OnePlace(t) /\ Awaited(t)  BY DEF Tokens
  <2>2. InRing(Answer[t])' = InRing(Answer[t]) /\ AtGS(t)' = AtGS(t) /\ InQueue(t)' = InQueue(t)
    BY <1>1, QueueSame, RingSame, GSSame DEF returnQueue
  <2>3. ~InHand(t)' /\ ~Unsent(t)'
    BY <1>1 DEF InHand, Puts, Unsent
  <2>4. OnePlace(t)' /\ (Out(t)' => Out(t))  BY <2>1, <2>2, <2>3 DEF OnePlace, Out
  <2>5. CASE t = "render_crt"
    BY <1>1, <2>1, <2>4, <2>5 DEF Awaited
  <2>6. CASE t # "render_crt"
    <3>1. ~Out(t)  BY <1>1, <2>6, NothingOut
    <3>. QED  BY <2>4, <3>1 DEF Awaited
  <2>. QED  BY <2>5, <2>6
<1>. QED  BY <1>2, <1>3 DEF Tokens

(* The call of wait_for_return is over: nothing is out but a picture.      *)
LEMMA TokensGot ==
  ASSUME Tokens, MayWait, emu.at = "buffer",
         NEW p, emu' = EmuIdle(p),
         emu.want = Answer["render_crt"] \/ p = emu.phase,
         UNCHANGED <<messageQueue, returnQueue, gs>>
  PROVE  Tokens'
<1>1. emu'.at = "run" /\ emu'.phase = p /\ emu'.want = None  BY EmuRests
<1>2. QueueOnce' /\ RingOnce'  BY QueueSame, RingSame DEF Tokens
<1>3. ASSUME NEW t \in Requests PROVE OnePlace(t)' /\ Awaited(t)'
  <2>1. OnePlace(t) /\ Awaited(t)  BY DEF Tokens
  <2>2. InRing(Answer[t])' = InRing(Answer[t]) /\ AtGS(t)' = AtGS(t) /\ InQueue(t)' = InQueue(t)
    BY QueueSame, RingSame, GSSame DEF returnQueue
  <2>3. ~InHand(t)' /\ ~Unsent(t)'
    BY <1>1 DEF InHand, Puts, Unsent
  <2>4. OnePlace(t)' /\ (Out(t)' => Out(t))  BY <2>1, <2>2, <2>3 DEF OnePlace, Out
  <2>5. CASE t = "render_crt"
    <3>1. CASE emu.want = Answer["render_crt"]
      BY <1>1, <2>1, <2>4, <2>5, <3>1 DEF Awaited
    <3>2. CASE emu.want # Answer["render_crt"]
      BY <1>1, <2>1, <2>4, <2>5, <3>2 DEF Awaited
    <3>. QED  BY <3>1, <3>2
  <2>6. CASE t # "render_crt"
    <3>1. ~Out(t)  BY <2>1, <2>6 DEF Awaited
    <3>. QED  BY <1>1, <2>4, <3>1 DEF Awaited
  <2>. QED  BY <2>5, <2>6
<1>. QED  BY <1>2, <1>3 DEF Tokens

-----------------------------------------------------------------------------
(* The two threads at return_queue                                         *)

Pushing == {"store", "publish"}

(* The GS thread will push nothing before the emulation thread sends.      *)
NoMore ==
  /\ gs.at \notin {"spin", "draw", "push", "store", "publish"}
  /\ \/ messageQueue = <<>>
     \/ gs.at = "ended"
     \/ gs.at \in {"set", "notify"} /\ gs.ret = Death

Slept == emu.at # "was_empty" => emu.sleeps = TRUE

(* The emulation thread has the picture's answer in hand while it waits    *)
(* for a download.  Unless the GS thread has pushed for the last time, the *)
(* queue is empty, so that it sleeps before it looks again.                *)
Hand ==
  emu.at \in Puts =>
    /\ emu.got = Answer["render_crt"] /\ emu.want = Answer["local_host_tx"]
    /\ emu.phase = "vblank"
    /\ gs.at \notin Pushing /\ ~NoMore => retHead = retTail /\ Slept
    /\ emu.at \in Pushing /\ gs.at \notin Pushing =>
         \/ retTail = emu.slot /\ RetNext(emu.slot) # retHead
         \/ retTail = RetNext(emu.slot) /\ retHead = emu.slot /\ NoMore
    /\ emu.at = "publish" /\ retTail = emu.slot =>
         \/ retArray[emu.slot] = emu.got
         \/ gs.at = "publish" /\ gs.slot = emu.slot /\ retArray[emu.slot] = gs.ret

(* The GS thread pushes.  Either its slot is the tail still, ...           *)
InTurn ==
  /\ retTail = gs.slot /\ RetNext(gs.slot) # retHead
  /\ emu.at \in Puts => retHead = gs.slot /\ Slept
  /\ emu.at \in Pushing => emu.slot = gs.slot
  /\ gs.at = "publish" =>
       \/ retArray[gs.slot] = gs.ret
       \/ emu.at = "publish" /\ retArray[gs.slot] = emu.got

(* ... or the emulation thread has published it, ...                       *)
Shared ==
  /\ retTail = RetNext(gs.slot) /\ retHead = gs.slot
  /\ emu.at \in {"pop"} \cup Sleeps
  /\ emu.at = "pop" => recieveData = FALSE
  /\ \/ retArray[gs.slot] = Answer["render_crt"]
     \/ gs.at = "publish" /\ retArray[gs.slot] = gs.ret

(* ... has popped it and goes to put it back in the next slot, ...         *)
Again ==
  /\ retTail = RetNext(gs.slot) /\ retHead = RetNext(gs.slot)
  /\ emu.at \in Puts /\ recieveData = FALSE /\ Slept
  /\ emu.at \in Pushing => emu.slot = RetNext(gs.slot)

(* ... has found its own answer there, ...                                 *)
Taken ==
  /\ retTail = RetNext(gs.slot) /\ retHead = RetNext(gs.slot)
  /\ emu.at = "buffer" /\ gs.at = "publish" /\ gs.ret = emu.want

(* ... or has put back twice and sleeps, until the GS thread signals.      *)
Passed ==
  /\ retHead = RetNext(gs.slot) /\ retTail = RetNext(RetNext(gs.slot))
  /\ emu.at \in Sleeps \ {"clear"} /\ recieveData = FALSE
  /\ retArray[RetNext(gs.slot)] = Answer["render_crt"]

Race ==
  gs.at \in Pushing =>
    \/ InTurn
    \/ /\ emu.want = Answer["local_host_tx"] /\ emu.phase = "vblank"
       /\ gs.ret \in {Answer["local_host_tx"], Death}
       /\ Shared \/ Again \/ Taken \/ Passed

(* Where the emulation thread puts back.                                   *)
LEMMA EmuSlot ==
  ASSUME TypeOK, Hand, Race, emu.at \in Pushing
  PROVE  \/ /\ retTail = emu.slot /\ RetNext(emu.slot) # retHead
            /\ gs.at \in Pushing => emu.slot \in {gs.slot, RetNext(gs.slot)}
         \/ /\ retTail = RetNext(emu.slot) /\ retHead = emu.slot
            /\ gs.at \notin Pushing
<1>1. emu.at \in Puts /\ emu.at \notin {"pop", "buffer"} \cup Sleeps
  BY DEF Pushing, Puts, Sleeps
<1>2. CASE gs.at \notin Pushing  BY <1>1, <1>2 DEF Hand
<1>3. CASE gs.at \in Pushing
  <2>1. InTurn \/ Again
    BY <1>1, <1>3 DEF Race, Shared, Taken, Passed
  <2>2. CASE InTurn  BY <1>3, <2>2 DEF InTurn
  <2>3. CASE Again
    <3>1. gs.slot \in RetIndex  BY DEF TypeOK, GSStates
    <3>2. RetNext(RetNext(gs.slot)) # RetNext(gs.slot)  BY <3>1, Steps, StepsApart
    <3>. QED  BY <1>3, <2>3, <3>2 DEF Again
  <2>. QED  BY <2>1, <2>2, <2>3
<1>. QED  BY <1>2, <1>3

(* pop, store and publish: what is in return_queue afterwards.             *)
LEMMA PopRing ==
  ASSUME TypeOK, retHead # retTail, retHead' = RetNext(retHead),
         UNCHANGED <<retTail, retArray>>
  PROVE  /\ RetHolds(retHead)
         /\ \A i \in RetIndex : RetHolds(i)' <=> RetHolds(i) /\ i # retHead
         /\ \A r : InRing(r)' => InRing(r)
         /\ RingOnce => RingOnce'
<1>1. retHead \in RetIndex /\ retTail \in RetIndex  BY DEF TypeOK
<1>2. RetHolds(retHead)  BY <1>1, HeadWithin, HoldsWithin
<1>3. ASSUME NEW i \in RetIndex
      PROVE  RetHolds(i)' <=> RetHolds(i) /\ i # retHead
  <2>1. RetHolds(i)' = Within(retHead', retTail', i)
    BY <1>3 DEF RetHolds, Within
  <2>. QED  BY <1>1, <2>1, PopWithin, HoldsWithin
<1>4. \A r : InRing(r)' => InRing(r)  BY <1>3 DEF InRing
<1>5. RingOnce => RingOnce'  BY <1>3 DEF RingOnce
<1>. QED  BY <1>2, <1>3, <1>4, <1>5

LEMMA PublishRing ==
  ASSUME TypeOK, RetNext(retTail) # retHead, retTail' = RetNext(retTail),
         UNCHANGED <<retHead, retArray>>
  PROVE  /\ \A i \in RetIndex : RetHolds(i)' <=> RetHolds(i) \/ i = retTail
         /\ ~RetHolds(retTail)
         /\ \A r : InRing(r)' <=> InRing(r) \/ r = retArray[retTail]
         /\ RingOnce /\ ~InRing(retArray[retTail]) => RingOnce'
<1>1. retHead \in RetIndex /\ retTail \in RetIndex  BY DEF TypeOK
<1>2. ~RetHolds(retTail)  BY <1>1, PushWithin, HoldsWithin
<1>3. ASSUME NEW i \in RetIndex
      PROVE  RetHolds(i)' <=> RetHolds(i) \/ i = retTail
  <2>1. RetHolds(i)' = Within(retHead', retTail', i)
    BY <1>3 DEF RetHolds, Within
  <2>. QED  BY <1>1, <2>1, PushWithin, HoldsWithin
<1>4. \A r : InRing(r)' <=> InRing(r) \/ r = retArray[retTail]
  BY <1>1, <1>3 DEF InRing
<1>5. RingOnce /\ ~InRing(retArray[retTail]) => RingOnce'
  BY <1>1, <1>3 DEF RingOnce, InRing
<1>. QED  BY <1>2, <1>3, <1>4, <1>5

LEMMA StoreRing ==
  ASSUME TypeOK, NEW s \in RetIndex, NEW m, ~RetHolds(s), RetStore(s, m)
  PROVE  /\ \A i \in RetIndex : RetHolds(i)' = RetHolds(i)
         /\ \A i \in RetIndex : RetHolds(i) => retArray'[i] = retArray[i]
         /\ \A r : InRing(r)' = InRing(r)
         /\ RingOnce' = RingOnce
<1>1. retArray' = [retArray EXCEPT ![s] = m] /\ UNCHANGED <<retTail, retHead>>
  BY DEF RetStore
<1>2. DOMAIN retArray = RetIndex  BY DEF TypeOK
<1>3. \A i \in RetIndex : RetHolds(i)' = RetHolds(i)  BY <1>1 DEF RetHolds
<1>4. \A i \in RetIndex : RetHolds(i) => retArray'[i] = retArray[i]
  BY <1>1, <1>2
<1>5. \A r : InRing(r)' = InRing(r)  BY <1>3, <1>4 DEF InRing
<1>6. RingOnce' = RingOnce
  <2>1. RingOnce => RingOnce'  BY <1>3, <1>4 DEF RingOnce
  <2>2. RingOnce' => RingOnce  BY <1>3, <1>4 DEF RingOnce
  <2>3. RingOnce \in BOOLEAN /\ RingOnce' \in BOOLEAN  BY DEF RingOnce
  <2>. QED  BY <2>1, <2>2, <2>3
<1>. QED  BY <1>3, <1>4, <1>5, <1>6

LEMMA StoreOne ==
  ASSUME TypeOK, NEW s \in RetIndex, NEW m, retHead = s, retTail = RetNext(s), RetStore(s, m)
  PROVE  /\ \A i \in RetIndex : RetHolds(i)' = RetHolds(i)
         /\ \A i \in RetIndex : RetHolds(i) <=> i = s
         /\ retArray'[s] = m
         /\ \A r : InRing(r)' <=> r = m
         /\ RingOnce'
<1>1. retArray' = [retArray EXCEPT ![s] = m] /\ UNCHANGED <<retTail, retHead>>
  BY DEF RetStore
<1>2. DOMAIN retArray = RetIndex  BY DEF TypeOK
<1>3. \A i \in RetIndex : RetHolds(i)' = RetHolds(i)  BY <1>1 DEF RetHolds
<1>4. \A i \in RetIndex : RetHolds(i) <=> i = s
  BY OneWithin, HoldsWithin
<1>5. retArray'[s] = m  BY <1>1, <1>2
<1>6. \A r : InRing(r)' <=> r = m  BY <1>3, <1>4, <1>5 DEF InRing
<1>7. RingOnce'  BY <1>3, <1>4 DEF RingOnce
<1>. QED  BY <1>3, <1>4, <1>5, <1>6, <1>7

LEMMA EmptyRing ==
  ASSUME retTail \in RetIndex, retHead = retTail
  PROVE  RingOnce /\ \A r : ~InRing(r)
BY NoneWithin, HoldsWithin DEF RingOnce, InRing

LEMMA TailNotHeld ==
  ASSUME TypeOK
  PROVE  ~RetHolds(retTail)
BY DEF TypeOK, RetHolds, RetIndex

-----------------------------------------------------------------------------
(* Requests and answers at return_queue                                    *)

(* The answer at the head, once popped, is nowhere.                        *)
LEMMA PoppedGone ==
  ASSUME TypeOK, Tokens, NEW t \in Requests, retArray[retHead] = Answer[t],
         retHead # retTail, retHead' = RetNext(retHead),
         UNCHANGED <<retTail, retArray, messageQueue, gs>>,
         emu.at = "pop", emu'.at # "push"
  PROVE  ~Unsent(t)' /\ ~InQueue(t)' /\ ~AtGS(t)' /\ ~InRing(Answer[t])'
<1>1. /\ RetHolds(retHead) /\ retHead \in RetIndex
      /\ \A i \in RetIndex : RetHolds(i)' <=> RetHolds(i) /\ i # retHead
  BY PopRing DEF TypeOK
<1>2. InRing(Answer[t])  BY <1>1 DEF InRing
<1>3. OnePlace(t) /\ RingOnce  BY DEF Tokens
<1>4. ~InQueue(t) /\ ~AtGS(t)  BY <1>2, <1>3 DEF OnePlace
<1>5. ~InQueue(t)' /\ ~AtGS(t)'  BY <1>4, QueueSame, GSSame
<1>6. ~InRing(Answer[t])'
  <2>1. Answer[t] \in Answers  BY AnswerValues
  <2>. QED  BY <1>1, <1>3, <2>1 DEF InRing, RingOnce
<1>. QED  BY <1>5, <1>6 DEF Unsent

LEMMA TokensReturnPop ==
  ASSUME TypeOK, Calls, Tokens, Returned, ReturnPop
  PROVE  Tokens' \/ ~Live'
<1>1. /\ emu.at = "pop" /\ retHead # retTail /\ retHead' = RetNext(retHead)
      /\ UNCHANGED <<retTail, retArray, messageQueue, gs>>
      /\ emu \in EmuStates /\ retHead \in RetIndex
  BY DEF ReturnPop, RetEmpty, TypeOK
<1>. DEFINE data == retArray[retHead]
<1>2. /\ RetHolds(retHead) /\ RingOnce' /\ QueueOnce'
      /\ \A r : InRing(r)' => InRing(r)
  BY <1>1, PopRing, QueueSame DEF Tokens
<1>3. data \in ReturnTypes  BY <1>1, <1>2 DEF Returned
<1>4. ASSUME NEW t \in Requests, ~InHand(t)', emu'.at # "push"
      PROVE  Stays(t)
  BY <1>1, <1>2, <1>4, QueueSame, GSSame DEF Stays, Unsent
<1>5. CASE emu' = EmuIdle("dead")
  BY <1>5, EmuRests DEF Live
<1>6. CASE data = emu.want /\ EmuAt(AfterReturn)
  <2>1. PICK t \in Requests : emu.want = Answer[t]
    BY <1>1, AnswerValues DEF Calls, MayWait, Waiting, Requests
  <2>2. /\ emu'.at \notin Puts \cup {"push"} /\ emu'.phase = emu.phase
        /\ emu'.at \in {"run", "buffer"}
        /\ emu'.at = "buffer" => emu'.want = emu.want
        /\ emu'.at = "run" => emu'.want = None /\ t # "render_crt"
    <3>1. CASE AfterReturn = "buffer"
      BY <1>1, <1>6, <3>1, EmuMoves DEF Puts
    <3>2. CASE AfterReturn = "run"
      <4>1. emu' = EmuIdle(emu.phase)  BY <1>6, <3>2 DEF EmuAt
      <4>2. t # "render_crt"  BY <2>1, <3>2 DEF AfterReturn
      <4>. QED  BY <4>1, <4>2, EmuRests DEF Puts
    <3>. QED  BY <3>1, <3>2 DEF AfterReturn
  <2>3. ASSUME NEW u \in Requests PROVE OnePlace(u)' /\ Awaited(u)'
    <3>1. OnePlace(u) /\ Awaited(u)  BY DEF Tokens
    <3>2. ~InHand(u)'  BY <2>2 DEF InHand
    <3>3. Stays(u)  BY <1>4, <2>2, <3>2
    <3>4. OnePlace(u)' /\ (Out(u)' => Out(u))  BY <3>1, <3>3 DEF OnePlace, Out, Stays
    <3>5. CASE u = t
      <4>1. ~Unsent(t)' /\ ~InQueue(t)' /\ ~AtGS(t)' /\ ~InRing(Answer[t])'
        BY <1>1, <1>6, <2>1, <2>2, PoppedGone
      <4>2. ~Out(u)'  BY <3>2, <3>5, <4>1 DEF Out
      <4>. QED  BY <3>4, <4>2 DEF Awaited
    <3>6. CASE u # t
      <4>1. Answer[u] # Answer[t] /\ Answer[u] # None
        BY <3>6, AnswerValues DEF None, Requests
      <4>2. CASE u = "render_crt"
        <5>1. Out(u)' => emu'.phase = "vblank"  BY <2>2, <3>1, <3>4, <4>2 DEF Awaited
        <5>2. ~(emu'.at = "buffer" /\ emu'.want = Answer[u])  BY <2>1, <2>2, <4>1
        <5>. QED  BY <3>4, <4>2, <5>1, <5>2 DEF Awaited
      <4>3. CASE u # "render_crt"
        <5>1. ~Out(u)  BY <2>1, <3>1, <4>1, <4>3 DEF Awaited
        <5>. QED  BY <3>4, <5>1 DEF Awaited
      <4>. QED  BY <4>2, <4>3
    <3>. QED  BY <3>5, <3>6
  <2>. QED  BY <1>2, <2>3 DEF Tokens
<1>7. CASE data \notin {"death_error", emu.want}
           /\ emu' = [emu EXCEPT !.at = "was_empty", !.got = data]
  <2>1. emu'.at = "was_empty" /\ emu'.got = data /\ emu'.want = emu.want /\ emu'.phase = emu.phase
    BY <1>1, <1>7 DEF EmuStates
  <2>2. PICK t \in Requests : data = Answer[t]
    BY <1>3, <1>7, AnswerValues DEF ReturnTypes, Requests
  <2>3. ASSUME NEW u \in Requests PROVE Stays(u) \/ (Out(u) /\ OnePlace(u)')
    <3>1. CASE u = t
      <4>1. ~Unsent(t)' /\ ~InQueue(t)' /\ ~AtGS(t)' /\ ~InRing(Answer[t])'
        BY <1>1, <2>1, <2>2, PoppedGone
      <4>2. InRing(Answer[t])  BY <1>1, <1>2, <2>2 DEF InRing
      <4>. QED  BY <3>1, <4>1, <4>2 DEF OnePlace, Out
    <3>2. CASE u # t
      <4>1. Answer[u] # data  BY <2>2, <3>2, AnswerValues
      <4>2. ~InHand(u)'  BY <2>1, <4>1 DEF InHand
      <4>. QED  BY <1>4, <2>1, <4>2
    <3>. QED  BY <3>1, <3>2
  <2>. QED  BY <1>2, <2>1, <2>3, TokensStep
<1>. QED  BY <1>5, <1>6, <1>7 DEF ReturnPop

LEMMA TokensPutBackStore ==
  ASSUME TypeOK, Tokens, Hand, Race, PutBackStore
  PROVE  Tokens'
<1>1. /\ emu.at = "store" /\ RetStore(emu.slot, emu.got) /\ EmuAt("publish")
      /\ UNCHANGED <<messageQueue, gs, retTail, retHead>>
      /\ emu \in EmuStates /\ emu.slot \in RetIndex
  BY DEF PutBackStore, TypeOK, EmuStates, RetStore
<1>2. /\ emu'.at = "publish" /\ emu'.want = emu.want /\ emu'.phase = emu.phase
      /\ emu'.got = emu.got /\ emu'.slot = emu.slot
  BY <1>1, EmuMoves
<1>3. emu.got = Answer["render_crt"]  BY <1>1 DEF Hand, Puts
<1>4. QueueOnce'  BY <1>1, QueueSame DEF Tokens
<1>5. ASSUME NEW t \in Requests
      PROVE  AtGS(t)' = AtGS(t) /\ InQueue(t)' = InQueue(t) /\ ~Unsent(t)'
             /\ (InHand(t)' => InHand(t)) /\ OnePlace(t)
  BY <1>1, <1>2, QueueSame, GSSame DEF InHand, Puts, Unsent, Tokens
<1>6. CASE retTail = emu.slot
  <2>1. /\ \A r : InRing(r)' = InRing(r)
        /\ RingOnce'
    BY <1>1, <1>6, StoreRing, TailNotHeld DEF Tokens
  <2>2. ASSUME NEW t \in Requests PROVE Stays(t)
    BY <1>5, <2>1 DEF Stays
  <2>. QED  BY <1>2, <1>4, <2>1, <2>2, TokensStep
<1>7. CASE retTail # emu.slot
  <2>1. retTail = RetNext(emu.slot) /\ retHead = emu.slot
    BY <1>1, <1>7, EmuSlot DEF Pushing
  <2>2. /\ \A r : InRing(r)' <=> r = emu.got
        /\ RingOnce'
    BY <1>1, <2>1, StoreOne
  <2>3. ASSUME NEW t \in Requests PROVE Stays(t) \/ (Out(t) /\ OnePlace(t)')
    <3>0. ~InHand(t)'  BY <1>1, <1>2, <1>7 DEF InHand
    <3>1. CASE t = "render_crt"
      <4>1. InHand(t)  BY <1>1, <1>3, <3>1 DEF InHand, Puts
      <4>2. OnePlace(t)'  BY <1>5, <3>0, <4>1 DEF OnePlace
      <4>. QED  BY <4>1, <4>2 DEF Out
    <3>2. CASE t # "render_crt"
      <4>1. Answer[t] # emu.got  BY <1>3, <3>2, AnswerValues DEF Requests
      <4>2. ~InRing(Answer[t])'  BY <2>2, <4>1
      <4>. QED  BY <1>5, <3>0, <4>2 DEF Stays
    <3>. QED  BY <3>1, <3>2
  <2>. QED  BY <1>2, <1>4, <2>2, <2>3, TokensStep
<1>. QED  BY <1>6, <1>7

LEMMA TokensPutBackPublish ==
  ASSUME TypeOK, Loop, Tokens, Hand, Race, PutBackPublish
  PROVE  Tokens'
<1>1. /\ emu.at = "publish" /\ retTail' = RetNext(emu.slot)
      /\ EmuAt("lock") \/ EmuAt("pop")
      /\ UNCHANGED <<messageQueue, gs, retArray, retHead>>
      /\ emu \in EmuStates /\ emu.slot \in RetIndex /\ gs.slot \in RetIndex
  BY DEF PutBackPublish, RetPublish, TypeOK, EmuStates, GSStates
<1>2. /\ emu'.at \in {"lock", "pop"} /\ emu'.want = emu.want /\ emu'.phase = emu.phase
  BY <1>1, EmuMoves
<1>3. emu.got = Answer["render_crt"] /\ emu.at \in Pushing
  BY <1>1 DEF Hand, Puts, Pushing
<1>4. QueueOnce'  BY <1>1, QueueSame DEF Tokens
<1>5. ASSUME NEW t \in Requests
      PROVE  InQueue(t)' = InQueue(t) /\ ~Unsent(t)' /\ ~InHand(t)' /\ OnePlace(t)
  BY <1>1, <1>2, QueueSame DEF InHand, Puts, Unsent, Tokens
<1>6. CASE retTail = emu.slot
  <2>1. /\ RetNext(retTail) # retHead
        /\ gs.at \in Pushing => emu.slot \in {gs.slot, RetNext(gs.slot)}
    BY <1>1, <1>3, <1>6, EmuSlot, StepsApart
  <2>2. \A r : InRing(r)' <=> InRing(r) \/ r = retArray[retTail]
    BY <1>1, <1>6, <2>1, PublishRing
  <2>3. gs.at = "publish" => retTail' # gs.slot
    BY <1>1, <1>6, <2>1, StepsApart DEF Pushing
  <2>4. ASSUME NEW t \in Requests
        PROVE  /\ AtGS(t)' => AtGS(t)
               /\ gs.at = "publish" => ~AtGS(t)'
    BY <1>1, <2>3 DEF AtGS
  <2>5. CASE retArray[retTail] = emu.got
    <3>1. ~InRing(emu.got)
      <4>1. InHand("render_crt")  BY <1>1, <1>3, <1>6 DEF InHand, Puts
      <4>. QED  BY <1>3, <1>5, <4>1 DEF OnePlace, Requests
    <3>2. RingOnce'  BY <1>1, <1>6, <2>1, <2>5, <3>1, PublishRing DEF Tokens
    <3>3. ASSUME NEW t \in Requests PROVE Stays(t) \/ (Out(t) /\ OnePlace(t)')
      <4>1. CASE t = "render_crt"
        <5>1. InHand(t)  BY <1>1, <1>3, <1>6, <4>1 DEF InHand, Puts
        <5>2. OnePlace(t)'  BY <1>5, <2>4, <5>1 DEF OnePlace
        <5>. QED  BY <5>1, <5>2 DEF Out
      <4>2. CASE t # "render_crt"
        <5>1. Answer[t] # emu.got  BY <1>3, <4>2, AnswerValues DEF Requests
        <5>2. InRing(Answer[t])' => InRing(Answer[t])  BY <2>2, <2>5, <5>1
        <5>. QED  BY <1>5, <2>4, <5>2 DEF Stays
      <4>. QED  BY <4>1, <4>2
    <3>. QED  BY <1>2, <1>4, <3>2, <3>3, TokensStep
  <2>6. CASE gs.at = "publish" /\ gs.slot = emu.slot /\ retArray[retTail] = gs.ret
    <3>1. ASSUME NEW t \in Requests, gs.ret = Answer[t]
          PROVE  AtGS(t) /\ ~InRing(Answer[t])
      <4>1. AtGS(t)  BY <1>6, <2>6, <3>1 DEF AtGS
      <4>. QED  BY <1>5, <4>1 DEF OnePlace
    <3>2. RingOnce'
      <4>1. CASE gs.ret = Death
        <5>1. \A i, j \in RetIndex :
                RetHolds(i)' /\ RetHolds(j)' /\ retArray[i] \in Answers /\ retArray[j] = retArray[i] => i = j
          <6>1. Death \notin Answers  BY AnswerValues DEF Death
          <6>2. retArray[retTail] \notin Answers  BY <2>6, <4>1, <6>1
          <6>3. \A i \in RetIndex : RetHolds(i)' <=> RetHolds(i) \/ i = retTail
            BY <1>1, <1>6, <2>1, PublishRing
          <6>. QED  BY <6>2, <6>3 DEF Tokens, RingOnce
        <5>. QED  BY <1>1, <5>1 DEF RingOnce
      <4>2. CASE gs.ret # Death
        <5>1. PICK t \in Requests : gs.ret = Answer[t]
          BY <2>6, <4>2 DEF Loop
        <5>. QED  BY <1>1, <1>6, <2>1, <2>6, <3>1, <5>1, PublishRing DEF Tokens
      <4>. QED  BY <4>1, <4>2
    <3>3. ASSUME NEW t \in Requests PROVE Stays(t) \/ (Out(t) /\ OnePlace(t)')
      <4>1. CASE gs.ret = Answer[t]
        <5>1. AtGS(t)  BY <3>1, <4>1
        <5>2. OnePlace(t)'  BY <1>5, <2>4, <2>6, <5>1 DEF OnePlace
        <5>. QED  BY <5>1, <5>2 DEF Out
      <4>2. CASE gs.ret # Answer[t]
        <5>1. InRing(Answer[t])' => InRing(Answer[t])  BY <2>2, <2>6, <4>2
        <5>. QED  BY <1>5, <2>4, <5>1 DEF Stays
      <4>. QED  BY <4>1, <4>2
    <3>. QED  BY <1>2, <1>4, <3>2, <3>3, TokensStep
  <2>. QED  BY <1>1, <1>6, <2>5, <2>6 DEF Hand, Puts
<1>7. CASE retTail # emu.slot
  <2>1. retTail = RetNext(emu.slot)  BY <1>1, <1>3, <1>7, EmuSlot
  <2>2. UNCHANGED returnQueue  BY <1>1, <2>1 DEF returnQueue
  <2>3. ASSUME NEW t \in Requests PROVE Stays(t)
    BY <1>1, <1>5, <2>2, RingSame, GSSame DEF Stays, returnQueue
  <2>. QED  BY <1>2, <1>4, <2>2, <2>3, RingSame, TokensStep DEF Tokens
<1>. QED  BY <1>6, <1>7

-----------------------------------------------------------------------------
(* Requests and answers at the GS thread                                   *)

LEMMA TokensGSPop ==
  ASSUME TypeOK, Loop, Tokens, GSPop
  PROVE  Tokens'
<1>1. /\ gs.at = "pop" /\ messageQueue # <<>> /\ messageQueue' = Tail(messageQueue)
      /\ UNCHANGED <<returnQueue, emu>> /\ messageQueue \in Seq(Messages) /\ gs \in GSStates
  BY DEF GSPop, TypeOK
<1>. DEFINE m == Head(messageQueue)
<1>2. /\ m = messageQueue[1] /\ 1 \in DOMAIN messageQueue
      /\ \A i \in DOMAIN messageQueue' :
           i + 1 \in DOMAIN messageQueue /\ messageQueue'[i] = messageQueue[i + 1]
      /\ DOMAIN messageQueue' \subseteq Nat \ {0}
  <2>1. DOMAIN messageQueue' \subseteq Nat \ {0}
    <3>1. messageQueue' \in Seq(Messages)  BY <1>1, HeadAndTail
    <3>. QED  BY <3>1
  <2>. QED  BY <1>1, <2>1, HeadAndTail
<1>3. QueueOnce'
  BY <1>2 DEF Tokens, QueueOnce
<1>4. ASSUME NEW t \in Requests PROVE InQueue(t)' => InQueue(t) /\ m.type # t
  <2>1. QueueOnce  BY DEF Tokens
  <2>2. ASSUME NEW i \in DOMAIN messageQueue', messageQueue'[i].type = t
        PROVE  InQueue(t) /\ m.type # t
    <3>1. i + 1 \in DOMAIN messageQueue /\ messageQueue[i + 1].type = t /\ i + 1 # 1
      BY <1>2, <2>2
    <3>2. m.type # t  BY <1>2, <2>1, <3>1 DEF QueueOnce
    <3>. QED  BY <3>1, <3>2 DEF InQueue
  <2>. QED  BY <2>2 DEF InQueue
<1>5. RingOnce' /\ \A r : InRing(r)' = InRing(r)  BY <1>1, RingSame DEF Tokens
<1>6. ASSUME NEW t \in Requests
      PROVE  Unsent(t)' = Unsent(t) /\ InHand(t)' = InHand(t) /\ OnePlace(t)
  BY <1>1 DEF Unsent, InHand, returnQueue, Tokens
<1>7. ASSUME NEW t \in Requests, AtGS(t)' => m.type = t \/ AtGS(t)
      PROVE  Stays(t) \/ (Out(t) /\ OnePlace(t)')
  <2>1. CASE m.type = t
    <3>1. InQueue(t) /\ ~InQueue(t)'  BY <1>2, <1>4, <2>1 DEF InQueue
    <3>2. OnePlace(t)'  BY <1>5, <1>6, <3>1 DEF OnePlace
    <3>. QED  BY <3>1, <3>2 DEF Out
  <2>2. CASE m.type # t
    BY <1>4, <1>5, <1>6, <1>7, <2>2 DEF Stays
  <2>. QED  BY <2>1, <2>2
<1>8. ASSUME NEW t \in Requests PROVE AtGS(t)' => m.type = t \/ AtGS(t)
  <2>1. CASE UNCHANGED gs  BY <1>1, <2>1, GSSame DEF returnQueue
  <2>2. CASE gs' = [gs EXCEPT !.at = "push", !.ret = "death_error"]
    <3>1. gs'.at = "push" /\ gs'.ret = Death  BY <1>1, <2>2 DEF GSStates, Death
    <3>. QED  BY <3>1, AnswerValues DEF AtGS
  <2>3. CASE gs' = [gs EXCEPT !.at = "spin", !.msg = m]
    <3>1. gs'.at = "spin" /\ gs'.msg = m  BY <1>1, <2>3 DEF GSStates
    <3>. QED  BY <3>1 DEF AtGS
  <2>4. CASE /\ m.type \in {"save_state", "load_state"}
             /\ gs' = [gs EXCEPT !.at = "push", !.msg = m, !.ret = Answer[m.type]]
    <3>1. gs'.at = "push" /\ gs'.ret = Answer[m.type]  BY <1>1, <2>4 DEF GSStates
    <3>2. m.type \in Requests  BY <2>4 DEF Requests
    <3>. HIDE DEF m
    <3>. QED  BY <3>1, <3>2, AnswerValues DEF AtGS
  <2>5. CASE GSAt("ended")
    <3>1. gs'.at = "ended"  BY <1>1, <2>5, GSMoves
    <3>. QED  BY <3>1 DEF AtGS
  <2>. QED  BY <2>1, <2>2, <2>3, <2>4, <2>5 DEF GSPop
<1>9. \A t \in Requests : Stays(t) \/ (Out(t) /\ OnePlace(t)')
  BY <1>7, <1>8
<1>. QED  BY <1>1, <1>3, <1>5, <1>9, TokensStep

(* The GS thread moves on with the request it has.                         *)
LEMMA TokensGSMoves ==
  ASSUME Tokens, \A t \in Requests : AtGS(t)' => AtGS(t),
         UNCHANGED <<messageQueue, returnQueue, emu>>
  PROVE  Tokens'
<1>1. ASSUME NEW t \in Requests PROVE Stays(t)
  <2>1. InRing(Answer[t])' = InRing(Answer[t]) /\ InQueue(t)' = InQueue(t)
    BY QueueSame, RingSame
  <2>2. InHand(t)' = InHand(t) /\ Unsent(t)' = Unsent(t)
    BY DEF InHand, Unsent, returnQueue
  <2>. QED  BY <2>1, <2>2 DEF Stays
<1>2. QueueOnce' /\ RingOnce'  BY QueueSame, RingSame DEF Tokens
<1>. QED  BY <1>1, <1>2, TokensStep

LEMMA TokensGSDraw ==
  ASSUME TypeOK, Loop, Tokens, GSSpin \/ GSDraw \/ GSPush
  PROVE  Tokens'
<1>1. gs \in GSStates /\ UNCHANGED <<messageQueue, returnQueue, emu>>
  BY DEF TypeOK, GSSpin, GSDraw, GSPush, GSOnly
<1>2. ASSUME NEW t \in Requests PROVE AtGS(t)' => AtGS(t)
  <2>1. CASE GSSpin
    <3>1. gs.at = "spin" /\ gs'.at = "draw" /\ gs'.msg = gs.msg
      BY <1>1, <2>1, GSMoves DEF GSSpin
    <3>. QED  BY <3>1 DEF AtGS
  <2>2. CASE GSDraw
    <3>1. gs.at = "draw" /\ gs'.at = "push" /\ gs'.ret = Answer[gs.msg.type]
      BY <1>1, <2>2 DEF GSDraw, GSStates
    <3>2. gs.msg.type \in Requests  BY <3>1 DEF Loop, Requests
    <3>. QED  BY <3>1, <3>2, AnswerValues DEF AtGS
  <2>3. CASE GSPush
    <3>1. gs.at = "push" /\ gs'.at = "store" /\ gs'.ret = gs.ret
      BY <1>1, <2>3 DEF GSPush, GSStates
    <3>. QED  BY <3>1 DEF AtGS
  <2>. QED  BY <2>1, <2>2, <2>3
<1>. QED  BY <1>1, <1>2, TokensGSMoves

LEMMA TokensGSStore ==
  ASSUME TypeOK, Loop, Tokens, Hand, Race, GSStore
  PROVE  Tokens'
<1>1. /\ gs.at = "store" /\ RetStore(gs.slot, gs.ret) /\ GSAt("publish")
      /\ UNCHANGED <<messageQueue, emu, retTail, retHead>>
      /\ gs \in GSStates /\ gs.slot \in RetIndex
  BY DEF GSStore, TypeOK, GSStates, RetStore
<1>2. gs'.at = "publish" /\ gs'.ret = gs.ret /\ gs'.slot = gs.slot
  BY <1>1, GSMoves
<1>3. QueueOnce'  BY <1>1, QueueSame DEF Tokens
<1>4. ASSUME NEW t \in Requests
      PROVE  /\ AtGS(t)' => AtGS(t) /\ retTail = gs.slot
             /\ InQueue(t)' = InQueue(t) /\ Unsent(t)' = Unsent(t)
             /\ InHand(t)' = InHand(t) /\ OnePlace(t)
  BY <1>1, <1>2, QueueSame DEF InHand, Unsent, Tokens, AtGS
<1>5. CASE ~RetHolds(gs.slot)
  <2>1. /\ \A r : InRing(r)' = InRing(r)
        /\ RingOnce'
    BY <1>1, <1>5, StoreRing DEF Tokens
  <2>2. ASSUME NEW t \in Requests PROVE Stays(t)
    BY <1>4, <2>1 DEF Stays
  <2>. QED  BY <1>1, <1>3, <2>1, <2>2, TokensStep
<1>6. CASE Shared
  <2>1. retTail = RetNext(gs.slot) /\ retHead = gs.slot /\ retTail # gs.slot
    BY <1>1, <1>6, StepsApart DEF Shared
  <2>2. /\ \A r : InRing(r)' <=> r = gs.ret
        /\ RingOnce'
    BY <1>1, <2>1, StoreOne
  <2>3. ASSUME NEW t \in Requests PROVE Stays(t) \/ (Out(t) /\ OnePlace(t)')
    <3>1. CASE gs.ret = Answer[t]
      <4>1. AtGS(t)  BY <1>1, <3>1 DEF AtGS
      <4>2. OnePlace(t)'  BY <1>4, <2>1, <4>1 DEF OnePlace
      <4>. QED  BY <4>1, <4>2 DEF Out
    <3>2. CASE gs.ret # Answer[t]
      <4>1. ~InRing(Answer[t])'  BY <2>2, <3>2
      <4>. QED  BY <1>4, <4>1 DEF Stays
    <3>. QED  BY <3>1, <3>2
  <2>. QED  BY <1>1, <1>3, <2>2, <2>3, TokensStep
<1>7. InTurn \/ Shared \/ Again \/ Passed
  BY <1>1 DEF Race, Pushing, Taken
<1>8. ASSUME InTurn \/ Again \/ Passed PROVE ~RetHolds(gs.slot)
  <2>1. CASE InTurn  BY <2>1, TailNotHeld DEF InTurn
  <2>2. CASE Again
    BY <1>1, <2>2, NoneWithin, HoldsWithin, Steps DEF Again
  <2>3. CASE Passed
    <3>1. RetNext(gs.slot) # gs.slot /\ RetNext(gs.slot) \in RetIndex
      BY <1>1, StepsApart, Steps
    <3>. QED  BY <1>1, <2>3, <3>1, OneWithin, HoldsWithin DEF Passed
  <2>. QED  BY <1>8, <2>1, <2>2, <2>3
<1>. QED  BY <1>5, <1>6, <1>7, <1>8

LEMMA TokensGSPublish ==
  ASSUME TypeOK, Loop, Tokens, Hand, Race, GSPublish
  PROVE  Tokens'
<1>1. /\ gs.at = "publish" /\ retTail' = RetNext(gs.slot)
      /\ GSAt("set") \/ GSAt("signal")
      /\ UNCHANGED <<messageQueue, emu, retArray, retHead>>
      /\ gs \in GSStates /\ gs.slot \in RetIndex
  BY DEF GSPublish, RetPublish, TypeOK, GSStates
<1>2. gs'.at \in {"set", "signal"}  BY <1>1, GSMoves
<1>3. QueueOnce'  BY <1>1, QueueSame DEF Tokens
<1>4. ASSUME NEW t \in Requests
      PROVE  ~AtGS(t)' /\ InQueue(t)' = InQueue(t) /\ Unsent(t)' = Unsent(t) /\ OnePlace(t)
  BY <1>1, <1>2, QueueSame DEF Unsent, Tokens, AtGS
<1>5. CASE InTurn
  <2>1. retTail = gs.slot /\ RetNext(retTail) # retHead /\ retTail' = RetNext(retTail)
    BY <1>1, <1>5 DEF InTurn
  <2>2. \A r : InRing(r)' <=> InRing(r) \/ r = retArray[retTail]
    BY <1>1, <2>1, PublishRing
  <2>3. emu.at = "publish" => emu.slot = retTail /\ retTail' # emu.slot /\ emu.got = Answer["render_crt"]
    BY <1>1, <1>5, <2>1, StepsApart DEF InTurn, Pushing, Hand, Puts
  <2>4. ASSUME NEW t \in Requests
        PROVE  /\ InHand(t)' => InHand(t)
               /\ emu.at = "publish" => ~InHand(t)'
    BY <1>1, <2>3 DEF InHand
  <2>5. CASE retArray[retTail] = gs.ret
    <3>1. ASSUME NEW t \in Requests, gs.ret = Answer[t]
          PROVE  AtGS(t) /\ ~InRing(Answer[t])
      <4>1. AtGS(t)  BY <1>1, <2>1, <3>1 DEF AtGS
      <4>. QED  BY <1>4, <4>1 DEF OnePlace
    <3>2. RingOnce'
      <4>1. CASE gs.ret = Death
        <5>1. retArray[retTail] \notin Answers
          <6>1. Death \notin Answers  BY AnswerValues DEF Death
          <6>. QED  BY <2>5, <4>1, <6>1
        <5>2. \A i \in RetIndex : RetHolds(i)' <=> RetHolds(i) \/ i = retTail
          BY <1>1, <2>1, PublishRing
        <5>3. \A i, j \in RetIndex :
                RetHolds(i)' /\ RetHolds(j)' /\ retArray[i] \in Answers /\ retArray[j] = retArray[i] => i = j
          BY <5>1, <5>2 DEF Tokens, RingOnce
        <5>. QED  BY <1>1, <5>3 DEF RingOnce
      <4>2. CASE gs.ret # Death
        <5>1. PICK t \in Requests : gs.ret = Answer[t]
          BY <1>1, <4>2 DEF Loop
        <5>. QED  BY <1>1, <2>1, <2>5, <3>1, <5>1, PublishRing DEF Tokens
      <4>. QED  BY <4>1, <4>2
    <3>3. ASSUME NEW t \in Requests PROVE Stays(t) \/ (Out(t) /\ OnePlace(t)')
      <4>1. CASE gs.ret = Answer[t]
        <5>1. AtGS(t)  BY <3>1, <4>1
        <5>2. OnePlace(t)'  BY <1>4, <2>4, <5>1 DEF OnePlace
        <5>. QED  BY <5>1, <5>2 DEF Out
      <4>2. CASE gs.ret # Answer[t]
        <5>1. InRing(Answer[t])' => InRing(Answer[t])  BY <2>2, <2>5, <4>2
        <5>. QED  BY <1>4, <2>4, <5>1 DEF Stays
      <4>. QED  BY <4>1, <4>2
    <3>. QED  BY <1>1, <1>3, <3>2, <3>3, TokensStep
  <2>6. CASE emu.at = "publish" /\ retArray[retTail] = emu.got
    <3>1. InHand("render_crt")  BY <2>3, <2>6 DEF InHand, Puts
    <3>2. ~InRing(Answer["render_crt"])
      <4>1. OnePlace("render_crt")  BY <1>4 DEF Requests
      <4>. QED  BY <3>1, <4>1 DEF OnePlace
    <3>3. RingOnce'  BY <1>1, <2>1, <2>3, <2>6, <3>2, PublishRing DEF Tokens
    <3>4. ASSUME NEW t \in Requests PROVE Stays(t) \/ (Out(t) /\ OnePlace(t)')
      <4>1. CASE t = "render_crt"
        <5>1. OnePlace(t)'  BY <1>4, <2>4, <2>6, <3>1, <4>1 DEF OnePlace
        <5>. QED  BY <3>1, <4>1, <5>1 DEF Out
      <4>2. CASE t # "render_crt"
        <5>1. Answer[t] # emu.got  BY <2>3, <2>6, <4>2, AnswerValues DEF Requests
        <5>2. InRing(Answer[t])' => InRing(Answer[t])  BY <2>2, <2>6, <5>1
        <5>. QED  BY <1>4, <2>4, <5>2 DEF Stays
      <4>. QED  BY <4>1, <4>2
    <3>. QED  BY <1>1, <1>3, <3>3, <3>4, TokensStep
  <2>. QED  BY <1>1, <1>5, <2>1, <2>5, <2>6 DEF InTurn
<1>6. CASE Shared \/ Again \/ Taken
  <2>1. UNCHANGED returnQueue
    BY <1>1, <1>6 DEF Shared, Again, Taken, returnQueue
  <2>2. ASSUME NEW t \in Requests PROVE Stays(t)
    BY <1>1, <1>4, <2>1, RingSame DEF Stays, InHand, returnQueue
  <2>. QED  BY <1>1, <1>3, <2>1, <2>2, RingSame, TokensStep DEF Tokens
<1>7. CASE Passed
  <2>1. retHead' = retTail' /\ retTail' \in RetIndex /\ emu.at \notin Puts
    BY <1>1, <1>7, Steps DEF Passed, Puts, Sleeps
  <2>2. RingOnce' /\ \A r : ~InRing(r)'
    BY <2>1, NoneWithin DEF RingOnce, InRing, RetHolds, Within
  <2>3. ASSUME NEW t \in Requests PROVE Stays(t)
    BY <1>1, <1>4, <2>1, <2>2 DEF Stays, InHand
  <2>. QED  BY <1>1, <1>3, <2>2, <2>3, TokensStep
<1>. QED  BY <1>1, <1>5, <1>6, <1>7 DEF Race, Pushing

-----------------------------------------------------------------------------
(* Returned and Last                                                       *)

LEMMA ReturnedSame ==
  ASSUME Returned, UNCHANGED <<returnQueue, gs>>
  PROVE  Returned'
BY DEF Returned, InRing, RetHolds, returnQueue

LEMMA ReturnedPop ==
  ASSUME TypeOK, Returned, ReturnPop
  PROVE  Returned'
<1>1. /\ retHead # retTail /\ retHead' = RetNext(retHead)
      /\ UNCHANGED <<retTail, retArray, gs>>
  BY DEF ReturnPop, RetEmpty
<1>2. /\ \A i \in RetIndex : RetHolds(i)' => RetHolds(i)
      /\ InRing(Death)' => InRing(Death)
  BY <1>1, PopRing
<1>. QED  BY <1>1, <1>2 DEF Returned

LEMMA ReturnedPutBackStore ==
  ASSUME TypeOK, Hand, Race, Returned, PutBackStore
  PROVE  Returned'
<1>1. /\ emu.at = "store" /\ RetStore(emu.slot, emu.got)
      /\ UNCHANGED <<gs, retTail, retHead>> /\ emu.slot \in RetIndex
  BY DEF PutBackStore, TypeOK, EmuStates, RetStore
<1>2. emu.got = Answer["render_crt"] /\ emu.at \in Pushing
  BY <1>1 DEF Hand, Puts, Pushing
<1>3. CASE retTail = emu.slot
  <2>1. ~RetHolds(emu.slot)  BY <1>3, TailNotHeld
  <2>2. /\ \A i \in RetIndex : RetHolds(i)' = RetHolds(i)
        /\ \A i \in RetIndex : RetHolds(i) => retArray'[i] = retArray[i]
        /\ InRing(Death)' = InRing(Death)
    BY <1>1, <2>1, StoreRing
  <2>. QED  BY <1>1, <2>2 DEF Returned
<1>4. CASE retTail # emu.slot
  <2>1. retTail = RetNext(emu.slot) /\ retHead = emu.slot
    BY <1>2, <1>4, EmuSlot
  <2>2. /\ \A i \in RetIndex : RetHolds(i)' => i = emu.slot
        /\ retArray'[emu.slot] = emu.got
        /\ InRing(Death)' => Death = emu.got
    BY <1>1, <2>1, StoreOne
  <2>3. emu.got \in ReturnTypes /\ emu.got # Death
    BY <1>2, AnswerValues DEF ReturnTypes, Requests
  <2>. QED  BY <2>2, <2>3 DEF Returned
<1>. QED  BY <1>3, <1>4

LEMMA ReturnedPutBackPublish ==
  ASSUME TypeOK, Loop, Hand, Race, Returned, PutBackPublish
  PROVE  Returned'
<1>1. /\ emu.at = "publish" /\ retTail' = RetNext(emu.slot)
      /\ UNCHANGED <<gs, retArray, retHead>>
      /\ emu.slot \in RetIndex /\ gs.slot \in RetIndex
  BY DEF PutBackPublish, RetPublish, TypeOK, EmuStates, GSStates
<1>2. emu.got = Answer["render_crt"] /\ emu.at \in Pushing
  BY <1>1 DEF Hand, Puts, Pushing
<1>3. CASE retTail = emu.slot
  <2>1. /\ RetNext(retTail) # retHead
        /\ gs.at \in Pushing => emu.slot \in {gs.slot, RetNext(gs.slot)}
    BY <1>1, <1>2, <1>3, EmuSlot, StepsApart
  <2>2. /\ \A i \in RetIndex : RetHolds(i)' <=> RetHolds(i) \/ i = retTail
        /\ InRing(Death)' <=> InRing(Death) \/ Death = retArray[retTail]
    BY <1>1, <1>3, <2>1, PublishRing
  <2>3. gs.at = "publish" => retTail' # gs.slot
    BY <1>1, <1>3, <2>1, StepsApart DEF Pushing
  <2>4. emu.got \in ReturnTypes /\ emu.got # Death
    BY <1>2, AnswerValues DEF ReturnTypes, Requests
  <2>5. \/ retArray[retTail] = emu.got
        \/ gs.at = "publish" /\ retArray[retTail] = gs.ret
    BY <1>1, <1>3 DEF Hand, Puts
  <2>6. gs.at = "publish" => gs.ret \in ReturnTypes
    BY AnswerValues DEF Loop, ReturnTypes, Death
  <2>7. \A i \in RetIndex : RetHolds(i)' => retArray'[i] \in ReturnTypes
    BY <1>1, <2>2, <2>4, <2>5, <2>6 DEF Returned
  <2>8. CASE InRing(Death)
    BY <1>1, <2>3, <2>7, <2>8 DEF Returned
  <2>9. CASE ~InRing(Death)
    <3>1. InRing(Death)' => gs.at = "publish" /\ gs.ret = Death
      BY <2>2, <2>4, <2>5, <2>9
    <3>. QED  BY <1>1, <2>3, <2>7, <3>1 DEF Returned
  <2>. QED  BY <2>8, <2>9
<1>4. CASE retTail # emu.slot
  <2>1. retTail = RetNext(emu.slot)  BY <1>1, <1>2, <1>4, EmuSlot
  <2>. QED  BY <1>1, <2>1, ReturnedSame DEF returnQueue
<1>. QED  BY <1>3, <1>4

(* The GS thread has not died, or goes on dying.                           *)
LEMMA ReturnedGSMoves ==
  ASSUME Returned, UNCHANGED returnQueue,
         \/ gs.at \notin {"ended", "set", "notify", "publish"}
         \/ gs.at = "set" /\ gs'.at = "notify" /\ gs'.ret = gs.ret
         \/ gs.at = "notify" /\ gs.ret # Death
         \/ gs.at = "notify" /\ gs'.at = "ended"
  PROVE  Returned'
<1>1. /\ \A i \in RetIndex : RetHolds(i)' = RetHolds(i)
      /\ InRing(Death)' = InRing(Death)
  BY RingSame
<1>2. UNCHANGED retArray  BY DEF returnQueue
<1>3. InRing(Death) =>
        \/ gs'.at = "ended"
        \/ gs'.at \in {"set", "notify"} /\ gs'.ret = Death
  BY DEF Returned
<1>. QED  BY <1>1, <1>2, <1>3 DEF Returned

LEMMA ReturnedGSStore ==
  ASSUME TypeOK, Loop, Race, Returned, GSStore
  PROVE  Returned'
<1>1. /\ gs.at = "store" /\ RetStore(gs.slot, gs.ret) /\ GSAt("publish")
      /\ UNCHANGED <<retTail, retHead>>
      /\ gs \in GSStates /\ gs.slot \in RetIndex
  BY DEF GSStore, TypeOK, GSStates, RetStore
<1>2. gs'.at = "publish" /\ gs'.ret = gs.ret /\ gs'.slot = gs.slot
  BY <1>1, GSMoves
<1>3. ~InRing(Death)  BY <1>1 DEF Returned
<1>4. gs.ret \in ReturnTypes
  BY <1>1, AnswerValues DEF Loop, ReturnTypes, Death
<1>5. CASE ~RetHolds(gs.slot)
  <2>1. /\ \A i \in RetIndex : RetHolds(i)' = RetHolds(i)
        /\ \A i \in RetIndex : RetHolds(i) => retArray'[i] = retArray[i]
        /\ InRing(Death)' = InRing(Death)
    BY <1>1, <1>5, StoreRing
  <2>. QED  BY <1>3, <2>1 DEF Returned
<1>6. CASE Shared
  <2>1. retTail = RetNext(gs.slot) /\ retHead = gs.slot /\ retTail # gs.slot
    BY <1>1, <1>6, StepsApart DEF Shared
  <2>2. /\ \A i \in RetIndex : RetHolds(i)' => i = gs.slot
        /\ retArray'[gs.slot] = gs.ret
        /\ InRing(Death)' => Death = gs.ret
    BY <1>1, <2>1, StoreOne
  <2>. QED  BY <1>1, <1>2, <1>4, <2>1, <2>2 DEF Returned
<1>7. InTurn \/ Shared \/ Again \/ Passed
  BY <1>1 DEF Race, Pushing, Taken
<1>8. ASSUME InTurn \/ Again \/ Passed PROVE ~RetHolds(gs.slot)
  <2>1. CASE InTurn  BY <2>1, TailNotHeld DEF InTurn
  <2>2. CASE Again
    BY <1>1, <2>2, NoneWithin, HoldsWithin, Steps DEF Again
  <2>3. CASE Passed
    <3>1. RetNext(gs.slot) # gs.slot /\ RetNext(gs.slot) \in RetIndex
      BY <1>1, StepsApart, Steps
    <3>. QED  BY <1>1, <2>3, <3>1, OneWithin, HoldsWithin DEF Passed
  <2>. QED  BY <1>8, <2>1, <2>2, <2>3
<1>. QED  BY <1>5, <1>6, <1>7, <1>8

LEMMA ReturnedGSPublish ==
  ASSUME TypeOK, Loop, Hand, Race, Returned, GSPublish
  PROVE  Returned'
<1>1. /\ gs.at = "publish" /\ retTail' = RetNext(gs.slot)
      /\ GSAt(IF gs.ret \in {"save_state_done", "death_error"} THEN "set" ELSE "signal")
      /\ UNCHANGED <<emu, retArray, retHead>>
      /\ gs \in GSStates /\ gs.slot \in RetIndex
  BY DEF GSPublish, RetPublish, TypeOK, GSStates
<1>2. gs'.ret = gs.ret /\ (gs.ret = Death => gs'.at = "set")
  BY <1>1, GSMoves DEF Death
<1>3. gs.ret \in ReturnTypes
  BY <1>1, AnswerValues DEF Loop, ReturnTypes, Death
<1>4. CASE InTurn
  <2>1. retTail = gs.slot /\ RetNext(retTail) # retHead /\ retTail' = RetNext(retTail)
    BY <1>1, <1>4 DEF InTurn
  <2>2. /\ \A i \in RetIndex : RetHolds(i)' <=> RetHolds(i) \/ i = retTail
        /\ InRing(Death)' <=> InRing(Death) \/ Death = retArray[retTail]
    BY <1>1, <2>1, PublishRing
  <2>3. \/ retArray[retTail] = gs.ret
        \/ retArray[retTail] = Answer["render_crt"]
    BY <1>1, <1>4, <2>1 DEF InTurn, Hand, Puts
  <2>4. Answer["render_crt"] \in ReturnTypes /\ Answer["render_crt"] # Death
    BY AnswerValues DEF ReturnTypes, Requests
  <2>5. \A i \in RetIndex : RetHolds(i)' => retArray'[i] \in ReturnTypes
    BY <1>1, <1>3, <2>2, <2>3, <2>4 DEF Returned
  <2>6. ~InRing(Death)  BY <1>1, <2>1 DEF Returned
  <2>7. InRing(Death)' => gs.ret = Death  BY <2>2, <2>3, <2>4, <2>6
  <2>. QED  BY <1>2, <2>5, <2>7 DEF Returned
<1>5. CASE Shared \/ Again \/ Taken
  <2>1. UNCHANGED returnQueue
    BY <1>1, <1>5 DEF Shared, Again, Taken, returnQueue
  <2>2. InRing(Death)' => gs.ret = Death
    BY <1>1, <2>1, RingSame DEF Returned
  <2>3. \A i \in RetIndex : RetHolds(i)' => retArray'[i] \in ReturnTypes
    BY <1>1, <2>1, RingSame DEF Returned
  <2>. QED  BY <1>2, <2>2, <2>3 DEF Returned
<1>6. CASE Passed
  <2>1. retHead' = retTail' /\ retTail' \in RetIndex
    BY <1>1, <1>6, Steps DEF Passed
  <2>. QED  BY <2>1, NoneWithin DEF Returned, InRing, RetHolds, Within
<1>. QED  BY <1>1, <1>4, <1>5, <1>6 DEF Race, Pushing

LEMMA LastEmuMoves ==
  ASSUME Last, UNCHANGED <<messageQueue, gs>>,
         \/ emu'.at \notin Waiting \cup {"flag", "wake"}
         \/ emu'.want = Answer["render_crt"]
         \/ emu.at \in Waiting \cup {"flag", "wake"} /\ emu'.want = emu.want
  PROVE  Last'
<1>1. CASE emu'.at \notin Waiting \cup {"flag", "wake"}
  BY <1>1 DEF Last
<1>2. CASE emu'.want = Answer["render_crt"]
  <2>1. \A t \in Requests \ {"render_crt"} : emu'.want # Answer[t]
    BY <1>2, AnswerValues DEF Requests
  <2>. QED  BY <2>1 DEF Last
<1>3. CASE emu.at \in Waiting \cup {"flag", "wake"} /\ emu'.want = emu.want
  BY <1>3 DEF Last
<1>. QED  BY <1>1, <1>2, <1>3

LEMMA LastSendPush ==
  ASSUME TypeOK, Calls, SendPush
  PROVE  Last'
<1>1. /\ emu.at = "push" /\ messageQueue' = Append(messageQueue, emu.msg)
      /\ EmuAt("flag") /\ messageQueue \in Seq(Messages) /\ emu.msg \in Messages
      /\ emu \in EmuStates
  BY DEF SendPush, TypeOK, EmuStates
<1>2. emu'.want = emu.want  BY <1>1, EmuMoves
<1>3. messageQueue' # <<>> /\ messageQueue'[Len(messageQueue')] = emu.msg
  <2>1. Len(messageQueue') = Len(messageQueue) + 1 /\ Len(messageQueue) \in Nat
    BY <1>1, Appending
  <2>2. messageQueue' # <<>>  BY <2>1
  <2>. QED  BY <1>1, <2>1, <2>2, Appending
<1>4. ASSUME NEW t \in Requests \ {"render_crt"}, emu.want = Answer[t]
      PROVE  emu.msg.type = t
  <2>1. Answer[t] # None  BY AnswerValues DEF None, Requests
  <2>2. emu.phase # "dead"  BY <1>4, <2>1 DEF Calls
  <2>3. emu.want = Answer[emu.msg.type] /\ emu.msg.type \in Requests
    BY <1>1, <1>4, <2>1, <2>2 DEF Calls, MaySend, Sending, Requests
  <2>. QED  BY <1>4, <2>3, AnswerValues
<1>. QED  BY <1>2, <1>3, <1>4 DEF Last

LEMMA LastGSPop ==
  ASSUME TypeOK, Last, GSPop
  PROVE  Last'
<1>1. /\ gs.at = "pop" /\ messageQueue # <<>> /\ messageQueue' = Tail(messageQueue)
      /\ UNCHANGED emu /\ messageQueue \in Seq(Messages) /\ gs \in GSStates
  BY DEF GSPop, TypeOK
<1>2. /\ Head(messageQueue) = messageQueue[1] /\ Len(messageQueue) \in Nat \ {0}
      /\ Len(messageQueue') = Len(messageQueue) - 1
      /\ messageQueue' \in Seq(Messages)
  <2>1. Len(messageQueue) \in Nat \ {0}  BY <1>1
  <2>. QED  BY <1>1, <2>1, HeadAndTail
<1>3. ASSUME messageQueue' # <<>>
      PROVE  messageQueue'[Len(messageQueue')] = messageQueue[Len(messageQueue)]
  <2>1. Len(messageQueue') \in DOMAIN messageQueue'  BY <1>2, <1>3
  <2>2. messageQueue'[Len(messageQueue')] = messageQueue[Len(messageQueue') + 1]
    BY <1>1, <2>1, HeadAndTail
  <2>. QED  BY <1>2, <2>2
<1>4. gs'.at \in {"push", "store", "publish"} /\ gs'.ret = Death =>
        Head(messageQueue).type = "write"
  <2>. DEFINE m == Head(messageQueue)
  <2>2. CASE UNCHANGED gs  BY <1>1, <2>2
  <2>3. CASE m.type = "write"  BY <2>3
  <2>4. CASE gs' = [gs EXCEPT !.at = "spin", !.msg = m]
    <3>1. gs'.at = "spin"  BY <1>1, <2>4 DEF GSStates
    <3>. QED  BY <3>1
  <2>5. CASE /\ m.type \in {"save_state", "load_state"}
             /\ gs' = [gs EXCEPT !.at = "push", !.msg = m, !.ret = Answer[m.type]]
    <3>1. gs'.ret = Answer[m.type]  BY <1>1, <2>5 DEF GSStates
    <3>. QED  BY <2>5, <3>1, AnswerValues DEF Requests
  <2>6. CASE GSAt("ended")
    <3>1. gs'.at = "ended"  BY <1>1, <2>6, GSMoves
    <3>. QED  BY <3>1
  <2>. QED  BY <2>2, <2>3, <2>4, <2>5, <2>6 DEF GSPop
<1>5. ASSUME NEW t \in Requests, messageQueue[Len(messageQueue)].type = t,
             Head(messageQueue).type = "write"
      PROVE  messageQueue' # <<>>
  <2>1. t # "write"  BY DEF Requests
  <2>2. Len(messageQueue) # 1  BY <1>2, <1>5, <2>1
  <2>3. Len(messageQueue') # 0  BY <1>2, <2>2
  <2>. QED  BY <2>3
<1>. QED  BY <1>1, <1>3, <1>4, <1>5 DEF Last

LEMMA LastGSMoves ==
  ASSUME Last, UNCHANGED <<messageQueue, emu>>,
         \/ gs'.at \notin {"push", "store", "publish"}
         \/ gs'.ret # Death
         \/ gs.at \in {"push", "store", "publish"} /\ gs'.ret = gs.ret
  PROVE  Last'
BY DEF Last

-----------------------------------------------------------------------------
(* Hand and Race                                                           *)

(* The emulation thread moves on, with nothing in hand.                    *)
LEMMA RaceEmuMoves ==
  ASSUME Race, UNCHANGED <<returnQueue, gs>>, emu'.at \notin Puts,
         emu.at # "publish",
         gs.at \in Pushing =>
           \/ InTurn
           \/ /\ emu'.want = emu.want /\ emu'.phase = emu.phase
              /\ \/ ~(Again \/ Taken)
              /\ emu'.at \in {"pop"} \cup Sleeps
              /\ emu'.at \in {"pop", "clear"} => Shared
              /\ emu'.at = "pop" => recieveData' = FALSE
              /\ Passed => recieveData' = FALSE
  PROVE  Hand' /\ Race'
<1>1. Hand'  BY DEF Hand
<1>2. UNCHANGED <<retTail, retHead, retArray>>  BY DEF returnQueue
<1>3. ASSUME gs.at \in Pushing, InTurn PROVE InTurn'
  BY <1>2, <1>3 DEF InTurn, Pushing, Puts
<1>4. ASSUME gs.at \in Pushing, ~InTurn PROVE Race'
  <2>1. Shared \/ Passed  BY <1>4 DEF Race
  <2>2. CASE Shared
    <3>1. Shared'  BY <1>2, <1>4, <2>2 DEF Shared
    <3>. QED  BY <1>4, <2>1, <3>1 DEF Race
  <2>3. CASE ~Shared /\ Passed
    <3>1. Passed'  BY <1>2, <1>4, <2>3 DEF Passed, Sleeps
    <3>. QED  BY <1>4, <2>1, <3>1 DEF Race
  <2>. QED  BY <2>1, <2>2, <2>3
<1>. QED  BY <1>1, <1>3, <1>4 DEF Race

(* Outside wait_for_return the GS thread pushes in its turn.               *)
LEMMA TurnOutside ==
  ASSUME Race, gs.at \in Pushing, emu.at \notin Waiting \cup {"buffer"}
  PROVE  InTurn
BY DEF Race, Shared, Again, Taken, Passed, Waiting, Puts, Sleeps

LEMMA RaceOutside ==
  ASSUME Race, UNCHANGED <<returnQueue, gs>>,
         emu.at \notin Waiting \cup {"buffer"}, emu'.at \notin Puts
  PROVE  Hand' /\ Race'
BY TurnOutside, RaceEmuMoves DEF Waiting, Puts

(* What is held when wait_for_return finds the picture's answer and the    *)
(* GS thread still has something to push.                                  *)
LEMMA OnlyPicture ==
  ASSUME TypeOK, Calls, Loop, Tokens, Returned, Last,
         emu.at = "pop", emu.want = Answer["local_host_tx"],
         InRing(Answer["render_crt"]), ~NoMore,
         gs.at = "publish" => retTail = gs.slot,
         NEW i \in RetIndex, RetHolds(i)
  PROVE  retArray[i] = Answer["render_crt"]
<1>1. \A t \in Requests : OnePlace(t) /\ Awaited(t)  BY DEF Tokens
<1>2. "render_crt" \in Requests /\ "local_host_tx" \in Requests  BY DEF Requests
<1>3. ~InQueue("render_crt") /\ ~AtGS("render_crt")
  BY <1>1, <1>2 DEF OnePlace
<1>4. ASSUME NEW t \in Requests, Out(t) PROVE t \in {"render_crt", "local_host_tx"}
  BY <1>1, <1>2, <1>4, AnswerValues DEF Awaited
<1>5. retArray[i] # Death
  BY DEF Returned, InRing, NoMore
<1>6. ASSUME retArray[i] = Answer["local_host_tx"] PROVE FALSE
  <2>1. ~InQueue("local_host_tx") /\ ~AtGS("local_host_tx")
    BY <1>1, <1>2, <1>6 DEF OnePlace, InRing
  <2>2. messageQueue = <<>>
    <3>1. CASE messageQueue # <<>>
      <4>1. messageQueue[Len(messageQueue)].type = "local_host_tx"
        BY <1>2, <3>1 DEF Last, Waiting
      <4>2. Len(messageQueue) \in DOMAIN messageQueue
        BY <3>1 DEF TypeOK
      <4>. QED  BY <2>1, <4>1, <4>2 DEF InQueue
    <3>. QED  BY <3>1
  <2>3. gs.at \in {"spin", "draw", "push", "store", "publish"}
    BY <2>2 DEF NoMore
  <2>4. CASE gs.at \in {"spin", "draw"}
    BY <1>3, <2>1, <2>4 DEF Loop, AtGS
  <2>5. CASE gs.at \in {"push", "store", "publish"}
    <3>1. CASE gs.ret = Death
      BY <1>2, <2>2, <2>5, <3>1 DEF Last, Waiting
    <3>2. CASE gs.ret # Death
      <4>1. gs.msg.type \in Requests /\ gs.ret = Answer[gs.msg.type]
        BY <2>5, <3>2 DEF Loop
      <4>2. AtGS(gs.msg.type)
        BY <2>5, <4>1 DEF AtGS
      <4>3. gs.msg.type \in {"render_crt", "local_host_tx"}
        BY <1>4, <4>1, <4>2 DEF Out
      <4>. QED  BY <1>3, <2>1, <4>2, <4>3
    <3>. QED  BY <3>1, <3>2
  <2>. QED  BY <2>3, <2>4, <2>5
<1>7. PICK t \in Requests : retArray[i] = Answer[t]
  BY <1>5, AnswerValues DEF Returned, ReturnTypes, Death, Requests
<1>8. Out(t)  BY <1>7 DEF Out, InRing
<1>. QED  BY <1>4, <1>6, <1>7, <1>8

(* ... so that nothing is left once it has popped it.                      *)
LEMMA NothingBehind ==
  ASSUME TypeOK, Calls, Loop, Tokens, Returned, Last, ReturnPop,
         emu.want = Answer["local_host_tx"],
         retArray[retHead] = Answer["render_crt"], ~NoMore,
         gs.at = "publish" => retTail = gs.slot
  PROVE  retHead' = retTail'
<1>1. /\ emu.at = "pop" /\ retHead # retTail /\ retHead' = RetNext(retHead)
      /\ UNCHANGED <<retTail, retArray>>
      /\ retHead \in RetIndex /\ retTail \in RetIndex /\ RetNext(retHead) \in RetIndex
  BY Steps DEF ReturnPop, RetEmpty, TypeOK
<1>2. InRing(Answer["render_crt"])
  BY <1>1, PopRing DEF InRing
<1>3. CASE retHead' # retTail'
  <2>1. Within(RetNext(retHead), retTail, RetNext(retHead))
    BY <1>1, <1>3, HeadWithin
  <2>2. RetHolds(RetNext(retHead)) /\ RetNext(retHead) # retHead
    BY <1>1, <2>1, PopWithin, HoldsWithin
  <2>3. retArray[RetNext(retHead)] = Answer["render_crt"]
    BY <1>1, <1>2, <2>2, OnlyPicture
  <2>4. RetHolds(retHead)  BY <1>1, PopRing
  <2>5. RingOnce /\ Answer["render_crt"] \in Answers
    BY AnswerValues DEF Tokens, Requests
  <2>. QED  BY <1>1, <2>2, <2>3, <2>4, <2>5 DEF RingOnce
<1>. QED  BY <1>3

LEMMA RaceReturnPop ==
  ASSUME TypeOK, Calls, Loop, Tokens, Returned, Last, Race, ReturnPop, Live'
  PROVE  Hand' /\ Race'
<1>1. /\ emu.at = "pop" /\ retHead # retTail /\ retHead' = RetNext(retHead)
      /\ UNCHANGED <<retTail, retArray, messageQueue, flags, gs>>
      /\ emu \in EmuStates /\ retHead \in RetIndex /\ retTail \in RetIndex
      /\ gs.slot \in RetIndex
  BY DEF ReturnPop, RetEmpty, TypeOK, GSStates
<1>2. RetHolds(retHead)  BY <1>1, PopRing
<1>3. UNCHANGED recieveData  BY <1>1 DEF flags
<1>4. gs.at \in Pushing => InTurn \/ Shared
  BY <1>1 DEF Race, Again, Taken, Passed, Puts, Sleeps
<1>5. gs.at \in Pushing /\ InTurn => RetNext(gs.slot) # retHead'
  BY <1>1, StepsApart DEF InTurn
<1>6. CASE emu' = EmuIdle("dead")
  BY <1>6, EmuRests DEF Live
<1>7. CASE retArray[retHead] = emu.want /\ EmuAt(AfterReturn)
  <2>1. /\ emu'.at \in {"run", "buffer"} /\ emu'.at \notin Puts
    BY <1>1, <1>7, EmuMoves, EmuRests DEF AfterReturn, EmuAt, Puts
  <2>2. Hand'  BY <2>1 DEF Hand
  <2>3. ASSUME gs.at \in Pushing, InTurn PROVE Race'
    <3>1. InTurn'
      BY <1>1, <1>5, <2>1, <2>3 DEF InTurn, Pushing, Puts
    <3>. QED  BY <3>1 DEF Race
  <2>4. ASSUME gs.at \in Pushing, ~InTurn PROVE Race'
    <3>1. Shared /\ emu.want = Answer["local_host_tx"] /\ emu.phase = "vblank"
          /\ gs.ret \in {Answer["local_host_tx"], Death}
      BY <1>4, <2>4 DEF Race
    <3>2. Answer["local_host_tx"] # Answer["render_crt"]  BY AnswerValues
    <3>3. gs.at = "publish" /\ gs.ret = emu.want
      BY <1>7, <3>1, <3>2 DEF Shared
    <3>4. AfterReturn = "buffer"  BY <3>1 DEF AfterReturn
    <3>5. emu'.at = "buffer" /\ emu'.want = emu.want /\ emu'.phase = emu.phase
      BY <1>1, <1>7, <3>4, EmuMoves
    <3>6. Taken'  BY <1>1, <3>1, <3>3, <3>5 DEF Taken, Shared
    <3>. QED  BY <1>1, <3>1, <3>5, <3>6 DEF Race
  <2>5. gs.at \notin Pushing => Race'  BY <1>1 DEF Race
  <2>. QED  BY <2>2, <2>3, <2>4, <2>5
<1>8. CASE retArray[retHead] \notin {"death_error", emu.want}
           /\ emu' = [emu EXCEPT !.at = "was_empty", !.got = retArray[retHead]]
  <2>1. /\ emu'.at = "was_empty" /\ emu'.got = retArray[retHead]
        /\ emu'.want = emu.want /\ emu'.phase = emu.phase
    BY <1>1, <1>8 DEF EmuStates
  <2>2. PICK t \in Requests : retArray[retHead] = Answer[t]
    BY <1>1, <1>2, <1>8, AnswerValues DEF Returned, ReturnTypes, Requests
  <2>3. Out(t) /\ emu.want # Answer[t]
    BY <1>1, <1>2, <1>8, <2>2 DEF Out, InRing
  <2>4. t = "render_crt" /\ emu.phase = "vblank"
    BY <2>3 DEF Tokens, Awaited
  <2>5. emu.want = Answer["local_host_tx"]
    BY <1>1, <2>3, <2>4 DEF Calls, MayWait, Waiting
  <2>6. ~NoMore /\ (gs.at = "publish" => retTail = gs.slot) => retHead' = retTail'
    BY <2>2, <2>4, <2>5, NothingBehind
  <2>7. UNCHANGED NoMore  BY <1>1 DEF NoMore
  <2>8. Hand'
    BY <1>1, <2>1, <2>2, <2>4, <2>5, <2>6, <2>7 DEF Hand, Slept, Pushing
  <2>9. ASSUME gs.at \in Pushing, InTurn PROVE Race'
    <3>1. ~NoMore  BY <2>9 DEF NoMore, Pushing
    <3>2. retHead' = gs.slot  BY <1>1, <2>6, <2>9, <3>1 DEF InTurn
    <3>3. InTurn'
      BY <1>1, <1>5, <2>1, <2>9, <3>2 DEF InTurn, Pushing, Slept
    <3>. QED  BY <3>3 DEF Race
  <2>10. ASSUME gs.at \in Pushing, ~InTurn PROVE Race'
    <3>1. Shared /\ gs.ret \in {Answer["local_host_tx"], Death}
      BY <1>4, <2>10 DEF Race
    <3>2. Again'
      BY <1>1, <1>3, <2>1, <3>1 DEF Shared, Again, Slept, Puts, Pushing
    <3>. QED  BY <1>1, <2>1, <2>4, <2>5, <3>1, <3>2 DEF Race
  <2>11. gs.at \notin Pushing => Race'  BY <1>1 DEF Race
  <2>. QED  BY <2>8, <2>9, <2>10, <2>11
<1>. QED  BY <1>6, <1>7, <1>8 DEF ReturnPop

(* wait_for_return finds return_queue empty, and sleeps.                   *)
LEMMA RaceSleeps ==
  ASSUME TypeOK, Race,
         ReturnPopEmpty \/ ReturnLock \/ ReturnTest \/ ReturnClear \/ ReturnBlock
  PROVE  Hand' /\ Race'
<1>1. /\ UNCHANGED <<returnQueue, gs>> /\ emu \in EmuStates /\ gs.slot \in RetIndex
      /\ recieveData \in BOOLEAN
  BY DEF ReturnPopEmpty, ReturnLock, ReturnTest, ReturnClear, ReturnBlock, EmuOnly,
         TypeOK, GSStates
<1>2. emu.at \notin Puts \cup {"buffer"}
  BY DEF ReturnPopEmpty, ReturnLock, ReturnTest, ReturnClear, ReturnBlock, Puts
<1>3. ~Again /\ ~Taken  BY <1>2 DEF Again, Taken
<1>4. CASE ReturnPopEmpty
  <2>1. emu.at = "pop" /\ retHead = retTail /\ emu'.at = "lock"
    BY <1>1, <1>4, EmuMoves DEF ReturnPopEmpty, RetEmpty
  <2>2. ~Shared  BY <1>1, <2>1, StepsApart DEF Shared
  <2>3. ~Passed  BY <2>1 DEF Passed, Sleeps
  <2>4. gs.at \in Pushing => InTurn  BY <1>3, <2>2, <2>3 DEF Race
  <2>. QED  BY <1>1, <1>2, <2>1, <2>4, RaceEmuMoves DEF Puts
<1>5. CASE ReturnLock \/ ReturnBlock
  <2>1. /\ emu'.at \in {"test", "asleep"} /\ emu'.want = emu.want /\ emu'.phase = emu.phase
        /\ UNCHANGED recieveData
    BY <1>1, <1>5, EmuMoves DEF ReturnLock, ReturnBlock
  <2>2. Passed => recieveData' = FALSE  BY <2>1 DEF Passed
  <2>. QED  BY <1>1, <1>2, <1>3, <2>1, <2>2, RaceEmuMoves DEF Puts, Sleeps
<1>6. CASE ReturnTest
  <2>1. UNCHANGED recieveData  BY <1>6 DEF ReturnTest, EmuOnly, flags
  <2>2. Passed => recieveData' = FALSE /\ recieveData = FALSE  BY <2>1 DEF Passed
  <2>3. CASE recieveData = TRUE
    <3>1. emu'.at = "clear" /\ emu'.want = emu.want /\ emu'.phase = emu.phase
      BY <1>1, <1>6, <2>3, EmuMoves DEF ReturnTest
    <3>2. gs.at \in Pushing /\ ~InTurn => Shared
      BY <1>3, <2>2, <2>3 DEF Race
    <3>. QED  BY <1>1, <1>2, <1>3, <2>2, <3>1, <3>2, RaceEmuMoves DEF Puts, Sleeps
  <2>4. CASE recieveData = FALSE
    <3>1. emu'.at = "block" /\ emu'.want = emu.want /\ emu'.phase = emu.phase
      BY <1>1, <1>6, <2>4, EmuMoves DEF ReturnTest
    <3>. QED  BY <1>1, <1>2, <1>3, <2>2, <3>1, RaceEmuMoves DEF Puts, Sleeps
  <2>. QED  BY <1>1, <2>3, <2>4
<1>7. CASE ReturnClear
  <2>1. /\ emu.at = "clear" /\ emu'.at = "pop" /\ emu'.want = emu.want /\ emu'.phase = emu.phase
        /\ recieveData' = FALSE
    BY <1>1, <1>7, EmuMoves DEF ReturnClear
  <2>2. ~Passed  BY <2>1 DEF Passed
  <2>3. gs.at \in Pushing /\ ~InTurn => Shared  BY <1>3, <2>2 DEF Race
  <2>. QED  BY <1>1, <1>2, <1>3, <2>1, <2>3, RaceEmuMoves DEF Puts, Sleeps
<1>. QED  BY <1>4, <1>5, <1>6, <1>7

(* The buffer is the emulation thread's only when the GS thread has let go *)
(* of it, after its push.                                                  *)
LEMMA RaceBuffer ==
  ASSUME TypeOK, Loop, Locks, Race, GetFramebuffer \/ GetDownload
  PROVE  Hand' /\ Race'
<1>1. /\ UNCHANGED <<returnQueue, gs>> /\ gs \in GSStates
      /\ emu.at = "buffer" /\ emu'.at = "run"
  BY EmuRests DEF GetFramebuffer, GetDownload, EmuOnly, TypeOK
<1>2. "buffer" \notin {"pop"} \cup Puts \cup Sleeps  BY DEF Puts, Sleeps
<1>3. gs.at \in Pushing /\ ~InTurn => emu.want = Answer["local_host_tx"] /\ Taken
  BY <1>1, <1>2 DEF Race, Shared, Again, Passed
<1>4. CASE GetFramebuffer
  <2>1. emu.want = Answer["render_crt"]  BY <1>4 DEF GetFramebuffer
  <2>2. emu.want # Answer["local_host_tx"]  BY <2>1, AnswerValues
  <2>. QED  BY <1>1, <1>2, <1>3, <2>2, RaceEmuMoves DEF Puts
<1>5. CASE GetDownload
  <2>1. emu.want = Answer["local_host_tx"] /\ bufferMutex[Download] = None
    BY <1>5 DEF GetDownload
  <2>2. ASSUME gs.at \in Pushing, Taken PROVE FALSE
    <3>1. gs.at = "publish" /\ gs.ret = Answer["local_host_tx"]
      BY <2>1, <2>2 DEF Taken
    <3>2. "local_host_tx" \in Requests  BY DEF Requests
    <3>3. gs.ret # Death  BY <3>1, <3>2, AnswerValues
    <3>4. gs.msg.type = "local_host_tx"
      BY <3>1, <3>2, <3>3, AnswerValues DEF Loop
    <3>5. gs.msg.buffer = Download  BY <1>1, <3>4, MessageParts DEF GSStates
    <3>6. bufferMutex[Download] = GS  BY <3>1, <3>4, <3>5 DEF Locks, Holding
    <3>. QED  BY <2>1, <3>6 DEF GS, None
  <2>. QED  BY <1>1, <1>2, <1>3, <2>2, RaceEmuMoves DEF Puts
<1>. QED  BY <1>4, <1>5

(* wait_for_return puts the picture's answer back.                         *)
LEMMA RaceWasEmpty ==
  ASSUME TypeOK, Hand, Race, WasEmpty
  PROVE  Hand' /\ Race'
<1>1. /\ emu.at = "was_empty" /\ emu'.at = "putback" /\ emu'.sleeps = RetEmpty
      /\ emu'.got = emu.got /\ emu'.want = emu.want /\ emu'.phase = emu.phase
      /\ UNCHANGED <<messageQueue, retTail, retHead, retArray, recieveData, gs>>
  BY DEF WasEmpty, EmuOnly, returnQueue, flags, TypeOK, EmuStates
<1>2. UNCHANGED NoMore  BY <1>1 DEF NoMore
<1>3. retHead = retTail => emu'.sleeps = TRUE  BY <1>1 DEF RetEmpty
<1>4. emu.at \in Puts /\ emu'.at \in Puts /\ emu'.at \notin Pushing  BY <1>1 DEF Puts, Pushing
<1>5. Hand'  BY <1>1, <1>2, <1>3, <1>4 DEF Hand, Slept, Pushing
<1>6. ASSUME gs.at \in Pushing PROVE InTurn \/ Again
  BY <1>1, <1>6 DEF Race, Shared, Taken, Passed, Sleeps
<1>7. ASSUME gs.at \in Pushing, InTurn PROVE InTurn'
  BY <1>1, <1>3, <1>4, <1>7 DEF InTurn, Slept
<1>8. ASSUME gs.at \in Pushing, Again PROVE Again'
  BY <1>1, <1>3, <1>4, <1>8 DEF Again, Slept
<1>. QED  BY <1>1, <1>5, <1>6, <1>7, <1>8 DEF Race, Again, InTurn

LEMMA RacePutBack ==
  ASSUME TypeOK, Hand, Race, PutBack, Live'
  PROVE  Hand' /\ Race'
<1>1. ~RetFull /\ emu' = [emu EXCEPT !.at = "store", !.slot = retTail] /\ emu.at = "putback"
  BY EmuRests DEF PutBack, Live
<1>2. /\ emu'.at = "store" /\ emu'.sleeps = emu.sleeps /\ emu'.slot = retTail
      /\ emu'.got = emu.got /\ emu'.want = emu.want /\ emu'.phase = emu.phase
      /\ UNCHANGED <<messageQueue, retTail, retHead, retArray, recieveData, gs>>
  BY <1>1 DEF PutBack, EmuOnly, returnQueue, flags, TypeOK, EmuStates
<1>3. UNCHANGED NoMore  BY <1>2 DEF NoMore
<1>4. emu.at \in Puts /\ emu'.at \in Puts  BY <1>1, <1>2 DEF Puts
<1>5. RetNext(retTail) # retHead  BY <1>1 DEF RetFull
<1>6. Hand'  BY <1>1, <1>2, <1>3, <1>4, <1>5 DEF Hand, Slept
<1>7. ASSUME gs.at \in Pushing PROVE InTurn \/ Again
  BY <1>1, <1>7 DEF Race, Shared, Taken, Passed, Sleeps
<1>8. ASSUME gs.at \in Pushing, InTurn PROVE InTurn'
  BY <1>1, <1>2, <1>4, <1>8 DEF InTurn, Slept
<1>9. ASSUME gs.at \in Pushing, Again PROVE Again'
  BY <1>1, <1>2, <1>4, <1>9 DEF Again, Slept
<1>. QED  BY <1>2, <1>6, <1>7, <1>8, <1>9 DEF Race

LEMMA RacePutBackStore ==
  ASSUME TypeOK, Hand, Race, PutBackStore
  PROVE  Hand' /\ Race'
<1>1. /\ emu.at = "store" /\ EmuAt("publish") /\ emu \in EmuStates /\ emu.slot \in RetIndex
      /\ DOMAIN retArray = RetIndex /\ retArray' = [retArray EXCEPT ![emu.slot] = emu.got]
      /\ UNCHANGED <<messageQueue, retTail, retHead, recieveData, gs>>
  BY DEF PutBackStore, RetStore, flags, TypeOK, EmuStates
<1>2. /\ emu'.at = "publish" /\ emu'.sleeps = emu.sleeps /\ emu'.slot = emu.slot
      /\ emu'.got = emu.got /\ emu'.want = emu.want /\ emu'.phase = emu.phase
  BY <1>1, EmuMoves
<1>3. UNCHANGED NoMore  BY <1>1 DEF NoMore
<1>4. emu.at \in Puts /\ emu.at \in Pushing  BY <1>1 DEF Puts, Pushing
<1>5. retArray'[emu.slot] = emu.got  BY <1>1
<1>6. Hand'  BY <1>1, <1>2, <1>3, <1>4, <1>5 DEF Hand, Slept
<1>7. ASSUME gs.at \in Pushing PROVE InTurn \/ Again
  BY <1>1, <1>7 DEF Race, Shared, Taken, Passed, Sleeps
<1>8. ASSUME gs.at \in Pushing, InTurn PROVE InTurn'
  BY <1>1, <1>2, <1>4, <1>5, <1>8 DEF InTurn, Slept
<1>9. ASSUME gs.at \in Pushing, Again PROVE Again'
  BY <1>1, <1>2, <1>4, <1>9 DEF Again, Slept, Puts
<1>. QED  BY <1>1, <1>2, <1>6, <1>7, <1>8, <1>9 DEF Race

(* What the GS thread pushes in its turn, with the picture's answer in the *)
(* hand of the emulation thread: the download, or the error it dies of.    *)
LEMMA PushesDownload ==
  ASSUME Loop, Tokens, Hand, emu.at \in Puts, gs.at \in Pushing, InTurn
  PROVE  /\ gs.ret \in {Answer["local_host_tx"], Death}
         /\ gs.ret = Answer["local_host_tx"] => AtGS("local_host_tx")
<1>1. /\ emu.got = Answer["render_crt"] /\ emu.want = Answer["local_host_tx"]
      /\ retTail = gs.slot /\ (emu.at \in Pushing => emu.slot = gs.slot)
      /\ "local_host_tx" \in Requests /\ "render_crt" \in Requests
  BY DEF Hand, InTurn, Requests
<1>2. InHand("render_crt")  BY <1>1 DEF InHand, Pushing
<1>3. ASSUME NEW u \in Requests, gs.ret = Answer[u] PROVE AtGS(u) /\ u = "local_host_tx"
  <2>1. AtGS(u)  BY <1>1, <1>3 DEF AtGS, Pushing
  <2>2. u # "render_crt"  BY <1>1, <1>2, <2>1 DEF Tokens, OnePlace
  <2>3. emu.want = Answer[u]  BY <2>1, <2>2 DEF Tokens, Awaited, Out
  <2>. QED  BY <1>1, <2>1, <2>3, AnswerValues
<1>4. gs.ret = Death \/ \E u \in Requests : gs.ret = Answer[u]
  BY DEF Loop, Pushing
<1>. QED  BY <1>1, <1>3, <1>4

LEMMA RacePutBackPublish ==
  ASSUME TypeOK, Loop, Tokens, Hand, Race, PutBackPublish
  PROVE  Hand' /\ Race'
<1>1. /\ emu.at = "publish" /\ retTail' = RetNext(emu.slot)
      /\ EmuAt(IF emu.sleeps THEN "lock" ELSE "pop")
      /\ UNCHANGED <<messageQueue, gs, retArray, retHead, recieveData>>
      /\ emu \in EmuStates /\ emu.slot \in RetIndex /\ gs.slot \in RetIndex
  BY DEF PutBackPublish, RetPublish, flags, TypeOK, EmuStates, GSStates
<1>2. /\ emu'.want = emu.want /\ emu'.phase = emu.phase /\ emu'.at \in {"lock", "pop"}
      /\ emu.sleeps = TRUE => emu'.at = "lock"
  BY <1>1, EmuMoves
<1>3. Hand'  BY <1>2 DEF Hand, Puts
<1>4. emu.at \in Puts /\ emu.at \in Pushing  BY <1>1 DEF Puts, Pushing
<1>5. /\ emu.got = Answer["render_crt"] /\ emu.want = Answer["local_host_tx"]
      /\ emu.phase = "vblank"
  BY <1>4 DEF Hand
<1>6. ASSUME gs.at \in Pushing PROVE InTurn \/ Again
  BY <1>1, <1>6 DEF Race, Shared, Taken, Passed, Sleeps
<1>7. ASSUME gs.at \in Pushing, InTurn PROVE Race'
  <2>1. retTail = gs.slot /\ emu.slot = gs.slot /\ retHead = gs.slot /\ emu'.at = "lock"
    BY <1>1, <1>2, <1>4, <1>7 DEF InTurn, Slept
  <2>2. gs.ret \in {Answer["local_host_tx"], Death}
    BY <1>4, <1>7, PushesDownload
  <2>3. \/ retArray[gs.slot] = Answer["render_crt"]
        \/ gs.at = "publish" /\ retArray[gs.slot] = gs.ret
    BY <1>1, <1>4, <1>5, <2>1 DEF Hand
  <2>4. Shared'  BY <1>1, <2>1, <2>3 DEF Shared, Sleeps
  <2>. QED  BY <1>1, <1>2, <1>5, <2>2, <2>4 DEF Race
<1>8. ASSUME gs.at \in Pushing, ~InTurn, Again PROVE Race'
  <2>1. /\ retTail = RetNext(gs.slot) /\ emu.slot = RetNext(gs.slot)
        /\ retHead = RetNext(gs.slot) /\ recieveData = FALSE /\ emu'.at = "lock"
    BY <1>1, <1>2, <1>4, <1>8 DEF Again, Slept
  <2>2. RetNext(gs.slot) # gs.slot  BY <1>1, StepsApart
  <2>3. retArray[emu.slot] = Answer["render_crt"]
    BY <1>1, <1>4, <1>5, <2>1, <2>2 DEF Hand
  <2>4. Passed'  BY <1>1, <2>1, <2>3 DEF Passed, Sleeps
  <2>5. gs.ret \in {Answer["local_host_tx"], Death}  BY <1>8 DEF Race
  <2>. QED  BY <1>1, <1>2, <1>5, <2>4, <2>5 DEF Race
<1>. QED  BY <1>1, <1>3, <1>6, <1>7, <1>8 DEF Race

(* The GS thread, anywhere but at its push.                                *)
LEMMA RaceGSMoves ==
  ASSUME Hand, UNCHANGED <<returnQueue, emu>>,
         gs.at \notin Pushing, gs'.at \notin Pushing, NoMore => NoMore'
  PROVE  Hand' /\ Race'
<1>1. Race'  BY DEF Race
<1>2. gs.at # "publish"  BY DEF Pushing
<1>3. UNCHANGED <<retTail, retHead, retArray>>  BY DEF returnQueue
<1>. QED  BY <1>1, <1>2, <1>3 DEF Hand, Slept

LEMMA RaceGSPush ==
  ASSUME TypeOK, Hand, GSPush
  PROVE  Hand' /\ Race'
<1>1. /\ gs.at = "push" /\ RetNext(retTail) # retHead
      /\ gs'.at = "store" /\ gs'.slot = retTail /\ gs'.ret = gs.ret
      /\ UNCHANGED <<retTail, retHead, retArray, emu>>
  BY DEF GSPush, RetFull, GSOnly, returnQueue, TypeOK, GSStates
<1>2. gs.at \notin Pushing /\ gs'.at \in Pushing /\ ~NoMore
  BY <1>1 DEF Pushing, NoMore
<1>3. Hand'  BY <1>1, <1>2 DEF Hand
<1>4. emu.at \in Pushing => emu.at \in Puts  BY DEF Pushing, Puts
<1>5. InTurn'  BY <1>1, <1>2, <1>4 DEF InTurn, Hand, Slept
<1>. QED  BY <1>3, <1>5 DEF Race

LEMMA RaceGSStore ==
  ASSUME TypeOK, Hand, Race, GSStore
  PROVE  Hand' /\ Race'
<1>1. /\ gs.at = "store" /\ GSAt("publish") /\ gs \in GSStates /\ gs.slot \in RetIndex
      /\ DOMAIN retArray = RetIndex /\ retArray' = [retArray EXCEPT ![gs.slot] = gs.ret]
      /\ UNCHANGED <<retTail, retHead, recieveData, emu>>
  BY DEF GSStore, RetStore, flags, TypeOK, GSStates
<1>2. gs'.at = "publish" /\ gs'.slot = gs.slot /\ gs'.ret = gs.ret
  BY <1>1, GSMoves
<1>3. /\ retArray'[gs.slot] = gs.ret
      /\ \A i \in RetIndex : i # gs.slot => retArray'[i] = retArray[i]
      /\ RetNext(gs.slot) # gs.slot /\ RetNext(gs.slot) \in RetIndex
  BY <1>1, Steps, StepsApart
<1>4. gs.at \in Pushing /\ gs'.at \in Pushing /\ gs.at # "publish"
  BY <1>1, <1>2 DEF Pushing
<1>5. emu.at \in Puts => InTurn \/ Again
  BY <1>4 DEF Race, Shared, Taken, Passed, Puts, Sleeps
<1>6. emu.at = "publish" => emu.at \in Puts /\ emu.at \in Pushing
  BY DEF Puts, Pushing
<1>7. ASSUME emu.at = "publish", retTail = emu.slot
      PROVE  retArray'[emu.slot] = emu.got \/ (gs.slot = emu.slot /\ retArray'[emu.slot] = gs.ret)
  <2>1. CASE InTurn  BY <1>3, <1>6, <1>7, <2>1 DEF InTurn
  <2>2. CASE Again
    <3>1. emu.slot = RetNext(gs.slot)  BY <1>6, <1>7, <2>2 DEF Again
    <3>. QED  BY <1>3, <1>4, <1>6, <1>7, <3>1 DEF Hand
  <2>. QED  BY <1>5, <1>6, <1>7, <2>1, <2>2
<1>8. Hand'  BY <1>1, <1>2, <1>4, <1>7 DEF Hand
<1>9. ASSUME InTurn PROVE InTurn'
  BY <1>1, <1>2, <1>3, <1>9 DEF InTurn, Slept
<1>10. ASSUME Shared PROVE Shared'
  BY <1>1, <1>2, <1>3, <1>10 DEF Shared
<1>11. ASSUME Again PROVE Again'
  BY <1>1, <1>2, <1>11 DEF Again, Slept
<1>12. ASSUME Passed PROVE Passed'
  BY <1>1, <1>2, <1>3, <1>12 DEF Passed
<1>13. ~Taken  BY <1>1 DEF Taken
<1>. QED  BY <1>1, <1>2, <1>4, <1>8, <1>9, <1>10, <1>11, <1>12, <1>13 DEF Race

LEMMA RaceGSPublish ==
  ASSUME TypeOK, Loop, Tokens, Last, Hand, Race, GSPublish
  PROVE  Hand' /\ Race'
<1>1. /\ gs.at = "publish" /\ retTail' = RetNext(gs.slot)
      /\ GSAt(IF gs.ret \in {"save_state_done", "death_error"} THEN "set" ELSE "signal")
      /\ UNCHANGED <<messageQueue, retHead, retArray, emu>>
      /\ gs \in GSStates /\ gs.slot \in RetIndex
  BY DEF GSPublish, RetPublish, TypeOK, GSStates
<1>2. /\ gs'.at \in {"set", "signal"} /\ gs'.ret = gs.ret
      /\ gs.ret = Death => gs'.at = "set"
  BY <1>1, GSMoves DEF Death
<1>3. gs.at \in Pushing /\ gs'.at \notin Pushing  BY <1>1, <1>2 DEF Pushing
<1>4. Race'  BY <1>3 DEF Race
<1>5. RetNext(gs.slot) # gs.slot /\ RetNext(RetNext(gs.slot)) # RetNext(gs.slot)
  BY <1>1, Steps, StepsApart
<1>6. emu.at \in Puts => InTurn \/ Again
  BY <1>3 DEF Race, Shared, Taken, Passed, Puts, Sleeps
<1>7. emu.at \in Pushing => emu.at \in Puts  BY DEF Puts, Pushing
<1>8. ASSUME emu.at \in Puts, InTurn PROVE Hand'
  <2>1. retTail = gs.slot /\ retHead = gs.slot /\ (emu.at \in Pushing => emu.slot = gs.slot)
    BY <1>8 DEF InTurn
  <2>2. CASE gs.ret = Death
    <3>1. (messageQueue = <<>>)' \/ (gs.at \in {"set", "notify"} /\ gs.ret = Death)'
      BY <1>2, <2>2
    <3>2. NoMore'  BY <1>2, <3>1 DEF NoMore
    <3>. QED  BY <1>1, <1>3, <1>5, <1>8, <2>1, <3>2 DEF Hand, Pushing
  <2>3. CASE gs.ret # Death
    <3>1. AtGS("local_host_tx") /\ emu.want = Answer["local_host_tx"]
      BY <1>3, <1>8, <2>3, PushesDownload DEF Hand
    <3>2. "local_host_tx" \in Requests \ {"render_crt"} /\ emu.at \in Waiting
      BY <1>8 DEF Requests, Waiting
    <3>3. ~InQueue("local_host_tx")  BY <3>1, <3>2 DEF Tokens, OnePlace
    <3>4. messageQueue = <<>>
      <4>1. CASE messageQueue # <<>>
        <5>1. messageQueue[Len(messageQueue)].type = "local_host_tx"
          BY <3>1, <3>2, <4>1 DEF Last
        <5>2. Len(messageQueue) \in DOMAIN messageQueue
          BY <4>1 DEF TypeOK
        <5>. QED  BY <3>3, <5>1, <5>2 DEF InQueue
      <4>. QED  BY <4>1
    <3>5. NoMore'  BY <1>1, <1>2, <3>4 DEF NoMore
    <3>. QED  BY <1>1, <1>3, <1>5, <1>8, <2>1, <3>5 DEF Hand, Pushing
  <2>. QED  BY <2>2, <2>3
<1>9. ASSUME emu.at \in Puts, Again PROVE Hand'
  <2>1. /\ retTail = RetNext(gs.slot) /\ retHead = RetNext(gs.slot) /\ Slept
        /\ emu.at \in Pushing => emu.slot = RetNext(gs.slot)
    BY <1>9 DEF Again
  <2>2. Slept'  BY <1>1, <2>1 DEF Slept
  <2>3. emu.at = "publish" /\ retTail = emu.slot => retArray[emu.slot] = emu.got
    BY <1>5, <1>9, <2>1 DEF Hand, Pushing
  <2>. QED  BY <1>1, <1>3, <1>5, <1>9, <2>1, <2>2, <2>3 DEF Hand
<1>10. emu.at \notin Puts => Hand'  BY <1>1 DEF Hand
<1>. QED  BY <1>4, <1>6, <1>8, <1>9, <1>10

(* Nothing of the two threads' changes but data_mutex, asleep or the       *)
(* buffers.                                                                *)
LEMMA RaceSame ==
  ASSUME Hand, Race, UNCHANGED <<messageQueue, returnQueue, recieveData, emu, gs>>
  PROVE  Hand' /\ Race'
<1>1. UNCHANGED <<retTail, retHead, retArray>>  BY DEF returnQueue
<1>2. Hand'  BY <1>1 DEF Hand, Slept, NoMore
<1>3. InTurn' = InTurn /\ Shared' = Shared /\ Again' = Again /\ Taken' = Taken /\ Passed' = Passed
  BY <1>1 DEF InTurn, Shared, Again, Taken, Passed, Slept
<1>. QED  BY <1>2, <1>3 DEF Race

-----------------------------------------------------------------------------
(* The pictures                                                            *)

(* A picture on its way is the frame being emulated, for the buffer that   *)
(* is not on display.                                                      *)
Addressed(m) == m.type = "render_crt" => m.buffer = UsedBuffer /\ m.frame = frame

Contents ==
  /\ \A i \in DOMAIN messageQueue : Addressed(messageQueue[i])
  /\ emu.at = "push" => Addressed(emu.msg)
  /\ gs.at \in {"spin", "draw"} => Addressed(gs.msg)

(* From the end of render_CRT to get_framebuffer the picture is there.     *)
Ready ==
  \/ gs.at \in {"push", "store", "publish"} /\ gs.ret = Answer["render_crt"]
  \/ InRing(Answer["render_crt"])
  \/ emu.at \in Puts
  \/ emu.at = "buffer" /\ emu.want = Answer["render_crt"]

Drawn == Ready => picture[UsedBuffer] = frame

Displayed ==
  currentLock # None =>
    /\ currentLock # UsedBuffer
    /\ emu.phase = "start" => picture[currentLock] = frame
    /\ emu.phase \in {"body", "vblank"} => NextFrame(picture[currentLock]) = frame
    /\ emu.phase = "dead" => frame \in {picture[currentLock], NextFrame(picture[currentLock])}

(* All of it, while there is a program that runs.                          *)
InStep == Tokens /\ Returned /\ Last /\ Hand /\ Race /\ Drawn

(* No picture is out when a frame starts and when the picture is fetched.  *)
LEMMA NoPictureOut ==
  ASSUME Tokens, Race, ~Out("render_crt"), emu.at \notin Puts,
         emu.want # Answer["local_host_tx"]
  PROVE  /\ \A i \in DOMAIN messageQueue : messageQueue[i].type # "render_crt"
         /\ gs.at \in {"spin", "draw"} => gs.msg.type # "render_crt"
         /\ ~InRing(Answer["render_crt"])
         /\ gs.at \in {"push", "store", "publish"} => gs.ret # Answer["render_crt"]
<1>1. ~InQueue("render_crt") /\ ~AtGS("render_crt") /\ ~InRing(Answer["render_crt"])
  BY DEF Out
<1>2. gs.at = "publish" => retTail = gs.slot
  BY DEF Race, Pushing, InTurn
<1>. QED  BY <1>1, <1>2 DEF InQueue, AtGS

LEMMA Idle ==
  ASSUME Calls, Tokens, emu.at = "run", emu.phase # "vblank"
  PROVE  ~Out("render_crt") /\ emu.want = None /\ emu.want # Answer["local_host_tx"]
<1>1. emu.want = None  BY DEF Calls
<1>2. None # Answer["local_host_tx"]  BY AnswerValues DEF None
<1>. QED  BY <1>1, <1>2, NothingOut

LEMMA ContentsSame ==
  ASSUME Contents, UNCHANGED <<frame, usingFirst, messageQueue>>,
         emu'.at = "push" => Addressed(emu'.msg),
         gs'.at \in {"spin", "draw"} => Addressed(gs'.msg)
  PROVE  Contents'
<1>1. UsedBuffer' = UsedBuffer  BY DEF UsedBuffer
<1>. QED  BY <1>1 DEF Contents, Addressed

LEMMA StepContents ==
  ASSUME TypeOK, Calls, Contents, Live => InStep, Next
  PROVE  Contents'
<1>1. emu \in EmuStates /\ gs \in GSStates /\ messageQueue \in Seq(Messages)
  BY DEF TypeOK
<1>2. CASE StartFrame \/ GetFramebuffer
  <2>1. /\ emu'.at = "run" /\ emu.at \in {"run", "buffer"} /\ UNCHANGED <<messageQueue, gs>>
        /\ emu.at \notin Puts
    BY <1>1, <1>2, EmuRests DEF StartFrame, GetFramebuffer, EmuStates, Puts
  <2>2. Live
    BY <1>2 DEF StartFrame, GetFramebuffer, Calls, Live, Sending
  <2>3. Tokens /\ Race  BY <2>2 DEF InStep
  <2>4. ~Out("render_crt") /\ emu.want # Answer["local_host_tx"]
    <3>1. CASE StartFrame
      <4>1. emu.at = "run" /\ emu.phase = "start"  BY <3>1 DEF StartFrame
      <4>. QED  BY <2>3, <4>1, Idle
    <3>2. CASE GetFramebuffer
      <4>1. emu.at = "buffer" /\ emu.want = Answer["render_crt"]
        BY <3>2 DEF GetFramebuffer
      <4>2. Awaited("render_crt")  BY <2>3 DEF Tokens, Requests
      <4>. QED  BY <4>1, <4>2, AnswerValues DEF Awaited
    <3>. QED  BY <1>2, <3>1, <3>2
  <2>5. /\ \A i \in DOMAIN messageQueue : messageQueue[i].type # "render_crt"
        /\ gs.at \in {"spin", "draw"} => gs.msg.type # "render_crt"
    BY <2>1, <2>3, <2>4, NoPictureOut
  <2>. QED  BY <2>1, <2>5 DEF Contents, Addressed
<1>3. CASE Reset
  <2>1. messageQueue' = <<Message("set_crt")>> /\ gs'.at = "pop" /\ emu'.at = "run"
    BY <1>3, EmuRests, GSRests DEF Reset
  <2>2. \A i \in DOMAIN messageQueue' : messageQueue'[i].type = "set_crt"
    BY <2>1 DEF Message
  <2>. QED  BY <2>1, <2>2 DEF Contents, Addressed
<1>4. CASE SendPush
  <2>1. /\ emu.at = "push" /\ emu'.at = "flag" /\ emu.msg \in Messages
        /\ messageQueue' = Append(messageQueue, emu.msg)
        /\ UNCHANGED <<display, gs>>
    BY <1>1, <1>4, EmuMoves DEF SendPush, EmuStates
  <2>2. \A i \in DOMAIN messageQueue' :
          \/ messageQueue'[i] = emu.msg
          \/ i \in DOMAIN messageQueue /\ messageQueue'[i] = messageQueue[i]
    BY <1>1, <2>1, Appending
  <2>. QED  BY <2>1, <2>2 DEF Contents, Addressed, UsedBuffer, display
<1>5. CASE GSPop
  <2>1. /\ gs.at = "pop" /\ messageQueue # <<>> /\ messageQueue' = Tail(messageQueue)
        /\ UNCHANGED <<display, emu>>
    BY <1>5 DEF GSPop
  <2>2. /\ Head(messageQueue) = messageQueue[1] /\ 1 \in DOMAIN messageQueue
        /\ \A i \in DOMAIN messageQueue' :
             i + 1 \in DOMAIN messageQueue /\ messageQueue'[i] = messageQueue[i + 1]
    BY <1>1, <2>1, HeadAndTail
  <2>3. gs'.at \in {"spin", "draw"} => gs'.msg = Head(messageQueue)
    <3>. DEFINE m == Head(messageQueue)
    <3>1. CASE UNCHANGED gs  BY <2>1, <3>1
    <3>2. CASE gs' = [gs EXCEPT !.at = "push", !.ret = "death_error"]
      BY <1>1, <3>2 DEF GSStates
    <3>3. CASE gs' = [gs EXCEPT !.at = "spin", !.msg = m]
      BY <1>1, <3>3 DEF GSStates
    <3>4. CASE gs' = [gs EXCEPT !.at = "push", !.msg = m, !.ret = Answer[m.type]]
      BY <1>1, <3>4 DEF GSStates
    <3>5. CASE GSAt("ended")
      <4>1. gs'.at = "ended"  BY <1>1, <3>5, GSMoves
      <4>. QED  BY <4>1
    <3>. QED  BY <1>5, <3>1, <3>2, <3>3, <3>4, <3>5 DEF GSPop
  <2>4. \A i \in DOMAIN messageQueue' : Addressed(messageQueue'[i])
    BY <2>2 DEF Contents
  <2>5. gs'.at \in {"spin", "draw"} => Addressed(gs'.msg)
    BY <2>2, <2>3 DEF Contents
  <2>6. UsedBuffer' = UsedBuffer /\ frame' = frame  BY <2>1 DEF display, UsedBuffer
  <2>. QED  BY <2>1, <2>4, <2>5, <2>6 DEF Contents, Addressed
<1>6. ASSUME UNCHANGED <<frame, usingFirst, messageQueue, gs>>,
             emu'.at # "push"
      PROVE  Contents'
  BY <1>6, ContentsSame DEF Contents
<1>7. ASSUME NEW m, NEW wake, NEW want, NEW p, Call(m, wake, want, p), EmuOnly,
             Addressed(m)
      PROVE  Contents'
  <2>1. emu'.at = "push" /\ emu'.msg = m  BY <1>1, <1>7, EmuCalls
  <2>2. UNCHANGED <<frame, usingFirst, messageQueue, gs>>
    BY <1>7 DEF EmuOnly, display
  <2>. QED  BY <1>7, <2>1, <2>2, ContentsSame DEF Contents
<1>8. CASE SaveOrLoad \/ GameWrite \/ RequestDownload \/ VblankStart \/ Exit
  <2>1. CASE SaveOrLoad
    <3>1. PICK t \in {"save_state", "load_state"} : Call(Message(t), TRUE, Answer[t], "start")
      BY <2>1 DEF SaveOrLoad
    <3>2. Addressed(Message(t))  BY DEF Addressed, Message
    <3>. QED  BY <1>7, <2>1, <3>1, <3>2 DEF SaveOrLoad
  <2>2. CASE GameWrite
    <3>1. Addressed(Message("write"))  BY DEF Addressed, Message
    <3>. QED  BY <1>7, <2>2, <3>1 DEF GameWrite
  <2>3. CASE RequestDownload
    <3>1. Addressed([type |-> "local_host_tx", buffer |-> Download, frame |-> 0])
      BY DEF Addressed
    <3>. QED  BY <1>7, <2>3, <3>1 DEF RequestDownload
  <2>4. CASE VblankStart
    <3>1. Addressed(Render(UsedBuffer, frame))  BY DEF Addressed, Render
    <3>. QED  BY <1>7, <2>4, <3>1 DEF VblankStart
  <2>5. CASE Exit
    <3>1. Addressed(Message("die"))  BY DEF Addressed, Message
    <3>. QED  BY <1>7, <2>5, <3>1 DEF Exit
  <2>. QED  BY <1>8, <2>1, <2>2, <2>3, <2>4, <2>5
<1>9. CASE VblankEnd \/ EmulationError \/ WasEmpty \/ PutBack
  <2>1. UNCHANGED <<frame, usingFirst, messageQueue, gs>>
    BY <1>9 DEF VblankEnd, EmulationError, WasEmpty, PutBack, EmuOnly, display
  <2>2. emu'.at # "push"
    BY <1>1, <1>9, EmuRests
    DEF VblankEnd, EmulationError, WasEmpty, PutBack, EmuStates
  <2>. QED  BY <1>6, <2>1, <2>2
<1>10. ASSUME NEW a, a # "push", EmuAt(a), UNCHANGED <<messageQueue, display, gs>>
       PROVE  Contents'
  <2>1. emu'.at # "push"  BY <1>1, <1>10, EmuMoves, EmuRests DEF EmuAt
  <2>. QED  BY <1>6, <1>10, <2>1 DEF display
<1>11. CASE SendFlag \/ WakeThread
  <2>1. AfterSend # "push"  BY DEF AfterSend
  <2>. QED  BY <1>10, <1>11, <2>1 DEF SendFlag, WakeThread
<1>12. CASE GetDownload
  BY <1>6, <1>12, EmuRests DEF GetDownload, EmuOnly, display
<1>13. CASE WaitForReturn
  <2>1. CASE ReturnPop
    <3>1. UNCHANGED <<frame, usingFirst, messageQueue, gs>>  BY <2>1 DEF ReturnPop, display
    <3>2. emu'.at # "push"
      BY <1>1, <2>1, EmuRests, EmuMoves DEF ReturnPop, EmuStates, EmuAt, AfterReturn
    <3>. QED  BY <1>6, <3>1, <3>2
  <2>2. CASE ReturnPopEmpty  BY <1>10, <2>2 DEF ReturnPopEmpty, EmuOnly
  <2>3. CASE PutBackStore  BY <1>10, <2>3 DEF PutBackStore
  <2>4. CASE PutBackPublish
    <3>1. (EmuAt("lock") \/ EmuAt("pop")) /\ UNCHANGED <<messageQueue, display, gs>>
      BY <2>4 DEF PutBackPublish
    <3>. QED  BY <1>10, <3>1
  <2>5. CASE ReturnLock \/ ReturnClear \/ ReturnBlock
    BY <1>10, <2>5 DEF ReturnLock, ReturnClear, ReturnBlock
  <2>6. CASE ReturnTest
    <3>1. (EmuAt("clear") \/ EmuAt("block")) /\ UNCHANGED <<messageQueue, display, gs>>
      BY <2>6 DEF ReturnTest, EmuOnly
    <3>. QED  BY <1>10, <3>1
  <2>. QED  BY <1>9, <1>13, <2>1, <2>2, <2>3, <2>4, <2>5, <2>6 DEF WaitForReturn
<1>14. CASE SpuriousWakeup
  BY <1>14, ContentsSame DEF SpuriousWakeup, display, Contents
<1>15. ASSUME UNCHANGED <<frame, usingFirst, messageQueue, emu>>,
              gs'.at \in {"spin", "draw"} => gs.at \in {"spin", "draw"} /\ gs'.msg = gs.msg
       PROVE  Contents'
  BY <1>15, ContentsSame DEF Contents
<1>16. ASSUME NEW a, a \notin {"spin", "draw"}, GSAt(a),
              UNCHANGED <<messageQueue, display, emu>>
       PROVE  Contents'
  <2>1. gs'.at \notin {"spin", "draw"}  BY <1>1, <1>16, GSMoves, GSRests DEF GSAt
  <2>. QED  BY <1>15, <1>16, <2>1 DEF display
<1>17. CASE EventLoop
  <2>1. CASE GSPopEmpty  BY <1>16, <2>1 DEF GSPopEmpty, GSOnly
  <2>2. CASE GSLock \/ GSClear \/ GSBlock
    BY <1>16, <2>2 DEF GSLock, GSClear, GSBlock
  <2>3. CASE GSTest
    <3>1. (GSAt("clear") \/ GSAt("block")) /\ UNCHANGED <<messageQueue, display, emu>>
      BY <2>3 DEF GSTest, GSOnly
    <3>. QED  BY <1>16, <3>1
  <2>4. CASE GSSpin
    <3>1. gs.at = "spin" /\ gs'.msg = gs.msg  BY <1>1, <2>4, GSMoves DEF GSSpin
    <3>. QED  BY <1>15, <2>4, <3>1 DEF GSSpin
  <2>5. CASE GSDraw
    <3>1. gs'.at = "push"  BY <1>1, <2>5 DEF GSDraw, GSStates
    <3>. QED  BY <1>15, <2>5, <3>1 DEF GSDraw
  <2>6. CASE GSPush
    <3>1. gs'.at = "store"  BY <1>1, <2>6 DEF GSPush, GSStates
    <3>. QED  BY <1>15, <2>6, <3>1 DEF GSPush, GSOnly, display
  <2>7. CASE GSStore  BY <1>16, <2>7 DEF GSStore
  <2>8. CASE GSPublish
    <3>1. (GSAt("set") \/ GSAt("signal")) /\ UNCHANGED <<messageQueue, display, emu>>
      BY <2>8 DEF GSPublish
    <3>. QED  BY <1>16, <3>1
  <2>9. CASE GSSignal
    <3>1. gs'.at = "pop"  BY <2>9, GSRests DEF GSSignal, GSAt
    <3>. QED  BY <1>15, <2>9, <3>1 DEF GSSignal
  <2>10. CASE GSSetUnlocked  BY <1>16, <2>10 DEF GSSetUnlocked
  <2>11. CASE GSNotifyUnlocked
    <3>1. (GSAt("ended") \/ GSAt("pop")) /\ UNCHANGED <<messageQueue, display, emu>>
      BY <2>11 DEF GSNotifyUnlocked
    <3>. QED  BY <1>16, <3>1
  <2>. QED
    BY <1>5, <1>17, <2>1, <2>2, <2>3, <2>4, <2>5, <2>6, <2>7, <2>8, <2>9, <2>10, <2>11
    DEF EventLoop
<1>. QED
  BY <1>2, <1>3, <1>4, <1>8, <1>9, <1>11, <1>12, <1>13, <1>14, <1>17
  DEF Next, RunsFrame, MayDo, Finishes

(* How a step changes the phase of the emulation thread.                   *)
LEMMA Phases ==
  ASSUME TypeOK, Next
  PROVE  \/ emu'.phase = emu.phase
         \/ emu.phase = "body" /\ emu'.phase = "vblank"
         \/ emu'.phase = "dead"
         \/ StartFrame \/ GetFramebuffer \/ Reset
<1>1. emu \in EmuStates  BY DEF TypeOK
<1>2. ASSUME NEW a, EmuAt(a) PROVE emu'.phase = emu.phase
  BY <1>1, <1>2, EmuMoves, EmuRests DEF EmuAt
<1>3. CASE SaveOrLoad
  <2>1. PICK t \in {"save_state", "load_state"} : Call(Message(t), TRUE, Answer[t], "start")
    BY <1>3 DEF SaveOrLoad
  <2>. QED  BY <1>1, <1>3, <2>1, EmuCalls DEF SaveOrLoad
<1>4. CASE GameWrite
  <2>1. PICK wake \in BOOLEAN : Call(Message("write"), wake, None, emu.phase)
    BY <1>4 DEF GameWrite
  <2>. QED  BY <1>1, <2>1, EmuCalls
<1>5. CASE RequestDownload  BY <1>1, <1>5, EmuCalls DEF RequestDownload
<1>6. CASE VblankStart
  <2>1. emu.phase = "body" /\ Call(Render(UsedBuffer, frame), TRUE, None, "vblank")
    BY <1>6 DEF VblankStart
  <2>. QED  BY <1>1, <2>1, EmuCalls
<1>7. CASE Exit  BY <1>1, <1>7, EmuCalls DEF Exit
<1>8. CASE VblankEnd \/ EmulationError \/ WasEmpty
  BY <1>1, <1>8 DEF VblankEnd, EmulationError, WasEmpty, EmuStates
<1>9. CASE SendPush \/ SendFlag \/ WakeThread
  BY <1>2, <1>9 DEF SendPush, SendFlag, WakeThread
<1>10. CASE ReturnPop
  <2>1. CASE emu' = [emu EXCEPT !.at = "was_empty", !.got = retArray[retHead]]
    BY <1>1, <2>1 DEF EmuStates
  <2>. QED  BY <1>2, <1>10, <2>1, EmuRests DEF ReturnPop
<1>11. CASE PutBack
  <2>1. CASE emu' = [emu EXCEPT !.at = "store", !.slot = retTail]
    BY <1>1, <2>1 DEF EmuStates
  <2>. QED  BY <1>11, <2>1, EmuRests DEF PutBack
<1>12. CASE ReturnPopEmpty \/ PutBackStore \/ PutBackPublish \/ ReturnLock \/ ReturnTest
            \/ ReturnClear \/ ReturnBlock
  BY <1>2, <1>12 DEF ReturnPopEmpty, PutBackStore, PutBackPublish, ReturnLock, ReturnTest,
                     ReturnClear, ReturnBlock
<1>13. CASE GetDownload  BY <1>13, EmuRests DEF GetDownload
<1>14. CASE EventLoop
  BY <1>14 DEF EventLoop, GSPop, GSPopEmpty, GSLock, GSTest, GSClear, GSBlock, GSSpin, GSDraw,
       GSPush, GSStore, GSPublish, GSSignal, GSSetUnlocked, GSNotifyUnlocked, GSOnly
<1>15. CASE SpuriousWakeup  BY <1>15 DEF SpuriousWakeup
<1>. QED
  BY <1>3, <1>4, <1>5, <1>6, <1>7, <1>8, <1>9, <1>10, <1>11, <1>12, <1>13, <1>14, <1>15
  DEF Next, RunsFrame, MayDo, Finishes, WaitForReturn

(* The picture on display: drawn into only when it is not on display.      *)
LEMMA StepDisplayed ==
  ASSUME TypeOK, Calls, Contents, Displayed, Live => InStep, Next
  PROVE  Displayed'
<1>1. /\ emu \in EmuStates /\ frame \in Frames /\ picture \in [Buffers -> Frames]
      /\ currentLock \in Buffers \cup {None} /\ UsedBuffer \in Buffers /\ usingFirst \in BOOLEAN
      /\ emu.phase \in {"start", "body", "vblank", "dead"}
  BY MessageTypes1 DEF TypeOK, EmuStates
<1>2. ASSUME UNCHANGED <<currentLock, usingFirst, frame>>,
             currentLock # None => picture'[currentLock] = picture[currentLock],
             ~StartFrame, ~GetFramebuffer, ~Reset
      PROVE  Displayed'
  <2>1. UsedBuffer' = UsedBuffer  BY <1>2 DEF UsedBuffer
  <2>2. \/ emu'.phase = emu.phase
        \/ emu.phase = "body" /\ emu'.phase = "vblank"
        \/ emu'.phase = "dead"
    BY <1>2, Phases
  <2>. QED  BY <1>1, <1>2, <2>1, <2>2 DEF Displayed
<1>3. CASE StartFrame
  <2>1. /\ emu.phase = "start" /\ emu'.phase = "body" /\ frame' = NextFrame(frame)
        /\ UNCHANGED <<currentLock, usingFirst, picture>>
    BY <1>1, <1>3 DEF StartFrame, EmuStates
  <2>. QED  BY <2>1 DEF Displayed, UsedBuffer
<1>4. CASE GetFramebuffer
  <2>1. /\ emu.at = "buffer" /\ emu.want = Answer["render_crt"]
        /\ currentLock' = UsedBuffer /\ usingFirst' = ~usingFirst
        /\ emu'.phase = "start" /\ UNCHANGED <<frame, picture>>
    BY <1>4, EmuRests DEF GetFramebuffer
  <2>2. Live  BY <2>1 DEF Calls, Live, Sending
  <2>3. picture[UsedBuffer] = frame
    BY <2>1, <2>2 DEF InStep, Drawn, Ready
  <2>4. UsedBuffer' # UsedBuffer  BY <1>1, <2>1 DEF UsedBuffer
  <2>. QED  BY <2>1, <2>3, <2>4 DEF Displayed
<1>5. CASE Reset
  BY <1>5 DEF Reset, Displayed
<1>6. CASE ~StartFrame /\ ~GetFramebuffer /\ ~Reset
  <2>1. CASE UNCHANGED display
    BY <1>2, <1>6, <2>1 DEF display
  <2>2. CASE GSSpin \/ GSSignal
    BY <1>2, <1>6, <2>2 DEF GSSpin, GSSignal
  <2>3. CASE GSDraw
    <3>1. /\ gs.at = "draw" /\ UNCHANGED <<currentLock, usingFirst, frame>>
          /\ \/ UNCHANGED picture
             \/ /\ gs.msg.type = "render_crt"
                /\ picture' = [picture EXCEPT ![gs.msg.buffer] = gs.msg.frame]
      BY <2>3 DEF GSDraw
    <3>2. gs.msg.type = "render_crt" => gs.msg.buffer = UsedBuffer
      BY <3>1 DEF Contents, Addressed
    <3>3. currentLock # None => currentLock # UsedBuffer  BY DEF Displayed
    <3>4. currentLock # None => picture'[currentLock] = picture[currentLock]
      BY <1>1, <3>1, <3>2, <3>3
    <3>. QED  BY <1>2, <1>6, <3>1, <3>4
  <2>. QED  BY <1>6, <2>1, <2>2, <2>3, Frames1
<1>. QED  BY <1>3, <1>4, <1>5, <1>6

LEMMA DrawnSame ==
  ASSUME Drawn, UNCHANGED <<picture, usingFirst, frame>>, Ready' => Ready
  PROVE  Drawn'
BY DEF Drawn, UsedBuffer

(* The emulation thread moves, and return_queue does not change.           *)
LEMMA DrawnEmuMoves ==
  ASSUME Drawn, UNCHANGED <<picture, usingFirst, frame, returnQueue, gs>>,
         emu'.at \in Puts => emu.at \in Puts, emu'.at # "buffer"
  PROVE  Drawn'
<1>1. InRing(Answer["render_crt"])' = InRing(Answer["render_crt"])  BY RingSame
<1>. QED  BY <1>1, DrawnSame DEF Ready

LEMMA DrawnGSMoves ==
  ASSUME Drawn, UNCHANGED <<picture, usingFirst, frame, returnQueue, emu>>,
         gs'.at \in {"push", "store", "publish"} /\ gs'.ret = Answer["render_crt"] =>
           gs.at \in {"push", "store", "publish"} /\ gs.ret = Answer["render_crt"]
  PROVE  Drawn'
<1>1. InRing(Answer["render_crt"])' = InRing(Answer["render_crt"])  BY RingSame
<1>. QED  BY <1>1, DrawnSame DEF Ready

-----------------------------------------------------------------------------
(* Every step of a running program                                         *)

LEMMA InStepFrame ==
  ASSUME TypeOK, Calls, InStep,
         SaveOrLoad \/ GameWrite \/ RequestDownload \/ VblankStart \/ StartFrame \/ VblankEnd
  PROVE  InStep'
<1>1. emu \in EmuStates  BY DEF TypeOK
<1>2. /\ emu.at = "run" /\ UNCHANGED <<messageQueue, returnQueue, gs, picture, usingFirst>>
      /\ ~StartFrame => UNCHANGED frame
  BY DEF SaveOrLoad, GameWrite, RequestDownload, VblankStart, StartFrame, VblankEnd, EmuOnly,
         display
<1>3. \/ emu'.at \in {"push", "run"}
      \/ emu'.at = "pop" /\ emu'.want = Answer["render_crt"]
  <2>1. CASE SaveOrLoad \/ GameWrite \/ RequestDownload \/ VblankStart
    <3>1. \E m, wake, want, p : Call(m, wake, want, p)
      BY <2>1 DEF SaveOrLoad, GameWrite, RequestDownload, VblankStart
    <3>. QED  BY <1>1, <3>1, EmuCalls
  <2>2. CASE StartFrame \/ VblankEnd
    BY <1>1, <1>2, <2>2 DEF StartFrame, VblankEnd, EmuStates
  <2>. QED  BY <2>1, <2>2
<1>4. emu'.at \notin Puts /\ emu'.at # "buffer" /\ emu.at \notin Puts
  BY <1>2, <1>3 DEF Puts
<1>5. Tokens'
  BY TokensSaveOrLoad, TokensGameWrite, TokensRequestDownload, TokensVblankStart, TokensFrame
  DEF InStep
<1>6. Returned'  BY <1>2, ReturnedSame DEF InStep
<1>7. Last'
  <2>1. {"push", "run"} \cap (Waiting \cup {"flag", "wake"}) = {}
    BY DEF Waiting, Puts, Sleeps
  <2>. QED  BY <1>2, <1>3, <2>1, LastEmuMoves DEF InStep
<1>8. Hand' /\ Race'
  <2>1. "run" \notin Waiting \cup {"buffer"}  BY DEF Waiting, Puts, Sleeps
  <2>. QED  BY <1>2, <1>4, <2>1, RaceOutside DEF InStep
<1>9. Drawn'
  <2>1. CASE ~StartFrame
    BY <1>2, <1>4, <2>1, DrawnEmuMoves DEF InStep
  <2>2. CASE StartFrame
    <3>1. ~Out("render_crt") /\ emu.want # Answer["local_host_tx"]
      <4>1. emu.phase # "vblank"  BY <2>2 DEF StartFrame
      <4>. QED  BY <1>2, <4>1, Idle DEF InStep
    <3>2. /\ ~InRing(Answer["render_crt"])
          /\ gs.at \in {"push", "store", "publish"} => gs.ret # Answer["render_crt"]
      BY <1>4, <3>1, NoPictureOut DEF InStep
    <3>3. InRing(Answer["render_crt"])' = InRing(Answer["render_crt"])
      BY <1>2, RingSame
    <3>. QED  BY <1>2, <1>4, <3>2, <3>3 DEF Drawn, Ready
  <2>. QED  BY <2>1, <2>2
<1>. QED  BY <1>5, <1>6, <1>7, <1>8, <1>9 DEF InStep

(* send_message and wake_thread.                                           *)
LEMMA InStepSend ==
  ASSUME TypeOK, Calls, InStep, SendPush \/ SendFlag \/ WakeThread
  PROVE  InStep'
<1>1. emu \in EmuStates /\ emu.phase \in {"start", "body", "vblank", "dead"}
  BY DEF TypeOK, EmuStates
<1>2. /\ emu.at \in Sending
      /\ UNCHANGED <<returnQueue, gs, picture, usingFirst, frame>>
      /\ ~SendPush => UNCHANGED messageQueue /\ emu.at \in {"flag", "wake"}
  BY DEF SendPush, SendFlag, WakeThread, display, Sending
<1>3. /\ emu'.at \in {"run", "flag", "wake", "join", "pop"}
      /\ emu'.want = emu.want /\ emu'.phase = emu.phase
  <2>1. \E a : /\ EmuAt(a) /\ a \in {"run", "flag", "wake", "join", "pop"}
               /\ a = "run" => emu.want = None
    BY DEF SendPush, SendFlag, WakeThread, AfterSend
  <2>2. PICK a : /\ EmuAt(a) /\ a \in {"run", "flag", "wake", "join", "pop"}
                 /\ a = "run" => emu.want = None
    BY <2>1
  <2>3. CASE a = "run"
    <3>1. emu' = EmuIdle(emu.phase) /\ emu.want = None  BY <2>2, <2>3 DEF EmuAt
    <3>. QED  BY <3>1, EmuRests
  <2>4. CASE a # "run"
    BY <1>1, <2>2, <2>4, EmuMoves
  <2>. QED  BY <2>3, <2>4
<1>4. emu'.at \notin {"push", "buffer"} \cup Puts /\ emu.at \notin Waiting \cup {"buffer"}
  BY <1>2, <1>3 DEF Puts, Sending, Waiting, Sleeps
<1>5. Tokens'
  BY <1>2, <1>3, <1>4, TokensSendPush, TokensEmuMoves DEF InStep
<1>6. Returned'  BY <1>2, ReturnedSame DEF InStep
<1>7. Last'
  BY <1>2, <1>3, LastSendPush, LastEmuMoves DEF InStep
<1>8. Hand' /\ Race'
  BY <1>2, <1>4, RaceOutside DEF InStep
<1>9. Drawn'
  BY <1>2, <1>4, DrawnEmuMoves DEF InStep
<1>. QED  BY <1>5, <1>6, <1>7, <1>8, <1>9 DEF InStep

(* wait_for_return, before it finds a message.                             *)
LEMMA InStepSleeps ==
  ASSUME TypeOK, Calls, InStep,
         ReturnPopEmpty \/ ReturnLock \/ ReturnTest \/ ReturnClear \/ ReturnBlock
  PROVE  InStep'
<1>1. /\ emu \in EmuStates
      /\ UNCHANGED <<messageQueue, returnQueue, gs, picture, usingFirst, frame>>
      /\ emu.at \in {"pop"} \cup Sleeps
  BY DEF TypeOK, ReturnPopEmpty, ReturnLock, ReturnTest, ReturnClear, ReturnBlock, EmuOnly,
         display, Sleeps
<1>2. /\ emu'.at \in {"lock", "test", "clear", "block", "asleep", "pop"}
      /\ emu'.want = emu.want /\ emu'.phase = emu.phase
  <2>1. \E a \in {"lock", "test", "clear", "block", "asleep", "pop"} : EmuAt(a)
    BY DEF ReturnPopEmpty, ReturnLock, ReturnTest, ReturnClear, ReturnBlock
  <2>2. PICK a \in {"lock", "test", "clear", "block", "asleep", "pop"} : EmuAt(a)
    BY <2>1
  <2>3. a # "run"  OBVIOUS
  <2>. QED  BY <1>1, <2>2, <2>3, EmuMoves
<1>3. emu'.at \notin {"push", "buffer"} \cup Puts /\ emu.at \in Waiting
  BY <1>1, <1>2 DEF Puts, Waiting
<1>4. Tokens'  BY <1>1, <1>2, <1>3, TokensEmuMoves DEF InStep
<1>5. Returned'  BY <1>1, ReturnedSame DEF InStep
<1>6. Last'  BY <1>1, <1>2, <1>3, LastEmuMoves DEF InStep
<1>7. Hand' /\ Race'  BY RaceSleeps DEF InStep
<1>8. Drawn'  BY <1>1, <1>3, DrawnEmuMoves DEF InStep
<1>. QED  BY <1>4, <1>5, <1>6, <1>7, <1>8 DEF InStep

(* wait_for_return, once it has found a message.                           *)
LEMMA InStepReturnPop ==
  ASSUME TypeOK, Calls, Loop, InStep, ReturnPop, Live'
  PROVE  InStep'
<1>1. /\ emu \in EmuStates /\ emu.at = "pop" /\ retHead # retTail
      /\ retHead' = RetNext(retHead) /\ retHead \in RetIndex
      /\ UNCHANGED <<retTail, retArray, messageQueue, gs, picture, usingFirst, frame>>
  BY DEF TypeOK, ReturnPop, RetEmpty, display
<1>2. /\ RetHolds(retHead)
      /\ \A r : InRing(r)' => InRing(r)
  BY <1>1, PopRing
<1>3. Tokens'  BY TokensReturnPop DEF InStep
<1>4. Returned'  BY ReturnedPop DEF InStep
<1>5. Hand' /\ Race'  BY RaceReturnPop DEF InStep
<1>6. \/ emu'.at = "run"
      \/ emu'.at = "buffer" /\ emu'.want = emu.want /\ retArray[retHead] = emu.want
      \/ emu'.at = "was_empty" /\ emu'.want = emu.want /\ emu'.got = retArray[retHead]
  <2>1. CASE retArray[retHead] = emu.want /\ EmuAt(AfterReturn)
    BY <1>1, <2>1, EmuMoves, EmuRests DEF AfterReturn, EmuAt
  <2>2. CASE emu' = [emu EXCEPT !.at = "was_empty", !.got = retArray[retHead]]
    BY <1>1, <2>2 DEF EmuStates
  <2>. QED  BY <2>1, <2>2, EmuRests DEF ReturnPop
<1>7. Last'
  <2>1. emu.at \in Waiting /\ {"run", "buffer"} \cap (Waiting \cup {"flag", "wake"}) = {}
    BY <1>1 DEF Waiting, Puts, Sleeps
  <2>. QED  BY <1>1, <1>6, <2>1, LastEmuMoves DEF InStep
<1>8. Drawn'
  <2>1. emu'.at \in Puts => retArray[retHead] = Answer["render_crt"]
    BY <1>5, <1>6 DEF Hand, Puts
  <2>2. Ready' => Ready
    BY <1>1, <1>2, <1>6, <2>1 DEF Ready, InRing
  <2>. QED  BY <1>1, <2>2, DrawnSame DEF InStep
<1>. QED  BY <1>3, <1>4, <1>5, <1>7, <1>8 DEF InStep

LEMMA InStepPutBack ==
  ASSUME TypeOK, Loop, InStep, WasEmpty \/ PutBack \/ PutBackStore \/ PutBackPublish, Live'
  PROVE  InStep'
<1>1. /\ emu \in EmuStates /\ emu.at \in Puts
      /\ UNCHANGED <<messageQueue, gs, picture, usingFirst, frame>>
  BY DEF TypeOK, WasEmpty, PutBack, PutBackStore, PutBackPublish, EmuOnly, display, Puts
<1>2. Drawn'  BY <1>1 DEF InStep, Drawn, Ready, UsedBuffer
<1>3. CASE WasEmpty \/ PutBack
  <2>1. /\ emu.at \in {"was_empty", "putback"} /\ emu'.at \in {"putback", "store"}
        /\ emu'.got = emu.got /\ emu'.want = emu.want /\ emu'.phase = emu.phase
    <3>1. CASE WasEmpty  BY <1>1, <3>1 DEF WasEmpty, EmuStates
    <3>2. CASE PutBack
      <4>1. emu' = [emu EXCEPT !.at = "store", !.slot = retTail] /\ emu.at = "putback"
        BY <3>2, EmuRests DEF PutBack, Live
      <4>. QED  BY <1>1, <4>1 DEF EmuStates
    <3>. QED  BY <1>3, <3>1, <3>2
  <2>2. UNCHANGED returnQueue  BY <1>3 DEF WasEmpty, PutBack, EmuOnly
  <2>3. Tokens'  BY <1>1, <2>1, <2>2, TokensWasEmpty DEF InStep
  <2>4. Returned'  BY <1>1, <2>2, ReturnedSame DEF InStep
  <2>5. Last'  BY <1>1, <2>1, LastEmuMoves DEF InStep, Waiting
  <2>6. Hand' /\ Race'  BY <1>3, RaceWasEmpty, RacePutBack DEF InStep
  <2>. QED  BY <1>2, <2>3, <2>4, <2>5, <2>6 DEF InStep
<1>4. CASE PutBackStore
  <2>1. EmuAt("publish")  BY <1>4 DEF PutBackStore
  <2>2. Last'  BY <1>1, <2>1, EmuMoves, LastEmuMoves DEF InStep, Waiting
  <2>. QED
    BY <1>2, <1>4, <2>2, TokensPutBackStore, ReturnedPutBackStore, RacePutBackStore DEF InStep
<1>5. CASE PutBackPublish
  <2>1. EmuAt("lock") \/ EmuAt("pop")  BY <1>5 DEF PutBackPublish
  <2>2. Last'  BY <1>1, <2>1, EmuMoves, LastEmuMoves DEF InStep, Waiting
  <2>. QED
    BY <1>2, <1>5, <2>2, TokensPutBackPublish, ReturnedPutBackPublish, RacePutBackPublish
    DEF InStep
<1>. QED  BY <1>3, <1>4, <1>5

LEMMA InStepBuffer ==
  ASSUME TypeOK, Calls, Loop, Locks, InStep, GetFramebuffer \/ GetDownload
  PROVE  InStep'
<1>1. /\ emu.at = "buffer" /\ UNCHANGED <<messageQueue, returnQueue, gs, picture, frame>>
      /\ emu.at \in Waiting \cup {"buffer"}
  BY DEF GetFramebuffer, GetDownload, EmuOnly, display
<1>2. PICK p : /\ emu' = EmuIdle(p)
               /\ emu.want = Answer["render_crt"] \/ p = emu.phase
  BY DEF GetFramebuffer, GetDownload
<1>3. emu'.at = "run" /\ emu'.at \notin Puts /\ emu'.at # "buffer" /\ emu.at \notin Puts
  BY <1>1, <1>2, EmuRests DEF Puts
<1>4. Tokens'  BY <1>1, <1>2, TokensGot DEF InStep, Calls
<1>5. Returned'  BY <1>1, ReturnedSame DEF InStep
<1>6. Last'
  <2>1. "run" \notin Waiting \cup {"flag", "wake"}  BY DEF Waiting, Puts, Sleeps
  <2>. QED  BY <1>1, <1>3, <2>1, LastEmuMoves DEF InStep
<1>7. Hand' /\ Race'  BY RaceBuffer DEF InStep
<1>8. Drawn'
  <2>1. CASE GetFramebuffer
    <3>1. emu.want = Answer["render_crt"]  BY <2>1 DEF GetFramebuffer
    <3>2. Awaited("render_crt")  BY DEF InStep, Tokens, Requests
    <3>3. ~Out("render_crt") /\ emu.want # Answer["local_host_tx"]
      BY <1>1, <3>1, <3>2, AnswerValues DEF Awaited
    <3>4. /\ ~InRing(Answer["render_crt"])
          /\ gs.at \in {"push", "store", "publish"} => gs.ret # Answer["render_crt"]
      BY <1>3, <3>3, NoPictureOut DEF InStep
    <3>5. InRing(Answer["render_crt"])' = InRing(Answer["render_crt"])
      BY <1>1, RingSame
    <3>. QED  BY <1>1, <1>3, <3>4, <3>5 DEF Drawn, Ready
  <2>2. CASE GetDownload
    BY <1>1, <1>3, <2>2, DrawnEmuMoves DEF InStep, GetDownload, EmuOnly, display
  <2>. QED  BY <2>1, <2>2
<1>. QED  BY <1>4, <1>5, <1>6, <1>7, <1>8 DEF InStep

(* The GS thread, anywhere but at its push or its picture.                 *)
LEMMA InStepGSMoves ==
  ASSUME InStep, UNCHANGED <<messageQueue, returnQueue, picture, usingFirst, frame, emu>>,
         gs.at \notin {"spin", "draw", "push", "store", "publish"},
         gs'.at \notin {"spin", "draw", "push", "store", "publish"},
         \/ gs.at \notin {"ended", "set", "notify"}
         \/ gs.at = "set" /\ gs'.at = "notify" /\ gs'.ret = gs.ret
         \/ gs.at = "notify" /\ gs.ret # Death
         \/ gs.at = "notify" /\ gs'.at = "ended"
  PROVE  InStep'
<1>1. \A t \in Requests : ~AtGS(t)'  BY DEF AtGS
<1>2. Tokens'  BY <1>1, TokensGSMoves DEF InStep
<1>3. Returned'  BY ReturnedGSMoves DEF InStep
<1>4. Last'  BY LastGSMoves DEF InStep
<1>5. NoMore => NoMore'  BY DEF NoMore
<1>6. Hand' /\ Race'  BY <1>5, RaceGSMoves DEF InStep, Pushing
<1>7. Drawn'  BY DrawnGSMoves DEF InStep
<1>. QED  BY <1>2, <1>3, <1>4, <1>6, <1>7 DEF InStep

LEMMA InStepGSSleeps ==
  ASSUME TypeOK, InStep,
         \/ GSPopEmpty \/ GSLock \/ GSTest \/ GSClear \/ GSBlock
         \/ GSSignal \/ GSSetUnlocked \/ GSNotifyUnlocked
  PROVE  InStep'
<1>1. /\ gs \in GSStates
      /\ UNCHANGED <<messageQueue, returnQueue, picture, usingFirst, frame, emu>>
  BY DEF TypeOK, GSPopEmpty, GSLock, GSTest, GSClear, GSBlock, GSSignal, GSSetUnlocked,
         GSNotifyUnlocked, GSOnly, display
<1>2. ASSUME NEW a \in {"pop", "lock", "test", "clear", "block", "asleep"}, GSAt(a),
             gs.at \in {"pop", "lock", "test", "clear", "block", "asleep", "signal"}
      PROVE  InStep'
  <2>1. gs'.at = a  BY <1>1, <1>2, GSMoves, GSRests DEF GSAt
  <2>. QED  BY <1>1, <1>2, <2>1, InStepGSMoves
<1>3. CASE GSPopEmpty  BY <1>2, <1>3 DEF GSPopEmpty
<1>4. CASE GSLock
  <2>1. gs.at \in {"lock", "asleep"} /\ GSAt("test")  BY <1>4 DEF GSLock
  <2>. QED  BY <1>2, <2>1
<1>5. CASE GSTest
  <2>1. gs.at = "test" /\ (GSAt("clear") \/ GSAt("block"))  BY <1>5 DEF GSTest
  <2>. QED  BY <1>2, <2>1
<1>6. CASE GSClear  BY <1>2, <1>6 DEF GSClear
<1>7. CASE GSBlock  BY <1>2, <1>7 DEF GSBlock
<1>8. CASE GSSignal  BY <1>2, <1>8 DEF GSSignal
<1>9. CASE GSSetUnlocked
  <2>1. gs.at = "set" /\ gs'.at = "notify" /\ gs'.ret = gs.ret
    BY <1>1, <1>9, GSMoves DEF GSSetUnlocked
  <2>. QED  BY <1>1, <2>1, InStepGSMoves
<1>10. CASE GSNotifyUnlocked
  <2>1. CASE gs.ret = Death
    <3>1. gs.at = "notify" /\ GSAt("ended")  BY <1>10, <2>1 DEF GSNotifyUnlocked, Death
    <3>2. gs'.at = "ended"  BY <1>1, <3>1, GSMoves
    <3>. QED  BY <1>1, <3>1, <3>2, InStepGSMoves
  <2>2. CASE gs.ret # Death
    <3>1. gs.at = "notify" /\ GSAt("pop")  BY <1>10, <2>2 DEF GSNotifyUnlocked, Death
    <3>2. gs'.at = "pop"  BY <3>1, GSRests DEF GSAt
    <3>. QED  BY <1>1, <2>2, <3>1, <3>2, InStepGSMoves
  <2>. QED  BY <2>1, <2>2
<1>. QED  BY <1>3, <1>4, <1>5, <1>6, <1>7, <1>8, <1>9, <1>10

LEMMA InStepGSPop ==
  ASSUME TypeOK, Loop, InStep, GSPop
  PROVE  InStep'
<1>1. /\ gs.at = "pop" /\ messageQueue # <<>> /\ gs \in GSStates
      /\ UNCHANGED <<returnQueue, picture, usingFirst, frame, emu>>
  BY DEF GSPop, TypeOK, display
<1>2. /\ gs'.at \in {"pop", "push", "spin", "ended"}
      /\ gs'.at = "push" => gs'.ret # Answer["render_crt"]
  <2>. DEFINE m == Head(messageQueue)
  <2>1. CASE UNCHANGED gs  BY <1>1, <2>1
  <2>2. CASE gs' = [gs EXCEPT !.at = "push", !.ret = "death_error"]
    <3>1. gs'.at = "push" /\ gs'.ret = Death  BY <1>1, <2>2 DEF GSStates, Death
    <3>. QED  BY <3>1, AnswerValues DEF Requests
  <2>3. CASE gs' = [gs EXCEPT !.at = "spin", !.msg = m]
    BY <1>1, <2>3 DEF GSStates
  <2>4. CASE /\ m.type \in {"save_state", "load_state"}
             /\ gs' = [gs EXCEPT !.at = "push", !.msg = m, !.ret = Answer[m.type]]
    <3>1. gs'.at = "push" /\ gs'.ret = Answer[m.type]  BY <1>1, <2>4 DEF GSStates
    <3>. QED  BY <2>4, <3>1, AnswerValues
  <2>5. CASE GSAt("ended")
    <3>1. gs'.at = "ended"  BY <1>1, <2>5, GSMoves
    <3>. QED  BY <3>1
  <2>. QED  BY <2>1, <2>2, <2>3, <2>4, <2>5 DEF GSPop
<1>3. Tokens'  BY TokensGSPop DEF InStep
<1>4. Returned'  BY <1>1, ReturnedGSMoves DEF InStep
<1>5. Last'  BY LastGSPop DEF InStep
<1>6. ~NoMore  BY <1>1 DEF NoMore
<1>7. Hand' /\ Race'  BY <1>1, <1>2, <1>6, RaceGSMoves DEF InStep, Pushing
<1>8. Drawn'  BY <1>1, <1>2, DrawnGSMoves DEF InStep
<1>. QED  BY <1>3, <1>4, <1>5, <1>7, <1>8 DEF InStep

LEMMA InStepGSDraw ==
  ASSUME TypeOK, Loop, Contents, InStep, GSSpin \/ GSDraw \/ GSPush
  PROVE  InStep'
<1>1. /\ gs \in GSStates /\ UNCHANGED <<messageQueue, returnQueue, usingFirst, frame, emu>>
      /\ picture \in [Buffers -> Frames] /\ UsedBuffer \in Buffers
  BY MessageTypes1 DEF GSSpin, GSDraw, GSPush, GSOnly, display, TypeOK
<1>2. Tokens'  BY TokensGSDraw DEF InStep
<1>3. CASE GSSpin
  <2>1. gs.at = "spin" /\ gs'.at = "draw" /\ UNCHANGED picture
    BY <1>1, <1>3, GSMoves DEF GSSpin
  <2>2. Returned'  BY <1>1, <2>1, ReturnedGSMoves DEF InStep
  <2>3. Last'  BY <1>1, <2>1, LastGSMoves DEF InStep
  <2>4. ~NoMore  BY <2>1 DEF NoMore
  <2>5. Hand' /\ Race'  BY <1>1, <2>1, <2>4, RaceGSMoves DEF InStep, Pushing
  <2>6. Drawn'  BY <1>1, <2>1, DrawnGSMoves DEF InStep
  <2>. QED  BY <1>2, <2>2, <2>3, <2>5, <2>6 DEF InStep
<1>4. CASE GSDraw
  <2>1. gs.at = "draw" /\ gs'.at = "push" /\ gs'.ret = Answer[gs.msg.type]
    BY <1>1, <1>4 DEF GSDraw, GSStates
  <2>2. gs.msg.type \in {"render_crt", "local_host_tx"}  BY <2>1 DEF Loop
  <2>3. gs'.ret # Death  BY <2>1, <2>2, AnswerValues DEF Requests
  <2>4. Returned'  BY <1>1, <2>1, ReturnedGSMoves DEF InStep
  <2>5. Last'  BY <1>1, <2>3, LastGSMoves DEF InStep
  <2>6. ~NoMore  BY <2>1 DEF NoMore
  <2>7. Hand' /\ Race'  BY <1>1, <2>1, <2>6, RaceGSMoves DEF InStep, Pushing
  <2>8. Drawn'
    <3>1. CASE gs.msg.type = "render_crt"
      <4>1. gs.msg.buffer = UsedBuffer /\ gs.msg.frame = frame
        BY <2>1, <3>1 DEF Contents, Addressed
      <4>2. picture'[UsedBuffer] = frame
        BY <1>1, <1>4, <3>1, <4>1 DEF GSDraw
      <4>. QED  BY <1>1, <4>2 DEF Drawn, UsedBuffer
    <3>2. CASE gs.msg.type # "render_crt"
      <4>1. UNCHANGED picture  BY <1>4, <3>2 DEF GSDraw
      <4>2. gs'.ret # Answer["render_crt"]  BY <2>1, <2>2, <3>2, AnswerValues
      <4>. QED  BY <1>1, <4>1, <4>2, DrawnGSMoves DEF InStep
    <3>. QED  BY <3>1, <3>2
  <2>. QED  BY <1>2, <2>4, <2>5, <2>7, <2>8 DEF InStep
<1>5. CASE GSPush
  <2>1. /\ gs.at = "push" /\ gs'.at = "store" /\ gs'.ret = gs.ret /\ UNCHANGED picture
    BY <1>1, <1>5 DEF GSPush, GSOnly, display, GSStates
  <2>2. Returned'  BY <1>1, <2>1, ReturnedGSMoves DEF InStep
  <2>3. Last'  BY <1>1, <2>1, LastGSMoves DEF InStep
  <2>4. Hand' /\ Race'  BY <1>5, RaceGSPush DEF InStep
  <2>5. Drawn'  BY <1>1, <2>1, DrawnGSMoves DEF InStep
  <2>. QED  BY <1>2, <2>2, <2>3, <2>4, <2>5 DEF InStep
<1>. QED  BY <1>3, <1>4, <1>5

LEMMA InStepGSStore ==
  ASSUME TypeOK, Loop, InStep, GSStore
  PROVE  InStep'
<1>1. /\ gs.at = "store" /\ GSAt("publish") /\ gs \in GSStates /\ gs.slot \in RetIndex
      /\ DOMAIN retArray = RetIndex /\ retArray' = [retArray EXCEPT ![gs.slot] = gs.ret]
      /\ UNCHANGED <<retTail, retHead, messageQueue, picture, usingFirst, frame, emu>>
  BY DEF GSStore, RetStore, display, TypeOK, GSStates
<1>2. gs'.at = "publish" /\ gs'.ret = gs.ret  BY <1>1, GSMoves
<1>3. Last'  BY <1>1, <1>2, LastGSMoves DEF InStep
<1>4. InRing(Answer["render_crt"])' =>
        InRing(Answer["render_crt"]) \/ gs.ret = Answer["render_crt"]
  <2>1. \A i \in RetIndex : RetHolds(i)' = RetHolds(i)  BY <1>1 DEF RetHolds
  <2>2. \A i \in RetIndex : retArray'[i] = retArray[i] \/ retArray'[i] = gs.ret
    BY <1>1
  <2>. QED  BY <2>1, <2>2 DEF InRing
<1>5. Drawn'
  <2>1. Ready' => Ready  BY <1>1, <1>2, <1>4 DEF Ready
  <2>. QED  BY <1>1, <2>1, DrawnSame DEF InStep
<1>. QED
  BY <1>3, <1>5, TokensGSStore, ReturnedGSStore, RaceGSStore DEF InStep

LEMMA InStepGSPublish ==
  ASSUME TypeOK, Loop, InStep, GSPublish
  PROVE  InStep'
<1>1. /\ GSAt("set") \/ GSAt("signal")
      /\ retTail' = RetNext(gs.slot) /\ gs \in GSStates /\ gs.slot \in RetIndex
      /\ UNCHANGED <<retHead, retArray, messageQueue, picture, usingFirst, frame, emu>>
  BY DEF GSPublish, RetPublish, display, TypeOK, GSStates
<1>2. gs.at = "publish" /\ gs'.at \in {"set", "signal"}
  <2>1. gs.at = "publish"  BY DEF GSPublish
  <2>. QED  BY <1>1, <2>1, GSMoves DEF GSPublish
<1>3. Last'  BY <1>1, <1>2, LastGSMoves DEF InStep
<1>4. InRing(Answer["render_crt"])' =>
        \/ InRing(Answer["render_crt"]) \/ gs.ret = Answer["render_crt"] \/ emu.at \in Puts
  <2>1. CASE InTurn
    <3>1. retTail = gs.slot /\ RetNext(retTail) # retHead /\ retTail' = RetNext(retTail)
      BY <1>1, <2>1 DEF InTurn
    <3>2. InRing(Answer["render_crt"])' <=>
            InRing(Answer["render_crt"]) \/ Answer["render_crt"] = retArray[retTail]
      BY <1>1, <3>1, PublishRing
    <3>3. retArray[retTail] = gs.ret \/ emu.at = "publish"
      BY <1>2, <2>1, <3>1 DEF InTurn
    <3>. QED  BY <3>2, <3>3 DEF Puts
  <2>2. CASE Shared \/ Again \/ Taken
    <3>1. UNCHANGED returnQueue
      BY <1>1, <2>2 DEF Shared, Again, Taken, returnQueue
    <3>. QED  BY <3>1, RingSame
  <2>3. CASE Passed
    <3>1. retHead' = retTail' /\ retTail' \in RetIndex
      BY <1>1, <2>3, Steps DEF Passed
    <3>2. ~InRing(Answer["render_crt"])'
      BY <3>1, NoneWithin DEF InRing, RetHolds, Within
    <3>. QED  BY <3>2
  <2>. QED  BY <1>2, <2>1, <2>2, <2>3 DEF InStep, Race, Pushing
<1>5. Drawn'
  <2>1. Ready' => Ready  BY <1>1, <1>2, <1>4 DEF Ready
  <2>. QED  BY <1>1, <2>1, DrawnSame DEF InStep
<1>. QED
  BY <1>3, <1>5, TokensGSPublish, ReturnedGSPublish, RaceGSPublish DEF InStep

(* After Init and after Reset nothing is out.                              *)
Fresh ==
  /\ messageQueue = <<Message("set_crt")>> /\ retTail = 0 /\ retHead = 0
  /\ emu = EmuIdle("start") /\ gs = GSStart

LEMMA InStepFresh == Fresh => Contents /\ InStep
<1>. SUFFICES ASSUME Fresh PROVE Contents /\ InStep
  OBVIOUS
<1>. USE DEF Fresh
<1>1. emu.at = "run" /\ emu.want = None /\ gs.at = "pop" /\ gs.ret = None
  BY DEF EmuIdle, GSStart
<1>2. \A i \in DOMAIN messageQueue : i = 1 /\ messageQueue[i].type = "set_crt"
  BY DEF Message
<1>3. Contents  BY <1>1, <1>2 DEF Contents, Addressed
<1>4. QueueOnce /\ \A t \in Requests : ~InQueue(t)
  BY <1>2 DEF QueueOnce, InQueue, Requests
<1>5. /\ RingOnce /\ \A r : ~InRing(r)
      /\ \A i \in RetIndex : ~RetHolds(i)
  BY MessageTypes1, EmptyRing, NoneWithin, HoldsWithin
<1>6. \A t \in Requests : ~Unsent(t) /\ ~AtGS(t) /\ ~InHand(t)
  BY <1>1 DEF Unsent, AtGS, InHand, Puts
<1>7. \A t \in Requests : ~Out(t)  BY <1>4, <1>5, <1>6 DEF Out
<1>8. Tokens  BY <1>4, <1>5, <1>6, <1>7 DEF Tokens, OnePlace, Awaited
<1>9. Returned  BY <1>5 DEF Returned
<1>10. Last  BY <1>1 DEF Last, Waiting, Puts, Sleeps
<1>11. Hand /\ Race  BY <1>1 DEF Hand, Race, Puts, Pushing
<1>12. Drawn  BY <1>1, <1>5 DEF Drawn, Ready, Puts
<1>. QED  BY <1>3, <1>8, <1>9, <1>10, <1>11, <1>12 DEF InStep

LEMMA StepInStep ==
  ASSUME TypeOK, Calls, Loop, Locks, Contents, InStep, Next, Live'
  PROVE  InStep'
<1>1. CASE RunsFrame \/ MayDo
  <2>1. CASE EmulationError
    <3>1. emu'.phase = "dead"  BY <2>1 DEF EmulationError, TypeOK, EmuStates
    <3>. QED  BY <3>1 DEF Live
  <2>2. CASE Exit
    <3>1. emu'.phase = "dead"  BY <2>2, EmuCalls DEF Exit, TypeOK
    <3>. QED  BY <3>1 DEF Live
  <2>. QED  BY <1>1, <2>1, <2>2, InStepFrame DEF RunsFrame, MayDo
<1>2. CASE Finishes
  <2>1. CASE Reset
    <3>1. Fresh'  BY <2>1 DEF Reset, Fresh, Message, EmuIdle, GSStart
    <3>. QED  BY <3>1, InStepFresh, PTL
  <2>. QED
    BY <1>2, <2>1, InStepSend, InStepSleeps, InStepReturnPop, InStepPutBack, InStepBuffer
    DEF Finishes, WaitForReturn
<1>3. CASE EventLoop
  BY <1>3, InStepGSSleeps, InStepGSPop, InStepGSDraw, InStepGSStore, InStepGSPublish
  DEF EventLoop
<1>4. CASE SpuriousWakeup
  <2>1. UNCHANGED <<messageQueue, returnQueue, recieveData, display, emu, gs>>
    BY <1>4 DEF SpuriousWakeup
  <2>2. Tokens'  BY <2>1, TokensSame DEF InStep
  <2>3. Returned'  BY <2>1, ReturnedSame DEF InStep
  <2>4. Last'  BY <2>1 DEF InStep, Last
  <2>5. Hand' /\ Race'  BY <2>1, RaceSame DEF InStep
  <2>6. Drawn'
    <3>1. Ready' => Ready  BY <2>1, RingSame DEF Ready
    <3>. QED  BY <2>1, <3>1, DrawnSame DEF InStep, display
  <2>. QED  BY <2>2, <2>3, <2>4, <2>5, <2>6 DEF InStep
<1>. QED  BY <1>1, <1>2, <1>3, <1>4 DEF Next

-----------------------------------------------------------------------------
(* The invariant and the theorems                                          *)

IInv ==
  /\ TypeOK /\ Loop /\ Calls /\ Locks
  /\ Contents /\ Displayed
  /\ Live => InStep

LEMMA InitInv == Init => IInv
<1>. SUFFICES ASSUME Init PROVE IInv
  OBVIOUS
<1>1. Fresh /\ currentLock = None  BY DEF Init, Fresh
<1>2. Displayed  BY <1>1 DEF Displayed
<1>. QED
  BY <1>1, <1>2, InitTypes, InitCalls, InitLocks, InStepFresh DEF IInv

LEMMA StepInv == IInv /\ [Next]_vars => IInv'
<1>. SUFFICES ASSUME IInv, [Next]_vars PROVE IInv'
  OBVIOUS
<1>. USE DEF IInv
<1>1. TypeOK' /\ Loop' /\ Calls' /\ Locks'
  BY StepTypes, StepCalls, StepLocks
<1>2. CASE Next
  <2>1. Contents'  BY <1>2, StepContents
  <2>2. Displayed'  BY <1>2, StepDisplayed
  <2>3. ASSUME Live' PROVE InStep'
    <3>1. CASE Live  BY <1>2, <2>3, <3>1, StepInStep
    <3>2. CASE ~Live
      <4>1. StartFrame \/ GetFramebuffer \/ Reset
        BY <1>2, <2>3, <3>2, Phases DEF Live
      <4>2. ~StartFrame /\ ~GetFramebuffer
        BY <3>2 DEF Live, StartFrame, GetFramebuffer, Calls, Sending
      <4>3. Fresh'
        BY <4>1, <4>2 DEF Reset, Fresh, Message, EmuIdle, GSStart
      <4>. QED  BY <4>3, InStepFresh, PTL
    <3>. QED  BY <3>1, <3>2
  <2>. QED  BY <1>1, <2>1, <2>2, <2>3
<1>3. CASE UNCHANGED vars
  <2>. USE <1>3 DEF vars, display, flags
  <2>1. Contents'  BY ContentsSame DEF Contents
  <2>2. Displayed'  BY DEF Displayed, UsedBuffer
  <2>3. ASSUME Live' PROVE InStep'
    <3>1. Live /\ InStep  BY <2>3 DEF Live
    <3>2. Tokens' /\ Returned'  BY <3>1, TokensSame, ReturnedSame DEF InStep
    <3>3. Last'  BY <3>1 DEF InStep, Last
    <3>4. Hand' /\ Race'  BY <3>1, RaceSame DEF InStep
    <3>5. Ready' => Ready  BY RingSame DEF Ready
    <3>6. Drawn'  BY <3>1, <3>5, DrawnSame DEF InStep
    <3>. QED  BY <3>2, <3>3, <3>4, <3>6 DEF InStep
  <2>. QED  BY <1>1, <2>1, <2>2, <2>3
<1>. QED  BY <1>2, <1>3

THEOREM Invariance == Spec => []IInv
BY InitInv, StepInv, PTL DEF Spec

(* Both threads, both queues, the flags and the buffers keep to their      *)
(* types.                                                                  *)
THEOREM TypesKept == Spec => []TypeOK
BY Invariance, PTL DEF IInv

(* The buffer on display is locked by the emulation thread, and the buffer *)
(* that the GS thread draws into, or has drawn into and not yet signalled, *)
(* by the GS thread.                                                       *)
THEOREM MutualExclusion == Spec => []Locks
BY Invariance, PTL DEF IInv

(* While the program runs, a request of the emulation thread, or its       *)
(* answer, is in one place at most, and none but a picture is out that is  *)
(* not awaited: neither queue loses one and brings back another.           *)
THEOREM RequestsInOnePlace == Spec => [](Live => Tokens)
<1>1. IInv => (Live => Tokens)  BY DEF IInv, InStep
<1>. QED  BY <1>1, Invariance, PTL

(* get_framebuffer gives the frame that has just been emulated, and the    *)
(* picture on display stays that one until the next.                       *)
THEOREM PictureOnDisplay == Spec => []DisplayedFrame
<1>1. IInv => DisplayedFrame
  <2>1. TypeOK => emu.phase \in {"start", "body", "vblank", "dead"}
    BY DEF TypeOK, EmuStates
  <2>. QED  BY <2>1 DEF IInv, Displayed, DisplayedFrame
<1>. QED  BY <1>1, Invariance, PTL

(* When a frame starts no answer is in return_queue, no request in         *)
(* message_queue and none with the GS thread, whatever was put back and    *)
(* lost at return_queue in the frame before.                               *)
THEOREM NothingLeftBehind == Spec => []NothingLeftOver
<1>1. IInv => NothingLeftOver
  <2>. SUFFICES ASSUME IInv, emu.phase = "start", emu.at = "run"
                PROVE  /\ \A i \in RetIndex : RetHolds(i) => retArray[i] = "death_error"
                       /\ \A i \in DOMAIN messageQueue : messageQueue[i].type \notin Requests
                       /\ gs.at \in {"spin", "draw", "push", "store", "publish"} =>
                            gs.ret = "death_error"
    BY DEF NothingLeftOver
  <2>1. InStep /\ Loop /\ emu.want = None  BY DEF IInv, Live, Calls
  <2>2. \A t \in Requests : ~Out(t)
    BY <2>1, NothingOut DEF InStep
  <2>3. ASSUME NEW i \in RetIndex, RetHolds(i) PROVE retArray[i] = "death_error"
    <3>1. retArray[i] \in ReturnTypes  BY <2>1, <2>3 DEF InStep, Returned
    <3>2. \A t \in Requests : retArray[i] # Answer[t]
      BY <2>2, <2>3 DEF Out, InRing
    <3>. QED  BY <3>1, <3>2, AnswerValues DEF ReturnTypes, Requests
  <2>4. ASSUME NEW i \in DOMAIN messageQueue PROVE messageQueue[i].type \notin Requests
    BY <2>2 DEF Out, InQueue
  <2>5. ASSUME gs.at \in {"spin", "draw", "push", "store", "publish"}
        PROVE  gs.ret = "death_error"
    <3>1. \A t \in Requests : ~AtGS(t)  BY <2>2 DEF Out
    <3>2. gs.at \notin {"spin", "draw"}
      BY <2>1, <3>1 DEF Loop, AtGS, Requests
    <3>3. gs.at = "publish" => retTail = gs.slot
      <4>1. emu.want # Answer["local_host_tx"]
        BY <2>1, AnswerValues DEF None
      <4>. QED  BY <2>1, <4>1 DEF InStep, Race, Pushing, InTurn
    <3>4. \A t \in Requests : gs.ret # Answer[t]
      BY <2>5, <3>1, <3>2, <3>3 DEF AtGS
    <3>. QED  BY <2>1, <2>5, <3>2, <3>4 DEF Loop, Death
  <2>. QED  BY <2>3, <2>4, <2>5
<1>. QED  BY <1>1, Invariance, PTL
=============================================================================

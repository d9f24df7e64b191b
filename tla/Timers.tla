------------------------------- MODULE Timers -------------------------------
(***************************************************************************)
(* The timers of the EE (EmotionTiming, ee/timers.cpp) and what serves     *)
(* them in the scheduler (scheduler.cpp: the functions on timers), inside  *)
(* the loop of Emulator::run that Scheduler models.                        *)
(*                                                                         *)
(* A timer's counter is brought up to date only when it is looked at.  Its *)
(* next hit, of the compare value or of the overflow, is planned as an     *)
(* event of the scheduler; the event's function looks at the counter,      *)
(* calls the timer's callback and plans the next hit.  The vertical blank  *)
(* may pause a timer or set it to 0 (gate).                                *)
(*                                                                         *)
(* The clock of a timer is given by the EE cycles of a tick, so that the   *)
(* conversions are exact: the three rates of the bus clock are.            *)
(***************************************************************************)
EXTENDS Scheduler

CONSTANTS
  TimerIds,
  Mask,            (* overflow_mask, 0xFFFF                                *)
  Settle,          (* the 8 cycles of calculate_timer_event_delta          *)
  Controls,        (* what the program writes to the mode register: see    *)
                   (* ControlWords                                         *)
  Counters, Compares,    (* what it writes to the other two                *)
  MaxWrites        (* bound: the writes of a behaviour                     *)

NoGate == -1

ControlWords ==
  [enabled : BOOLEAN, tick : Nat \ {0}, gate : {NoGate} \cup 0 .. 3,
   clear : BOOLEAN,                        (* clear_on_reference           *)
   onCompare : BOOLEAN, onOverflow : BOOLEAN,      (* interrupts enabled   *)
   ack : BOOLEAN]                          (* clear both interrupt flags   *)

ASSUME TimersAssumption ==
  /\ Settle \in Nat \ {0} /\ MaxWrites \in Nat
  /\ TimerIds \subseteq Nat /\ IsFiniteSet(TimerIds)
  /\ Mask \in Nat /\ (Never + 1) % (Mask + 1) = 0    (* both 2^n - 1       *)
  /\ Never > 0 /\ Settle <= Never
  /\ Horizon + FrameCycles <= Never        (* the EE's clock does not wrap *)
  /\ Controls \subseteq ControlWords
  /\ Counters \subseteq 0 .. Mask /\ Compares \subseteq 0 .. Mask

VARIABLES
  timers,          (* SchedulerTimer and Timer, see TimerState             *)
  writes,          (* the writes so far                                    *)
  ideal,           (* the cycles a timer has counted that never stops to   *)
                   (* look: what its counter stands for                    *)
  owed,            (* the hits a running timer has had whose callback is   *)
                   (* to come                                              *)
  strayed          (* the timers that a gate has controlled since their    *)
                   (* counters were set                                    *)

timerVars == <<timers, writes, ideal, owed, strayed>>
allVars == <<schedulerVars, timerVars>>

TimerState ==
  [counter : Nat, target : 0 .. Mask \cup {Never}, tick : Nat \ {0},
   rest : Nat,                             (* remainder_clocks             *)
   last : Nat, paused : BOOLEAN, onCompare : BOOLEAN, onOverflow : BOOLEAN,
   enabled : BOOLEAN, gated : BOOLEAN, gate : {NoGate} \cup 0 .. 3, clear : BOOLEAN,
   compared : BOOLEAN, overflowed : BOOLEAN]     (* compare_int, overflow_int *)

Greater(i, j) == IF i > j THEN i ELSE j

(* An int64_t that overflows.                                              *)
Wrap(n) == IF n > Never THEN n - 2 * (Never + 1) ELSE n

-----------------------------------------------------------------------------
(* The scheduler's functions, on a timer t and the list q                  *)

(* update_timer_counter                                                    *)
UpdateCounter(t) ==
  IF t.paused THEN t
  ELSE [t EXCEPT !.counter = @ + (t.rest + (ee - t.last)) \div t.tick,
                 !.rest = (@ + (ee - t.last)) % t.tick,
                 !.last = ee]

(* Mutant: only the overflow is looked for.                                *)
EventDeltaOverflow(t) ==
  IF t.paused THEN Never \div 2
  ELSE Greater((Mask + 1 - t.counter) * t.tick - t.rest, Settle)

(* calculate_timer_event_delta.  The difference to an overflow that has    *)
(* been passed is unsigned, and a very long time.  A compare value that    *)
(* was never written is the largest int64_t.                               *)
EventDelta(t) ==
  LET overflow == IF t.counter > Mask + 1 THEN Never \div 2
                  ELSE (Mask + 1 - t.counter) * t.tick - t.rest
      target == ((t.target - t.counter) % (Mask + 1)) * t.tick - t.rest
  IN IF t.paused THEN Never \div 2
     ELSE IF t.target <= t.counter THEN Greater(overflow, Settle)
     ELSE Greater(Lesser(overflow, target), Settle)

IsEventOf(e, i) == e.func = "timer" /\ e.param = i

SetEventTime(q, i, time) ==
  [q EXCEPT !.events = [n \in DOMAIN @ |-> IF IsEventOf(@[n], i)
                                           THEN [@[n] EXCEPT !.time = time] ELSE @[n]]]

(* update_timer_event_time                                                 *)
Plan(q, i, t) ==
  LET time == ee + EventDelta(t)
  IN [SetEventTime(q, i, time) EXCEPT !.closest = Lesser(time, @)]

PlanIfRunning(q, i, t) == IF t.paused THEN q ELSE Plan(q, i, t)

(* restart_timer: add_event with the largest delta overflows.              *)
Restart(q, i, t) ==
  Plan([events |-> Append(q.events, Event("timer", Wrap(ee + Never), i)),
        closest |-> Lesser(Wrap(ee + Never), q.closest)], i, t)

(* set_timer_counter                                                       *)
SetCounter(t, n) == [UpdateCounter(t) EXCEPT !.counter = n]

(* Mutant: a timer goes on from when it was last looked at.                *)
SetPauseKeepsLast(s, i, paused) ==
  LET t == s.t
  IN IF paused = t.paused THEN s
     ELSE IF paused
     THEN [t |-> [UpdateCounter(t) EXCEPT !.paused = TRUE],
           q |-> SetEventTime(s.q, i, Never)]
     ELSE [t |-> [t EXCEPT !.paused = FALSE], q |-> Plan(s.q, i, t)]

(* set_timer_pause.  The event of a timer that goes on is planned while    *)
(* the timer is still paused.                                              *)
SetPause(s, i, paused) ==
  LET t == s.t
  IN IF paused = t.paused THEN s
     ELSE IF paused
     THEN [t |-> [UpdateCounter(t) EXCEPT !.paused = TRUE],
           q |-> SetEventTime(s.q, i, Never)]
     ELSE [t |-> [t EXCEPT !.paused = FALSE, !.last = ee], q |-> Plan(s.q, i, t)]

-----------------------------------------------------------------------------
(* EmotionTiming *)

(* Emulator::reset; create_timer at time 0.                                *)
TimersInit ==
  /\ ee = 0 /\ run = 0
  /\ bus = [count |-> 0, remainder |-> 0]
  /\ iop = [count |-> 0, remainder |-> 0]
  /\ given = [bus |-> 0, iop |-> 0]
  /\ LET q == AddEvent(AddEvent(NoEvents, "hblank", HblankCycles, 0),
                       "sound", SoundCycles, 0)
     IN queue = [q EXCEPT !.events =
                   SetToSeq({Event("timer", Never, i) : i \in TimerIds}) \o @]
  /\ at = "frame" /\ it = 1 /\ newTime = Never
  /\ frameEnded = TRUE /\ frameStart = 0
  /\ timers = [i \in TimerIds |->
       [counter |-> 0, target |-> Never, tick |-> Never, rest |-> 0, last |-> 0,
        paused |-> TRUE, onCompare |-> FALSE, onOverflow |-> FALSE, enabled |-> FALSE,
        gated |-> FALSE, gate |-> NoGate, clear |-> FALSE,
        compared |-> FALSE, overflowed |-> FALSE]]
  /\ writes = 0
  /\ ideal = [i \in TimerIds |-> 0] /\ owed = [i \in TimerIds |-> {}]
  /\ strayed = {}

(* The cycles since the counter was 0, now                                 *)
Position(t) == t.counter * t.tick + t.rest + IF t.paused THEN 0 ELSE ee - t.last

Period(t) == (Mask + 1) * t.tick

(* The program has set timer i, or the vertical blank has: t and q are the *)
(* results, and what the timer had counted is forgotten if it was set.     *)
Becomes(i, s, set) ==
  /\ timers' = [timers EXCEPT ![i] = s.t]
  /\ queue' = s.q
  /\ ideal' = IF set THEN [ideal EXCEPT ![i] = Position(s.t)] ELSE ideal
  /\ owed' = [owed EXCEPT ![i] = {}]

Writing ==
  /\ at = "components" /\ writes < MaxWrites /\ writes' = writes + 1
  /\ UNCHANGED <<clocks, pass, frameEnded, frameStart>>

(* read32 of the counter                                                   *)
ReadCounter(i) ==
  /\ at = "components" /\ ~timers[i].paused
  /\ timers' = [timers EXCEPT ![i] = UpdateCounter(@)]
  /\ UNCHANGED <<schedulerVars, writes, ideal, owed, strayed>>

WriteCounter(i) ==
  /\ \E n \in Counters : LET t == SetCounter(timers[i], n)
                         IN Becomes(i, [t |-> t, q |-> PlanIfRunning(queue, i, t)], TRUE)
  /\ strayed' = IF timers[i].gate = NoGate THEN strayed \ {i} ELSE strayed
  /\ Writing

WriteCompare(i) ==
  /\ \E n \in Compares : LET t == [UpdateCounter(timers[i]) EXCEPT !.target = n]
                         IN Becomes(i, [t |-> t, q |-> PlanIfRunning(queue, i, t)], FALSE)
  /\ UNCHANGED strayed
  /\ Writing

(* write_control, set_timer_pause, set_timer_clockrate, set_timer_int_mask *)
WriteMode(i) ==
  /\ \E c \in Controls :
       LET t == [timers[i] EXCEPT !.enabled = c.enabled, !.gate = c.gate, !.clear = c.clear,
                                  !.gated = (c.gate # NoGate),
                                  !.compared = @ /\ ~c.ack, !.overflowed = @ /\ ~c.ack]
           s == SetPause([t |-> t, q |-> queue], i, ~(t.enabled /\ ~t.gated))
           u == [UpdateCounter(s.t) EXCEPT !.tick = c.tick, !.rest = 0,
                                           !.onCompare = c.onCompare,
                                           !.onOverflow = c.onOverflow]
       IN /\ Becomes(i, [t |-> u, q |-> PlanIfRunning(s.q, i, u)], TRUE)
          /\ strayed' = IF c.gate = NoGate THEN strayed ELSE strayed \cup {i}
  /\ Writing

(* gate(true, high), for one timer                                         *)
Resets(t, high) == t.gate = 3 \/ (t.gate = 1 /\ high) \/ (t.gate = 2 /\ ~high)

Gate(s, i, high) ==
  LET t == [(IF Resets(s.t, high) THEN SetCounter(s.t, 0) ELSE s.t)
              EXCEPT !.gated = (s.t.gate = 0 /\ high)]
      q == IF Resets(s.t, high) THEN PlanIfRunning(s.q, i, t) ELSE s.q
  IN IF s.t.gate = NoGate THEN s
     ELSE SetPause([t |-> t, q |-> q], i, ~(t.enabled /\ ~t.gated))

(* The vertical blank and the other events of Scheduler.  vblank_start and *)
(* vblank_end assert an interrupt, which appends an event, and gate the    *)
(* timers, which changes theirs in place: the order is the same.  A timer  *)
(* moves only its own event, so gate may take the timers in any order.     *)
GateAll(high) ==
  LET s == [i \in TimerIds |-> Gate([t |-> timers[i], q |-> queue], i, high)]
  IN [timers |-> [i \in TimerIds |-> s[i].t],
      q |-> [events  |-> [n \in DOMAIN queue.events |->
                            LET e == queue.events[n]
                            IN IF e.func = "timer" THEN s[e.param].q.events[n] ELSE e],
             closest |-> Min({queue.closest} \cup {s[i].q.closest : i \in TimerIds})]]

Blank ==
  /\ Due /\ queue.events[it].func \in {"vblank_start", "vblank_end"}
  /\ LET start == queue.events[it].func = "vblank_start"
         g == GateAll(start)
         q == Raise(g.q)
     IN /\ queue' = Erase(IF start THEN AddEvent(q, "gs_vblank", VblankDelay, 0) ELSE q, it)
        /\ frameEnded' = (frameEnded \/ ~start)
        /\ timers' = g.timers
        /\ ideal' = [i \in TimerIds |->
                       IF Resets(timers[i], start) THEN Position(g.timers[i]) ELSE ideal[i]]
        /\ owed' = [i \in TimerIds |-> IF timers[i].gate = NoGate THEN owed[i] ELSE {}]
  /\ UNCHANGED <<clocks, pass, frameStart, writes, strayed>>

RunOtherEvent ==
  /\ Due /\ queue.events[it].func \notin {"vblank_start", "vblank_end", "timer"}
  /\ RunEvent /\ UNCHANGED timerVars

(* Mutant: a counter that stands at the compare value is past it.          *)
ComparedStrict(old, t) ==
  \/ old < t.target /\ t.counter >= t.target
  \/ old >= t.target /\ t.counter >= t.target + Mask + 1

(* The counter has met the compare value since it was old.                 *)
Compared(old, t) ==
  \/ old <= t.target /\ t.counter >= t.target
  \/ old >= t.target /\ t.counter >= t.target + Mask + 1

(* timer_event, with timer_interrupt as its callback                       *)
TimerEvent(i) ==
  /\ Due /\ IsEventOf(queue.events[it], i)
  /\ LET t0 == UpdateCounter(timers[i])
         compare == Compared(timers[i].counter, t0) /\ t0.onCompare
         t1 == IF compare THEN [t0 EXCEPT !.counter = IF t0.clear THEN 0 ELSE @,
                                          !.compared = TRUE] ELSE t0
         q1 == IF compare /\ t0.clear THEN PlanIfRunning(queue, i, t1) ELSE queue
         q2 == IF compare /\ ~t0.compared THEN Raise(q1) ELSE q1
         over == t1.counter > Mask
         t2 == IF over THEN [t1 EXCEPT !.counter = @ - (Mask + 1),
                                       !.overflowed = @ \/ t1.onOverflow] ELSE t1
         q3 == IF over /\ t1.onOverflow /\ ~t1.overflowed THEN Raise(q2) ELSE q2
     IN /\ timers' = [timers EXCEPT ![i] = t2]
        /\ queue' = Erase(Restart(q3, i, t2), it)
        /\ ideal' = IF compare /\ t0.clear
                    THEN [ideal EXCEPT ![i] = Position(t2)] ELSE ideal
        /\ owed' = [owed EXCEPT ![i] =
                      @ \ {h \in {"compare", "overflow"} :
                             \/ compare /\ (h = "compare" \/ t0.clear)
                             \/ over /\ h = "overflow"}]
  /\ UNCHANGED <<clocks, pass, frameEnded, frameStart, writes, strayed>>

-----------------------------------------------------------------------------
(* The clocks run: what the timers count, and the hits they have.  A       *)
(* compare value that was never written is none to meet.                   *)
Meets(t, n) == Position(t) < n * t.tick /\ n * t.tick <= Position(t) + run'

RunTimers ==
  /\ RunCycles
  /\ ideal' = [i \in TimerIds |-> ideal[i] + IF timers[i].paused THEN 0 ELSE run']
  /\ owed' = [i \in TimerIds |->
       LET t == timers[i] IN
       IF t.paused THEN owed[i]
       ELSE owed[i] \cup {h \in {"compare"} :
                           t.onCompare /\ t.target <= Mask /\ Meets(t, t.target)}
                    \cup {h \in {"overflow"} : t.onOverflow /\ Meets(t, Mask + 1)}]
  /\ UNCHANGED <<timers, writes, strayed>>

TimersNext ==
  \/ RunTimers \/ RunOtherEvent \/ Blank
  \/ (StartFrame \/ ComponentEvent \/ BeginPass \/ SkipEvent \/ EndPass)
       /\ UNCHANGED timerVars
  \/ \E i \in TimerIds : \/ ReadCounter(i) \/ WriteCounter(i) \/ WriteCompare(i)
                         \/ WriteMode(i) \/ TimerEvent(i)

TimersSpec == TimersInit /\ [][TimersNext]_allVars

-----------------------------------------------------------------------------
(* Properties *)

TimersTypeOK ==
  /\ ee \in Nat /\ run \in Nat /\ frameStart \in Nat
  /\ bus \in [count : Nat, remainder : Nat]
  /\ iop \in [count : Nat, remainder : Nat]
  /\ given \in [bus : Nat, iop : Nat]
  /\ queue \in [events : Seq([func : Funcs \cup {"timer"}, time : Int, param : Nat]),
                closest : Int]
  /\ at \in {"frame", "loop", "components", "events"}
  /\ it \in Nat \ {0} /\ newTime \in Int
  /\ frameEnded \in BOOLEAN
  /\ timers \in [TimerIds -> TimerState] /\ writes \in Nat
  /\ ideal \in [TimerIds -> Nat]
  /\ owed \in [TimerIds -> SUBSET {"compare", "overflow"}]
  /\ strayed \subseteq TimerIds

(* Time passes no event that is waiting, although timers plan theirs in    *)
(* the middle of a pass and overflow closest_event_time.  Not so the event *)
(* of a timer that vblank_end sets to 0: if the pass has been by it, its   *)
(* new time is not in new_time (process_events, update_timer_event_time).  *)
EventsOnTime ==
  \A n \in DOMAIN queue.events :
    LET e == queue.events[n]
    IN ee <= e.time \/ (e.func = "timer" /\ e.param \in strayed)

(* A counter stands for every cycle its timer ran, none lost or counted    *)
(* twice: across reads, pauses by the vertical blank and by the program,   *)
(* overflows and the remainders of ticks (update_timer_counter,            *)
(* set_timer_pause).                                                       *)
CountsEveryCycle ==
  \A i \in TimerIds :
    (Position(timers[i]) - ideal[i]) % Period(timers[i]) = 0

(* Every timer has one event; that of a timer that runs, and that no gate  *)
(* has controlled, comes by the time its counter next meets the compare value or *)
(* overflows, and a paused timer's never (update_timer_event_time,         *)
(* restart_timer).  A counter that is beyond the tick of its overflow is   *)
(* left out: writing to its registers then puts the event off for minutes  *)
(* (calculate_timer_event_delta's unsigned difference).                    *)
NextMeeting(t) ==
  LET n == IF t.counter < t.target /\ t.target <= Mask THEN t.target ELSE Mask + 1
  IN t.last + n * t.tick - (t.counter * t.tick + t.rest)

NextHitPlanned ==
  \A i \in TimerIds :
    \E n \in DOMAIN queue.events :
      /\ \A m \in DOMAIN queue.events : IsEventOf(queue.events[m], i) <=> m = n
      /\ timers[i].paused => queue.events[n].time > ee
      /\ ~timers[i].paused /\ i \notin strayed /\ timers[i].counter <= Mask + 1 =>
           queue.events[n].time <= Greater(NextMeeting(timers[i]), ee + Settle)

(* A hit with its interrupt enabled has its event pending until the        *)
(* callback is called, whatever the program reads in between: the event    *)
(* that comes does not take the hit for an old one (timer_event).          *)
InterruptNotLost ==
  \A i \in TimerIds : owed[i] # {} /\ i \notin strayed =>
    \E n \in DOMAIN queue.events :
      IsEventOf(queue.events[n], i) /\ queue.events[n].time <= ee + Settle
=============================================================================

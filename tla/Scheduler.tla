----------------------------- MODULE Scheduler -----------------------------
(***************************************************************************)
(* Scheduler (core/scheduler.cpp) and the loop of Emulator::run that it    *)
(* paces: run every component for a few cycles, then call the events that  *)
(* have become due, until vblank_end has ended the frame.                  *)
(*                                                                         *)
(* The list of events is visited element by element, because a callback    *)
(* adds events to the list that is being visited and lowers                *)
(* closest_event_time, which decides which of the others are due.          *)
(*                                                                         *)
(* What the components compute in their cycles is left out; what they do   *)
(* to the scheduler is kept: an interrupt asserted by any of them adds an  *)
(* event (INTC::assert_IRQ), and so does the disc drive.  Module Timers    *)
(* adds the scheduler's timers to this one.                                *)
(***************************************************************************)
EXTENDS Integers, Sequences, SequencesExt

CONSTANTS
  MaxCycles,       (* MAX_CYCLES: the most EE cycles between two passes    *)
  HblankCycles,    (* HBLANK_CYCLES                                        *)
  VblankStart,     (* VBLANK_START_CYCLES                                  *)
  FrameCycles,     (* CYCLES_PER_FRAME                                     *)
  VblankDelay,     (* GS_VBLANK_DELAY                                      *)
  IntDelay,        (* the 8 cycles of INTC::assert_IRQ                     *)
  SoundCycles,     (* 768 * 8, of start_sound_sample_event                 *)
  DriveDelays,     (* what CDVD_Drive::add_event asks for, in EE cycles    *)
  Never,           (* the largest int64_t                                  *)
  MaxPending,      (* bound: events the components have pending at a time  *)
  Horizon          (* bound: no frame starts after this many EE cycles     *)

ASSUME CyclesAssumption ==
  /\ MaxCycles \in Nat \ {0} /\ HblankCycles \in Nat \ {0}
  /\ VblankStart \in Nat \ {0} /\ VblankDelay \in Nat \ {0}
  /\ FrameCycles \in Nat /\ VblankStart < FrameCycles
  /\ IntDelay \in Nat \ {0} /\ SoundCycles \in Nat \ {0}
  /\ DriveDelays \subseteq Nat /\ Never \in Nat
  /\ MaxPending \in Nat /\ Horizon \in Nat

VARIABLES
  ee, bus, iop,     (* ee_cycles.count; bus_cycles and iop_cycles          *)
  run,              (* run_cycles                                          *)
  queue,            (* events, and closest_event_time                      *)
  at,               (* the statement Emulator::run is at                   *)
  it, newTime,      (* process_events' iterator and its new_time           *)
  frameEnded,       (* frame_ended                                         *)
  frameStart,       (* the cycle at which the frame began                  *)
  given             (* cycles given so far to the bus and to the IOP       *)

clocks == <<ee, bus, iop, run, given>>
pass == <<at, it, newTime>>
schedulerVars == <<clocks, queue, pass, frameEnded, frameStart>>

Lesser(i, j) == IF i < j THEN i ELSE j

(* add_event.                                                              *)
Event(func, time, param) == [func |-> func, time |-> time, param |-> param]

AddEvent(q, func, delta, param) ==
  [events  |-> Append(q.events, Event(func, ee + delta, param)),
   closest |-> Lesser(ee + delta, q.closest)]

(* events.erase(it): the iterator then stands at the next element.         *)
Erase(q, i) == [q EXCEPT !.events = RemoveAt(@, i)]

NoEvents == [events |-> <<>>, closest |-> Never]

(* Scheduler::reset, then Emulator::reset's first hblank and sound sample. *)
Init ==
  /\ ee = 0 /\ run = 0
  /\ bus = [count |-> 0, remainder |-> 0]
  /\ iop = [count |-> 0, remainder |-> 0]
  /\ given = [bus |-> 0, iop |-> 0]
  /\ queue = AddEvent(AddEvent(NoEvents, "hblank", HblankCycles, 0),
                      "sound", SoundCycles, 0)
  /\ at = "frame" /\ it = 1 /\ newTime = Never
  /\ frameEnded = TRUE /\ frameStart = 0

-----------------------------------------------------------------------------
(* run, up to its loop.                                                    *)
StartFrame ==
  /\ at = "frame" /\ ee < Horizon
  /\ queue' = AddEvent(AddEvent(queue, "vblank_start", VblankStart, 0),
                       "vblank_end", FrameCycles, 0)
  /\ frameEnded' = FALSE
  /\ frameStart' = ee
  /\ at' = "loop"
  /\ UNCHANGED <<clocks, it, newTime>>

(* Mutant: runs are never cut short.                                       *)
RunCyclesUncut(closest) == MaxCycles

(* calculate_run_cycles.                                                   *)
RunCyclesFor(closest) ==
  CASE ee + MaxCycles <= closest -> MaxCycles
    [] ee + MaxCycles > closest /\ closest > ee -> closest - ee
    [] OTHER -> 0

(* get_bus_run_cycles and get_iop_run_cycles, which look at the remainders *)
(* that update_cycle_counts has yet to update.                             *)
BusRunCycles(n) ==
  (n \div 2) + IF bus.remainder # 0 /\ (n % 2) = 1 THEN 1 ELSE 0

IopRunCycles(n) ==
  (n \div 8) + IF iop.remainder + (n % 8) >= 8 THEN 1 ELSE 0

(* Mutant: a remainder of exactly one cycle is carried over.               *)
UpdateCountLate(clock, n, ratio) ==
  LET remainder == clock.remainder + (n % ratio) IN
    IF remainder > ratio
    THEN [count |-> clock.count + (n \div ratio) + 1, remainder |-> remainder - ratio]
    ELSE [count |-> clock.count + (n \div ratio), remainder |-> remainder]

(* update_cycle_counts for a clock of which the EE's has `ratio` cycles.   *)
UpdateCount(clock, n, ratio) ==
  LET remainder == clock.remainder + (n % ratio) IN
    IF remainder >= ratio
    THEN [count |-> clock.count + (n \div ratio) + 1,
          remainder |-> IF ratio = 2 THEN 0 ELSE remainder - ratio]
    ELSE [count |-> clock.count + (n \div ratio), remainder |-> remainder]

RunCycles ==
  /\ at = "loop" /\ ~frameEnded
  /\ run' = RunCyclesFor(queue.closest)
  /\ given' = [bus |-> given.bus + BusRunCycles(run'),
               iop |-> given.iop + IopRunCycles(run')]
  /\ ee' = ee + run'
  /\ bus' = UpdateCount(bus, run', 2)
  /\ iop' = UpdateCount(iop, run', 8)
  /\ at' = "components"
  /\ UNCHANGED <<queue, it, newTime, frameEnded, frameStart>>

(* A component, in its cycles, raises an interrupt or starts the drive.    *)
Pending(func) == {i \in DOMAIN queue.events : queue.events[i].func = func}

Requests == {<<"int_check", IntDelay>>} \cup ({"n_command"} \X DriveDelays)

ComponentEvent ==
  /\ at = "components"
  /\ Cardinality(Pending("int_check") \cup Pending("n_command")) < MaxPending
  /\ \E r \in Requests : queue' = AddEvent(queue, r[1], r[2], 0)
  /\ UNCHANGED <<clocks, pass, frameEnded, frameStart>>

-----------------------------------------------------------------------------
(* process_events *)

BeginPass ==
  /\ at = "components"
  /\ IF ee >= queue.closest
     THEN at' = "events" /\ it' = 1 /\ newTime' = Never
     ELSE at' = "loop" /\ UNCHANGED <<it, newTime>>
  /\ UNCHANGED <<clocks, queue, frameEnded, frameStart>>

Due == /\ at = "events" /\ it \in DOMAIN queue.events
       /\ queue.events[it].time <= queue.closest

(* The callbacks of Emulator, INTC and CDVD_Drive.  vblank_start and       *)
(* vblank_end assert an interrupt (set_VBLANK_irq), hblank and GS_vblank   *)
(* do if the GS's interrupts are enabled; the drive may have to go on.     *)
Raise(q) == AddEvent(q, "int_check", IntDelay, 0)

Callback(func) ==
  CASE func = "hblank" ->
         {AddEvent(q, "hblank", HblankCycles, 0) : q \in {queue, Raise(queue)}}
    [] func = "vblank_start" ->
         {AddEvent(Raise(queue), "gs_vblank", VblankDelay, 0)}
    [] func = "gs_vblank" -> {queue, Raise(queue)}
    [] func = "vblank_end" -> {Raise(queue)}
    [] func = "sound" -> {AddEvent(queue, "sound", SoundCycles, 0)}
    [] func = "n_command" ->
         {queue} \cup {AddEvent(queue, "n_command", d, 0) : d \in DriveDelays}
    [] func = "int_check" -> {queue}

RunEvent ==
  /\ Due
  /\ \E q \in Callback(queue.events[it].func) : queue' = Erase(q, it)
  /\ frameEnded' = (frameEnded \/ queue.events[it].func = "vblank_end")
  /\ UNCHANGED <<clocks, pass, frameStart>>

(* Mutant: new_time is the last event's time, not the earliest.            *)
SkipEventLast ==
  /\ at = "events" /\ it \in DOMAIN queue.events
  /\ ~Due
  /\ newTime' = queue.events[it].time
  /\ it' = it + 1
  /\ UNCHANGED <<clocks, queue, at, frameEnded, frameStart>>

SkipEvent ==
  /\ at = "events" /\ it \in DOMAIN queue.events
  /\ ~Due
  /\ newTime' = Lesser(queue.events[it].time, newTime)
  /\ it' = it + 1
  /\ UNCHANGED <<clocks, queue, at, frameEnded, frameStart>>

EndPass ==
  /\ at = "events" /\ it \notin DOMAIN queue.events
  /\ queue' = [queue EXCEPT !.closest = newTime]
  /\ at' = IF frameEnded THEN "frame" ELSE "loop"
  /\ UNCHANGED <<clocks, it, newTime, frameEnded, frameStart>>

Next ==
  \/ StartFrame \/ RunCycles \/ ComponentEvent
  \/ BeginPass \/ RunEvent \/ SkipEvent \/ EndPass

Spec == Init /\ [][Next]_schedulerVars

-----------------------------------------------------------------------------
(* Properties *)

Funcs == {"hblank", "vblank_start", "vblank_end", "gs_vblank", "sound",
          "n_command", "int_check"}

TypeOK ==
  /\ ee \in Nat /\ run \in Nat /\ frameStart \in Nat
  /\ bus \in [count : Nat, remainder : Nat]
  /\ iop \in [count : Nat, remainder : Nat]
  /\ given \in [bus : Nat, iop : Nat]
  /\ queue \in [events : Seq([func : Funcs, time : Nat, param : Nat]), closest : Nat]
  /\ at \in {"frame", "loop", "components", "events"}
  /\ it \in Nat \ {0} /\ newTime \in Nat
  /\ frameEnded \in BOOLEAN

(* The bus and the IOP get exactly a half and an eighth of the EE's        *)
(* cycles, whatever the lengths of the runs: nothing is lost or repeated   *)
(* in the remainders, and what get_*_run_cycles handed out is what         *)
(* update_cycle_counts counted.                                            *)
ClocksAgree ==
  /\ ee = 2 * bus.count + bus.remainder /\ bus.remainder \in 0 .. 1
  /\ ee = 8 * iop.count + iop.remainder /\ iop.remainder \in 0 .. 7
  /\ given.bus = bus.count /\ given.iop = iop.count

(* The times in the list (before the n-th) are not before t.               *)
From(q, t) == \A i \in DOMAIN q.events : t <= q.events[i].time

FromBefore(q, n, t) == \A i \in DOMAIN q.events : i < n => t <= q.events[i].time

(* No event is ever late: time does not pass an event that is waiting.     *)
OnTime == From(queue, ee)

(* What closest_event_time and new_time have to bound for that.            *)
ClosestBounds ==
  IF at = "events"
  THEN queue.closest <= ee /\ FromBefore(queue, it, newTime)
  ELSE From(queue, queue.closest)

(* The inductive invariant of the proofs.                                  *)
IInv == TypeOK /\ ClocksAgree /\ OnTime /\ ClosestBounds

(* A frame is exactly CYCLES_PER_FRAME long, and both of its vblank events *)
(* have happened when it ends.                                             *)
FrameExact ==
  at = "frame" /\ ee > 0 =>
    /\ ee = frameStart + FrameCycles
    /\ Pending("vblank_start") = {} /\ Pending("vblank_end") = {}
=============================================================================

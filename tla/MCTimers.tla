------------------------------ MODULE MCTimers ------------------------------
EXTENDS Timers

(* A timer is started, under every gate, or stopped.                       *)
Control(enabled, gate, clear) ==
  [enabled |-> enabled, tick |-> 4, gate |-> gate, clear |-> clear,
   onCompare |-> TRUE, onOverflow |-> TRUE, ack |-> TRUE]

MCControls ==
  {Control(TRUE, gate, clear) : gate \in {NoGate, 0, 1, 3}, clear \in BOOLEAN}
    \cup {Control(FALSE, NoGate, FALSE)}
=============================================================================

--------------------------- MODULE MCGSRegisters ---------------------------
(* SIGNAL and FINISH, what acknowledges, opens and resets them, on a ring  *)
(* of three slots: two messages are queued while a third is copied.        *)
EXTENDS GSRegisters

MCElement ==
  {[type |-> "SIGNAL", id |-> 1],
   [type |-> "CSR", bits |-> {"signal", "finish"}],
   [type |-> "CSR", bits |-> {"reset"}],
   [type |-> "IMR", masks |-> {}],
   [type |-> "FINISH"],
   [type |-> "assert_finish"]}
=============================================================================

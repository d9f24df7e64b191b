------------------------------- MODULE MCVif -------------------------------
EXTENDS Vif

C(op, words, ibit) ==
  [op |-> op, ibit |-> ibit, words |-> words, vn |-> 0, vl |-> 0, num |-> 1, cl |-> 1, wl |-> 1]

U(vn, vl, num, cl, wl) ==
  [C("unpack", 0, FALSE) EXCEPT !.vn = vn, !.vl = vl, !.num = num, !.cl = cl, !.wl = wl]

MCCommands ==
  [mscal |-> C("mscal", 0, FALSE), flusha |-> C("flusha", 0, FALSE),
   mskpath3 |-> C("mskpath3", 0, FALSE), mark |-> C("mark", 0, TRUE),
   direct |-> C("direct", 4, FALSE), mpg |-> C("mpg", 2, TRUE),
   v3_16 |-> U(2, 1, 3, 1, 1), v3_8 |-> U(2, 2, 5, 1, 2), v3_32 |-> U(2, 0, 4, 1, 2)]

MCPrograms == {<<a, b>> : a, b \in DOMAIN MCCommands}
=============================================================================

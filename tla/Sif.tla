--------------------------------- MODULE Sif ---------------------------------
(***************************************************************************)
(* The SIF (sif.cpp): the two FIFOs by which the EE and the IOP exchange   *)
(* packets, and the DMA channels at their ends, SIF0 from the IOP          *)
(* (IOP_DMA::process_SIF0) to the EE (DMAC::process_SIF0) and SIF1 back    *)
(* (DMAC::process_SIF1, IOP_DMA::process_SIF1).                            *)
(*                                                                         *)
(* Every write and read of a FIFO sets and clears the requests of the      *)
(* channels by the FIFO's size.  The receiving side finds the next tag by  *)
(* counting words: nothing in the FIFO marks where a packet begins.        *)
(*                                                                         *)
(* A DMA controller calls the process_ function of a channel that is       *)
(* started and requested (module Dmac has the EE's turns; there is no      *)
(* stall control here).  Programs are well behaved: the quadwords of the   *)
(* EE's tag are the words of the IOP's, rounded up on SIF0 and equal on    *)
(* SIF1, and the IOP's last packet is not empty (its process_ functions    *)
(* end a transfer with a word, never with a tag).  A word of a packet is   *)
(* its place in the packet.                                                *)
(***************************************************************************)
EXTENDS Integers, Sequences

CONSTANTS
  FifoSize,        (* MAX_FIFO_SIZE: 32 words                              *)
  Slice,           (* the most quadwords the EE moves in one call: 8       *)
  Lengths          (* bound: the lengths of a packet, in words             *)

Quad == 4                                                  (* words        *)

ASSUME SifAssumption ==
  /\ FifoSize \in Nat /\ FifoSize >= 2 * Quad
  /\ Slice \in Nat \ {0} /\ Lengths \subseteq Nat

VARIABLES
  fifo0, ee0, iop0,        (* SIF0: the words, the receiver, the sender    *)
  fifo1, iop1, ee1         (* SIF1: the words, the receiver, the sender    *)

sif0 == <<fifo0, ee0, iop0>>
sif1 == <<fifo1, iop1, ee1>>
vars == <<fifo0, ee0, iop0, fifo1, iop1, ee1>>

RoundUp(words) == (words + Quad - 1) \div Quad

Smaller(a, b) == IF a < b THEN a ELSE b
Drop(f, n) == SubSeq(f, n + 1, Len(f))

(* A word in a FIFO: a tag has the length of its packet, and whether it is *)
(* the receiver's last; the others have their place in the packet.         *)
Tag(length, last) == [kind |-> "tag", n |-> length, last |-> last]
Word(kind, n) == [kind |-> kind, n |-> n, last |-> FALSE]

Kinds == {"tag", "tag rest", "data", "junk"}
Words == [kind : Kinds, n : Nat, last : BOOLEAN]

(* A channel: dma_req, what is left of its packet (words for the IOP,      *)
(* quadwords for the EE), how much of it is done, tag_end.                 *)
Channel == [started : BOOLEAN, req : BOOLEAN, left : Nat, done : Nat, tagEnd : BOOLEAN]
Off(req) == [started |-> FALSE, req |-> req, left |-> 0, done |-> 0, tagEnd |-> FALSE]
Runs(c) == c.started /\ c.req
Start(c) == [c EXCEPT !.started = TRUE, !.tagEnd = FALSE]
End(c) == [c EXCEPT !.started = FALSE, !.tagEnd = FALSE]
NewPacket(c, length, last) ==
  [c EXCEPT !.left = length, !.done = 0, !.tagEnd = @ \/ last]
Moved(c, n) == [c EXCEPT !.left = @ - n, !.done = @ + n]
Requested(c, b) == [c EXCEPT !.req = b]

(* The resets.  The IOP requests SIF0 and the EE SIF1 from the start.      *)
Init ==
  /\ fifo0 = <<>> /\ ee0 = Off(FALSE) /\ iop0 = Off(TRUE)
  /\ fifo1 = <<>> /\ iop1 = Off(FALSE) /\ ee1 = Off(TRUE)

-----------------------------------------------------------------------------
(* SIF0, from the IOP to the EE                                            *)

(* Mutant: the last quadword is not a request.                             *)
EeAfterReadEarly(c, f) == Requested(c, c.req /\ Len(f) > Quad)

(* Mutant: the IOP may send one more word.                                 *)
IopAfterWriteLate(c, f) == Requested(c, c.req /\ Len(f) <= FifoSize)

(* What write_SIF0 and read_SIF0 do to the requests, once per word: f is   *)
(* the FIFO after the last word.                                           *)
IopAfterWrite(c, f) == Requested(c, c.req /\ Len(f) < FifoSize)
EeAfterWrite(c, f) == Requested(c, c.req \/ Len(f) >= Quad)
EeAfterRead(c, f) == Requested(c, c.req /\ Len(f) >= Quad)

(* Mutant: one junk word too few.                                          *)
JunkShort(words) ==
  [i \in 1 .. (RoundUp(words) * Quad - words - 1) |-> Word("junk", words + i)]

(* send_SIF0_junk: what fills the last quadword of the packet.             *)
Junk(words) == [i \in 1 .. (RoundUp(words) * Quad - words) |-> Word("junk", words + i)]

StartIop0 ==
  /\ ~iop0.started
  /\ iop0' = [iop0 EXCEPT !.started = TRUE]
  /\ UNCHANGED <<fifo0, ee0, sif1>>

(* process_SIF0 of the IOP: the tag, when the EE's tag has room.           *)
SendTag0 ==
  /\ Runs(iop0) /\ iop0.left = 0
  /\ Len(fifo0) <= FifoSize - 2
  /\ \E words \in Lengths, last, lastEE \in BOOLEAN :
       /\ last => words > 0
       /\ fifo0' = fifo0 \o <<Tag(RoundUp(words), lastEE), Word("tag rest", 0)>>
       /\ iop0' = IopAfterWrite(NewPacket(iop0, words, last), fifo0')
       /\ ee0' = EeAfterWrite(ee0, fifo0')
  /\ UNCHANGED sif1

(* A word; after the last one the junk that fills the quadword.            *)
SendWord0 ==
  /\ Runs(iop0) /\ iop0.left > 0
  /\ LET c == Moved(iop0, 1)
         f == Append(fifo0, Word("data", c.done))
     IN /\ fifo0' = IF c.left = 0 THEN f \o Junk(c.done) ELSE f
        /\ iop0' = LET r == IopAfterWrite(c, fifo0')
                   IN IF c.left = 0 /\ c.tagEnd THEN End(r) ELSE r
        /\ ee0' = EeAfterWrite(ee0, fifo0')
  /\ UNCHANGED sif1

StartEe0 ==
  /\ ~ee0.started
  /\ ee0' = Start(ee0)
  /\ UNCHANGED <<fifo0, iop0, sif1>>

(* process_SIF0 of the EE: the quadwords that are there, of the packet and *)
(* of the slice (room), and then the end, or the next tag if it is there.  *)
Receive0 ==
  /\ Runs(ee0)
  /\ \E room \in 1 .. Slice :
       LET quads == Smaller(Smaller(ee0.left, room), Len(fifo0) \div Quad)
           c == Moved(ee0, quads)
           f == Drop(fifo0, quads * Quad)
           atTag == c.left = 0 /\ ~c.tagEnd /\ Len(f) >= 2
           g == IF atTag THEN Drop(f, 2) ELSE f
       IN /\ fifo0' = g
          /\ ee0' = EeAfterRead(
                      IF atTag THEN NewPacket(c, Head(f).n, Head(f).last)
                      ELSE IF c.left = 0 /\ c.tagEnd THEN End(c) ELSE c, g)
          /\ iop0' = Requested(iop0, iop0.req \/ Len(g) < Len(fifo0))
  /\ UNCHANGED sif1

-----------------------------------------------------------------------------
(* SIF1, from the EE to the IOP                                            *)

Half == FifoSize \div 2

(* Mutant: the IOP's request outlives the last word.                       *)
IopAfterReadKept(c, f) == c

(* What write_SIF1 and read_SIF1 do to the requests.                       *)
IopAfterRead(c, f) == Requested(c, c.req /\ f # <<>>)
EeAfterIopRead(c, f) == Requested(c, c.req \/ Len(f) < Half)
EeAfterOwnWrite(c, f) == Requested(c, c.req /\ Len(f) < Half)

(* Word k of an EE packet, from 0: the IOP's tag is the first quadword.    *)
PacketWord(k, words, last) ==
  IF k = 0 THEN Tag(words, last)
  ELSE IF k < Quad THEN Word("tag rest", 0) ELSE Word("data", k - Quad + 1)

StartEe1 ==
  /\ ~ee1.started
  /\ ee1' = Start(ee1)
  /\ UNCHANGED <<fifo1, iop1, sif0>>

(* process_SIF1 of the EE: the rest of the packet or of the slice, whether *)
(* or not the FIFO has room, and then the end or the next tag in memory.   *)
Send1 ==
  /\ Runs(ee1)
  /\ \E room \in 1 .. Slice, last \in BOOLEAN :
       LET quads == Smaller(ee1.left, room)
           words == (ee1.done + ee1.left - 1) * Quad
           c == Moved(ee1, quads)
           sent == [i \in 1 .. quads * Quad |->
                      PacketWord(ee1.done * Quad + i - 1, words, last)]
       IN /\ last => words > 0
          /\ fifo1' = fifo1 \o sent
          /\ iop1' = Requested(iop1, iop1.req \/ quads > 0)
          /\ \/ /\ c.left > 0
                /\ ee1' = EeAfterOwnWrite(c, fifo1')
             \/ /\ c.left = 0 /\ c.tagEnd
                /\ ee1' = EeAfterOwnWrite(End(c), fifo1')
             \/ /\ c.left = 0 /\ ~c.tagEnd
                /\ \E n \in Lengths, lastEE \in BOOLEAN :
                     /\ n % Quad = 0
                     /\ ee1' = EeAfterOwnWrite(NewPacket(c, 1 + (n \div Quad), lastEE), fifo1')
  /\ UNCHANGED sif0

StartIop1 ==
  /\ ~iop1.started
  /\ iop1' = [iop1 EXCEPT !.started = TRUE]
  /\ UNCHANGED <<fifo1, ee1, sif0>>

(* process_SIF1 of the IOP: a tag of four words, or a word, of which it    *)
(* does not ask whether it is there.                                       *)
ReceiveTag1 ==
  /\ Runs(iop1) /\ iop1.left = 0
  /\ Len(fifo1) >= Quad
  /\ fifo1' = Drop(fifo1, Quad)
  /\ iop1' = IopAfterRead(NewPacket(iop1, Head(fifo1).n, Head(fifo1).last), fifo1')
  /\ ee1' = EeAfterIopRead(ee1, fifo1')
  /\ UNCHANGED sif0

ReceiveWord1 ==
  /\ Runs(iop1) /\ iop1.left > 0
  /\ fifo1' = Tail(fifo1)
  /\ iop1' = LET c == IopAfterRead(Moved(iop1, 1), fifo1')
             IN IF c.left = 0 /\ c.tagEnd THEN End(c) ELSE c
  /\ ee1' = EeAfterIopRead(ee1, fifo1')
  /\ UNCHANGED sif0

-----------------------------------------------------------------------------
Iop0 == SendTag0 \/ SendWord0
Iop1 == ReceiveTag1 \/ ReceiveWord1

Next ==
  \/ StartIop0 \/ Iop0 \/ StartEe0 \/ Receive0
  \/ StartEe1 \/ Send1 \/ StartIop1 \/ Iop1

Spec == Init /\ [][Next]_vars

(* The loop of Emulator::run runs both DMA controllers in every slice, and *)
(* programs start the receiving channels again.                            *)
Fairness ==
  /\ WF_vars(Iop0) /\ WF_vars(Receive0) /\ WF_vars(StartEe0)
  /\ WF_vars(Iop1) /\ WF_vars(Send1) /\ WF_vars(StartIop1)

FairSpec == Spec /\ Fairness

-----------------------------------------------------------------------------
(* Properties *)

TypeOK ==
  /\ fifo0 \in Seq(Words) /\ fifo1 \in Seq(Words)
  /\ ee0 \in Channel /\ iop0 \in Channel /\ ee1 \in Channel /\ iop1 \in Channel

(* The words before the first tag.                                         *)
Leading(f) ==
  IF \A i \in DOMAIN f : f[i].kind # "tag" THEN Len(f)
  ELSE (CHOOSE i \in DOMAIN f : f[i].kind = "tag" /\ \A j \in 1 .. i - 1 : f[j].kind # "tag") - 1

(* What the IOP still counts of its packet is in front of the next tag, or *)
(* still to be sent, and comes in the order of the packet.                 *)
Framed1 ==
  LET lead == Leading(fifo1)
      toCome == IF ee1.done > 0 THEN ee1.left * Quad ELSE 0
  IN /\ iop1.left = IF lead < Len(fifo1) THEN lead ELSE lead + toCome
     /\ \A i \in 1 .. lead : fifo1[i].n = iop1.done + i

(* Neither receiver takes data for a tag or a tag for data: what it still  *)
(* counts of its packet is in front of the next tag, junk included, or     *)
(* still to be sent, and comes in the order of the packet (process_SIF0,   *)
(* process_SIF1 at both ends).                                             *)
Framed ==
  LET lead == Leading(fifo0)
      packet == RoundUp(iop0.done + iop0.left) * Quad
      toCome == IF iop0.left > 0 THEN packet - iop0.done ELSE 0
  IN /\ Framed1
     /\ ee0.left * Quad = IF lead < Len(fifo0) THEN lead ELSE lead + toCome
     /\ \A i \in 1 .. lead : fifo0[i].n = ee0.done * Quad + i

(* The requests say of the FIFOs what the process_ functions rely on: a    *)
(* quadword for the EE, a word for the IOP (read_SIF1 pops without asking).*)
RequestsFollow ==
  /\ ee0.req <=> Len(fifo0) >= Quad
  /\ Len(fifo0) < FifoSize => iop0.req
  /\ iop1.req <=> fifo1 # <<>>
  /\ ee1.req <=> Len(fifo1) < Half

(* How far the FIFOs go past their limits: by the junk, and by a slice.    *)
Bounded ==
  /\ Len(fifo0) <= FifoSize + Quad - 1
  /\ Len(fifo1) <= Half - 1 + (Slice * Quad)

(* A receiver is never left waiting inside a packet: it is between two     *)
(* packets again and again, or it goes on receiving.                       *)
PacketsArrive ==
  /\ []<>(ee0.left = 0) \/ []<><<Receive0>>_vars
  /\ []<>(iop1.left = 0) \/ []<><<ReceiveWord1>>_vars
=============================================================================

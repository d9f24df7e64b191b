------------------------------ MODULE Sif_proof ------------------------------
(***************************************************************************)
(* Proofs about Sif, for any size of the FIFOs, slice and lengths of       *)
(* packets: the requests follow the FIFOs, so that nothing is read from an *)
(* empty one, and the FIFOs pass their limits by no more than the junk of  *)
(* SIF0 and a slice of SIF1.                                               *)
(*                                                                         *)
(* Why SIF0 stays within its bound is not in its requests alone: the EE    *)
(* may give the request back when it has read a tag, with the FIFO still   *)
(* over its limit.  It is then between two packets (Room0).                *)
(*                                                                         *)
(* And the packets stay framed.  That the first packet is in front of the  *)
(* next tag is not inductive: reading that tag asks the same of the packet *)
(* behind it.  Framing says it of every tag in the FIFO at once (Packet),  *)
(* by positions, so that a step is shown to keep it with no induction.     *)
(***************************************************************************)
EXTENDS Sif, SequenceTheorems, TLAPS

(* A leaf that names no backend is given a minute of SMT and then one of Zenon. *)
USE SMTT(60), ZenonT(60)

Requests0 ==
  /\ ee0.req <=> Len(fifo0) >= Quad
  /\ Len(fifo0) < FifoSize => iop0.req

Room0 ==
  /\ Len(fifo0) <= FifoSize + Quad - 1
  /\ iop0.left > 0 => Len(fifo0) <= FifoSize /\ (iop0.req => Len(fifo0) < FifoSize)

Inv0 ==
  /\ fifo0 \in Seq(Words) /\ ee0 \in Channel /\ iop0 \in Channel
  /\ Requests0 /\ Room0

Requests1 ==
  /\ iop1.req <=> fifo1 # <<>>
  /\ ee1.req <=> Len(fifo1) < Half

Inv1 ==
  /\ fifo1 \in Seq(Words) /\ ee1 \in Channel /\ iop1 \in Channel
  /\ Requests1
  /\ Len(fifo1) <= Half - 1 + (Slice * Quad)

-----------------------------------------------------------------------------
(* The operators                                                           *)

(* A FIFO without its oldest n words.                                      *)
LEMMA DropProperties ==
  ASSUME NEW f \in Seq(Words), NEW n \in 0 .. Len(f)
  PROVE  Drop(f, n) \in Seq(Words) /\ Len(Drop(f, n)) = Len(f) - n
<1>1. Len(f) \in Nat
  BY LenProperties
<1>2. \A i \in n + 1 .. Len(f) : f[i] \in Words
  BY <1>1, ElementOfSeq
<1>3. n + 1 \in Int /\ Len(f) \in Int
  BY <1>1
<1> HIDE DEF Words
<1>4. /\ SubSeq(f, n + 1, Len(f)) \in Seq(Words)
      /\ Len(SubSeq(f, n + 1, Len(f))) = IF n + 1 <= Len(f) THEN Len(f) - (n + 1) + 1 ELSE 0
  BY <1>2, <1>3, SubSeqProperties
<1> QED BY <1>1, <1>4 DEF Drop

(* The junk is what the last quadword lacks.                               *)
LEMMA JunkProperties ==
  ASSUME NEW words \in Nat
  PROVE  /\ Junk(words) \in Seq(Words)
         /\ Len(Junk(words)) \in 0 .. Quad - 1
<1> DEFINE n == RoundUp(words) * Quad - words
<1>1. n \in 0 .. Quad - 1
  BY DEF RoundUp, Quad
<1> HIDE DEF n
<1>2. \A i \in 1 .. n : Word("junk", words + i) \in Words
  BY <1>1 DEF Word, Words, Kinds, Quad
<1>3. Junk(words) = [i \in 1 .. n |-> Word("junk", words + i)]
  BY DEF Junk, n
<1>4. Junk(words) \in [1 .. n -> Words]
  BY <1>2, <1>3
<1>5. n \in Nat
  BY <1>1
<1> HIDE DEF Words
<1>6. Junk(words) \in Seq(Words)
  BY <1>4, <1>5
<1>7. Len(Junk(words)) = n
  BY <1>4, <1>5
<1> QED BY <1>1, <1>6, <1>7 DEF Quad

LEMMA SmallerProperties ==
  ASSUME NEW a \in Nat, NEW b \in Nat
  PROVE  Smaller(a, b) \in Nat /\ Smaller(a, b) <= a /\ Smaller(a, b) <= b
BY DEF Smaller

LEMMA RequestedProperties ==
  ASSUME NEW c \in Channel, NEW b \in BOOLEAN
  PROVE  /\ Requested(c, b) \in Channel /\ (Requested(c, b).req <=> b)
         /\ Requested(c, b).left = c.left
BY DEF Channel, Requested

LEMMA MovedProperties ==
  ASSUME NEW c \in Channel, NEW n \in Nat, n <= c.left
  PROVE  /\ Moved(c, n) \in Channel /\ (Moved(c, n).req <=> c.req)
         /\ Moved(c, n).left = c.left - n /\ Moved(c, n).done = c.done + n
<1>1. c.left \in Nat /\ c.done \in Nat
  BY DEF Channel
<1>2. c.left - n \in Nat /\ c.done + n \in Nat
  BY <1>1
<1>3. Moved(c, n) = [c EXCEPT !.left = c.left - n, !.done = c.done + n]
  BY DEF Moved
<1> QED BY <1>2, <1>3 DEF Channel

LEMMA NewPacketProperties ==
  ASSUME NEW c \in Channel, NEW n \in Nat, NEW last \in BOOLEAN
  PROVE  /\ NewPacket(c, n, last) \in Channel /\ (NewPacket(c, n, last).req <=> c.req)
         /\ NewPacket(c, n, last).left = n
BY DEF Channel, NewPacket

LEMMA EndProperties ==
  ASSUME NEW c \in Channel
  PROVE  End(c) \in Channel /\ (End(c).req <=> c.req) /\ End(c).left = c.left
BY DEF Channel, End

LEMMA HalfProperties == Half \in Nat /\ Half >= Quad
BY SifAssumption DEF Half, Quad

LEMMA OffProperties ==
  ASSUME NEW b \in BOOLEAN
  PROVE  Off(b) \in Channel /\ (Off(b).req <=> b) /\ Off(b).left = 0
BY DEF Off, Channel

LEMMA Initially == Init => Inv0 /\ Inv1
<1> SUFFICES ASSUME Init
             PROVE  Inv0 /\ Inv1
  OBVIOUS
<1>1. Len(<<>>) = 0 /\ <<>> \in Seq(Words)
  OBVIOUS
<1>2. /\ ee0 \in Channel /\ ~ee0.req
      /\ iop0 \in Channel /\ iop0.req /\ iop0.left = 0
      /\ ee1 \in Channel /\ ee1.req
      /\ iop1 \in Channel /\ ~iop1.req
  BY OffProperties DEF Init
<1>3. fifo0 = <<>> /\ Len(fifo0) = 0 /\ fifo0 \in Seq(Words)
  BY <1>1 DEF Init
<1>4. fifo1 = <<>> /\ Len(fifo1) = 0 /\ fifo1 \in Seq(Words)
  BY <1>1 DEF Init
<1> HIDE DEF Words, Channel
<1>5. Requests0 /\ Room0
  BY <1>2, <1>3, SifAssumption DEF Requests0, Room0, Quad
<1>6. Slice * Quad \in Nat
  BY SifAssumption DEF Quad
<1>7. Requests1 /\ Len(fifo1) <= Half - 1 + (Slice * Quad)
  BY <1>2, <1>4, <1>6, HalfProperties DEF Requests1, Quad
<1> QED BY <1>2, <1>3, <1>4, <1>5, <1>7 DEF Inv0, Inv1

-----------------------------------------------------------------------------
(* SIF0                                                                    *)

LEMMA StartIop0Step == Inv0 /\ StartIop0 => Inv0'
BY DEF Inv0, Requests0, Room0, StartIop0, Channel

LEMMA StartEe0Step == Inv0 /\ StartEe0 => Inv0'
BY DEF Inv0, Requests0, Room0, StartEe0, Channel, Start

LEMMA SendTag0Step == Inv0 /\ SendTag0 => Inv0'
<1> SUFFICES ASSUME Inv0, SendTag0
             PROVE  Inv0'
  OBVIOUS
<1> USE DEF Quad
<1>1. PICK words \in Lengths, last, lastEE \in BOOLEAN :
        /\ fifo0' = fifo0 \o <<Tag(RoundUp(words), lastEE), Word("tag rest", 0)>>
        /\ iop0' = IopAfterWrite(NewPacket(iop0, words, last), fifo0')
        /\ ee0' = EeAfterWrite(ee0, fifo0')
  BY DEF SendTag0
<1>2. words \in Nat
  BY SifAssumption
<1> DEFINE tag == <<Tag(RoundUp(words), lastEE), Word("tag rest", 0)>>
<1>3. tag \in Seq(Words) /\ Len(tag) = 2
  BY <1>2 DEF Tag, Word, Words, Kinds, RoundUp
<1> HIDE DEF tag
<1>4. fifo0' \in Seq(Words) /\ Len(fifo0') = Len(fifo0) + 2 /\ Len(fifo0) \in Nat
  BY <1>1, <1>3, ConcatProperties, LenProperties DEF Inv0, tag
<1>5. Len(fifo0) <= FifoSize - 2 /\ iop0.req
  BY DEF SendTag0, Runs
<1> DEFINE c == NewPacket(iop0, words, last)
<1>6. c \in Channel /\ c.req
  BY <1>2, <1>5, NewPacketProperties DEF Inv0
<1> HIDE DEF c
<1>7. /\ iop0' \in Channel
      /\ iop0'.req <=> Len(fifo0') < FifoSize
  BY <1>1, <1>4, <1>6, RequestedProperties, SifAssumption DEF IopAfterWrite, c
<1>8. /\ ee0' \in Channel
      /\ ee0'.req <=> ee0.req \/ Len(fifo0') >= 4
  BY <1>1, <1>4, RequestedProperties DEF EeAfterWrite, Inv0, Channel
<1> QED
  BY <1>4, <1>5, <1>7, <1>8, SifAssumption DEF Inv0, Requests0, Room0

LEMMA SendWord0Step == Inv0 /\ SendWord0 => Inv0'
<1> SUFFICES ASSUME Inv0, SendWord0
             PROVE  Inv0'
  OBVIOUS
<1> USE DEF Quad
<1> DEFINE c == Moved(iop0, 1)
           f == Append(fifo0, Word("data", c.done))
           r == IopAfterWrite(c, fifo0')
<1>1. iop0.left \in Nat /\ iop0.left > 0 /\ iop0.req /\ iop0.done \in Nat
  BY DEF SendWord0, Runs, Inv0, Channel
<1>2. c \in Channel /\ c.req /\ c.left = iop0.left - 1 /\ c.done = iop0.done + 1
  BY <1>1, MovedProperties DEF Inv0
<1> HIDE DEF c
<1>3. /\ fifo0' = IF c.left = 0 THEN f \o Junk(c.done) ELSE f
      /\ iop0' = IF c.left = 0 /\ c.tagEnd THEN End(r) ELSE r
      /\ ee0' = EeAfterWrite(ee0, fifo0')
  BY DEF SendWord0, c
<1>4. Word("data", c.done) \in Words
  BY <1>1, <1>2 DEF Word, Words, Kinds
<1>5. f \in Seq(Words) /\ Len(f) = Len(fifo0) + 1 /\ Len(fifo0) \in Nat
  BY <1>4, AppendProperties, LenProperties DEF Inv0
<1> HIDE DEF f
<1>6. Junk(c.done) \in Seq(Words) /\ Len(Junk(c.done)) \in 0 .. 3
  BY <1>1, <1>2, JunkProperties
<1>7. /\ fifo0' \in Seq(Words) /\ Len(fifo0') \in Nat
      /\ Len(fifo0') > Len(fifo0) /\ Len(fifo0') <= Len(fifo0) + 4
      /\ c.left # 0 => Len(fifo0') = Len(fifo0) + 1
  <2>1. CASE c.left = 0
    <3>1. fifo0' = f \o Junk(c.done)
      BY <1>3, <2>1
    <3>2. fifo0' \in Seq(Words) /\ Len(fifo0') = Len(f) + Len(Junk(c.done))
      BY <1>5, <1>6, <3>1, ConcatProperties
    <3> DEFINE k == Len(Junk(c.done))
    <3>3. k \in 0 .. 3
      BY <1>6
    <3>4. Len(fifo0') = Len(f) + k
      BY <3>2
    <3> HIDE DEF k
    <3> QED BY <1>5, <2>1, <3>2, <3>3, <3>4
  <2>2. CASE c.left # 0
    BY <1>3, <1>5, <2>2
  <2> QED BY <2>1, <2>2
<1>8. /\ r \in Channel /\ r.left = c.left
      /\ r.req <=> Len(fifo0') < FifoSize
  BY <1>2, <1>7, RequestedProperties, SifAssumption DEF IopAfterWrite
<1> HIDE DEF r
<1>9. /\ iop0' \in Channel /\ iop0'.left = c.left
      /\ iop0'.req <=> Len(fifo0') < FifoSize
  BY <1>3, <1>8, EndProperties
<1>10. /\ ee0' \in Channel
       /\ ee0'.req <=> ee0.req \/ Len(fifo0') >= 4
  BY <1>3, <1>7, RequestedProperties DEF EeAfterWrite, Inv0, Channel
<1>11. Len(fifo0) < FifoSize
  BY <1>1 DEF Inv0, Room0
<1> QED
  BY <1>1, <1>2, <1>5, <1>7, <1>9, <1>10, <1>11, SifAssumption DEF Inv0, Requests0, Room0

LEMMA Receive0Step == Inv0 /\ Receive0 => Inv0'
<1> SUFFICES ASSUME Inv0, Receive0
             PROVE  Inv0'
  OBVIOUS
<1> USE DEF Quad
<1>1. PICK room \in 1 .. Slice :
        LET quads == Smaller(Smaller(ee0.left, room), Len(fifo0) \div Quad)
            c == Moved(ee0, quads)
            f == Drop(fifo0, quads * Quad)
            atTag == c.left = 0 /\ ~c.tagEnd /\ Len(f) >= 2
            g == IF atTag THEN Drop(f, 2) ELSE f
        IN /\ fifo0' = g
           /\ ee0' = EeAfterRead(
                       IF atTag THEN NewPacket(c, Head(f).n, Head(f).last)
                       ELSE IF c.left = 0 /\ c.tagEnd THEN End(c) ELSE c, g)
           /\ iop0' = Requested(iop0, iop0.req \/ Len(g) < Len(fifo0))
  BY DEF Receive0
<1> DEFINE quads == Smaller(Smaller(ee0.left, room), Len(fifo0) \div Quad)
           c == Moved(ee0, quads)
           f == Drop(fifo0, quads * Quad)
           atTag == c.left = 0 /\ ~c.tagEnd /\ Len(f) >= 2
           next == IF atTag THEN NewPacket(c, Head(f).n, Head(f).last)
                   ELSE IF c.left = 0 /\ c.tagEnd THEN End(c) ELSE c
<1>2. /\ fifo0' = IF atTag THEN Drop(f, 2) ELSE f
      /\ ee0' = EeAfterRead(next, fifo0')
      /\ iop0' = Requested(iop0, iop0.req \/ Len(fifo0') < Len(fifo0))
  BY <1>1
<1>3. Len(fifo0) \in Nat /\ ee0.left \in Nat /\ room \in Nat /\ ee0.req
  BY LenProperties, SifAssumption DEF Inv0, Channel, Receive0, Runs
<1>4. quads \in Nat /\ quads <= ee0.left /\ quads * Quad \in 0 .. Len(fifo0)
  <2>1. Len(fifo0) \div 4 \in Nat /\ (Len(fifo0) \div 4) * 4 <= Len(fifo0)
    BY <1>3
  <2>2. Smaller(ee0.left, room) \in Nat /\ Smaller(ee0.left, room) <= ee0.left
    BY <1>3, SmallerProperties
  <2>3. /\ quads \in Nat /\ quads <= Smaller(ee0.left, room)
        /\ quads <= Len(fifo0) \div 4
    BY <2>1, <2>2, SmallerProperties
  <2> HIDE DEF quads
  <2> QED BY <1>3, <2>1, <2>2, <2>3
<1> HIDE DEF quads
<1>5. c \in Channel /\ c.req
  BY <1>3, <1>4, MovedProperties DEF Inv0
<1> HIDE DEF c
<1>6. f \in Seq(Words) /\ Len(f) <= Len(fifo0) /\ Len(f) \in Nat
  BY <1>3, <1>4, DropProperties DEF Inv0
<1> HIDE DEF f
<1>7. /\ fifo0' \in Seq(Words) /\ Len(fifo0') \in Nat /\ Len(fifo0') <= Len(fifo0)
  BY <1>2, <1>6, DropProperties
<1>8. next \in Channel /\ next.req
  <2>1. CASE atTag
    <3>1. Head(f) \in Words
      BY <1>6, <2>1, HeadTailProperties
    <3>2. Head(f).n \in Nat /\ Head(f).last \in BOOLEAN
      BY <3>1 DEF Words
    <3> QED BY <1>5, <2>1, <3>2, NewPacketProperties
  <2>2. CASE ~atTag
    BY <1>5, <2>2, EndProperties
  <2> QED BY <2>1, <2>2
<1> HIDE DEF next
<1>9. /\ ee0' \in Channel
      /\ ee0'.req <=> Len(fifo0') >= 4
  BY <1>2, <1>7, <1>8, RequestedProperties DEF EeAfterRead
<1>10. /\ iop0' \in Channel /\ iop0'.left = iop0.left
       /\ iop0'.req <=> iop0.req \/ Len(fifo0') < Len(fifo0)
  BY <1>2, <1>3, <1>7, RequestedProperties DEF Inv0, Channel
<1> QED
  BY <1>3, <1>7, <1>9, <1>10, SifAssumption DEF Inv0, Requests0, Room0

-----------------------------------------------------------------------------
(* SIF1                                                                    *)

LEMMA StartEe1Step == Inv1 /\ StartEe1 => Inv1'
BY DEF Inv1, Requests1, StartEe1, Channel, Start

LEMMA StartIop1Step == Inv1 /\ StartIop1 => Inv1'
BY DEF Inv1, Requests1, StartIop1, Channel

(* What is left of the FIFO when the IOP has read a part of it, and what   *)
(* the reads do to the requests.                                           *)
LEMMA ReadProperties ==
  ASSUME NEW f \in Seq(Words), Len(f) < Len(fifo1), NEW c \in Channel, c.req, Inv1
  PROVE  /\ IopAfterRead(c, f) \in Channel /\ (IopAfterRead(c, f).req <=> f # <<>>)
         /\ EeAfterIopRead(ee1, f) \in Channel
         /\ EeAfterIopRead(ee1, f).req <=> Len(f) < Half
         /\ Len(f) <= Half - 1 + (Slice * Quad)
<1>1. IopAfterRead(c, f) \in Channel /\ (IopAfterRead(c, f).req <=> f # <<>>)
  BY RequestedProperties DEF IopAfterRead
<1>2. /\ Len(f) \in Nat /\ Len(fifo1) \in Nat /\ Half \in Nat /\ Slice * Quad \in Nat
  BY LenProperties, HalfProperties, SifAssumption DEF Inv1, Quad
<1>3. ee1 \in Channel /\ ee1.req \in BOOLEAN /\ (ee1.req <=> Len(fifo1) < Half)
  BY DEF Inv1, Requests1, Channel
<1>4. /\ EeAfterIopRead(ee1, f) \in Channel
      /\ EeAfterIopRead(ee1, f).req <=> (ee1.req \/ Len(f) < Half)
  BY <1>3, RequestedProperties DEF EeAfterIopRead
<1>5. Len(fifo1) <= Half - 1 + (Slice * Quad)
  BY DEF Inv1
<1>6. Len(f) <= Half - 1 + (Slice * Quad)
  BY <1>2, <1>5
<1>7. (ee1.req \/ Len(f) < Half) <=> Len(f) < Half
  BY <1>2, <1>3
<1> QED BY <1>1, <1>4, <1>6, <1>7

LEMMA ReceiveTag1Step == Inv1 /\ ReceiveTag1 => Inv1'
<1> SUFFICES ASSUME Inv1, ReceiveTag1
             PROVE  Inv1'
  OBVIOUS
<1> DEFINE c == NewPacket(iop1, Head(fifo1).n, Head(fifo1).last)
<1>1. /\ fifo1' = Drop(fifo1, Quad)
      /\ iop1' = IopAfterRead(c, fifo1')
      /\ ee1' = EeAfterIopRead(ee1, fifo1')
      /\ iop1.req /\ Len(fifo1) >= Quad
  BY DEF ReceiveTag1, Runs
<1>2. fifo1 \in Seq(Words) /\ iop1 \in Channel /\ Len(fifo1) \in Nat
  BY LenProperties DEF Inv1
<1>3. Quad \in 0 .. Len(fifo1)
  BY <1>1, <1>2 DEF Quad
<1>4. fifo1' \in Seq(Words) /\ Len(fifo1') = Len(fifo1) - Quad
  BY <1>1, <1>2, <1>3, DropProperties
<1>5. Len(fifo1') < Len(fifo1)
  BY <1>2, <1>4 DEF Quad
<1>6. Head(fifo1) \in Words
  BY <1>1, <1>2, HeadTailProperties DEF Quad
<1>7. Head(fifo1).n \in Nat /\ Head(fifo1).last \in BOOLEAN
  BY <1>6 DEF Words
<1>8. c \in Channel /\ c.req
  BY <1>1, <1>2, <1>7, NewPacketProperties
<1> HIDE DEF c
<1> QED BY <1>1, <1>4, <1>5, <1>8, ReadProperties DEF Inv1, Requests1

LEMMA ReceiveWord1Step == Inv1 /\ ReceiveWord1 => Inv1'
<1> SUFFICES ASSUME Inv1, ReceiveWord1
             PROVE  Inv1'
  OBVIOUS
<1> DEFINE c == Moved(iop1, 1)
           r == IopAfterRead(c, fifo1')
<1>1. /\ fifo1' = Tail(fifo1)
      /\ iop1' = IF r.left = 0 /\ r.tagEnd THEN End(r) ELSE r
      /\ ee1' = EeAfterIopRead(ee1, fifo1')
      /\ iop1.req /\ iop1.left > 0
  BY DEF ReceiveWord1, Runs
<1>2. fifo1 \in Seq(Words) /\ iop1 \in Channel /\ iop1.left \in Nat
  BY DEF Inv1, Channel
<1>3. fifo1 # <<>>
  BY <1>1 DEF Inv1, Requests1
<1>4. fifo1' \in Seq(Words) /\ Len(fifo1') = Len(fifo1) - 1 /\ Len(fifo1) \in Nat
  BY <1>1, <1>2, <1>3, HeadTailProperties, LenProperties
<1>5. Len(fifo1') < Len(fifo1)
  BY <1>4
<1>6. c \in Channel /\ c.req
  BY <1>1, <1>2, MovedProperties
<1> HIDE DEF c
<1>7. /\ r \in Channel /\ (r.req <=> fifo1' # <<>>)
      /\ ee1' \in Channel /\ (ee1'.req <=> Len(fifo1') < Half)
      /\ Len(fifo1') <= Half - 1 + (Slice * Quad)
  BY <1>1, <1>4, <1>5, <1>6, ReadProperties
<1> HIDE DEF r
<1>8. iop1' \in Channel /\ (iop1'.req <=> r.req)
  BY <1>1, <1>7, EndProperties
<1>9. Half' = Half /\ Quad' = Quad
  BY DEF Half, Quad
<1> QED BY <1>4, <1>7, <1>8 DEF Inv1, Requests1

LEMMA PacketWordProperties ==
  ASSUME NEW k \in Nat, NEW words \in Int, NEW last \in BOOLEAN, k = 0 => words \in Nat
  PROVE  PacketWord(k, words, last) \in Words
<1>1. CASE k = 0
  <2>1. Tag(words, last) \in Words
    BY <1>1 DEF Tag, Words, Kinds
  <2> QED BY <1>1, <2>1 DEF PacketWord
<1>2. CASE k # 0
  <2>1. Word("tag rest", 0) \in Words
    BY DEF Word, Words, Kinds
  <2>2. k >= Quad => Word("data", k - Quad + 1) \in Words
    BY DEF Word, Words, Kinds, Quad
  <2>3. CASE k < Quad
    BY <1>2, <2>1, <2>3 DEF PacketWord
  <2>4. CASE k >= Quad
    <3>1. ~(k < Quad)
      BY <2>4 DEF Quad
    <3> QED BY <1>2, <2>2, <2>4, <3>1 DEF PacketWord
  <2> QED BY <2>3, <2>4 DEF Quad
<1> QED BY <1>1, <1>2

(* What write_SIF1 sends: the tag is the first word of a packet.           *)
Sent(from, n, words, last) == [i \in 1 .. n |-> PacketWord(from + i - 1, words, last)]

LEMMA SentProperties ==
  ASSUME NEW from \in Nat, NEW n \in Nat, NEW words \in Int, NEW last \in BOOLEAN,
         from = 0 /\ n > 0 => words \in Nat
  PROVE  /\ Sent(from, n, words, last) \in Seq(Words)
         /\ Len(Sent(from, n, words, last)) = n
<1>1. ASSUME NEW i \in 1 .. n
      PROVE  PacketWord(from + i - 1, words, last) \in Words
  <2> DEFINE k == from + i - 1
  <2>1. k \in Nat /\ (k = 0 => from = 0 /\ n > 0)
    OBVIOUS
  <2> HIDE DEF k
  <2>2. PacketWord(k, words, last) \in Words
    BY <2>1, PacketWordProperties
  <2> QED BY <2>2 DEF k
<1>2. Sent(from, n, words, last) \in [1 .. n -> Words]
  BY <1>1 DEF Sent
<1> HIDE DEF Words, Sent
<1>3. Sent(from, n, words, last) \in Seq(Words)
  BY <1>2, SeqDef
<1>4. Len(Sent(from, n, words, last)) = n
  BY <1>2
<1> QED BY <1>3, <1>4

LEMMA Send1Step == Inv1 /\ Send1 => Inv1'
<1> SUFFICES ASSUME Inv1, Send1
             PROVE  Inv1'
  OBVIOUS
<1>1. PICK room \in 1 .. Slice, last \in BOOLEAN :
       LET quads == Smaller(ee1.left, room)
           words == (ee1.done + ee1.left - 1) * Quad
           c == Moved(ee1, quads)
           sent == [i \in 1 .. quads * Quad |->
                      PacketWord(ee1.done * Quad + i - 1, words, last)]
       IN /\ last => words > 0
          /\ fifo1' = fifo1 \o sent
          /\ iop1' = Requested(iop1, iop1.req \/ quads > 0)
          /\ \/ /\ c.left > 0
                /\ ee1' = EeAfterOwnWrite(c, fifo1')
             \/ /\ c.left = 0 /\ c.tagEnd
                /\ ee1' = EeAfterOwnWrite(End(c), fifo1')
             \/ /\ c.left = 0 /\ ~c.tagEnd
                /\ \E n \in Lengths, lastEE \in BOOLEAN :
                     /\ n % Quad = 0
                     /\ ee1' = EeAfterOwnWrite(NewPacket(c, 1 + (n \div Quad), lastEE), fifo1')
  BY DEF Send1
<1> DEFINE quads == Smaller(ee1.left, room)
           words == (ee1.done + ee1.left - 1) * Quad
           c == Moved(ee1, quads)
           sent == [i \in 1 .. quads * Quad |->
                      PacketWord(ee1.done * Quad + i - 1, words, last)]
<1>2. /\ fifo1' = fifo1 \o sent
      /\ iop1' = Requested(iop1, iop1.req \/ quads > 0)
  BY <1>1
<1>3. \/ ee1' = EeAfterOwnWrite(c, fifo1')
      \/ ee1' = EeAfterOwnWrite(End(c), fifo1')
      \/ \E n \in Lengths, lastEE \in BOOLEAN :
           ee1' = EeAfterOwnWrite(NewPacket(c, 1 + (n \div Quad), lastEE), fifo1')
  BY <1>1
<1>4. /\ ee1 \in Channel /\ iop1 \in Channel /\ fifo1 \in Seq(Words)
      /\ ee1.left \in Nat /\ ee1.done \in Nat /\ Len(fifo1) \in Nat /\ ee1.req
      /\ Slice \in Nat
  BY LenProperties, SifAssumption DEF Inv1, Channel, Send1, Runs
<1>5. quads \in Nat /\ quads <= ee1.left /\ quads <= Slice
  <2>1. room \in Nat /\ room <= Slice
    BY <1>4
  <2>2. quads \in Nat /\ quads <= ee1.left /\ quads <= room
    BY <1>4, <2>1, SmallerProperties
  <2> HIDE DEF quads
  <2> QED BY <1>4, <2>1, <2>2
<1> HIDE DEF quads
<1>6. c \in Channel /\ c.req
  BY <1>4, <1>5, MovedProperties
<1> HIDE DEF c
<1>7. sent \in Seq(Words) /\ Len(sent) = quads * Quad
  <2> DEFINE from == ee1.done * Quad
             count == quads * Quad
  <2>1. from \in Nat /\ count \in Nat /\ words \in Int
    BY <1>4, <1>5 DEF Quad
  <2>2. from = 0 /\ count > 0 => words \in Nat
    BY <1>4, <1>5 DEF Quad
  <2>3. sent = Sent(from, count, words, last)
    BY DEF Sent
  <2> HIDE DEF from, count, words, sent
  <2>4. sent \in Seq(Words) /\ Len(sent) = count
    BY <2>1, <2>2, <2>3, SentProperties
  <2> QED BY <2>4 DEF count
<1> HIDE DEF sent
<1>8. fifo1' \in Seq(Words) /\ Len(fifo1') = Len(fifo1) + Len(sent)
  BY <1>2, <1>4, <1>7, ConcatProperties
<1>9. Len(fifo1') = Len(fifo1) + (quads * Quad) /\ Len(fifo1') \in Nat
  BY <1>4, <1>5, <1>7, <1>8 DEF Quad
<1>10. Len(fifo1) < Half
  BY <1>4 DEF Inv1, Requests1
<1>11. Len(fifo1') <= Half - 1 + (Slice * Quad)
  BY <1>4, <1>5, <1>9, <1>10, HalfProperties DEF Quad
<1>12. iop1' \in Channel /\ (iop1'.req <=> fifo1' # <<>>)
  <2>1. iop1' \in Channel /\ (iop1'.req <=> iop1.req \/ quads > 0)
    BY <1>2, <1>4, <1>5, RequestedProperties DEF Channel
  <2>2. iop1.req <=> Len(fifo1) > 0
    BY <1>4, EmptySeq DEF Inv1, Requests1
  <2>3. fifo1' # <<>> <=> Len(fifo1') > 0
    BY <1>8, <1>9, EmptySeq
  <2>4. Len(fifo1') > 0 <=> Len(fifo1) > 0 \/ quads > 0
    BY <1>4, <1>5, <1>9 DEF Quad
  <2> QED BY <2>1, <2>2, <2>3, <2>4
<1>13. ee1' \in Channel /\ (ee1'.req <=> Len(fifo1') < Half)
  <2>1. ASSUME NEW d \in Channel, d.req, ee1' = EeAfterOwnWrite(d, fifo1')
        PROVE  ee1' \in Channel /\ (ee1'.req <=> Len(fifo1') < Half)
    BY <2>1, RequestedProperties DEF EeAfterOwnWrite
  <2>2. CASE ee1' = EeAfterOwnWrite(c, fifo1')
    BY <1>6, <2>1, <2>2
  <2>3. CASE ee1' = EeAfterOwnWrite(End(c), fifo1')
    BY <1>6, <2>1, <2>3, EndProperties
  <2>4. ASSUME NEW n \in Lengths, NEW lastEE \in BOOLEAN,
               ee1' = EeAfterOwnWrite(NewPacket(c, 1 + (n \div Quad), lastEE), fifo1')
        PROVE  ee1' \in Channel /\ (ee1'.req <=> Len(fifo1') < Half)
    <3>1. n \in Nat
      BY SifAssumption
    <3>2. 1 + (n \div Quad) \in Nat
      BY <3>1 DEF Quad
    <3>3. NewPacket(c, 1 + (n \div Quad), lastEE) \in Channel
          /\ NewPacket(c, 1 + (n \div Quad), lastEE).req
      BY <1>6, <3>2, NewPacketProperties
    <3> QED BY <2>1, <2>4, <3>3
  <2> QED BY <1>3, <2>2, <2>3, <2>4
<1> QED BY <1>8, <1>11, <1>12, <1>13 DEF Inv1, Requests1

-----------------------------------------------------------------------------
(* The two directions share nothing: a step of one leaves the other alone. *)

LEMMA Inv0Kept == Inv0 /\ UNCHANGED sif0 => Inv0'
BY DEF Inv0, Requests0, Room0, sif0

LEMMA Inv1Kept == Inv1 /\ UNCHANGED sif1 => Inv1'
BY DEF Inv1, Requests1, sif1

LEMMA Steps == Inv0 /\ Inv1 /\ [Next]_vars => Inv0' /\ Inv1'
<1> SUFFICES ASSUME Inv0, Inv1, [Next]_vars
             PROVE  Inv0' /\ Inv1'
  OBVIOUS
<1>1. CASE StartIop0
  BY <1>1, StartIop0Step, Inv1Kept DEF StartIop0
<1>2. CASE SendTag0
  BY <1>2, SendTag0Step, Inv1Kept DEF SendTag0
<1>3. CASE SendWord0
  BY <1>3, SendWord0Step, Inv1Kept DEF SendWord0
<1>4. CASE StartEe0
  BY <1>4, StartEe0Step, Inv1Kept DEF StartEe0
<1>5. CASE Receive0
  BY <1>5, Receive0Step, Inv1Kept DEF Receive0
<1>6. CASE StartEe1
  BY <1>6, StartEe1Step, Inv0Kept DEF StartEe1
<1>7. CASE Send1
  BY <1>7, Send1Step, Inv0Kept DEF Send1
<1>8. CASE StartIop1
  BY <1>8, StartIop1Step, Inv0Kept DEF StartIop1
<1>9. CASE ReceiveTag1
  BY <1>9, ReceiveTag1Step, Inv0Kept DEF ReceiveTag1
<1>10. CASE ReceiveWord1
  BY <1>10, ReceiveWord1Step, Inv0Kept DEF ReceiveWord1
<1>11. CASE UNCHANGED vars
  BY <1>11, Inv0Kept, Inv1Kept DEF vars, sif0, sif1
<1> QED
  BY <1>1, <1>2, <1>3, <1>4, <1>5, <1>6, <1>7, <1>8, <1>9, <1>10, <1>11
  DEF Next, Iop0, Iop1

(* Both invariants hold after every call of a process_ function and every  *)
(* start of a channel, in any order.                                       *)
THEOREM SifInvariant == Spec => [](Inv0 /\ Inv1)
<1>1. Init => Inv0 /\ Inv1
  BY Initially
<1>2. (Inv0 /\ Inv1) /\ [Next]_vars => (Inv0 /\ Inv1)'
  BY Steps
<1> QED BY <1>1, <1>2, PTL DEF Spec

(* The FIFOs hold words and the channels keep their counts: QWC and the    *)
(* IOP's word count never go below zero, for any lengths of packets.       *)
THEOREM SifTypes == Spec => []TypeOK
<1>1. Inv0 /\ Inv1 => TypeOK
  BY DEF Inv0, Inv1, TypeOK
<1> QED BY <1>1, SifInvariant, PTL

(* The requests that write_SIF0 .. read_SIF1 set and clear are what the    *)
(* process_ functions rely on: IOP_DMA::process_SIF1 pops a word without   *)
(* asking and never finds the FIFO empty, whatever the EE's slices were.   *)
THEOREM RequestsAreRight == Spec => []RequestsFollow
<1>1. Inv0 /\ Inv1 => RequestsFollow
  BY DEF Inv0, Inv1, Requests0, Requests1, RequestsFollow
<1> QED BY <1>1, SifInvariant, PTL

(* The std::queues of sif.cpp have no limit of their own: the requests     *)
(* keep them within the junk of a quadword and a slice of theirs.          *)
THEOREM FifosBounded == Spec => []Bounded
<1>1. Inv0 /\ Inv1 => Bounded
  BY DEF Inv0, Inv1, Room0, Bounded
<1> QED BY <1>1, SifInvariant, PTL

-----------------------------------------------------------------------------
(* Packets in a FIFO                                                       *)

(* The n words of a packet that come after place at of f, the places from  *)
(* done on: they are there in order, and then the next tag, or the last c  *)
(* of the total of the packet are still to be sent.                        *)
Packet(f, at, n, done, c, total) ==
  /\ \A k \in 1 .. n :
       at + k <= Len(f) => f[at + k].kind # "tag" /\ f[at + k].n = done + k
  /\ at + n < Len(f) => f[at + n + 1].kind = "tag"
  /\ at + n >= Len(f) => at + n - Len(f) = c
  /\ at + n > Len(f) => done + n = total

(* A receiver that counts n words more finds its packets in f.  A tag has  *)
(* rest words more, and counts in units of some words.                     *)
Framing(f, rest, unit, n, done, c, total) ==
  /\ Packet(f, 0, n, done, c, total)
  /\ \A i \in 1 .. Len(f) :
       f[i].kind = "tag" => /\ i + rest <= Len(f)
                            /\ Packet(f, i + rest, f[i].n * unit, 0, c, total)

LEMMA DropWords ==
  ASSUME NEW f \in Seq(Words), NEW q \in 0 .. Len(f)
  PROVE  \A i \in 1 .. Len(f) - q : Drop(f, q)[i] = f[q + i]
<1>1. Len(f) \in Nat
  BY LenProperties
<1>2. \A i \in q + 1 .. Len(f) : f[i] \in Words
  BY <1>1, ElementOfSeq
<1>3. q + 1 \in Int /\ Len(f) \in Int
  BY <1>1
<1> HIDE DEF Words
<1>4. \A i \in 1 .. Len(f) - (q + 1) + 1 : SubSeq(f, q + 1, Len(f))[i] = f[q + 1 + i - 1]
  <2>1. Len(SubSeq(f, q + 1, Len(f))) = IF q + 1 <= Len(f) THEN Len(f) - (q + 1) + 1 ELSE 0
    BY <1>2, <1>3, SubSeqProperties
  <2>2. Len(SubSeq(f, q + 1, Len(f))) = Len(f) - (q + 1) + 1
    BY <1>1, <2>1
  <2> QED BY <1>2, <1>3, <2>2, SubSeqProperties
<1> QED BY <1>1, <1>4 DEF Drop

(* A packet further down, when q words were read.                          *)
LEMMA PacketDropped ==
  ASSUME NEW f \in Seq(Words), NEW q \in 0 .. Len(f), NEW at \in Nat, q <= at,
         NEW n \in Nat, NEW done \in Nat, NEW c \in Int, NEW total \in Int,
         Packet(f, at, n, done, c, total)
  PROVE  Packet(Drop(f, q), at - q, n, done, c, total)
<1> DEFINE g == Drop(f, q)
<1>1. Len(f) \in Nat /\ Len(g) = Len(f) - q
  BY LenProperties, DropProperties
<1>2. \A i \in 1 .. Len(g) : g[i] = f[q + i]
  BY <1>1, DropWords
<1> HIDE DEF g
<1>3. ASSUME NEW k \in 1 .. n, (at - q) + k <= Len(g)
      PROVE  g[(at - q) + k].kind # "tag" /\ g[(at - q) + k].n = done + k
  <2>1. (at - q) + k \in 1 .. Len(g) /\ q + ((at - q) + k) = at + k /\ at + k <= Len(f)
    BY <1>1, <1>3
  <2>2. g[(at - q) + k] = f[at + k]
    BY <1>2, <2>1
  <2> QED BY <2>1, <2>2 DEF Packet
<1>4. ASSUME (at - q) + n < Len(g) PROVE g[(at - q) + n + 1].kind = "tag"
  <2>1. (at - q) + n + 1 \in 1 .. Len(g) /\ q + ((at - q) + n + 1) = at + n + 1
          /\ at + n < Len(f)
    BY <1>1, <1>4
  <2>2. g[(at - q) + n + 1] = f[at + n + 1]
    BY <1>2, <2>1
  <2> QED BY <2>1, <2>2 DEF Packet
<1>5. (at - q) + n >= Len(g) => (at - q) + n - Len(g) = c
  BY <1>1 DEF Packet
<1>6. (at - q) + n > Len(g) => done + n = total
  BY <1>1 DEF Packet
<1> QED BY <1>3, <1>4, <1>5, <1>6 DEF Packet, g

(* The packet in front, when q of its words were read.                     *)
LEMMA PacketRead ==
  ASSUME NEW f \in Seq(Words), NEW q \in 0 .. Len(f),
         NEW n \in Nat, q <= n, NEW done \in Nat, NEW c \in Int, NEW total \in Int,
         Packet(f, 0, n, done, c, total)
  PROVE  Packet(Drop(f, q), 0, n - q, done + q, c, total)
<1> DEFINE g == Drop(f, q)
<1>1. Len(f) \in Nat /\ Len(g) = Len(f) - q
  BY LenProperties, DropProperties
<1>2. \A i \in 1 .. Len(g) : g[i] = f[q + i]
  BY <1>1, DropWords
<1> HIDE DEF g
<1>3. ASSUME NEW k \in 1 .. n - q, 0 + k <= Len(g)
      PROVE  g[0 + k].kind # "tag" /\ g[0 + k].n = (done + q) + k
  <2>1. 0 + k \in 1 .. Len(g) /\ q + k \in 1 .. n /\ 0 + (q + k) <= Len(f)
          /\ 0 + k = k /\ 0 + (q + k) = q + k
    BY <1>1, <1>3
  <2>2. g[0 + k] = f[0 + (q + k)]
    BY <1>2, <2>1
  <2>3. f[0 + (q + k)].kind # "tag" /\ f[0 + (q + k)].n = done + (q + k)
    BY <2>1 DEF Packet
  <2> QED BY <2>2, <2>3
<1>4. ASSUME 0 + (n - q) < Len(g) PROVE g[0 + (n - q) + 1].kind = "tag"
  <2>1. 0 + (n - q) + 1 \in 1 .. Len(g) /\ q + (0 + (n - q) + 1) = 0 + n + 1
          /\ 0 + n < Len(f)
    BY <1>1, <1>4
  <2>2. g[0 + (n - q) + 1] = f[0 + n + 1]
    BY <1>2, <2>1
  <2> QED BY <2>1, <2>2 DEF Packet
<1>5. 0 + (n - q) >= Len(g) => 0 + (n - q) - Len(g) = c
  BY <1>1 DEF Packet
<1>6. 0 + (n - q) > Len(g) => (done + q) + (n - q) = total
  BY <1>1 DEF Packet
<1> QED BY <1>3, <1>4, <1>5, <1>6 DEF Packet, g

(* A receiver reads q words of its packet.                                 *)
LEMMA FramingRead ==
  ASSUME NEW f \in Seq(Words), NEW q \in 0 .. Len(f), NEW rest \in Nat, NEW unit \in Nat,
         NEW n \in Nat, q <= n, NEW done \in Nat, NEW c \in Int, NEW total \in Int,
         Framing(f, rest, unit, n, done, c, total)
  PROVE  Framing(Drop(f, q), rest, unit, n - q, done + q, c, total)
<1> DEFINE g == Drop(f, q)
<1>1. Len(f) \in Nat /\ Len(g) = Len(f) - q
  BY LenProperties, DropProperties
<1>2. \A i \in 1 .. Len(g) : g[i] = f[q + i]
  BY <1>1, DropWords
<1>3. Packet(g, 0, n - q, done + q, c, total)
  BY PacketRead DEF Framing
<1>4. ASSUME NEW i \in 1 .. Len(g), g[i].kind = "tag"
      PROVE  i + rest <= Len(g) /\ Packet(g, i + rest, g[i].n * unit, 0, c, total)
  <2>1. q + i \in 1 .. Len(f) /\ f[q + i] = g[i]
    BY <1>1, <1>2
  <2> HIDE DEF g
  <2>2. (q + i) + rest <= Len(f) /\ Packet(f, (q + i) + rest, f[q + i].n * unit, 0, c, total)
    BY <1>4, <2>1 DEF Framing
  <2>3. f[q + i] \in Words
    BY <2>1, ElementOfSeq
  <2>4. f[q + i].n * unit \in Nat
    BY <2>3 DEF Words
  <2>5. (q + i) + rest \in Nat /\ q <= (q + i) + rest
    BY <2>1
  <2> DEFINE m == f[q + i].n * unit
             at == (q + i) + rest
  <2>6. Packet(f, at, m, 0, c, total) /\ m \in Nat /\ at \in Nat /\ q <= at
    BY <2>2, <2>4, <2>5
  <2>7. at - q = i + rest
    BY <2>1
  <2>9. m = g[i].n * unit
    BY <2>1
  <2> HIDE DEF m, at
  <2>8. Packet(Drop(f, q), at - q, m, 0, c, total)
    BY <2>6, PacketDropped
  <2> QED BY <1>1, <2>1, <2>2, <2>7, <2>8, <2>9 DEF g
<1> QED BY <1>3, <1>4 DEF Framing

(* A receiver that expects a tag finds one, and reads it.                  *)
LEMMA FramingTag ==
  ASSUME NEW f \in Seq(Words), f # <<>>, NEW rest \in Nat, NEW unit \in Nat,
         NEW done \in Nat, NEW c \in Int, NEW total \in Int,
         Framing(f, rest, unit, 0, done, c, total)
  PROVE  /\ rest + 1 <= Len(f)
         /\ Framing(Drop(f, rest + 1), rest, unit, Head(f).n * unit, 0, c, total)
<1> DEFINE q == rest + 1
           g == Drop(f, q)
<1>1. Len(f) \in Nat /\ Len(f) > 0 /\ Head(f) = f[1]
  BY LenProperties, EmptySeq, HeadTailProperties
<1>2. f[1].kind = "tag"
  BY <1>1 DEF Framing, Packet
<1>3. 1 + rest <= Len(f) /\ Packet(f, 1 + rest, f[1].n * unit, 0, c, total)
  BY <1>1, <1>2 DEF Framing
<1>4. q \in 0 .. Len(f) /\ q \in Nat /\ q = 1 + rest /\ f[1] \in Words
  BY <1>1, <1>3, ElementOfSeq
<1> HIDE DEF q
<1>5. f[1].n * unit \in Nat
  BY <1>4 DEF Words
<1>6. Packet(g, q - q, f[1].n * unit, 0, c, total)
  <2> DEFINE m == f[1].n * unit
  <2>1. m \in Nat /\ Packet(f, q, m, 0, c, total)
    BY <1>3, <1>4, <1>5
  <2> HIDE DEF m
  <2>2. Packet(g, q - q, m, 0, c, total)
    BY <1>4, <2>1, PacketDropped
  <2> QED BY <2>2 DEF m
<1>7. Len(g) = Len(f) - q /\ \A i \in 1 .. Len(g) : g[i] = f[q + i]
  BY <1>1, <1>4, DropProperties, DropWords
<1>8. ASSUME NEW i \in 1 .. Len(g), g[i].kind = "tag"
      PROVE  i + rest <= Len(g) /\ Packet(g, i + rest, g[i].n * unit, 0, c, total)
  <2>1. q + i \in 1 .. Len(f) /\ f[q + i] = g[i]
    BY <1>1, <1>4, <1>7
  <2> HIDE DEF g
  <2>2. (q + i) + rest <= Len(f) /\ Packet(f, (q + i) + rest, f[q + i].n * unit, 0, c, total)
    BY <1>8, <2>1 DEF Framing
  <2>3. f[q + i] \in Words
    BY <2>1, ElementOfSeq
  <2>4. f[q + i].n * unit \in Nat
    BY <2>3 DEF Words
  <2>5. (q + i) + rest \in Nat /\ q <= (q + i) + rest
    BY <1>4, <2>1
  <2> DEFINE m == f[q + i].n * unit
             at == (q + i) + rest
  <2>6. Packet(f, at, m, 0, c, total) /\ m \in Nat /\ at \in Nat /\ q <= at
    BY <2>2, <2>4, <2>5
  <2>7. at - q = i + rest
    BY <1>4
  <2>9. m = g[i].n * unit
    BY <2>1
  <2> HIDE DEF m, at
  <2>8. Packet(Drop(f, q), at - q, m, 0, c, total)
    BY <1>4, <2>6, PacketDropped
  <2> QED BY <1>4, <1>7, <2>1, <2>2, <2>7, <2>8, <2>9 DEF g
<1>9. q - q = 0
  BY <1>4
<1> QED BY <1>1, <1>3, <1>6, <1>8, <1>9 DEF Framing, q

LEMMA ConcatWords ==
  ASSUME NEW f \in Seq(Words), NEW g \in Seq(Words)
  PROVE  /\ f \o g \in Seq(Words) /\ Len(f \o g) = Len(f) + Len(g)
         /\ \A i \in 1 .. Len(f) : (f \o g)[i] = f[i]
         /\ \A j \in 1 .. Len(g) : (f \o g)[Len(f) + j] = g[j]
<1>1. f \o g \in Seq(Words) /\ Len(f \o g) = Len(f) + Len(g)
        /\ \A i \in 1 .. Len(f) + Len(g) :
             (f \o g)[i] = IF i <= Len(f) THEN f[i] ELSE g[i - Len(f)]
  BY ConcatProperties
<1>2. Len(f) \in Nat /\ Len(g) \in Nat
  BY LenProperties
<1>3. ASSUME NEW i \in 1 .. Len(f) PROVE (f \o g)[i] = f[i]
  BY <1>1, <1>2
<1>4. ASSUME NEW j \in 1 .. Len(g) PROVE (f \o g)[Len(f) + j] = g[j]
  <2>1. Len(f) + j \in 1 .. Len(f) + Len(g) /\ ~(Len(f) + j <= Len(f))
          /\ (Len(f) + j) - Len(f) = j
    BY <1>2
  <2> QED BY <1>1, <2>1
<1> QED BY <1>1, <1>3, <1>4

(* g are the next words of the packet of which c words of total are to be  *)
(* sent.                                                                   *)
Continues(g, c, total) ==
  \A j \in 1 .. Len(g) : g[j].kind # "tag" /\ g[j].n = (total - c) + j

LEMMA PacketData ==
  ASSUME NEW f \in Seq(Words), NEW g \in Seq(Words), NEW at \in Nat, at <= Len(f),
         NEW n \in Nat, NEW done \in Nat, NEW c \in Int, NEW total \in Int,
         Len(g) <= c, Continues(g, c, total), Packet(f, at, n, done, c, total)
  PROVE  Packet(f \o g, at, n, done, c - Len(g), total)
<1> DEFINE h == f \o g
<1>1. /\ Len(f) \in Nat /\ Len(g) \in Nat /\ Len(h) = Len(f) + Len(g)
      /\ \A i \in 1 .. Len(f) : h[i] = f[i]
      /\ \A j \in 1 .. Len(g) : h[Len(f) + j] = g[j]
  BY LenProperties, ConcatWords
<1> HIDE DEF h
<1>2. at + n < Len(f) \/ c = at + n - Len(f)
  BY <1>1 DEF Packet
<1>3. ASSUME NEW k \in 1 .. n, at + k <= Len(h)
      PROVE  h[at + k].kind # "tag" /\ h[at + k].n = done + k
  <2>1. CASE at + k <= Len(f)
    <3>1. at + k \in 1 .. Len(f)
      BY <1>1, <2>1
    <3>2. h[at + k] = f[at + k]
      BY <1>1, <3>1
    <3> QED BY <2>1, <3>2 DEF Packet
  <2>2. CASE at + k > Len(f)
    <3> DEFINE j == at + k - Len(f)
    <3>1. j \in 1 .. Len(g) /\ Len(f) + j = at + k /\ at + n > Len(f)
      BY <1>1, <1>3, <2>2
    <3>2. done + n = total /\ c = at + n - Len(f)
      BY <1>1, <1>2, <3>1 DEF Packet
    <3> HIDE DEF j
    <3>3. (total - c) + j = done + k
      <4>1. j \in Int /\ k \in Int /\ Len(f) \in Int /\ j = at + k - Len(f)
        BY <1>1, <3>1
      <4> QED BY <3>2, <4>1
    <3>4. h[at + k] = g[j]
      BY <1>1, <3>1
    <3> QED BY <3>1, <3>3, <3>4 DEF Continues
  <2> QED BY <1>1, <2>1, <2>2
<1>4. ASSUME at + n < Len(h) PROVE h[at + n + 1].kind = "tag"
  <2>1. at + n < Len(f)
    BY <1>1, <1>2, <1>4
  <2>2. at + n + 1 \in 1 .. Len(f)
    BY <1>1, <2>1
  <2>3. h[at + n + 1] = f[at + n + 1]
    BY <1>1, <2>2
  <2> QED BY <2>1, <2>3 DEF Packet
<1>5. at + n >= Len(h) => at + n - Len(h) = c - Len(g)
  BY <1>1, <1>2
<1>6. at + n > Len(h) => done + n = total
  BY <1>1 DEF Packet
<1> QED BY <1>3, <1>4, <1>5, <1>6 DEF Packet, h

(* A sender sends words of its packet.                                     *)
LEMMA FramingData ==
  ASSUME NEW f \in Seq(Words), NEW g \in Seq(Words), NEW rest \in Nat, NEW unit \in Nat,
         NEW n \in Nat, NEW done \in Nat, NEW c \in Int, NEW total \in Int,
         Len(g) <= c, Continues(g, c, total), Framing(f, rest, unit, n, done, c, total)
  PROVE  Framing(f \o g, rest, unit, n, done, c - Len(g), total)
<1> DEFINE h == f \o g
<1>1. /\ Len(f) \in Nat /\ Len(g) \in Nat /\ Len(h) = Len(f) + Len(g)
      /\ \A i \in 1 .. Len(f) : h[i] = f[i]
      /\ \A j \in 1 .. Len(g) : h[Len(f) + j] = g[j]
  BY LenProperties, ConcatWords
<1>2. Packet(h, 0, n, done, c - Len(g), total)
  BY <1>1, PacketData DEF Framing
<1>3. ASSUME NEW i \in 1 .. Len(h), h[i].kind = "tag"
      PROVE  i + rest <= Len(h) /\ Packet(h, i + rest, h[i].n * unit, 0, c - Len(g), total)
  <2>1. i <= Len(f)
    <3>1. SUFFICES ASSUME i > Len(f) PROVE FALSE
      BY <1>1
    <3> DEFINE j == i - Len(f)
    <3>2. j \in 1 .. Len(g) /\ Len(f) + j = i
      BY <1>1, <3>1
    <3> HIDE DEF j, h
    <3>3. h[i] = g[j]
      BY <1>1, <3>2
    <3> QED BY <1>3, <3>2, <3>3 DEF Continues
  <2>2. i \in 1 .. Len(f)
    BY <1>1, <2>1
  <2> HIDE DEF h
  <2>3. h[i] = f[i] /\ f[i] \in Words
    BY <1>1, <2>2, ElementOfSeq
  <2>4. i + rest <= Len(f) /\ Packet(f, i + rest, f[i].n * unit, 0, c, total)
    BY <1>3, <2>2, <2>3 DEF Framing
  <2> DEFINE m == f[i].n * unit
             at == i + rest
  <2>5. m \in Nat /\ at \in Nat /\ at <= Len(f) /\ Packet(f, at, m, 0, c, total)
    <3>1. f[i].n \in Nat
      BY <2>3 DEF Words
    <3> DEFINE k == f[i].n
    <3> HIDE DEF k
    <3>2. k * unit \in Nat
      BY <3>1 DEF k
    <3>3. at \in Nat
      OBVIOUS
    <3> QED BY <2>4, <3>2, <3>3 DEF k
  <2>6. m = h[i].n * unit
    BY <2>3
  <2> HIDE DEF m
  <2>7. Packet(f \o g, at, m, 0, c - Len(g), total)
    BY <2>5, PacketData
  <2> QED BY <1>1, <2>4, <2>6, <2>7 DEF h
<1> QED BY <1>2, <1>3 DEF Framing

(* Between two packets                                                     *)
LEMMA PacketHeader ==
  ASSUME NEW f \in Seq(Words), NEW g \in Seq(Words), NEW at \in Nat, at <= Len(f),
         NEW n \in Nat, NEW done \in Nat, NEW total \in Int, NEW next \in Int,
         Len(g) > 0, g[1].kind = "tag", Packet(f, at, n, done, 0, total)
  PROVE  Packet(f \o g, at, n, done, next, next)
<1> DEFINE h == f \o g
<1>1. /\ Len(f) \in Nat /\ Len(g) \in Nat /\ Len(h) = Len(f) + Len(g)
      /\ \A i \in 1 .. Len(f) : h[i] = f[i]
      /\ \A j \in 1 .. Len(g) : h[Len(f) + j] = g[j]
  BY LenProperties, ConcatWords
<1> HIDE DEF h
<1>2. at + n <= Len(f)
  BY <1>1 DEF Packet
<1>3. ASSUME NEW k \in 1 .. n, at + k <= Len(h)
      PROVE  h[at + k].kind # "tag" /\ h[at + k].n = done + k
  <2>1. at + k \in 1 .. Len(f)
    BY <1>1, <1>2
  <2>2. h[at + k] = f[at + k]
    BY <1>1, <2>1
  <2> QED BY <2>1, <2>2 DEF Packet
<1>4. h[at + n + 1].kind = "tag"
  <2>1. CASE at + n < Len(f)
    <3>1. at + n + 1 \in 1 .. Len(f)
      BY <1>1, <2>1
    <3>2. h[at + n + 1] = f[at + n + 1]
      BY <1>1, <3>1
    <3> QED BY <2>1, <3>2 DEF Packet
  <2>2. CASE at + n = Len(f)
    <3>1. 1 \in 1 .. Len(g)
      BY <1>1
    <3>2. h[Len(f) + 1] = g[1]
      BY <1>1, <3>1
    <3> QED BY <2>2, <3>2
  <2> QED BY <1>1, <1>2, <2>1, <2>2
<1>5. ~(at + n >= Len(h))
  BY <1>1, <1>2
<1>6. ~(at + n > Len(h))
  BY <1>1, <1>2
<1> QED BY <1>3, <1>4, <1>5, <1>6 DEF Packet, h

(* A sender sends a tag, with the rest of its words.                       *)
LEMMA FramingHeader ==
  ASSUME NEW f \in Seq(Words), NEW g \in Seq(Words), NEW rest \in Nat, NEW unit \in Nat,
         NEW n \in Nat, NEW done \in Nat, NEW total \in Int,
         Len(g) = rest + 1, g[1].kind = "tag", \A j \in 2 .. rest + 1 : g[j].kind # "tag",
         Framing(f, rest, unit, n, done, 0, total)
  PROVE  Framing(f \o g, rest, unit, n, done, g[1].n * unit, g[1].n * unit)
<1> DEFINE h == f \o g
           next == g[1].n * unit
<1>1. /\ Len(f) \in Nat /\ Len(g) \in Nat /\ Len(h) = Len(f) + Len(g)
      /\ \A i \in 1 .. Len(f) : h[i] = f[i]
      /\ \A j \in 1 .. Len(g) : h[Len(f) + j] = g[j]
  BY LenProperties, ConcatWords
<1>2. next \in Nat /\ Len(g) > 0
  <2>1. 1 \in 1 .. Len(g)
    BY <1>1
  <2>2. g[1] \in Words
    BY <2>1, ElementOfSeq
  <2> QED BY <2>2 DEF Words
<1>7. next = g[1].n * unit
  OBVIOUS
<1> HIDE DEF next
<1>3. Packet(h, 0, n, done, next, next)
  <2>1. Packet(f, 0, n, done, 0, total)
    BY DEF Framing
  <2>2. next \in Int /\ 0 \in Nat /\ 0 <= Len(f)
    BY <1>1, <1>2
  <2> QED BY <1>2, <2>1, <2>2, PacketHeader
<1>4. ASSUME NEW i \in 1 .. Len(f), h[i].kind = "tag"
      PROVE  i + rest <= Len(h) /\ Packet(h, i + rest, h[i].n * unit, 0, next, next)
  <2> HIDE DEF h
  <2>3. h[i] = f[i] /\ f[i] \in Words
    BY <1>1, ElementOfSeq
  <2>4. i + rest <= Len(f) /\ Packet(f, i + rest, f[i].n * unit, 0, 0, total)
    <3>1. f[i].kind = "tag"
      BY <1>4, <2>3
    <3> QED BY <3>1 DEF Framing
  <2> DEFINE m == f[i].n * unit
             at == i + rest
  <2>5. m \in Nat /\ at \in Nat /\ at <= Len(f) /\ Packet(f, at, m, 0, 0, total)
    <3>1. f[i].n \in Nat
      BY <2>3 DEF Words
    <3> DEFINE k == f[i].n
    <3> HIDE DEF k
    <3>2. k * unit \in Nat
      BY <3>1 DEF k
    <3>3. at \in Nat
      OBVIOUS
    <3> QED BY <2>4, <3>2, <3>3 DEF k
  <2>6. m = h[i].n * unit
    BY <2>3
  <2> HIDE DEF m
  <2>7. Packet(f \o g, at, m, 0, next, next)
    <3>1. next \in Int /\ 0 \in Nat
      BY <1>2
    <3> QED BY <1>2, <2>5, <3>1, PacketHeader
  <2> QED BY <1>1, <2>4, <2>6, <2>7 DEF h
<1>5. ASSUME NEW i \in 1 .. Len(h), i > Len(f), h[i].kind = "tag"
      PROVE  i + rest <= Len(h) /\ Packet(h, i + rest, h[i].n * unit, 0, next, next)
  <2> DEFINE j == i - Len(f)
  <2>1. j \in 1 .. Len(g) /\ Len(f) + j = i
    BY <1>1, <1>5
  <2> HIDE DEF h, j
  <2>2. h[i] = g[j]
    BY <1>1, <2>1
  <2>3. j = 1
    BY <1>5, <2>1, <2>2
  <2>4. h[i].n * unit = next /\ i + rest = Len(h)
    <3>1. h[i] = g[1]
      BY <2>2, <2>3
    <3>2. i = Len(f) + 1 /\ Len(h) = Len(f) + (rest + 1) /\ Len(f) \in Nat /\ rest \in Nat
      BY <1>1, <2>1, <2>3
    <3>3. i + rest = Len(h)
      BY ONLY <3>2
    <3> QED BY <1>7, <3>1, <3>3
  <2>5. Packet(h, Len(h), next, 0, next, next)
    BY <1>1, <1>2 DEF Packet
  <2> QED BY <1>1, <2>4, <2>5
<1>6. ASSUME NEW i \in 1 .. Len(h), h[i].kind = "tag"
      PROVE  i + rest <= Len(h) /\ Packet(h, i + rest, h[i].n * unit, 0, next, next)
  <2> HIDE DEF h
  <2>1. i <= Len(f) => i \in 1 .. Len(f)
    BY <1>1
  <2>2. i <= Len(f) \/ i > Len(f)
    BY <1>1
  <2> QED BY <1>4, <1>5, <1>6, <2>1, <2>2
<1> QED BY <1>3, <1>6, <1>7 DEF Framing

(* Between two packets nothing depends on the last one.                    *)
LEMMA FramingIdle ==
  ASSUME NEW f \in Seq(Words), NEW rest \in Nat, NEW unit \in Nat,
         NEW n \in Nat, NEW done \in Nat, NEW total \in Int, NEW next \in Int,
         Framing(f, rest, unit, n, done, 0, total)
  PROVE  Framing(f, rest, unit, n, done, 0, next)
<1>1. ASSUME NEW at \in Nat, NEW m \in Nat, NEW d \in Nat, Packet(f, at, m, d, 0, total)
      PROVE  Packet(f, at, m, d, 0, next)
  <2>1. Len(f) \in Nat
    BY LenProperties
  <2>2. ~(at + m > Len(f))
    BY <1>1, <2>1 DEF Packet
  <2> QED BY <1>1, <2>2 DEF Packet
<1>2. ASSUME NEW i \in 1 .. Len(f), f[i].kind = "tag"
      PROVE  i + rest <= Len(f) /\ Packet(f, i + rest, f[i].n * unit, 0, 0, next)
  <2>1. i + rest <= Len(f) /\ Packet(f, i + rest, f[i].n * unit, 0, 0, total)
    BY <1>2 DEF Framing
  <2>2. f[i] \in Words /\ i \in Nat
    BY LenProperties, ElementOfSeq
  <2>3. f[i].n * unit \in Nat /\ i + rest \in Nat
    BY <2>2 DEF Words
  <2> QED BY <1>1, <2>1, <2>3
<1> QED BY <1>1, <1>2 DEF Framing

(* The words before the first tag are those of the packet in front.        *)
Leads(f, n, done, c) ==
  /\ n = IF Leading(f) < Len(f) THEN Leading(f) ELSE Leading(f) + c
  /\ \A i \in 1 .. Leading(f) : f[i].n = done + i

LEMMA FramingLeads ==
  ASSUME NEW f \in Seq(Words), NEW rest \in Nat, NEW unit \in Nat,
         NEW n \in Nat, NEW done \in Nat, NEW c \in Int, NEW total \in Int,
         Framing(f, rest, unit, n, done, c, total)
  PROVE  Leads(f, n, done, c)
<1>1. Len(f) \in Nat /\ DOMAIN f = 1 .. Len(f) /\ Packet(f, 0, n, done, c, total)
  BY LenProperties DEF Framing
<1>2. \A i \in 1 .. n : i <= Len(f) => f[i].kind # "tag" /\ f[i].n = done + i
  <2>1. ASSUME NEW i \in 1 .. n, i <= Len(f) PROVE f[i].kind # "tag" /\ f[i].n = done + i
    <3>1. 0 + i = i /\ 0 + i <= Len(f)
      BY <2>1
    <3> QED BY <1>1, <3>1 DEF Packet
  <2> QED BY <2>1
<1>3. CASE n < Len(f)
  <2>1. 0 + n + 1 = n + 1 /\ 0 + n < Len(f) /\ n + 1 \in 1 .. Len(f)
    BY <1>1, <1>3
  <2>2. f[n + 1].kind = "tag"
    BY <1>1, <2>1 DEF Packet
  <2> DEFINE Is(i) == f[i].kind = "tag" /\ \A j \in 1 .. i - 1 : f[j].kind # "tag"
             t == CHOOSE i \in DOMAIN f : Is(i)
  <2>3. Is(n + 1)
    <3>1. \A j \in 1 .. (n + 1) - 1 : j \in 1 .. n /\ j <= Len(f)
      BY <1>1, <1>3
    <3> QED BY <1>2, <2>2, <3>1
  <2>4. t \in DOMAIN f /\ Is(t)
    BY <1>1, <2>1, <2>3
  <2>5. Leading(f) = t - 1
    BY <1>1, <2>1, <2>2 DEF Leading
  <2> HIDE DEF t
  <2>6. t = n + 1
    <3>1. t \in 1 .. Len(f) /\ t \in Int
      BY <1>1, <2>4
    <3>2. ~(t < n + 1)
      <4>1. t < n + 1 => t \in 1 .. n /\ t <= Len(f)
        BY <3>1
      <4> QED BY <1>2, <2>4, <4>1
    <3>3. ~(n + 1 < t)
      <4>1. n + 1 < t => n + 1 \in 1 .. t - 1
        BY <3>1
      <4> QED BY <2>2, <2>4, <4>1
    <3> QED BY <3>1, <3>2, <3>3
  <2>7. Leading(f) = n
    BY <2>5, <2>6
  <2>8. \A i \in 1 .. n : i <= Len(f)
    BY <1>1, <1>3
  <2> QED BY <1>2, <1>3, <2>7, <2>8 DEF Leads
<1>4. CASE n >= Len(f)
  <2>1. \A i \in 1 .. Len(f) : i \in 1 .. n /\ i <= Len(f)
    BY <1>1, <1>4
  <2>2. Leading(f) = Len(f)
    BY <1>1, <1>2, <2>1 DEF Leading
  <2>3. 0 + n >= Len(f) /\ 0 + n = n
    BY <1>1, <1>4
  <2>4. n - Len(f) = c
    BY <1>1, <2>3 DEF Packet
  <2>5. n = Len(f) + c
    BY <1>1, <2>4
  <2> QED BY <1>1, <1>2, <2>1, <2>2, <2>5 DEF Leads
<1> QED BY <1>1, <1>3, <1>4

-----------------------------------------------------------------------------
(* The packets of SIF0                                                     *)

Total0 == RoundUp(iop0.done + iop0.left) * Quad
ToCome0 == IF iop0.left > 0 THEN Total0 - iop0.done ELSE 0
Framing0 ==
  Framing(fifo0, 1, Quad, ee0.left * Quad, ee0.done * Quad, ToCome0, Total0)

LEMMA ChannelFields ==
  ASSUME NEW c \in Channel
  PROVE  /\ \A b : Requested(c, b).left = c.left /\ Requested(c, b).done = c.done
                   /\ Requested(c, b).tagEnd = c.tagEnd
         /\ End(c).left = c.left /\ End(c).done = c.done
         /\ Start(c).left = c.left /\ Start(c).done = c.done
         /\ \A b : [c EXCEPT !.started = b].left = c.left
                   /\ [c EXCEPT !.started = b].done = c.done
         /\ \A n, last : NewPacket(c, n, last).left = n /\ NewPacket(c, n, last).done = 0
BY DEF Channel, Requested, End, Start, NewPacket

(* Whatever leaves the counts alone keeps the packets.                     *)
LEMMA Framing0Kept ==
  ASSUME Framing0, fifo0' = fifo0,
         ee0'.left = ee0.left, ee0'.done = ee0.done,
         iop0'.left = iop0.left, iop0'.done = iop0.done
  PROVE  Framing0'
<1>1. Total0' = Total0
  BY DEF Total0, RoundUp, Quad
<1>2. ToCome0' = ToCome0
  BY <1>1 DEF ToCome0
<1>3. ee0'.left * Quad = ee0.left * Quad /\ ee0'.done * Quad = ee0.done * Quad
  OBVIOUS
<1> QED BY <1>1, <1>2, <1>3 DEF Framing0, Quad

LEMMA Framing0From ==
  ASSUME NEW n, NEW done, NEW c, NEW total,
         Framing(fifo0', 1, Quad, n, done, c, total),
         n = ee0'.left * Quad, done = ee0'.done * Quad, c = ToCome0', total = Total0'
  PROVE  Framing0'
BY DEF Framing0, Quad

LEMMA Counts0 ==
  ASSUME Inv0
  PROVE  /\ fifo0 \in Seq(Words) /\ ee0 \in Channel /\ iop0 \in Channel
         /\ ee0.left \in Nat /\ ee0.done \in Nat
         /\ ee0.left * Quad \in Nat /\ ee0.done * Quad \in Nat
         /\ iop0.left \in Nat /\ iop0.done \in Nat
         /\ Total0 \in Nat /\ Total0 >= iop0.done + iop0.left
         /\ ToCome0 \in Nat
<1>1. /\ fifo0 \in Seq(Words) /\ ee0 \in Channel /\ iop0 \in Channel
      /\ ee0.left \in Nat /\ ee0.done \in Nat
      /\ iop0.left \in Nat /\ iop0.done \in Nat
  BY DEF Inv0, Channel
<1>2. ee0.left * Quad \in Nat /\ ee0.done * Quad \in Nat
  BY <1>1 DEF Quad
<1>3. \A w \in Nat : RoundUp(w) * Quad \in Nat /\ RoundUp(w) * Quad >= w
  BY DEF RoundUp, Quad
<1>4. Total0 \in Nat /\ Total0 >= iop0.done + iop0.left
  <2> DEFINE w == iop0.done + iop0.left
  <2>1. w \in Nat /\ Total0 = RoundUp(w) * Quad
    BY <1>1 DEF Total0
  <2> HIDE DEF w
  <2>2. RoundUp(w) * Quad \in Nat /\ RoundUp(w) * Quad >= w
    BY <1>3, <2>1
  <2> QED BY <2>1, <2>2 DEF w
<1> HIDE DEF Total0
<1>5. ToCome0 \in Nat
  BY <1>1, <1>4 DEF ToCome0
<1> QED BY <1>1, <1>2, <1>4, <1>5

LEMMA SendTag0Frames == Inv0 /\ Framing0 /\ SendTag0 => Framing0'
<1> SUFFICES ASSUME Inv0, Framing0, SendTag0 PROVE Framing0'
  OBVIOUS
<1>1. PICK words \in Lengths, last, lastEE \in BOOLEAN :
        /\ fifo0' = fifo0 \o <<Tag(RoundUp(words), lastEE), Word("tag rest", 0)>>
        /\ iop0' = IopAfterWrite(NewPacket(iop0, words, last), fifo0')
        /\ ee0' = EeAfterWrite(ee0, fifo0')
  BY DEF SendTag0
<1>2. words \in Nat /\ RoundUp(words) \in Nat /\ RoundUp(words) * Quad \in Nat
        /\ RoundUp(0) * Quad = 0
  BY SifAssumption DEF RoundUp, Quad
<1> DEFINE g == <<Tag(RoundUp(words), lastEE), Word("tag rest", 0)>>
           quads == RoundUp(words)
<1>3. g \in Seq(Words) /\ Len(g) = 2 /\ g[1].kind = "tag" /\ g[1].n = quads
        /\ g[2].kind # "tag"
  <2>1. Tag(quads, lastEE) \in Words /\ Word("tag rest", 0) \in Words
    BY <1>2 DEF Tag, Word, Words, Kinds
  <2>2. Tag(quads, lastEE).kind = "tag" /\ Tag(quads, lastEE).n = quads
          /\ Word("tag rest", 0).kind # "tag"
    BY DEF Tag, Word
  <2>3. g[1] = Tag(quads, lastEE) /\ g[2] = Word("tag rest", 0) /\ Len(g) = 2
    OBVIOUS
  <2>4. g \in Seq(Words)
    <3>1. \A a, b \in Words : <<a, b>> \in Seq(Words)
      OBVIOUS
    <3> QED BY <2>1, <3>1
  <2> QED BY <2>2, <2>3, <2>4
<1>4. \A j \in 2 .. 1 + 1 : g[j].kind # "tag"
  <2>1. \A j \in 2 .. 1 + 1 : j = 2
    OBVIOUS
  <2> QED BY <1>3, <2>1
<1>5. fifo0' = fifo0 \o g
  BY <1>1
<1> HIDE DEF g
<1>6. iop0.left = 0 /\ ToCome0 = 0
  <2>1. iop0.left = 0
    BY DEF SendTag0
  <2> QED BY <2>1 DEF ToCome0
<1>7. Framing(fifo0, 1, Quad, ee0.left * Quad, ee0.done * Quad, 0, Total0)
  BY <1>6 DEF Framing0
<1>8. Framing(fifo0 \o g, 1, Quad, ee0.left * Quad, ee0.done * Quad,
              g[1].n * Quad, g[1].n * Quad)
  <2>1. 1 \in Nat /\ Quad \in Nat /\ Len(g) = 1 + 1 /\ Total0 \in Int
    BY <1>3, Counts0 DEF Quad
  <2> QED BY <1>3, <1>4, <1>7, <2>1, Counts0, FramingHeader
<1>9. NewPacket(iop0, words, last) \in Channel
  BY <1>2, Counts0, NewPacketProperties
<1>10. iop0'.left = words /\ iop0'.done = 0
  <2> DEFINE c == NewPacket(iop0, words, last)
  <2>1. c.left = words /\ c.done = 0
    BY Counts0, ChannelFields
  <2> HIDE DEF c
  <2>2. iop0'.left = c.left /\ iop0'.done = c.done
    BY <1>1, <1>9, ChannelFields DEF IopAfterWrite, c
  <2> QED BY <2>1, <2>2
<1>11. ee0'.left = ee0.left /\ ee0'.done = ee0.done
  BY <1>1, Counts0, ChannelFields DEF EeAfterWrite
<1>12. Total0' = quads * Quad
  <2>1. iop0'.done + iop0'.left = words
    BY <1>2, <1>10
  <2> QED BY <2>1 DEF Total0, Quad, RoundUp
<1>13. ToCome0' = quads * Quad
  <2>1. CASE words = 0
    BY <1>2, <1>10, <2>1 DEF ToCome0
  <2>2. CASE words # 0
    <3>1. iop0'.left > 0 /\ (quads * Quad) - iop0'.done = quads * Quad
      BY <1>2, <1>10, <2>2
    <3> QED BY <1>12, <3>1 DEF ToCome0
  <2> QED BY <2>1, <2>2
<1>14. g[1].n * Quad = quads * Quad
  BY <1>3
<1>15. Framing(fifo0', 1, Quad, ee0.left * Quad, ee0.done * Quad, quads * Quad, quads * Quad)
  BY <1>5, <1>8, <1>14
<1> QED BY <1>11, <1>12, <1>13, <1>15, Framing0From

(* The places of the junk go on after those of the data.                   *)
LEMMA JunkContinues ==
  ASSUME NEW words \in Nat
  PROVE  /\ Junk(words) \in Seq(Words)
         /\ Len(Junk(words)) = RoundUp(words) * Quad - words
         /\ Continues(Junk(words), RoundUp(words) * Quad - words, RoundUp(words) * Quad)
<1> DEFINE total == RoundUp(words) * Quad
           n == total - words
<1>1. n \in Nat /\ total \in Nat
  BY DEF RoundUp, Quad
<1>2. Junk(words) \in Seq(Words)
  BY JunkProperties
<1>3. Junk(words) = [i \in 1 .. n |-> Word("junk", words + i)]
  BY DEF Junk
<1>4. total - n = words
  BY <1>1
<1> HIDE DEF n, total
<1>5. Len(Junk(words)) = n
  BY <1>1, <1>3
<1>6. ASSUME NEW j \in 1 .. n
      PROVE  Junk(words)[j].kind # "tag" /\ Junk(words)[j].n = (total - n) + j
  BY <1>3, <1>4 DEF Word
<1> QED BY <1>2, <1>5, <1>6 DEF Continues, n, total

LEMMA SendWord0Frames == Inv0 /\ Framing0 /\ SendWord0 => Framing0'
<1> SUFFICES ASSUME Inv0, Framing0, SendWord0 PROVE Framing0'
  OBVIOUS
<1> DEFINE c == Moved(iop0, 1)
           g == <<Word("data", c.done)>>
           f == Append(fifo0, Word("data", c.done))
           r == IopAfterWrite(c, fifo0')
           n == ee0.left * Quad
           done == ee0.done * Quad
<1>1. iop0.left > 0
  BY DEF SendWord0
<1>2. c \in Channel /\ c.left = iop0.left - 1 /\ c.done = iop0.done + 1
  BY <1>1, Counts0, MovedProperties
<1>3. ToCome0 = Total0 - iop0.done /\ ToCome0 >= 1
  BY <1>1, Counts0 DEF ToCome0
<1> HIDE DEF c
<1>4. /\ fifo0' = IF c.left = 0 THEN f \o Junk(c.done) ELSE f
      /\ iop0' = IF c.left = 0 /\ c.tagEnd THEN End(r) ELSE r
      /\ ee0' = EeAfterWrite(ee0, fifo0')
  BY DEF SendWord0, c
<1>5. c.done \in Nat /\ c.left \in Nat
  BY <1>1, <1>2, Counts0
<1>6. g \in Seq(Words) /\ Len(g) = 1 /\ g[1].kind # "tag" /\ g[1].n = iop0.done + 1
  BY <1>2, <1>5 DEF Word, Words, Kinds
<1>7. f = fifo0 \o g
  <2>1. Word("data", c.done) \in Words
    BY <1>5 DEF Word, Words, Kinds
  <2> QED BY <2>1, Counts0, AppendIsConcat
<1> HIDE DEF f
<1>8. Continues(g, ToCome0, Total0)
  <2>1. (Total0 - ToCome0) + 1 = iop0.done + 1
    BY <1>3, Counts0
  <2>2. \A j \in 1 .. Len(g) : j = 1
    BY <1>6
  <2> QED BY <1>6, <2>1, <2>2 DEF Continues
<1> HIDE DEF g
<1>9. Framing(f, 1, Quad, n, done, ToCome0 - 1, Total0)
  <2>1. 1 \in Nat /\ Quad \in Nat /\ Len(g) <= ToCome0 /\ Total0 \in Int /\ ToCome0 \in Int
          /\ n \in Nat /\ done \in Nat
    BY <1>3, <1>6, Counts0 DEF Quad
  <2>2. Framing(fifo0, 1, Quad, n, done, ToCome0, Total0)
    BY DEF Framing0
  <2>3. Framing(fifo0 \o g, 1, Quad, n, done, ToCome0 - Len(g), Total0)
    BY <1>6, <1>8, <2>1, <2>2, Counts0, FramingData
  <2> QED BY <1>6, <1>7, <2>3
<1>10. r.left = c.left /\ r.done = c.done /\ r \in Channel
  <2>1. r.left = c.left /\ r.done = c.done
    BY <1>2, ChannelFields DEF IopAfterWrite
  <2>2. (c.req /\ Len(fifo0') < FifoSize) \in BOOLEAN
    OBVIOUS
  <2>3. r \in Channel
    BY <1>2, <2>2, RequestedProperties DEF IopAfterWrite
  <2> QED BY <2>1, <2>3
<1> HIDE DEF r
<1>11. iop0'.left = c.left /\ iop0'.done = c.done
  BY <1>4, <1>10, ChannelFields
<1>12. ee0'.left = ee0.left /\ ee0'.done = ee0.done
  BY <1>4, Counts0, ChannelFields DEF EeAfterWrite
<1>13. Total0' = Total0
  <2>1. iop0'.done + iop0'.left = iop0.done + iop0.left
    BY <1>2, <1>11, Counts0
  <2> QED BY <2>1 DEF Total0, RoundUp, Quad
<1>14. n = ee0'.left * Quad /\ done = ee0'.done * Quad
  BY <1>12
<1>15. CASE c.left > 0
  <2>1. ToCome0' = ToCome0 - 1
    BY <1>2, <1>3, <1>11, <1>13, <1>15, Counts0 DEF ToCome0
  <2>2. fifo0' = f
    BY <1>4, <1>5, <1>15
  <2> HIDE DEF n, done
  <2> QED BY <1>9, <1>13, <1>14, <2>1, <2>2, Framing0From
<1>16. CASE c.left = 0
  <2> DEFINE j == Junk(c.done)
  <2>1. ToCome0' = 0
    BY <1>11, <1>16 DEF ToCome0
  <2>2. fifo0' = f \o j
    BY <1>4, <1>16
  <2>3. Total0 = RoundUp(c.done) * Quad
    <3>1. c.done = iop0.done + iop0.left
      BY <1>2, <1>5, <1>16, Counts0
    <3> QED BY <3>1 DEF Total0
  <2>4. j \in Seq(Words) /\ Len(j) = Total0 - c.done /\ Continues(j, Total0 - c.done, Total0)
    BY <1>5, <2>3, JunkContinues
  <2>5. ToCome0 - 1 = Total0 - c.done
    BY <1>2, <1>3, Counts0
  <2>6. f \in Seq(Words)
    BY <1>6, <1>7, Counts0, ConcatWords
  <2> HIDE DEF j
  <2>7. Framing(f \o j, 1, Quad, n, done, (ToCome0 - 1) - Len(j), Total0)
    <3>1. 1 \in Nat /\ Quad \in Nat /\ Total0 \in Int /\ n \in Nat /\ done \in Nat
            /\ ToCome0 - 1 \in Int /\ Len(j) <= ToCome0 - 1
      BY <2>4, <2>5, <1>5, Counts0 DEF Quad
    <3>2. Continues(j, ToCome0 - 1, Total0)
      BY <2>4, <2>5
    <3> QED BY <1>9, <2>4, <2>6, <3>1, <3>2, FramingData
  <2>8. (ToCome0 - 1) - Len(j) = 0
    BY <1>5, <2>4, <2>5, Counts0
  <2> HIDE DEF n, done
  <2> QED BY <1>13, <1>14, <2>1, <2>2, <2>7, <2>8, Framing0From
<1> QED BY <1>5, <1>15, <1>16

LEMMA Receive0Frames == Inv0 /\ Framing0 /\ Receive0 => Framing0'
<1> SUFFICES ASSUME Inv0, Framing0, Receive0 PROVE Framing0'
  OBVIOUS
<1>1. PICK room \in 1 .. Slice :
        LET quads == Smaller(Smaller(ee0.left, room), Len(fifo0) \div Quad)
            c == Moved(ee0, quads)
            f == Drop(fifo0, quads * Quad)
            atTag == c.left = 0 /\ ~c.tagEnd /\ Len(f) >= 2
            g == IF atTag THEN Drop(f, 2) ELSE f
        IN /\ fifo0' = g
           /\ ee0' = EeAfterRead(
                       IF atTag THEN NewPacket(c, Head(f).n, Head(f).last)
                       ELSE IF c.left = 0 /\ c.tagEnd THEN End(c) ELSE c, g)
           /\ iop0' = Requested(iop0, iop0.req \/ Len(g) < Len(fifo0))
  BY DEF Receive0
<1> DEFINE quads == Smaller(Smaller(ee0.left, room), Len(fifo0) \div Quad)
           words == quads * Quad
           c == Moved(ee0, quads)
           f == Drop(fifo0, words)
           atTag == c.left = 0 /\ ~c.tagEnd /\ Len(f) >= 2
           next == IF atTag THEN NewPacket(c, Head(f).n, Head(f).last)
                   ELSE IF c.left = 0 /\ c.tagEnd THEN End(c) ELSE c
           n == ee0.left * Quad
           done == ee0.done * Quad
<1>2. /\ fifo0' = IF atTag THEN Drop(f, 2) ELSE f
      /\ ee0' = EeAfterRead(next, fifo0')
      /\ iop0' = Requested(iop0, iop0.req \/ Len(fifo0') < Len(fifo0))
  BY <1>1
<1>3. Len(fifo0) \in Nat /\ ee0.left \in Nat /\ room \in Nat
  BY LenProperties, SifAssumption, Counts0
<1>4. quads \in Nat /\ quads <= ee0.left /\ words \in 0 .. Len(fifo0)
  <2>1. Len(fifo0) \div 4 \in Nat /\ (Len(fifo0) \div 4) * 4 <= Len(fifo0)
    BY <1>3
  <2>2. Smaller(ee0.left, room) \in Nat /\ Smaller(ee0.left, room) <= ee0.left
    BY <1>3, SmallerProperties
  <2>3. /\ quads \in Nat /\ quads <= Smaller(ee0.left, room)
        /\ quads <= Len(fifo0) \div 4
    BY <2>1, <2>2, SmallerProperties DEF Quad
  <2> HIDE DEF quads
  <2> QED BY <1>3, <2>1, <2>2, <2>3 DEF Quad
<1> HIDE DEF quads
<1>5. c \in Channel /\ c.left = ee0.left - quads /\ c.done = ee0.done + quads
  BY <1>3, <1>4, Counts0, MovedProperties
<1> HIDE DEF c
<1>6. /\ n \in Nat /\ done \in Nat /\ words <= n /\ n - words = c.left * Quad
      /\ done + words = c.done * Quad
  <2>1. ee0.left \in Nat /\ ee0.done \in Nat /\ quads \in Nat /\ quads <= ee0.left
    BY <1>4, Counts0
  <2>2. c.left = ee0.left - quads /\ c.done = ee0.done + quads
    BY <1>5
  <2> QED BY <2>1, <2>2 DEF Quad
<1>7. Framing(f, 1, Quad, c.left * Quad, c.done * Quad, ToCome0, Total0)
  <2>1. 1 \in Nat /\ Quad \in Nat /\ ToCome0 \in Int /\ Total0 \in Int
    BY Counts0 DEF Quad
  <2>2. Framing(fifo0, 1, Quad, n, done, ToCome0, Total0)
    BY DEF Framing0
  <2> HIDE DEF n, done, words
  <2>3. Framing(Drop(fifo0, words), 1, Quad, n - words, done + words, ToCome0, Total0)
    BY <1>4, <1>6, <2>1, <2>2, Counts0, FramingRead
  <2> QED BY <1>6, <2>3
<1>8. f \in Seq(Words)
  BY <1>3, <1>4, Counts0, DropProperties
<1> HIDE DEF f
<1>9. iop0'.left = iop0.left /\ iop0'.done = iop0.done
  BY <1>2, Counts0, ChannelFields
<1>10. Total0' = Total0
  BY <1>9 DEF Total0, RoundUp, Quad
<1>11. ToCome0' = ToCome0
  BY <1>9, <1>10 DEF ToCome0
<1>12. c.left \in Nat /\ c.done \in Nat
  BY <1>5 DEF Channel
<1>13. CASE atTag
  <2>1. f # <<>> /\ c.left * Quad = 0 /\ c.done * Quad \in Nat
    BY <1>8, <1>12, <1>13 DEF Quad
  <2> DEFINE d == c.done * Quad
  <2>2. Framing(f, 1, Quad, 0, d, ToCome0, Total0) /\ d \in Nat
    BY <1>7, <2>1
  <2>3. 1 \in Nat /\ Quad \in Nat /\ ToCome0 \in Int /\ Total0 \in Int
    BY Counts0 DEF Quad
  <2> HIDE DEF d
  <2>4. Framing(Drop(f, 1 + 1), 1, Quad, Head(f).n * Quad, 0, ToCome0, Total0)
    BY <1>8, <2>1, <2>2, <2>3, FramingTag
  <2>5. Head(f) \in Words
    BY <1>8, <2>1, HeadTailProperties
  <2>6. Head(f).n \in Nat /\ Head(f).last \in BOOLEAN
    BY <2>5 DEF Words
  <2> DEFINE p == NewPacket(c, Head(f).n, Head(f).last)
  <2>7. p \in Channel /\ p.left = Head(f).n /\ p.done = 0
    BY <1>5, <2>6, NewPacketProperties, ChannelFields
  <2>8. ee0' = EeAfterRead(p, fifo0') /\ fifo0' = Drop(f, 2)
    BY <1>2, <1>13
  <2> HIDE DEF p
  <2>9. ee0'.left = Head(f).n /\ ee0'.done = 0
    BY <2>7, <2>8, ChannelFields DEF EeAfterRead
  <2>10. Framing(fifo0', 1, Quad, ee0'.left * Quad, 0, ToCome0, Total0)
    <3>1. 1 + 1 = 2
      OBVIOUS
    <3> QED BY <2>4, <2>8, <2>9, <3>1
  <2>11. 0 = ee0'.done * Quad
    BY <2>9 DEF Quad
  <2> QED BY <1>10, <1>11, <2>10, <2>11, Framing0From
<1>14. CASE ~atTag
  <2>1. next \in Channel /\ next.left = c.left /\ next.done = c.done
    BY <1>5, <1>14, EndProperties, ChannelFields
  <2>2. fifo0' = f
    BY <1>2, <1>14
  <2> HIDE DEF next
  <2>3. ee0'.left = c.left /\ ee0'.done = c.done
    BY <1>2, <2>1, ChannelFields DEF EeAfterRead
  <2> QED BY <1>7, <1>10, <1>11, <2>2, <2>3, Framing0From
<1> QED BY <1>13, <1>14

-----------------------------------------------------------------------------
(* The packets of SIF1                                                     *)

Total1 == (ee1.done + ee1.left - 1) * Quad
ToCome1 == IF ee1.done > 0 THEN ee1.left * Quad ELSE 0
Framing1 == Framing(fifo1, Quad - 1, 1, iop1.left, iop1.done, ToCome1, Total1)

LEMMA Framing1Kept ==
  ASSUME Framing1, fifo1' = fifo1,
         iop1'.left = iop1.left, iop1'.done = iop1.done,
         ee1'.left = ee1.left, ee1'.done = ee1.done
  PROVE  Framing1'
<1>1. Total1' = Total1 /\ ToCome1' = ToCome1
  BY DEF Total1, ToCome1, Quad
<1> QED BY <1>1 DEF Framing1, Quad

LEMMA Framing1From ==
  ASSUME NEW n, NEW done, NEW c, NEW total,
         Framing(fifo1', Quad - 1, 1, n, done, c, total),
         n = iop1'.left, done = iop1'.done, c = ToCome1', total = Total1'
  PROVE  Framing1'
BY DEF Framing1, Quad

LEMMA Counts1 ==
  ASSUME Inv1
  PROVE  /\ fifo1 \in Seq(Words) /\ ee1 \in Channel /\ iop1 \in Channel
         /\ ee1.left \in Nat /\ ee1.done \in Nat
         /\ iop1.left \in Nat /\ iop1.done \in Nat
         /\ Total1 \in Int /\ ToCome1 \in Nat
         /\ Quad - 1 \in Nat /\ Quad \in Nat /\ 1 \in Nat
<1>1. /\ fifo1 \in Seq(Words) /\ ee1 \in Channel /\ iop1 \in Channel
      /\ ee1.left \in Nat /\ ee1.done \in Nat
      /\ iop1.left \in Nat /\ iop1.done \in Nat
  BY DEF Inv1, Channel
<1>2. Total1 \in Int /\ ToCome1 \in Nat
  BY <1>1 DEF Total1, ToCome1, Quad
<1> QED BY <1>1, <1>2 DEF Quad

LEMMA ReceiveTag1Frames == Inv1 /\ Framing1 /\ ReceiveTag1 => Framing1'
<1> SUFFICES ASSUME Inv1, Framing1, ReceiveTag1 PROVE Framing1'
  OBVIOUS
<1> DEFINE p == NewPacket(iop1, Head(fifo1).n, Head(fifo1).last)
<1>1. /\ fifo1' = Drop(fifo1, Quad)
      /\ iop1' = IopAfterRead(p, fifo1')
      /\ ee1' = EeAfterIopRead(ee1, fifo1')
      /\ iop1.left = 0 /\ Len(fifo1) >= Quad
  BY DEF ReceiveTag1
<1>2. fifo1 # <<>>
  BY <1>1, Counts1 DEF Quad
<1>3. Framing(fifo1, Quad - 1, 1, 0, iop1.done, ToCome1, Total1)
  BY <1>1 DEF Framing1
<1>4. Framing(Drop(fifo1, (Quad - 1) + 1), Quad - 1, 1, Head(fifo1).n * 1, 0, ToCome1, Total1)
  <2>1. ToCome1 \in Int
    BY Counts1
  <2> QED BY <1>2, <1>3, <2>1, Counts1, FramingTag
<1>5. Head(fifo1) \in Words
  BY <1>2, Counts1, HeadTailProperties
<1>6. Head(fifo1).n \in Nat /\ Head(fifo1).last \in BOOLEAN
  BY <1>5 DEF Words
<1>7. p \in Channel /\ p.left = Head(fifo1).n /\ p.done = 0
  <2>1. p \in Channel
    BY <1>6, Counts1, NewPacketProperties
  <2> QED BY <2>1, Counts1, ChannelFields
<1> HIDE DEF p
<1>8. iop1'.left = Head(fifo1).n /\ iop1'.done = 0
  BY <1>1, <1>7, ChannelFields DEF IopAfterRead
<1>9. ee1'.left = ee1.left /\ ee1'.done = ee1.done
  BY <1>1, Counts1, ChannelFields DEF EeAfterIopRead
<1>10. Total1' = Total1 /\ ToCome1' = ToCome1
  BY <1>9 DEF Total1, ToCome1, Quad
<1>11. (Quad - 1) + 1 = Quad /\ Head(fifo1).n * 1 = Head(fifo1).n
  BY <1>6 DEF Quad
<1>12. Framing(fifo1', Quad - 1, 1, Head(fifo1).n, 0, ToCome1, Total1)
  BY <1>1, <1>4, <1>11
<1> QED BY <1>8, <1>10, <1>12, Framing1From

LEMMA ReceiveWord1Frames == Inv1 /\ Framing1 /\ ReceiveWord1 => Framing1'
<1> SUFFICES ASSUME Inv1, Framing1, ReceiveWord1 PROVE Framing1'
  OBVIOUS
<1> DEFINE c == Moved(iop1, 1)
           r == IopAfterRead(c, fifo1')
<1>1. /\ fifo1' = Tail(fifo1)
      /\ iop1' = IF r.left = 0 /\ r.tagEnd THEN End(r) ELSE r
      /\ ee1' = EeAfterIopRead(ee1, fifo1')
      /\ iop1.req /\ iop1.left > 0
  BY DEF ReceiveWord1, Runs
<1>2. fifo1 # <<>>
  BY <1>1 DEF Inv1, Requests1
<1>3. Len(fifo1) \in Nat /\ 1 \in 0 .. Len(fifo1)
  BY <1>2, Counts1, LenProperties, EmptySeq
<1>4. fifo1' = Drop(fifo1, 1)
  <2>1. Tail(fifo1) = SubSeq(fifo1, 1 + 1, Len(fifo1))
    BY <1>2, Counts1, TailIsSubSeq
  <2> QED BY <1>1, <2>1 DEF Drop
<1>5. Framing(fifo1', Quad - 1, 1, iop1.left - 1, iop1.done + 1, ToCome1, Total1)
  <2>1. 1 <= iop1.left /\ ToCome1 \in Int /\ Framing(fifo1, Quad - 1, 1, iop1.left, iop1.done, ToCome1, Total1)
    BY <1>1, Counts1 DEF Framing1
  <2> QED BY <1>3, <1>4, <2>1, Counts1, FramingRead
<1>6. c \in Channel /\ c.left = iop1.left - 1 /\ c.done = iop1.done + 1
  BY <1>1, Counts1, MovedProperties
<1> HIDE DEF c
<1>7. r.left = c.left /\ r.done = c.done /\ r \in Channel
  <2>1. r.left = c.left /\ r.done = c.done
    BY <1>6, ChannelFields DEF IopAfterRead
  <2>2. (c.req /\ fifo1' # <<>>) \in BOOLEAN
    OBVIOUS
  <2>3. r \in Channel
    BY <1>6, <2>2, RequestedProperties DEF IopAfterRead
  <2> QED BY <2>1, <2>3
<1> HIDE DEF r
<1>8. iop1'.left = iop1.left - 1 /\ iop1'.done = iop1.done + 1
  BY <1>1, <1>6, <1>7, ChannelFields
<1>9. ee1'.left = ee1.left /\ ee1'.done = ee1.done
  BY <1>1, Counts1, ChannelFields DEF EeAfterIopRead
<1>10. Total1' = Total1 /\ ToCome1' = ToCome1
  BY <1>9 DEF Total1, ToCome1, Quad
<1> QED BY <1>5, <1>8, <1>10, Framing1From

(* What the EE sends after the tag of a packet.                            *)
LEMMA SentContinues ==
  ASSUME NEW from \in Nat, from >= Quad, NEW n \in Nat, NEW words \in Int,
         NEW last \in BOOLEAN, NEW c \in Int, NEW total \in Int, total - c = from - Quad
  PROVE  Continues(Sent(from, n, words, last), c, total)
<1>1. Len(Sent(from, n, words, last)) = n
  BY SentProperties DEF Quad
<1>2. ASSUME NEW j \in 1 .. n
      PROVE  /\ Sent(from, n, words, last)[j].kind # "tag"
             /\ Sent(from, n, words, last)[j].n = (total - c) + j
  <2> DEFINE k == from + j - 1
  <2>1. Sent(from, n, words, last)[j] = PacketWord(k, words, last)
    BY DEF Sent
  <2>2. k # 0 /\ ~(k < Quad) /\ k - Quad + 1 = (total - c) + j
    BY DEF Quad
  <2> HIDE DEF k
  <2>3. PacketWord(k, words, last) = Word("data", k - Quad + 1)
    BY <2>2 DEF PacketWord
  <2> QED BY <2>1, <2>2, <2>3 DEF Word
<1> QED BY <1>1, <1>2 DEF Continues

(* The first words of a packet are the tag and the rest of its quadword.   *)
LEMMA SentHeader ==
  ASSUME NEW words \in Nat, NEW last \in BOOLEAN
  PROVE  LET g == Sent(0, Quad, words, last)
         IN /\ g \in Seq(Words) /\ Len(g) = (Quad - 1) + 1
            /\ g[1].kind = "tag" /\ g[1].n = words
            /\ \A j \in 2 .. (Quad - 1) + 1 : g[j].kind # "tag"
<1> DEFINE g == Sent(0, Quad, words, last)
<1>1. g \in Seq(Words) /\ Len(g) = Quad /\ Quad = (Quad - 1) + 1
  <2>1. Quad \in Nat /\ words \in Int /\ 0 \in Nat /\ Quad = (Quad - 1) + 1
    BY DEF Quad
  <2>2. g \in Seq(Words) /\ Len(g) = Quad
    BY <2>1, SentProperties
  <2> QED BY <2>1, <2>2
<1>2. ASSUME NEW j \in 1 .. Quad PROVE g[j] = PacketWord(j - 1, words, last)
  <2>1. 0 + j - 1 = j - 1
    BY DEF Quad
  <2> QED BY <2>1 DEF Sent
<1> HIDE DEF g
<1>3. g[1] = Tag(words, last)
  <2>1. 1 \in 1 .. Quad /\ 1 - 1 = 0
    BY DEF Quad
  <2>2. g[1] = PacketWord(0, words, last)
    BY <1>2, <2>1
  <2> QED BY <2>2 DEF PacketWord
<1>4. ASSUME NEW j \in 2 .. Quad PROVE g[j].kind # "tag"
  <2>1. j \in 1 .. Quad /\ j - 1 # 0 /\ j - 1 < Quad
    BY DEF Quad
  <2>2. g[j] = Word("tag rest", 0)
    BY <1>2, <2>1 DEF PacketWord
  <2>3. Word("tag rest", 0).kind = "tag rest"
    BY DEF Word
  <2> QED BY <2>2, <2>3
<1> QED BY <1>1, <1>3, <1>4 DEF Tag, g

LEMMA SentSplits ==
  ASSUME NEW m \in Nat, NEW words \in Nat, NEW last \in BOOLEAN
  PROVE  Sent(0, Quad + m, words, last)
           = Sent(0, Quad, words, last) \o Sent(Quad, m, words, last)
<1> DEFINE s == Sent(0, Quad + m, words, last)
           g == Sent(0, Quad, words, last)
           h == Sent(Quad, m, words, last)
<1>1. Quad \in Nat /\ Quad + m \in Nat /\ words \in Int /\ 0 \in Nat /\ Quad # 0
  BY DEF Quad
<1>2. s \in Seq(Words) /\ Len(s) = Quad + m
  BY <1>1, SentProperties
<1>3. g \in Seq(Words) /\ Len(g) = Quad
  BY <1>1, SentProperties
<1>4. h \in Seq(Words) /\ Len(h) = m
  BY <1>1, SentProperties
<1>5. g \o h \in Seq(Words) /\ Len(g \o h) = Quad + m
        /\ (\A i \in 1 .. Quad : (g \o h)[i] = g[i])
        /\ \A j \in 1 .. m : (g \o h)[Quad + j] = h[j]
  <2> HIDE DEF g, h
  <2>1. g \o h \in Seq(Words) /\ Len(g \o h) = Len(g) + Len(h)
          /\ (\A i \in 1 .. Len(g) : (g \o h)[i] = g[i])
          /\ \A j \in 1 .. Len(h) : (g \o h)[Len(g) + j] = h[j]
    BY <1>3, <1>4, ConcatWords
  <2> QED BY <1>3, <1>4, <2>1
<1>6. ASSUME NEW i \in 1 .. Quad + m PROVE s[i] = (g \o h)[i]
  <2>1. s[i] = PacketWord(0 + i - 1, words, last)
    BY DEF Sent
  <2>2. CASE i <= Quad
    <3>1. i \in 1 .. Quad
      BY <1>1, <2>2
    <3>2. g[i] = PacketWord(0 + i - 1, words, last)
      BY <3>1 DEF Sent
    <3> HIDE DEF g, h, s
    <3> QED BY <1>5, <2>1, <3>1, <3>2
  <2>3. CASE i > Quad
    <3> DEFINE j == i - Quad
    <3>1. j \in 1 .. m /\ Quad + j = i /\ Quad + j - 1 = 0 + i - 1
      BY <1>1, <2>3
    <3> HIDE DEF j
    <3>2. h[j] = PacketWord(Quad + j - 1, words, last)
      BY <3>1 DEF Sent
    <3> HIDE DEF g, h, s
    <3>3. (g \o h)[Quad + j] = h[j]
      BY <1>5, <3>1
    <3> QED BY <2>1, <3>1, <3>2, <3>3
  <2>4. i <= Quad \/ i > Quad
    BY <1>1
  <2> QED BY <2>2, <2>3, <2>4
<1> HIDE DEF s, g, h
<1>7. s = g \o h
  BY <1>2, <1>5, <1>6, SeqEqual
<1> QED BY <1>7 DEF s, g, h

(* The EE's slice of a packet.                                             *)
LEMMA SliceFrames ==
  ASSUME Inv1, Framing1, NEW quads \in Nat, quads <= ee1.left, quads > 0,
         NEW last \in BOOLEAN
  PROVE  Framing(fifo1 \o Sent(ee1.done * Quad, quads * Quad, Total1, last),
                 Quad - 1, 1, iop1.left, iop1.done, (ee1.left - quads) * Quad, Total1)
<1> DEFINE from == ee1.done * Quad
           count == quads * Quad
           s == Sent(from, count, Total1, last)
<1>1. Framing(fifo1, Quad - 1, 1, iop1.left, iop1.done, ToCome1, Total1)
  BY DEF Framing1
<1>2. from \in Nat /\ count \in Nat /\ count >= Quad
  BY Counts1 DEF Quad
<1>3. CASE ee1.done > 0
  <2>1. ToCome1 = ee1.left * Quad /\ Total1 = (ee1.done + ee1.left - 1) * Quad
    BY <1>3 DEF ToCome1, Total1
  <2>2. from >= Quad /\ Total1 - ToCome1 = from - Quad /\ count <= ToCome1
          /\ ToCome1 - count = (ee1.left - quads) * Quad
    <3>1. ee1.done \in Nat /\ ee1.left \in Nat
      BY Counts1
    <3> QED BY <1>3, <2>1, <3>1 DEF Quad
  <2>3. s \in Seq(Words) /\ Len(s) = count
    <3>1. from = 0 /\ count > 0 => Total1 \in Nat
      BY <2>2 DEF Quad
    <3> HIDE DEF from, count
    <3> QED BY <1>2, <3>1, Counts1, SentProperties
  <2>4. ToCome1 \in Int
    BY Counts1
  <2> HIDE DEF from, count
  <2>5. Continues(s, ToCome1, Total1)
    BY <1>2, <2>2, <2>4, Counts1, SentContinues
  <2> HIDE DEF s
  <2>6. Framing(fifo1 \o s, Quad - 1, 1, iop1.left, iop1.done, ToCome1 - Len(s), Total1)
    BY <1>1, <2>2, <2>3, <2>4, <2>5, Counts1, FramingData
  <2> QED BY <2>2, <2>3, <2>6 DEF s, from, count
<1>4. CASE ee1.done = 0
  <2> DEFINE m == count - Quad
             g == Sent(0, Quad, Total1, last)
             h == Sent(Quad, m, Total1, last)
  <2>1. ToCome1 = 0 /\ Total1 = (ee1.left - 1) * Quad
    BY <1>4, Counts1 DEF ToCome1, Total1
  <2>2. Total1 \in Nat /\ from = 0 /\ m \in Nat /\ count = Quad + m /\ m <= Total1
          /\ Total1 - m = (ee1.left - quads) * Quad
    BY <1>4, <2>1, Counts1 DEF Quad
  <2> HIDE DEF from, m
  <2>3. s = g \o h
    <3> HIDE DEF count
    <3>1. s = Sent(0, Quad + m, Total1, last)
      BY <2>2
    <3> HIDE DEF s
    <3> QED BY <2>2, <3>1, SentSplits
  <2>4. /\ g \in Seq(Words) /\ Len(g) = (Quad - 1) + 1
        /\ g[1].kind = "tag" /\ g[1].n = Total1
        /\ \A j \in 2 .. (Quad - 1) + 1 : g[j].kind # "tag"
    BY <2>2, SentHeader
  <2>5. h \in Seq(Words) /\ Len(h) = m
    <3>1. Quad # 0 /\ Quad \in Nat /\ Total1 \in Int
      BY <2>2 DEF Quad
    <3> QED BY <2>2, <3>1, SentProperties
  <2>6. Continues(h, Total1, Total1)
    <3>1. Quad \in Nat /\ Quad >= Quad /\ Total1 \in Int /\ Total1 - Total1 = Quad - Quad
      BY <2>2 DEF Quad
    <3> QED BY <2>2, <3>1, SentContinues
  <2> HIDE DEF s, g, h
  <2>7. Framing(fifo1 \o g, Quad - 1, 1, iop1.left, iop1.done, g[1].n * 1, g[1].n * 1)
    <3>1. Framing(fifo1, Quad - 1, 1, iop1.left, iop1.done, 0, Total1)
      BY <1>1, <2>1
    <3> QED BY <2>4, <3>1, Counts1, FramingHeader
  <2>8. g[1].n * 1 = Total1
    BY <2>2, <2>4
  <2>9. fifo1 \o g \in Seq(Words)
    BY <2>4, Counts1, ConcatWords
  <2>10. Framing((fifo1 \o g) \o h, Quad - 1, 1, iop1.left, iop1.done, Total1 - Len(h), Total1)
    <3>1. Framing(fifo1 \o g, Quad - 1, 1, iop1.left, iop1.done, Total1, Total1)
      BY <2>7, <2>8
    <3>2. Len(h) <= Total1 /\ Total1 \in Int
      BY <2>2, <2>5
    <3> QED BY <2>5, <2>6, <2>9, <3>1, <3>2, Counts1, FramingData
  <2>11. (fifo1 \o g) \o h = fifo1 \o s
    <3>1. (fifo1 \o g) \o h = fifo1 \o (g \o h)
      <4>1. fifo1 \in Seq(Words) /\ g \in Seq(Words) /\ h \in Seq(Words)
        BY <2>4, <2>5, Counts1
      <4> HIDE DEF m
      <4> QED BY <4>1, ConcatAssociative
    <3> QED BY <2>3, <3>1
  <2> QED BY <2>2, <2>5, <2>10, <2>11 DEF s, from, count
<1> QED BY <1>3, <1>4, Counts1

LEMMA Send1Frames == Inv1 /\ Framing1 /\ Send1 => Framing1'
<1> SUFFICES ASSUME Inv1, Framing1, Send1 PROVE Framing1'
  OBVIOUS
<1>1. PICK room \in 1 .. Slice, last \in BOOLEAN :
       LET quads == Smaller(ee1.left, room)
           words == (ee1.done + ee1.left - 1) * Quad
           c == Moved(ee1, quads)
           sent == [i \in 1 .. quads * Quad |->
                      PacketWord(ee1.done * Quad + i - 1, words, last)]
       IN /\ last => words > 0
          /\ fifo1' = fifo1 \o sent
          /\ iop1' = Requested(iop1, iop1.req \/ quads > 0)
          /\ \/ /\ c.left > 0
                /\ ee1' = EeAfterOwnWrite(c, fifo1')
             \/ /\ c.left = 0 /\ c.tagEnd
                /\ ee1' = EeAfterOwnWrite(End(c), fifo1')
             \/ /\ c.left = 0 /\ ~c.tagEnd
                /\ \E n \in Lengths, lastEE \in BOOLEAN :
                     /\ n % Quad = 0
                     /\ ee1' = EeAfterOwnWrite(NewPacket(c, 1 + (n \div Quad), lastEE), fifo1')
  BY DEF Send1
<1> DEFINE quads == Smaller(ee1.left, room)
           c == Moved(ee1, quads)
<1>2. /\ fifo1' = fifo1 \o Sent(ee1.done * Quad, quads * Quad, Total1, last)
      /\ iop1' = Requested(iop1, iop1.req \/ quads > 0)
  BY <1>1 DEF Sent, Total1
<1>3. \/ ee1' = EeAfterOwnWrite(c, fifo1') /\ c.left > 0
      \/ ee1' = EeAfterOwnWrite(End(c), fifo1') /\ c.left = 0
      \/ /\ c.left = 0
         /\ \E n \in Lengths, lastEE \in BOOLEAN :
              ee1' = EeAfterOwnWrite(NewPacket(c, 1 + (n \div Quad), lastEE), fifo1')
  BY <1>1
<1>4. quads \in Nat /\ quads <= ee1.left /\ (quads = 0 => ee1.left = 0)
  <2>1. room \in Nat /\ room > 0 /\ ee1.left \in Nat
    BY SifAssumption, Counts1
  <2> QED BY <2>1 DEF Smaller
<1> HIDE DEF quads
<1>5. c \in Channel /\ c.left = ee1.left - quads /\ c.done = ee1.done + quads
  BY <1>4, Counts1, MovedProperties
<1> HIDE DEF c
<1>6. Framing(fifo1', Quad - 1, 1, iop1.left, iop1.done, c.left * Quad, Total1)
  <2>1. CASE quads > 0
    BY <1>2, <1>4, <1>5, <2>1, SliceFrames
  <2>2. CASE quads = 0
    <3>1. ee1.left = 0 /\ c.left = 0 /\ quads * Quad = 0
      BY <1>4, <1>5, <2>2, Counts1 DEF Quad
    <3>2. ToCome1 = 0 /\ c.left * Quad = 0
      BY <3>1 DEF ToCome1, Quad
    <3>3. Sent(ee1.done * Quad, 0, Total1, last) \in Seq(Words)
            /\ Len(Sent(ee1.done * Quad, 0, Total1, last)) = 0
      <4>1. ee1.done * Quad \in Nat /\ 0 \in Nat
        BY Counts1 DEF Quad
      <4> QED BY <4>1, Counts1, SentProperties
    <3>4. Sent(ee1.done * Quad, 0, Total1, last) = <<>>
      BY <3>3, EmptySeq
    <3>5. fifo1' = fifo1
      BY <1>2, <3>1, <3>4, Counts1, ConcatEmptySeq
    <3> QED BY <3>2, <3>5 DEF Framing1
  <2> QED BY <1>4, <2>1, <2>2
<1>7. iop1'.left = iop1.left /\ iop1'.done = iop1.done
  BY <1>2, Counts1, ChannelFields
<1>8. c.left \in Nat /\ c.done \in Nat /\ c.done + c.left = ee1.done + ee1.left
  <2>1. ee1.done \in Nat /\ ee1.left \in Nat
    BY Counts1
  <2> QED BY <1>4, <1>5, <2>1
<1>9. ASSUME ee1'.left = c.left, ee1'.done = c.done PROVE Framing1'
  <2>1. Total1' = Total1
    <3> DEFINE a == c.done + c.left
    <3>1. Total1' = (a - 1) * Quad
      <4>1. Total1' = (ee1'.done + ee1'.left - 1) * Quad
        BY DEF Total1, Quad
      <4> QED BY <1>8, <1>9, <4>1 DEF Quad
    <3>2. Total1 = (a - 1) * Quad
      <4>1. Total1 = (ee1.done + ee1.left - 1) * Quad
        BY DEF Total1
      <4>2. ee1.done \in Nat /\ ee1.left \in Nat
        BY Counts1
      <4>3. a \in Int /\ a = ee1.done + ee1.left
        BY <1>8
      <4> HIDE DEF a
      <4>4. a - 1 = ee1.done + ee1.left - 1
        BY <4>2, <4>3
      <4> QED BY <4>1, <4>4
    <3> QED BY <3>1, <3>2
  <2>2. ToCome1' = c.left * Quad
    <3>1. CASE c.done > 0
      BY <1>9, <3>1 DEF ToCome1, Quad
    <3>2. CASE c.done = 0
      <4>1. quads = 0 /\ c.left = 0
        BY <1>4, <1>5, <3>2, Counts1
      <4> QED BY <1>9, <3>2, <4>1 DEF ToCome1, Quad
    <3> QED BY <1>8, <3>1, <3>2
  <2> QED BY <1>6, <1>7, <2>1, <2>2, Framing1From
<1>10. CASE ee1' = EeAfterOwnWrite(c, fifo1')
  BY <1>5, <1>9, <1>10, ChannelFields DEF EeAfterOwnWrite
<1>11. CASE ee1' = EeAfterOwnWrite(End(c), fifo1')
  <2>1. End(c) \in Channel /\ End(c).left = c.left /\ End(c).done = c.done
    BY <1>5, EndProperties, ChannelFields
  <2>2. ee1'.left = c.left /\ ee1'.done = c.done
    BY <1>11, <2>1, ChannelFields DEF EeAfterOwnWrite
  <2> QED BY <1>9, <2>2
<1>12. ASSUME c.left = 0, NEW n \in Lengths, NEW lastEE \in BOOLEAN,
              ee1' = EeAfterOwnWrite(NewPacket(c, 1 + (n \div Quad), lastEE), fifo1')
       PROVE  Framing1'
  <2> DEFINE p == NewPacket(c, 1 + (n \div Quad), lastEE)
  <2>1. 1 + (n \div Quad) \in Nat
    BY SifAssumption DEF Quad
  <2>2. p \in Channel /\ p.left = 1 + (n \div Quad) /\ p.done = 0
    BY <1>5, <2>1, NewPacketProperties, ChannelFields
  <2>3. ee1' = EeAfterOwnWrite(p, fifo1')
    BY <1>12
  <2> HIDE DEF p
  <2>4. ee1'.done = 0 /\ ee1'.left \in Nat
    BY <2>1, <2>2, <2>3, ChannelFields DEF EeAfterOwnWrite
  <2>5. ToCome1' = 0 /\ Total1' \in Int
    BY <2>4 DEF ToCome1, Total1, Quad
  <2>6. fifo1' \in Seq(Words)
    BY <1>12, Send1Step DEF Inv1
  <2>7. Framing(fifo1', Quad - 1, 1, iop1.left, iop1.done, 0, Total1)
    <3>1. c.left * Quad = 0
      BY <1>12 DEF Quad
    <3> QED BY <1>6, <3>1
  <2> DEFINE next == Total1'
  <2>8. next \in Int
    BY <2>5
  <2> HIDE DEF next
  <2>9. Framing(fifo1', Quad - 1, 1, iop1.left, iop1.done, 0, next)
    BY <2>6, <2>7, <2>8, Counts1, FramingIdle
  <2> QED BY <1>7, <2>5, <2>9, Framing1From DEF next
<1> QED BY <1>3, <1>10, <1>11, <1>12

-----------------------------------------------------------------------------
(* Both directions                                                         *)

FramingInv == Inv0 /\ Inv1 /\ Framing0 /\ Framing1

LEMMA FramingInit == Init => FramingInv
<1> SUFFICES ASSUME Init PROVE FramingInv
  OBVIOUS
<1>1. \A b : Off(b).left = 0 /\ Off(b).done = 0
  BY DEF Off
<1>2. /\ ee0.left = 0 /\ ee0.done = 0 /\ iop0.left = 0 /\ iop0.done = 0
      /\ ee1.left = 0 /\ ee1.done = 0 /\ iop1.left = 0 /\ iop1.done = 0
      /\ fifo0 = <<>> /\ fifo1 = <<>>
  BY <1>1 DEF Init
<1>3. ASSUME NEW rest \in Nat, NEW unit \in Nat, NEW total \in Int
      PROVE  Framing(<<>>, rest, unit, 0, 0, 0, total)
  <2>1. Len(<<>>) = 0
    OBVIOUS
  <2>2. ASSUME NEW f, Len(f) = 0
        PROVE  Framing(f, rest, unit, 0, 0, 0, total)
    <3>1. Packet(f, 0, 0, 0, 0, total)
      <4>1. \A k \in 1 .. 0 : FALSE
        OBVIOUS
      <4>2. ~(0 + 0 < Len(f)) /\ ~(0 + 0 > Len(f)) /\ 0 + 0 - Len(f) = 0
        BY <2>2
      <4> QED BY <4>1, <4>2 DEF Packet
    <3>2. \A i \in 1 .. Len(f) : FALSE
      BY <2>2
    <3> QED BY <3>1, <3>2 DEF Framing
  <2> QED BY <2>1, <2>2
<1>4. ToCome0 = 0 /\ ToCome1 = 0
  BY <1>2 DEF ToCome0, ToCome1
<1>5. Total0 \in Int /\ Total1 \in Int
  BY Initially, Counts0, Counts1
<1>6. ee0.left * Quad = 0 /\ ee0.done * Quad = 0 /\ Quad \in Nat /\ Quad - 1 \in Nat
  BY <1>2 DEF Quad
<1>7. Framing0
  BY <1>2, <1>3, <1>4, <1>5, <1>6 DEF Framing0
<1>8. Framing1
  BY <1>2, <1>3, <1>4, <1>5, <1>6 DEF Framing1
<1> QED BY <1>7, <1>8, Initially DEF FramingInv

LEMMA FramingStep == FramingInv /\ [Next]_vars => FramingInv'
<1> SUFFICES ASSUME FramingInv, [Next]_vars PROVE FramingInv'
  OBVIOUS
<1>1. Inv0 /\ Inv1 /\ Framing0 /\ Framing1 /\ Inv0' /\ Inv1'
  BY Steps DEF FramingInv
<1>2. UNCHANGED sif0 => Framing0'
  <2>1. UNCHANGED sif0 => fifo0' = fifo0 /\ ee0' = ee0 /\ iop0' = iop0
    BY DEF sif0
  <2> QED BY <1>1, <2>1, Framing0Kept
<1>3. UNCHANGED sif1 => Framing1'
  <2>1. UNCHANGED sif1 => fifo1' = fifo1 /\ ee1' = ee1 /\ iop1' = iop1
    BY DEF sif1
  <2> QED BY <1>1, <2>1, Framing1Kept
<1>4. CASE StartIop0 \/ StartEe0
  <2>1. UNCHANGED sif1 /\ fifo0' = fifo0 /\ iop0 \in Channel /\ ee0 \in Channel
    BY <1>1, <1>4, Counts0 DEF StartIop0, StartEe0, sif1
  <2>2. iop0' = iop0 \/ iop0' = [iop0 EXCEPT !.started = TRUE]
    BY <1>4 DEF StartIop0, StartEe0
  <2>3. ee0' = ee0 \/ ee0' = Start(ee0)
    BY <1>4 DEF StartIop0, StartEe0
  <2>4. iop0'.left = iop0.left /\ iop0'.done = iop0.done
    BY <2>1, <2>2 DEF Channel
  <2>5. ee0'.left = ee0.left /\ ee0'.done = ee0.done
    BY <2>1, <2>3, ChannelFields
  <2>6. Framing0'
    BY <1>1, <2>1, <2>4, <2>5, Framing0Kept
  <2> QED BY <1>1, <1>3, <2>1, <2>6 DEF FramingInv
<1>5. CASE SendTag0
  BY <1>1, <1>3, <1>5, SendTag0Frames DEF SendTag0, FramingInv
<1>6. CASE SendWord0
  BY <1>1, <1>3, <1>6, SendWord0Frames DEF SendWord0, FramingInv
<1>7. CASE Receive0
  BY <1>1, <1>3, <1>7, Receive0Frames DEF Receive0, FramingInv
<1>8. CASE StartEe1 \/ StartIop1
  <2>1. UNCHANGED sif0 /\ fifo1' = fifo1 /\ iop1 \in Channel /\ ee1 \in Channel
    BY <1>1, <1>8, Counts1 DEF StartIop1, StartEe1, sif0
  <2>2. iop1' = iop1 \/ iop1' = [iop1 EXCEPT !.started = TRUE]
    BY <1>8 DEF StartIop1, StartEe1
  <2>3. ee1' = ee1 \/ ee1' = Start(ee1)
    BY <1>8 DEF StartIop1, StartEe1
  <2>4. iop1'.left = iop1.left /\ iop1'.done = iop1.done
    BY <2>1, <2>2 DEF Channel
  <2>5. ee1'.left = ee1.left /\ ee1'.done = ee1.done
    BY <2>1, <2>3, ChannelFields
  <2>6. Framing1'
    BY <1>1, <2>1, <2>4, <2>5, Framing1Kept
  <2> QED BY <1>1, <1>2, <2>1, <2>6 DEF FramingInv
<1>9. CASE Send1
  BY <1>1, <1>2, <1>9, Send1Frames DEF Send1, FramingInv
<1>10. CASE ReceiveTag1
  BY <1>1, <1>2, <1>10, ReceiveTag1Frames DEF ReceiveTag1, FramingInv
<1>11. CASE ReceiveWord1
  BY <1>1, <1>2, <1>11, ReceiveWord1Frames DEF ReceiveWord1, FramingInv
<1>12. CASE UNCHANGED vars
  <2>1. UNCHANGED sif0 /\ UNCHANGED sif1
    BY <1>12 DEF vars, sif0, sif1
  <2> QED BY <1>1, <1>2, <1>3, <2>1 DEF FramingInv
<1> QED
  BY <1>4, <1>5, <1>6, <1>7, <1>8, <1>9, <1>10, <1>11, <1>12 DEF Next, Iop0, Iop1

(* No receiver takes data for a tag or a tag for data, for any size of the *)
(* FIFOs, slice and lengths of packets: what it still counts of its packet *)
(* is in front of the next tag, junk included, or still to be sent, in the *)
(* order of the packet (process_SIF0, process_SIF1 at both ends,           *)
(* send_SIF0_junk).                                                        *)
THEOREM PacketsStayFramed == Spec => []Framed
<1>1. FramingInv => Framed
  <2> SUFFICES ASSUME FramingInv PROVE Framed
    OBVIOUS
  <2>1. Inv0 /\ Inv1 /\ Framing0 /\ Framing1
    BY DEF FramingInv
  <2>2. Framed1
    <3>1. ToCome1 \in Int
      BY <2>1, Counts1
    <3> DEFINE lead == Leading(fifo1)
    <3>2. /\ iop1.left = IF lead < Len(fifo1) THEN lead ELSE lead + ToCome1
          /\ \A i \in 1 .. lead : fifo1[i].n = iop1.done + i
      <4>1. Framing(fifo1, Quad - 1, 1, iop1.left, iop1.done, ToCome1, Total1)
        BY <2>1 DEF Framing1
      <4>2. /\ fifo1 \in Seq(Words) /\ Quad - 1 \in Nat /\ 1 \in Nat /\ iop1.left \in Nat
            /\ iop1.done \in Nat /\ Total1 \in Int
        BY <2>1, Counts1
      <4>3. Leads(fifo1, iop1.left, iop1.done, ToCome1)
        BY <3>1, <4>1, <4>2, FramingLeads
      <4> QED BY <4>3 DEF Leads
    <3> QED BY <3>2 DEF Framed1, ToCome1
  <2>3. LET lead == Leading(fifo0)
        IN /\ ee0.left * Quad = IF lead < Len(fifo0) THEN lead ELSE lead + ToCome0
           /\ \A i \in 1 .. lead : fifo0[i].n = ee0.done * Quad + i
    <3> DEFINE n == ee0.left * Quad
               done == ee0.done * Quad
    <3>1. /\ ToCome0 \in Int /\ Total0 \in Int /\ Quad \in Nat /\ 1 \in Nat
          /\ n \in Nat /\ done \in Nat
      BY <2>1, Counts0 DEF Quad
    <3>2. Framing(fifo0, 1, Quad, n, done, ToCome0, Total0)
      BY <2>1 DEF Framing0
    <3> HIDE DEF n, done
    <3>3. LET lead == Leading(fifo0)
          IN /\ n = IF lead < Len(fifo0) THEN lead ELSE lead + ToCome0
             /\ \A i \in 1 .. lead : fifo0[i].n = done + i
      <4>1. fifo0 \in Seq(Words)
        BY <2>1, Counts0
      <4>2. Leads(fifo0, n, done, ToCome0)
        BY <3>1, <3>2, <4>1, FramingLeads
      <4> QED BY <4>2 DEF Leads
    <3> QED BY <3>3 DEF n, done
  <2> QED BY <2>2, <2>3 DEF Framed, ToCome0, Total0
<1> QED BY <1>1, FramingInit, FramingStep, PTL DEF Spec
=============================================================================

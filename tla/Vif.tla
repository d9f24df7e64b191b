-------------------------------- MODULE Vif --------------------------------
(***************************************************************************)
(* A vector interface (VectorInterface, ee/vif.cpp): words come from the   *)
(* DMA controller into a FIFO, from there into a short internal one, and   *)
(* are decoded as commands and their data.  A command may wait for the     *)
(* vector unit or for the GIF's paths, sends DIRECT data on PATH2, unpacks *)
(* data into the unit's memory, and may end in a stall.                    *)
(*                                                                         *)
(* update runs the loop over the words; one turn of the loop is one        *)
(* action.  The vector unit, the other paths of the GIF and the program    *)
(* move between two turns, which allows more than the code, where they     *)
(* move between two calls of update.  A word is the command it belongs to  *)
(* and its place in it.  What UNPACK writes is left out: how many bits it  *)
(* reads for every quadword is kept.  The FIFO's reversed direction and    *)
(* what else can hold a path (a stopped GIF, a GS that stalls or sends) is *)
(* left out, and a path that PATH2 interrupts has ended and starts again.  *)
(* The program's GIF packets end with the DIRECT that sends them.          *)
(***************************************************************************)
EXTENDS Integers, Sequences

CONSTANTS
  Commands,        (* the commands, a function to CommandWords             *)
  Programs,        (* sequences of them, one of which the program sends    *)
                   (* again and again                                      *)
  FifoSize,        (* fifo_size: 64 words, 32 for VIF0                     *)
  InternalSize,    (* 8 words                                              *)
  Quad, Tag,       (* the 4 words of a quadword and the 2 of a tag         *)
  Careful,         (* the program breaks off no command, and resets the    *)
                   (* interface only when it holds no word                 *)
  MaxControls      (* bound: the STOPs, breaks and resets of a behaviour   *)

CommandWords ==
  [op : {"nop", "mark", "mskpath3", "flushe", "flush", "flusha",
         "mscal", "mscalf", "data", "mpg", "direct", "unpack"},
   ibit : BOOLEAN,
   words : Nat,                         (* of "data", "mpg" and "direct"   *)
   vn : 0 .. 3, vl : 0 .. 3, num : 1 .. 256,    (* of "unpack"             *)
   cl : 0 .. 255, wl : 1 .. 256]        (* CYCLE, when it is decoded       *)

NoCommand == "none"

ASSUME VifAssumption ==
  /\ Commands \in [DOMAIN Commands -> CommandWords] /\ NoCommand \notin DOMAIN Commands
  /\ Programs \subseteq Seq(DOMAIN Commands) \ {<<>>}
  /\ \A c \in DOMAIN Commands :                       (* whole quadwords    *)
       Commands[c].op = "direct" => Commands[c].words > 0 /\ Commands[c].words % Quad = 0
  /\ Quad \in Nat /\ FifoSize \in Nat
  /\ Tag \in 1 .. Quad /\ 2 * Quad <= FifoSize /\ InternalSize \in Nat \ {0}
  /\ MaxControls \in Nat

VARIABLES
  vif,             (* the fields of VectorInterface, see VifState          *)
  requested,       (* the DMA channel's request                            *)
  running,         (* the vector unit runs a program                       *)
  path2,           (* PATH2 in the GIF                                     *)
  packet,          (* path_status[2] is not 4: it is within a packet       *)
  other,           (* the other path that is active in the GIF             *)
  program,         (* the commands, the next one first                     *)
  coming,          (* the words the program has prepared for the channel   *)
  controls         (* the STOPs, breaks and resets so far                  *)

env == <<running, path2, packet, other>>
data == <<program, coming>>
vifVars == <<vif, requested, env, data, controls>>

Names == DOMAIN Commands
Op(c) == IF c = NoCommand THEN "none" ELSE Commands[c].op

QuadBits(c) ==                                 (* 32 >> vl for every part  *)
  IF c.vl = 3 /\ c.vn = 3 THEN 16 ELSE <<32, 16, 8, 4>>[c.vl + 1] * (c.vn + 1)

Reads(c) ==                   (* the quadwords that are read, not filled   *)
  LET part == c.num % c.wl
  IN IF c.wl <= c.cl THEN c.num
     ELSE c.cl * (c.num \div c.wl) + IF part < c.cl THEN part ELSE c.cl

(* Mutant: a last word that is not whole is not read.                      *)
UnpackWordsDown(c) == (QuadBits(c) * Reads(c)) \div 32

(* init_UNPACK's count of the words to read                                *)
UnpackWords(c) == (QuadBits(c) * Reads(c) + 31) \div 32

Count ==                                       (* the words after the code *)
  [c \in Names |->
     IF Op(c) = "unpack" THEN UnpackWords(Commands[c])
     ELSE IF Op(c) \in {"data", "mpg", "direct"} THEN Commands[c].words ELSE 0]

Word(c, k) == [of |-> c, place |-> k]

VifState ==
  [fifo : Seq([of : Names, place : Nat]), internal : Seq([of : Names, place : Nat]),
   command : Names \cup {NoCommand}, len : Nat,            (* command_len  *)
   code : Names \cup {NoCommand},                          (* CODE         *)
   waits : SUBSET {"vu", "paths", "path3"},
   bits : Nat, num : 0 .. 256, blocks : Nat,    (* of UNPACK: bits to      *)
                                   (* read, quadwords to write and written *)
   ibit : BOOLEAN, stop : BOOLEAN, broken : BOOLEAN,
   stalled : SUBSET {"ibit", "mskpath3", "stop", "direct", "forcebreak"},
   interrupt : BOOLEAN,
   transfer : BOOLEAN]                      (* status is VIF_TRANSFER      *)

VifInit ==
  /\ vif = [fifo |-> <<>>, internal |-> <<>>, command |-> NoCommand, len |-> 0, code |-> NoCommand,
            waits |-> {}, bits |-> 0, num |-> 0, blocks |-> 0,
            ibit |-> FALSE, stop |-> FALSE, broken |-> FALSE, stalled |-> {},
            interrupt |-> FALSE, transfer |-> FALSE]
  /\ requested = TRUE                            (* DMAC::reset            *)
  /\ running = FALSE /\ path2 = "idle" /\ packet = FALSE /\ other = "none"
  /\ program \in Programs /\ coming = <<>> /\ controls = 0

-----------------------------------------------------------------------------
(* The parts of a turn, as functions of the fields v                       *)

FillInternal(v) ==
  LET n == IF Len(v.fifo) < InternalSize - Len(v.internal)
           THEN Len(v.fifo) ELSE InternalSize - Len(v.internal)
  IN [v EXCEPT !.internal = @ \o SubSeq(v.fifo, 1, n),
               !.fifo = SubSeq(@, n + 1, Len(@))]

Waiting(v) ==
  \/ "paths" \in v.waits /\ (path2 # "idle" \/ other = "path1")
  \/ "vu" \in v.waits /\ running
  \/ "path3" \in v.waits /\ other = "path3"

(* handle_wait_cmd: a command without data is over.                        *)
EndWait(v) ==
  IF v.waits = {} THEN v
  ELSE [v EXCEPT !.waits = {}, !.command = IF v.len = 0 THEN NoCommand ELSE v.code]

Starts(v) == "vu" \in v.waits /\ Op(v.code) \in {"mscal", "mscalf"}

(* is_filling_write                                                        *)
Filling(v) ==
  LET c == Commands[v.command] IN c.cl < c.wl /\ v.blocks >= c.cl

(* There is enough to read for the next quadword.  The last word of V3-32  *)
(* also needs the first of the next, but for the first and last quadword.  *)
Readable(v) ==
  LET c == Commands[v.command] IN
  /\ v.bits >= QuadBits(c)
  /\ c.vn = 2 /\ c.vl = 0 /\ v.num > 1 /\ v.num < c.num => v.bits >= 128

(* A turn of handle_UNPACK's loop.                                         *)
WriteQuad(v) ==
  LET c == Commands[v.command] IN
  [v EXCEPT !.num = @ - 1,
            !.bits = IF v.blocks < c.cl THEN @ - QuadBits(c) ELSE @,
            !.blocks = IF @ + 1 >= c.wl THEN 0 ELSE @ + 1]

Unpacking == {v \in VifState : Op(v.command) = "unpack"}

HandleUnpack[v \in Unpacking] ==
  IF v.num = 0 THEN [v EXCEPT !.command = NoCommand, !.transfer = FALSE]
  ELSE IF ~(Filling(v) \/ Readable(v)) THEN v
  ELSE HandleUnpack[WriteQuad(v)]

Unpack(v) ==
  IF Op(v.command) = "unpack"
  THEN HandleUnpack[[v EXCEPT !.transfer = TRUE]] ELSE v

(* check_vif_stall, which a command's end alone lets happen                *)
Stalls(v) ==
  [v EXCEPT !.ibit = FALSE, !.interrupt = @ \/ v.ibit,
            !.stalled = @ \cup (IF v.ibit /\ Op(v.code) # "mark" THEN {"ibit"} ELSE {})
                          \cup (IF v.stop THEN {"stop"} ELSE {})
                          \cup (IF v.broken THEN {"forcebreak"} ELSE {})]

(* Mutant: the interface stalls within a command, which is over.           *)
CheckStallAtOnce(v) ==
  IF v.ibit THEN [Stalls(v) EXCEPT !.command = NoCommand] ELSE Stalls(v)

CheckStall(v) ==
  IF v.command # NoCommand THEN v ELSE Stalls(v)

HasStalled(v) == v.stalled \cap {"ibit", "stop", "forcebreak"} # {}

WaitsOf(op) ==
  CASE op \in {"flushe", "mscal", "mpg"} -> {"vu"}
    [] op \in {"flush", "mscalf"} -> {"vu", "paths"}
    [] op = "flusha" -> {"vu", "paths", "path3"}
    [] OTHER -> {}

(* decode_cmd.  The GIF says whether MSKPATH3 has to wait for it.          *)
Decode(v, c, masked) ==
  [v EXCEPT !.command = IF Op(c) \in {"data", "mpg", "direct", "unpack"} THEN c ELSE NoCommand,
            !.code = c, !.len = 1 + Count[c], !.ibit = @ \/ Commands[c].ibit,
            !.waits = WaitsOf(Op(c)), !.transfer = FALSE,
            !.bits = 0, !.num = IF Op(c) = "unpack" THEN Commands[c].num ELSE 0, !.blocks = 0,
            !.stalled = @ \cup IF Op(c) = "mskpath3" /\ masked THEN {"mskpath3"} ELSE {}]

(* process_data_word, of a word of data that can be taken                  *)
TakeData(v) ==
  [v EXCEPT !.bits = IF Op(v.command) = "unpack" THEN @ + 32 ELSE @,
            !.transfer = (v.len > 1 \/ Op(v.command) = "unpack"),
            !.command = IF v.len <= 1 /\ Op(v.command) # "unpack" THEN NoCommand ELSE @]

(* Mutant: the request comes back at one size of the FIFO only.            *)
PopExact(v) ==
  IF v.len = 0 THEN vif' = v /\ UNCHANGED requested
  ELSE /\ vif' = [v EXCEPT !.len = @ - 1, !.internal = Tail(@)]
       /\ requested' = (requested \/ Len(v.fifo) = FifoSize \div 2)

(* The word is popped, and DMA is requested if there is room again.  A     *)
(* command whose words have all come leaves the word where it is.          *)
Pop(v) ==
  IF v.len = 0 THEN vif' = v /\ UNCHANGED requested
  ELSE /\ vif' = [v EXCEPT !.len = @ - 1, !.internal = Tail(@)]
       /\ requested' = (requested \/ Len(v.fifo) <= FifoSize \div 2)

Granted == path2 = "active" \/ (path2 = "idle" /\ other = "none")

(* The word completes a quadword for the GIF.                              *)
Sends(v) == (Count[v.command] - v.len + 1) % Quad = 0

(* A word of DIRECT: PATH2 is requested for every one, left when a packet  *)
(* ends (feed_GIF) and after the last.                                     *)
Direct(v) ==
  IF Granted
  THEN /\ IF Sends(v) THEN packet' \in (IF v.len <= 1 THEN {FALSE} ELSE BOOLEAN)
                      ELSE UNCHANGED packet
       /\ path2' = (IF ~packet' /\ (Sends(v) \/ v.len <= 1) THEN "idle" ELSE "active")
       /\ Pop(TakeData(v))
  ELSE /\ path2' = "queued" /\ vif' = [v EXCEPT !.stalled = @ \cup {"direct"}, !.transfer = TRUE]
       /\ UNCHANGED <<requested, packet>>

(* Mutant: the interface keeps PATH2 while it has no data.                 *)
LeavesNever(v) == FALSE

(* Data that have not come do not keep PATH2, but for a packet.            *)
Leaves(v) == v.transfer /\ path2 = "active" /\ ~packet

(* process_data_word                                                       *)
ProcessDataWord(v) ==
  IF Op(v.command) = "direct" THEN Direct(v)
  ELSE /\ IF v.command = NoCommand
          THEN \E masked \in BOOLEAN :
                 \E decoded \in {Decode(v, Head(v.internal).of, masked)} : Pop(decoded)
          ELSE \E taken \in {TakeData(v)} : Pop(taken)
       /\ UNCHANGED <<path2, packet>>

-----------------------------------------------------------------------------
(* One turn of update's loop                                               *)
Turn ==
  /\ vif.stalled = {}
  /\ \E filled \in {FillInternal(vif)} :
       IF Waiting(filled)
       THEN vif' = filled /\ UNCHANGED <<requested, running, path2, packet>>
       ELSE /\ running' = (running \/ Starts(filled))
            /\ \E v \in {CheckStall(Unpack(EndWait(filled)))} :
                 IF HasStalled(v) \/ v.internal = <<>>
                 THEN /\ vif' = [v EXCEPT !.transfer = FALSE]
                      /\ path2' = IF Leaves(v) THEN "idle" ELSE path2
                      /\ UNCHANGED <<requested, packet>>
                 ELSE ProcessDataWord(v)
  /\ UNCHANGED <<other, data, controls>>

(* update, before its loop                                                 *)
Retry ==
  /\ vif.stalled \cap {"direct", "mskpath3"} # {}
  /\ vif' = [vif EXCEPT !.stalled = @ \ {"direct", "mskpath3"}]
  /\ UNCHANGED <<requested, env, data, controls>>

(* feed_DMA and transfer_DMAtag                                            *)
Feed ==
  /\ requested
  /\ \E n \in {Quad, Tag} :
       /\ Len(coming) >= n
       /\ IF Len(vif.fifo) > FifoSize - n
          THEN requested' = FALSE /\ UNCHANGED <<vif, coming>>
          ELSE /\ vif' = [vif EXCEPT !.fifo = @ \o SubSeq(coming, 1, n)]
               /\ coming' = SubSeq(coming, n + 1, Len(coming))
               /\ UNCHANGED requested
  /\ UNCHANGED <<env, program, controls>>

-----------------------------------------------------------------------------
(* The program, the vector unit and the GIF                                *)
Prepare ==
  /\ Len(coming) < Quad
  /\ LET c == Head(program) IN
     /\ coming' = coming \o [k \in 1 .. 1 + Count[c] |-> Word(c, k - 1)]
     /\ program' = Append(Tail(program), c)
  /\ UNCHANGED <<vif, requested, env, controls>>

Controlling ==
  /\ controls < MaxControls /\ controls' = controls + 1
  /\ UNCHANGED env

(* set_fbrst: STC, STP, FBK and RST.  RST leaves the internal FIFO, and    *)
(* neither returns the request or leaves PATH2.                            *)
Resume ==
  /\ vif.stalled \cap {"ibit", "stop", "forcebreak"} # {}
  /\ vif' = [vif EXCEPT !.stalled = @ \ {"ibit", "stop", "forcebreak"},
                        !.interrupt = FALSE, !.stop = FALSE, !.broken = FALSE]
  /\ UNCHANGED <<requested, env, data, controls>>

Stop ==
  /\ vif' = [vif EXCEPT !.stop = TRUE]
  /\ Controlling /\ UNCHANGED <<requested, data>>

ForceBreak ==
  /\ Careful => vif.len = 0 /\ vif.command = NoCommand
  /\ vif' = [vif EXCEPT !.command = NoCommand, !.len = 0, !.waits = {}, !.broken = TRUE,
                        !.transfer = FALSE, !.bits = 0]
  /\ Controlling /\ UNCHANGED <<requested, data>>

Reset ==
  /\ Careful => vif.internal = <<>> /\ vif.fifo = <<>> /\ vif.len = 0 /\ vif.command = NoCommand
  /\ vif' = [vif EXCEPT !.command = NoCommand, !.len = 0, !.code = NoCommand, !.waits = {},
                        !.stalled = {}, !.ibit = FALSE, !.interrupt = FALSE,
                        !.stop = FALSE, !.broken = FALSE, !.transfer = FALSE, !.bits = 0,
                        !.fifo = <<>>]
  /\ coming' = IF vif.fifo = <<>> THEN coming ELSE <<>>
  /\ Controlling /\ UNCHANGED <<requested, program>>

UnitStops ==
  /\ running /\ running' = FALSE
  /\ UNCHANGED <<vif, requested, path2, packet, other, data, controls>>

OtherPathStarts ==
  /\ other = "none" /\ path2 = "idle" /\ other' \in {"path1", "path3"}
  /\ UNCHANGED <<vif, requested, running, path2, packet, data, controls>>

OtherPathEnds ==
  /\ other # "none" /\ other' = "none"
  /\ path2' = IF path2 = "queued" THEN "active" ELSE path2
  /\ UNCHANGED <<vif, requested, running, packet, data, controls>>

VifNext ==
  \/ Turn \/ Retry \/ Feed \/ Prepare
  \/ Resume \/ Stop \/ ForceBreak \/ Reset
  \/ UnitStops \/ OtherPathStarts \/ OtherPathEnds

VifSpec == VifInit /\ [][VifNext]_vifVars

(* Emulator::run updates the interface in every slice, microprograms and   *)
(* packets end, and the program answers a stall.                           *)
VifFairness ==
  /\ SF_vifVars(Turn) /\ WF_vifVars(Retry) /\ WF_vifVars(Feed) /\ WF_vifVars(Prepare)
  /\ WF_vifVars(Resume) /\ WF_vifVars(UnitStops) /\ WF_vifVars(OtherPathEnds)

VifFairSpec == VifSpec /\ VifFairness

-----------------------------------------------------------------------------
(* Properties *)

VifTypeOK ==
  /\ vif \in VifState
  /\ requested \in BOOLEAN /\ running \in BOOLEAN
  /\ path2 \in {"idle", "queued", "active"} /\ packet \in BOOLEAN /\ other \in {"none", "path1", "path3"}

(* The word that comes next is a code when the interface expects one, and  *)
(* otherwise the word of data that the command is at: no stall, wait or    *)
(* rounding of an UNPACK loses a word or takes one too many (update,       *)
(* init_UNPACK, process_data_word).                                        *)
InStep ==
  LET words == vif.internal \o vif.fifo IN
  words # <<>> =>
    IF vif.len = 0 THEN Head(words).place = 0
    ELSE /\ vif.command # NoCommand /\ Head(words).of = vif.command
         /\ Head(words).place = Count[vif.command] - vif.len + 1

(* UNPACK's buffer of four words never overflows, and when the words that  *)
(* init_UNPACK counted have come, every quadword can be written: whatever  *)
(* the format, the count and the cycle.  Only a filling V3-32 may need the *)
(* next code for the last word of a quadword (handle_UNPACK).              *)
UnpackFits ==
  /\ vif.bits <= 128
  /\ Op(vif.command) = "unpack" /\ vif.len = 0 =>
       LET c == Commands[vif.command]
           next == IF c.vn = 2 /\ c.vl = 0 /\ c.cl < c.wl THEN 32 ELSE 0
       IN Unpack([vif EXCEPT !.bits = @ + next]).command = NoCommand

(* PATH2 is taken by a DIRECT alone, and an interface that waits for its   *)
(* data keeps the path only within a packet: otherwise the other paths,    *)
(* and its own FLUSH, would wait for it (process_data_word, update).       *)
PathLeft ==
  /\ path2 # "idle" => Op(vif.command) = "direct"
  /\ path2 = "active" /\ ~packet => vif.transfer

(* A request that was withdrawn is given back, although only the pop of a  *)
(* word does that (update, feed_DMA).                                      *)
RequestComesBack == ~requested ~> requested
=============================================================================

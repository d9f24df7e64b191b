-------------------------------- MODULE Cdvd --------------------------------
(***************************************************************************)
(* The disc drive (CDVD_Drive, iop/cdvd/cdvd.cpp) on its channel of the    *)
(* IOP's DMA controller.  An N command (seek, read, ...) ends in an event  *)
(* of the scheduler.  A read alternates: an event fills the buffer with a  *)
(* sector and requests DMA, the channel empties the buffer, withdraws the  *)
(* request and schedules the event of the next sector.  BREAK ends the     *)
(* command that is active by an event of its own.                          *)
(*                                                                         *)
(* The events of all commands call the same function, handle_N_command,    *)
(* without a parameter, and none is ever cancelled: only their number is   *)
(* kept, and any of them may be the next to fire, since their delays       *)
(* differ.  Buffer and counts are in sectors.  drive_status and N_status,  *)
(* which only the program reads, are left out.                             *)
(***************************************************************************)
EXTENDS IopDma

CONSTANTS
  Commands,        (* the N commands the program sends, of AllCommands     *)
  Positions,       (* the sectors it seeks to                              *)
  Lengths,         (* the numbers of sectors it reads                      *)
  Careful,         (* the program sends no BREAK while a sector waits for  *)
                   (* its DMA, and no STOP while the event of a command it *)
                   (* broke off is pending                                 *)
  Disc,            (* bound: the disc's sectors                            *)
  MaxBreaks        (* bound: the BREAKs of a behaviour                     *)

AllCommands == {"nop", "standby", "stop", "pause", "seek", "read", "gettoc", "readkey"}
Toc == -1
Empty == -2

ASSUME CdvdAssumption ==
  /\ CDVD \in Channels
  /\ Commands \subseteq AllCommands
  /\ Lengths \subseteq Nat \ {0}
  /\ Careful \in BOOLEAN /\ Disc \in Nat /\ MaxBreaks \in Nat
  /\ Positions \subseteq 0 .. Disc
  /\ \A p \in Positions, n \in Lengths : p + n <= Disc

VARIABLES
  drive,           (* the fields of CDVD_Drive, see DriveState             *)
  words,           (* word_count of the CDVD channel, in sectors           *)
  breaks,          (* the BREAKs so far                                    *)
  awaited,         (* a completion interrupt that the program waits for    *)
  asked            (* the sectors the last read has yet to deliver         *)

driveVars == <<drive, words, breaks, awaited, asked>>
vars == <<dma, driveVars>>

DriveState ==
  [active : {"NONE", "SEEK", "STANDBY", "STOP", "READ_SEEK", "READ", "BREAK"},
   reads : BOOLEAN,                          (* N_command is a read        *)
   events : Nat,                             (* pending, of this drive     *)
   left : Int,                               (* sectors_left               *)
   full : Int,                               (* read_bytes_left            *)
   target : 0 .. Disc, current : 0 .. Disc,  (* sector_pos, current_sector *)
   file : 0 .. Disc,                         (* the container's position   *)
   buffer : [data : Toc .. Disc \cup {Empty}, header : 0 .. Disc],
   irq : BOOLEAN]                            (* ISTAT, and bit 2 of the   *)
                                             (* INTC's I_STAT             *)

(* reset: sectors_left, sector_pos and the buffer keep what they had.      *)
Init ==
  /\ IopDmaInit
  /\ drive = [active |-> "NONE", reads |-> FALSE, events |-> 0, left |-> 0,
              full |-> 0, target |-> 0, current |-> 0, file |-> 0,
              buffer |-> [data |-> Empty, header |-> 0], irq |-> FALSE]
  /\ words = 0 /\ breaks = 0 /\ awaited = FALSE /\ asked = <<>>

-----------------------------------------------------------------------------
(* The methods, as functions of the fields v                               *)

AddEvent(v) == [v EXCEPT !.events = @ + 1]

(* assert_irq(2) *)
Interrupt(v) == [v EXCEPT !.irq = TRUE]

(* Mutant: the command stays active.                                       *)
FinishedStays(v) == Interrupt(v)

Finished(v) == Interrupt([v EXCEPT !.active = "NONE"])

(* Mutant: the container is left where it is.                              *)
StartSeekLate(v, p, active) ==
  AddEvent([v EXCEPT !.target = p, !.active = active])

(* start_seek: the container is moved at once, the event comes later.      *)
StartSeek(v, p, active) ==
  AddEvent([v EXCEPT !.target = p, !.file = p, !.active = active])

(* read_CD_sector, read_DVD_sector, without set_DMA_request                *)
ReadSector(v) ==
  [v EXCEPT !.buffer = [data |-> v.file, header |-> v.current], !.full = 1,
            !.file = (@ + 1) % (Disc + 1), !.current = (@ + 1) % (Disc + 1),
            !.left = @ - 1]

(* Mutant: the next sector is not scheduled.                               *)
ReadToRAMNoEvent(v) ==
  LET e == [v EXCEPT !.full = @ - 1]
  IN IF e.full > 0 THEN e
     ELSE IF e.left = 0 THEN Finished(e) ELSE [e EXCEPT !.active = "READ"]

(* read_to_RAM, without clear_DMA_request                                  *)
ReadToRAM(v) ==
  LET e == [v EXCEPT !.full = @ - 1]
  IN IF e.full > 0 THEN e
     ELSE IF e.left = 0
     THEN Finished(e)
     ELSE AddEvent([e EXCEPT !.active = "READ"])

-----------------------------------------------------------------------------
(* One of the events fires: handle_N_command.                              *)
HandleNCommand ==
  /\ drive.events > 0
  /\ LET v == [drive EXCEPT !.events = @ - 1] IN
     \/ /\ v.active = "SEEK"
        /\ drive' = Finished([v EXCEPT !.current = v.target])
        /\ awaited' = FALSE /\ UNCHANGED dma
     \/ /\ v.active \in {"STANDBY", "BREAK"}
        /\ drive' = Finished(v)
        /\ awaited' = FALSE /\ UNCHANGED dma
     \/ /\ v.active = "STOP"                         (* and STOP it stays  *)
        /\ drive' = Interrupt(v)
        /\ awaited' = FALSE /\ UNCHANGED dma
     \/ /\ v.active = "READ" /\ v.full = 0 /\ v.reads
        /\ drive' = ReadSector(v)
        /\ dma' = SetRequest(dma, CDVD)
        /\ UNCHANGED awaited
     \/ /\ v.active = "READ" /\ v.full # 0           (* check later        *)
        /\ drive' = AddEvent(v)
        /\ UNCHANGED <<dma, awaited>>
     \/ /\ v.active = "READ_SEEK"
        /\ drive' = AddEvent([v EXCEPT !.active = "READ", !.current = v.target])
        /\ UNCHANGED <<dma, awaited>>
     \/ /\ v.active = "NONE" \/ (v.active = "READ" /\ v.full = 0 /\ ~v.reads)
        /\ drive' = v
        /\ UNCHANGED <<dma, awaited>>
  /\ UNCHANGED <<words, breaks, asked>>

(* Mutant: the request is withdrawn behind the controller's back.          *)
ProcessCDVDQuiet ==
  /\ dma.active = CDVD
  /\ LET d == [dma EXCEPT !.req[CDVD] = FALSE]
     IN IF words <= 1
        THEN dma' = TransferEnd(d, CDVD) /\ words' = 0
        ELSE dma' = d /\ words' = words - 1
  /\ drive' = ReadToRAM(drive)
  /\ awaited' = (awaited /\ ~(drive.full <= 1 /\ drive.left = 0))
  /\ asked' = IF asked # <<>> THEN Tail(asked) ELSE asked
  /\ UNCHANGED breaks

(* process_CDVD: one sector goes to memory.                                *)
ProcessCDVD ==
  /\ dma.active = CDVD
  /\ LET d == ClearRequest(dma, CDVD)
     IN IF words <= 1
        THEN dma' = TransferEnd(d, CDVD) /\ words' = 0
        ELSE dma' = d /\ words' = words - 1
  /\ drive' = ReadToRAM(drive)
  /\ awaited' = (awaited /\ ~(drive.full <= 1 /\ drive.left = 0))
  /\ asked' = IF asked # <<>> THEN Tail(asked) ELSE asked
  /\ UNCHANGED breaks

-----------------------------------------------------------------------------
(* The program: it waits for the interrupt of a command before it sends    *)
(* another, or breaks the command off.                                     *)

(* send_N_command, with what it does to the drive                          *)
Send(command, next, await, sectors) ==
  /\ command \in Commands
  /\ drive' = [next EXCEPT !.reads = (command = "read")]
  /\ awaited' = await
  /\ asked' = sectors
  /\ UNCHANGED <<words, breaks>>

SendNCommand ==
  /\ ~awaited
  /\ \/ /\ \/ \E command \in {"nop", "pause", "readkey"} :
                Send(command, Interrupt(drive), FALSE, asked)
           \/ Send("standby", StartSeek(drive, 0, "STANDBY"), TRUE, <<>>)
           \/ /\ Careful => drive.events = 0
              /\ Send("stop", [AddEvent(drive) EXCEPT !.active = "STOP"], TRUE, <<>>)
           \/ \E p \in Positions :
                \/ Send("seek", StartSeek(drive, p, "SEEK"), TRUE, <<>>)
                \/ \E n \in Lengths :
                     Send("read", StartSeek([drive EXCEPT !.left = n], p, "READ_SEEK"), TRUE,
                          [i \in 1 .. n |-> p + i - 1])
        /\ UNCHANGED dma
     \/ /\ Send("gettoc", [drive EXCEPT !.left = 0, !.full = 1,
                                        !.buffer = [data |-> Toc, header |-> 0]], TRUE, <<Toc>>)
        /\ dma' = SetRequest(dma, CDVD)

(* write_BREAK, when a command is active.  The DMA request stays.          *)
WriteBREAK ==
  /\ drive.active \notin {"NONE", "BREAK"}
  /\ breaks < MaxBreaks
  /\ Careful => drive.full <= 0
  /\ drive' = [AddEvent(drive) EXCEPT !.active = "BREAK", !.full = 0]
  /\ breaks' = breaks + 1
  /\ awaited' = TRUE /\ asked' = <<>>
  /\ UNCHANGED <<dma, words>>

(* set_chan_block and set_chan_control: the channel is started for some    *)
(* sectors, or stopped.                                                    *)
StartChannel ==
  /\ ~dma.busy[CDVD]
  /\ \E n \in Lengths : words' = n
  /\ dma' = SetBusy(dma, CDVD, TRUE)
  /\ UNCHANGED <<drive, breaks, awaited, asked>>

StopChannel ==
  /\ dma.busy[CDVD]
  /\ dma' = SetBusy(dma, CDVD, FALSE)
  /\ UNCHANGED <<drive, words, breaks, awaited, asked>>

(* write_ISTAT, and write_istat of the INTC                                *)
Acknowledge ==
  /\ drive.irq
  /\ drive' = [drive EXCEPT !.irq = FALSE]
  /\ UNCHANGED <<dma, words, breaks, awaited, asked>>

(* The other channels, whose devices may do anything, and the registers of *)
(* the controller: the interrupt of this channel, the enable bits of the   *)
(* SIF's.                                                                  *)
OtherChannel ==
  /\ \E c \in Channels \ {CDVD} :
       DeviceRequests(c) \/ DeviceWithdraws(c) \/ Process(c) \/ WriteControl(c)
  /\ UNCHANGED driveVars

DmaRegisters == (WriteDICR(0) \/ WriteDPCR(1) \/ AcknowledgeDma) /\ UNCHANGED driveVars

-----------------------------------------------------------------------------
Program == SendNCommand \/ WriteBREAK \/ StartChannel \/ StopChannel \/ Acknowledge

Next ==
  \/ HandleNCommand \/ ProcessCDVD
  \/ Program \/ OtherChannel \/ DmaRegisters

Spec == Init /\ [][Next]_vars

(* The scheduler fires every event, and Emulator::run calls IOP_DMA::run   *)
(* in every slice.                                                         *)
FairSpec == Spec /\ WF_vars(HandleNCommand) /\ WF_vars(ProcessCDVD)

-----------------------------------------------------------------------------
(* Properties *)

TypeOK ==
  /\ dma \in IopDmaState
  /\ drive \in DriveState
  /\ words \in Nat /\ breaks \in Nat /\ awaited \in BOOLEAN

(* While the drive requests DMA its buffer holds the next sector the       *)
(* program asked for, under the header of that sector, and no sector waits *)
(* without a request: across stale events, seeks and broken commands, a    *)
(* read delivers what was asked, in order, once (read_DVD_sector,          *)
(* read_to_RAM, handle_N_command).                                         *)
SectorsInOrder ==
  /\ dma.req[CDVD] <=> drive.full = 1
  /\ dma.req[CDVD] =>
       /\ asked # <<>> /\ drive.buffer.data = Head(asked)
       /\ Head(asked) # Toc => drive.buffer.header = Head(asked)

(* The drive interrupts only for a command that the program waits for,     *)
(* whatever events of broken commands are still pending.                   *)
NoStrayInterrupt ==
  [][HandleNCommand /\ ~drive.irq /\ drive'.irq => awaited]_vars

(* A command ends, if its channel stays started and no other channel takes *)
(* the bus for good.                                                       *)
CommandsEnd ==
  <>[](dma.busy[CDVD] /\ dma.active \in {CDVD, None}) => []<>~awaited
=============================================================================

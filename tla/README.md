# DobieStation in TLA+

DobieStation is a PlayStation 2 emulator in C++. Most of it is computation: it
decodes instructions, draws triangles, mixes sound. What keeps it *correct as a
system* is elsewhere: two threads that hand pictures to a third, a scheduler that
keeps three clocks in step, a DMA controller that shares a bus among ten channels,
and FIFOs whose flow control is a handful of flags. That is what these
specifications are about.

Source paths below are relative to `src/src/` in the tree (`core/...`, `qt/...`).

## 1. The system

### Threads

| thread | code | what it does |
|---|---|---|
| GUI thread | `qt/emuwindow.cpp`, `qt/renderwidget.cpp` | user actions, dialogs, shows pictures and errors; calls into the emulator under `emu_mutex` |
| emulation thread | `qt/emuthread.cpp`, `core/emulator.cpp` and every emulated component | runs one frame after another; everything of the PS2 but the GS's drawing happens here, sequentially |
| GS thread | `core/gsthread.cpp` | pops GS messages, draws, renders pictures, answers requests |

GUI and emulation thread share the fields of `EmuThread` and Qt signals; emulation
and GS thread share two message queues, one condition variable with two flags,
three mutexes, two picture buffers and one download buffer.

### Components

| component | state it keeps | operations and interactions | what makes it correct | modelled in |
|---|---|---|---|---|
| message FIFO `core/circularFIFO.hpp` | `_head`, `_tail`, `_array` | `push`, `pop`, `was_empty`; lock-free, one pusher and one popper | it is a queue of whole messages; no slot is written while it is read | `CircularFifo`, `FifoQueue` |
| GS front end and GS thread `core/gs.cpp`, `core/gsthread.cpp` | queues, `send_data`/`recieve_data`, buffers and their mutexes, `using_first_buffer` | render, download, save/load state, reset, die; answers by `GSReturn` | the right picture is shown; no answer lost or left over; no wait for ever | `GSThread` |
| GS privileged registers `core/gsregisters.cpp` | CSR, IMR, SIGLBLID, the field, FINISH requested, SIGNAL stalled, display registers; one copy per thread | writes of the program and of the GIF, events of a frame, through the message FIFO; the emulation thread raises the GS interrupt | both copies agree, a SIGNAL interrupts once | `GSRegisters` on `CircularFifo` |
| scheduler `core/scheduler.cpp`, loop of `core/emulator.cpp` | `events`, `closest_event_time`, three cycle counts with remainders, timers | `add_event`, `process_events`, `calculate_run_cycles`, `update_cycle_counts`; callbacks add events | no event late, clocks exact, frames exact | `Scheduler`, `Timers` |
| emulation thread `qt/emuthread.cpp`, window `qt/emuwindow.cpp` | `pause_status`, `block_run_loop`, `abort`, `frame_advance`, `emu_mutex` | the loop; `wait_for_lock`; pause and unpause for five reasons; signals | stops when told, GUI gets the lock, shutdown ends | `EmuThread` |
| EE DMA controller `core/ee/dmac.cpp` | channels, `active_channel`, `queued_channels`, `has_dma_stalled`, `STADR`, `D_STAT` | register writes, requests of the peripherals, `run` | turns exact and fair, a drain never passes STADR, INT1 exact, no lost request | `Dmac` (no MFIFO) |
| SIF `core/sif.cpp`, IOP DMA `core/iop/iop_dma.cpp` | two FIFOs, the requests of four channels, packet counts at both ends | `write_SIF0` .. `read_SIF1`, `process_SIF0/1` of both processors | the receiver stays in step with the tags, no read of an empty FIFO, bounded, no packet stuck | `Sif` |
| GIF `core/gif.cpp` | active path, path queue, packet of each path, PATH3's FIFO, mask and interruption, its DMA request | `request_PATH`, `arbitrate_paths`, `feed_GIF`, `send_PATH3`, `run`, `resume_path3`; called by VU1 (XGKICK), VIF1 (DIRECT, MSKPATH3) and the DMA controller | no path forgotten, PATH3's quads in order, mask obeyed, request given back, FINISH last | `Gif` |
| VIF `core/ee/vif.cpp` | two FIFOs, the command in progress, its remaining words, stalls, waits, DMA request | `decode_cmd`, `handle_UNPACK`, `process_data_word`, `update`, `set_fbrst`; waits for the VU and the GIF | in step with the words, PATH2 left, data requested again | `Vif`; its side of the GIF also in `Gif` |
| EE timers `core/ee/timers.cpp` | counters, compare values, gates, interrupt flags, one planned event per timer | register reads and writes, `gate` at the vertical blank, `timer_event` | every cycle counted, next hit planned, no interrupt lost | `Timers` |
| IOP DMA controller `core/iop/iop_dma.cpp` | active channel, queue, requests, busy bits, DPCR, DICR | `set_DMA_request`, `active_dma_check`, `deactivate_dma`, `transfer_end` | the highest ready channel runs, none is forgotten | `IopDma` |
| CDVD `core/iop/cdvd/cdvd.cpp` | active N command, sector counts, read buffer, events | N commands, BREAK, `handle_N_command`, `read_to_RAM` | a read gives its sectors in order, every command ends once | `Cdvd` on `IopDma` |
| JIT cache `core/jitcommon/jitcache.cpp` | memory of code with headers, free lists, records by page, look-up caches | `insert_block`, `find_block`, `jit_malloc`, `jit_free`, `flush_all_blocks` | no two blocks overlap, no record without code, a flush frees all | `JitCache` |
| INTC, IOP interrupts and timers, IPU FIFOs | masks, status | scheduled checks, polling speed-up | an edge gives one interrupt | the delayed check of `INTC::assert_IRQ` in `Scheduler`, the DMA interrupt in `IopDma` |
| SIO2, pads, memory cards; SPU2 | command state machines, buffers, IRQ address | byte protocol, DMA | protocol state machines | not modelled |
| EE, IOP, VU cores, recompilers, GS rasteriser, disc readers, disassemblers, settings | -- | instruction semantics, translation, arithmetic, files | against an instruction set or a file format | not modelled |

`PROJECT.json` lists every component with its sources and status, and every
hazard at its line with the properties that watch it.

### What is hard here

* **Interleavings of real threads** (GUI, emulation, GS): the FIFO's two atomics,
  flags set outside their mutex, pictures exchanged through buffers, a pause that
  races a frame, an error that arrives as a queued signal after the user moved on.
* **Callbacks inside a traversal**: `process_events` visits a list its callbacks
  extend, and uses a time those callbacks lower.
* **Requests withdrawn and given back**: the DMA controller clears a channel's
  request for a stall and has to remember that; SIF requests are set and cleared
  word by word by the other side's reads and writes.
* **Framing by counting**: the SIF receivers find tags by counting words; a word
  too few or too many is never noticed again.
* **Partial failure**: an error of either thread with requests in flight.
* **Events that are never cancelled**: a command of the disc drive that was broken off, a
  timer's hit that the program has already looked at.
* **Bookkeeping kept in several places**: a free object of the JIT's memory has its size at
  both ends and a place in a list; a block is known to five tables.
* **Must eventually happen**: an answer, a lock, the next frame, a channel's turn,
  the rest of a packet, the end of a command.

## 2. Modules

| module | extends / instantiates | role |
|---|---|---|
| `FifoQueue` | -- | abstract: a bounded FIFO queue, one step per message |
| `CircularFifo` | `FifoQueue` by `INSTANCE` | the ring of `circularFIFO.hpp` at the grain of its memory accesses |
| `GSRegisters`, `GSRegisters_proof` | extends `CircularFifo` | the two copies of the GS's privileged registers, kept in step through the ring; the proofs are of the ring too |
| `GSThread`, `GSThread_proof` | -- | emulation thread and GS thread; `message_queue` is atomic (justified by `CircularFifo`), `return_queue`'s push is not |
| `Scheduler`, `Scheduler_proof` | -- | events, clocks, the loop of `Emulator::run`; the proofs are of `Timers` too |
| `EmuThread`, `EmuThread_proof` | -- | `EmuThread::run` and the handlers of `EmuWindow`; the proofs are of `JitCache` too |
| `Dmac`, `Dmac_proof` | -- | turns, requests, stall control, INT1; the proofs are of `Vif` too |
| `Sif`, `Sif_proof` | -- | both FIFOs and the four channels at their ends |
| `Gif`, `Gif_proof` | -- | the three paths into the GS, and what VU1, VIF1 and the GIF channel do to them |
| `Timers` | extends `Scheduler` | the EE timers and the scheduler's functions on timers, in the loop of frames |
| `IopDma`, `IopDma_proof` | -- | the IOP's DMA controller: which channel has the bus, for any devices; the proofs are of `Cdvd` too |
| `Cdvd` | extends `IopDma`, implements its `IopDmaSpec` | the disc drive and its channel, with another channel above it |
| `Vif` | -- | VIF1: the decoder between its FIFOs, the vector unit and the GIF |
| `JitCache` | -- | the EE recompiler's cache of code |
| `MC*` with `*.cfg` | the module | values of the constants for TLC |

The mutants are definitions named for what they break (`EeAfterReadEarly`, ...),
each stated just before the definition it replaces; they are used by nothing.

### CircularFifo

State: `head`, `tail`, `array` (`_head`, `_tail`, `_array`), and for each thread where
it is in `push` or `pop`, the message it copies and the other thread's index as it last
loaded it (`headSeen`, `tailSeen`). A copy of a message is not atomic: between
`WriteSlot` and `WroteSlot` the slot holds `NoElement`, and a reader whose slot
changes under it gets that too. An acquire load may be stale within what
acquire/release allows (any value since the one last seen), so `pop` may report
empty and `push` full when they no longer are. The refinement maps a state to the
messages between head and tail (`queueContents`); `ImplementsQueue` says that every
step is a step of `FifoQueue`, or none.

### GSRegisters

Extends the ring with what its messages do. `ours` is `GraphicsSynthesizer::reg`, which the program reads,
`theirs` the register object of the GS thread, which draws by its own; `Apply` is what a message does to a copy
(the methods of `GS_REGISTERS`, which both threads call), `OursAfter` what `gs.cpp` does besides.
The emulation thread applies a message when `send_message` has returned (`SendDone` is the last step of `push`),
the GS thread when it has popped it (`Receive`, the last step of `pop`). `raised` counts the interrupts of the
SIGNAL that CSR shows; it is a history variable. When the ring is full `send_message` dies and the program stops
(`SendDies`). The copies are what the module is about: `CopiesAgree` applies the messages still in the ring to `theirs`
and must find `ours`. In the proof a history variable, `was`, keeps what each queued message found there when it was
applied, so that the induction goes along the ring one message at a time.

### GSThread

`emu.phase` is where `Emulator::run` is in a frame, `emu.at` the statement, `gs.at`
the statement of `event_loop`. The calls of `gs.cpp` are the actions of `MayDo` and
`RunsFrame`; each queues its message (`SendPush`), wakes the GS thread
(`SendFlag`, `WakeThread`) and, when it wants an answer, runs `wait_for_return`
(`ReturnPop`, `WasEmpty`, `PutBack`, ... one action per statement that touches shared
state). The answers of the GS thread set `recieve_data` under `data_mutex`,
except that `save_state_t` and the `catch` of `event_loop` do it without: those are
`GSSetUnlocked` and `GSNotifyUnlocked`. `Reset` joins the thread and starts another.
Messages that only write GS registers are one message, `write`, which may kill
the GS thread. Frames are counted modulo 3, since two pictures exist at most.

### Scheduler

`at` is the statement of `Emulator::run`: between frames, choosing the run length,
running components, or in `process_events`, whose iterator is `it` and whose running
minimum is `newTime`. `RunEvent` performs the whole callback (an hblank adds the
next hblank, `vblank_start` the delayed GS vblank, `sound` the next sample, ...).
`ComponentEvent` is what a component may do while it runs: `INTC::assert_IRQ` and the
disc drive add events. The times of a frame are constants, so the theorems hold for
every layout.

### EmuThread

`emu` is the statement of `EmuThread::run`, `gui` that of `wait_for_lock`, `todo` what
the current handler of `EmuWindow` still does (the handler's calls in order; a handler
never returns to the event loop before they are done), `signals` the queued signals.
A frame ends well, non-fatally or fatally. `begun` and `allowed` are history variables.

### Dmac

`dmac` holds the fields of `DMAC`; the source's functions (`SetDMARequest`,
`ClearDMARequest`, `CheckForActivation`, `DeactivateChannel`, `Arbitrate`,
`UpdateStadr`, `Int1Check`) are operators on that record, in the order the code calls
them. `loop` is the `process_` call under way, because a peripheral calls back while
it is fed. Tags are any tags: what the program put in memory is an input. `Served` is what a
comment in `handle_source_chain` says of the turns, "If another channel is queued, always switch to it on a
tag boundary" (`core/ee/dmac.cpp:1051`). The code does not keep to it when a peripheral withdraws its request while it is
fed (see the remarks); `ServedIfKept` says that nothing else starves a channel.

### Sif

A FIFO is a sequence of words; a tag word knows its packet's length, a data word its
place in the packet, so that a receiver that loses its place shows it. Each action is
one call of a `process_` function; how much of a slice the EE still has (`room`) is any
amount. Assumed of programs: both ends are given tags that agree (the EE's quadwords are
the IOP's words rounded up), which is what every SIF driver does. An IOP tag and
an EE quadword enter and leave whole, as in the code.

### Gif

`gif` holds the fields of `GraphicsInterface` and the GIF's `dma_req`; its functions are
operators from record to record. Two of the source's tests have side effects:
`path3_masked` also deactivates an idle PATH3 (`AskMasked` is what it does, `Path3Masked` what it
answers), and `path_active` interrupts PATH3 (`InterruptPath3`). A packet is a tag and counted
quads; registers and formats are left out. One call moves one quad: the code moves as many as
the slice allows with the same tests before each. When the GIF channel is a stall drain
(`D_CTRL.STD` = 2), `process_GIF` gives up PATH3 and withdraws the request for a slice that would pass STADR
(`StallGIF`), notes it in `has_dma_stalled` (`stalled`), and `update_stadr` gives the request back (`UpdateSTADR`);
`check_for_activation` may note a stall too (`Moves`, `StartDMA`). Addresses and STADR are left out here, so any
slice with quads may stall or pass; `Dmac` has them for any channel. The memory FIFO (`mfifo_handler`) is left out of
both. `asked` is a history variable: whether the GIF has asked for data since its reset, and whether a stall
took that request back. Assumed of programs: they write
the GIF's FIFO themselves, and reset the GIF, only while its DMA is not running, and they
write only what fits.

### Timers

Adds to `Scheduler` the timers (`SchedulerTimer` and the registers of `EmotionTiming` in one
record each). A counter is brought up to date only when somebody looks (`UpdateCounter`), so the
model keeps beside it what it stands for (`ideal`), and which hits have happened whose callback is
still to come (`owed`). Writes of the registers come between two runs of cycles; `Blank` is
`vblank_start` or `vblank_end` with the call of `gate`; `TimerEvent` is `timer_event` with
`timer_interrupt`. The clock is an exact number of EE cycles per tick: the fixed-point
remainders of the code are exact for the three rates of the bus clock. `strayed` marks the timers
that a gate has controlled since they were set; see the remarks.

### IopDma and Cdvd

`dma` holds the fields of `IOP_DMA` and its methods are operators on that record. Alone
(`IopDmaSpec`) devices request and withdraw at any time and a `process_` function may end the
transfer or not: it is the abstract specification of what a device may do to the controller.
`Cdvd` extends it with the drive and shows that every step of the drive, its events and its channel
is such a step. The disc is a sequence of sectors and a sector is moved whole; `drive.events` counts the
events that wait, because none is ever cancelled and all call the same function, which looks only at the
active command. The program sends a command when it waits for none, or breaks one off.

### Vif

`vif` holds the fields of `VectorInterface`, `env` what it waits for (the vector unit, other paths).
The program is a sequence of two commands out of nine; a word says which command it belongs to, so that a
decoder that takes data for a code shows it. `Turn` is one pass of the loop in `update`, `Retry` its
beginning, `Feed` the DMA controller. UNPACK is the words it takes and the quadwords it writes, computed from the
formats as in `init_UNPACK`; what it writes is left out.

### JitCache

The memory is an array of words with the sizes at both ends of an object, as in the code, and the free lists
are sequences; `AddToBin`, `RemoveFromBin`, `Shrink`, `MergeFwd`, `MergeBwd` and
`Free` are operators from heap to heap. The loops of `jit_free` and of `flush_all_blocks` are recursive functions of
the number of turns; those of `jit_free` take at most `MaxObjects`, as each turn joins two objects. `Dispatch` is `exec_block_ee`, `InsertBlock` what it does when there is
no block; a flush goes page by page (`FlushPage`), in any order, as the map of pages has none that matters.
`RunJit` enters through the prologue block, which lives in the same heap.

## 3. Runs

| run | checks | bounds, and why they are enough |
|---|---|---|
| `gs_registers` | refinement of `FifoQueue`: no message lost, repeated, out of order or half copied; the copies of the GS's registers agree, a SIGNAL interrupts once | ring of 3 slots (two messages queued while a third is copied), 6 messages: SIGNAL, the CSR writes that acknowledge and reset, IMR opened (a reset closes it), FINISH and its assertion. Both indices wrap, the ring gets full and empty, loads are stale. 2.4 million states; all three are proved for every size and any messages |
| `gs_protocol` | the displayed frame, nothing left over when a frame starts | one GS write queued at a time (`MaxQueued`), 3 answers: two requests in flight meet each other's answers; errors of both threads, resets, spurious wake-ups all on. 12.7 million states. Both are proved for any bounds |
| `gs_frames_keep_coming` | every frame is followed by another | downloads, loaded states, resets. Downloads in the vertical blank and `save_state` are left out because of findings 1 and the first remark |
| `gs_download_wait` | *violated*: `wait_for_return` returns | smallest configuration with a download in the vertical blank |
| `timers` | clocks agree, no late event, exact frames; every cycle counted, next hit planned, no interrupt lost | one timer of 2 bits with ticks of 4 cycles, 2 writes of its registers in any place, the gates 0, 1 and 3 and none, one pending event of a component, two frames. 0.6 million states. All are proved for any timers and writes: the last for the rates whose tick is at least the 8 cycles by which an event may be late, the others for any rates; the first three for `Scheduler` alone too, with any events |
| `emuthread` | stops within a frame, frame advance, lock granted, shutdown ends | every handler, 4 user actions: long enough for a pause, a call, an error and a close to overlap. The first two are proved |
| `dmac` | turns exact, drain behind STADR, withdrawn requests noted, a queued channel served once no request is withdrawn in its channel's own turn | two systems in one run (`MCDmac`). A filler (IPU_FROM) whose request can be withdrawn and a drain (VIF1), slices of 2, packets of 2, addresses to 2: a slice cut short by STADR, resumed, stopped, reconfigured while running. And GIF, IPU_TO and IPU_FROM without stall control, in packets of one quad or none: three channels are the fewest of which two can take turns without the third. `Within` and `StaysSo` keep a behaviour to one of the two and restrict only what programs and tags choose: every call of a `process_` function has an outcome that they allow, so the fairness of `Process` loses nothing. 378 thousand states. The three invariants are proved for any channels and bounds |
| `sif` | both framings, requests follow the FIFOs, bounds, packets arrive | FIFO of 8 words (half is 4: one quadword), slices of 2 quadwords, packets of 0, 5 and 8 words: with junk, without, empty, longer than the FIFO with its tag. All but the arrival are proved for any sizes |
| `gif` | no path lost, PATH3 framed, request kept, FINISH last | FIFO of 2 quads, transfers and DIRECTs of up to 2, three tags (no data with EOP, one quad with EOP, an image of one quad without): full and half-full FIFO, packets over several transfers, interruption inside an image, and a drain stall before any quad. 3.6 million states. All are proved for any transfers |
| `cdvd` | highest channel runs, sectors in order, no stray interrupt, `IopDma` implemented, commands end | a disc of 3 sectors, reads of 1 and 2, all eight kinds of commands, one BREAK at any point, SPU2's second channel above the drive's: a stale event can meet every command, and the bus can be taken in the middle of a sector. 0.4 million states. All but the ending are proved for any disc and any channels |
| `vif` | in step with the words, UNPACK ends with its words, PATH2 left, data requested again | every pair of nine commands, FIFOs of 4 and 2 words, one stop, break or reset: each command meets a full and an empty FIFO and every stall. 202 thousand states. All but the request are proved for any commands, programs and FIFOs |
| `jit_cache` | objects tile the heap and the lists hold the free ones, every record has its code, a flush frees all | 36 words, two bins and the list of the rest, blocks of 3 sizes at 4 addresses of 3 pages that share look-up slots: the heap fills, objects are split, merged on both sides, and change bins. 1.2 million states. All three are proved for any sizes and addresses |

`Careful` is TRUE in `cdvd` and `vif`: programs do not do what the remarks below say goes wrong.

Deadlock is checked except where the system really stops: `GSThread` (the emulation
thread ends after a fatal error and the GS thread after `die`), `EmuThread` (the window
closes and the user is done), `Timers`, where no frame starts after `Horizon`, `GSRegisters`, where the
program has died of a full ring and everything queued is popped, and `JitCache`, where a flush
with a null array has crashed the program.

### Fairness

* `GSThread`: weak fairness of what each thread has begun (`Finishes`, `EventLoop`): the
  operating system runs both threads and nothing outside decides whether a statement in
  progress goes on. Strong fairness of `RunsFrame`: the scheduler's vblank
  events come after a fixed number of cycles, however many writes the game makes in between.
  No fairness for what a game or user may choose to do.
* `EmuThread`: weak fairness of both threads. A `QMutex` has no queue: a thread that waits
  for it gets it only when it stays free. `LockGranted` therefore rests on
  `block_run_loop`, and fails without it (a mutant).
* `Dmac`: weak fairness of `Process`; `Emulator::run` calls `dmac.run` in every slice.
* `Cdvd`: weak fairness of the drive's events (the scheduler calls them after a fixed time) and of its channel's
  `process_` function. `CommandsEnd` itself says what it asks of the program and of the other channel: that the
  drive's channel stays started and has the bus in the end.
* `Vif`: `update` runs in every slice, hence strong fairness of `Turn`, which a stall or a wait disables for
  a time, and weak fairness of `Retry` and of DMA; microprograms and packets of other paths end, and the
  program resumes an interface that has stalled. Nothing says that the program stops it.
* `Sif`: weak fairness of the four `process_` functions, for the same reason, and of the
  programs' restarting of the *receiving* channels. Nothing says that a program starts to send.

## 4. Proofs

Checked by TLAPS with Z3, Zenon and LS4; no step is left out, and the only assumptions
are the named `ASSUME`s on constants in the modules, which TLC evaluates in the runs: sizes are positive, lengths are
naturals, a DIRECT has whole quadwords and at least one, `VblankStart < FrameCycles`, both rings of `GSThread` hold at least one message (`ReturnSize >= 2`), the heap has room for an object of the last bin and the smallest object has room for its
`FreeList` (`BinStart >= 2`), there are finitely
many timers, a counter's width divides the EE's clock, and that clock of 63 bits holds the minimum delay and does not overflow in the frames looked at
(`Settle <= Never`, `Horizon + FrameCycles <= Never`).

| theorem | argument |
|---|---|
| `GSRegisters_proof`: `Invariance`, `TypeCorrect`, `SlotRaceFree`, `PublishedAreWhole`, `Refinement` (of the ring) | The inductive invariant orders the two indices and each thread's stale view of the other around the ring, says that the slots from head to tail hold whole messages, and that a thread in the middle of a copy owns its slot. Without the order of the stale views nothing excludes a push into a slot being read. Refinement maps each store of an index to a step of `FifoQueue`. |
| `GSRegisters_proof`: `CopiesInvariance`, `CopiesStayInStep`, `RegistersUseAQueue`, `RegistersInvariance`, `RegistersTypes`, `SignalsRaiseOnce` | The emulation thread applies only messages, because `push` carries one while it is at work; the GS thread may be given anything. `CopiesAgree` folds over the ring, so the proof keeps in `was` what each queued message found and left, and the two ends of that chain are `theirs` and `ours`: a push adds a link, a pop takes the first. `SignalRaisesOnce` needs that a SIGNAL waits only behind one that CSR shows. |
| `GSThread_proof`: `TypesKept`, `MutualExclusion`, `RequestsInOnePlace`, `PictureOnDisplay`, `NothingLeftBehind` | `Loop` and `Calls` tie the statement each thread is at to what it has in hand, `Locks` gives each mutex to the thread whose statements need it, `Contents` says which messages the queues may hold. While no error has happened (`Live`), `InStep` says that a request is in one place at most: its message not yet sent, in `message_queue`, in the GS thread's hands, its answer in `return_queue`, or popped and about to be put back (`Tokens`, `Hand`). It may be in none: finding 1 loses an answer. Hence `Race`, which names the five ways in which the GS thread's push and `wait_for_return`'s can be at `return_queue` at once and what each leaves in the ring. After an error only `Reset` restores `InStep`. |
| `Scheduler_proof`: `SchedulerInvariance`, `SchedulerTypes`, `ClocksStayTogether`, `NoEventIsLate` | `OnTime` is not inductive: run lengths come from `closest_event_time`, so the invariant adds `ClosestBounds`, which speaks of the middle of a pass too (events before the iterator are bounded by `new_time`, and `closest_event_time` is at most now, so that an event a callback adds is bounded when the pass ends). |
| `Scheduler_proof`: `FramesAreExact` | `FrameInv`: while a frame runs one `vblank_end` waits, at the cycle at which the frame must end (`Blanks`); `OnTime` keeps the clock from passing it and a due event is called at a time that is not later, so it is called at that cycle, when `vblank_start` is past. |
| `Scheduler_proof`: `TimersInvariance`, `TimersTypes`, `TimersKeepTheClocks`, `TimersKeepTheFrames`, `EventsAreOnTime` (of `Timers`) | What happens to the list is of three kinds, each a relation with lemmas of its own: events are added (`Extended`), times of timers' events change in place (`Shifted`), a pass replaces the event it is at by what its callback adds (`Passed`). `TInv` says that each timer has exactly one event, that a paused timer's never comes, and the bounds of `ClosestBounds` for the others; they do not hold of a running timer that a gate controls (`Astray`; see the remarks). That a paused timer's event never comes needs that the EE's clock stays below `Never`: a frame's `vblank_end` is still in the list and time does not pass it (`Ending`). |
| `Scheduler_proof`: `EveryCycleCounts` (of `Timers`) | Each step keeps the distance between a timer's position and its ideal one, shortens it by one period (an overflow), or sets the ideal (`Counts`). |
| `Scheduler_proof`: `NextHitsArePlanned` (of `Timers`) | A lemma on every step (`FollowedNext`) says that a timer is paused afterwards, or its event and its position are what they were (`Held`), or its event is planned anew for the counter as it now is (`Renewed`). `Plans`: a running timer's event comes by its next meeting (`OnPlan`). Bringing the counter up to date moves the meeting only if it is past, and then the event is at most `Settle` away. |
| `Scheduler_proof`: `InterruptsAreNotLost` (of `Timers`) | Needs `Plans` for the step in which a hit becomes owed. `Owes` keeps for each hit (`Pends`) that the event is at most `Settle` away, that the counter last looked at is not past the compare value, and that the timer will still be in that tick when the event comes; so the event takes it for a new one. The last needs a tick of at least `Settle` (`SlowTicks`): the theorem asks it of `Controls`. It is true of the bus clock divided by 16 or 256 (32 and 512 cycles), not of the bus clock itself (2), for which the remarks have a counterexample. |
| `EmuThread_proof`: `EmuTypes`, `LoopStopsSoon`, `AdvanceShowsOne`, `CallsExcludeFrames` | `FramesCounted`: a frame begins only from the statement that tests the reasons to stop, so at most the one under way is begun after they are set. `AdvanceCounted` says the same of single steps, and which of the handler's calls are still to come (`Coming`). `BlockedWhileCalling`: a handler calls the emulator only with the lock. |
| `EmuThread_proof`: `JitInvHolds`, `HeapStaysSound`, `RecordsStayLive`, `FlushFreesTheHeap` (of `JitCache`) | The three invariants speak of the walk over the headers, which no step can be computed on. The invariant (`JitInv`) speaks of a *set* of objects instead: they `Tile` the memory, `Lists` hold the free ones, no two of those are neighbours (`PairsIn`), and the ones in use are exactly the blocks of the records not yet flushed, each with its code (`Holds`); this last gives that a flush frees everything. Each function of the allocator takes such a set to another: `SplitTiles` and `JoinTiles` for the memory, `Removed` and `Added` for the lists, `HeldSame` for the objects it leaves alone. That the walk visits this set (`ObjectsAre`), that `heap_usage` is its sum (`UsageChanges`) and that the loops of `jit_free` end with no free neighbour (`FwdIs`, `BwdIs`) are inductions by the least-number principle. |
| `Dmac_proof`: `DmacTypes`, `TurnsAreExact`, `DrainsStayBehind`, `InterruptFollows`, `WithdrawnIsNoted` | One lemma per operator on the record (what `SetDMARequest`, `CheckForActivation`, `Arbitrate`, ... keep and establish), then one step per action. |
| `Dmac_proof`: `VifInvariance`, `VifTypes`, `WordsStayInStep`, `PathIsLeft` (of `Vif`) | `InStep` says only that no word was found out of place. The invariant (`Kept`) gives every word between the buffer of UNPACK and the DMA controller a place in its command and says that the places follow one another (`Whole`) and that the first is the one the decoder expects (`At`). So a step that moves words keeps it because the whole sequence is the same, and one that takes a word moves the decoder along. Stated for `Careful` programs: without it the remark on FBRST is a counterexample. |
| `Dmac_proof`: `UnpackComesToAnEnd` (of `Vif`) | How many quadwords have read from the input after n writes is a closed form of n, CL and WL (`ReadsOf`), for skipping and filling cycles. The bits seen are then those of the quadwords read, the bits in the buffer and the words to come (`UnpackKept`), and the words that `init_UNPACK` counts are the bits of all quadwords, rounded up. The loop of `handle_UNPACK` is a recursive function; that it has a value, and that it stops only without bits or without quadwords, is an induction on NUM by the least-number principle (`Induct`). |
| `IopDma_proof`: `IopDmaInvariance`, `IopDmaTypes`, `HighestAlwaysRuns` | The turns of a set of channels: its highest has the bus, the queue holds the rest, each once. `find_new_active_channel`, `deactivate_dma` and `active_dma_check` take the turns of one set to those of another; then one lemma per method. `transfer_end` keeps them only if the channel is active or no longer ready, which `Process` gives. |
| `IopDma_proof`: `DriveUsesController`, `CdvdTypes`, `SectorsComeInOrder`, `InterruptsAreAwaited` (of `Cdvd`) | The first is the refinement: each step of the drive is one of `IopDmaSpec` or none, which also gives `Cdvd` the turns (`DriveKeepsTurns`). `DriveGood` says that the sector in the buffer is the next the program waits for and that the command still reads those after it (`InHand`, `Coming`), and which events can still be waiting when a command has ended. Stated for `Careful` programs: without it the remark on BREAK is a counterexample. |
| `Sif_proof`: `SifTypes`, `RequestsAreRight`, `FifosBounded` | One invariant per direction; a step of one leaves the other alone. `Bounded` for SIF0 is not inductive: the request may come back with the FIFO still over its limit; then the IOP is between two packets (`Room0`), and a tag asks for room itself. |
| `Sif_proof`: `PacketsStayFramed` | The word that waits at any place in a FIFO is computed in closed form from where the receiver is in its packet (`Framing0`, `Framing1`), so that no induction over the FIFO is needed: taking words moves the receiver, adding words extends the formula. |
| `Gif_proof`: `GifInvariant`, `GifTypes`, `NoPathForgotten`, `RequestComesBack`, `FinishIsLast`, `MaskIsObeyed` | One lemma per function of the GIF, then one step per action. `PathsKept` carries most of it; `FinishNotEarly` is not inductive without *an idle path has no quad to come*, and `RequestKept` needs that a queued or idle PATH3 finds its request when the GIF comes back to it. `Withheld` is kept apart from the rest (`IInv`): a request taken back by a stall is noted, and a step that clears the note has the request again. |
| `Gif_proof`: `Path3StaysFramed` | `Framed3` computes along the FIFO; `Chain` says the same of each quad and the one before it. That the second implies the first needs an induction, taken from the least-number principle: a wrong place would have a first. |

Some theorems state invariants that no run lists any more (`TypeOK` of these modules, `NoSlotRace`, `MutualExclusion`,
`PublishedWhole`, `OnTime` of `Scheduler`, `Int1Exact`): what is proved for every instance need not be checked on one.

Only model-checked: all liveness (outside the prover). `InterruptNotLost` of
`Timers` at the rate of the bus clock is no theorem: it fails.

## 5. Findings

1. **A download in the vertical blank can hang the emulation thread** (`core/gsthread.cpp:183`).
   `wait_for_return` meets the answer of `render_crt` while it waits for the download, and puts it back on
   `return_queue`. The GS thread pushes the download's answer at the same moment; both have loaded the same
   `_tail` and both store into the same slot. The download's answer is overwritten and the emulation thread waits
   for it for ever: it finds only the message it put back, and sleeps. `circularFIFO.hpp:3` says that the FIFO is for
   one producer. Run `gs_download_wait`.

Remarks, each seen in a counterexample of the module named or read from the code:

* *A saved state can hang the emulation thread too* (`core/gsthread.cpp:378`, and the error path at 441):
  `save_state_t` sets `recieve_data` and notifies without `data_mutex`; an emulation thread between the test of the
  predicate and its sleep misses it. `RequestReturns` fails with `Events = {"save_state"}` as well.
* *A program that dies at once is run on* (`qt/emuwindow.cpp:251`, `EmuThread`): `load_exec` clears the pause
  that the error has just set.
* The window takes the picture's size from the emulation thread's registers at the end of the frame (`core/gs.cpp:218`,
  `qt/emuthread.cpp:247`), the GS thread drew it by its own at the vertical blank: a write in between shows
  one picture with the size of the next. `CopiesAgree` says that nothing more than a delay comes between the two.
* *BREAK while a sector waits for its DMA* (`core/iop/cdvd/cdvd.cpp:558`, `Cdvd` with `Careful = FALSE`): the count of
  bytes is cleared, the transfer that was under way makes it negative, and a READ whose event finds that
  polls every 1000 cycles for ever.
* The event of a command broken off may finish the next one before its time: `NoStrayInterrupt` asks only that
  a command is awaited. A finished STOP stays the active command (cdvd.cpp:217), so a stale event finishes it once more. A read of
  no sectors reads one and wraps `sectors_left` (1105).
* *A flush of the full JIT heap frees the running block and the prologue* (`core/jitcommon/jitcache.cpp:608`, `JitCache`):
  the caller's return address and `prologue_block` point into memory that is free. A page that was looked up
  and never filled has a null `block_array`, which the flush reads (578). `invalidate_ee_page` is never
  called: the test at `ee_jit64.cpp:94` asks for a page below 0x80000 and not below 0x80040.
* *A timer under a gate* (`Timers`): set to 0 by `vblank_end` after the pass has been by its event, it is late by
  up to the next event, because the end of the pass overwrites `closest_event_time` (`core/scheduler.cpp:347`).
  A gate that unpauses a timer plans its event while it is still `paused` (266), and its interrupts do not
  come until the next write.
* A read of a counter between a hit and its event, which may be 8 cycles late, can make the event take the hit for an old
  one (186) when a tick is short: with the bus clock itself the interrupt is lost. A write to a register in that time, when the
  counter is past the tick of its overflow, puts the next event off by minutes (132, an unsigned difference); hence
  the premise on `counter` in `NextHitPlanned`.
* `add_event` with the greatest time, as `create_timer` and `restart_timer` call it, overflows
  `closest_event_time`: the next pass comes at once and finds nothing due. `Never` models it; no event is late for it.
* `V3-32` in filling mode (`core/ee/vif.cpp:751`, `Vif`) wants the first word of the next vector; the last vector is
  written without it, which `UnpackFits` confirms. FBRST's force break in the middle of DIRECT leaves PATH2 the
  owner of the GIF (1095); its reset leaves `internal_FIFO` filled and gives no DMA request back (1109-1134).
* `process_SIF0` keeps the junk it owes in a static (`core/iop/iop_dma.cpp:170`), which neither a reset nor a
  saved state knows of; enabling a channel in DPCR forgets the end tag it has read (392).

* A non-fatal error is emitted before its pause is set (`emuthread.cpp:265-266`), and the window
  clears the pause when the message box closes (`emuwindow.cpp:725`): in the other order the
  pause outlives the box until the next message.
* *A channel of the DMA controller can be passed over for ever* (`core/ee/dmac.cpp:1823`, `Dmac`): with `Served` in place of
  `ServedIfKept` the run `dmac` fails. A peripheral that withdraws its request while it is fed has its channel
  replaced by the next at once (`deactivate_channel`). When the same call then comes to the end of the packet, `arbitrate`
  replaces that one too, before it was served. GIF and IPU_TO do so in turn (each FIFO is full at the end of a packet)
  and ask again in time; IPU_FROM stays queued and ready and never runs. With two channels nobody starves.
* `send_SIF0_junk` copies 4 bytes per word from memory the receiver ignores (`sif.cpp:151`);
  the model makes the junk recognisable. With the code's sizes the FIFOs reach 35 words
  (SIF0) and 47 (SIF1) against a stated maximum of 32.
* A drain that is started at STADR on an idle controller is queued and not looked at
  until another channel ends its turn (`core/ee/dmac.cpp:1732`, 1776-1785).
* A GIF reset while PATH3's FIFO is full leaves its DMA request withdrawn: only a write of the
  processor to the FIFO gives it back. The same write is what the first DMA after a boot
  waits for, since `DMAC::reset` withdraws the request (hence `asked` in `RequestKept`).
* A GIF channel that has stalled as a drain gets its request back only from `update_stadr`, which looks at
  the channel that `D_CTRL.STD` names *then* (`core/ee/dmac.cpp:1734`): a program that changes STD in between leaves the
  request withdrawn with room in the FIFO. `RequestKept` asks no more than that the stall is noted.
* A queued, idle PATH3 that is masked after PATH1's EOP leaves the queue without FINISH being
  asserted and with OPH still set, until the next packet ends.
* `EmuThread::load_state` and `save_state` return the opposite of what `emuwindow.cpp:784` and
  801 test; the return value reaches a message box only.

## 6. Not modelled, and why

Instruction semantics (EE, IOP, VU, both recompilers), the rasteriser, IPU decoding and SPU
mixing are sequential computation whose specification is a hardware manual. They are most of the
program, and with the libraries under `src/ext` (FLAC, chd, and others) nearly all of its lines. Disc
images, settings and dialogs are I/O. Of the modelled components: GS dumps and memory dumps,
`delete_event` (which nothing calls), the memory FIFO of the DMA controller and
the layout of tags, the SIF's flag registers, what a save state's bytes are, the timers on the
horizontal blank, S commands and the decryption of the drive, masks and modes of UNPACK, the reversed
FIFO of VIF1, the VU's variant of the JIT cache, BUSDIR and
the FIFO status of the GS. Not begun, although they have state worth a module: `INTC`'s polling speed-up, SIO2 with pads and memory cards, the
SPU's DMA and interrupt address, the FIFOs of the IPU, the IOP's timers.

## 7. Plan

1. `Intc` (polling speed-up, delayed checks); a saved state of the GS's registers, which `load_state` gives to both threads.
2. MFIFO and source chains in `Dmac`, composed with `Vif`.
3. Abstract specifications: a channel of packets that each direction of `Sif` implements; a
   "remote procedure" that `GSThread`'s requests implement.
4. `Sio2`; the IPU's FIFOs.

To check by hand: `tlc -config MCSif.cfg MCSif`, `tlapm Sif_proof.tla`, and so on.

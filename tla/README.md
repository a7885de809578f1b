# A verification development for KLH10

KLH10 emulates DEC's PDP-10 processors (KL10, KS10) and their peripherals on a Unix
host. This directory holds TLA+ models of the parts of it that are hard to get right and hard
to test: the asynchronous machinery between the instruction loop, the host's signals, the clock
and the device subprocesses; the disk and its controller; the instructions that can be stopped
half way; and the arithmetic. TLC checks them on small instances; TLAPS proves
the safety properties of the CPU's two request mechanisms, the clock queue, the network link and the disk for
every value of their constants.
The reference is the C source under `src/`; the KL10 build on a native Unix host is meant
throughout (not the Emscripten build, which has no subprocesses and no signals).

## 1. Inventory

| Component | Source | State | Operations and interaction | What is hard; what makes it correct |
|---|---|---|---|---|
| CPU loop, pending breaks | `kn10cpu.c`, `kn10def.h`, `osdsup.[ch]`, `fecmd.c` | `mr_insbreak` and one `osintf_t` per source (0 clear, 1 raised, 2 in handling), trap flags, PC | `apr_hop` tests `mr_insbreak` before each instruction; `apr_check` visits each flag; signal handlers raise them | A signal may land between any two loads and stores. Correct: nothing raised is left without a break. |
| Device events | `kn10dev.c`, `dpsup.[ch]` | lists of signals and of registrations, an event word per registration in shared memory | subprocess raises the word and `kill`s; `dev_sighan` flags; `dev_evcheck` walks | Signals merge; words are raised at any point of the walk. Correct: every report reaches its handler. |
| PI system, APR, interval timer requests | `kn10cpu.c`, `kn10dev.c`, `dvrh20.c`, `dvdte.c`, `kn10pag.c` | levels on, in progress, programmed; requests of devices, groups, APR and timer; their sum | `CONO PI`, `CONO` of each device, `pi_devupd`, `pi_check`, `pi_xct`, `pi_dismiss` | Four layers of cached requests, each updated only by whoever thinks it changed. Correct: caches agree, no interrupt is lost, levels nest. |
| Clock queue | `kn10clk.[ch]` | a delta-coded list of timers | get, set, activate, quiet, kill, change of tick, callouts | A callout uses the queue that is being walked. Correct: equivalent to independent timers. |
| Subprocess link (DP) | `dpsup.[ch]` | two shared buffers, each with a ready flag; event words; pids | start, stop, send, receive, acknowledge, sleep | Two processes, lost wakeups, reset with a message in hand. Correct: one owner per buffer, no sleep through a wakeup. |
| NI20 Ethernet port | `dvni20.c`, `dpni20.c` | port state, queue entries, deferred work, check timer, address | CONO, command and free and response queues under an interlock, done and wake events | Three processes and the monitor's interlocks. Correct: no packet, entry, command or address change is forgotten. |
| RP disk | `dvrpxx.c`, `dprpxx.c`, `vdisk.c` | drive registers, transfer in progress, subprocess command, delay timer, pack | register writes, transfer loop in pieces, done events, mount, clear | A piece may fail in the middle, the pack may end, list, buffer and sectors do not divide each other. Correct: words move once, in order, at the right place, and the transfer ends once. |
| RH20 and channel | `dvrh20.c` | primary and secondary transfer registers, conditions, command list | CONO, DATAO, DATAI, attention, end of transfer, stacked transfers | A second transfer is queued while the first runs, acknowledged or discarded at any point. Correct: one report per transfer, every condition announced. |
| DTE20, console | `dvdte.c`, `dvcty.c` | packets, doorbells, keep-alive, input polling | to-10 and to-11 doorbells, timers | Bounded packet pool; front-end mode switched by a character. |
| RH11, Unibus | `dvrh11.c`, `dvuba.c` | as RH20, KS10 | | |
| TM03 tape | `dvtm03.c`, `dptm03.c`, `vmtape.c` | as RP disk, plus position and file marks | | Retry and end of tape. |
| IMP, CH11, DZ11, lights, host device | `dvlhdh.c`, `dvch11.c`, `dvdz11.c`, `dvlites.c`, `dvhost.c` | | further clients of DP and of the I/O buses | |
| Pager | `kn10pag.c` | page map caches, fault word | refill, `io_swp` | |
| Restartable instructions | `inexts.c`, `inmove.c`, `inbyte.c` | ACs, memory, byte pointers, First Part Done | strings, decimal conversion, EDIT, BLT, XBLT, byte instructions | Page fails and interrupts at any turn; only the ACs last. Correct: same result as in one go. |
| Arithmetic | `kn10ops.c`, `infix.c`, `inflt.c`, `inblsh.c` | ACs, memory operand, PC flags | fixed point, shifts, floating, double floating | Largest negative numbers, ties, counts beyond the word, exponents out of range. Correct: the rounded exact result, and flags exactly when it does not fit. |
| Other instructions | `inhalf.c`, `intest.c`, `injrst.c`, `inio.c` | | moves, tests, jumps, I/O | one step each, no cases worth a model |
| Command front end, loaders | `klh10.c`, `fecmd.c`, `feload.c`, `prmstr.c`, `wfio.c` | | parsing | |
| Utilities, contributed programs, browser page | `vdkfmt.c`, ..., `contrib/`, `build/wasm/` | | | |

How they meet: devices and the clock never interrupt the CPU. They set a flag and
`mr_insbreak`; the loop comes to `apr_check`, which runs device event handlers, clock callouts and,
last, `pi_check`/`pi_xct`. A device event handler may raise a PI request (`dev_pi`), start the
subprocess on the next command, or start a timer. So `InsBreak` brings the CPU to
the event handler, `NiLink` and `RhDisk` are what such a handler and its subprocess do, `ClockQueue`
is what happens when the flag is the clock's, and `PiSystem` is how the handler's result
reaches the PDP-10 program. `LongInstructions` is the other side of the same break: the
instructions that look for it themselves and stop. `Arithmetic` stands alone.

`PROJECT.json` lists under "hazards" what is hard to test here, line by line, and which
property would notice it going wrong.

## 2. Modules

| Module | Models | Run by | Proved in |
|---|---|---|---|
| `InsBreak` | `apr_hop`, `apr_check`, `apr_halt`, INTF macros, `os_swap`, signal handlers, `dev_evcheck`, a subprocess's report | `MCInsBreak` | `InsBreak_proofs` |
| `PiSystem` | PI system, APR, timer and device requests | `MCPiSystem` | `PiSystem_proofs` |
| `ClockQueue` | the itick queue and `clk_synctimeout` | `MCClockQueue` | `ClockQueue_proofs` |
| `TimerService` | abstract: independent timers | implemented by `ClockQueue` (`KeepsPromise`) | `ClockQueue_proofs` |
| `NiLink` | NI20 port, processes W and R, DP link | `MCNiLink` | `NiLink_proofs` |
| `Mailbox` | abstract: one buffer with one owner | implemented twice by `NiLink` (`ToOwned`, `FrOwned`) | `NiLink_proofs` |
| `Rh20Channel` | the RH20's side of a transfer and the command list, as operators on a record | `RpDrive` | `RpDrive_proofs` |
| `RpDrive` | the drive: registers, transfer loop, events, as operators on a record | `RhDisk` | `RpDrive_proofs` |
| `RhDisk` | controller, drive, subprocess, monitor and operator together | `MCRhDisk` | `RhDisk_proofs` |
| `Transfers` | abstract: a transfer under way, one waiting, one report each | implemented by `RhDisk` (`KeepsPromise`) | `RhDisk_proofs` |
| `BytePointers` | the clean pointers of the string instructions | below | |
| `StringSteps`, `DecimalSteps`, `EditSteps`, `BlockSteps` | one turn of each instruction's loop, as operators | `LongInstructions` | |
| `InstructionEffects` | reference: what each instruction does in one go, on whole strings and blocks | `LongInstructions` | |
| `LongInstructions` | tries, turns, traps and restarts | `MCLongInstructions` | `LongInstructions_proofs` |
| `FixedPoint`, `FloatingPoint` | the operations of `kn10ops.c` on words of any size | `Arithmetic` | |
| `Arithmetic` | the instructions, and what they should compute, in integers | `MCArithmetic` | |

`NatInduction` holds facts about the natural numbers, and about functions on them defined by recursion, that the proofs of
`ClockQueue`, `RpDrive` and `LongInstructions` use.

A definition whose name ends in `_Something` and whose comment begins with "Mutant" is a plausible
bug of the definition it is named after; no specification uses it. Each property has one that breaks it.

### InsBreak
The grain is one load or store of a flag, because a signal may fall between any two. `pc` is the
place in `apr_hop`, `apr_check` or `dev_evcheck`; `flag` holds the `osintf_t` words;
`tmp` is the local of `os_swap` when it is not indivisible; `pol`, `si`, `di` are the cursors
of the loops over polled flags, signals and registrations. Handlers run on the CPU's thread and
are one step. A subprocess's report is three steps (publish, raise the word, `kill`). What an
instruction or a handler does to flags, PI and traps is `Effect`.
Abstracted: what device handlers do with the event; the order of the polled flags is a
constant; paging is on (so traps may happen); address break, one-proceed and the Emscripten
per-instruction poll are left out.

### PiSystem
One instruction, device callback or pass of `apr_check` is one step. A mask is a set of levels.
`dev[d]` has the condition that always interrupts (command done, attention gated by MBAE), an RH20's register
access error `rae` and `draes`, which masks it, the channel and the request; `grp` the two masks per group; `dreq` their sum. `PiDevupd` decides as `pi_devupd` does
whether to set `insbreak`; everything else must call it. `TimTick`/`CoTim` are the interval timer, `WrApr`/`AprFlag` the
APR, `DevCono`/`DevRaise`/`DevLower` the devices. `Datai` and `Datao` are an RH20's external registers: a read or write fails, a write may also start a
transfer that ends at once or drop an attention, and any DATAO replaces `draes`. `rh20_datao` does that (`dvrh20.c:391`) without a call of
`rh_picheck`, so an error that stood masked may become one that interrupts and is not requested: `Unheard`. `RequestsAgree` excepts
exactly that state, and `OnlyUnmasking` says that nothing else leads to it. `PiXct` enters the level found, or, when
`DiagSkip`, leaves by the path for diagnostic interrupt words that skip.
Left out: the DTE's byte transfer interrupts and "increment" function (no device in the tree asks for one), KS10 variants.

### ClockQueue
The list is a sequence of timers with ticks relative to the timer ahead. `Synctimeout` is the entry
of `clk_synctimeout` (count down the head), `Callout` one turn of its loop: it saves the successor,
runs the routine (which may activate timers in `Nested`), and links according to the answer. The
interface calls are one action each. `Remaining` (the sum up to the entry) refines `left` of `TimerService`.
`CLKEVH_RET_NOP` is returned by no client and is left out; so are the
every-tick list (`clk_itmrget`), and the instruction-counted clock.

### NiLink
`box["to"]` and `box["fr"]` are the two `dpx_s`; `ctl` is what the KLH10 still has to do before the
next instruction, as a stack of labels, so that other processes' steps fall between parts of
one event walk; `W` and `R` are the subprocess's two processes. `dp_xsend` stores command and ready
flag in one step of the KLH10, the `kill` is a step of its own, and the subprocess's flag and `kill` are steps of their own.
`relink`/`limbo` are the queue entry that could not be linked and the entries that are on no queue; `locked`
are the interlocks that the monitor holds, fixed while the KLH10 is between instructions. The `tag` in a
buffer is a history variable that tells a message from one written over it. Abstracted: a signal
is delivered in the step that sends it; fork and storing the pid are one step, as is killing both processes;
a write that fails or is short makes W start over without an acknowledgement, or exit, its 50 tries used up (`WFail`, in which the count is left out), and R may exit likewise (`RGiveUp`); a CONO with several bits is that many successive actions;
packet contents, tables and counters. `Patient` describes a monitor that enables and stops the port only when
nothing is queued or in the to-buffer, and queues only to an enabled port. The module also states `EntryRemembered` and
`AdrKnown`, which are not run: see section 5.

### Rh20Channel, RpDrive, RhDisk
All of the KLH10's code runs on one thread, so a register write, a clock callout or an event handler is one
step, however many functions it goes through: `Rh20Channel` and `RpDrive` give what each function leaves of a record, and the
actions of `RhDisk` apply them. The calls between drive and controller (attention, `iobeg`, `iobuf`, `ioend`, `drerr`)
and the calls of the transfer loop keep their order, because each may change what the next one tests. The subprocess takes
three steps: do the command, acknowledge, report. A sector address stands for cylinder, track and sector.
`h` is history: what has been moved, as pairs of disk word and channel word, from which `RightPlace` and
`KeepsPromise` read what happened. `Tidy` drops the variables of a transfer that is over, which the code leaves and
sets again before it reads them. `sscattn` in `dprpxx.c` has no caller, so the subprocess never sends anything by itself
and `rpxx_evhrwak` is never entered.
`Patient` and `Waits`, explained at the head of the module, are what the monitor and the operator are trusted to do. Without
`Patient` (a clear or a discard while a transfer runs) `NoPanic` and `TransferCarried` fail: the code clears the drive, but not the
piece the subprocess has. The source says of that place only "Stop and flush any in-progress xfer?", so this is a
condition of the run and not a finding.
Left out: more than one drive, error bits but the composite one, write lock, volume valid, maintenance, offset, formats, the status words the
channel stores in the EPT.

### LongInstructions and the modules below it
`Begin` is what an instruction does before its loop, `Turn` one turn, `Leave` the way out, where ACs and pointers are stored and
the trap is taken. In each turn one thing may be out of memory (a data word, an indirect word, a fill, a table or pattern
word, the mark) and an interrupt may be waiting. All that passes from a try to the next is memory and ACs. The state predicates compare
with `InstructionEffects`, which is written over whole strings and blocks, not turns: `Effect` of the ACs left by a stopped try must be the effect asked for at first (`Resumable`).
The reference follows what the comments of `inexts.c` promise. In three cases the code does otherwise (section 5); `Departs` names them, and `AllAtOnce` is an equivalence: the outcome is
the reference's if and only if the instruction is none of them, so that a change of the code in either direction breaks it.
Abstracted: bytes are values and words tuples of them; a pointer's formats are local, global and two-word, with indirection one level
deep; radix, offset and tables are constants. The mark is one word. Left out: overlapping strings (a destination word that is also a cached source word
stays stale in the cache, so MOVS differs there from a byte by byte move), EXCHMD through indirect pointers, BLTUB and BLTBU (KS10; `&&077` there looks like a slip for `&077`).

### FixedPoint, FloatingPoint, Arithmetic
`FixedPoint` has the word size as a parameter, `FloatingPoint` also the exponent size; the code's 36 and 8 are one instance. Halfwords
and the 16-bit digits of multiplication are how the C code holds a word and are left out; every test, special case
and order of normalizing, rounding and putting the exponent back is kept. `Arithmetic` runs one instruction on each operand and compares
with integers and fractions. `Nearest`, `Below` and `Within` state a rounding without computing it: by the error's size and sign.
`DoubleRight` asks for the nearest double in all four operations. Its one exception, `Forgotten`, are the sums whose fourth word `dfad` loses (section 5): of these it says
that the result is not the nearest, and is what the first three words round to.
Left out: G format, FADL, UFA, DFN and FDVL, the KA10's variants, unnormalized operands; immediate and memory modes but for fixed point.

## 3. Runs

| Run | Instance and bounds | Result |
|---|---|---|
| `insbreak_atomic` | two registrations on one signal (a disk's done and wake), polled flags `ctyio` and `clk`, `os_swap` indivisible, fairness | passes: `TypeOK`, `BreakPending`, `EventCarried`, `EventHandled` |
| `insbreak_swap` | the same, `os_swap` as coded | `BreakPending` violated: a signal between the load and the store is lost |
| `pi_all` | 2 levels; an RH20 on any channel, an NI20 in its group on 1, a DTE on 2; APR and timer on 0 or 1; CONO PI selects one level at a time | passes: `TypeOK`, `RequestsAgree`, `NoLostInterrupt`, `NoSpuriousPanic`, `Nests`, `OnlyUnmasking` |
| `clock_all` | NI20 check timer (interval 1), echo timer started by its callout and keep-alive (3), one client with intervals 1 to 3 and the whole interface, ticks of 1 and 3 usec, fairness | passes: `TypeOK`, `Linked`, `HeadDue`, `KeepsPromise`, `KeepsFiring` |
| `ni_serve` | one address, one command queued at a time, one start, writes that fail, fairness | passes: `CommandServed` |
| `ni_link` | two addresses, address changes, two starts, the free queue's interlock, patient monitor | passes: `TypeOK`, `SleepersWake`, `PacketRemembered`, `ToOwned`, `FrOwned` |
| `ni_restart` | two starts, fairness | `StartCompletes` violated: the from-buffer stays full over a restart |
| `disk_xfer` | 2 sectors of 2 words, buffer of 1 sector; 4 command lists; reads and writes of 1 and 2 blocks, one for a missing drive; patient monitor, waiting operator, fairness | passes: `TypeOK`, `SlaveQuiescent`, `NoPanic`, `TransferCarried`, `RightPlace`, `Announced`, `KeepsPromise`, `TransferEnds` |
| `disk_mount` | the same with an operator who does not wait | `NoPanic` violated: mount and transfer both send the subprocess a command |
| `instructions_all` | 7 words of 2 bytes of 5 values, radix 3, strings of up to 4 bytes, fairness | passes: `TypeOK`, `Resumable`, `AllAtOnce`, `Advances`, `Finishes` |
| `instructions_zeros` | conversions of 3 and 10, which have inner zeros in radix 3 | `AllAtOnce` violated: the restart drops a zero |
| `arith_all` | fixed point: all words of 6 bits; floats of 12 bits, 5 of exponent; doubles of 10-bit words, 4 of exponent | passes: `TypeOK`, `FixedRight`, `ShiftRight`, `FloatRight`, `DoubleRight` |

Why the bounds are enough to be interesting. Two registrations on one signal make signals
merge and the walk pass one registration while the other is raised; two polled flags give one
before and one after any point. Two levels give nesting, masking and equal rank; two devices in one group
may share a bit of its mask, which is where a cached group mask can go wrong, and the RH20 may move to and from the other's channel; the APR and the
timer, which monitors give one channel each, are on the higher one. In `clock_all` four timers give an insertion in the middle, equal and distinct counts, and an
interval that a longer tick rounds to zero. It depends on its intervals: a timer activated by a callout must not go off before the successor that
`clk_synctimeout` has saved, or it is cut out of the queue; no timer is less frequent than the echo timer, as in the code. In `NiLink` one start and one command suffice for every
interleaving of the handshake; two starts for what a stop leaves behind. Where two dimensions of a
bound would multiply the states beyond minutes the runs split them.

`disk_xfer`: with a buffer of one sector a two-sector transfer takes two pieces, so that an error or a stacked transfer falls between
pieces; two sectors make every second transfer run to or over the end of the pack. The lists have whole sectors and more words than asked for; a direct
piece with a rest, and a jump; skipping, then copying, then no list; a count of zero, then a reverse word. `MCConos` are the five sets of CONO bits monitors give together.
`instructions_all`: with two bytes to a word every string crosses words and every byte is first or last in its word; pattern words of two commands do the same for EDIT; one
missing thing at a time is enough as every turn chooses anew. The numbers converted have no zero digit after the first: those are `instructions_zeros`.
`arith_all`: nothing in the algorithms depends on 36 but that fractions are longer than exponents (`SizesAssumption`). All pairs of fixed-point words are run; doubles and quads are made of words
at the ends and middle of the range; counts go to -14 and 14, beyond twice the word; floats are 8 exponents at both ends and around the middle, with 6 fractions, of both signs; `Gap` keeps exponents of added operands within 13 of each other, more
than a word, since the reference aligns them in TLC's 32-bit integers. The instructions stop after one step.

`CHECK_DEADLOCK FALSE` is in the `NiLink` configurations (a monitor that has halted the port and used
its starts has nothing left to do), and in those of instructions and arithmetic, which end. Symmetry is used in runs without liveness.

Fairness. `InsBreak`: the CPU thread runs, the host delivers signals, a subprocess that has begun to
report finishes. `EventHandled` has a premise, `Leaves`: the do-while loops of the INTF macros are not
kept busy for ever by a signal in every pass, which the ratio of pass length (microseconds) to clock
period (milliseconds) justifies. `ClockQueue`: the interval timer keeps ticking and callouts return.
`RhDisk`: an armed delay timer goes off, a raised event is handled, the subprocess takes its next step.
`LongInstructions`: the processor goes on, and what is missing comes in, so that tries and turns with nothing missing recur; an interrupt may be waiting at every look
(but for BLT, which looks before it moves: some look finds none). `Arithmetic` has no liveness.
`NiLink`: all three processes are scheduled (weak fairness); events and the check timer, which are enabled
only between instructions, get strong fairness, because the CPU comes to them again and again. `WExec` gets strong fairness against `WFail`: a write tried again and again succeeds in the end or W exits, because all
failures but an interrupted call are counted down to `efatal`. `CommandServed` is over when W has exited too. Nothing is assumed of the monitor, the network or the operator.

## 4. Proofs

`InsBreak_proofs` (for any devices, signals, registration lists and polled flags; assumption
`AtomicSwap`, without which `insbreak_swap` shows the result false):

* `TypeCorrect`, `NothingUnannounced` (`BreakPending`), `NoEventStranded` (`EventCarried`).
* `BreakPending` speaks of instruction boundaries and is not inductive. The invariant `BInv` adds
  `PassOK`: while a pass is under way `mr_insbreak` is 2 or 1, and while it is 2 every source already
  visited is clear; and `TrapOK` for the trap taken after the flags. `TInv` adds to `TypeOK` that the cursors are within their lists
  where they are used. The step lemmas are grouped by kind of action: moves of the
  cursor, ends of INTF loops, handler bodies, and actions of the outside.
* `EventCarried` is inductive given `TInv`: the lemmas show that each step of the walk that removes one carrier of a raised word provides another.

`PiSystem_proofs` (any number of levels and devices, any channels):

* `TypeCorrect`, `CachesAgree` (`RequestsAgree`), `InterruptAnnounced` (`NoLostInterrupt`, when the
  diagnostics' interrupt words are not used), `PanicsAreDead` (`NoSpuriousPanic`), `LevelsNest` (`Nests`), `ErrorsHeard` (`OnlyUnmasking`).
  `CachesAgree` excepts `Unheard` errors; `ErrorsHeard` says where one can come from.
* The invariant is `TypeOK /\ RequestsAgree /\ (DiagSkip \/ NoLostInterrupt)`. `HasTop` (every nonempty set of levels has a highest,
  from well-ordering of the naturals) and `PiCheckFact` characterise what `pi_check` returns;
  `DevupdFact` says that after `pi_devupd` the break is set if anything is to be taken;
  `PifunOnFact`/`PifunOffFact` that the group functions keep mask and requests equal. Then one lemma per action.
* `LevelsNest` is an action property derived from the same invariant: the level entered outranks all in progress because `pi_check` compares them.

`ClockQueue_proofs` (any timers, intervals and tick lengths of the types the module assumes, if `NestedAssumption` holds):

* `TypeCorrect`, `LinkedAlways` (`Linked`), `HeadDueAlways` (`HeadDue`), and the refinement `QueueKeepsPromise`: every step of
  the delta-coded queue is a step of `TimerService`, or a stutter.
* Everything is said of `Left`, the sum of the ticks up to an entry; the lemmas about insertion and deletion say
  that they change nobody else's sum. The invariant adds to the three properties `Current` (each interval was converted with the present tick) and `KeepAliveSoon` (the
  keep-alive goes off before any timer a callout could start). The second is what keeps `clk_synctimeout`'s saved pointer good:
  without it `Linked` is not inductive.
* `NestedAssumption` (at the head of `ClockQueue`) is what the code's timers satisfy: the only callout that starts a timer is the NI20's, the timer it
  starts is no shorter than the keep-alive, and nothing is longer. Its last part excludes the 3 s timer of `fe_shutdown` (`klh10.c:591`). If such a longer timer
  is ahead of the keep-alive after a change of tick length, TLC finds `Linked` violated.

`NiLink_proofs` (any commands, queues, addresses, number of starts):

* `TypeCorrect`, `NobodySleepsOn` (`SleepersWake`), `NothingForgotten` (`PacketRemembered`), and the two refinements of `Mailbox`: `FrKeepsPromise` for any monitor,
  `ToKeepsPromise` for a `Patient` one (for the other, `ToOwned` is false: section 5).
* `Base` is `TypeOK` and `Shape`, which says what can be on the list of what the KLH10 has left to do (`ctl`); without it an enable and a stop could
  be under way at once and nothing about a buffer would be inductive. `FrInv`, `FirstRun` and `ToInv` say who may touch which buffer when.

`RpDrive_proofs` and `RhDisk_proofs` (any sector, pack and buffer size, channel lists, requests, commands and CONO bits; hypotheses `Patient` and
`Waits`, without which `disk_mount` and the remark under `RhDisk` in section 2 show the results false):

* `TypeCorrect`, `QuietBeforeResults` (`SlaveQuiescent`), `NeverPanics` (`NoPanic`), `NoTransferLost` (`TransferCarried`), `WordsInPlace` (`RightPlace`), `AsksWhenItMust` (`Announced`),
  and the refinement `PromiseKept` (`KeepsPromise`): every step of controller, drive and subprocess is a step of `Transfers`, or a stutter.
* `RpDrive_proofs` states what each function of the drive and the channel returns. Its central facts are that a piece given to the subprocess lies on
  the pack, that a direct piece's words fit into what the channel has left (so that `rh20_iobuf` does not panic afterwards), and that
  what was moved continues what had been moved before; the copying loop of a piece is one induction, by hand.
* `RhDisk_proofs` has one invariant for all seven, `Inv`: `Good` (types, no panic, who carries the transfer, where its words go), `Slave` (subprocess, command, event and
  `rp_state` agree), `Asks` (the request is right), `Tidied`, `Books` and `Dropped`. They need each other: that a done event finds its transfer rests on `Slave`, that no command meets a busy
  subprocess on `Carried`, and that words are in place on both.
* For the refinement `Books` adds what a report of success rests on: words taken from the channel and words still to move add up to the size of the transfer (`Accounts`), the words moved carry
  the channel's words in order and are padded with zeros only if it ran short, and that is remembered as an error; `Dropped` says that nothing is left of a transfer that is over.
  Each handler shows the program one of four things (`Offers`): the transfer under way goes on, unnoticed or not, or ends (`Worked`); a new one is loaded (`Loads`); the waiting one begins or is refused
  (`Answered`); or it is given up. `ServesFact` maps each to its step of `Transfers`. TLC checks `Inv` on the instance of `disk_xfer`. Handlers are functions, so the lemmas are about two states `s` and `t`; one lemma per action comes last.

`LongInstructions_proofs` (any memory, pointers, patterns, translation tables, numbers and pages). The instructions are those of `Starts`, of which is assumed
that an EDIT's pattern is given up to the STOP that ends it (`PatternsAssumption`), that BLT fills only memory there is (`BlocksAssumption`), that a byte
that is used without an increment is in its word, and that only ILDB and IDPB are met with First Part Done set (`BytesAssumption`), and that strings are in memory, with
both fill bytes after E0, and what is moved to is neither among what is moved nor the same byte twice (`StringsAssumption`; a string moved over itself is read after
some of it is written, in one go as well, and `Text` and `Laid` say nothing of that):

* `Progress` (`Advances`): a try that an interrupt stops leaves less to do in the ACs than it found there, so interrupts alone cannot keep an
  instruction from its end. BLT is the exception, since it looks for an interrupt before it moves its first word (section 3).
* The invariant `PInv` says of a try under way (`Under`) that what is left of it, `Rest`, is never more than what was to do when it began, and less once an interrupt has been
  seen. `Rest` is not the same for all: a conversion to text counts digits or padding, one to decimal the bytes still to read, EDIT the commands of
  the pattern. There is one lemma per kind of turn, each saying what the turn changes and how far it gets; that a conversion's remainder has no more digits than were counted
  needs the powers of the radix, a recursive function, about which `RecursionOnNat` of `NatInduction` gives the two equations.
* `SameAgain` (`Resumable`) and `SameAtLast` (`AllAtOnce`) for the instructions of `Untranslated`: MOVSLJ, MOVSRJ, MOVSO and CMPSx, BLT and XBLT, the four byte instructions,
  IBP and ADJBP. The second is the equivalence, with `Departs`: a MOVSRJ with no destination and a MOVSO that meets an oversize byte never end as the comments say, all others always do. Their invariant `ServedInv` says of a try at every turn, and not only between tries, that its memory and what it would now store in the ACs ask for what the first ACs asked for; when it has come to its end
  they are that. For blocks this is that moving one word and then the others, from the next addresses, is moving all of them (`ThroughUnique`: there is one
  sequence of memories a block goes through, whichever way it is defined); for bytes that the position of a pointer in bytes grows by one whether the increment stays in the word or leaves it.
  For strings it is the conjunction of two things. The clean pointers of a try (`Live`, `Keepable`) are as far into the strings as the counts say (`Spot`, `OnStrings`), also after a read
  has been taken back or an indirect word turned out to be missing; a page fail between the read and the write (`Deposit`) is the case that needs it. And the text to be put is said of a
  function on all of `Nat \ {0}` (`LeftText`, `RightText`), so that what is left of a move is the tail of the text (`TailOf`) put one byte further (`PutOn`, `SentOn`), up to the first
  byte that does not fit (`Outcome`, `LeastDown`); `AskedIs` says that this is the effect on whole strings. MOVSRJ also passes over what has no room (`xadjbp`, `PassFact`), and asks for the
  same before and after (`AskedMoved`). `CompareShift` is the like for CMPSx: comparing what is left is comparing all, when what was passed is equal.

Only model-checked: `TypeOK` of `LongInstructions`, its `Resumable` and `AllAtOnce` for MOVST, conversions and EDIT, the invariants of `Arithmetic`, and all liveness properties (`EventHandled`,
`KeepsFiring`, `CommandServed`, `TransferEnds`, `Finishes`). Liveness under fairness is out of the prover's reach, and so is induction over data in general: no installed prover can instantiate
an induction theorem's operator. A particular recursive function can be reasoned about by hand, with the two facts of `NatInduction` about sets of numbers
(`SumUnique` in `ClockQueue_proofs`, `CopyLoopFact` in `RpDrive_proofs`, `ThroughUnique` in `LongInstructions_proofs`), and that is how far it goes here; the reference effects of
conversions, translations and EDIT, which are recursive over a text or a pattern, and the division steps are left to TLC.

## 5. Findings

Four runs end in a violation; `PROJECT.json` quotes for each the comment that the code contradicts.

* `insbreak_swap`: `os_swap` is not indivisible although `apr_check` relies on it.
* `ni_restart`: `dp_stop` and `dp_start` do not reset the shared buffers.
* `disk_mount`: an operator's mount and a program's transfer can both send the subprocess a command, and `rp_dpcmd` panics.
* `instructions_zeros`: a restarted CVTBDx counts the digits of the remainder afresh and loses inner zeros.

Four more contradict a comment in a case that the property of a passing run names as its exact exception: what the comment says holds if and only if the case is not met.

* `AllAtOnce`: MOVSRJ with an empty destination leaves the source length in AC (`inexts.c:1592`), which the comment at 1569 says is always 0.
* `AllAtOnce`: MOVSO stops past an oversize byte (`inexts.c:1389`), so that a retry goes on; the comment at 165 says that it is backed up.
* `AllAtOnce`: CVTDBT stops at a translated digit above 9 (`inexts.c:2131`), which the comment at 219 says is not tested.
* `DoubleRight`: `dfad` takes a fourth word for rounding (comment at `kn10ops.c:2772`), but its general case ignores it for negative sums (`kn10ops.c:2921`): 003400000001,1 DFAD 727400000000,0 is one unit off.

Observed while modelling, without a run of their own:

* `ni20_ldmcat` sends SETMCAT without asking for the buffer, over a datagram queued before the port was enabled (a monitor that is not `Patient` violates `ToOwned`).
* Two entries that cannot be linked in one `ni20_run` share one memory (`dvni20.c:2867`; `EntryRemembered` fails), and the done event looks at the command now in the buffer (`dvni20.c:2976`; `AdrKnown` fails).
* A DATAO that unmasks a register access error does not request its interrupt (`dvrh20.c:391`); the next CONO, or the next error, does.
* Once W has exited, a stop of the port waits for ever for the to-buffer in `dp_xswait`, and the KLH10 with it, although the comment at `dvni20.c:794` means to skip the message if it cannot be sent.
* `SF_DPOSSETUP` (`kn10ops.c:1818`) tests only the left half of the fraction for a carry, so an unnormalized negative double whose left half is empty is misread. Unnormalized operands are left out.
* A timer that a callout activates ahead of the saved successor would be cut out of the clock queue (`kn10clk.c:580`); the intervals in use prevent it.
* EDIT's EXCHMD has swapped the pointers when the second half can still fail (`inexts.c:2426`).

## 6. Plan

Done: `InsBreak` and `PiSystem`; `ClockQueue` over `TimerService`; `NiLink` over two `Mailbox`es; `RhDisk` over `Transfers`: all with their
proofs; the restartable instructions; the arithmetic. Left, in this order:

1. Proofs: translations and conversions of `LongInstructions`; the sums and differences of `FixedPoint`, for every word size.
2. `Dte`: packet pool, doorbells, keep-alive, console input and output, and the switch to front-end mode.
3. The tape, whose subprocess works like the disk's, behind the same `Rh20Channel`.
4. The pager: refill, its faults and cached maps. G format.

Not planned: parsers and loaders, KS10 buses, utilities, the browser page, contributed programs; instructions that are one step without cases.

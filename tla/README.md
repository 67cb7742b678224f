# Verification of the 2300_audio_open_sdk firmware

TLA+ models, TLC runs and TLAPS proofs for the firmware of a Bluetooth voice
recorder on the BES best2300 (targets `config/2300_codec`, `config/mic_16k`).
Paths below are relative to the repository; `norflash_api.cpp` is
`services/norflash_api/norflash_api.cpp`, `hal_norflash.c` is
`platform/hal/hal_norflash.c`.

## 1. The system

One Cortex-M core runs a preemptive RTOS, interrupts, and an idle thread that
executes sleep hooks. Components share state under `int_lock()`, under
`int_lock_global()`, or not at all. The parts the repository implements itself:

| Component | State | Operations | Interacts with | What makes it correct |
|---|---|---|---|---|
| `norflash_api` | per module: list of erase and write nodes, current node, state; pools of nodes and sector buffers; current module | register, read, erase, write (each sync or async), flush | clients below, `hal_norflash`, idle hook | clients see a plain store; no node freed while linked, none leaked; no assertion of the flush; everything drains |
| `hal_norflash` | `suspend_state`, the flash | erase, write, suspendable variants, resume | `norflash_api`, interrupts that suspend it | a suspended operation is resumed where it stopped, as what it was, or refused |
| `hal_sysfreq` | request per user, `top_user`, minimum | request, set minimum, get | CMU (clock, PLL), PMU (voltage), codec (same PLL), sleep | every request granted; voltage and PLL cover the clock at every instant, and are given back |
| `hal_sleep` | wake-lock maps, hooks | lock, unlock, sleep | idle thread, `norflash_api`, `nvrecord`, log section | no sleep while anybody needs the clock |
| `nvrecord` | RAM image, its CRC, `is_update`, IDLE / ERASED | open, rebuild, update, flush (sync), flush in sleep (async) | `norflash_api`, callers in `apps.cpp`, `ddbif_bes.c` | the flash ends up with the last update; the CRC fits what was written; a boot after a power loss rebuilds |
| log section | ring of buffers, ring of sectors, flush state | output, flush in sleep, crash dump, restart | `norflash_api`, `hal_trace` | sectors are erased before they are written, the oldest goes first, full buffers and crashes are saved |
| `hwtimer_list` | list of differences, list of fired timers | alloc, start, stop, free, interrupt | one hardware timer | each started timer fires, not early, not late, not after a stop |
| BLE mode switch | state, pending operation | start, stop, stack call-backs, connections | Bluetooth thread's mailbox, BLE stack, profiles, calls | switch and stack agree; the last request wins; the device becomes visible again |
| Bluetooth thread | mailbox, slots of devices to leave sniff mode, pending access mode and link policies | mails, checks of every round | every thread, the Bluetooth stack | no request is forgotten |
| `hal_transq`, `hal_mcu2cp` | slots of two cores | tx, rx first/next, interrupts | the other core | FIFO, no slot reused before it is read |
| application thread | bounded mailbox | put, get, free | every thread | no message lost |
| kfifo, cqueue | ring buffers | put, get, peek | interrupts, threads | FIFO, no overrun |
| media manager, streams, wl_smartvoice | players, codecs | start, stop | mailbox, audioflinger, sysfreq | one owner of the audio path |

Left aside: vendored stacks and libraries (RTX, CMSIS, multimedia codecs, BLE
stack and profiles), register-level drivers, generated tables, build files.
`PROJECT.json` lists all components with the reason each is or is not modelled,
and the hazards with their lines.

Hard behaviours: flash operations suspended at any page by interrupts; flushes
by threads racing the idle hook and each other; client calls between the
choice of a module and its flush; pools running full; power loss between erase
and write; updates between the write of the records and the reset of their flag;
crashes inside a flush; timer interrupts that are already pending when their
timer is stopped; callbacks that run unlocked; a stack that answers later, when
the request it answers is no longer wanted; hardware whose supply has to be up
before its clock.

## 2. Plan

Most important first; 1 to 7 are done.

1. `NorflashApi` + `FlashStore`: the cache every persistent component stands on.
2. `SysFreq`: the clock arbiter.
3. `NvRecord`: the flush machine of the user records over the queue that
   `NorflashApi` provides, with updaters, the sleep hook and power failures.
4. `LogSection`: buffers, sectors, crash handler and restart.
5. `HwTimer`: the list of timers, with the hardware timer below it.
6. `BleModeSwitch`: advertising, with the Bluetooth thread's mailbox and the
   stack behind it.
7. `BtSniff`: the slots of devices that are to leave sniff mode.
8. Next: the pending access mode and link policies of `app_bt_func.cpp`; the
   chunk loops of `hal_norflash.c`, refining the device of `NorflashApi`;
   wake locks; `hal_transq` with both cores, if the other core's firmware is to
   be had.
9. Proofs: the invariants of 1 to 6 and the refinement of `FlashStore`, done;
   next those of the modules of 8.

## 3. Modules

`NorflashApi` — the cache on top of its device.

| Model | Code |
|---|---|
| `queue[m]`, newest first | `mod_info[m].opera_info`, linked through `next` |
| `node[i]`, `used` | `opera_info_list[i].opera_info`, `.is_used` |
| a used write node | also holds one of the `BuffLen` sector buffers |
| `cur`, `state`, `curMod`, `curModId` | fields of `mod_info` and `norflash_api_info` |
| `flash`, `dev` | the memory-mapped flash; `suspend_state` and the operation it suspends |
| `picked[f]` | the `mod_info` a flushing thread read at `norflash_api.cpp:1258`, before it locks at 1265 |
| `cs` | the call inside `int_lock_global()` with steps left: nobody else runs |
| `asserted` | an `ASSERT(0)` of `_opera_flush` was reached |

A sector is a short sequence of program pages. A page is erased (`FF`), holds
data, or is `Mixed`: the device is in the middle of it, or two programs met on
it. Programming only clears bits (`Programmed`). A suspended write has finished
the pages before the one it was suspended in; which page that is, is
nondeterministic. Offsets and lengths within a page, return codes, traces and
the client's completion callback are left out; an early return that changes
nothing is a guard.

Short critical sections are one action. Where the code loops under the lock the
loop runs step by step: the walk of `_e_opera_add` (`WalkRemove`, `WalkMerge`,
`WalkOn`, `WalkEnd`) and the draining of a synchronous call (`SyncForeign`,
`SyncDrain`, `SyncFinish`). A queued write takes the lock (`WriteAsync`) and is
merged or added in a step of its own (`WriteAdd`), so that every call has the
beginning and the end that `FlashStore` speaks of.

`Interleaving` and `Appending` say how the clients behave. Both are `FALSE` in
the runs, because the clients of this build do neither, and the code does not
survive either:

- `~Interleaving`: nobody erases a sector while the module's list holds both
  nodes of that sector and nodes of others. The walk's `pre_node` is then
  always right. With `Interleaving = TRUE` TLC finds `ListsOwnTheirNodes`
  and `EraseDeletes` violated: the walk sets `pre_node` to the node it has just freed
  (`norflash_api.cpp:462`), so a second node of the sector further down is freed
  and stays linked. `nvrecord` and the factory section use one sector, the log
  and the flash test of `services/auto_test/auto_test.cpp` move forward. What
  follows the first such node is not modelled (a reused slot's `next`).
- `~Appending`: nobody writes to a sector whose only pending write is already
  being flushed; the flash test and `nvrecord` wait or erase first. With
  `Appending = TRUE` TLC finds `ReadsBuffer` and `ImplementsStore` violated: the
  new buffer is filled from the half-programmed flash (590).

`FlashStore` — the abstract specification: the sectors' contents (`content`), the
call that is under way (`call`, `acted`) and whether it may be refused (`full`,
an input). A call begins, takes effect once, at the latest when it returns, or
is refused with no effect; nothing else changes the contents. The refinement
maps `content` to what a read returns (`StoreContent`), `call` to the request
that holds the lock (`ClientCall(cs)`) and `full` to `PoolsFull`. A flush runs
outside every call, so it must leave each read as it was: one that lost a
pending erase or write is no step of the store. `NorflashInvariant` — the inductive invariant
and the discipline of the clients. `MCNorflashApi` — which module owns which
sector in the instances. `NorflashApi_proofs` and `NorflashStore_proofs` — the
proofs: lists, pool and device in the first, contents and refinement in the
second.

`SysFreq` — the clock arbiter. A call of `hal_sysfreq_req` runs with interrupts
off, so its bookkeeping is one action (`Request`); what it tells the hardware,
voltage, PLL, clock on the way up and clock, PLL, voltage on the way down, are
steps of their own (`SetVoltage`, `SetPll`, `SetClock`), because the hardware
is exposed to each intermediate state. Frequencies are the members of
`HAL_CMU_FREQ_T` in order. `flashLowSpeed` is the build, chosen in `Init`: with
it the PLL is switched with the clock, without it the PLL stays on and the flash
driver of the older controller may raise the minimum (`SetMinFreq`); the two
never occur together. `OtherUsers` of the PLL is the codec.

`NvRecord` — the user records.

| Model | Code |
|---|---|
| `ram`, `crc` | the pool `usrdata_ddblist_pool`; what its header's CRC was computed for |
| `config`, `isUpdate`, `state` | fields of `nv_record_config` |
| `flash`, `locked`, `result`, `pendErase`, `pendWrite` | the sector and its list in `norflash_api`: the operation under way, a waiting erase, a waiting write |
| `pc[t]`, `arg[t]` | where a thread is in `nv_record_open`, an update, or `nv_record_flash_flush` |
| `asserted` | `ASSERT(crc == recrc)` of `nv_callback` failed |

Each step of `nv_record_flash_flush_int` between two locks, and each call of
`norflash_api`, is an action; `norflash_api` may refuse at any time, because the
other modules share its pools. An image is one value: its CRC is right or not.
The sleep hook (`SleepFlush`) is one action, the interrupts being off. An update
is its flag and its data, in the order the code writes them.
`PowerLoss` keeps the flash only, with the sector in any of the states the
operation under way may leave. `Main` opens the records before the other threads
start (`app_init`).

`LogSection` — the trace output. `buf`, `w`, `f`, `seq` are
`data_buffer_list`, `log_dump_w_seqnum`, `log_dump_f_seqnum` and
`log_dump_cur_dump_seqnum`; `offs` and `fstate` the flash offset and state; `op`
what is queued in `norflash_api`, of which this client queues one thing at a
time; `mode` what the processor does. Text is counted in headers. The sleep
hook's three states are `SleepErase`, `SleepWrite`, `SleepWritten`; the crash
handler's loop, with interrupts off and synchronous calls, `Remain...`.

`HwTimer` — the list of differences. `st`, `time` are fields of the timers,
`active` and `fired` the two lists, `on`, `value`, `irq` and `elapsed` the
hardware (`hal_timer.c`: a load takes a tick off). Every call runs locked and is
one action; the handler unlocks only around a callback (`pc`, `cur`), and
anybody may call while it is there, or before it has got the lock. `Tick` lets
time pass, also while the interrupt is pending, by `MaxLate` at most. The walks
over the differences (`hwtimer_list.c:264`, 367, 98) compare with their sums
(`Behind`). `left` and `due` are ghosts the timing properties compare: what a
timer has still to wait when each load takes a tick, and what it has still to
wait by the clock; `Excused` is what the stop of a head costs those behind it.

`BleModeSwitch` — advertising. `state`, `pending` and `interval` are
`bleModeEnv` and `pendingBLEOperation`; `mails` the Bluetooth thread's mailbox,
whose functions are the actions `Handle...`; `calls` holds what a thread has
still to post after it dealt with the timer of fast advertising; `later` the two
timers and the player of a call's audio; `cmds`, `air` and `conns` the stack.
One connection is all there is (`app_is_arrive_at_max_ble_connections`, without
fast pairing). What the stack may do:
start, refuse a start, cancel, connect (which ends the advertising), disconnect.

`BtSniff` — `slot` and `mask` of the devices that are to leave sniff mode, with
the mails that ask for it and the stack's operations on a device (`busy`).

## 4. Runs

| Run | Shows | Bounds |
|---|---|---|
| `NorflashTwoModules` | `NoAssert`, `SuspendedByCurrent`, refinement of `FlashStore` (calls and nothing else change what is read; synchronous ones also behind a foreign suspension), and that the cache drains once the clients are quiet, with two modules competing for the device and one flushing thread racing the idle hook | 2 modules, a sector each, 2 pages, 3 nodes, 2 buffers: one node short of both modules holding an erase and a write |
| `NorflashOneModule` | the inductive invariant with the contents (`StoreInv`), the list and pool, erases superseding nodes, no page programmed twice, reads from the buffer, refinement (a call changes its own sector only), with two sectors in one list | 2 sectors, 2 pages, 4 nodes, 2 buffers: the buffers run out before the nodes |
| `NorflashTwoFlushers` | a violation, see findings | as above |
| `SysFreq` | supply covers the clock at every step; requests granted, also while the minimum rises; supply released, in both builds | 3 users, all 6 frequencies, one other PLL user |
| `NvOwnFlusher` | one thread updates, rebuilds and flushes: nothing is forgotten, and the flash ends up with the records | 2 images, 3 updates, 2 power failures |
| `NvUpdaters` | a second thread updates at any moment of the flush: the CRC check holds, a flush that wrote returns with its image in flash, an invalid sector is always rewritten | 2 images, 3 updates, 1 power failure |
| `NvTwoFlushers` | a violation, see findings | 2 updates |
| `LogRing` | the inductive invariant (`LogInv`), sectors erased ahead, numbers ascending, the oldest sector reused first, full buffers and crashes saved | 2 buffers, 3 sectors of 3 headers, 8 numbers: more than two rounds of the ring; 1 power failure |
| `LogCrash` | a violation, see findings | 2 numbers |
| `HwTimer` | the inductive invariant (`TimerInv`), no assertion, lists and hardware agree, timers are neither early nor late, and fire | 3 timers, 3 ticks, handlers up to 1 tick late |
| `BleModeSwitch` | the inductive invariant (`SwitchInv`): switch and stack in step; the last request wins, quiet for profiles, visible again afterwards, restarts end | 5 events of clients, peers and calls; a client asks while fewer than 3 mails wait |
| `BtSniff` | a violation, see findings | 2 devices, 8 slots, 2 mails |

Bounds. Two pages distinguish "before", "in" and "after" the suspended page and
make ranges grow on merging. Two sectors are needed for interleaved lists, two
modules for a foreign suspension. One data value is enough: a second program of
a page with other data would need a client that writes what is not erased, and
`Mixed` already stands for every damaged page. Nodes and buffers are few on
purpose, so that every `BUFFER_FULL` path is taken. Three users are enough for
the search of the next top user to pass over one and stop at another. Three
timers are enough for two that are due together in front of one that is not. Two
images suffice for the records: the one in flash and another. Five events reach
a request during a transition that itself was asked for during one.

The log section's numbers ascend only until output is dropped: with every buffer
full, the filling index moves past one that is not free (`log_section.c:1266`),
and what a later crash writes is out of order or incomplete; the properties say
`~lost`. `CrashIsSaved` leaves out a crash inside the hook's state WRITTING,
which nothing leaves again, and such a crash ends in the loop of finding 3 too.
`NotEarly` and `NotLate` say how far `hwtimer_list.c` may be off, with the
reasons: each load takes a tick, and a timer that is started behind an overdue
head counts from when the head was due. `NotLate` does not count what stops of
the head add: a stop with the interrupt pending loads the hardware again for
those behind, and may be repeated, so no bound on it holds for every `MaxTicks`
(one in the number of timers does not: the proof of `WaitInv` failed on it, and
TLC found the execution with a larger `MaxTicks`). `EveryTimerFires` leaves out executions
in which overdue heads are stopped over and over, which starves the timers
behind them.

`BleModeSwitch` assumes that the stack, which is not in the repository, answers a
cancel also if a connection has ended the advertising before
(`AnswersLateCancel`). If it did not, the switch would stay in STOPPING_ADV: with
`FALSE` TLC finds `InStep`, a part of `SwitchInv`, violated after a stop, a
connection and the cancel.
`LastRequestWins` and `Discoverable` leave out executions in which the stack has
refused a start: a stop that came while it was starting stays pending then
(`app_ble_mode_switch.c:171`) and cancels a later start.

Fairness. A call that holds a lock, and a loop with the interrupts off, runs on
(weak fairness). The idle thread runs its hooks when nothing else does, which it
does again and again (`FlushIdle`, `SleepFlush`, the hook of the log section).
`NorflashApi`: strong fairness of a flush that completes, because each
suspension follows an interrupt, each resumption lets the chip work on for a
while, and a page's program time and a sector's erase time are finite.
`NvRecord`: strong fairness of an erase and a write that are not refused,
because the pools drain through the flushes of other modules as well.
`HwTimer`: time goes on, interrupts are taken, callbacks return.
`BleModeSwitch`: the Bluetooth thread works off its mails, the stack its
messages, a thread finishes its call; the timers may take for ever.
`QuietDrains` and `EventuallySaved` speak of executions in which the clients
stop: `log_section.c:896` may well flush for ever while an interrupt keeps
writing.

Deadlock is not checked where the bounds let the system stop.

Every property of a passing run also has a wrong variant of the code (`Bug...`,
listed under `mutants`) under which TLC finds it violated.

## 5. Proofs

Proved by `tlapm` for every value of the constants, with no bound:

`NorflashApi_proofs`, assuming `Disciplined` (`~Interleaving`, and at most one
thread flushes besides the idle hook; `Appending` is free):

- `Invariant`: `Spec => []IInv`.
- `TypeCorrect`, `FlushNeverAsserts`, `PoolIntegrity`, `EraseDeletesPending`,
  `SuspensionIsCurrent`: the safety properties that follow from it.

`NoAssert` is not inductive. That the device accepts a resume needs
`SuspendInv` (a suspended device belongs to the current node of the current
module, and `state` says how); that the flushed node is that one needs
`OldestTaken` (only the oldest node of a list is ever locked, and it is the
current one) and `PickInv` (a module chosen before the lock is still the current
one, if there is one). Erases keep `OldestTaken` because they skip locked nodes;
that they unlink what they free is `WalkInv`, which holds because the walk sees
only nodes of its sector, or none. `ListsOwnTheirNodes` keeps lists of
different modules apart. The two hypotheses of `Disciplined` are where the
violation runs come in: without the first `WalkInv` fails, without the second
`PickInv` does.

`NorflashStore_proofs`, assuming `Buffered` (`Disciplined` and `~Appending`):

- `StoreInvariant`: `Spec => []StoreInv`, that is `IInv` and `DataInv`.
- `FlashIsWhole` and `ReadsComeFromBuffer`, from it.
- `ImplementsFlashStore`: `NorflashApi` implements `FlashStore` under the
  mapping of `NorflashApi`. Taking the lock is `Begin`; an asynchronous erase has
  its effect there, or when its walk frees the first node of a full pool (`Act`);
  `WriteAdd`, `WalkMerge`, `WalkEnd` and `SyncFinish` are `Return`, the first and
  third `Refuse` when a pool is used up. Registration, every flush, suspension
  and resumption, and the draining steps of a synchronous call are stutters,
  which is `Unread` in the proof: no read of any sector changes. A synchronous
  call is never refused: by `SuspendInv` the device is idle once both its loops
  are done (`SyncFindsDeviceIdle`).

A read takes the newest pending write's buffer, whatever lies below it. It stays
true of the flash because of what `DataInv` adds: between two pending writes of
a sector lies an erase (`WritesApart`: else they would have been merged); and
programming a pending write's pages into the sector as its turn will find it,
erased or what is in the flash now, gives the buffer (`WritesComplete`, which
also follows a suspended write from page to page). `RequestInv` says of the write
that holds the lock that its pages are still erased, also when a synchronous one
has drained the list. `~Appending` is needed
because a buffer is a copy of the flash (`norflash_api.cpp:590`), which must not
be in the middle of a page when it is made.

`SysFreq_proofs`, from the constants' assumptions only: `Invariant`,
`SupplySafe`, `ClockIsGranted`, `SupplyReleased`. `TopInv` says that the target
of the change in progress is the revised top request and that nobody exceeds
the top user; `SupplyInv` that clock, voltage and PLL are each at the old or the
new frequency, according to whether their order is still to come. That the
search finds a maximum (`TopIsHighest`) is proved from the well-foundedness of
the naturals.

`NvRecord_proofs`, for any number of threads of which one calls
`nv_record_flash_flush` (`Flushers = {Main}`): `Invariant` and from it
`CrcSafe`, `RewriteSafe` and `FlushDurable`; if the updates are that thread's as
well (`Threads = {Main}`), also `OwnInvariant` (`OwnInv`) and from it `NothingLost`. `CrcMatches` is not inductive: the assertion
compares what the write left in flash with the header at that time, so the
queue has to be known. `QueueInv` says that a waiting write always
has an erased sector before it and that state ERASED stands for one; `CrcInv`
that the newest thing queued is what the header describes, unless the records
are marked as changed; `ThreadsInv` ties the flushing thread's place to the
state it found. Without the hypothesis the second part of `QueueInv` fails,
which is what `NvTwoFlushers` shows.

`LogSection_proofs`, from the constants' assumptions only: `LogInvariant`
(`LogInv`), and from it `NeverAsserts`, `WritesFindErased`, `FlushesInOrder` and
`ErasesOldest`. The log is two rings, and each property needs both: the buffers
from the flushing index on are the used ones, oldest first, then the free ones
(`Ordered`), and the filling index is at their boundary (`FillsNext`); the
sectors from the one due next on ascend (`FlashRing`), and every buffered number
is above all that are in the flash or queued (`Newer`). `ZeroFirst` and
`ZeroStarts` are there because `_get_seqnum` takes the highest number, if it is
0, to be in sector 0.

`HwTimer_proofs`, from the constants' assumptions only: `TimerInvariant`
(`TimerInv`), from it `AssertionsHold`, `ListsAgree`, `StaysArmed` and
`LatenessIsBounded`, and the action property `NeverEarly`. `CounterInv` says
what the counter and the ticks since the last load make of the head's
difference, also while the interrupt is pending or its handler has not got the
lock; `WaitInv` what the sum of the differences before a timer makes of what it
has to wait. Most of the proof is about those sums: how each change of the list,
in front, in the middle, at the end, or off its head, moves them.

`BleModeSwitch_proofs`, if `AnswersLateCancel`: `KeepsInStep`, that is
`Spec => []InStep`, for any number of mails, connections and refusals.
`OneUnderWay` (in STARTING_ADV and STOPPING_ADV one command or one answer is
under way, elsewhere none) is what the switch relies on, and not inductive. An
answer must not be taken for another's: a connection that comes while the answer
to a start still waits must be heard of after it, and one that comes while a
cancel is on its way before the answer to the cancel (`ConnectionInOrder`); that
it can come only then needs `AirKnown`, what the stack advertises in each state;
and that there is no second one, `OneConnection`. A mail that asks for something
disturbs none of this, wherever it waits (`RequestPosted`), and a handler does
one of three things (`Effect`).

That what is settled is right, `SwitchInvariant` (`Spec => []SwitchInv`), and from
it `LastRequestIsMet`, `ProfilesHaveTheAir` and `StaysDiscoverable`, needs three
more parts, each an account of what is still to come. `WantInv`: the state, the
pending operation and the command on its way together say what was last wanted,
so the operation that was displaced cannot come back. `QuietInv`: while profiles
are being connected a stop is under way, or the state is one that a start cannot
leave before the profiles are done. `StartInv`: whatever made a start impossible
(a call, a connection, profiles) or is still under way ends in another start
(`WillAsk`), or the switch is on its way to advertise. Refusals are left out of
the first and the third (`~failed`); `RefusalKnown` says that there is no answer
"failed" without one.

Only model-checked: the six liveness properties (`QuietDrains`,
`EventuallySaved`, `FullIsSaved`, `CrashIsSaved`, `EveryTimerFires`,
`EventuallySettled`). Liveness under fairness, `ENABLED` and induction over
recursively computed data are out of the prover's reach. Every other property
that a passing run checks is a theorem.

## 6. Findings

1. `NorflashTwoFlushers`: `norflash_api_flush` chooses its module before it
   locks (1258, 1265). Of two flushing threads one may find the device suspended
   for another module; `hal_norflash.c` answers BAD_OP and the flush runs into
   `ASSERT(0, ...)` at 671. The flash test (`auto_test.cpp:1671`, 1673) runs two
   such threads.
2. `NvTwoFlushers`: two threads in `nv_record_flash_flush` share state ERASED
   (`nvrecord.c:821`). The second writes without an erase of its own, and
   `nv_callback` runs into `ASSERT(crc == recrc, ...)` at 929. The audio thread,
   `app_deinit` and the stack's link-key storage all call it.
3. `LogCrash`: `_log_dump_flush_remain` never sets `unfree_count` back
   (`log_section.c:1122`, 1129). After a crash with an unwritten buffer the loop
   does not end, and `CRASH_REBOOT` (`hal_trace.c:39`) has no effect.
4. `BtSniff`: the loop that fills a slot goes on behind it
   (`app_bt_func.cpp:217`), so that one device takes all eight and the next
   one's request is dropped.

Disagreements that no client of this build can bring about, or that depend on
the binary stack, are described with the constants in sections 3 and 4.

## 7. Not modelled

In `norflash_api`: completion callbacks of clients other than `nvrecord`,
parameter errors, `norflash_api_is_changed`, the counting queries. In
`hal_norflash.c`: chunk arithmetic and the end of the chip. In the clock and
power drivers: everything `hal_sysfreq.c` does not call. In `nvrecord`: the list
of paired devices inside the image. In the BLE mode switch: scanning and
connecting, which nothing calls in this build, interconnection and the
resolution of private addresses. In `app_bt_func.cpp`: the requests that are
passed on to the stack, and the pending access mode and link policies.

`hal_transq` and `hal_mcu2cp` talk to a core whose firmware is not in the
repository. The media manager and the streams switch signal processing and
binary codecs. `kfifo`, `cqueue`, list and heap are sequential helpers. Most of
the repository's lines are vendored stacks, tables, register definitions and
drivers, whose behaviour is the hardware's; `PROJECT.json` lists every
component with its reason.

----------------------------- MODULE LogSection -----------------------------
(***************************************************************************)
(* services/nv_section/log_section/log_section.c: the trace output kept in *)
(* a ring of sector-sized buffers, and written to a ring of flash sectors  *)
(* by a sleep hook while the system runs (log_dump_flush), by the crash    *)
(* handler at its end (log_dump_notify_handler).                           *)
(*                                                                         *)
(* A buffer begins with a header that carries its sequence number; text is *)
(* counted in units of one header.  A sector of flash is Empty, Torn, or   *)
(* holds a header with the number it gives.  Power may fail at every step. *)
(***************************************************************************)
EXTENDS Integers, FiniteSets, FiniteSetsExt

CONSTANTS BufferCount,   \* LOG_DUMP_SECTOR_BUFFER_COUNT
          Size,          \* LOG_DUMP_SECTOR_SIZE, in units
          SectorCount,   \* sectors from __log_dump_start to __log_dump_end
          Empty, Torn,
          MaxSeq,        \* bound: no output once this many headers were made
          MaxPowerLosses

ASSUME SizesAssumption ==
  /\ BufferCount \in Nat \ {0, 1} /\ Size \in Nat \ {0, 1} /\ SectorCount \in Nat \ {0, 1}
ASSUME ImagesAssumption == Empty # Torn /\ {Empty, Torn} \cap Int = {}
ASSUME BoundsAssumption == MaxSeq \in Nat /\ MaxPowerLosses \in Nat

VARIABLES
  buf,         \* data_buffer_list: state, offset, and the number in its header
  w, f,        \* log_dump_w_seqnum, log_dump_f_seqnum
  seq,         \* log_dump_cur_dump_seqnum
  offs,        \* log_dump_flash_offs
  fstate,      \* log_dump_flash_state
  unfree,      \* unfree_count of _log_dump_flush_remain is above zero
  mode,        \* what the processor is doing
  flash,
  op,          \* what is queued in norflash_api for this module
  lost,        \* some output was dropped because every buffer was full
  asserted,
  losses

buffers == <<buf, w, f, seq>>
flusher == <<offs, fstate, unfree>>
device == <<flash, op>>
ghosts == <<lost, asserted, losses>>
vars == <<buffers, flusher, mode, device, ghosts>>

Bufs == 0 .. BufferCount - 1
Sectors == 0 .. SectorCount - 1
NoOp == [type |-> "none", sector |-> 0, image |-> Empty]
Written == {s \in Sectors : flash[s] \notin {Empty, Torn}}

TypeOK ==
  /\ buf \in [Bufs -> [state : {"FREE", "WRITTING", "WRITTEN"}, offset : 0 .. Size, seq : Nat]]
  /\ w \in Bufs /\ f \in Bufs /\ seq \in Nat
  /\ offs \in 0 .. SectorCount * Size - 1
  /\ fstate \in {"IDLE", "ERASED", "WRITTING"} /\ unfree \in BOOLEAN
  /\ mode \in {"off", "run", "crash", "remain", "reboot"}
  /\ flash \in [Sectors -> Nat \cup {Empty, Torn}]
  /\ op \in [type : {"none", "erase", "write"}, sector : Sectors, image : Nat \cup {Empty}]
  /\ lost \in BOOLEAN /\ asserted \in BOOLEAN /\ losses \in Nat

Free == [state |-> "FREE", offset |-> 0, seq |-> 0]

\* The sector with the highest number is used again.
BugNextSector == Min({s \in Written : flash[s] = Max({flash[u] : u \in Written})})

\* The sector after the one with the highest number.
NextSector ==
  LET top == Max({flash[s] : s \in Written})
      last == IF top = 0 THEN 0 ELSE Min({s \in Written : flash[s] = top})
  IN  (last + 1) % SectorCount

Init ==
  /\ flash = [s \in Sectors |-> Empty] /\ op = NoOp
  /\ buf = [i \in Bufs |-> Free] /\ w = 0 /\ f = 0 /\ seq = 0
  /\ offs = 0 /\ fstate = "IDLE" /\ unfree = FALSE /\ mode = "off"
  /\ lost = FALSE /\ asserted = FALSE /\ losses = 0

\* Numbering goes on with the number found.
BugNextSeq == IF Written = {} THEN 0 ELSE Max({flash[s] : s \in Written})

NextSeq == IF Written = {} THEN 0 ELSE Max({flash[s] : s \in Written}) + 1

\* log_dump_init, with _get_seqnum
LogInit ==
  /\ mode = "off" /\ mode' = "run"
  /\ seq' = NextSeq
  /\ offs' = IF Written = {} THEN 0 ELSE NextSector * Size
  /\ buf' = [i \in Bufs |-> Free] /\ w' = 0 /\ f' = 0
  /\ fstate' = "IDLE" /\ unfree' = FALSE
  /\ UNCHANGED <<device, ghosts>>

-----------------------------------------------------------------------------
(* log_dump_output_handler: one round of its loop, on the buffers and what   *)
(* remains to be stored.                                                     *)

After(i) == (i + 1) % BufferCount

\* A buffer that is full still counts as being filled.
BugFilled(b, full) == "WRITTING"

Filled(b, full) ==
  IF full THEN "WRITTEN" ELSE IF b.state = "FREE" THEN "WRITTING" ELSE b.state

\* A buffer that is begun gets a header, which is counted as one.
Begun(b) == b.state = "FREE" \/ b.offset = 0
From(b) == IF Begun(b) THEN 1 ELSE b.offset

\* How much of n headers of text the buffer takes, and whether it is full then.
Taken(b, n) == IF From(b) + n > Size THEN Size - From(b) ELSE n
Fills(b, n) == From(b) + Taken(b, n) = Size

Round(c) ==
  LET b == c.buf[c.w]
      taken == Taken(b, c.remain)
      full == Fills(b, c.remain)
      new == [state |-> Filled(b, full), offset |-> From(b) + taken,
              seq |-> IF Begun(b) THEN c.seq ELSE b.seq]
      next == c.buf[After(c.w)].state
  IN  [buf |-> [c.buf EXCEPT ![c.w] = new],
       w |-> IF full THEN After(c.w) ELSE c.w,
       seq |-> IF Begun(b) THEN c.seq + 1 ELSE c.seq,
       remain |-> IF full /\ next # "FREE" THEN 0 ELSE c.remain - taken,
       lost |-> c.lost \/ (full /\ next # "FREE" /\ c.remain > taken),
       asserted |-> c.asserted \/ (full /\ next = "WRITTING")]

\* A trace is shorter than the text of a buffer, so two rounds store it.
Output(n) ==
  LET c == [buf |-> buf, w |-> w, seq |-> seq, remain |-> n, lost |-> lost, asserted |-> asserted]
      one == Round(c)
      end == IF one.remain > 0 THEN Round(one) ELSE one
  IN  /\ mode = "crash" \/ (mode = "run" /\ fstate # "WRITTING")
      /\ seq < MaxSeq
      /\ buf' = end.buf /\ w' = end.w /\ seq' = end.seq
      /\ lost' = end.lost /\ asserted' = end.asserted
      /\ UNCHANGED <<f, flusher, mode, device, losses>>

-----------------------------------------------------------------------------
(* _log_dump_flush.  hal_sleep_proc calls the hook of norflash_api first and *)
(* this one only when it had nothing to do, so no queue is ever full here.   *)

Sector == offs \div Size

CanErase == fstate = "IDLE" /\ offs % Size = 0

\* Only full buffers are ever written.
BugCanWrite(states) == fstate = "ERASED" /\ buf[f].state = "WRITTEN" /\ buf[f].offset > 0

CanWrite(states) == fstate = "ERASED" /\ buf[f].state \in states /\ buf[f].offset > 0

\* The ring has no end.
BugAdvanceOn == offs + buf[f].offset

\* The header is not counted.
BugAdvance == (offs + buf[f].offset - 1) % (SectorCount * Size)

Advance == (offs + buf[f].offset) % (SectorCount * Size)

\* The sector counts as still erased.
BugWriteDone ==
  /\ buf' = [buf EXCEPT ![f].state = "FREE"]
  /\ f' = After(f)
  /\ offs' = Advance
  /\ fstate' = "ERASED"
  /\ UNCHANGED <<w, seq, unfree>>

\* The buffer is written, freed, and the next one is due.
WriteDone ==
  /\ buf' = [buf EXCEPT ![f].state = "FREE"]
  /\ f' = After(f)
  /\ offs' = Advance
  /\ fstate' = "IDLE"
  /\ UNCHANGED <<w, seq, unfree>>

SleepErase ==
  /\ mode = "run" /\ op = NoOp /\ CanErase
  /\ op' = [type |-> "erase", sector |-> Sector, image |-> Empty]
  /\ fstate' = "ERASED"
  /\ UNCHANGED <<buffers, offs, unfree, mode, flash, ghosts>>

SleepWrite ==
  /\ mode = "run" /\ op = NoOp /\ CanWrite({"WRITTEN"})
  /\ fstate' = "WRITTING"
  /\ UNCHANGED <<buffers, offs, unfree, mode, device, ghosts>>

SleepWritten ==
  /\ mode = "run" /\ fstate = "WRITTING"
  /\ op' = [type |-> "write", sector |-> Sector, image |-> buf[f].seq]
  /\ WriteDone
  /\ UNCHANGED <<mode, flash, ghosts>>

\* What norflash_api leaves of the queue.
Program(o) ==
  CASE o.type = "none"  -> flash
    [] o.type = "erase" -> [flash EXCEPT ![o.sector] = Empty]
    [] o.type = "write" -> [flash EXCEPT ![o.sector] = IF @ = Empty THEN o.image ELSE Torn]

NorflashFlush ==
  /\ mode = "run" /\ fstate # "WRITTING" /\ op # NoOp
  /\ flash' = Program(op) /\ op' = NoOp
  /\ UNCHANGED <<buffers, flusher, mode, ghosts>>

-----------------------------------------------------------------------------
(* A crash: hal_trace_assert_dump and hal_trace_fault_dump never return.     *)

CrashStart ==
  /\ mode = "run" /\ mode' = "crash"
  /\ UNCHANGED <<buffers, flusher, device, ghosts>>

\* log_dump_notify_handler(HAL_TRACE_STATE_CRASH_END)
CrashEnd ==
  /\ mode = "crash" /\ mode' = "remain"
  /\ unfree' = FALSE
  /\ UNCHANGED <<buffers, offs, fstate, device, ghosts>>

SomeUnfree == \E i \in Bufs : buf[i].state # "FREE"

\* unfree_count is never put back to zero.
Counted == unfree \/ SomeUnfree

\* One round of _log_dump_flush_remain: its calls are synchronous, and finish
\* what is queued first.
RemainErase ==
  /\ mode = "remain" /\ Counted /\ CanErase
  /\ flash' = [Program(op) EXCEPT ![Sector] = Empty] /\ op' = NoOp
  /\ fstate' = "ERASED" /\ unfree' = Counted
  /\ UNCHANGED <<buffers, offs, mode, ghosts>>

RemainWrite ==
  /\ mode = "remain" /\ Counted /\ CanWrite({"WRITTING", "WRITTEN"})
  /\ flash' = [Program(op) EXCEPT ![Sector] = IF @ = Empty THEN buf[f].seq ELSE Torn] /\ op' = NoOp
  /\ buf' = [buf EXCEPT ![f].state = "FREE"] /\ f' = After(f)
  /\ offs' = Advance /\ fstate' = "IDLE" /\ unfree' = Counted
  /\ UNCHANGED <<w, seq, mode, ghosts>>

RemainNothing ==
  /\ mode = "remain" /\ Counted /\ ~CanErase /\ ~CanWrite({"WRITTING", "WRITTEN"})
  /\ unfree' = Counted
  /\ UNCHANGED <<buffers, offs, fstate, mode, device, ghosts>>

RemainDone ==
  /\ mode = "remain" /\ ~Counted
  /\ mode' = "reboot"
  /\ flash' = Program(op) /\ op' = NoOp
  /\ UNCHANGED <<buffers, flusher, ghosts>>

\* hal_trace_crash_end
Reboot ==
  /\ mode = "reboot" /\ mode' = "off"
  /\ UNCHANGED <<buffers, flusher, device, ghosts>>

\* The sector being erased or written is lost, or is as it was, or is done.
PowerLoss ==
  /\ mode # "off" /\ mode' = "off"
  /\ losses < MaxPowerLosses /\ losses' = losses + 1
  /\ \/ flash' = flash
     \/ op # NoOp /\ flash' \in {Program(op), [flash EXCEPT ![op.sector] = Torn]}
     \/ mode = "remain" /\ op = NoOp /\ flash' = [flash EXCEPT ![Sector] = Torn]
  /\ op' = NoOp
  /\ UNCHANGED <<buffers, flusher, lost, asserted>>

Next ==
  \/ LogInit
  \/ \E n \in 1 .. Size - 1 : Output(n)
  \/ SleepErase \/ SleepWrite \/ SleepWritten \/ NorflashFlush
  \/ CrashStart \/ CrashEnd
  \/ RemainErase \/ RemainWrite \/ RemainNothing \/ RemainDone \/ Reboot
  \/ PowerLoss

Spec == Init /\ [][Next]_vars

\* The idle thread comes back to its hooks, and a crash handler runs on.
Fairness ==
  /\ WF_vars(LogInit)
  /\ WF_vars(SleepErase) /\ WF_vars(SleepWrite) /\ WF_vars(SleepWritten) /\ WF_vars(NorflashFlush)
  /\ WF_vars(CrashEnd)
  /\ WF_vars(RemainErase) /\ WF_vars(RemainWrite) /\ WF_vars(RemainDone) /\ WF_vars(Reboot)

FairSpec == Spec /\ Fairness

-----------------------------------------------------------------------------
(* Properties *)

\* log_dump_output_handler: ASSERT(data_buff->state == FREE || WRITTEN).  Only
\* one buffer is ever part-filled, whatever the flusher frees behind it.
StateAsserted == ~asserted

\* What is written next, and what is queued, finds its sector erased: across
\* the queue, a crash in the middle of a flush, and the end of the ring.
ErasedAhead ==
  mode # "off" =>
    /\ fstate # "IDLE" => Program(op)[Sector] = Empty
    /\ op.type = "write" => flash[op.sector] = Empty

\* The next buffer to be written is the oldest there is, and newer than all of
\* the flash, so that the numbers ascend in the order the sectors are filled.
\* Only once output was lost may the filling buffer run ahead of f.
InOrder ==
  mode # "off" /\ ~lost =>
    \A i \in Bufs : buf[i].state # "FREE" =>
      /\ buf[f].state # "FREE" /\ buf[f].seq <= buf[i].seq
      /\ \A s \in Written : flash[s] < buf[i].seq
      /\ op.type = "write" => op.image < buf[i].seq

\* The sector that is erased next holds the oldest part of the log, also after
\* a restart that found it by the highest number in flash.
OldestGoes ==
  mode = "run" /\ op = NoOp /\ fstate = "IDLE" /\ ~lost /\ Sector \in Written =>
    \A s \in Written : flash[Sector] <= flash[s]

\* A full buffer gets to the flash as long as the system goes idle.
FullIsSaved ==
  \A i \in Bufs : buf[i].state = "WRITTEN" /\ ~lost
                   ~> buf[i].state # "WRITTEN" \/ mode # "run" \/ lost

\* A crash that did not hit the flush hook itself has all of the buffers written.
CrashIsSaved ==
  (mode = "remain" /\ ~lost /\ fstate # "WRITTING")
    ~> (\A i \in Bufs : buf[i].state = "FREE") \/ mode = "off"

\* hal_trace.c is built with CRASH_REBOOT: the handler ends in a restart.
CrashReboots == (mode = "crash") ~> (mode = "off")

-----------------------------------------------------------------------------
(* The inductive invariant                                                   *)

Aligned == offs % Size = 0

\* The sector that is written next: behind a part-filled one comes another.
NextDue == IF Aligned THEN Sector ELSE (Sector + 1) % SectorCount

\* How far a buffer is from the one to be flushed, a sector from the next due.
Ahead(i) == IF i >= f THEN i - f ELSE i - f + BufferCount
Rank(s) == IF s >= NextDue THEN s - NextDue ELSE s - NextDue + SectorCount

Busy(b) == {i \in Bufs : b[i].state # "FREE"}

\* Only the buffer at w is part-filled; a full one is full.
FillInv ==
  \A i \in Bufs :
    /\ buf[i].state = "WRITTING" => i = w /\ buf[i].offset \in 1 .. Size - 1
    /\ buf[i].state = "WRITTEN" => buf[i].offset = Size
    /\ buf[i].state # "FREE" => buf[i].seq < seq

\* What may be queued, by the state of the flusher.
QueueInv ==
  /\ op.type = "none" => op = NoOp
  /\ op.type = "erase" => fstate = "ERASED" /\ op.sector = Sector /\ op.image = Empty
  /\ op.type = "write" => fstate = "IDLE" /\ flash[op.sector] = Empty /\ op.image \in Nat
  /\ fstate = "WRITTING" => op = NoOp /\ buf[f].state = "WRITTEN"
  /\ fstate # "IDLE" \/ mode \in {"run", "crash"} => Aligned
  /\ mode \in {"off", "reboot"} => op = NoOp

\* A number above all that are in the flash or on their way there.
Newer(n) ==
  /\ \A s \in Written : flash[s] < n
  /\ op.type = "write" => op.image < n

\* From f on come the buffers to be written, oldest first, and then the free
\* ones, which the output takes up in the same order.
Ordered(b) ==
  /\ \A i \in Busy(b), j \in Bufs \ Busy(b) : Ahead(i) < Ahead(j)
  /\ \A i, j \in Busy(b) : Ahead(i) < Ahead(j) => b[i].seq < b[j].seq

FillsNext(b, x) ==
  /\ b[x].state = "FREE" => \A j \in Bufs \ Busy(b) : Ahead(x) <= Ahead(j)
  /\ b[x].state = "WRITTING" => \A i \in Busy(b) : Ahead(i) <= Ahead(x)
  /\ b[x].state = "WRITTEN" => x = f /\ Busy(b) = Bufs

BufferRing ==
  mode # "off" =>
    /\ Ordered(buf)
    /\ \A i \in Busy(buf) : Newer(buf[i].seq)
    /\ mode \in {"run", "crash"} => FillsNext(buf, w)

\* From the sector due next on the numbers ascend, up to the one on its way.
FlashRing ==
  /\ \A s, t \in Written : Rank(s) < Rank(t) => flash[s] < flash[t]
  /\ op.type = "write" =>
       Rank(op.sector) = SectorCount - 1 /\ \A s \in Written : flash[s] < op.image

\* Number 0 is given once, and to sector 0.
ZeroFirst ==
  /\ \A s \in Written : flash[s] = 0 => s = 0
  /\ op.type = "write" /\ op.image = 0 => op.sector = 0

ZeroStarts ==
  mode # "off" /\ (seq = 0 \/ \E i \in Busy(buf) : buf[i].seq = 0) => offs = 0

LogInv ==
  /\ TypeOK /\ FillInv /\ QueueInv /\ StateAsserted /\ ErasedAhead /\ Newer(seq)
  /\ ~lost => BufferRing /\ FlashRing /\ ZeroFirst /\ ZeroStarts
=============================================================================

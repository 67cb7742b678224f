------------------------------ MODULE NvRecord ------------------------------
(***************************************************************************)
(* services/nvrecord/nvrecord.c: the user records kept in RAM and written  *)
(* back to one flash sector through norflash_api, by a sleep hook          *)
(* (nv_record_flash_flush_in_sleep) or by a thread that waits until the    *)
(* flash holds them (nv_record_flash_flush).                               *)
(*                                                                         *)
(* A record image is the user's data with a CRC in its header.  An image   *)
(* in flash is the value of Data whose CRC it passes; Erased and Garbled   *)
(* pass none.  Power may fail at every step.                               *)
(***************************************************************************)
EXTENDS Naturals, FiniteSets

CONSTANTS Data, Default,      \* contents of the records; those of a new pool
          Erased, Garbled, NONE,
          Threads,            \* they update the records
          Flushers,           \* of these, the ones that call nv_record_flash_flush
          Main,               \* the thread that opens the records at start
          Rebuilding,         \* engineer mode: it may have them rebuilt
          MaxUpdates, MaxCrashes

ASSUME DataAssumption == Default \in Data /\ {Erased, Garbled, NONE, "E"} \cap Data = {}
ASSUME TagsAssumption == Erased # Garbled /\ NONE # "E" /\ NONE \notin {Erased, Garbled}
ASSUME ThreadsAssumption ==
  /\ Flushers \subseteq Threads /\ Main \in Flushers
  /\ Rebuilding \in BOOLEAN /\ (Rebuilding => Threads = {Main})
ASSUME BoundsAssumption == MaxUpdates \in Nat /\ MaxCrashes \in Nat

VARIABLES
  ram,        \* usrdata_ddblist_pool: the contents
  crc,        \* the contents its header's CRC was last computed for
  config,     \* nv_record_config.config # NULL
  isUpdate,   \* nv_record_config.is_update
  state,      \* nv_record_config.state
  flash,      \* what the sector holds
  locked,     \* norflash_api: the operation it was suspended in, and what
  result,     \*   the sector holds when that ends
  pendErase, pendWrite, \* the unlocked nodes of the sector, in this order
  pc, arg,    \* where each thread is, and what it is about to store
  asserted,   \* the assertion of nv_callback failed
  updates, crashes

records == <<ram, crc, config, isUpdate, state>>
device == <<flash, locked, result, pendErase, pendWrite, asserted>>
bounds == <<updates, crashes>>
vars == <<records, device, pc, arg, bounds>>

Image == Data \cup {Erased, Garbled}

Labels == {"idle", "open", "rebuild", "flag", "store", "check", "test", "erase", "eraseWait",
           "erased", "test2", "write", "writeWait", "wrote", "reset", "drain"}

TypeOK ==
  /\ ram \in Data /\ crc \in Data \cup {NONE}
  /\ config \in BOOLEAN /\ isUpdate \in BOOLEAN /\ state \in {"IDLE", "ERASED"}
  /\ flash \in Image /\ locked \in Data \cup {NONE, "E"} /\ result \in Image
  /\ pendErase \in BOOLEAN /\ pendWrite \in Data \cup {NONE}
  /\ pc \in [Threads -> Labels] /\ arg \in [Threads -> Data]
  /\ asserted \in BOOLEAN
  /\ updates \in Nat /\ crashes \in Nat

\* A blank chip, an image an earlier run left, or the trace of a power failure.
Init ==
  /\ ram = Default /\ crc = NONE /\ config = FALSE /\ isUpdate = FALSE /\ state = "IDLE"
  /\ flash \in Image /\ locked = NONE /\ result = Erased
  /\ pendErase = FALSE /\ pendWrite = NONE
  /\ pc = [t \in Threads |-> IF t = Main THEN "open" ELSE "idle"]
  /\ arg = [t \in Threads |-> Default]
  /\ asserted = FALSE
  /\ updates = 0 /\ crashes = 0

Goto(t, l) == pc' = [pc EXCEPT ![t] = l]

\* app_init opens the records before it starts the threads that use them.
Opened == config /\ pc[Main] \notin {"open", "rebuild"}

Step(t, from, to) == pc[t] = from /\ Goto(t, to) /\ UNCHANGED <<arg, bounds>>

-----------------------------------------------------------------------------
(* norflash_api on the one sector of this module.  The list of the sector   *)
(* is at most the node being flushed, an erase and a write.                 *)

Program(old, d) == IF old \in {Erased, d} THEN d ELSE Garbled

Pending == locked # NONE \/ pendErase \/ pendWrite # NONE

\* Pending writes stay behind the new erase in the list.
BugNfErase ==
  /\ pendErase' = TRUE /\ UNCHANGED pendWrite

\* norflash_api_erase(..., true), NORFLASH_API_OK: the unlocked nodes go, and
\* the erase is merged into one that is under way.
NfErase ==
  /\ pendErase' = (locked # "E")
  /\ pendWrite' = NONE

\* It may be refused only if it freed no node and needs one.
NfEraseFull == locked # "E" /\ ~pendErase /\ pendWrite = NONE

\* norflash_api_write(..., true): a write that waits gets the new contents.
NfWrite(d) == pendWrite' = d /\ UNCHANGED pendErase

NfWriteFull == pendWrite = NONE

\* The oldest node: the one under way, then the erase, then the write.
Oldest == CASE locked # NONE -> locked
            [] locked = NONE /\ pendErase -> "E"
            [] OTHER -> pendWrite

Outcome ==
  IF locked # NONE THEN result
  ELSE IF Oldest = "E" THEN Erased ELSE Program(flash, Oldest)

\* What the sector holds when nothing is pending any more.
Settled ==
  LET now    == IF locked # NONE THEN result ELSE flash
      erased == IF pendErase THEN Erased ELSE now
  IN  IF pendWrite # NONE THEN Program(erased, pendWrite) ELSE erased

LastIsWrite == pendWrite # NONE \/ (locked \in Data /\ ~pendErase)

\* norflash_api_flush starts the oldest operation and is suspended in it.
FlashSuspend ==
  /\ locked = NONE /\ Pending
  /\ locked' = Oldest
  /\ result' = Outcome
  /\ flash' = IF Outcome = flash /\ Oldest # "E" THEN flash ELSE Garbled
  /\ IF Oldest = "E" THEN pendErase' = FALSE /\ UNCHANGED pendWrite
     ELSE pendWrite' = NONE /\ UNCHANGED pendErase
  /\ UNCHANGED <<records, asserted, pc, arg, bounds>>

\* nv_callback compares nothing while the records wait for another flush.
CallbackSkips == isUpdate

\* norflash_api_flush ends the oldest operation, and calls nv_callback, which
\* after the last write compares the CRC of the flash with that of the header.
FlashFinish ==
  /\ Pending
  /\ flash' = Outcome /\ locked' = NONE
  /\ IF locked # NONE THEN UNCHANGED <<pendErase, pendWrite>>
     ELSE IF pendErase THEN pendErase' = FALSE /\ UNCHANGED pendWrite
     ELSE pendWrite' = NONE /\ UNCHANGED pendErase
  /\ asserted' = (asserted \/ /\ Oldest # "E" /\ ~pendErase' /\ pendWrite' = NONE
                              /\ ~CallbackSkips /\ Outcome # crc)
  /\ UNCHANGED <<records, result, pc, arg, bounds>>

-----------------------------------------------------------------------------
(* Opening *)

\* nv_record_open of valid records.
OpenValid(t) ==
  /\ flash \in Data
  /\ Step(t, "open", "idle")
  /\ ram' = flash /\ crc' = flash /\ config' = TRUE
  /\ isUpdate' = FALSE /\ state' = "IDLE"
  /\ UNCHANGED device

\* nv_record_open of invalid ones makes an empty pool, and nv_record_env_init
\* goes on to rebuild them.
OpenInvalid(t) ==
  /\ flash \notin Data
  /\ Step(t, "open", "rebuild")
  /\ ram' = Default /\ crc' = NONE /\ config' = TRUE
  /\ UNCHANGED <<isUpdate, state, device>>

\* nv_record_env_rebuild: nv_record_config_rebuild, nv_record_env_new, and then
\* nv_record_flash_flush.
Rebuild(t) ==
  /\ Step(t, "rebuild", "check")
  /\ ram' = Default /\ crc' = NONE /\ isUpdate' = TRUE
  /\ UNCHANGED <<config, state, device>>

\* app_nvrecord_rebuild: nv_record_sector_clear, a synchronous erase that first
\* ends what is pending, and nv_record_env_init.
SectorClear(t) ==
  /\ Rebuilding /\ Opened
  /\ updates < MaxUpdates /\ updates' = updates + 1
  /\ pc[t] = "idle" /\ Goto(t, "open")
  /\ flash' = Erased /\ locked' = NONE /\ pendErase' = FALSE /\ pendWrite' = NONE
  /\ asserted' = (asserted \/ (LastIsWrite /\ ~CallbackSkips /\ Settled # crc))
  /\ UNCHANGED <<records, result, arg, crashes>>

-----------------------------------------------------------------------------
(* Updating: most callers change the records and then set is_update.        *)

Update(t, d) ==
  /\ Opened /\ updates < MaxUpdates
  /\ pc[t] = "idle" /\ Goto(t, "flag")
  /\ ram' = d
  /\ updates' = updates + 1
  /\ UNCHANGED <<crc, config, isUpdate, state, device, arg, crashes>>

\* The records are changed but not flagged.
BugUpdateFlag(t) ==
  /\ Step(t, "flag", "idle")
  /\ UNCHANGED <<records, device>>

\* nv_record_update_runtime_userdata
UpdateFlag(t) ==
  /\ Step(t, "flag", "idle")
  /\ isUpdate' = TRUE
  /\ UNCHANGED <<ram, crc, config, state, device>>

\* nv_record_update_ibrt_info sets is_update and then goes on changing them.
UpdateIbrt(t, d) ==
  /\ Opened /\ updates < MaxUpdates
  /\ pc[t] = "idle" /\ Goto(t, "store")
  /\ isUpdate' = TRUE
  /\ arg' = [arg EXCEPT ![t] = d]
  /\ updates' = updates + 1
  /\ UNCHANGED <<ram, crc, config, state, device, crashes>>

UpdateStore(t) ==
  /\ Step(t, "store", "idle")
  /\ ram' = arg[t]
  /\ UNCHANGED <<crc, config, isUpdate, state, device>>

-----------------------------------------------------------------------------
(* nv_record_flash_flush_int(true), from the idle thread: every other thread *)
(* waits, and the whole call holds the global lock.                          *)

Quiet == \A t \in Threads : pc[t] = "idle"

SleepCan == Quiet /\ config /\ isUpdate

\* Erase if none was queued yet, then write, and both are accepted.
SleepFlush ==
  /\ SleepCan
  /\ IF state = "IDLE"
     THEN pendErase' = (locked # "E") /\ pendWrite' = ram
     ELSE NfWrite(ram)
  /\ crc' = ram
  /\ isUpdate' = FALSE /\ state' = "IDLE"
  /\ UNCHANGED <<ram, config, flash, locked, result, asserted, pc, arg, bounds>>

\* The erase is accepted, or was by an earlier call, and the write is not: the
\* nodes and the buffer the erase freed do not suffice.
SleepFlushFull ==
  /\ SleepCan
  /\ crc' = ram
  /\ IF state = "IDLE" THEN NfErase /\ ~(pendWrite # NONE /\ (pendErase \/ locked = "E"))
     ELSE NfWriteFull /\ UNCHANGED <<pendErase, pendWrite>>
  /\ state' = "ERASED"
  /\ UNCHANGED <<ram, config, isUpdate, flash, locked, result, asserted, pc, arg, bounds>>

-----------------------------------------------------------------------------
(* nv_record_flash_flush_int(false): each call of norflash_api is made under *)
(* the lock, what it returns is acted upon after the lock is released.       *)

FlushBegin(t) ==
  /\ t \in Flushers /\ Opened
  /\ Step(t, "idle", "check")
  /\ UNCHANGED <<records, device>>

FlushCheck(t) ==
  /\ Step(t, "check", IF isUpdate THEN "test" ELSE "idle")
  /\ UNCHANGED <<records, device>>

FlushTest(t) ==
  /\ Step(t, "test", IF state = "IDLE" THEN "erase" ELSE "test2")
  /\ UNCHANGED <<records, device>>

FlushErase(t) ==
  /\ Step(t, "erase", "erased")
  /\ NfErase
  /\ UNCHANGED <<records, flash, locked, result, asserted>>

FlushEraseFull(t) ==
  /\ NfEraseFull
  /\ Step(t, "erase", "eraseWait")
  /\ UNCHANGED <<records, device>>

\* It flushes, FlashSuspend and FlashFinish, until an operation can be queued.
FlushEraseRetry(t) ==
  /\ Step(t, "eraseWait", "erase")
  /\ UNCHANGED <<records, device>>

FlushErased(t) ==
  /\ Step(t, "erased", "test2")
  /\ state' = "ERASED"
  /\ UNCHANGED <<ram, crc, config, isUpdate, device>>

FlushTest2(t) ==
  /\ Step(t, "test2", IF state = "ERASED" THEN "write" ELSE "idle")
  /\ UNCHANGED <<records, device>>

FlushWrite(t) ==
  /\ Step(t, "write", "wrote")
  /\ NfWrite(ram) /\ crc' = ram
  /\ UNCHANGED <<ram, config, isUpdate, state, flash, locked, result, asserted>>

FlushWriteFull(t) ==
  /\ NfWriteFull
  /\ Step(t, "write", "writeWait")
  /\ crc' = ram
  /\ UNCHANGED <<ram, config, isUpdate, state, device>>

FlushWriteRetry(t) ==
  /\ Step(t, "writeWait", "write")
  /\ UNCHANGED <<records, device>>

FlushWrote(t) ==
  /\ Step(t, "wrote", "reset")
  /\ isUpdate' = FALSE
  /\ UNCHANGED <<ram, crc, config, state, device>>

\* The state is not put back, so the next flush does not erase.
BugFlushReset(t) ==
  /\ Step(t, "reset", "drain")
  /\ UNCHANGED <<records, device>>

FlushReset(t) ==
  /\ Step(t, "reset", "drain")
  /\ state' = "IDLE"
  /\ UNCHANGED <<ram, crc, config, isUpdate, device>>

\* The last write is left to whoever flushes next.
BugDrained == TRUE

Drained == ~Pending

\* It flushes until none of this module's operations is left.
FlushDrained(t) ==
  /\ Drained
  /\ Step(t, "drain", "idle")
  /\ UNCHANGED <<records, device>>

-----------------------------------------------------------------------------
\* Power fails and comes back: what is in RAM is gone, the flash is as it is.
PowerLoss ==
  /\ crashes < MaxCrashes /\ crashes' = crashes + 1
  /\ ram' = Default /\ crc' = NONE /\ config' = FALSE /\ isUpdate' = FALSE /\ state' = "IDLE"
  /\ locked' = NONE /\ pendErase' = FALSE /\ pendWrite' = NONE
  /\ pc' = [t \in Threads |-> IF t = Main THEN "open" ELSE "idle"]
  /\ UNCHANGED <<flash, result, asserted, arg, updates>>

FlushStep(t) ==
  \/ FlushCheck(t) \/ FlushTest(t)
  \/ FlushErase(t) \/ FlushEraseFull(t) \/ FlushEraseRetry(t) \/ FlushErased(t)
  \/ FlushTest2(t)
  \/ FlushWrite(t) \/ FlushWriteFull(t) \/ FlushWriteRetry(t) \/ FlushWrote(t)
  \/ FlushReset(t) \/ FlushDrained(t)

Continue(t) ==
  OpenValid(t) \/ OpenInvalid(t) \/ Rebuild(t) \/ UpdateFlag(t) \/ UpdateStore(t) \/ FlushStep(t)

Call(t) == SectorClear(t) \/ FlushBegin(t) \/ \E d \in Data : Update(t, d) \/ UpdateIbrt(t, d)

Next ==
  \/ FlashSuspend \/ FlashFinish
  \/ SleepFlush \/ SleepFlushFull
  \/ \E t \in Threads : Call(t) \/ Continue(t)
  \/ PowerLoss

Spec == Init /\ [][Next]_vars

\* Threads run on; the idle thread runs and flushes; a full pool is not full
\* for ever, because the flushes of the other modules drain it as well.
Fairness ==
  /\ WF_vars(FlashFinish)
  /\ SF_vars(SleepFlush)
  /\ \A t \in Threads : /\ WF_vars(Continue(t))
                        /\ SF_vars(FlushErase(t)) /\ SF_vars(FlushWrite(t))

FairSpec == Spec /\ Fairness

-----------------------------------------------------------------------------
(* Properties *)

\* nv_callback: ASSERT(crc == recrc).  Whatever was updated, refused, suspended
\* and retried, the last write leaves in flash what the header's CRC is of.
CrcMatches == ~asserted

\* The sector is invalid only while something is there to write it: a queued
\* write, or records that are still marked as changed.  So a flush that was
\* refused, interrupted or overtaken by an update leaves no blank sector behind.
RewriteFollows ==
  config /\ flash \notin Data =>
    \/ isUpdate \/ pendWrite # NONE \/ locked \in Data
    \/ \E t \in Threads : pc[t] \in {"open", "rebuild"}

\* Records that are not marked as changed are, once the queue has drained, what
\* the flash holds.  It is stated where no thread is inside a call; the flag is
\* reset outside the lock, so it needs the updates to be made by the thread that
\* flushes, or by the sleep hook.
NothingForgotten == Quiet /\ config /\ ~isUpdate => Settled = ram

\* A flush that wrote returns with a valid image in flash, the one it wrote.
FlushIsDurable ==
  [][\A t \in Threads : pc[t] = "drain" /\ pc'[t] = "idle" /\ config' =>
       flash = crc /\ flash \in Data]_vars

\* When the updates stop, the flash ends up holding the records.
EventuallySaved == <>[](config /\ flash = ram)

-----------------------------------------------------------------------------
(* The inductive invariant, where only Main calls nv_record_flash_flush.    *)

\* The sector is erased, or will be when the queue has got to the write.
Base == pendErase \/ locked = "E" \/ (locked = NONE /\ flash = Erased)

ThreadsInv ==
  /\ \A t \in Threads : t # Main => pc[t] \in {"idle", "flag", "store"}
  /\ pc[Main] \in {"open", "rebuild"} => ~Pending
  /\ pc[Main] \in {"test", "erase", "eraseWait", "erased", "test2", "write", "writeWait", "wrote"}
       => isUpdate
  /\ pc[Main] \in {"erase", "eraseWait", "erased"} => state = "IDLE"
  /\ pc[Main] \in {"test2", "write", "writeWait", "wrote", "reset"} => state = "ERASED"

QueueInv ==
  /\ locked = "E" => result = Erased
  /\ locked \in Data => result = locked
  /\ pendWrite # NONE => Base
  /\ pc[Main] = "erased" \/ (state = "ERASED" /\ pc[Main] \notin {"wrote", "reset"})
       => Base /\ pendWrite = NONE
  /\ pendErase \/ locked = "E" => isUpdate \/ pendWrite # NONE

\* What was last queued is what the header describes.
CrcInv ==
  /\ ~isUpdate /\ pendWrite # NONE => pendWrite = crc
  /\ ~isUpdate /\ pendWrite = NONE /\ ~pendErase /\ locked \in Data => locked = crc
  /\ pc[Main] \in {"wrote", "reset", "drain"} =>
       \/ pendWrite # NONE /\ pendWrite = crc
       \/ pendWrite = NONE /\ ~pendErase /\ locked \in Data /\ locked = crc
       \/ ~Pending /\ flash = crc /\ crc \in Data

IInv == TypeOK /\ ThreadsInv /\ QueueInv /\ CrcInv /\ CrcMatches /\ RewriteFollows

\* If Main also makes all the updates: while the records are not marked, and
\* from the write on although they still are, the queue ends in what they hold.
SavedInv ==
  /\ pc[Main] = "store" => isUpdate
  /\ config /\ (pc[Main] = "wrote" \/ (~isUpdate /\ pc[Main] \in {"idle", "check", "reset", "drain"}))
       => Settled = ram

OwnInv == IInv /\ SavedInv
=============================================================================

----------------------------- MODULE NorflashApi -----------------------------
(***************************************************************************)
(* services/norflash_api/norflash_api.cpp on top of the suspendable device *)
(* of platform/hal/hal_norflash.c.                                         *)
(*                                                                         *)
(* Each registered module owns a list of pending erase and write nodes,    *)
(* newest first; a flush takes one step of the oldest node of the current  *)
(* module and may leave it suspended in the device.  Nodes come from one   *)
(* pool of OpLen slots, their sector copies from one pool of BuffLen       *)
(* buffers.  int_lock_global() is the variable cs: while a call holds the  *)
(* lock and still has steps to take, nobody else takes one.                *)
(***************************************************************************)
EXTENDS Integers, Sequences, FiniteSets

CONSTANTS
  NumModules,   \* NORFLASH_API_MODULE_ID_COUNT
  Sectors,      \* the sectors of all modules
  Owner,        \* the module that owns a sector
  Cells,        \* program pages in a sector
  Data,         \* what a client may program into a page
  FF, Mixed,    \* an erased page; a page the device is in the middle of
  OpLen,        \* NORFLASH_API_OPRA_LIST_LEN, the pool of nodes
  BuffLen,      \* NORFLASH_API_WRITE_BUFF_LEN, the pool of sector buffers
  Flushers,     \* threads that call norflash_api_flush()
  NONE,         \* a null pointer
  Interleaving, \* may a client erase a sector again behind its other sectors?
  Appending     \* may a client write to a sector while a write is in flight?

Modules == 0 .. NumModules - 1
Slots == 1 .. OpLen
Cell == Data \cup {FF, Mixed}
Sector == [1..Cells -> Cell]
ErasedSector == [c \in 1..Cells |-> FF]

ASSUME ModulesAssumption == NumModules \in Nat \ {0}
ASSUME OwnerAssumption == Owner \in [Sectors -> Modules]
ASSUME SizesAssumption ==
  /\ Cells \in Nat \ {0}
  /\ OpLen \in Nat \ {0}
  /\ BuffLen \in Nat
ASSUME ValuesAssumption == FF # Mixed /\ FF \notin Data /\ Mixed \notin Data
ASSUME NoneAssumption == NONE \notin Int /\ NONE \notin Sectors
ASSUME ClientAssumption == Interleaving \in BOOLEAN /\ Appending \in BOOLEAN

VARIABLES
  inited,   \* modules that registered
  queue,    \* mod_info[m].opera_info: slots, newest first
  node,     \* opera_info_list[i].opera_info
  used,     \* opera_info_list[i].is_used
  cur,      \* mod_info[m].cur_opera_info
  state,    \* mod_info[m].state
  curMod,   \* norflash_api_info.cur_mod
  curModId, \* norflash_api_info.cur_mod_id
  flash,    \* the memory-mapped contents
  dev,      \* hal_norflash.c: suspend_state and the operation it suspends
  picked,   \* the mod_info a flushing thread read before it took the lock
  cs,       \* the call inside int_lock_global()
  asserted  \* an ASSERT(0) was reached: the firmware stops

apiVars == <<inited, queue, node, used>>
flushVars == <<cur, state, curMod, curModId>>
devVars == <<flash, dev, asserted>>
vars == <<inited, queue, node, used, cur, state, curMod, curModId,
          flash, dev, picked, cs, asserted>>

-----------------------------------------------------------------------------
(* Types *)

Node == [type : {"W", "E"}, sec : Sectors \cup {NONE}, lo : 1..Cells,
         hi : 0..Cells, buf : Sector, lock : BOOLEAN]

EraseNode(s) == [type |-> "E", sec |-> s, lo |-> 1, hi |-> 0,
                 buf |-> ErasedSector, lock |-> FALSE]

\* A slot that is not in use: its bytes are stale and nobody reads them.
FreeNode == EraseNode(NONE)

DevIdle == [st |-> "NO", sec |-> NONE, at |-> 0, hi |-> 0, fin |-> FF]

DevState == [st : {"NO", "ERASE", "PROGRAM"}, sec : Sectors \cup {NONE},
             at : 0..Cells, hi : 0..Cells, fin : Cell]

Outside == [op |-> "none"]

InErase == [op : {"erase"}, sec : Sectors, pos : Nat \ {0}, gap : BOOLEAN]

InWrite == [op : {"write"}, sec : Sectors, lo : 1..Cells, hi : 1..Cells, val : Data]

InSync == [op : {"sync"}, type : {"W", "E"}, sec : Sectors,
           lo : 1..Cells, hi : 0..Cells, val : Data \cup {FF}]

TypeOK ==
  /\ inited \subseteq Modules
  /\ queue \in [Modules -> Seq(Slots)]
  /\ node \in [Slots -> Node]
  /\ used \subseteq Slots
  /\ cur \in [Modules -> Slots \cup {NONE}]
  /\ state \in [Modules -> {"IDLE", "WRITTING_SUSPEND", "ERASE_SUSPEND"}]
  /\ curMod \in Modules \cup {NONE}
  /\ curModId \in 0..NumModules
  /\ flash \in [Sectors -> Sector]
  /\ dev \in DevState
  /\ picked \in [Flushers -> Modules \cup {NONE}]
  /\ cs \in {Outside} \cup InErase \cup InWrite \cup InSync
  /\ asserted \in BOOLEAN

Init ==
  /\ inited = {}
  /\ queue = [m \in Modules |-> <<>>]
  /\ node = [i \in Slots |-> FreeNode]
  /\ used = {}
  /\ cur = [m \in Modules |-> NONE]
  /\ state = [m \in Modules |-> "IDLE"]
  /\ curMod = NONE
  /\ curModId = NumModules
  /\ flash \in [Sectors -> [1..Cells -> Data \cup {FF}]]
  /\ dev = DevIdle
  /\ picked = [f \in Flushers |-> NONE]
  /\ cs = Outside
  /\ asserted = FALSE

-----------------------------------------------------------------------------
(* The lists: every walk starts at the newest node.                        *)
(* An operator whose name begins with Bug is a wrong variant of the one     *)
(* that follows it; only the sensitivity runs use it.                       *)

MinOf(S) == CHOOSE p \in S : \A q \in S : p <= q

\* Positions in the owner's list of the nodes for sector s.
Hits(s) == {p \in 1..Len(queue[Owner[s]]) : node[queue[Owner[s]][p]].sec = s}

NodeAt(s, p) == node[queue[Owner[s]][p]]

\* The walk goes on to the oldest node of the sector.
BugView(s) ==
  IF Hits(s) = {} THEN flash[s]
  ELSE LET n == NodeAt(s, CHOOSE p \in Hits(s) : \A q \in Hits(s) : p >= q)
       IN  IF n.type = "W" THEN n.buf ELSE ErasedSector

\* _opera_read: the newest node of the sector decides, else the flash.
View(s) ==
  IF Hits(s) = {} THEN flash[s]
  ELSE LET n == NodeAt(s, MinOf(Hits(s)))
       IN  IF n.type = "W" THEN n.buf ELSE ErasedSector

\* The search runs one slot past the pool.
BugFreeSlots == (1 .. OpLen + 1) \ used

\* _norflash_api_malloc takes the first free slot.
FreeSlots == Slots \ used
FreeBuffers == BuffLen - Cardinality({i \in used : node[i].type = "W"})

WithoutPos(q, p) == [k \in 1..(Len(q) - 1) |-> IF k < p THEN q[k] ELSE q[k + 1]]

\* pre_node->next is not cleared.
BugBefore(q, i) == q

\* What is queued behind slot i is lost with it.
BugBeforeNone(q, i) == <<>>

\* A list that ends before slot i, which _opera_del truncates it at.
Before(q, i) ==
  IF \E p \in 1..Len(q) : q[p] = i
  THEN SubSeq(q, 1, MinOf({p \in 1..Len(q) : q[p] = i}) - 1)
  ELSE q

-----------------------------------------------------------------------------
(* The device: hal_norflash.c.  An operation runs page by page with the     *)
(* interrupts off and is suspended, when it may be, at an arbitrary page.   *)

\* Programming clears bits: over a page that is not erased it leaves neither.
Programmed(old, new) ==
  IF old = FF THEN new ELSE IF new \in {FF, old} THEN old ELSE Mixed

ProgramRange(sector, buf, lo, hi) ==
  [c \in 1..Cells |->
     IF c \in lo..hi THEN Programmed(sector[c], buf[c]) ELSE sector[c]]

\* A page in the middle of being programmed from old to new.
InFlight(old, new) == IF old = new THEN old ELSE Mixed

\* The device completes page c of sector s, resumed or not.
FinishPage(s) == [flash[s] EXCEPT ![dev.at] = dev.fin]

\* hal_norflash_*_suspend and *_resume return HAL_NORFLASH_BAD_OP unless the
\* device is suspended in just the operation the caller believes it to be in.
DevReady(st, type) ==
  CASE st = "IDLE"             -> dev.st = "NO"
    [] st = "WRITTING_SUSPEND" -> dev.st = "PROGRAM" /\ type = "W"
    [] st = "ERASE_SUSPEND"    -> dev.st = "ERASE" /\ type = "E"

\* The contents of the sector at work, and the pages still to program, when the
\* call for node n starts or resumes.
WorkSector(n, st) == IF st = "IDLE" THEN n.sec ELSE dev.sec
WorkFrom(n, st) == IF st = "IDLE" THEN n.lo ELSE dev.at + 1
WorkTo(n, st) == IF st = "IDLE" THEN n.hi ELSE dev.hi

\* The page that was in flight is not completed.
BugWorkBase(n, st) == flash[WorkSector(n, st)]

WorkBase(n, st) == IF st = "IDLE" THEN flash[n.sec] ELSE FinishPage(dev.sec)

\* The device runs the rest of the operation of node n to its end.
DevComplete(n, st) ==
  /\ dev' = DevIdle
  /\ flash' = [flash EXCEPT ![WorkSector(n, st)] =
                 IF n.type = "E" THEN ErasedSector
                 ELSE ProgramRange(WorkBase(n, st), n.buf,
                                   WorkFrom(n, st), WorkTo(n, st))]

\* It is suspended while it programs page k, the pages before k are done.
DevSuspendWrite(n, st, k) ==
  LET done == ProgramRange(WorkBase(n, st), n.buf, WorkFrom(n, st), k - 1)
      fin  == Programmed(done[k], n.buf[k])
  IN  /\ flash' = [flash EXCEPT ![WorkSector(n, st)] =
                     [done EXCEPT ![k] = InFlight(done[k], fin)]]
      /\ dev' = [st |-> "PROGRAM", sec |-> WorkSector(n, st), at |-> k,
                 hi |-> WorkTo(n, st), fin |-> fin]

\* It is suspended while it erases: no page of the sector can be relied on.
DevSuspendErase(n, st) ==
  /\ flash' = [flash EXCEPT ![WorkSector(n, st)] = [c \in 1..Cells |-> Mixed]]
  /\ dev' = [st |-> "ERASE", sec |-> WorkSector(n, st), at |-> 0, hi |-> 0, fin |-> FF]

-----------------------------------------------------------------------------
(* Flushing *)

HasOp(m) == cur[m] # NONE \/ queue[m] # <<>>

\* _get_tail: the oldest node.
OpOf(m) == IF cur[m] # NONE THEN cur[m] ELSE queue[m][Len(queue[m])]

\* Taking a node to work on locks it.
Taken(i) == [node EXCEPT ![i].lock = TRUE]

\* _opera_flush up to __opera_is_completed: the operation ends, its node and
\* buffer go back to the pools.
FlushDone(m) ==
  LET i == OpOf(m)
      n == node[i]
  IN  /\ HasOp(m)
      /\ IF DevReady(state[m], n.type)
         THEN /\ DevComplete(n, state[m])
              /\ queue' = [queue EXCEPT ![m] = Before(@, i)]
              /\ used' = used \ {i}
              /\ node' = [node EXCEPT ![i] = FreeNode]
              /\ cur' = [cur EXCEPT ![m] = NONE]
              /\ state' = [state EXCEPT ![m] = "IDLE"]
              /\ UNCHANGED asserted
         ELSE /\ asserted' = TRUE
              /\ cur' = [cur EXCEPT ![m] = i]
              /\ node' = Taken(i)
              /\ UNCHANGED <<queue, used, state, flash, dev>>

\* _opera_flush with HAL_NORFLASH_SUSPENDED: the node stays, locked.
FlushSuspend(m) ==
  LET i == OpOf(m)
      n == node[i]
  IN  /\ HasOp(m)
      /\ DevReady(state[m], n.type)
      /\ \/ /\ n.type = "W"
            /\ \/ \E k \in WorkFrom(n, state[m])..WorkTo(n, state[m]) :
                    DevSuspendWrite(n, state[m], k)
               \/ state[m] # "IDLE" /\ UNCHANGED <<flash, dev>>
            /\ state' = [state EXCEPT ![m] = "WRITTING_SUSPEND"]
         \/ /\ n.type = "E"
            /\ DevSuspendErase(n, state[m])
            /\ state' = [state EXCEPT ![m] = "ERASE_SUSPEND"]
      /\ cur' = [cur EXCEPT ![m] = i]
      /\ node' = Taken(i)
      /\ UNCHANGED <<queue, used, asserted>>

\* _get_cur_mod: the current module as long as there is one, else the next
\* registered module with pending nodes after the last one, round the ring.
Distance(m) == (m - curModId - 1 + (IF curModId = NumModules THEN 1 ELSE 0)) % NumModules

Waiting == {m \in inited : queue[m] # <<>>}

\* A suspended module does not stay the current one.
BugNextModule ==
  IF Waiting = {} THEN NONE
  ELSE CHOOSE m \in Waiting : \A k \in Waiting : Distance(m) <= Distance(k)

NextModule ==
  IF curMod # NONE THEN curMod
  ELSE IF Waiting = {} THEN NONE
  ELSE CHOOSE m \in Waiting : \A k \in Waiting : Distance(m) <= Distance(k)

\* The module stays current when its list has run empty.
BugCurModAfter(m) == m

\* cur_mod once _opera_flush(m, false) has returned.
CurModAfter(m) == IF HasOp(m) THEN m ELSE NONE

\* The part of norflash_api_flush under the lock.
FlushLocked(m) ==
  /\ curModId' = m
  /\ curMod' = CurModAfter(m)
  /\ \/ FlushDone(m)
     \/ FlushSuspend(m)
     \/ ~HasOp(m) /\ UNCHANGED <<queue, node, used, cur, state, flash, dev, asserted>>
  /\ UNCHANGED <<inited, cs>>

Unlocked == cs = Outside /\ ~asserted

\* A thread reads mod_info before it locks ...
FlushPick(f) ==
  /\ Unlocked
  /\ picked[f] = NONE
  /\ NextModule # NONE
  /\ picked' = [picked EXCEPT ![f] = NextModule]
  /\ UNCHANGED <<apiVars, flushVars, devVars, cs>>

\* ... and whatever happened in between, flushes that module.
FlushThread(f) ==
  /\ Unlocked
  /\ picked[f] # NONE
  /\ FlushLocked(picked[f])
  /\ picked' = [picked EXCEPT ![f] = NONE]

\* The sleep hook of the idle thread: interrupts are off from before the pick
\* to after the flush, and no thread is ready, so none is inside a flush.
FlushIdle ==
  /\ Unlocked
  /\ \A f \in Flushers : picked[f] = NONE
  /\ IF NextModule = NONE THEN UNCHANGED vars
     ELSE FlushLocked(NextModule) /\ UNCHANGED picked

-----------------------------------------------------------------------------
(* Client calls *)

\* norflash_api_register: the list starts empty.
Register(m) ==
  /\ Unlocked
  /\ m \notin inited
  /\ inited' = inited \cup {m}
  /\ queue' = [queue EXCEPT ![m] = <<>>]
  /\ cur' = [cur EXCEPT ![m] = NONE]
  /\ state' = [state EXCEPT ![m] = "IDLE"]
  /\ UNCHANGED <<node, used, curMod, curModId, devVars, picked, cs>>

\* A request a client makes: erased pages only, and of a registered module.
Request(s, lo, hi) ==
  /\ Unlocked
  /\ Owner[s] \in inited
  /\ lo <= hi
  /\ \A c \in lo..hi : View(s)[c] = FF

\* The nodes at which the walk of _w_opera_add stops: a pending erase, or a
\* write it may still change.
Mergeable(n) == n.type = "E" \/ ~n.lock

Stops(s) == {p \in Hits(s) : Mergeable(NodeAt(s, p))}

Overwritten(buf, lo, hi, v) == [c \in 1..Cells |-> IF c \in lo..hi THEN v ELSE buf[c]]

\* The request is merged into the newest write of the sector.
WriteMerge(s, lo, hi, v) ==
  LET i == queue[Owner[s]][MinOf(Stops(s))]
      n == node[i]
  IN  /\ Stops(s) # {}
      /\ n.type = "W"
      /\ node' = [node EXCEPT ![i] =
                    [type |-> n.type, sec |-> n.sec,
                     lo |-> IF n.lo <= lo THEN n.lo ELSE lo,
                     hi |-> IF n.hi >= hi THEN n.hi ELSE hi,
                     buf |-> Overwritten(n.buf, lo, hi, v), lock |-> n.lock]]
      /\ UNCHANGED <<inited, queue, used>>

\* A pending erase is overlooked.
BugWriteBase(s) == flash[s]

\* What a new sector buffer holds before the request is copied into it.
WriteBase(s) == IF Stops(s) # {} THEN ErasedSector ELSE flash[s]

\* A new node at the head; BUFFER_FULL, and nothing changed, if a pool is empty.
WriteNew(s, lo, hi, v) ==
  LET m == Owner[s]
      i == MinOf(FreeSlots)
  IN  /\ Stops(s) # {} => NodeAt(s, MinOf(Stops(s))).type = "E"
      /\ IF FreeSlots # {} /\ FreeBuffers > 0
         THEN /\ node' = [node EXCEPT ![i] =
                            [type |-> "W", sec |-> s, lo |-> lo, hi |-> hi,
                             buf |-> Overwritten(WriteBase(s), lo, hi, v),
                             lock |-> FALSE]]
              /\ used' = used \cup {i}
              /\ queue' = [queue EXCEPT ![m] = <<i>> \o @]
         ELSE UNCHANGED <<node, used, queue>>
      /\ UNCHANGED inited

\* norflash_api_write(..., async = true) takes the lock ...
WriteAsync(s, lo, hi, v) ==
  /\ Request(s, lo, hi)
  /\ Appending \/ Stops(s) # {} \/ Hits(s) = {}
  /\ cs' = [op |-> "write", sec |-> s, lo |-> lo, hi |-> hi, val |-> v]
  /\ UNCHANGED <<apiVars, flushVars, devVars, picked>>

\* ... and _w_opera_add either merges the request or queues it.
WriteAdd ==
  /\ cs.op = "write" /\ ~asserted
  /\ \/ WriteMerge(cs.sec, cs.lo, cs.hi, cs.val)
     \/ WriteNew(cs.sec, cs.lo, cs.hi, cs.val)
  /\ cs' = Outside
  /\ UNCHANGED <<flushVars, devVars, picked>>

\* norflash_api_erase(..., async = true) takes the lock and enters _e_opera_add.
EraseAsync(s) ==
  /\ Unlocked
  /\ Owner[s] \in inited
  /\ \/ Interleaving
     \/ Hits(s) = {}
     \/ Hits(s) = 1..Len(queue[Owner[s]])
  /\ cs' = [op |-> "erase", sec |-> s, pos |-> 1, gap |-> FALSE]
  /\ UNCHANGED <<apiVars, flushVars, devVars, picked>>

Walking == cs.op = "erase" /\ cs.pos <= Len(queue[Owner[cs.sec]]) /\ ~asserted

\* The node being flushed is removed as well.
BugRemovable(n, s) == n.sec = s

\* Pending erases are left in the list.
BugRemovableWrite(n, s) == n.sec = s /\ ~n.lock /\ n.type = "W"

\* The sector of a pending node is not compared.
BugRemovableAny(n, s) == ~n.lock

Removable(n, s) == n.sec = s /\ ~n.lock

ErasePending(n, s) == n.sec = s /\ n.lock /\ n.type = "E"

NextNode == [op |-> "erase", sec |-> cs.sec, pos |-> cs.pos + 1, gap |-> FALSE]

\* One iteration that frees the node.  It unlinks it from the head of the list
\* or from pre_node; but pre_node is a node already taken out of the list if
\* the iteration before removed one (cs.gap), and then the list still holds
\* the node this one frees.
WalkRemove ==
  LET m == Owner[cs.sec]
      i == queue[m][cs.pos]
      unlinks == cs.pos = 1 \/ ~cs.gap
  IN  /\ Walking
      /\ Removable(node[i], cs.sec)
      /\ used' = used \ {i}
      /\ IF unlinks
         THEN /\ queue' = [queue EXCEPT ![m] = WithoutPos(@, cs.pos)]
              /\ node' = [node EXCEPT ![i] = FreeNode]
              /\ cs' = [cs EXCEPT !.gap = TRUE]
         ELSE /\ cs' = NextNode
              /\ UNCHANGED <<queue, node>>
      /\ UNCHANGED <<inited, flushVars, devVars, picked>>

\* An erase of the sector is already under way: this one is merged into it.
WalkMerge ==
  /\ Walking
  /\ ErasePending(node[queue[Owner[cs.sec]][cs.pos]], cs.sec)
  /\ cs' = Outside
  /\ UNCHANGED <<apiVars, flushVars, devVars, picked>>

WalkOn ==
  LET n == node[queue[Owner[cs.sec]][cs.pos]]
  IN  /\ Walking
      /\ ~Removable(n, cs.sec) /\ ~ErasePending(n, cs.sec)
      /\ cs' = NextNode
      /\ UNCHANGED <<apiVars, flushVars, devVars, picked>>

\* The end of the list: the erase becomes the newest node, or BUFFER_FULL.
WalkEnd ==
  LET i == MinOf(FreeSlots)
  IN  /\ cs.op = "erase" /\ cs.pos > Len(queue[Owner[cs.sec]]) /\ ~asserted
      /\ IF FreeSlots # {}
         THEN /\ node' = [node EXCEPT ![i] = EraseNode(cs.sec)]
              /\ used' = used \cup {i}
              /\ queue' = [queue EXCEPT ![Owner[cs.sec]] = <<i>> \o @]
         ELSE UNCHANGED <<node, used, queue>>
      /\ cs' = Outside
      /\ UNCHANGED <<inited, flushVars, devVars, picked>>

\* A synchronous call takes the lock.
EraseSync(s) ==
  /\ Unlocked
  /\ Owner[s] \in inited
  /\ cs' = [op |-> "sync", type |-> "E", sec |-> s, lo |-> 1, hi |-> 0, val |-> FF]
  /\ UNCHANGED <<apiVars, flushVars, devVars, picked>>

WriteSync(s, lo, hi, v) ==
  /\ Request(s, lo, hi)
  /\ cs' = [op |-> "sync", type |-> "W", sec |-> s, lo |-> lo, hi |-> hi, val |-> v]
  /\ UNCHANGED <<apiVars, flushVars, devVars, picked>>

\* The module another one must finish first: the current module, suspended.
Foreign ==
  /\ curMod \notin {NONE, Owner[cs.sec]}
  /\ state[curMod] # "IDLE"

InSyncCall == cs.op = "sync" /\ ~asserted

\* One _opera_flush(cur_mod_info, true) of the first loop ...
SyncForeign ==
  /\ InSyncCall /\ Foreign
  /\ FlushDone(curMod)
  /\ UNCHANGED <<inited, curMod, curModId, picked, cs>>

\* ... and one _opera_flush(mod_info, true) of the second.
SyncDrain ==
  /\ InSyncCall /\ ~Foreign
  /\ FlushDone(Owner[cs.sec])
  /\ UNCHANGED <<inited, curMod, curModId, picked, cs>>

\* The list is empty: hal_norflash_erase or hal_norflash_write, not suspended.
\* A device suspended elsewhere refuses it and the client is told.
SyncFinish ==
  LET n == [type |-> cs.type, sec |-> cs.sec, lo |-> cs.lo, hi |-> cs.hi,
            buf |-> [c \in 1..Cells |-> cs.val], lock |-> FALSE]
  IN  /\ InSyncCall /\ ~Foreign
      /\ ~HasOp(Owner[cs.sec])
      /\ IF dev.st = "NO" THEN DevComplete(n, "IDLE") ELSE UNCHANGED <<flash, dev>>
      /\ cs' = Outside
      /\ UNCHANGED <<apiVars, flushVars, picked, asserted>>

-----------------------------------------------------------------------------
Client ==
  \/ \E m \in Modules : Register(m)
  \/ \E s \in Sectors : EraseAsync(s) \/ EraseSync(s)
  \/ \E s \in Sectors, lo, hi \in 1..Cells, v \in Data :
       WriteAsync(s, lo, hi, v) \/ WriteSync(s, lo, hi, v)

Flush == FlushIdle \/ \E f \in Flushers : FlushPick(f) \/ FlushThread(f)

Locked == WriteAdd \/ WalkRemove \/ WalkMerge \/ WalkOn \/ WalkEnd
          \/ SyncForeign \/ SyncDrain \/ SyncFinish

Next == Client \/ Flush \/ Locked

Spec == Init /\ [][Next]_vars

\* A call that holds the lock runs on; the flusher runs whenever the clients
\* leave the processor idle; each turn moves the device on, so that it is not
\* suspended for ever in one operation.
Fairness ==
  /\ WF_vars(Locked)
  /\ WF_vars(FlushIdle)
  /\ \A f \in Flushers : WF_vars(FlushThread(f))
  /\ \A m \in Modules : SF_vars(FlushIdle /\ FlushDone(m))

FairSpec == Spec /\ Fairness

-----------------------------------------------------------------------------
(* Properties *)

\* No ASSERT(0) of _opera_flush is reached: whenever a module flushes, the
\* device is in the state its own list and state field say.
NoAssert == ~asserted

\* A list holds only nodes of its module that are allocated, once each, and
\* every allocated node is in a list: nothing is freed while linked, nothing
\* is leaked, whatever erases removed and flushes truncated.
LinksOwned ==
  \A m \in Modules : \A p \in 1..Len(queue[m]) :
    /\ queue[m][p] \in used
    /\ node[queue[m][p]].sec \in Sectors
    /\ Owner[node[queue[m][p]].sec] = m

LinkedOnce ==
  \A m \in Modules : \A p, q \in 1..Len(queue[m]) : queue[m][p] = queue[m][q] => p = q

NothingLeaked ==
  \A i \in used : \E m \in Modules : \E p \in 1..Len(queue[m]) : queue[m][p] = i

ListsOwnTheirNodes == LinksOwned /\ LinkedOnce /\ NothingLeaked

\* _e_opera_add: "delete opera nodes with the same address when add the erase
\* opera node."  When its walk has reached the end of the list, the only node
\* of the sector left is one that is being flushed.
EraseDeletes ==
  cs.op = "erase" /\ cs.pos > Len(queue[Owner[cs.sec]])
    => \A p \in Hits(cs.sec) : NodeAt(cs.sec, p).lock

\* While the device is suspended, the module in charge is the current one, its
\* state names the operation, and the operation belongs to its oldest node,
\* which is locked; while it is not, no module believes it is.
SuspendedByCurrent ==
  /\ \A m \in Modules : state[m] # "IDLE" =>
       /\ curMod = m
       /\ queue[m] # <<>> /\ cur[m] = queue[m][Len(queue[m])]
       /\ node[cur[m]].lock
       /\ node[cur[m]].sec = dev.sec
       /\ IF node[cur[m]].type = "W"
          THEN state[m] = "WRITTING_SUSPEND" /\ dev.st = "PROGRAM"
          ELSE state[m] = "ERASE_SUSPEND" /\ dev.st = "ERASE"
  /\ dev.st # "NO" => \E m \in Modules : state[m] # "IDLE"

\* A page that is neither old nor new is one the suspended operation owns: no
\* accepted sequence of calls programs over a page twice with different data.
DamageOnlyInFlight ==
  \A s \in Sectors, c \in 1..Cells :
    flash[s][c] = Mixed =>
      /\ dev.sec = s
      /\ dev.st = "ERASE" \/ (dev.st = "PROGRAM" /\ dev.at = c)

\* norflash_api.h on norflash_api_read: "read flash buffer or flash,priority
\* read flash buffer."  Pages of an accepted write that no later call erased
\* read back from its buffer until they are in the flash.
ReadsBuffer ==
  \A s \in Sectors : \A p \in Hits(s) :
    LET n == NodeAt(s, p)
    IN  n.type = "W" /\ (\A q \in Hits(s) : q < p => NodeAt(s, q).type = "W")
        => \A c \in n.lo..n.hi : View(s)[c] = n.buf[c]

\* The store the clients see: an asynchronous erase counts from the moment
\* nothing can refuse it any more, everything else from the call's last step.
StoreActed == cs.op = "erase" /\ FreeSlots # {}

StoreContent ==
  [s \in Sectors |-> IF StoreActed /\ cs.sec = s THEN ErasedSector ELSE View(s)]

\* The call that holds the lock, as the client made it.
ClientCall(c) ==
  CASE c.op = "none" -> Outside
    [] c.op = "erase" \/ (c.op = "sync" /\ c.type = "E") ->
         [op |-> "erase", sec |-> c.sec]
    [] c.op = "write" \/ (c.op = "sync" /\ c.type = "W") ->
         [op |-> "write", sec |-> c.sec, lo |-> c.lo, hi |-> c.hi, val |-> c.val]

\* Only a queued request can be refused, by a pool that has nothing left.
PoolsFull ==
  /\ cs.op \in {"erase", "write"}
  /\ FreeSlots = {} \/ (cs.op = "write" /\ ~(FreeBuffers > 0))

Store == INSTANCE FlashStore
         WITH content <- StoreContent, call <- ClientCall(cs),
              acted <- StoreActed, full <- PoolsFull

\* The contents the clients see change only inside a call, and by what it asks
\* for: a flush, a suspension or a resumption changes nothing, no call returns
\* accepted without its effect, and one that is refused, for want of a node or
\* a buffer, has changed nothing.
ImplementsStore == Store!StoreSpec

\* Once the clients fall silent every pending operation reaches the flash.
Drained == \A m \in Modules : queue[m] = <<>> /\ state[m] = "IDLE"

QuietDrains == <>[][~Client]_vars => <>[]Drained

=============================================================================

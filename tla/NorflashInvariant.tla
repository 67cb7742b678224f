-------------------------- MODULE NorflashInvariant --------------------------
(***************************************************************************)
(* The inductive invariant of NorflashApi: what a flush relies on when it   *)
(* takes up a suspended operation, and what the lists look like meanwhile.  *)
(***************************************************************************)
EXTENDS NorflashApi

\* The oldest node of a list is the only one that can be locked, and it is
\* locked exactly while the module works on it.
OldestTaken ==
  \A m \in Modules :
    /\ cur[m] # NONE => queue[m] # <<>> /\ cur[m] = queue[m][Len(queue[m])]
    /\ \A p \in 1..Len(queue[m]) : node[queue[m][p]].lock <=> cur[m] = queue[m][p]

\* A module that has not registered has no nodes.
UnregisteredEmpty ==
  \A m \in Modules \ inited : queue[m] = <<>>

ListInv == ListsOwnTheirNodes /\ OldestTaken /\ UnregisteredEmpty

\* Who the device is suspended for.
SuspendInv ==
  /\ \A m \in Modules : state[m] # "IDLE" =>
       /\ curMod = m
       /\ cur[m] # NONE
       /\ node[cur[m]].sec = dev.sec
       /\ IF node[cur[m]].type = "W"
          THEN state[m] = "WRITTING_SUSPEND" /\ dev.st = "PROGRAM"
          ELSE state[m] = "ERASE_SUSPEND" /\ dev.st = "ERASE"
  /\ dev.st # "NO" => \E m \in Modules : state[m] # "IDLE"

\* What a thread read before it took the lock is still the current module, if
\* there is one.
PickInv == \A f \in Flushers : picked[f] # NONE /\ curMod # NONE => picked[f] = curMod

\* A queued request is for a registered module.  The walk of an erase meets
\* either only nodes of its sector or none, so it removes from the head or not
\* at all.
WalkInv ==
  /\ cs.op = "write" => Owner[cs.sec] \in inited
  /\ cs.op = "erase" =>
       LET q == queue[Owner[cs.sec]]
       IN  /\ Owner[cs.sec] \in inited
           /\ \/ \A p \in 1..Len(q) : node[q[p]].sec = cs.sec
              \/ \A p \in 1..Len(q) : node[q[p]].sec # cs.sec
           /\ cs.gap => cs.pos = 1
           /\ \A p \in 1..Len(q) :
                p < cs.pos /\ node[q[p]].sec = cs.sec => node[q[p]].lock

IInv == TypeOK /\ ListInv /\ SuspendInv /\ PickInv /\ WalkInv /\ NoAssert

-----------------------------------------------------------------------------
(* What the flash and the buffers hold between them.                        *)

\* The device is suspended while it programs sector s.
InProgram(s) == dev.st = "PROGRAM" /\ dev.sec = s

\* The sector, and the pages of it to program for node n, when the flusher takes
\* up the node or goes on with it.
NextBase(s) == IF InProgram(s) THEN FinishPage(s) ELSE flash[s]
NextFrom(s, n) == IF InProgram(s) THEN dev.at + 1 ELSE n.lo
NextTo(s, n) == IF InProgram(s) THEN dev.hi ELSE n.hi

\* Programming pages lo..hi from the buffer makes the sector equal to it.
Agrees(buf, sector, lo, hi) ==
  \A c \in 1..Cells : sector[c] = buf[c] \/ (c \in lo..hi /\ sector[c] = FF)

\* Between two pending writes of a sector lies an erase of it.
WritesApart(s) ==
  \A q, p \in Hits(s) :
    q < p /\ NodeAt(s, q).type = "W" /\ NodeAt(s, p).type = "W" =>
      \E r \in Hits(s) : q < r /\ r < p /\ NodeAt(s, r).type = "E"

\* A pending write starts from the sector its buffer was made for: erased, if a
\* pending operation is to come before it, else as it is in the flash.
WritesComplete(s) ==
  \A p \in Hits(s) :
    LET n == NodeAt(s, p)
    IN  n.type = "W" =>
          /\ \A c \in 1..Cells : n.buf[c] # Mixed
          /\ IF \E r \in Hits(s) : p < r
             THEN Agrees(n.buf, ErasedSector, n.lo, n.hi)
             ELSE Agrees(n.buf, NextBase(s), NextFrom(s, n), NextTo(s, n))

\* A write finds its pages erased still when it is queued, or when the list of a
\* synchronous one is empty.
RequestInv ==
  /\ cs.op = "write" \/ (cs.op = "sync" /\ cs.type = "W") =>
       cs.val \in Data /\ cs.lo <= cs.hi /\ \A c \in cs.lo..cs.hi : View(cs.sec)[c] = FF
  /\ cs.op = "write" => Appending \/ Stops(cs.sec) # {} \/ Hits(cs.sec) = {}

DataInv ==
  /\ \A s \in Sectors : WritesApart(s) /\ WritesComplete(s)
  /\ DamageOnlyInFlight
  /\ RequestInv

StoreInv == IInv /\ DataInv

-----------------------------------------------------------------------------
\* The clients and flushers the theorems speak of: one thread at most flushes,
\* and no client erases a sector again behind pending nodes of its others.
Disciplined == ~Interleaving /\ \A f, g \in Flushers : f = g

\* Nor, for those about the contents of the flash, does one write to a sector
\* whose only pending node is already being written.
Buffered == Disciplined /\ ~Appending

=============================================================================

----------------------------- MODULE FlashStore -----------------------------
(***************************************************************************)
(* What norflash_api promises its clients: a store of flash sectors in     *)
(* which an accepted erase or write has taken effect when its call         *)
(* returns, whatever is still queued, suspended or half programmed          *)
(* underneath, and which nothing else changes.  A sector is a sequence of   *)
(* program pages ("cells"); NOR flash only clears bits, so a client         *)
(* programs erased cells.  One call is under way at a time.                 *)
(***************************************************************************)
EXTENDS Naturals

CONSTANTS
  Sectors,  \* the flash sectors of all registered modules
  Cells,    \* program pages per sector
  Data,     \* what a client may program into a page
  FF        \* an erased page

VARIABLES
  content,  \* what the clients read
  call,     \* the call under way
  acted,    \* has it taken effect already?
  full      \* an input: there is no room for it, it may be refused

storeVars == <<content, call, acted>>

NoCall == [op |-> "none"]

Erases == [op : {"erase"}, sec : Sectors]

Writes == [op : {"write"}, sec : Sectors, lo : 1..Cells, hi : 1..Cells, val : Data]

ErasedSector == [c \in 1..Cells |-> FF]

Contents == [Sectors -> [1..Cells -> Data \cup {FF}]]

StoreInit == content \in Contents /\ call = NoCall /\ acted = FALSE

\* Every cell outside lo..hi keeps its value, every cell inside takes v.
Overwrite(sector, lo, hi, v) ==
  [c \in 1..Cells |-> IF c \in lo..hi THEN v ELSE sector[c]]

\* The contents once call c has done its work; doing it again changes nothing.
Effect(c) ==
  [content EXCEPT ![c.sec] =
     IF c.op = "erase" THEN ErasedSector ELSE Overwrite(@, c.lo, c.hi, c.val)]

\* A client writes erased cells only.
Allowed(c) ==
  c.op = "write" => c.lo <= c.hi /\ \A k \in c.lo..c.hi : content[c.sec][k] = FF

\* A call begins, and may take effect at once ...
Begin(c) ==
  /\ call = NoCall
  /\ Allowed(c)
  /\ call' = c
  /\ acted' \in BOOLEAN
  /\ content' = IF acted' THEN Effect(c) ELSE content

\* ... or while it is under way ...
Act ==
  /\ call # NoCall
  /\ content' = Effect(call)
  /\ acted' = TRUE
  /\ UNCHANGED call

\* ... but has when it returns,
Return ==
  /\ call # NoCall
  /\ content' = Effect(call)
  /\ call' = NoCall
  /\ acted' = FALSE

\* unless the store has no room for it; then it never does.
Refuse ==
  /\ call # NoCall
  /\ full /\ ~acted
  /\ call' = NoCall
  /\ UNCHANGED <<content, acted>>

StoreNext == (\E c \in Erases \cup Writes : Begin(c)) \/ Act \/ Return \/ Refuse

StoreSpec == StoreInit /\ [][StoreNext]_storeVars
=============================================================================

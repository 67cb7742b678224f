--------------------------- MODULE NvRecord_proofs ---------------------------
(* Theorems about NvRecord, where one thread calls nv_record_flash_flush. *)
EXTENDS NvRecord, TLAPS

\* What moving one thread does to pc.
LEMMA Move ==
  ASSUME TypeOK, NEW t \in Threads, NEW l \in Labels, Goto(t, l)
  PROVE  /\ pc'[t] = l /\ pc' \in [Threads -> Labels]
         /\ \A u \in Threads : u # t => pc'[u] = pc[u]
BY DEF TypeOK, Goto

(* Opening and updating, by any thread *)

LEMMA OpenValidIInv ==
  ASSUME IInv, Flushers = {Main}, NEW t \in Threads, OpenValid(t)
  PROVE  IInv'
<1> USE DataAssumption, TagsAssumption, ThreadsAssumption
     DEF IInv, Pending, OpenValid, Step, bounds, device
<1>1. /\ pc'[t] \in Labels /\ pc' \in [Threads -> Labels]
      /\ \A u \in Threads : u # t => pc'[u] = pc[u]
  BY Move DEF Goto, Labels
<1>2. TypeOK'
  <2>1. updates' \in Nat /\ crashes' \in Nat /\ arg' \in [Threads -> Data]
    BY DEF TypeOK
  <2> QED
    BY <1>1, <2>1 DEF TypeOK, Image
<1>3. ThreadsInv'
  BY <1>1 DEF TypeOK, ThreadsInv, Goto, Labels
<1>4. QueueInv'
  BY <1>1 DEF TypeOK, QueueInv, ThreadsInv, Base, Goto
<1>5. CrcInv'
  BY <1>1 DEF TypeOK, CrcInv, QueueInv, ThreadsInv, Base, Goto
<1>6. CrcMatches'
  BY <1>1 DEF TypeOK, CrcMatches, CrcInv, QueueInv, Base, Goto
<1>7. RewriteFollows'
  BY <1>1 DEF TypeOK, RewriteFollows, QueueInv, ThreadsInv, Base, Goto
<1> QED
  BY <1>2, <1>3, <1>4, <1>5, <1>6, <1>7

LEMMA OpenInvalidIInv ==
  ASSUME IInv, Flushers = {Main}, NEW t \in Threads, OpenInvalid(t)
  PROVE  IInv'
<1> USE DataAssumption, TagsAssumption, ThreadsAssumption
     DEF IInv, Pending, OpenInvalid, Step, bounds, device
<1>1. /\ pc'[t] \in Labels /\ pc' \in [Threads -> Labels]
      /\ \A u \in Threads : u # t => pc'[u] = pc[u]
  BY Move DEF Goto, Labels
<1>2. TypeOK'
  <2>1. updates' \in Nat /\ crashes' \in Nat /\ arg' \in [Threads -> Data]
    BY DEF TypeOK
  <2> QED
    BY <1>1, <2>1 DEF TypeOK, Image
<1>3. ThreadsInv'
  BY <1>1 DEF TypeOK, ThreadsInv, Goto, Labels
<1>4. QueueInv'
  BY <1>1 DEF TypeOK, QueueInv, ThreadsInv, Base, Goto
<1>5. CrcInv'
  BY <1>1 DEF TypeOK, CrcInv, QueueInv, ThreadsInv, Base, Goto
<1>6. CrcMatches'
  BY <1>1 DEF TypeOK, CrcMatches, CrcInv, QueueInv, Base, Goto
<1>7. RewriteFollows'
  BY <1>1 DEF TypeOK, RewriteFollows, QueueInv, ThreadsInv, Base, Goto
<1> QED
  BY <1>2, <1>3, <1>4, <1>5, <1>6, <1>7

LEMMA RebuildIInv ==
  ASSUME IInv, Flushers = {Main}, NEW t \in Threads, Rebuild(t)
  PROVE  IInv'
<1> USE DataAssumption, TagsAssumption, ThreadsAssumption
     DEF IInv, Pending, Rebuild, Step, bounds, device
<1>1. /\ pc'[t] \in Labels /\ pc' \in [Threads -> Labels]
      /\ \A u \in Threads : u # t => pc'[u] = pc[u]
  BY Move DEF Goto, Labels
<1>2. TypeOK'
  <2>1. updates' \in Nat /\ crashes' \in Nat /\ arg' \in [Threads -> Data]
    BY DEF TypeOK
  <2> QED
    BY <1>1, <2>1 DEF TypeOK, Image
<1>3. ThreadsInv'
  BY <1>1 DEF TypeOK, ThreadsInv, Goto, Labels
<1>4. QueueInv'
  BY <1>1 DEF TypeOK, QueueInv, ThreadsInv, Base, Goto
<1>5. CrcInv'
  BY <1>1 DEF TypeOK, CrcInv, QueueInv, ThreadsInv, Base, Goto
<1>6. CrcMatches'
  BY <1>1 DEF TypeOK, CrcMatches, CrcInv, QueueInv, Base, Goto
<1>7. RewriteFollows'
  BY <1>1 DEF TypeOK, RewriteFollows, QueueInv, ThreadsInv, Base, Goto
<1> QED
  BY <1>2, <1>3, <1>4, <1>5, <1>6, <1>7

LEMMA SectorClearIInv ==
  ASSUME IInv, Flushers = {Main}, NEW t \in Threads, SectorClear(t)
  PROVE  IInv'
<1> USE DataAssumption, TagsAssumption, ThreadsAssumption
     DEF IInv, Pending, SectorClear, records, Opened
<1>1. /\ pc'[t] \in Labels /\ pc' \in [Threads -> Labels]
      /\ \A u \in Threads : u # t => pc'[u] = pc[u]
  BY Move DEF Goto, Labels
<1>2. TypeOK'
  <2>1. updates' \in Nat /\ crashes' \in Nat /\ arg' \in [Threads -> Data]
    BY DEF TypeOK
  <2> QED
    BY <1>1, <2>1 DEF TypeOK, Image
<1>3. ThreadsInv'
  BY <1>1 DEF TypeOK, ThreadsInv, Goto, Labels
<1>4. QueueInv'
  BY <1>1 DEF TypeOK, QueueInv, ThreadsInv, Base, Goto
<1>5. CrcInv'
  BY <1>1 DEF TypeOK, CrcInv, QueueInv, ThreadsInv, Base, Goto
<1>6. CrcMatches'
  BY <1>1
       DEF TypeOK, CrcMatches, CrcInv, QueueInv, Base, CallbackSkips, LastIsWrite, Settled,
           Program, Goto
<1>7. RewriteFollows'
  BY <1>1 DEF TypeOK, RewriteFollows, QueueInv, ThreadsInv, Base, Goto
<1> QED
  BY <1>2, <1>3, <1>4, <1>5, <1>6, <1>7

LEMMA UpdateIInv ==
  ASSUME IInv, Flushers = {Main}, NEW t \in Threads, NEW d \in Data, Update(t, d)
  PROVE  IInv'
<1> USE DataAssumption, TagsAssumption, ThreadsAssumption
     DEF IInv, Pending, Update, device, Opened
<1>1. /\ pc'[t] \in Labels /\ pc' \in [Threads -> Labels]
      /\ \A u \in Threads : u # t => pc'[u] = pc[u]
  BY Move DEF Goto, Labels
<1>2. TypeOK'
  <2>1. updates' \in Nat /\ crashes' \in Nat /\ arg' \in [Threads -> Data]
    BY DEF TypeOK
  <2> QED
    BY <1>1, <2>1 DEF TypeOK, Image
<1>3. ThreadsInv'
  BY <1>1 DEF TypeOK, ThreadsInv, Goto, Labels
<1>4. QueueInv'
  BY <1>1 DEF TypeOK, QueueInv, ThreadsInv, Base, Goto
<1>5. CrcInv'
  BY <1>1 DEF TypeOK, CrcInv, QueueInv, ThreadsInv, Base, Goto
<1>6. CrcMatches'
  BY <1>1 DEF TypeOK, CrcMatches, CrcInv, QueueInv, Base, Goto
<1>7. RewriteFollows'
  BY <1>1 DEF TypeOK, RewriteFollows, QueueInv, ThreadsInv, Base, Goto
<1> QED
  BY <1>2, <1>3, <1>4, <1>5, <1>6, <1>7

LEMMA UpdateFlagIInv ==
  ASSUME IInv, Flushers = {Main}, NEW t \in Threads, UpdateFlag(t)
  PROVE  IInv'
<1> USE DataAssumption, TagsAssumption, ThreadsAssumption
     DEF IInv, Pending, UpdateFlag, Step, bounds, device
<1>1. /\ pc'[t] \in Labels /\ pc' \in [Threads -> Labels]
      /\ \A u \in Threads : u # t => pc'[u] = pc[u]
  BY Move DEF Goto, Labels
<1>2. TypeOK'
  <2>1. updates' \in Nat /\ crashes' \in Nat /\ arg' \in [Threads -> Data]
    BY DEF TypeOK
  <2> QED
    BY <1>1, <2>1 DEF TypeOK, Image
<1>3. ThreadsInv'
  BY <1>1 DEF TypeOK, ThreadsInv, Goto, Labels
<1>4. QueueInv'
  BY <1>1 DEF TypeOK, QueueInv, ThreadsInv, Base, Goto
<1>5. CrcInv'
  BY <1>1 DEF TypeOK, CrcInv, QueueInv, ThreadsInv, Base, Goto
<1>6. CrcMatches'
  BY <1>1 DEF TypeOK, CrcMatches, CrcInv, QueueInv, Base, Goto
<1>7. RewriteFollows'
  BY <1>1 DEF TypeOK, RewriteFollows, QueueInv, ThreadsInv, Base, Goto
<1> QED
  BY <1>2, <1>3, <1>4, <1>5, <1>6, <1>7

LEMMA UpdateIbrtIInv ==
  ASSUME IInv, Flushers = {Main}, NEW t \in Threads, NEW d \in Data, UpdateIbrt(t, d)
  PROVE  IInv'
<1> USE DataAssumption, TagsAssumption, ThreadsAssumption
     DEF IInv, Pending, UpdateIbrt, device, Opened
<1>1. /\ pc'[t] \in Labels /\ pc' \in [Threads -> Labels]
      /\ \A u \in Threads : u # t => pc'[u] = pc[u]
  BY Move DEF Goto, Labels
<1>2. TypeOK'
  <2>1. updates' \in Nat /\ crashes' \in Nat /\ arg' \in [Threads -> Data]
    BY DEF TypeOK
  <2> QED
    BY <1>1, <2>1 DEF TypeOK, Image
<1>3. ThreadsInv'
  BY <1>1 DEF TypeOK, ThreadsInv, Goto, Labels
<1>4. QueueInv'
  BY <1>1 DEF TypeOK, QueueInv, ThreadsInv, Base, Goto
<1>5. CrcInv'
  BY <1>1 DEF TypeOK, CrcInv, QueueInv, ThreadsInv, Base, Goto
<1>6. CrcMatches'
  BY <1>1 DEF TypeOK, CrcMatches, CrcInv, QueueInv, Base, Goto
<1>7. RewriteFollows'
  BY <1>1 DEF TypeOK, RewriteFollows, QueueInv, ThreadsInv, Base, Goto
<1> QED
  BY <1>2, <1>3, <1>4, <1>5, <1>6, <1>7

LEMMA UpdateStoreIInv ==
  ASSUME IInv, Flushers = {Main}, NEW t \in Threads, UpdateStore(t)
  PROVE  IInv'
<1> USE DataAssumption, TagsAssumption, ThreadsAssumption
     DEF IInv, Pending, UpdateStore, Step, bounds, device
<1>1. /\ pc'[t] \in Labels /\ pc' \in [Threads -> Labels]
      /\ \A u \in Threads : u # t => pc'[u] = pc[u]
  BY Move DEF Goto, Labels
<1>2. TypeOK'
  <2>1. updates' \in Nat /\ crashes' \in Nat /\ arg' \in [Threads -> Data]
    BY DEF TypeOK
  <2> QED
    BY <1>1, <2>1 DEF TypeOK, Image
<1>3. ThreadsInv'
  BY <1>1 DEF TypeOK, ThreadsInv, Goto, Labels
<1>4. QueueInv'
  BY <1>1 DEF TypeOK, QueueInv, ThreadsInv, Base, Goto
<1>5. CrcInv'
  BY <1>1 DEF TypeOK, CrcInv, QueueInv, ThreadsInv, Base, Goto
<1>6. CrcMatches'
  BY <1>1 DEF TypeOK, CrcMatches, CrcInv, QueueInv, Base, Goto
<1>7. RewriteFollows'
  BY <1>1 DEF TypeOK, RewriteFollows, QueueInv, ThreadsInv, Base, Goto
<1> QED
  BY <1>2, <1>3, <1>4, <1>5, <1>6, <1>7

-----------------------------------------------------------------------------
(* nv_record_flash_flush, by Main *)

LEMMA FlushBeginIInv ==
  ASSUME IInv, Flushers = {Main}, NEW t \in Threads, FlushBegin(t)
  PROVE  IInv'
<1> USE DataAssumption, TagsAssumption, ThreadsAssumption
     DEF IInv, Pending, FlushBegin, Step, bounds, records, device, Opened
<1>1. /\ pc'[t] \in Labels /\ pc' \in [Threads -> Labels]
      /\ \A u \in Threads : u # t => pc'[u] = pc[u]
  BY Move DEF Goto, Labels
<1>2. TypeOK'
  <2>1. updates' \in Nat /\ crashes' \in Nat /\ arg' \in [Threads -> Data]
    BY DEF TypeOK
  <2> QED
    BY <1>1, <2>1 DEF TypeOK, Image
<1>3. ThreadsInv'
  BY <1>1 DEF TypeOK, ThreadsInv, Goto, Labels
<1>4. QueueInv'
  BY <1>1 DEF TypeOK, QueueInv, ThreadsInv, Base, Goto
<1>5. CrcInv'
  BY <1>1 DEF TypeOK, CrcInv, QueueInv, ThreadsInv, Base, Goto
<1>6. CrcMatches'
  BY <1>1 DEF TypeOK, CrcMatches, CrcInv, QueueInv, Base, Goto
<1>7. RewriteFollows'
  BY <1>1 DEF TypeOK, RewriteFollows, QueueInv, ThreadsInv, Base, Goto
<1> QED
  BY <1>2, <1>3, <1>4, <1>5, <1>6, <1>7

LEMMA FlushCheckIInv ==
  ASSUME IInv, Flushers = {Main}, NEW t \in Threads, FlushCheck(t)
  PROVE  IInv'
<1> USE DataAssumption, TagsAssumption, ThreadsAssumption
     DEF IInv, Pending, FlushCheck, Step, bounds, records, device
<1>1. /\ pc'[t] \in Labels /\ pc' \in [Threads -> Labels]
      /\ \A u \in Threads : u # t => pc'[u] = pc[u]
  BY Move DEF Goto, Labels
<1>2. TypeOK'
  <2>1. updates' \in Nat /\ crashes' \in Nat /\ arg' \in [Threads -> Data]
    BY DEF TypeOK
  <2> QED
    BY <1>1, <2>1 DEF TypeOK, Image
<1>3. ThreadsInv'
  BY <1>1 DEF TypeOK, ThreadsInv, Goto, Labels
<1>4. QueueInv'
  BY <1>1 DEF TypeOK, QueueInv, ThreadsInv, Base, Goto
<1>5. CrcInv'
  BY <1>1 DEF TypeOK, CrcInv, QueueInv, ThreadsInv, Base, Goto
<1>6. CrcMatches'
  BY <1>1 DEF TypeOK, CrcMatches, CrcInv, QueueInv, Base, Goto
<1>7. RewriteFollows'
  BY <1>1 DEF TypeOK, RewriteFollows, QueueInv, ThreadsInv, Base, Goto
<1> QED
  BY <1>2, <1>3, <1>4, <1>5, <1>6, <1>7

LEMMA FlushTestIInv ==
  ASSUME IInv, Flushers = {Main}, NEW t \in Threads, FlushTest(t)
  PROVE  IInv'
<1> USE DataAssumption, TagsAssumption, ThreadsAssumption
     DEF IInv, Pending, FlushTest, Step, bounds, records, device
<1>1. /\ pc'[t] \in Labels /\ pc' \in [Threads -> Labels]
      /\ \A u \in Threads : u # t => pc'[u] = pc[u]
  BY Move DEF Goto, Labels
<1>2. TypeOK'
  <2>1. updates' \in Nat /\ crashes' \in Nat /\ arg' \in [Threads -> Data]
    BY DEF TypeOK
  <2> QED
    BY <1>1, <2>1 DEF TypeOK, Image
<1>3. ThreadsInv'
  BY <1>1 DEF TypeOK, ThreadsInv, Goto, Labels
<1>4. QueueInv'
  BY <1>1 DEF TypeOK, QueueInv, ThreadsInv, Base, Goto
<1>5. CrcInv'
  BY <1>1 DEF TypeOK, CrcInv, QueueInv, ThreadsInv, Base, Goto
<1>6. CrcMatches'
  BY <1>1 DEF TypeOK, CrcMatches, CrcInv, QueueInv, Base, Goto
<1>7. RewriteFollows'
  BY <1>1 DEF TypeOK, RewriteFollows, QueueInv, ThreadsInv, Base, Goto
<1> QED
  BY <1>2, <1>3, <1>4, <1>5, <1>6, <1>7

LEMMA FlushEraseIInv ==
  ASSUME IInv, Flushers = {Main}, NEW t \in Threads, FlushErase(t)
  PROVE  IInv'
<1> USE DataAssumption, TagsAssumption, ThreadsAssumption
     DEF IInv, Pending, FlushErase, Step, bounds, NfErase, records
<1>1. /\ pc'[t] \in Labels /\ pc' \in [Threads -> Labels]
      /\ \A u \in Threads : u # t => pc'[u] = pc[u]
  BY Move DEF Goto, Labels
<1>2. TypeOK'
  <2>1. updates' \in Nat /\ crashes' \in Nat /\ arg' \in [Threads -> Data]
    BY DEF TypeOK
  <2> QED
    BY <1>1, <2>1 DEF TypeOK, Image
<1>3. ThreadsInv'
  BY <1>1 DEF TypeOK, ThreadsInv, Goto, Labels
<1>4. QueueInv'
  BY <1>1 DEF TypeOK, QueueInv, ThreadsInv, Base, Goto
<1>5. CrcInv'
  BY <1>1 DEF TypeOK, CrcInv, QueueInv, ThreadsInv, Base, Goto
<1>6. CrcMatches'
  BY <1>1 DEF TypeOK, CrcMatches, CrcInv, QueueInv, Base, Goto
<1>7. RewriteFollows'
  BY <1>1 DEF TypeOK, RewriteFollows, QueueInv, ThreadsInv, Base, Goto
<1> QED
  BY <1>2, <1>3, <1>4, <1>5, <1>6, <1>7

LEMMA FlushEraseFullIInv ==
  ASSUME IInv, Flushers = {Main}, NEW t \in Threads, FlushEraseFull(t)
  PROVE  IInv'
<1> USE DataAssumption, TagsAssumption, ThreadsAssumption
     DEF IInv, Pending, FlushEraseFull, Step, bounds, NfEraseFull, records, device
<1>1. /\ pc'[t] \in Labels /\ pc' \in [Threads -> Labels]
      /\ \A u \in Threads : u # t => pc'[u] = pc[u]
  BY Move DEF Goto, Labels
<1>2. TypeOK'
  <2>1. updates' \in Nat /\ crashes' \in Nat /\ arg' \in [Threads -> Data]
    BY DEF TypeOK
  <2> QED
    BY <1>1, <2>1 DEF TypeOK, Image
<1>3. ThreadsInv'
  BY <1>1 DEF TypeOK, ThreadsInv, Goto, Labels
<1>4. QueueInv'
  BY <1>1 DEF TypeOK, QueueInv, ThreadsInv, Base, Goto
<1>5. CrcInv'
  BY <1>1 DEF TypeOK, CrcInv, QueueInv, ThreadsInv, Base, Goto
<1>6. CrcMatches'
  BY <1>1 DEF TypeOK, CrcMatches, CrcInv, QueueInv, Base, Goto
<1>7. RewriteFollows'
  BY <1>1 DEF TypeOK, RewriteFollows, QueueInv, ThreadsInv, Base, Goto
<1> QED
  BY <1>2, <1>3, <1>4, <1>5, <1>6, <1>7

LEMMA FlushEraseRetryIInv ==
  ASSUME IInv, Flushers = {Main}, NEW t \in Threads, FlushEraseRetry(t)
  PROVE  IInv'
<1> USE DataAssumption, TagsAssumption, ThreadsAssumption
     DEF IInv, Pending, FlushEraseRetry, Step, bounds, records, device
<1>1. /\ pc'[t] \in Labels /\ pc' \in [Threads -> Labels]
      /\ \A u \in Threads : u # t => pc'[u] = pc[u]
  BY Move DEF Goto, Labels
<1>2. TypeOK'
  <2>1. updates' \in Nat /\ crashes' \in Nat /\ arg' \in [Threads -> Data]
    BY DEF TypeOK
  <2> QED
    BY <1>1, <2>1 DEF TypeOK, Image
<1>3. ThreadsInv'
  BY <1>1 DEF TypeOK, ThreadsInv, Goto, Labels
<1>4. QueueInv'
  BY <1>1 DEF TypeOK, QueueInv, ThreadsInv, Base, Goto
<1>5. CrcInv'
  BY <1>1 DEF TypeOK, CrcInv, QueueInv, ThreadsInv, Base, Goto
<1>6. CrcMatches'
  BY <1>1 DEF TypeOK, CrcMatches, CrcInv, QueueInv, Base, Goto
<1>7. RewriteFollows'
  BY <1>1 DEF TypeOK, RewriteFollows, QueueInv, ThreadsInv, Base, Goto
<1> QED
  BY <1>2, <1>3, <1>4, <1>5, <1>6, <1>7

LEMMA FlushErasedIInv ==
  ASSUME IInv, Flushers = {Main}, NEW t \in Threads, FlushErased(t)
  PROVE  IInv'
<1> USE DataAssumption, TagsAssumption, ThreadsAssumption
     DEF IInv, Pending, FlushErased, Step, bounds, device
<1>1. /\ pc'[t] \in Labels /\ pc' \in [Threads -> Labels]
      /\ \A u \in Threads : u # t => pc'[u] = pc[u]
  BY Move DEF Goto, Labels
<1>2. TypeOK'
  <2>1. updates' \in Nat /\ crashes' \in Nat /\ arg' \in [Threads -> Data]
    BY DEF TypeOK
  <2> QED
    BY <1>1, <2>1 DEF TypeOK, Image
<1>3. ThreadsInv'
  BY <1>1 DEF TypeOK, ThreadsInv, Goto, Labels
<1>4. QueueInv'
  BY <1>1 DEF TypeOK, QueueInv, ThreadsInv, Base, Goto
<1>5. CrcInv'
  BY <1>1 DEF TypeOK, CrcInv, QueueInv, ThreadsInv, Base, Goto
<1>6. CrcMatches'
  BY <1>1 DEF TypeOK, CrcMatches, CrcInv, QueueInv, Base, Goto
<1>7. RewriteFollows'
  BY <1>1 DEF TypeOK, RewriteFollows, QueueInv, ThreadsInv, Base, Goto
<1> QED
  BY <1>2, <1>3, <1>4, <1>5, <1>6, <1>7

LEMMA FlushTest2IInv ==
  ASSUME IInv, Flushers = {Main}, NEW t \in Threads, FlushTest2(t)
  PROVE  IInv'
<1> USE DataAssumption, TagsAssumption, ThreadsAssumption
     DEF IInv, Pending, FlushTest2, Step, bounds, records, device
<1>1. /\ pc'[t] \in Labels /\ pc' \in [Threads -> Labels]
      /\ \A u \in Threads : u # t => pc'[u] = pc[u]
  BY Move DEF Goto, Labels
<1>2. TypeOK'
  <2>1. updates' \in Nat /\ crashes' \in Nat /\ arg' \in [Threads -> Data]
    BY DEF TypeOK
  <2> QED
    BY <1>1, <2>1 DEF TypeOK, Image
<1>3. ThreadsInv'
  BY <1>1 DEF TypeOK, ThreadsInv, Goto, Labels
<1>4. QueueInv'
  BY <1>1 DEF TypeOK, QueueInv, ThreadsInv, Base, Goto
<1>5. CrcInv'
  BY <1>1 DEF TypeOK, CrcInv, QueueInv, ThreadsInv, Base, Goto
<1>6. CrcMatches'
  BY <1>1 DEF TypeOK, CrcMatches, CrcInv, QueueInv, Base, Goto
<1>7. RewriteFollows'
  BY <1>1 DEF TypeOK, RewriteFollows, QueueInv, ThreadsInv, Base, Goto
<1> QED
  BY <1>2, <1>3, <1>4, <1>5, <1>6, <1>7

LEMMA FlushWriteIInv ==
  ASSUME IInv, Flushers = {Main}, NEW t \in Threads, FlushWrite(t)
  PROVE  IInv'
<1> USE DataAssumption, TagsAssumption, ThreadsAssumption
     DEF IInv, Pending, FlushWrite, Step, bounds, NfWrite
<1>1. /\ pc'[t] \in Labels /\ pc' \in [Threads -> Labels]
      /\ \A u \in Threads : u # t => pc'[u] = pc[u]
  BY Move DEF Goto, Labels
<1>2. TypeOK'
  <2>1. updates' \in Nat /\ crashes' \in Nat /\ arg' \in [Threads -> Data]
    BY DEF TypeOK
  <2> QED
    BY <1>1, <2>1 DEF TypeOK, Image
<1>3. ThreadsInv'
  BY <1>1 DEF TypeOK, ThreadsInv, Goto, Labels
<1>4. QueueInv'
  BY <1>1 DEF TypeOK, QueueInv, ThreadsInv, Base, Goto
<1>5. CrcInv'
  BY <1>1 DEF TypeOK, CrcInv, QueueInv, ThreadsInv, Base, Goto
<1>6. CrcMatches'
  BY <1>1 DEF TypeOK, CrcMatches, CrcInv, QueueInv, Base, Goto
<1>7. RewriteFollows'
  BY <1>1 DEF TypeOK, RewriteFollows, QueueInv, ThreadsInv, Base, Goto
<1> QED
  BY <1>2, <1>3, <1>4, <1>5, <1>6, <1>7

LEMMA FlushWriteFullIInv ==
  ASSUME IInv, Flushers = {Main}, NEW t \in Threads, FlushWriteFull(t)
  PROVE  IInv'
<1> USE DataAssumption, TagsAssumption, ThreadsAssumption
     DEF IInv, Pending, FlushWriteFull, Step, bounds, NfWriteFull, device
<1>1. /\ pc'[t] \in Labels /\ pc' \in [Threads -> Labels]
      /\ \A u \in Threads : u # t => pc'[u] = pc[u]
  BY Move DEF Goto, Labels
<1>2. TypeOK'
  <2>1. updates' \in Nat /\ crashes' \in Nat /\ arg' \in [Threads -> Data]
    BY DEF TypeOK
  <2> QED
    BY <1>1, <2>1 DEF TypeOK, Image
<1>3. ThreadsInv'
  BY <1>1 DEF TypeOK, ThreadsInv, Goto, Labels
<1>4. QueueInv'
  BY <1>1 DEF TypeOK, QueueInv, ThreadsInv, Base, Goto
<1>5. CrcInv'
  BY <1>1 DEF TypeOK, CrcInv, QueueInv, ThreadsInv, Base, Goto
<1>6. CrcMatches'
  BY <1>1 DEF TypeOK, CrcMatches, CrcInv, QueueInv, Base, Goto
<1>7. RewriteFollows'
  BY <1>1 DEF TypeOK, RewriteFollows, QueueInv, ThreadsInv, Base, Goto
<1> QED
  BY <1>2, <1>3, <1>4, <1>5, <1>6, <1>7

LEMMA FlushWriteRetryIInv ==
  ASSUME IInv, Flushers = {Main}, NEW t \in Threads, FlushWriteRetry(t)
  PROVE  IInv'
<1> USE DataAssumption, TagsAssumption, ThreadsAssumption
     DEF IInv, Pending, FlushWriteRetry, Step, bounds, records, device
<1>1. /\ pc'[t] \in Labels /\ pc' \in [Threads -> Labels]
      /\ \A u \in Threads : u # t => pc'[u] = pc[u]
  BY Move DEF Goto, Labels
<1>2. TypeOK'
  <2>1. updates' \in Nat /\ crashes' \in Nat /\ arg' \in [Threads -> Data]
    BY DEF TypeOK
  <2> QED
    BY <1>1, <2>1 DEF TypeOK, Image
<1>3. ThreadsInv'
  BY <1>1 DEF TypeOK, ThreadsInv, Goto, Labels
<1>4. QueueInv'
  BY <1>1 DEF TypeOK, QueueInv, ThreadsInv, Base, Goto
<1>5. CrcInv'
  BY <1>1 DEF TypeOK, CrcInv, QueueInv, ThreadsInv, Base, Goto
<1>6. CrcMatches'
  BY <1>1 DEF TypeOK, CrcMatches, CrcInv, QueueInv, Base, Goto
<1>7. RewriteFollows'
  BY <1>1 DEF TypeOK, RewriteFollows, QueueInv, ThreadsInv, Base, Goto
<1> QED
  BY <1>2, <1>3, <1>4, <1>5, <1>6, <1>7

LEMMA FlushWroteIInv ==
  ASSUME IInv, Flushers = {Main}, NEW t \in Threads, FlushWrote(t)
  PROVE  IInv'
<1> USE DataAssumption, TagsAssumption, ThreadsAssumption
     DEF IInv, Pending, FlushWrote, Step, bounds, device
<1>1. /\ pc'[t] \in Labels /\ pc' \in [Threads -> Labels]
      /\ \A u \in Threads : u # t => pc'[u] = pc[u]
  BY Move DEF Goto, Labels
<1>2. TypeOK'
  <2>1. updates' \in Nat /\ crashes' \in Nat /\ arg' \in [Threads -> Data]
    BY DEF TypeOK
  <2> QED
    BY <1>1, <2>1 DEF TypeOK, Image
<1>3. ThreadsInv'
  BY <1>1 DEF TypeOK, ThreadsInv, Goto, Labels
<1>4. QueueInv'
  BY <1>1 DEF TypeOK, QueueInv, ThreadsInv, Base, CrcInv, Goto
<1>5. CrcInv'
  BY <1>1 DEF TypeOK, CrcInv, QueueInv, ThreadsInv, Base, Goto
<1>6. CrcMatches'
  BY <1>1 DEF TypeOK, CrcMatches, CrcInv, QueueInv, Base, Goto
<1>7. RewriteFollows'
  BY <1>1 DEF TypeOK, RewriteFollows, QueueInv, ThreadsInv, Base, CrcInv, Goto
<1> QED
  BY <1>2, <1>3, <1>4, <1>5, <1>6, <1>7

LEMMA FlushResetIInv ==
  ASSUME IInv, Flushers = {Main}, NEW t \in Threads, FlushReset(t)
  PROVE  IInv'
<1> USE DataAssumption, TagsAssumption, ThreadsAssumption
     DEF IInv, Pending, FlushReset, Step, bounds, device
<1>1. /\ pc'[t] \in Labels /\ pc' \in [Threads -> Labels]
      /\ \A u \in Threads : u # t => pc'[u] = pc[u]
  BY Move DEF Goto, Labels
<1>2. TypeOK'
  <2>1. updates' \in Nat /\ crashes' \in Nat /\ arg' \in [Threads -> Data]
    BY DEF TypeOK
  <2> QED
    BY <1>1, <2>1 DEF TypeOK, Image
<1>3. ThreadsInv'
  BY <1>1 DEF TypeOK, ThreadsInv, Goto, Labels
<1>4. QueueInv'
  BY <1>1 DEF TypeOK, QueueInv, ThreadsInv, Base, Goto
<1>5. CrcInv'
  BY <1>1 DEF TypeOK, CrcInv, QueueInv, ThreadsInv, Base, Goto
<1>6. CrcMatches'
  BY <1>1 DEF TypeOK, CrcMatches, CrcInv, QueueInv, Base, Goto
<1>7. RewriteFollows'
  BY <1>1 DEF TypeOK, RewriteFollows, QueueInv, ThreadsInv, Base, Goto
<1> QED
  BY <1>2, <1>3, <1>4, <1>5, <1>6, <1>7

LEMMA FlushDrainedIInv ==
  ASSUME IInv, Flushers = {Main}, NEW t \in Threads, FlushDrained(t)
  PROVE  IInv'
<1> USE DataAssumption, TagsAssumption, ThreadsAssumption
     DEF IInv, Pending, FlushDrained, Step, bounds, records, device
<1>1. /\ pc'[t] \in Labels /\ pc' \in [Threads -> Labels]
      /\ \A u \in Threads : u # t => pc'[u] = pc[u]
  BY Move DEF Goto, Labels
<1>2. TypeOK'
  <2>1. updates' \in Nat /\ crashes' \in Nat /\ arg' \in [Threads -> Data]
    BY DEF TypeOK
  <2> QED
    BY <1>1, <2>1 DEF TypeOK, Image
<1>3. ThreadsInv'
  BY <1>1 DEF TypeOK, ThreadsInv, Drained, Goto, Labels
<1>4. QueueInv'
  BY <1>1 DEF TypeOK, QueueInv, ThreadsInv, Base, Drained, Goto
<1>5. CrcInv'
  BY <1>1 DEF TypeOK, CrcInv, QueueInv, ThreadsInv, Base, Drained, Goto
<1>6. CrcMatches'
  BY <1>1 DEF TypeOK, CrcMatches, CrcInv, QueueInv, Base, Drained, Goto
<1>7. RewriteFollows'
  BY <1>1 DEF TypeOK, RewriteFollows, QueueInv, ThreadsInv, Base, Drained, Goto
<1> QED
  BY <1>2, <1>3, <1>4, <1>5, <1>6, <1>7

-----------------------------------------------------------------------------
(* norflash_api, the sleep hook and the loss of power *)

LEMMA FlashSuspendIInv ==
  ASSUME IInv, Flushers = {Main}, FlashSuspend
  PROVE  IInv'
<1> USE DataAssumption, TagsAssumption, ThreadsAssumption
     DEF IInv, Pending, FlashSuspend, records, bounds
<1>2. TypeOK'
  <2>1. updates' \in Nat /\ crashes' \in Nat
    BY BoundsAssumption DEF TypeOK
  <2> QED
    BY <2>1 DEF TypeOK, Image, Outcome, Oldest, Program
<1>3. ThreadsInv'
  BY DEF TypeOK, ThreadsInv, Outcome, Oldest, Program
<1>4. QueueInv'
  BY DEF TypeOK, QueueInv, ThreadsInv, Base, Outcome, Oldest, Program
<1>5. CrcInv'
  BY DEF TypeOK, CrcInv, QueueInv, ThreadsInv, Base, Outcome, Oldest, Program
<1>6. CrcMatches'
  BY DEF TypeOK, CrcMatches, CrcInv, QueueInv, Base, Outcome, Oldest, Program
<1>7. RewriteFollows'
  BY DEF TypeOK, RewriteFollows, QueueInv, ThreadsInv, Base, Outcome, Oldest, Program
<1> QED
  BY <1>2, <1>3, <1>4, <1>5, <1>6, <1>7

LEMMA FlashFinishIInv ==
  ASSUME IInv, Flushers = {Main}, FlashFinish
  PROVE  IInv'
<1> USE DataAssumption, TagsAssumption, ThreadsAssumption
     DEF IInv, Pending, FlashFinish, records, bounds
<1>2. TypeOK'
  <2>1. updates' \in Nat /\ crashes' \in Nat
    BY BoundsAssumption DEF TypeOK
  <2> QED
    BY <2>1 DEF TypeOK, Image, Outcome, Oldest, Program
<1>3. ThreadsInv'
  BY DEF TypeOK, ThreadsInv, Outcome, Oldest, Program
<1>4. QueueInv'
  BY DEF TypeOK, QueueInv, ThreadsInv, Base, Outcome, Oldest, Program
<1>5. CrcInv'
  BY DEF TypeOK, CrcInv, QueueInv, ThreadsInv, Base, Outcome, Oldest, Program
<1>6. CrcMatches'
  BY DEF TypeOK, CrcMatches, CrcInv, QueueInv, Base, Outcome, Oldest, Program, CallbackSkips
<1>7. RewriteFollows'
  BY DEF TypeOK, RewriteFollows, QueueInv, ThreadsInv, Base, Outcome, Oldest, Program
<1> QED
  BY <1>2, <1>3, <1>4, <1>5, <1>6, <1>7

LEMMA SleepFlushIInv ==
  ASSUME IInv, Flushers = {Main}, SleepFlush
  PROVE  IInv'
<1> USE DataAssumption, TagsAssumption, ThreadsAssumption
     DEF IInv, Pending, SleepFlush, NfWrite, SleepCan, Quiet, bounds
<1>2. TypeOK'
  <2>1. updates' \in Nat /\ crashes' \in Nat
    BY BoundsAssumption DEF TypeOK
  <2> QED
    BY <2>1 DEF TypeOK, Image
<1>3. ThreadsInv'
  BY DEF TypeOK, ThreadsInv
<1>4. QueueInv'
  BY DEF TypeOK, QueueInv, ThreadsInv, Base
<1>5. CrcInv'
  BY DEF TypeOK, CrcInv, QueueInv, ThreadsInv, Base
<1>6. CrcMatches'
  BY DEF TypeOK, CrcMatches, CrcInv, QueueInv, Base
<1>7. RewriteFollows'
  BY DEF TypeOK, RewriteFollows, QueueInv, ThreadsInv, Base
<1> QED
  BY <1>2, <1>3, <1>4, <1>5, <1>6, <1>7

LEMMA SleepFlushFullIInv ==
  ASSUME IInv, Flushers = {Main}, SleepFlushFull
  PROVE  IInv'
<1> USE DataAssumption, TagsAssumption, ThreadsAssumption
     DEF IInv, Pending, SleepFlushFull, NfErase, NfWriteFull, SleepCan, Quiet, bounds
<1>2. TypeOK'
  <2>1. updates' \in Nat /\ crashes' \in Nat
    BY BoundsAssumption DEF TypeOK
  <2> QED
    BY <2>1 DEF TypeOK, Image
<1>3. ThreadsInv'
  BY DEF TypeOK, ThreadsInv
<1>4. QueueInv'
  BY DEF TypeOK, QueueInv, ThreadsInv, Base
<1>5. CrcInv'
  BY DEF TypeOK, CrcInv, QueueInv, ThreadsInv, Base
<1>6. CrcMatches'
  BY DEF TypeOK, CrcMatches, CrcInv, QueueInv, Base
<1>7. RewriteFollows'
  BY DEF TypeOK, RewriteFollows, QueueInv, ThreadsInv, Base
<1> QED
  BY <1>2, <1>3, <1>4, <1>5, <1>6, <1>7

LEMMA PowerLossIInv ==
  ASSUME IInv, Flushers = {Main}, PowerLoss
  PROVE  IInv'
<1> USE DataAssumption, TagsAssumption, ThreadsAssumption DEF IInv, Pending, PowerLoss
<1>2. TypeOK'
  <2>1. updates' \in Nat /\ crashes' \in Nat
    BY BoundsAssumption DEF TypeOK
  <2> QED
    BY <2>1 DEF TypeOK, Image, Labels
<1>3. ThreadsInv'
  BY DEF TypeOK, ThreadsInv, Labels
<1>4. QueueInv'
  BY DEF TypeOK, QueueInv, ThreadsInv, Base
<1>5. CrcInv'
  BY DEF TypeOK, CrcInv, QueueInv, ThreadsInv, Base
<1>6. CrcMatches'
  BY DEF TypeOK, CrcMatches, CrcInv, QueueInv, Base
<1>7. RewriteFollows'
  BY DEF TypeOK, RewriteFollows, QueueInv, ThreadsInv, Base
<1> QED
  BY <1>2, <1>3, <1>4, <1>5, <1>6, <1>7

-----------------------------------------------------------------------------
(* The invariant *)

LEMMA InitIInv == Init => IInv
<1> SUFFICES ASSUME Init PROVE IInv
  OBVIOUS
<1> USE DataAssumption, TagsAssumption, ThreadsAssumption DEF Init, Pending
<1>1. TypeOK
  BY DEF TypeOK, Image, Labels
<1>2. ThreadsInv /\ QueueInv /\ CrcInv
  BY DEF ThreadsInv, QueueInv, CrcInv
<1>3. CrcMatches /\ RewriteFollows
  BY DEF CrcMatches, RewriteFollows
<1> QED
  BY <1>1, <1>2, <1>3 DEF IInv

LEMMA NextIInv ==
  ASSUME Flushers = {Main}, IInv, [Next]_vars
  PROVE  IInv'
<1>1. CASE \E t \in Threads : Call(t)
  BY <1>1, SectorClearIInv, FlushBeginIInv, UpdateIInv, UpdateIbrtIInv DEF Call
<1>2. CASE \E t \in Threads : FlushStep(t)
  BY <1>2, FlushCheckIInv, FlushTestIInv, FlushEraseIInv, FlushEraseFullIInv,
     FlushEraseRetryIInv, FlushErasedIInv, FlushTest2IInv, FlushWriteIInv, FlushWriteFullIInv,
     FlushWriteRetryIInv, FlushWroteIInv, FlushResetIInv, FlushDrainedIInv DEF FlushStep
<1>3. CASE \E t \in Threads : Continue(t) /\ ~FlushStep(t)
  BY <1>3, OpenValidIInv, OpenInvalidIInv, RebuildIInv, UpdateFlagIInv, UpdateStoreIInv
       DEF Continue
<1>4. CASE UNCHANGED vars
  BY <1>4 DEF vars, records, device, bounds, IInv, TypeOK, ThreadsInv, QueueInv, Base, CrcInv,
              CrcMatches, RewriteFollows, Pending
<1> QED
  BY <1>1, <1>2, <1>3, <1>4, FlashSuspendIInv, FlashFinishIInv, SleepFlushIInv,
     SleepFlushFullIInv, PowerLossIInv DEF Next

\* One thread calls nv_record_flash_flush, whoever else updates the records.
THEOREM Invariant == Flushers = {Main} => (Spec => []IInv)
<1> SUFFICES ASSUME Flushers = {Main} PROVE Spec => []IInv
  OBVIOUS
<1>1. Init => IInv
  BY InitIInv
<1>2. IInv /\ [Next]_vars => IInv'
  BY NextIInv
<1> QED
  BY <1>1, <1>2, PTL DEF Spec

\* nv_callback never finds a CRC in flash that the header does not have.
THEOREM CrcSafe == Flushers = {Main} => (Spec => []CrcMatches)
<1> SUFFICES ASSUME Flushers = {Main} PROVE Spec => []CrcMatches
  OBVIOUS
<1>1. IInv => CrcMatches
  BY DEF IInv
<1> QED
  BY <1>1, Invariant, PTL

\* An invalid sector always has something that will write it again.
THEOREM RewriteSafe == Flushers = {Main} => (Spec => []RewriteFollows)
<1> SUFFICES ASSUME Flushers = {Main} PROVE Spec => []RewriteFollows
  OBVIOUS
<1>1. IInv => RewriteFollows
  BY DEF IInv
<1> QED
  BY <1>1, Invariant, PTL

\* Only FlushDrained goes from the last loop of the flush to its return, and
\* by then what the header describes has left the queue for the flash.
THEOREM FlushDurable == Flushers = {Main} => (Spec => FlushIsDurable)
<1> DEFINE Durable == \A t \in Threads : pc[t] = "drain" /\ pc'[t] = "idle" /\ config' =>
                        flash = crc /\ flash \in Data
<1> SUFFICES ASSUME Flushers = {Main} PROVE Spec => FlushIsDurable
  OBVIOUS
<1>1. IInv /\ [Next]_vars => [Durable]_vars
  <2> SUFFICES ASSUME IInv, Next, NEW t \in Threads, pc[t] = "drain", pc'[t] = "idle", config'
               PROVE  flash = crc /\ flash \in Data
    OBVIOUS
  <2> USE ThreadsAssumption
  <2>1. t = Main /\ pc[Main] \notin {"open", "rebuild"}
    BY DEF IInv, ThreadsInv
  <2>2. FlushDrained(t)
    <3>1. \A u \in Threads : ~(Call(u) /\ pc[t] # pc'[t])
      BY DEF Call, SectorClear, Update, UpdateIbrt, FlushBegin, Step, Goto, IInv, TypeOK
    <3>2. ~PowerLoss
      BY DEF PowerLoss
    <3>3. ~FlashSuspend /\ ~FlashFinish /\ ~SleepFlush /\ ~SleepFlushFull
      BY DEF FlashSuspend, FlashFinish, SleepFlush, SleepFlushFull
    <3>4. PICK u \in Threads : Continue(u)
      BY <3>1, <3>2, <3>3 DEF Next
    <3>5. pc[u] # "drain" => pc'[t] = pc[t]
      BY <3>4 DEF Continue, FlushStep, OpenValid, OpenInvalid, Rebuild, UpdateFlag, UpdateStore,
                  FlushCheck, FlushTest, FlushErase, FlushEraseFull, FlushEraseRetry, FlushErased,
                  FlushTest2, FlushWrite, FlushWriteFull, FlushWriteRetry, FlushWrote, FlushReset,
                  FlushDrained, Step, Goto, IInv, TypeOK
    <3>6. pc[u] = "drain" /\ u = t
      BY <2>1, <3>5 DEF IInv, ThreadsInv
    <3> QED
      BY <3>4, <3>6
           DEF Continue, FlushStep, OpenValid, OpenInvalid, Rebuild, UpdateFlag, UpdateStore,
                  FlushCheck, FlushTest, FlushErase, FlushEraseFull, FlushEraseRetry, FlushErased,
                  FlushTest2, FlushWrite, FlushWriteFull, FlushWriteRetry, FlushWrote, FlushReset, Step
  <2>3. ~Pending
    BY <2>2 DEF FlushDrained, Drained
  <2> QED
    BY <2>1, <2>3, DataAssumption, TagsAssumption DEF IInv, CrcInv, Pending, TypeOK
<1>2. Spec => [][Durable]_vars
  BY <1>1, Invariant, PTL DEF Spec
<1> QED
  BY <1>2 DEF FlushIsDurable

-----------------------------------------------------------------------------
(* What is saved, where the same thread makes all the updates *)

LEMMA NextSaved ==
  ASSUME Threads = {Main}, IInv, SavedInv, [Next]_vars
  PROVE  SavedInv'
<1> USE DataAssumption, TagsAssumption, ThreadsAssumption DEF IInv, TypeOK, SavedInv, Pending
<1>1. CASE OpenValid(Main)
  BY <1>1
       DEF OpenValid, Step, bounds, device, Goto, ThreadsInv, QueueInv, Base, CrcInv, Settled,
           Program
<1>2. CASE OpenInvalid(Main)
  BY <1>2
       DEF OpenInvalid, Step, bounds, device, Goto, ThreadsInv, QueueInv, Base, CrcInv,
           Settled, Program
<1>3. CASE Rebuild(Main)
  BY <1>3
       DEF Rebuild, Step, bounds, device, Goto, ThreadsInv, QueueInv, Base, CrcInv, Settled,
           Program
<1>4. CASE SectorClear(Main)
  BY <1>4 DEF SectorClear, records, Goto, ThreadsInv, QueueInv, Base, CrcInv, Settled, Program
<1>5. CASE UpdateFlag(Main)
  BY <1>5
       DEF UpdateFlag, Step, bounds, device, Goto, ThreadsInv, QueueInv, Base, CrcInv, Settled,
           Program
<1>6. CASE UpdateStore(Main)
  BY <1>6
       DEF UpdateStore, Step, bounds, device, Goto, ThreadsInv, QueueInv, Base, CrcInv,
           Settled, Program
<1>7. CASE FlushBegin(Main)
  BY <1>7
       DEF FlushBegin, Step, bounds, records, device, Goto, ThreadsInv, QueueInv, Base, CrcInv,
           Settled, Program
<1>8. CASE FlushCheck(Main)
  BY <1>8
       DEF FlushCheck, Step, bounds, records, device, Goto, ThreadsInv, QueueInv, Base, CrcInv,
           Settled, Program
<1>9. CASE FlushTest(Main)
  BY <1>9
       DEF FlushTest, Step, bounds, records, device, Goto, ThreadsInv, QueueInv, Base, CrcInv,
           Settled, Program
<1>10. CASE FlushErase(Main)
  BY <1>10
       DEF FlushErase, Step, bounds, NfErase, records, Goto, ThreadsInv, QueueInv, Base,
           CrcInv, Settled, Program
<1>11. CASE FlushEraseFull(Main)
  BY <1>11
       DEF FlushEraseFull, Step, bounds, NfEraseFull, records, device, Goto, ThreadsInv,
           QueueInv, Base, CrcInv, Settled, Program
<1>12. CASE FlushEraseRetry(Main)
  BY <1>12
       DEF FlushEraseRetry, Step, bounds, records, device, Goto, ThreadsInv, QueueInv, Base,
           CrcInv, Settled, Program
<1>13. CASE FlushErased(Main)
  BY <1>13
       DEF FlushErased, Step, bounds, device, Goto, ThreadsInv, QueueInv, Base, CrcInv,
           Settled, Program
<1>14. CASE FlushTest2(Main)
  BY <1>14
       DEF FlushTest2, Step, bounds, records, device, Goto, ThreadsInv, QueueInv, Base, CrcInv,
           Settled, Program
<1>15. CASE FlushWrite(Main)
  BY <1>15
       DEF FlushWrite, Step, bounds, NfWrite, Goto, ThreadsInv, QueueInv, Base, CrcInv,
           Settled, Program
<1>16. CASE FlushWriteFull(Main)
  BY <1>16
       DEF FlushWriteFull, Step, bounds, NfWriteFull, device, Goto, ThreadsInv, QueueInv, Base,
           CrcInv, Settled, Program
<1>17. CASE FlushWriteRetry(Main)
  BY <1>17
       DEF FlushWriteRetry, Step, bounds, records, device, Goto, ThreadsInv, QueueInv, Base,
           CrcInv, Settled, Program
<1>18. CASE FlushWrote(Main)
  BY <1>18
       DEF FlushWrote, Step, bounds, device, Goto, ThreadsInv, QueueInv, Base, CrcInv, Settled,
           Program
<1>19. CASE FlushReset(Main)
  BY <1>19
       DEF FlushReset, Step, bounds, device, Goto, ThreadsInv, QueueInv, Base, CrcInv, Settled,
           Program
<1>20. CASE FlushDrained(Main)
  BY <1>20
       DEF FlushDrained, Step, bounds, records, device, Goto, ThreadsInv, QueueInv, Base,
           CrcInv, Settled, Program
<1>21. CASE \E d \in Data : Update(Main, d)
  BY <1>21 DEF Update, device, Goto, ThreadsInv, QueueInv, Base, CrcInv, Settled, Program
<1>22. CASE \E d \in Data : UpdateIbrt(Main, d)
  BY <1>22 DEF UpdateIbrt, device, Goto, ThreadsInv, QueueInv, Base, CrcInv, Settled, Program
<1>23. CASE FlashSuspend
  BY <1>23
       DEF FlashSuspend, records, bounds, ThreadsInv, QueueInv, Base, CrcInv, Settled, Program,
           Outcome, Oldest
<1>24. CASE FlashFinish
  BY <1>24
       DEF FlashFinish, records, bounds, ThreadsInv, QueueInv, Base, CrcInv, Settled, Program,
           Outcome, Oldest
<1>25. CASE SleepFlush
  BY <1>25
       DEF SleepFlush, NfWrite, SleepCan, Quiet, bounds, ThreadsInv, QueueInv, Base, CrcInv,
           Settled, Program
<1>26. CASE SleepFlushFull
  BY <1>26
       DEF SleepFlushFull, NfErase, NfWriteFull, SleepCan, Quiet, bounds, ThreadsInv, QueueInv,
           Base, CrcInv, Settled, Program
<1>27. CASE PowerLoss
  BY <1>27 DEF PowerLoss, ThreadsInv, QueueInv, Base, CrcInv, Settled, Program
<1>28. CASE UNCHANGED vars
  BY <1>28 DEF vars, records, device, bounds, Settled
<1> QED
  BY <1>1, <1>2, <1>3, <1>4, <1>5, <1>6, <1>7, <1>8, <1>9, <1>10, <1>11, <1>12, <1>13, <1>14,
     <1>15, <1>16, <1>17, <1>18, <1>19, <1>20, <1>21, <1>22, <1>23, <1>24, <1>25, <1>26, <1>27, <1>28
       DEF Next, Call, Continue, FlushStep

\* When one thread makes all the updates and all the flushes, its invariant
\* says at every step what the queue ends in: the header's checksum while a
\* flush writes, the records while they are not marked.
THEOREM OwnInvariant == Threads = {Main} => (Spec => []OwnInv)
<1> SUFFICES ASSUME Threads = {Main} PROVE Spec => []OwnInv
  OBVIOUS
<1>1. Flushers = {Main}
  BY ThreadsAssumption
<1>2. Init => SavedInv
  BY DEF Init, SavedInv
<1>3. IInv /\ SavedInv /\ [Next]_vars => SavedInv'
  BY NextSaved
<1>4. IInv /\ SavedInv => OwnInv
  BY DEF OwnInv
<1> QED
  BY <1>1, <1>2, <1>3, <1>4, Invariant, PTL DEF Spec

\* Every update is marked, waiting in the queue or in flash.
THEOREM NothingLost == Threads = {Main} => (Spec => []NothingForgotten)
<1> SUFFICES ASSUME Threads = {Main} PROVE Spec => []NothingForgotten
  OBVIOUS
<1>1. OwnInv => NothingForgotten
  BY DEF OwnInv, SavedInv, NothingForgotten, Quiet
<1> QED
  BY <1>1, OwnInvariant, PTL

=============================================================================

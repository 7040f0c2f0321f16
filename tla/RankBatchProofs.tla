--------------------------- MODULE RankBatchProofs ---------------------------
(***************************************************************************)
(* Proofs about RankBatch, for any lists, users, visitors, errors and      *)
(* restarts.  TypeOK and WorkerInv are inductive together; that progress   *)
(* is served needs CallInv, CountInv and ClockInv besides, which follow a  *)
(* rank from the provider to the shared cache.                             *)
(***************************************************************************)
EXTENDS RankBatch, SequenceTheorems, FiniteSetTheorems, TLAPS

(* The lookup of the worker is for the name its batch has come to, and     *)
(* what it brings is as new as the batch asks for.                         *)
CallInv ==
    LET b == batch[worker.batch]
        c == call[Worker]
    IN  worker.pc = "lookup" =>
            /\ MoreNames
            /\ c.name = Current
            /\ c.refresh = b.refresh
            /\ c.pc \in {"answered", "storing"} =>
                  c.at # 0 /\ (b.refresh => c.at > b.created)

(* What is about to be counted as served is served.                        *)
ServedBy(r, n, b) == r[n] # 0 /\ (b.refresh => r[n] > b.created)

CountInv ==
    worker.pc = "count" =>
        MoreNames /\ (~worker.failed => ServedBy(rank, Current, batch[worker.batch]))

ClockInv == \A i \in DOMAIN batch : batch[i].created <= now

(* ProgressIsServed of one batch, with the cache as a parameter.           *)
ExactIn(r, b) ==
    /\ b.failed <= b.processed
    /\ b.processed <= Len(Names[b.list])
    /\ b.status \in Ended => b.processed = Len(Names[b.list])
    /\ b.status = "completed" => b.failed = 0
    /\ b.failed = 0 => \A k \in 1..b.processed : ServedBy(r, Names[b.list][k], b)

Exact == \A i \in DOMAIN batch : ExactIn(rank, batch[i])

RInv == TypeOK /\ WorkerInv /\ CallInv /\ CountInv /\ ClockInv /\ Exact

LEMMA ExactIsServed == Exact <=> ProgressIsServed
  BY DEF Exact, ExactIn, ServedBy, ProgressIsServed, Served, NamesOf
-----------------------------------------------------------------------------
(* Facts about the table and the lists.                                    *)
LEMMA Rows ==
    ASSUME TypeOK
    PROVE  /\ DOMAIN batch = 1..Len(batch)
           /\ Len(batch) \in Nat
           /\ \A i \in DOMAIN batch : batch[i] \in BatchType /\ i \in Nat
  BY LenProperties, ElementOfSeq DEF TypeOK

LEMMA Journals ==
    ASSUME NEW l \in List
    PROVE  /\ Len(Names[l]) \in Nat
           /\ \A k \in 1..Len(Names[l]) : Names[l][k] \in Name
  BY NamesAssumption, LenProperties, ElementOfSeq

(* One row is rewritten.                                                   *)
LEMMA OneRow ==
    ASSUME TypeOK, NEW i \in DOMAIN batch, NEW b \in BatchType,
           batch' = [batch EXCEPT ![i] = b]
    PROVE  /\ batch' \in Seq(BatchType)
           /\ DOMAIN batch' = DOMAIN batch
           /\ batch'[i] = b
           /\ \A k \in DOMAIN batch \ {i} : batch'[k] = batch[k]
  <1>1. batch \in Seq(BatchType) /\ i \in 1..Len(batch)
    BY Rows DEF TypeOK
  <1>2. batch' \in Seq(BatchType) /\ Len(batch') = Len(batch)
        /\ \A j \in 1..Len(batch) : batch'[j] = IF j = i THEN b ELSE batch[j]
    BY <1>1, ExceptSeq
  <1> QED BY <1>1, <1>2, Rows, LenProperties
-----------------------------------------------------------------------------
(* Types.                                                                  *)
LEMMA InitTyped == Init => TypeOK
  BY NoneAssumption, EmptySeq DEF Init, TypeOK, CallType, WorkerType, WorkerPc, Thread

LEMMA WakeTyped ==
    ASSUME worker \in WorkerType, Wake
    PROVE  worker' \in WorkerType
  BY DEF Wake, Thread, WorkerType, WorkerPc

LEMMA UserTyped ==
    ASSUME TypeOK, NEW u \in User, UserStep(u)
    PROVE  TypeOK'
  <1>1. CASE \E request \in Requests : Join(u, request)
    BY <1>1, WakeTyped DEF TypeOK, Join
  <1>2. CASE \E request \in Requests : Ask(u, request)
    BY <1>2 DEF TypeOK, Ask
  <1>3. CASE Insert(u)
    <2> DEFINE b == [list |-> asked[u].list, refresh |-> asked[u].refresh,
                     status |-> "queued", processed |-> 0, failed |-> 0, created |-> now]
    <2>1. asked[u] \in Requests
      BY <1>3 DEF Insert, TypeOK
    <2>2. b \in BatchType
      BY <2>1, RequestAssumption DEF BatchType, OpenStatus, TypeOK
    <2>3. batch' = Append(batch, b)
      BY <1>3 DEF Insert
    <2> HIDE DEF b
    <2>4. batch' \in Seq(BatchType) /\ Len(batch') = Len(batch) + 1
      BY <2>2, <2>3, AppendProperties DEF TypeOK
    <2>5. DOMAIN batch \subseteq DOMAIN batch'
      BY <2>4, Rows, LenProperties
    <2>6. /\ asked' = [asked EXCEPT ![u] = None] /\ Wake
          /\ UNCHANGED <<rank, memo, call, now, faults, stranded>>
      BY <1>3 DEF Insert
    <2>7. worker' \in WorkerType
      BY <2>6, WakeTyped DEF TypeOK
    <2> QED BY <2>4, <2>5, <2>6, <2>7 DEF TypeOK
  <1>4. CASE Conflict(u)
    BY <1>4, WakeTyped DEF TypeOK, Conflict
  <1> QED BY <1>1, <1>2, <1>3, <1>4 DEF UserStep

LEMMA ReturnsTyped ==
    ASSUME TypeOK, NEW c \in Caller, NEW f \in BOOLEAN, Returns(c, f)
    PROVE  call' \in [Caller -> CallType] /\ worker' \in WorkerType
  BY DEF TypeOK, Returns, CallType, WorkerType, WorkerPc

(* A caller who is not idle knows what it asks for.                        *)
LEMMA CallFields ==
    ASSUME TypeOK, NEW c \in Caller, call[c].pc # "idle"
    PROVE  call[c] \in [pc: CallPc, name: Name, refresh: BOOLEAN, at: Nat]
  BY DEF TypeOK, CallType, Quiet

LEMMA LookupTyped ==
    ASSUME TypeOK, NEW c \in Caller, LookupStep(c)
    PROVE  TypeOK'
  <1> DEFINE Record == [pc: CallPc, name: Name, refresh: BOOLEAN, at: Nat]
  <1>0. call \in [Caller -> CallType] /\ Record \subseteq CallType
    BY DEF TypeOK, CallType
  <1>00. call[c].pc # "idle" => call[c] \in Record
    BY CallFields
  <1>1. CASE CacheHit(c)
    BY <1>1, ReturnsTyped DEF CacheHit, TypeOK
  <1>2. CASE CacheMiss(c)
    <2>1. [call[c] EXCEPT !.pc = "asking"] \in Record
      BY <1>2, <1>00 DEF CacheMiss, CallPc
    <2> QED BY <1>2, <1>0, <2>1 DEF CacheMiss, TypeOK
  <1>3. CASE FromMemo(c)
    <2>1. [call[c] EXCEPT !.pc = "storing", !.at = memo[call[c].name]] \in Record
      BY <1>3, <1>00 DEF FromMemo, CallPc, TypeOK
    <2> QED BY <1>3, <1>0, <2>1 DEF FromMemo, TypeOK
  <1>4. CASE Answer(c)
    <2>1. now + 1 \in Nat
      BY DEF TypeOK
    <2>2. [call[c] EXCEPT !.pc = "answered", !.at = now + 1] \in Record
      BY <1>4, <1>00, <2>1 DEF Answer, CallPc
    <2> QED BY <1>4, <1>0, <2>1, <2>2 DEF Answer, TypeOK
  <1>5. CASE Remember(c)
    <2>1. /\ [call[c] EXCEPT !.pc = "storing"] \in Record
          /\ call[c].at \in Nat
      BY <1>5, <1>00 DEF Remember, CallPc
    <2> QED BY <1>5, <1>0, <2>1 DEF Remember, TypeOK
  <1>6. CASE Store(c)
    <2>1. call[c].at \in Nat
      BY <1>6, <1>00 DEF Store
    <2>2. rank' \in [Name -> Nat]
      BY <1>6, <2>1 DEF Store, Upsert, TypeOK
    <2> QED BY <1>6, <2>2, ReturnsTyped DEF Store, TypeOK
  <1>7. CASE NoAnswer(c)
    BY <1>7, ReturnsTyped DEF NoAnswer, TypeOK
  <1> QED BY <1>1, <1>2, <1>3, <1>4, <1>5, <1>6, <1>7 DEF LookupStep

LEMMA VisitorTyped ==
    ASSUME TypeOK, NEW v \in Visitor, VisitorStep(v)
    PROVE  TypeOK'
  <1>1. ASSUME NEW visit \in Visits, Lookup(v, visit) PROVE TypeOK'
    <2>1. visit.name \in Name /\ visit.refresh \in BOOLEAN
      BY RequestAssumption
    <2>2. [pc |-> "recheck", name |-> visit.name, refresh |-> visit.refresh, at |-> 0] \in CallType
      BY <2>1 DEF CallType, CallPc
    <2> QED BY <1>1, <2>2 DEF Lookup, TypeOK
  <1> QED BY <1>1, LookupTyped DEF VisitorStep, Caller

(* The name the batch has come to.                                        *)
LEMMA CurrentName ==
    ASSUME TypeOK, worker.batch \in DOMAIN batch, MoreNames
    PROVE  Current \in Name
  <1> DEFINE l == batch[worker.batch].list
  <1>1. l \in List /\ worker.at \in Nat
    BY Rows DEF TypeOK, BatchType, WorkerType
  <1>2. worker.at < Len(Names[l])
    BY DEF MoreNames, NamesOf
  <1> HIDE DEF l
  <1>3. worker.at + 1 \in 1..Len(Names[l])
    BY <1>1, <1>2, Journals
  <1>4. Names[l][worker.at + 1] \in Name
    BY <1>1, <1>3, Journals
  <1> QED BY <1>4 DEF Current, NamesOf, l

LEMMA CountedFields ==
    ASSUME NEW b \in BatchType
    PROVE  /\ Counted(b) \in BatchType
           /\ Counted(b).processed = b.processed + 1
           /\ Counted(b).failed = IF worker.failed THEN b.failed + 1 ELSE b.failed
           /\ \A f \in {"list", "refresh", "status", "created"} : Counted(b)[f] = b[f]
  <1>1. b.processed + 1 \in Nat /\ b.failed + 1 \in Nat /\ b.failed \in Nat
    BY DEF BatchType
  <1> QED BY <1>1 DEF Counted, BatchType

LEMMA WorkerTyped ==
    ASSUME TypeOK, WorkerInv, WorkerStep
    PROVE  TypeOK'
  <1>0. /\ worker \in WorkerType
        /\ worker.pc \in {"read", "look", "lookup", "count"} => worker.batch \in DOMAIN batch
    BY DEF TypeOK, WorkerInv, Busy
  <1>1. ASSUME NEW i \in Queued, Claim(i) PROVE TypeOK'
    <2> DEFINE b == [batch[i] EXCEPT !.status = "running"]
    <2>1. i \in DOMAIN batch
      BY DEF Queued
    <2>2. b \in BatchType
      BY <2>1, Rows DEF BatchType, OpenStatus
    <2>3. batch' = [batch EXCEPT ![i] = b]
      BY <1>1 DEF Claim
    <2> HIDE DEF b
    <2>4. batch' \in Seq(BatchType) /\ DOMAIN batch' = DOMAIN batch
      BY <2>1, <2>2, <2>3, OneRow
    <2>5. worker' \in WorkerType
      BY <1>0, <1>1, <2>1, Rows DEF Claim, WorkerType, WorkerPc
    <2> QED BY <1>1, <2>4, <2>5 DEF Claim, TypeOK
  <1>2. CASE Read
    <2>1. batch[worker.batch].processed \in Nat
      BY <1>0, <1>2, Rows DEF Read, BatchType
    <2> QED BY <1>2, <2>1 DEF Read, TypeOK, WorkerType, WorkerPc
  <1>3. CASE LookCached
    BY <1>3 DEF LookCached, TypeOK, WorkerType, WorkerPc
  <1>4. CASE LookUp
    <2>1. batch[worker.batch] \in BatchType
      BY <1>0, <1>4, Rows DEF LookUp
    <2>2. Current \in Name
      BY <1>0, <1>4, CurrentName DEF LookUp
    <2>3. [pc |-> "recheck", name |-> Current, refresh |-> batch[worker.batch].refresh, at |-> 0]
             \in CallType
      BY <2>1, <2>2 DEF BatchType, CallType, CallPc
    <2>4. worker' \in WorkerType
      BY <1>0, <1>4 DEF LookUp, WorkerType, WorkerPc
    <2> QED BY <1>4, <2>3, <2>4 DEF LookUp, TypeOK
  <1>5. CASE Count
    <2> DEFINE i == worker.batch
               b == Counted(batch[i])
    <2>1. i \in DOMAIN batch
      BY <1>0, <1>5 DEF Count
    <2>2. b \in BatchType
      BY <2>1, Rows, CountedFields
    <2>3. batch' = [batch EXCEPT ![i] = b]
      BY <1>5 DEF Count
    <2> HIDE DEF b
    <2>4. batch' \in Seq(BatchType) /\ DOMAIN batch' = DOMAIN batch
      BY <2>1, <2>2, <2>3, OneRow
    <2>5. worker.at + 1 \in Nat
      BY <1>0 DEF WorkerType
    <2>6. worker' \in WorkerType
      BY <1>0, <1>5, <2>5 DEF Count, WorkerType, WorkerPc
    <2> QED BY <1>5, <2>4, <2>6 DEF Count, TypeOK
  <1>6. CASE FinishBatch
    <2> DEFINE i == worker.batch
               b == [batch[i] EXCEPT !.status = Verdict(batch[i])]
    <2>1. i \in DOMAIN batch
      BY <1>0, <1>6 DEF FinishBatch
    <2>2. b \in BatchType
      BY <2>1, Rows DEF BatchType, Verdict, Ended
    <2>3. batch' = [batch EXCEPT ![i] = b]
      BY <1>6 DEF FinishBatch
    <2> HIDE DEF b
    <2>4. batch' \in Seq(BatchType) /\ DOMAIN batch' = DOMAIN batch
      BY <2>1, <2>2, <2>3, OneRow
    <2>5. worker' \in WorkerType
      BY <1>6 DEF FinishBatch, Thread, WorkerType, WorkerPc
    <2> QED BY <1>6, <2>4, <2>5 DEF FinishBatch, TypeOK
  <1> QED BY <1>1, <1>2, <1>3, <1>4, <1>5, <1>6, LookupTyped DEF WorkerStep, Caller

(* Running batches are queued again by a restart; nothing else changes.    *)
LEMMA RecoveredRows ==
    ASSUME TypeOK, batch' = Recovered
    PROVE  /\ batch' \in Seq(BatchType)
           /\ DOMAIN batch' = DOMAIN batch
           /\ \A i \in DOMAIN batch :
                 batch'[i] = IF batch[i].status = "running"
                             THEN [batch[i] EXCEPT !.status = "queued"] ELSE batch[i]
  <1>1. DOMAIN batch' = DOMAIN batch
        /\ \A i \in DOMAIN batch :
               batch'[i] = IF batch[i].status = "running"
                           THEN [batch[i] EXCEPT !.status = "queued"] ELSE batch[i]
    BY DEF Recovered
  <1>2. \A i \in DOMAIN batch : batch'[i] \in BatchType
    BY <1>1, Rows DEF BatchType, OpenStatus
  <1>3. batch' \in [1..Len(batch) -> BatchType] /\ Len(batch) \in Nat
    BY <1>1, <1>2, Rows DEF Recovered
  <1>4. batch' \in Seq(BatchType)
    BY <1>3, SeqDef
  <1> QED BY <1>1, <1>4

LEMMA FaultCount ==
    ASSUME TypeOK, NEW kind, Fault(kind)
    PROVE  faults' \in Nat
  BY DEF Fault, TypeOK

LEMMA FaultTyped ==
    ASSUME TypeOK, WorkerInv, FaultStep
    PROVE  TypeOK'
  <1>0. Unhandled => worker.batch \in DOMAIN batch
    BY DEF Unhandled, WorkerInv, Busy
  <1>1. ASSUME NEW c \in Caller, LookupError(c) PROVE TypeOK'
    BY <1>1, ReturnsTyped, FaultCount DEF LookupError, TypeOK
  <1>2. CASE LookError
    BY <1>2, FaultCount DEF LookError, TypeOK, WorkerType, WorkerPc
  <1>3. CASE BatchError
    <2> DEFINE i == worker.batch
               b == [batch[i] EXCEPT !.status = "queued"]
    <2>1. i \in DOMAIN batch
      BY <1>0, <1>3 DEF BatchError
    <2>2. b \in BatchType
      BY <2>1, Rows DEF BatchType, OpenStatus
    <2>3. batch' = [batch EXCEPT ![i] = b]
      BY <1>3 DEF BatchError, GiveBack
    <2> HIDE DEF b
    <2>4. batch' \in Seq(BatchType) /\ DOMAIN batch' = DOMAIN batch
      BY <2>1, <2>2, <2>3, OneRow
    <2>5. worker' \in WorkerType
      BY <1>3 DEF BatchError, Thread, WorkerType, WorkerPc
    <2> QED BY <1>3, <2>4, <2>5, FaultCount DEF BatchError, TypeOK
  <1>4. CASE Outage
    BY <1>0, <1>4, FaultCount DEF Outage, TypeOK, Thread, WorkerType, WorkerPc
  <1>5. CASE Restart
    <2>1. batch' \in Seq(BatchType)
      BY <1>5, RecoveredRows DEF Restart
    <2>2. worker' \in WorkerType
      BY <1>5 DEF Restart, Thread, WorkerType, WorkerPc
    <2>3. call' \in [Caller -> CallType]
      BY <1>5 DEF Restart, CallType
    <2> QED BY <1>5, <2>1, <2>2, <2>3, FaultCount DEF Restart, TypeOK
  <1> QED BY <1>1, <1>2, <1>3, <1>4, <1>5 DEF FaultStep

LEMMA StepTyped ==
    ASSUME TypeOK, WorkerInv, Next
    PROVE  TypeOK'
  BY UserTyped, VisitorTyped, WorkerTyped, FaultTyped DEF Next
-----------------------------------------------------------------------------
(* The shared cache never goes back, and what is served stays served.      *)
LEMMA StoreGrows ==
    ASSUME TypeOK, NEW c \in Caller, Store(c)
    PROVE  \A n \in Name : rank'[n] >= rank[n]
  <1>1. call[c].at \in Nat /\ rank \in [Name -> Nat]
    BY CallFields DEF Store, TypeOK
  <1> QED BY <1>1 DEF Store, Upsert

LEMMA LookupGrows ==
    ASSUME TypeOK, NEW c \in Caller, LookupStep(c)
    PROVE  \A n \in Name : rank'[n] >= rank[n]
  <1>1. CASE Store(c)
    BY <1>1, StoreGrows
  <1>2. CASE ~Store(c)
    <2>1. UNCHANGED rank
      BY <1>2 DEF LookupStep, CacheHit, CacheMiss, FromMemo, Answer, Remember, NoAnswer
    <2> QED BY <2>1 DEF TypeOK
  <1> QED BY <1>1, <1>2

LEMMA CacheGrows ==
    ASSUME TypeOK, [Next]_vars
    PROVE  \A n \in Name : rank'[n] >= rank[n]
  <1>1. UNCHANGED rank => \A n \in Name : rank'[n] >= rank[n]
    BY DEF TypeOK
  <1>2. CASE WorkerStep
    <2>1. CASE LookupStep(Worker)
      BY <2>1, LookupGrows DEF Caller
    <2>2. CASE ~LookupStep(Worker)
      BY <1>1, <1>2, <2>2 DEF WorkerStep, Claim, Read, LookCached, LookUp, Count, FinishBatch
    <2> QED BY <2>1, <2>2
  <1>3. CASE FaultStep
    BY <1>1, <1>3 DEF FaultStep, LookupError, LookError, BatchError, Outage, Restart
  <1>4. CASE \E u \in User : UserStep(u)
    BY <1>1, <1>4 DEF UserStep, Join, Ask, Insert, Conflict
  <1>5. CASE \E v \in Visitor : VisitorStep(v)
    <2>1. PICK v \in Visitor : VisitorStep(v)
      BY <1>5
    <2>2. CASE LookupStep(v)
      BY <2>2, LookupGrows DEF Caller
    <2>3. CASE ~LookupStep(v)
      BY <1>1, <2>1, <2>3 DEF VisitorStep, Lookup
    <2> QED BY <2>2, <2>3
  <1>6. CASE UNCHANGED vars
    BY <1>1, <1>6 DEF vars
  <1> QED BY <1>2, <1>3, <1>4, <1>5, <1>6 DEF Next

LEMMA ServedGrows ==
    ASSUME NEW old \in [Name -> Nat], NEW new \in [Name -> Nat],
           \A n \in Name : new[n] >= old[n],
           NEW b \in BatchType, NEW n \in Name, ServedBy(old, n, b)
    PROVE  ServedBy(new, n, b)
  <1>1. old[n] \in Nat /\ new[n] \in Nat /\ new[n] >= old[n] /\ b.created \in Nat
    BY DEF BatchType
  <1> QED BY <1>1 DEF ServedBy

LEMMA ExactGrows ==
    ASSUME NEW old \in [Name -> Nat], NEW new \in [Name -> Nat],
           \A n \in Name : new[n] >= old[n],
           NEW b \in BatchType, ExactIn(old, b)
    PROVE  ExactIn(new, b)
  <1>1. /\ b.list \in List
        /\ b.processed \in Nat
    BY DEF BatchType
  <1>2. /\ b.processed <= Len(Names[b.list])
        /\ Len(Names[b.list]) \in Nat
    BY <1>1, Journals DEF ExactIn
  <1>3. ASSUME b.failed = 0, NEW k \in 1..b.processed PROVE ServedBy(new, Names[b.list][k], b)
    <2>1. Names[b.list][k] \in Name
      BY <1>1, <1>2, Journals
    <2>2. ServedBy(old, Names[b.list][k], b)
      BY <1>3 DEF ExactIn
    <2> QED BY <2>1, <2>2, ServedGrows
  <1> QED BY <1>3 DEF ExactIn
-----------------------------------------------------------------------------
(* Frames: what a step leaves alone it does not break.                     *)
LEMMA TableFrame ==
    ASSUME TypeOK, TypeOK', ClockInv, Exact,
           batch' = batch, now' >= now, \A n \in Name : rank'[n] >= rank[n]
    PROVE  ClockInv' /\ Exact'
  <1>1. \A i \in DOMAIN batch : batch[i] \in BatchType /\ batch[i].created \in Nat
    BY Rows DEF BatchType
  <1>2. now \in Nat /\ now' \in Nat /\ rank \in [Name -> Nat] /\ rank' \in [Name -> Nat]
    BY DEF TypeOK
  <1>3. ClockInv'
    BY <1>1, <1>2 DEF ClockInv
  <1>4. Exact'
    <2> SUFFICES ASSUME NEW i \in DOMAIN batch' PROVE ExactIn(rank', batch'[i])
      BY DEF Exact
    <2>1. batch[i] \in BatchType /\ ExactIn(rank, batch[i]) /\ batch'[i] = batch[i]
      BY <1>1 DEF Exact
    <2>2. ExactIn(rank', batch[i])
      BY <1>2, <2>1, ExactGrows
    <2> QED BY <2>1, <2>2
  <1> QED BY <1>3, <1>4

LEMMA QuietStep ==
    ASSUME RInv, TypeOK', UNCHANGED <<batch, worker, stranded>>, call'[Worker] = call[Worker],
           now' >= now, \A n \in Name : rank'[n] >= rank[n]
    PROVE  RInv'
  <1>1. WorkerInv'
    BY DEF RInv, WorkerInv, Busy, Open
  <1>2. CallInv'
    BY DEF RInv, CallInv, MoreNames, Current, NamesOf
  <1>3. CountInv'
    <2> SUFFICES ASSUME worker.pc = "count"
                 PROVE  /\ MoreNames'
                        /\ ~worker.failed => ServedBy(rank', Current', batch[worker.batch])
      BY DEF CountInv
    <2>1. MoreNames /\ MoreNames' /\ Current' = Current
      BY DEF RInv, CountInv, MoreNames, Current, NamesOf
    <2>2. worker.batch \in DOMAIN batch
      BY DEF RInv, WorkerInv, Busy
    <2>3. /\ Current \in Name /\ batch[worker.batch] \in BatchType
          /\ rank \in [Name -> Nat] /\ rank' \in [Name -> Nat]
      BY <2>1, <2>2, CurrentName, Rows DEF RInv, TypeOK
    <2>4. ~worker.failed => ServedBy(rank, Current, batch[worker.batch])
      BY DEF RInv, CountInv
    <2> QED BY <2>1, <2>3, <2>4, ServedGrows
  <1>4. ClockInv' /\ Exact'
    BY TableFrame DEF RInv
  <1> QED BY <1>1, <1>2, <1>3, <1>4 DEF RInv

LEMMA WakeStep ==
    ASSUME RInv, TypeOK', Wake, UNCHANGED <<batch, rank, call, now, stranded>>
    PROVE  RInv'
  <1>1. CASE worker.pc # "off"
    <2>1. UNCHANGED worker
      BY <1>1 DEF Wake
    <2>2. now' >= now /\ \A n \in Name : rank'[n] >= rank[n]
      BY DEF RInv, TypeOK
    <2> QED BY <2>1, <2>2, QuietStep
  <1>2. CASE worker.pc = "off"
    <2>1. worker' = Thread("claim") /\ worker'.pc = "claim"
      BY <1>2 DEF Wake, Thread
    <2>2. WorkerInv'
      BY <1>2, <2>1 DEF RInv, WorkerInv, Busy, Open
    <2>3. CallInv' /\ CountInv'
      BY <2>1 DEF CallInv, CountInv
    <2>4. now' >= now /\ \A n \in Name : rank'[n] >= rank[n]
      BY DEF RInv, TypeOK
    <2>5. ClockInv' /\ Exact'
      BY <2>4, TableFrame DEF RInv
    <2> QED BY <2>2, <2>3, <2>5 DEF RInv
  <1> QED BY <1>1, <1>2
-----------------------------------------------------------------------------
(* Users.                                                                  *)
LEMMA InsertKeeps ==
    ASSUME RInv, TypeOK', NEW u \in User, Insert(u)
    PROVE  RInv'
  <1> DEFINE b == [list |-> asked[u].list, refresh |-> asked[u].refresh,
                   status |-> "queued", processed |-> 0, failed |-> 0, created |-> now]
             new == Len(batch) + 1
  <1>1. asked[u] \in Requests /\ asked[u].list \in List /\ asked[u].refresh \in BOOLEAN
    BY RequestAssumption DEF Insert, RInv, TypeOK
  <1>2. b \in BatchType
    BY <1>1 DEF BatchType, OpenStatus, RInv, TypeOK
  <1>3. b.status = "queued" /\ b.created = now
    OBVIOUS
  <1>4. ExactIn(rank, b)
    BY <1>1, Journals DEF ExactIn, Ended
  <1>5. batch' = Append(batch, b)
    BY DEF Insert
  <1>6. Wake /\ UNCHANGED <<rank, memo, call, now, faults, stranded>>
    BY DEF Insert
  <1> HIDE DEF b
  <1>7. /\ batch \in Seq(BatchType) /\ Len(batch) \in Nat /\ DOMAIN batch = 1..Len(batch)
        /\ stranded \subseteq DOMAIN batch
    BY Rows DEF RInv, TypeOK
  <1>8. /\ batch' \in Seq(BatchType) /\ Len(batch') = new
        /\ \A i \in DOMAIN batch : batch'[i] = batch[i]
        /\ batch'[new] = b
    BY <1>2, <1>5, <1>7, AppendProperties
  <1>9. DOMAIN batch' = 1..new
    BY <1>8, LenProperties
  <1>10. DOMAIN batch' = DOMAIN batch \cup {new} /\ new \notin DOMAIN batch
    BY <1>7, <1>9
  <1> HIDE DEF new
  <1>11. worker' = worker \/ (worker.pc = "off" /\ worker'.pc = "claim")
    BY <1>6 DEF Wake, Thread
  <1>12. worker'.pc # "off"
    BY <1>6 DEF Wake, Thread
  <1>13. Busy' <=> Busy
    BY <1>11 DEF Busy
  <1>14. Busy => worker' = worker /\ worker.batch \in DOMAIN batch
    BY <1>11 DEF Busy, RInv, WorkerInv
  <1>15. WorkerInv'
    <2>1. \A i \in DOMAIN batch' :
              batch'[i].status = "running" <=> (Busy' /\ worker'.batch = i) \/ i \in stranded
      BY <1>3, <1>7, <1>8, <1>10, <1>13, <1>14 DEF RInv, WorkerInv
    <2>2. worker'.pc \in {"look", "lookup", "count"} => worker'.at = batch'[worker'.batch].processed
      BY <1>8, <1>11, <1>14 DEF RInv, WorkerInv, Busy
    <2>3. worker'.pc = "lookup" <=> call'[Worker].pc # "idle"
      BY <1>6, <1>11 DEF RInv, WorkerInv
    <2>4. Busy' => worker'.batch \in DOMAIN batch' \ stranded'
      BY <1>6, <1>10, <1>13, <1>14 DEF RInv, WorkerInv
    <2> QED BY <1>6, <1>12, <2>1, <2>2, <2>3, <2>4 DEF WorkerInv
  <1>16. Busy => batch'[worker'.batch] = batch[worker.batch]
    BY <1>8, <1>14
  <1>17. CallInv'
    BY <1>6, <1>11, <1>14, <1>16 DEF RInv, CallInv, MoreNames, Current, NamesOf, Busy
  <1>18. CountInv'
    BY <1>6, <1>11, <1>14, <1>16 DEF RInv, CountInv, MoreNames, Current, NamesOf, Busy
  <1>19. ClockInv'
    <2>1. now \in Nat /\ now' = now
      BY <1>6 DEF RInv, TypeOK
    <2> QED BY <1>3, <1>8, <1>10, <2>1 DEF RInv, ClockInv
  <1>20. Exact'
    <2> SUFFICES ASSUME NEW i \in DOMAIN batch' PROVE ExactIn(rank', batch'[i])
      BY DEF Exact
    <2>1. rank' = rank
      BY <1>6
    <2>2. CASE i = new
      BY <1>4, <1>8, <2>1, <2>2
    <2>3. CASE i \in DOMAIN batch
      BY <1>8, <2>1, <2>3 DEF RInv, Exact
    <2> QED BY <1>10, <2>2, <2>3
  <1> QED BY <1>15, <1>17, <1>18, <1>19, <1>20 DEF RInv

LEMMA UserKeeps ==
    ASSUME RInv, TypeOK', NEW u \in User, UserStep(u)
    PROVE  RInv'
  <1>0. now \in Nat /\ rank \in [Name -> Nat]
    BY DEF RInv, TypeOK
  <1>1. CASE \E request \in Requests : Join(u, request)
    BY <1>1, WakeStep DEF Join
  <1>2. CASE \E request \in Requests : Ask(u, request)
    <2>1. UNCHANGED <<batch, worker, stranded, call, rank, now>>
      BY <1>2 DEF Ask
    <2>2. now' >= now /\ \A n \in Name : rank'[n] >= rank[n]
      BY <1>0, <2>1
    <2> QED BY <2>1, <2>2, QuietStep
  <1>3. CASE Conflict(u)
    <2>1. UNCHANGED <<batch, stranded, call, rank, now>>
      BY <1>3 DEF Conflict
    <2>2. now' >= now /\ \A n \in Name : rank'[n] >= rank[n]
      BY <1>0, <2>1
    <2>3. Wake \/ UNCHANGED worker
      BY <1>3 DEF Conflict
    <2> QED BY <2>1, <2>2, <2>3, WakeStep, QuietStep
  <1> QED BY <1>1, <1>2, <1>3, InsertKeeps DEF UserStep
-----------------------------------------------------------------------------
(* Lookups.                                                                *)
LEMMA LookupFrame ==
    ASSUME TypeOK, NEW v \in Visitor, LookupStep(v)
    PROVE  /\ UNCHANGED <<batch, worker, stranded>>
           /\ call'[Worker] = call[Worker]
           /\ now' = now \/ now' = now + 1
  <1>1. v # Worker /\ call \in [Caller -> CallType] /\ Worker \in Caller
    BY WorkerAssumption DEF Caller, TypeOK
  <1>2. ASSUME NEW f \in BOOLEAN, Returns(v, f)
        PROVE  UNCHANGED worker /\ call'[Worker] = call[Worker]
    BY <1>1, <1>2 DEF Returns
  <1>3. CASE CacheHit(v) \/ Store(v) \/ NoAnswer(v)
    BY <1>2, <1>3 DEF CacheHit, Store, NoAnswer
  <1>4. CASE CacheMiss(v) \/ FromMemo(v) \/ Answer(v) \/ Remember(v)
    BY <1>1, <1>4 DEF CacheMiss, FromMemo, Answer, Remember
  <1> QED BY <1>3, <1>4 DEF LookupStep

LEMMA VisitorKeeps ==
    ASSUME RInv, TypeOK', NEW v \in Visitor, VisitorStep(v) \/ LookupError(v)
    PROVE  RInv'
  <1>0. /\ TypeOK /\ v # Worker /\ v \in Caller /\ Worker \in Caller
        /\ call \in [Caller -> CallType] /\ now \in Nat /\ rank \in [Name -> Nat]
    BY WorkerAssumption DEF Caller, RInv, TypeOK
  <1>1. CASE LookupStep(v)
    <2>1. \A n \in Name : rank'[n] >= rank[n]
      BY <1>0, <1>1, LookupGrows
    <2>2. now' >= now
      BY <1>0, <1>1, LookupFrame
    <2> QED BY <1>0, <1>1, <2>1, <2>2, LookupFrame, QuietStep
  <1>2. CASE \E visit \in Visits : Lookup(v, visit)
    <2>1. UNCHANGED <<batch, worker, stranded, rank, now>> /\ call'[Worker] = call[Worker]
      BY <1>0, <1>2 DEF Lookup
    <2>2. now' >= now /\ \A n \in Name : rank'[n] >= rank[n]
      BY <1>0, <2>1
    <2> QED BY <2>1, <2>2, QuietStep
  <1>3. CASE LookupError(v)
    <2>1. UNCHANGED <<batch, worker, stranded, rank, now>> /\ call'[Worker] = call[Worker]
      BY <1>0, <1>3 DEF LookupError, Returns
    <2>2. now' >= now /\ \A n \in Name : rank'[n] >= rank[n]
      BY <1>0, <2>1
    <2> QED BY <2>1, <2>2, QuietStep
  <1> QED BY <1>1, <1>2, <1>3 DEF VisitorStep

(* The worker's lookup ends.                                               *)
LEMMA ReturnKeeps ==
    ASSUME RInv, TypeOK', NEW f \in BOOLEAN, Returns(Worker, f), worker.pc = "lookup",
           UNCHANGED <<batch, now, stranded>>, \A n \in Name : rank'[n] >= rank[n],
           ~f => ServedBy(rank', Current, batch[worker.batch])
    PROVE  RInv'
  <1>1. worker \in WorkerType /\ call \in [Caller -> CallType] /\ Worker \in Caller
    BY DEF RInv, TypeOK, Caller
  <1>2. /\ worker'.pc = "count" /\ worker'.failed = f
        /\ worker'.batch = worker.batch /\ worker'.at = worker.at
        /\ call'[Worker].pc = "idle"
    BY <1>1 DEF Returns, WorkerType, Quiet
  <1>3. WorkerInv'
    BY <1>2 DEF RInv, WorkerInv, Busy, Open
  <1>4. CallInv'
    BY <1>2 DEF CallInv
  <1>5. MoreNames
    BY DEF RInv, CallInv
  <1>6. MoreNames' /\ Current' = Current
    BY <1>2, <1>5 DEF MoreNames, Current, NamesOf
  <1>7. CountInv'
    BY <1>2, <1>6 DEF CountInv
  <1>8. now' >= now
    BY DEF RInv, TypeOK
  <1>9. ClockInv' /\ Exact'
    BY <1>8, TableFrame DEF RInv
  <1> QED BY <1>3, <1>4, <1>7, <1>9 DEF RInv

(* It goes on.                                                             *)
LEMMA CallingKeeps ==
    ASSUME RInv, TypeOK', worker.pc = "lookup", UNCHANGED <<batch, rank, worker, stranded>>,
           now' >= now,
           call'[Worker].pc # "idle",
           call'[Worker].name = call[Worker].name, call'[Worker].refresh = call[Worker].refresh,
           call'[Worker].pc \in {"answered", "storing"} =>
               call'[Worker].at # 0
               /\ (call[Worker].refresh => call'[Worker].at > batch[worker.batch].created)
    PROVE  RInv'
  <1>1. WorkerInv'
    BY DEF RInv, WorkerInv, Busy, Open
  <1>2. CallInv'
    BY DEF RInv, CallInv, MoreNames, Current, NamesOf
  <1>3. CountInv'
    BY DEF CountInv
  <1>4. \A n \in Name : rank'[n] >= rank[n]
    BY DEF RInv, TypeOK
  <1>5. ClockInv' /\ Exact'
    BY <1>4, TableFrame DEF RInv
  <1> QED BY <1>1, <1>2, <1>3, <1>5 DEF RInv
LEMMA WorkerLookupKeeps ==
    ASSUME RInv, TypeOK', LookupStep(Worker)
    PROVE  RInv'
  <1> DEFINE b == batch[worker.batch]
             c == call[Worker]
  <1>1. c.pc # "idle"
    BY DEF LookupStep, CacheHit, CacheMiss, FromMemo, Answer, Remember, Store, NoAnswer
  <1>2. /\ worker.pc = "lookup" /\ worker.batch \in DOMAIN batch
        /\ MoreNames /\ c.name = Current /\ c.refresh = b.refresh
        /\ c.pc \in {"answered", "storing"} => c.at # 0 /\ (b.refresh => c.at > b.created)
    BY <1>1 DEF RInv, WorkerInv, CallInv, Busy
  <1>3. /\ Worker \in Caller /\ call \in [Caller -> CallType]
        /\ c.at \in Nat /\ c.name \in Name /\ c.refresh \in BOOLEAN
        /\ now \in Nat /\ rank \in [Name -> Nat] /\ memo \in [Name -> Nat]
    BY <1>1, CallFields DEF RInv, TypeOK, Caller
  <1>4. b.created \in Nat /\ b.created <= now
    BY <1>2, Rows DEF RInv, ClockInv, BatchType
  <1>5. \A n \in Name : rank'[n] >= rank[n]
    BY <1>3, LookupGrows DEF RInv
  <1>6. CASE CacheHit(Worker)
    <2>1. ServedBy(rank, Current, b)
      BY <1>2, <1>6 DEF CacheHit, ServedBy
    <2>2. Returns(Worker, FALSE) /\ UNCHANGED <<batch, now, stranded, rank>>
      BY <1>6 DEF CacheHit
    <2> QED BY <1>2, <1>5, <2>1, <2>2, ReturnKeeps
  <1>7. CASE Store(Worker)
    <2>1. c.at # 0 /\ (b.refresh => c.at > b.created)
      BY <1>2, <1>7 DEF Store
    <2>2. rank'[Current] \in Nat /\ rank'[Current] >= c.at
      BY <1>2, <1>3, <1>7 DEF Store, Upsert
    <2>3. ServedBy(rank', Current, b)
      BY <1>3, <1>4, <2>1, <2>2 DEF ServedBy
    <2>4. Returns(Worker, FALSE) /\ UNCHANGED <<batch, now, stranded>>
      BY <1>7 DEF Store
    <2> QED BY <1>2, <1>5, <2>3, <2>4, ReturnKeeps
  <1>8. CASE NoAnswer(Worker)
    <2>1. Returns(Worker, TRUE) /\ UNCHANGED <<batch, now, stranded>>
      BY <1>8 DEF NoAnswer
    <2> QED BY <1>2, <1>5, <2>1, ReturnKeeps
  <1>9. CASE CacheMiss(Worker)
    <2>1. call'[Worker] = [c EXCEPT !.pc = "asking"]
      BY <1>3, <1>9 DEF CacheMiss
    <2>2. UNCHANGED <<batch, rank, worker, stranded, now>> /\ now' >= now
      BY <1>3, <1>9 DEF CacheMiss
    <2> HIDE DEF c
    <2>3. c \in CallType
      BY <1>3 DEF c
    <2>4. call'[Worker].pc = "asking" /\ call'[Worker].name = c.name /\ call'[Worker].refresh = c.refresh
      BY <2>1, <2>3 DEF CallType, Quiet
    <2> QED BY <1>2, <2>2, <2>4, CallingKeeps DEF c
  <1>10. CASE FromMemo(Worker)
    <2>1. call'[Worker] = [c EXCEPT !.pc = "storing", !.at = memo[c.name]]
      BY <1>3, <1>10 DEF FromMemo
    <2>2. UNCHANGED <<batch, rank, worker, stranded, now>> /\ now' >= now
      BY <1>3, <1>10 DEF FromMemo
    <2>3. ~c.refresh /\ memo[c.name] # 0
      BY <1>10 DEF FromMemo, MemoMayAnswer
    <2> HIDE DEF c
    <2>4. c \in CallType
      BY <1>3 DEF c
    <2>5. /\ call'[Worker].pc = "storing" /\ call'[Worker].at = memo[c.name]
          /\ call'[Worker].name = c.name /\ call'[Worker].refresh = c.refresh
      BY <2>1, <2>4 DEF CallType, Quiet
    <2> QED BY <1>2, <2>2, <2>3, <2>5, CallingKeeps DEF c
  <1>11. CASE Answer(Worker)
    <2>1. call'[Worker] = [c EXCEPT !.pc = "answered", !.at = now + 1]
      BY <1>3, <1>11 DEF Answer
    <2>2. UNCHANGED <<batch, rank, worker, stranded>> /\ now' >= now
      BY <1>3, <1>11 DEF Answer
    <2>3. now + 1 # 0 /\ now + 1 > b.created
      BY <1>3, <1>4
    <2> HIDE DEF c, b
    <2>4. c \in CallType
      BY <1>3 DEF c
    <2>5. /\ call'[Worker].pc = "answered" /\ call'[Worker].at = now + 1
          /\ call'[Worker].name = c.name /\ call'[Worker].refresh = c.refresh
      BY <2>1, <2>4 DEF CallType, Quiet
    <2> QED BY <1>2, <2>2, <2>3, <2>5, CallingKeeps DEF c, b
  <1>12. CASE Remember(Worker)
    <2>1. call'[Worker] = [c EXCEPT !.pc = "storing"] /\ c.pc = "answered"
      BY <1>3, <1>12 DEF Remember
    <2>2. UNCHANGED <<batch, rank, worker, stranded, now>> /\ now' >= now
      BY <1>3, <1>12 DEF Remember
    <2>3. c.at # 0 /\ (b.refresh => c.at > b.created)
      BY <1>2, <2>1
    <2> HIDE DEF c, b
    <2>4. c \in CallType
      BY <1>3 DEF c
    <2>5. /\ call'[Worker].pc = "storing" /\ call'[Worker].at = c.at
          /\ call'[Worker].name = c.name /\ call'[Worker].refresh = c.refresh
      BY <2>1, <2>4 DEF CallType, Quiet
    <2> QED BY <1>2, <2>2, <2>3, <2>5, CallingKeeps DEF c, b
  <1> QED BY <1>6, <1>7, <1>8, <1>9, <1>10, <1>11, <1>12 DEF LookupStep
-----------------------------------------------------------------------------
(* The worker outside its lookups.                                         *)

(* A rewritten status, here and in what follows, keeps the other columns.  *)
LEMMA NewStatus ==
    ASSUME NEW b \in BatchType, NEW st \in OpenStatus \cup Ended
    PROVE  LET new == [b EXCEPT !.status = st] IN
           /\ new \in BatchType
           /\ new.status = st /\ new.list = b.list /\ new.refresh = b.refresh
           /\ new.processed = b.processed /\ new.failed = b.failed /\ new.created = b.created
  BY DEF BatchType

LEMMA ReopenedExact ==
    ASSUME NEW r, NEW b \in BatchType, NEW st \in OpenStatus, ExactIn(r, b)
    PROVE  ExactIn(r, [b EXCEPT !.status = st])
  <1> DEFINE new == [b EXCEPT !.status = st]
  <1>1. /\ new.status \notin Ended /\ new.list = b.list /\ new.refresh = b.refresh
        /\ new.processed = b.processed /\ new.failed = b.failed /\ new.created = b.created
    BY NewStatus DEF OpenStatus, Ended
  <1> HIDE DEF new
  <1>2. ExactIn(r, new)
    BY <1>1 DEF ExactIn, ServedBy, Ended
  <1> QED BY <1>2 DEF new

(* The table after one row was rewritten by another that is exact.         *)
LEMMA OneRowFrame ==
    ASSUME RInv, NEW i \in DOMAIN batch, NEW b \in BatchType,
           batch' = [batch EXCEPT ![i] = b], UNCHANGED <<rank, now>>,
           b.created = batch[i].created, ExactIn(rank, b)
    PROVE  ClockInv' /\ Exact'
  <1>1. /\ DOMAIN batch' = DOMAIN batch /\ batch'[i] = b
        /\ \A k \in DOMAIN batch \ {i} : batch'[k] = batch[k]
    BY OneRow DEF RInv
  <1>2. ClockInv'
    BY <1>1 DEF RInv, ClockInv
  <1>3. \A k \in DOMAIN batch : ExactIn(rank, batch'[k])
    BY <1>1 DEF RInv, Exact
  <1>4. rank' = rank
    OBVIOUS
  <1>5. Exact'
    BY <1>1, <1>3, <1>4 DEF Exact
  <1> QED BY <1>2, <1>5

LEMMA ClaimKeeps ==
    ASSUME RInv, TypeOK', NEW i \in Queued, Claim(i)
    PROVE  RInv'
  <1> DEFINE b == [batch[i] EXCEPT !.status = "running"]
  <1>1. /\ i \in DOMAIN batch /\ batch[i].status = "queued" /\ batch[i] \in BatchType
        /\ ExactIn(rank, batch[i])
    BY Rows DEF Queued, RInv, Exact
  <1>2. /\ worker.pc = "claim" /\ UNCHANGED <<rank, call, now, stranded>>
        /\ batch' = [batch EXCEPT ![i] = b]
        /\ worker' = [worker EXCEPT !.pc = "read", !.batch = i]
    BY DEF Claim
  <1>3. b \in BatchType /\ b.status = "running" /\ b.created = batch[i].created
    BY <1>1 DEF BatchType, OpenStatus
  <1>4. ExactIn(rank, b)
    BY <1>1, ReopenedExact DEF OpenStatus
  <1> HIDE DEF b
  <1>5. ClockInv' /\ Exact'
    BY <1>1, <1>2, <1>3, <1>4, OneRowFrame
  <1>6. /\ DOMAIN batch' = DOMAIN batch /\ batch'[i] = b
        /\ \A k \in DOMAIN batch \ {i} : batch'[k] = batch[k]
    BY <1>1, <1>2, <1>3, OneRow DEF RInv
  <1>7. worker'.pc = "read" /\ worker'.batch = i
    BY <1>2 DEF RInv, TypeOK, WorkerType
  <1>8. WorkerInv'
    <2>1. ~Busy /\ Busy'
      BY <1>2, <1>7 DEF Busy
    <2>2. i \notin stranded
      BY <1>1, <2>1 DEF RInv, WorkerInv
    <2>3. call[Worker].pc = "idle"
      BY <1>2 DEF RInv, WorkerInv
    <2>4. \A k \in DOMAIN batch' :
              batch'[k].status = "running" <=> (Busy' /\ worker'.batch = k) \/ k \in stranded'
      BY <1>2, <1>3, <1>6, <1>7, <2>1, <2>2 DEF RInv, WorkerInv
    <2> QED BY <1>1, <1>2, <1>6, <1>7, <2>1, <2>2, <2>3, <2>4 DEF WorkerInv
  <1>9. CallInv' /\ CountInv'
    BY <1>7 DEF CallInv, CountInv
  <1> QED BY <1>5, <1>8, <1>9 DEF RInv

LEMMA SameTable ==
    ASSUME RInv, TypeOK', UNCHANGED <<batch, rank, now>>
    PROVE  ClockInv' /\ Exact'
  <1>1. now' >= now /\ \A n \in Name : rank'[n] >= rank[n]
    BY DEF RInv, TypeOK
  <1> QED BY <1>1, TableFrame DEF RInv

LEMMA ReadKeeps ==
    ASSUME RInv, TypeOK', Read
    PROVE  RInv'
  <1>1. /\ worker.pc = "read" /\ UNCHANGED <<batch, rank, call, now, stranded>>
        /\ worker' = [worker EXCEPT !.pc = "look", !.at = batch[worker.batch].processed]
    BY DEF Read
  <1>2. /\ worker'.pc = "look" /\ worker'.batch = worker.batch
        /\ worker'.at = batch[worker.batch].processed
    BY <1>1 DEF RInv, TypeOK, WorkerType
  <1>3. WorkerInv'
    BY <1>1, <1>2 DEF RInv, WorkerInv, Busy, Open
  <1>4. CallInv' /\ CountInv'
    BY <1>2 DEF CallInv, CountInv
  <1> QED BY <1>1, <1>3, <1>4, SameTable DEF RInv

(* The cache answers at once, or cannot be read.                           *)
LEMMA LookKeeps ==
    ASSUME RInv, TypeOK', LookCached \/ LookError
    PROVE  RInv'
  <1>1. /\ worker.pc = "look" /\ MoreNames /\ UNCHANGED <<batch, rank, call, now, stranded>>
        /\ worker' = [worker EXCEPT !.pc = "count", !.failed = FALSE]
           \/ worker' = [worker EXCEPT !.pc = "count", !.failed = TRUE]
    BY DEF LookCached, LookError
  <1>2. /\ worker'.pc = "count" /\ worker'.batch = worker.batch /\ worker'.at = worker.at
        /\ worker'.failed \in BOOLEAN
    BY <1>1 DEF RInv, TypeOK, WorkerType
  <1>3. WorkerInv'
    BY <1>1, <1>2 DEF RInv, WorkerInv, Busy, Open
  <1>4. CallInv'
    BY <1>2 DEF CallInv
  <1>5. MoreNames' /\ Current' = Current
    BY <1>1, <1>2 DEF MoreNames, Current, NamesOf
  <1>6. ~worker'.failed => ServedBy(rank, Current, batch[worker.batch])
    <2>1. LookError => worker'.failed = TRUE
      BY DEF LookError, RInv, TypeOK, WorkerType
    <2>2. LookCached => ServedBy(rank, Current, batch[worker.batch])
      BY DEF LookCached, ServedBy
    <2> QED BY <2>1, <2>2
  <1>7. CountInv'
    BY <1>1, <1>2, <1>5, <1>6 DEF CountInv
  <1> QED BY <1>1, <1>3, <1>4, <1>7, SameTable DEF RInv

LEMMA LookUpKeeps ==
    ASSUME RInv, TypeOK', LookUp
    PROVE  RInv'
  <1> DEFINE c == [pc |-> "recheck", name |-> Current,
                   refresh |-> batch[worker.batch].refresh, at |-> 0]
  <1>1. /\ worker.pc = "look" /\ MoreNames /\ UNCHANGED <<batch, rank, now, stranded>>
        /\ worker' = [worker EXCEPT !.pc = "lookup"]
        /\ call' = [call EXCEPT ![Worker] = c]
    BY DEF LookUp
  <1>2. worker'.pc = "lookup" /\ worker'.batch = worker.batch /\ worker'.at = worker.at
    BY <1>1 DEF RInv, TypeOK, WorkerType
  <1>3. call'[Worker] = c
    BY <1>1 DEF RInv, TypeOK, Caller
  <1>4. WorkerInv'
    BY <1>1, <1>2, <1>3 DEF RInv, WorkerInv, Busy, Open
  <1>5. MoreNames' /\ Current' = Current
    BY <1>1, <1>2 DEF MoreNames, Current, NamesOf
  <1>6. /\ c.pc = "recheck" /\ c.name = Current /\ c.refresh = batch[worker.batch].refresh
    OBVIOUS
  <1> HIDE DEF c
  <1>7. CallInv'
    BY <1>1, <1>2, <1>3, <1>5, <1>6 DEF CallInv
  <1>8. CountInv'
    BY <1>2 DEF CountInv
  <1> QED BY <1>1, <1>4, <1>7, <1>8, SameTable DEF RInv

LEMMA CountKeeps ==
    ASSUME RInv, TypeOK', Count
    PROVE  RInv'
  <1> DEFINE i == worker.batch
             old == batch[i]
             new == Counted(old)
  <1>1. /\ worker.pc = "count" /\ UNCHANGED <<rank, call, now, stranded>>
        /\ batch' = [batch EXCEPT ![i] = new]
        /\ worker' = [worker EXCEPT !.pc = "look", !.at = worker.at + 1, !.failed = FALSE]
    BY DEF Count
  <1>2. /\ i \in DOMAIN batch \ stranded /\ old.status = "running"
        /\ worker.at = old.processed
        /\ worker.at < Len(Names[old.list])
        /\ ~worker.failed => ServedBy(rank, Names[old.list][worker.at + 1], old)
    BY <1>1 DEF RInv, WorkerInv, CountInv, Busy, MoreNames, Current, NamesOf
  <1>3. old \in BatchType /\ ExactIn(rank, old)
    BY <1>2, Rows DEF RInv, Exact
  <1>4. /\ new \in BatchType
        /\ new.processed = old.processed + 1
        /\ new.failed = IF worker.failed THEN old.failed + 1 ELSE old.failed
        /\ new.list = old.list /\ new.refresh = old.refresh
        /\ new.status = old.status /\ new.created = old.created
    BY <1>3, CountedFields
  <1>5. old.processed \in Nat /\ old.failed \in Nat /\ Len(Names[old.list]) \in Nat
    BY <1>3, Journals DEF BatchType
  <1> HIDE DEF new, old
  <1>6. ExactIn(rank, new)
    <2>1. new.failed <= new.processed /\ new.processed <= Len(Names[new.list])
      BY <1>2, <1>3, <1>4, <1>5 DEF ExactIn
    <2>2. new.status \notin Ended /\ new.status # "completed"
      BY <1>2, <1>4 DEF Ended
    <2>3. ASSUME new.failed = 0, NEW k \in 1..new.processed
          PROVE  ServedBy(rank, Names[new.list][k], new)
      <3>1. ~worker.failed /\ old.failed = 0
        BY <1>4, <1>5, <2>3
      <3>2. CASE k \in 1..old.processed
        BY <1>3, <1>4, <3>1, <3>2 DEF ExactIn, ServedBy
      <3>3. CASE k = old.processed + 1
        BY <1>2, <1>4, <3>1, <3>3 DEF ServedBy
      <3> QED BY <1>4, <1>5, <3>2, <3>3
    <2> QED BY <2>1, <2>2, <2>3 DEF ExactIn
  <1>7. ClockInv' /\ Exact'
    BY <1>1, <1>2, <1>4, <1>6, OneRowFrame DEF old
  <1>8. /\ DOMAIN batch' = DOMAIN batch /\ batch'[i] = new
        /\ \A k \in DOMAIN batch \ {i} : batch'[k] = batch[k]
    BY <1>1, <1>2, <1>4, OneRow DEF RInv
  <1>9. worker'.pc = "look" /\ worker'.batch = i /\ worker'.at = worker.at + 1
    BY <1>1 DEF RInv, TypeOK, WorkerType
  <1>10. WorkerInv'
    <2>1. Busy /\ Busy'
      BY <1>1, <1>9 DEF Busy
    <2>2. \A k \in DOMAIN batch : batch'[k].status = batch[k].status
      BY <1>4, <1>8 DEF old
    <2>3. \A k \in DOMAIN batch' :
              batch'[k].status = "running" <=> (Busy' /\ worker'.batch = k) \/ k \in stranded'
      BY <1>1, <1>8, <1>9, <2>1, <2>2 DEF RInv, WorkerInv
    <2>4. worker'.at = batch'[worker'.batch].processed
      BY <1>2, <1>4, <1>8, <1>9
    <2>5. call[Worker].pc = "idle"
      BY <1>1 DEF RInv, WorkerInv
    <2> QED BY <1>1, <1>2, <1>8, <1>9, <2>1, <2>3, <2>4, <2>5 DEF WorkerInv
  <1>11. CallInv' /\ CountInv'
    BY <1>9 DEF CallInv, CountInv
  <1> QED BY <1>7, <1>10, <1>11 DEF RInv

(* The worker lets go of its batch, which gets another status.             *)
LEMMA LetGoKeeps ==
    ASSUME RInv, TypeOK', NEW st \in (OpenStatus \cup Ended) \ {"running"},
           worker.pc \in {"read", "look", "count"},
           batch' = [batch EXCEPT ![worker.batch].status = st], worker' = Thread("claim"),
           UNCHANGED <<rank, call, now, stranded>>,
           ExactIn(rank, [batch[worker.batch] EXCEPT !.status = st])
    PROVE  RInv'
  <1> DEFINE i == worker.batch
             new == [batch[i] EXCEPT !.status = st]
  <1>1. i \in DOMAIN batch \ stranded /\ batch[i] \in BatchType /\ Busy
    BY Rows DEF RInv, WorkerInv, Busy
  <1>2. new \in BatchType /\ new.status = st /\ new.created = batch[i].created
    BY <1>1, NewStatus
  <1>3. batch' = [batch EXCEPT ![i] = new] /\ ExactIn(rank, new)
    OBVIOUS
  <1> HIDE DEF new
  <1>4. ClockInv' /\ Exact'
    BY <1>1, <1>2, <1>3, OneRowFrame
  <1>5. /\ DOMAIN batch' = DOMAIN batch /\ batch'[i] = new
        /\ \A k \in DOMAIN batch \ {i} : batch'[k] = batch[k]
    BY <1>1, <1>2, <1>3, OneRow DEF RInv
  <1>6. worker'.pc = "claim"
    BY DEF Thread
  <1>7. WorkerInv'
    <2>1. ~Busy'
      BY <1>6 DEF Busy
    <2>2. \A k \in DOMAIN batch' : batch'[k].status = "running" <=> k \in stranded'
      BY <1>1, <1>2, <1>5 DEF RInv, WorkerInv
    <2>3. call[Worker].pc = "idle"
      BY DEF RInv, WorkerInv
    <2> QED BY <1>6, <2>1, <2>2, <2>3 DEF WorkerInv
  <1>8. CallInv' /\ CountInv'
    BY <1>6 DEF CallInv, CountInv
  <1> QED BY <1>4, <1>7, <1>8 DEF RInv

LEMMA FinishKeeps ==
    ASSUME RInv, TypeOK', FinishBatch
    PROVE  RInv'
  <1> DEFINE old == batch[worker.batch]
             new == [old EXCEPT !.status = Verdict(old)]
  <1>1. /\ worker.pc = "look" /\ ~MoreNames /\ worker' = Thread("claim")
        /\ batch' = [batch EXCEPT ![worker.batch].status = Verdict(old)]
        /\ UNCHANGED <<rank, call, now, stranded>>
    BY DEF FinishBatch
  <1>2. /\ worker.batch \in DOMAIN batch /\ worker.at = old.processed
        /\ ~(worker.at < Len(Names[old.list]))
    BY <1>1 DEF RInv, WorkerInv, Busy, MoreNames, NamesOf
  <1>3. old \in BatchType /\ ExactIn(rank, old)
    BY <1>2, Rows DEF RInv, Exact
  <1>4. old.failed \in Nat /\ old.processed \in Nat /\ Len(Names[old.list]) \in Nat
    BY <1>3, Journals DEF BatchType
  <1>5. Verdict(old) \in Ended /\ (Verdict(old) = "completed" => old.failed = 0)
    BY <1>4 DEF Verdict, Ended
  <1>6. /\ new.status = Verdict(old) /\ new.list = old.list /\ new.refresh = old.refresh
        /\ new.processed = old.processed /\ new.failed = old.failed /\ new.created = old.created
    BY <1>3, <1>5, NewStatus
  <1> HIDE DEF new, old
  <1>7. ExactIn(rank, new)
    <2>1. old.processed = Len(Names[old.list])
      BY <1>2, <1>3, <1>4 DEF ExactIn
    <2> QED BY <1>3, <1>5, <1>6, <2>1 DEF ExactIn, ServedBy
  <1>8. Verdict(old) \in (OpenStatus \cup Ended) \ {"running"}
    BY <1>5 DEF Ended
  <1> QED BY <1>1, <1>7, <1>8, LetGoKeeps DEF new, old

LEMMA ErrorKeeps ==
    ASSUME RInv, TypeOK', BatchError
    PROVE  RInv'
  <1> DEFINE old == batch[worker.batch]
  <1>1. /\ worker.pc \in {"read", "look", "count"} /\ worker' = Thread("claim")
        /\ batch' = [batch EXCEPT ![worker.batch].status = "queued"]
        /\ UNCHANGED <<rank, call, now, stranded>>
    BY DEF BatchError, Unhandled, GiveBack
  <1>2. old \in BatchType /\ ExactIn(rank, old)
    BY <1>1, Rows DEF RInv, WorkerInv, Busy, Exact
  <1>3. ExactIn(rank, [old EXCEPT !.status = "queued"])
    BY <1>2, ReopenedExact DEF OpenStatus
  <1>4. "queued" \in (OpenStatus \cup Ended) \ {"running"}
    BY DEF OpenStatus
  <1> QED BY <1>1, <1>3, <1>4, LetGoKeeps

LEMMA OutageKeeps ==
    ASSUME RInv, TypeOK', Outage
    PROVE  RInv'
  <1>1. /\ worker.pc \in {"read", "look", "count"} /\ worker' = Thread("off")
        /\ stranded' = stranded \cup {worker.batch}
        /\ UNCHANGED <<batch, rank, call, now>>
    BY DEF Outage, Unhandled
  <1>2. worker'.pc = "off"
    BY <1>1 DEF Thread
  <1>3. WorkerInv'
    <2>1. Busy /\ ~Busy' /\ call[Worker].pc = "idle"
      BY <1>1, <1>2 DEF Busy, RInv, WorkerInv
    <2>2. \A k \in DOMAIN batch' : batch'[k].status = "running" <=> k \in stranded'
      BY <1>1, <2>1 DEF RInv, WorkerInv
    <2>3. stranded' # {}
      BY <1>1
    <2> QED BY <1>1, <1>2, <2>1, <2>2, <2>3 DEF WorkerInv
  <1>4. CallInv' /\ CountInv'
    BY <1>2 DEF CallInv, CountInv
  <1> QED BY <1>1, <1>3, <1>4, SameTable DEF RInv

LEMMA RestartKeeps ==
    ASSUME RInv, TypeOK', Restart
    PROVE  RInv'
  <1>1. /\ batch' = Recovered /\ call' = [c \in Caller |-> Quiet] /\ stranded' = {}
        /\ worker' = (IF Open = {} THEN Thread("off") ELSE Thread("claim"))
        /\ UNCHANGED <<rank, now>>
    BY DEF Restart
  <1>2. /\ DOMAIN batch' = DOMAIN batch
        /\ \A i \in DOMAIN batch :
              batch'[i] = IF batch[i].status = "running"
                          THEN [batch[i] EXCEPT !.status = "queued"] ELSE batch[i]
    BY <1>1, RecoveredRows DEF RInv
  <1>3. ASSUME NEW i \in DOMAIN batch
        PROVE  /\ batch'[i].status # "running"
               /\ batch'[i].status \in OpenStatus <=> batch[i].status \in OpenStatus
               /\ batch'[i].created = batch[i].created
               /\ ExactIn(rank, batch'[i])
    <2>1. batch[i] \in BatchType /\ ExactIn(rank, batch[i])
      BY Rows DEF RInv, Exact
    <2>2. CASE batch[i].status = "running"
      <3>1. batch'[i] = [batch[i] EXCEPT !.status = "queued"]
        BY <1>2, <2>2
      <3>2. ExactIn(rank, batch'[i])
        <4>1. "queued" \in OpenStatus
          BY DEF OpenStatus
        <4>2. ExactIn(rank, [batch[i] EXCEPT !.status = "queued"])
          BY <2>1, <4>1, ReopenedExact
        <4> QED BY <3>1, <4>2
      <3>3. batch'[i].status = "queued" /\ batch'[i].created = batch[i].created
        BY <2>1, <3>1, NewStatus DEF OpenStatus
      <3> QED BY <2>2, <3>2, <3>3 DEF OpenStatus
    <2>3. CASE batch[i].status # "running"
      BY <1>2, <2>1, <2>3
    <2> QED BY <2>2, <2>3
  <1>4. worker'.pc = IF Open = {} THEN "off" ELSE "claim"
    BY <1>1 DEF Thread
  <1>5. WorkerInv'
    <2>1. ~Busy'
      BY <1>4 DEF Busy
    <2>2. call'[Worker].pc = "idle"
      BY <1>1 DEF Caller, Quiet
    <2>3. Open' = Open
      BY <1>2, <1>3 DEF Open
    <2> QED BY <1>1, <1>2, <1>3, <1>4, <2>1, <2>2, <2>3 DEF WorkerInv
  <1>6. CallInv' /\ CountInv'
    BY <1>4 DEF CallInv, CountInv
  <1>7. ClockInv' /\ Exact'
    BY <1>1, <1>2, <1>3 DEF RInv, ClockInv, Exact
  <1> QED BY <1>5, <1>6, <1>7 DEF RInv
-----------------------------------------------------------------------------
LEMMA InitHolds == Init => RInv
  <1> SUFFICES ASSUME Init PROVE RInv
    OBVIOUS
  <1>1. batch = <<>> /\ DOMAIN batch = {} /\ worker.pc = "off" /\ call[Worker].pc = "idle"
    BY EmptySeq DEF Init, Thread, Quiet, Caller
  <1>2. WorkerInv /\ CallInv /\ CountInv /\ ClockInv /\ Exact
    BY <1>1 DEF WorkerInv, CallInv, CountInv, ClockInv, Exact, Busy, Open
  <1> QED BY <1>2, InitTyped DEF RInv

LEMMA StepKeeps == RInv /\ [Next]_vars => RInv'
  <1> SUFFICES ASSUME RInv, [Next]_vars PROVE RInv'
    OBVIOUS
  <1>1. CASE UNCHANGED vars
    BY <1>1 DEF vars, RInv, TypeOK, WorkerInv, CallInv, CountInv, ClockInv, Exact, Busy, Open,
         MoreNames, Current, NamesOf
  <1>2. CASE Next
    <2>0. TypeOK'
      BY <1>2, StepTyped DEF RInv
    <2>1. CASE WorkerStep
      BY <2>0, <2>1, ClaimKeeps, ReadKeeps, LookKeeps, LookUpKeeps, CountKeeps, FinishKeeps,
         WorkerLookupKeeps DEF WorkerStep
    <2>2. CASE FaultStep
      <3>1. ASSUME LookupError(Worker) PROVE RInv'
        <4>1. /\ Returns(Worker, TRUE) /\ UNCHANGED <<batch, now, stranded, rank>>
              /\ call[Worker].pc # "idle"
          BY <3>1 DEF LookupError
        <4>2. worker.pc = "lookup" /\ \A n \in Name : rank'[n] >= rank[n]
          BY <4>1 DEF RInv, WorkerInv, TypeOK
        <4> QED BY <2>0, <4>1, <4>2, ReturnKeeps
      <3> QED BY <2>0, <2>2, <3>1, VisitorKeeps, LookKeeps, ErrorKeeps, OutageKeeps, RestartKeeps
            DEF FaultStep, Caller
    <2>3. CASE \E u \in User : UserStep(u)
      BY <2>0, <2>3, UserKeeps
    <2>4. CASE \E v \in Visitor : VisitorStep(v)
      BY <2>0, <2>4, VisitorKeeps
    <2> QED BY <1>2, <2>1, <2>2, <2>3, <2>4 DEF Next
  <1> QED BY <1>1, <1>2

LEMMA Inductive == Spec => []RInv
  BY InitHolds, StepKeeps, PTL DEF Spec

(* The variables keep their types, for any lists, users and visitors.      *)
THEOREM TypeCorrect == Spec => []TypeOK
  <1>1. RInv => TypeOK
    BY DEF RInv
  <1> QED BY <1>1, Inductive, PTL

(* A batch shown as running is in the hands of the one worker, at the name *)
(* where its progress says, unless an outage has stranded it.              *)
THEOREM WorkerOwnsBatch == Spec => []WorkerInv
  <1>1. RInv => WorkerInv
    BY DEF RInv
  <1> QED BY <1>1, Inductive, PTL

(* Through errors and restarts each journal is counted once, and the       *)
(* journals of a batch without failures have ranks as new as it asks for.  *)
THEOREM ProgressIsExact == Spec => []ProgressIsServed
  <1>1. RInv => ProgressIsServed
    BY ExactIsServed DEF RInv
  <1> QED BY <1>1, Inductive, PTL

(* A slow answer never replaces a newer one in the shared cache.           *)
THEOREM CacheNeverGoesBack == Spec => NeverOlder
  <1>1. RInv /\ [Next]_vars => [\A n \in Name : rank'[n] >= rank[n]]_vars
    BY CacheGrows DEF RInv
  <1> QED BY <1>1, Inductive, PTL DEF Spec, NeverOlder
-----------------------------------------------------------------------------
(* The number of open batches.                                             *)
Asking == {u \in User : asked[u] # None}

LEMMA RowsAreFinite ==
    ASSUME NEW table \in Seq(BatchType), NEW S \in SUBSET DOMAIN table
    PROVE  IsFiniteSet(S) /\ Cardinality(S) \in Nat
  <1>1. DOMAIN table = 1..Len(table) /\ Len(table) \in Nat
    BY LenProperties
  <1>2. IsFiniteSet(1..Len(table))
    BY <1>1, FS_Interval
  <1> QED BY <1>1, <1>2, FS_Subset, FS_CardinalityType

LEMMA UsersAreFinite ==
    ASSUME NEW T \in SUBSET User
    PROVE  /\ IsFiniteSet(T) /\ Cardinality(T) \in Nat
           /\ Cardinality(User) \in Nat /\ Cardinality(T) <= Cardinality(User)
  BY UserAssumption, FS_Subset, FS_CardinalityType

(* Only enqueue_batch opens a batch.                                       *)
LEMMA OpenShrinks ==
    ASSUME RInv, [Next]_vars, \A u \in User : ~Insert(u),
           \A u \in User, request \in Requests : ~Ask(u, request)
    PROVE  Open' \subseteq Open /\ Asking' \subseteq Asking
  <1>1. UNCHANGED batch => Open' \subseteq Open
    BY DEF Open
  <1>2. UNCHANGED asked => Asking' \subseteq Asking
    BY DEF Asking
  <1>3. ASSUME NEW i \in DOMAIN batch, NEW b \in BatchType,
               b.status \in OpenStatus => batch[i].status \in OpenStatus,
               batch' = [batch EXCEPT ![i] = b]
        PROVE  Open' \subseteq Open
    <2>1. /\ DOMAIN batch' = DOMAIN batch /\ batch'[i] = b
          /\ \A k \in DOMAIN batch \ {i} : batch'[k] = batch[k]
      BY <1>3, OneRow DEF RInv
    <2> QED BY <1>3, <2>1 DEF Open
  <1>4. ASSUME worker.pc \in {"read", "look", "count"}
        PROVE  /\ worker.batch \in DOMAIN batch /\ batch[worker.batch] \in BatchType
               /\ batch[worker.batch].status \in OpenStatus
    <2>1. worker.batch \in DOMAIN batch /\ batch[worker.batch].status = "running"
      BY <1>4 DEF RInv, WorkerInv, Busy
    <2> QED BY <2>1, Rows DEF RInv, OpenStatus
  <1>5. CASE WorkerStep
    <2>0. UNCHANGED asked
      BY <1>5 DEF WorkerStep, Claim, Read, LookCached, LookUp, Count, FinishBatch, LookupStep,
         CacheHit, CacheMiss, FromMemo, Answer, Remember, Store, NoAnswer
    <2>1. ASSUME NEW i \in Queued, Claim(i) PROVE Open' \subseteq Open
      <3>1. i \in DOMAIN batch /\ batch[i].status \in OpenStatus /\ batch[i] \in BatchType
        BY Rows DEF Queued, OpenStatus, RInv
      <3>2. [batch[i] EXCEPT !.status = "running"] \in BatchType
        BY <3>1, NewStatus DEF OpenStatus
      <3>3. batch' = [batch EXCEPT ![i] = [batch[i] EXCEPT !.status = "running"]]
        BY <2>1 DEF Claim
      <3> QED BY <1>3, <3>1, <3>2, <3>3
    <2>2. CASE Count
      <3>1. worker.pc = "count"
             /\ batch' = [batch EXCEPT ![worker.batch] = Counted(batch[worker.batch])]
        BY <2>2 DEF Count
      <3>2. Counted(batch[worker.batch]) \in BatchType
        BY <1>4, <3>1, CountedFields
      <3> QED BY <1>2, <1>3, <1>4, <2>0, <3>1, <3>2
    <2>3. CASE FinishBatch
      <3> DEFINE new == [batch[worker.batch] EXCEPT !.status = Verdict(batch[worker.batch])]
      <3>1. worker.pc = "look" /\ batch' = [batch EXCEPT ![worker.batch] = new]
        BY <2>3 DEF FinishBatch
      <3>2. new \in BatchType
        BY <1>4, <3>1, NewStatus DEF Verdict, Ended
      <3> HIDE DEF new
      <3> QED BY <1>2, <1>3, <1>4, <2>0, <3>1, <3>2
    <2>4. CASE Read \/ LookCached \/ LookUp \/ LookupStep(Worker)
      <3>1. UNCHANGED batch
        BY <2>4 DEF Read, LookCached, LookUp, LookupStep,
           CacheHit, CacheMiss, FromMemo, Answer, Remember, Store, NoAnswer
      <3> QED BY <1>1, <1>2, <2>0, <3>1
    <2> QED BY <1>2, <1>5, <2>0, <2>1, <2>2, <2>3, <2>4 DEF WorkerStep
  <1>6. CASE FaultStep
    <2>1. CASE (\E c \in Caller : LookupError(c)) \/ LookError \/ Outage
      <3>1. UNCHANGED <<batch, asked>>
        BY <2>1 DEF LookupError, LookError, Outage
      <3> QED BY <1>1, <1>2, <3>1
    <2>2. CASE BatchError
      <3> DEFINE new == [batch[worker.batch] EXCEPT !.status = "queued"]
      <3>1. /\ worker.pc \in {"read", "look", "count"} /\ UNCHANGED asked
            /\ batch' = [batch EXCEPT ![worker.batch] = new]
        BY <2>2 DEF BatchError, Unhandled, GiveBack
      <3>2. new \in BatchType
        BY <1>4, <3>1, NewStatus DEF OpenStatus
      <3> HIDE DEF new
      <3> QED BY <1>2, <1>3, <1>4, <3>1, <3>2
    <2>3. CASE Restart
      <3>1. Asking' = {}
        BY <2>3 DEF Restart, Asking
      <3>2. \A i \in DOMAIN batch' : i \in DOMAIN batch
        BY <2>3, RecoveredRows DEF Restart, RInv
      <3>3. \A i \in DOMAIN batch : batch[i].status # "running" => batch'[i] = batch[i]
        BY <2>3, RecoveredRows DEF Restart, RInv
      <3>4. Open' \subseteq Open
        BY <3>2, <3>3 DEF Open, OpenStatus
      <3> QED BY <3>1, <3>4
    <2> QED BY <1>6, <2>1, <2>2, <2>3 DEF FaultStep
  <1>7. CASE \E u \in User : UserStep(u)
    <2>1. PICK u \in User : (\E request \in Requests : Join(u, request)) \/ Conflict(u)
      BY <1>7 DEF UserStep
    <2>2. UNCHANGED batch
      BY <2>1 DEF Join, Conflict
    <2>3. UNCHANGED asked \/ asked' = [asked EXCEPT ![u] = None]
      BY <2>1 DEF Join, Conflict
    <2>4. Asking' \subseteq Asking
      BY <2>3 DEF Asking, RInv, TypeOK
    <2> QED BY <1>1, <2>2, <2>4
  <1>8. CASE \E v \in Visitor : VisitorStep(v)
    <2>1. UNCHANGED <<batch, asked>>
      BY <1>8 DEF VisitorStep, Lookup, LookupStep,
         CacheHit, CacheMiss, FromMemo, Answer, Remember, Store, NoAnswer
    <2> QED BY <1>1, <1>2, <2>1
  <1>9. CASE UNCHANGED vars
    BY <1>1, <1>2, <1>9 DEF vars
  <1> QED BY <1>5, <1>6, <1>7, <1>8, <1>9 DEF Next

LEMMA BoundKept == RInv /\ OpenBound /\ [Next]_vars => OpenBound'
  <1> SUFFICES ASSUME RInv, OpenBound, [Next]_vars PROVE OpenBound'
    OBVIOUS
  <1>0. RInv' /\ TypeOK /\ TypeOK'
    BY StepKeeps DEF RInv
  <1> DEFINE open == Cardinality(Open)
             asking == Cardinality(Asking)
             users == Cardinality(User)
  <1>1. /\ IsFiniteSet(Open) /\ IsFiniteSet(Asking)
        /\ open \in Nat /\ asking \in Nat /\ users \in Nat /\ asking <= users
        /\ open' \in Nat /\ asking' \in Nat /\ asking' <= users
        /\ MaxOpen \in Nat
    <2>1. /\ batch \in Seq(BatchType) /\ batch' \in Seq(BatchType)
          /\ Open \in SUBSET DOMAIN batch /\ Open' \in SUBSET DOMAIN batch'
      BY <1>0 DEF TypeOK, Open
    <2>2. Asking \in SUBSET User /\ Asking' \in SUBSET User
      BY DEF Asking
    <2>3. IsFiniteSet(Open) /\ open \in Nat /\ open' \in Nat
      BY <2>1, RowsAreFinite
    <2> QED BY <2>2, <2>3, UsersAreFinite, BoundAssumption
  <1>2. open + asking < MaxOpen + users
    BY DEF OpenBound, Asking
  <1>3. SUFFICES open' + asking' < MaxOpen + users
    BY DEF OpenBound, Asking
  <1>4. CASE \E u \in User, request \in Requests : Ask(u, request)
    <2>1. UNCHANGED batch /\ open < MaxOpen
      BY <1>4 DEF Ask, WithinLimit
    <2>2. open' = open
      BY <2>1 DEF Open
    <2> QED BY <1>1, <2>1, <2>2
  <1>5. CASE \E u \in User : Insert(u)
    <2>1. PICK u \in User : Insert(u)
      BY <1>5
    <2>2. u \in Asking /\ Asking' = Asking \ {u}
      BY <1>0, <2>1 DEF Insert, Asking, TypeOK
    <2>3. asking' = asking - 1
      BY <1>1, <2>2, FS_RemoveElement
    <2> DEFINE b == [list |-> asked[u].list, refresh |-> asked[u].refresh,
                     status |-> "queued", processed |-> 0, failed |-> 0, created |-> now]
               last == Len(batch) + 1
    <2>4. batch' = Append(batch, b) /\ asked[u] \in Requests
      BY <1>0, <2>1 DEF Insert, TypeOK
    <2>5. b \in BatchType
      BY <1>0, <2>4, RequestAssumption DEF BatchType, OpenStatus, TypeOK
    <2> HIDE DEF b
    <2>6. /\ DOMAIN batch' = 1..last /\ DOMAIN batch = 1..Len(batch) /\ Len(batch) \in Nat
          /\ \A i \in 1..Len(batch) : batch'[i] = batch[i]
      <3>1. batch \in Seq(BatchType)
        BY <1>0 DEF TypeOK
      <3>2. /\ batch' \in Seq(BatchType) /\ Len(batch') = last
            /\ \A i \in 1..Len(batch) : batch'[i] = batch[i]
        BY <2>4, <2>5, <3>1, AppendProperties
      <3> QED BY <3>1, <3>2, LenProperties
    <2>7. Open' \subseteq Open \cup {last}
      <3>1. \A i \in DOMAIN batch' : i = last \/ (i \in DOMAIN batch /\ batch'[i] = batch[i])
        BY <2>6
      <3> HIDE DEF last
      <3> QED BY <3>1 DEF Open
    <2>8. IsFiniteSet(Open \cup {last}) /\ Cardinality(Open \cup {last}) <= open + 1
      <3>1. /\ IsFiniteSet(Open \cup {last})
            /\ Cardinality(Open \cup {last}) = open \/ Cardinality(Open \cup {last}) = open + 1
        BY <1>1, FS_AddElement
      <3> HIDE DEF open
      <3> QED BY <1>1, <3>1
    <2>9. open' <= Cardinality(Open \cup {last}) /\ Cardinality(Open \cup {last}) \in Nat
      BY <2>7, <2>8, FS_Subset, FS_CardinalityType
    <2> QED BY <1>1, <1>2, <2>3, <2>8, <2>9
  <1>6. CASE /\ \A u \in User : ~Insert(u)
             /\ \A u \in User, request \in Requests : ~Ask(u, request)
    <2>1. Open' \subseteq Open /\ Asking' \subseteq Asking
      BY <1>6, OpenShrinks
    <2>2. open' <= open /\ asking' <= asking
      BY <1>1, <2>1, FS_Subset
    <2> QED BY <1>1, <1>2, <2>2
  <1> QED BY <1>4, <1>5, <1>6

(* However many users ask at the same time, the open batches and those     *)
(* about to be inserted exceed the limit by all users but one at most.     *)
THEOREM OpenBatchesBounded == Spec => []OpenBound
  <1>1. Init => OpenBound
    <2> SUFFICES ASSUME Init PROVE OpenBound
      OBVIOUS
    <2>1. Open = {} /\ {u \in User : asked[u] # None} = {}
      BY EmptySeq DEF Init, Open
    <2>2. Cardinality(User) \in Nat /\ MaxOpen \in Nat \ {0}
      BY UserAssumption, FS_CardinalityType, BoundAssumption
    <2> QED BY <2>1, <2>2, FS_EmptySet DEF OpenBound
  <1> QED BY <1>1, BoundKept, Inductive, PTL DEF Spec
=============================================================================

------------------------------ MODULE RankBatch ------------------------------
(***************************************************************************)
(* Journal rankings (journal_ranks.py with easyscholar.py): the shared     *)
(* rank cache, and the batches that fill it for a whole journal list in    *)
(* one background thread of the server, next to users who look up single   *)
(* journals.                                                               *)
(*                                                                         *)
(* A rank is abstracted to the time at which the provider gave it.  The    *)
(* server is one process; restarting it stops every thread.                *)
(***************************************************************************)
EXTENDS Naturals, Sequences, FiniteSets

CONSTANTS User,       \* requests that ask for batches
          Visitor,    \* requests that look up one journal
          Name,       \* journals
          List,       \* contents of journal lists, told apart by snapshot_hash
          Names,      \* the journals of a list, in order
          Visits,     \* the journals visitors look up, with or without refresh
          Requests,   \* the batches asked for
          None,
          MaxOpen,    \* _MAX_OPEN_JOBS
          MaxBatches, \* bound: batches ever created
          MaxTime,    \* bound: answers the provider gives
          MaxFaults,  \* bound: restarts and database errors
          Faults

FaultKinds == {"restart", "dbError", "outage"}

ASSUME NamesAssumption == Names \in [List -> Seq(Name)]

ASSUME RequestAssumption ==
    /\ Visits \subseteq [name: Name, refresh: BOOLEAN]
    /\ Requests \subseteq [list: List, refresh: BOOLEAN]

ASSUME BoundAssumption ==
    /\ MaxOpen \in Nat \ {0} /\ MaxBatches \in Nat /\ MaxTime \in Nat /\ MaxFaults \in Nat
    /\ Faults \subseteq FaultKinds

ASSUME UserAssumption == IsFiniteSet(User)

ASSUME NoneAssumption == None \notin User \cup Visitor \cup Name \cup List

VARIABLES batch,     \* journal_rank_batch_jobs, in the order of created_at
          rank,      \* journal_rank_cache.queried_at, 0 without a row
          memo,      \* easyscholar._cache, 0 without an entry
          asked,     \* a user's enqueue_batch between its SELECTs and its INSERT
          call,      \* a caller's lookup_rank between its steps
          worker,    \* _worker_loop and process_batch
          now,       \* time.time()
          faults,    \* faults so far
          stranded   \* batches whose worker died before it could give them back

vars == <<batch, rank, memo, asked, call, worker, now, faults, stranded>>
-----------------------------------------------------------------------------
Worker == "worker"
Caller == Visitor \cup {Worker}

ASSUME WorkerAssumption == Worker \notin Visitor

OpenStatus == {"queued", "running"}
Ended      == {"completed", "partial"}

BatchType == [list: List, refresh: BOOLEAN, status: OpenStatus \cup Ended,
              processed: Nat, failed: Nat,   \* the rest was cached or fetched
              created: Nat]                  \* created_at

Quiet    == [pc |-> "idle", name |-> None, refresh |-> FALSE, at |-> 0]
CallPc   == {"recheck", "asking", "answered", "storing"}
CallType == {Quiet} \cup [pc: CallPc, name: Name, refresh: BOOLEAN, at: Nat]

WorkerPc   == {"off", "claim", "read", "look", "lookup", "count"}
WorkerType == [pc: WorkerPc, batch: Nat, at: Nat, failed: BOOLEAN]

Thread(pc) == [pc |-> pc, batch |-> 0, at |-> 0, failed |-> FALSE]

Open     == {i \in DOMAIN batch : batch[i].status \in OpenStatus}
OpenOf(l) == {i \in Open : batch[i].list = l}
Queued   == {i \in DOMAIN batch : batch[i].status = "queued"}

NamesOf(i) == Names[batch[i].list]

Init ==
    /\ batch = <<>>
    /\ rank \in [Name -> {0}]
    /\ memo \in [Name -> {0}]
    /\ asked = [u \in User |-> None]
    /\ call = [c \in Caller |-> Quiet]
    /\ worker = Thread("off")
    /\ now = 0
    /\ faults = 0
    /\ stranded = {}
-----------------------------------------------------------------------------
(* enqueue_batch.                                                          *)
Wake == worker' = IF worker.pc = "off" THEN Thread("claim") ELSE worker

(* An open batch of the same list is shared, whatever its refresh flag.    *)
Join(u, request) ==
    /\ asked[u] = None
    /\ OpenOf(request.list) # {}
    /\ Wake
    /\ UNCHANGED <<batch, rank, memo, asked, call, now, faults, stranded>>

WithinLimit == Cardinality(Open) < MaxOpen

Ask(u, request) ==
    /\ asked[u] = None
    /\ OpenOf(request.list) = {}
    /\ WithinLimit
    /\ Len(batch) < MaxBatches
    /\ asked' = [asked EXCEPT ![u] = request]
    /\ UNCHANGED <<batch, rank, memo, call, worker, now, faults, stranded>>

(* The partial unique index on snapshot_hash lets one of two simultaneous  *)
(* requests through.                                                       *)
Insert(u) ==
    /\ asked[u] # None
    /\ OpenOf(asked[u].list) = {}
    /\ Len(batch) < MaxBatches
    /\ batch' = Append(batch, [list |-> asked[u].list, refresh |-> asked[u].refresh,
                               status |-> "queued", processed |-> 0, failed |-> 0,
                               created |-> now])
    /\ asked' = [asked EXCEPT ![u] = None]
    /\ Wake
    /\ UNCHANGED <<rank, memo, call, now, faults, stranded>>

(* The other one is given the batch that won, or an error when that has    *)
(* ended by the time it looks.                                             *)
Conflict(u) ==
    /\ asked[u] # None
    /\ OpenOf(asked[u].list) # {}
    /\ asked' = [asked EXCEPT ![u] = None]
    /\ Wake \/ UNCHANGED worker
    /\ UNCHANGED <<batch, rank, memo, call, now, faults, stranded>>
-----------------------------------------------------------------------------
(* lookup_rank, by a visitor or by the worker.  Returns says what becomes  *)
(* of the caller: a visitor is answered, the worker counts the name.       *)
Returns(c, failed) ==
    /\ call' = [call EXCEPT ![c] = Quiet]
    /\ worker' = IF c = Worker
                 THEN [worker EXCEPT !.pc = "count", !.failed = failed]
                 ELSE worker

Lookup(v, visit) ==
    /\ call[v].pc = "idle"
    /\ call' = [call EXCEPT ![v] = [pc |-> "recheck", name |-> visit.name,
                                    refresh |-> visit.refresh, at |-> 0]]
    /\ UNCHANGED <<batch, rank, memo, asked, worker, now, faults, stranded>>

(* cached_rank: a row of the shared cache answers unless refresh was asked. *)
CacheHit(c) ==
    /\ call[c].pc = "recheck"
    /\ ~call[c].refresh /\ rank[call[c].name] # 0
    /\ Returns(c, FALSE)
    /\ UNCHANGED <<batch, rank, memo, asked, now, faults, stranded>>

CacheMiss(c) ==
    /\ call[c].pc = "recheck"
    /\ call[c].refresh \/ rank[call[c].name] = 0
    /\ call' = [call EXCEPT ![c].pc = "asking"]
    /\ UNCHANGED <<batch, rank, memo, asked, worker, now, faults, stranded>>

MemoMayAnswer_Always(c) == memo[call[c].name] # 0   \* slip: refresh is ignored

(* easyscholar.lookup: its memory answers for a day and may drop entries.  *)
MemoMayAnswer(c) == ~call[c].refresh /\ memo[call[c].name] # 0

FromMemo(c) ==
    /\ call[c].pc = "asking"
    /\ MemoMayAnswer(c)
    /\ call' = [call EXCEPT ![c].pc = "storing", ![c].at = memo[call[c].name]]
    /\ UNCHANGED <<batch, rank, memo, asked, worker, now, faults, stranded>>

Answer(c) ==
    /\ call[c].pc = "asking"
    /\ now < MaxTime
    /\ now' = now + 1
    /\ call' = [call EXCEPT ![c].pc = "answered", ![c].at = now + 1]
    /\ UNCHANGED <<batch, rank, memo, asked, worker, faults, stranded>>

Remember(c) ==
    /\ call[c].pc = "answered"
    /\ memo' = [memo EXCEPT ![call[c].name] = call[c].at]
    /\ call' = [call EXCEPT ![c].pc = "storing"]
    /\ UNCHANGED <<batch, rank, asked, worker, now, faults, stranded>>

Upsert_Last(c) ==   \* slip: the last writer wins
    rank' = [rank EXCEPT ![call[c].name] = call[c].at]

(* INSERT ... ON CONFLICT DO UPDATE WHERE queried_at <= timestamp.         *)
Upsert(c) ==
    rank' = [rank EXCEPT ![call[c].name] = IF @ <= call[c].at THEN call[c].at ELSE @]

Store(c) ==
    /\ call[c].pc = "storing"
    /\ Upsert(c)
    /\ Returns(c, FALSE)
    /\ UNCHANGED <<batch, memo, asked, now, faults, stranded>>

(* No answer within 15 seconds, or none that is usable.                    *)
NoAnswer(c) ==
    /\ call[c].pc = "asking"
    /\ Returns(c, TRUE)
    /\ UNCHANGED <<batch, rank, memo, asked, now, faults, stranded>>
-----------------------------------------------------------------------------
(* The worker thread: _claim_job, process_batch, the end of the batch.     *)
Oldest(i) == i \in Queued /\ \A k \in Queued : i <= k

Claim(i) ==
    /\ worker.pc = "claim"
    /\ Oldest(i)
    /\ batch' = [batch EXCEPT ![i].status = "running"]
    /\ worker' = [worker EXCEPT !.pc = "read", !.batch = i]
    /\ UNCHANGED <<rank, memo, asked, call, now, faults, stranded>>

(* start = job.processed: go on after the last name that was committed.    *)
Read ==
    /\ worker.pc = "read"
    /\ worker' = [worker EXCEPT !.pc = "look", !.at = batch[worker.batch].processed]
    /\ UNCHANGED <<batch, rank, memo, asked, call, now, faults, stranded>>

MoreNames == worker.at < Len(NamesOf(worker.batch))

Current == NamesOf(worker.batch)[worker.at + 1]

LookCached ==
    /\ worker.pc = "look" /\ MoreNames
    /\ ~batch[worker.batch].refresh /\ rank[Current] # 0
    /\ worker' = [worker EXCEPT !.pc = "count", !.failed = FALSE]
    /\ UNCHANGED <<batch, rank, memo, asked, call, now, faults, stranded>>

LookUp ==
    /\ worker.pc = "look" /\ MoreNames
    /\ batch[worker.batch].refresh \/ rank[Current] = 0
    /\ worker' = [worker EXCEPT !.pc = "lookup"]
    /\ call' = [call EXCEPT ![Worker] = [pc |-> "recheck", name |-> Current,
                                         refresh |-> batch[worker.batch].refresh, at |-> 0]]
    /\ UNCHANGED <<batch, rank, memo, asked, now, faults, stranded>>

Counted(b) == [b EXCEPT !.processed = b.processed + 1,
                        !.failed = IF worker.failed THEN b.failed + 1 ELSE b.failed]

Count ==
    /\ worker.pc = "count"
    /\ batch' = [batch EXCEPT ![worker.batch] = Counted(batch[worker.batch])]
    /\ worker' = [worker EXCEPT !.pc = "look", !.at = @ + 1, !.failed = FALSE]
    /\ UNCHANGED <<rank, memo, asked, call, now, faults, stranded>>

Verdict(b) == IF b.failed > 0 THEN "partial" ELSE "completed"

FinishBatch ==
    /\ worker.pc = "look" /\ ~MoreNames
    /\ batch' = [batch EXCEPT ![worker.batch].status = Verdict(batch[worker.batch])]
    /\ worker' = Thread("claim")
    /\ UNCHANGED <<rank, memo, asked, call, now, faults, stranded>>
-----------------------------------------------------------------------------
Fault(kind) ==
    /\ kind \in Faults /\ faults < MaxFaults
    /\ faults' = faults + 1

(* A database error in lookup_rank: a failed name, or an error 500.        *)
LookupError(c) ==
    /\ Fault("dbError")
    /\ call[c].pc \in {"recheck", "storing"}
    /\ Returns(c, TRUE)
    /\ UNCHANGED <<batch, rank, memo, asked, now, stranded>>

(* So is one in the worker's own look into the cache.                      *)
LookError ==
    /\ Fault("dbError")
    /\ worker.pc = "look" /\ MoreNames
    /\ worker' = [worker EXCEPT !.pc = "count", !.failed = TRUE]
    /\ UNCHANGED <<batch, rank, memo, asked, call, now, stranded>>

(* One in process_batch outside the try reaches _worker_loop.              *)
Unhandled ==
    \/ worker.pc \in {"read", "count"}
    \/ worker.pc = "look" /\ ~MoreNames

GiveBack_Keep == batch   \* slip: the batch is left running

GiveBack == [batch EXCEPT ![worker.batch].status = "queued"]

BatchError ==
    /\ Fault("dbError")
    /\ Unhandled
    /\ batch' = GiveBack
    /\ worker' = Thread("claim")
    /\ UNCHANGED <<rank, memo, asked, call, now, stranded>>

(* The handler meets a second error: it ends the thread.                   *)
Outage ==
    /\ Fault("outage")
    /\ Unhandled
    /\ worker' = Thread("off")
    /\ stranded' = stranded \cup {worker.batch}
    /\ UNCHANGED <<batch, rank, memo, asked, call, now>>

Recovered ==
    [i \in DOMAIN batch |->
        IF batch[i].status = "running" THEN [batch[i] EXCEPT !.status = "queued"] ELSE batch[i]]

(* The process stops at any point; recover_ranking_batches at the start.   *)
Restart ==
    /\ Fault("restart")
    /\ batch' = Recovered
    /\ memo' = [n \in Name |-> 0]
    /\ asked' = [u \in User |-> None]
    /\ call' = [c \in Caller |-> Quiet]
    /\ worker' = IF Open = {} THEN Thread("off") ELSE Thread("claim")
    /\ stranded' = {}
    /\ UNCHANGED <<rank, now>>
-----------------------------------------------------------------------------
LookupStep(c) ==
    \/ CacheHit(c) \/ CacheMiss(c) \/ FromMemo(c) \/ Answer(c)
    \/ Remember(c) \/ Store(c) \/ NoAnswer(c)

WorkerStep ==
    \/ \E i \in Queued : Claim(i)
    \/ Read \/ LookCached \/ LookUp \/ Count \/ FinishBatch
    \/ LookupStep(Worker)

UserStep(u) ==
    \/ \E request \in Requests : Join(u, request) \/ Ask(u, request)
    \/ Insert(u) \/ Conflict(u)

VisitorStep(v) ==
    \/ \E visit \in Visits : Lookup(v, visit)
    \/ LookupStep(v)

FaultStep ==
    \/ \E c \in Caller : LookupError(c)
    \/ LookError \/ BatchError \/ Outage \/ Restart

Next ==
    \/ WorkerStep \/ FaultStep
    \/ \E u \in User : UserStep(u)
    \/ \E v \in Visitor : VisitorStep(v)

Spec == Init /\ [][Next]_vars

(* The thread runs, and the provider is given 15 seconds.                  *)
FairSpec == Spec /\ WF_vars(WorkerStep)
-----------------------------------------------------------------------------
TypeOK ==
    /\ batch \in Seq(BatchType)
    /\ rank \in [Name -> Nat] /\ memo \in [Name -> Nat]
    /\ asked \in [User -> Requests \cup {None}]
    /\ call \in [Caller -> CallType]
    /\ worker \in WorkerType
    /\ now \in Nat /\ faults \in Nat
    /\ stranded \subseteq DOMAIN batch

Busy == worker.pc \in {"read", "look", "lookup", "count"}

(* Nobody but the worker works on a batch: a batch shown as running is the *)
(* one in its hands, at the name where its progress says, or it was        *)
(* stranded by an outage.                                                  *)
WorkerInv ==
    /\ \A i \in DOMAIN batch :
          batch[i].status = "running" <=> (Busy /\ worker.batch = i) \/ i \in stranded
    /\ worker.pc \in {"look", "lookup", "count"} => worker.at = batch[worker.batch].processed
    /\ worker.pc = "lookup" <=> call[Worker].pc # "idle"
    /\ Busy => worker.batch \in DOMAIN batch \ stranded
    /\ Open # {} => worker.pc # "off" \/ stranded # {}

(* Progress survives restarts and errors and is exact: each journal up to  *)
(* `processed` is counted once and, unless one failed, has a rank in the   *)
(* shared cache, newer than the batch when that was asked to refresh.      *)
Served(n, b) == rank[n] # 0 /\ (b.refresh => rank[n] > b.created)

ProgressIsServed ==
    \A i \in DOMAIN batch :
        LET b == batch[i] IN
        /\ b.failed <= b.processed
        /\ b.processed <= Len(NamesOf(i))
        /\ b.status \in Ended => b.processed = Len(NamesOf(i))
        /\ b.status = "completed" => b.failed = 0
        /\ b.failed = 0 => \A k \in 1..b.processed : Served(NamesOf(i)[k], b)

(* The limit on open batches is checked before the INSERT, so users who    *)
(* ask at the same time may exceed it, all of them but one at most.        *)
OpenBound ==
    Cardinality(Open) + Cardinality({u \in User : asked[u] # None})
        < MaxOpen + Cardinality(User)

(* A slow answer never replaces a newer one in the shared cache.           *)
NeverOlder == [][\A n \in Name : rank'[n] >= rank[n]]_vars

(* Every batch comes to an end, through restarts and database errors,      *)
(* unless an outage has ended the thread: then the batch in its hands      *)
(* waits for a restart, and the others for somebody to ask again.          *)
EveryBatchEnds ==
    \A i \in 1..MaxBatches :
        (i \in DOMAIN batch) ~> (i \in DOMAIN batch \ Open \/ stranded # {})
=============================================================================

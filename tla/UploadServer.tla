---------------------------- MODULE UploadServer ----------------------------
(***************************************************************************)
(* Module Upload where it really runs: every request is a coroutine of the *)
(* one event loop of uvicorn.  Statements of the database are synchronous: *)
(* one that waits for another transaction stops the loop.  Flocks, PDF     *)
(* parsing and registry lookups run in the thread pool of the process      *)
(* (run_in_threadpool), which is finite, and a flock is awaited there for  *)
(* as long as it takes.  PostgreSQL ends a statement that waits too long   *)
(* (statement_timeout).                                                    *)
(***************************************************************************)
EXTENDS Upload, FiniteSets, Naturals

CONSTANT Threads     \* tokens of the thread limiter

ASSUME ThreadAssumption == Threads \in Nat \ {0} /\ IsFiniteSet(Request)

VARIABLES loop,      \* the request between two awaits, which has the loop
          pool       \* requests whose flock a thread is waiting for

serverVars == <<vars, loop, pool>>
-----------------------------------------------------------------------------
FlockPc == {"lock", "relock", "lockDoi"}

FreeThread == Cardinality(pool) < Threads

(* A thread that parses, stamps or asks a registry comes back by itself;   *)
(* to begin, it needs a token.                                             *)
Awaited(j) ==
    \/ j.pc \in {"store", "resolve", "stamp", "commitKnown"} \cup CommitPc
    \/ j.pc = "lookup" /\ IsKnown(j) /\ ~j.input.trusted

(* Where the handler comes to without an await, and where only after one:  *)
(* the source DOI of a trusted upload needs no parsing, and after the      *)
(* decision only metadata are fetched, which a trusted upload has not      *)
(* fetched before.                                                         *)
GoesOn(j) ==
    \/ j.pc \in {"promoteKnown", "commitKnown", "respond"} \cup CommitPc
    \/ j.pc = "resolve" /\ j.input.trusted
    \/ j.pc = "stamp" /\ ~j.staged

Parks(j) ==
    /\ j.pc \notin {"promoteKnown", "commitAlias", "respond"}
    /\ j.pc = "resolve" => ~j.input.trusted \/ j.input.force
    /\ j.pc = "stamp" => j.staged
    /\ j.pc \in {"commitReplace", "commitStore"} => j.input.trusted

HandOver(r) ==
    \/ loop' = r /\ GoesOn(job'[r])
    \/ loop' = None /\ Parks(job'[r])

(* r is between two awaits, or can be resumed.                             *)
HasLoop(r) ==
    \/ loop = r
    \/ loop = None /\ r \notin pool /\ (Awaited(job[r]) => FreeThread)

(* SELECT ... FOR UPDATE, the flush of a row and the INSERT of the upload  *)
(* record, whose foreign key locks the row, wait for the transaction of    *)
(* another upload on that row.                                             *)
StatementWaits(r) ==
    LET j == job[r] IN
    \E p \in PdfId :
        /\ RowBusy(p, r)
        /\ \/ j.pc = "commitKnown" /\ p = j.row
           \/ j.pc = "decide" /\ (p = ByDoi(j) \/ (Stores(j) /\ p = StoreRow(j)))

(* The flock a request asks for is held.                                   *)
HeldBy(r) ==
    IF job[r].pc = "lockDoi" THEN doiLock[DoiSlot[job[r].doi]]
                             ELSE objLock[ObjectSlot[job[r].sha]]
-----------------------------------------------------------------------------
ServerInit == Init /\ loop = None /\ pool = {}

(* The stretches of process_upload between two awaits of a flock.          *)
Stretch(r) ==
    \/ StorePdf(r) \/ RejectIntake(r)
    \/ LookupKnown(r) \/ LookupUnknown(r) \/ PromoteKnown(r) \/ CommitKnown(r)
    \/ Resolve(r) \/ Stamp(r)
    \/ DecideReplace(r) \/ DecideAlias(r) \/ DecideStore(r)
    \/ CommitReplace(r) \/ CommitAlias(r) \/ CommitStore(r)
    \/ Respond(r)
    \/ Refuses(job[r]) /\ Fail(r)

Run(r) ==
    /\ HasLoop(r)
    /\ ~StatementWaits(r)
    /\ Stretch(r)
    /\ HandOver(r)
    /\ UNCHANGED pool

(* await run_in_threadpool(acquire_object_lock, ...)                       *)
Submit_OnLoop(r) ==   \* slip: the flock is awaited on the event loop
    /\ loop = None
    /\ job[r].pc \in FlockPc
    /\ loop' = r
    /\ UNCHANGED <<vars, pool>>

Submit(r) ==
    /\ loop = None
    /\ job[r].pc \in FlockPc
    /\ r \notin pool
    /\ FreeThread
    /\ pool' = pool \cup {r}
    /\ UNCHANGED <<vars, loop>>

(* Threads do not need the loop to be granted a flock.                     *)
Granted(r) ==
    /\ r \in pool
    /\ AcquireObject(r) \/ AcquireDoi(r)
    /\ pool' = pool \ {r}
    /\ UNCHANGED loop

(* The loop is stopped by a statement that waits, ...                      *)
Block(r) ==
    /\ loop = None
    /\ HasLoop(r)
    /\ StatementWaits(r)
    /\ loop' = r
    /\ UNCHANGED <<vars, pool>>

(* ... until PostgreSQL gives it up: an error like any other.              *)
Timeout_Never(r) == FALSE   \* slip: statement_timeout is 0

Timeout(r) ==
    /\ loop = r
    /\ StatementWaits(r)
    /\ Breaks(job[r]) /\ Fail(r)
    /\ loop' = None
    /\ UNCHANGED pool

(* Errors, and a cancellation, which is delivered at an await, but not     *)
(* before a thread that is waiting has returned.                           *)
Break(r) ==
    /\ loop \in {None, r}
    /\ r \notin pool
    /\ \/ Abort(r)
       \/ Breaks(job[r]) /\ Fail(r)
       \/ loop = None /\ Cancel(r)
    /\ loop' = None
    /\ UNCHANGED pool

(* The endpoints of administrators are plain functions and run in threads. *)
Administer ==
    /\ FreeThread
    /\ \/ \E p \in PdfId : SoftDelete(p)
       \/ \E p \in PdfId, d \in Doi : CorrectDoi(p, d)
    /\ UNCHANGED <<loop, pool>>

ServerNext ==
    \/ \E r \in Request : \/ Run(r) \/ Submit(r) \/ Granted(r)
                          \/ Block(r) \/ Timeout(r) \/ Break(r)
    \/ Administer
    \/ Idle /\ UNCHANGED <<loop, pool>>

ServerSpec == ServerInit /\ [][ServerNext]_serverVars

(* The loop resumes every coroutine that can be resumed, the pool serves   *)
(* every call when it has a thread, a flock that is free is granted, and a *)
(* statement ends.  A spontaneous error or a cancellation need not happen. *)
FairSpec ==
    /\ ServerSpec
    /\ \A r \in Request : /\ WF_serverVars(Run(r) \/ Block(r) \/ Timeout(r))
                          /\ WF_serverVars(Submit(r))
                          /\ WF_serverVars(Granted(r))
-----------------------------------------------------------------------------
(* The state of the loop and of the pool, and who cannot have the loop: a  *)
(* request that waits for a flock, or that is over.                        *)
LoopInv ==
    /\ loop \in Request \cup {None}
    /\ pool \subseteq Request
    /\ \A r \in pool : job[r].pc \in FlockPc
    /\ loop # None => loop \notin pool /\ job[loop].pc \notin FlockPc \cup FinalPc

(* Every thread waits for a flock of a request that is under way: nothing  *)
(* but a restart of the server ends this when that request needs a thread. *)
Exhausted ==
    /\ ~FreeThread
    /\ \A r \in pool : \E q \in Request : job[q].pc \notin FinalPc /\ HeldBy(r) = q

(* Unless the pool is exhausted, which takes more requests than threads,   *)
(* somebody can go on: whoever has the loop runs or waits for a statement  *)
(* with a timeout, a thread is granted its flock, or a coroutine can be    *)
(* resumed.  So flocks, rows, the loop and the threads make no circle that *)
(* the timeout does not break.                                             *)
CanMove(r) ==
    \/ loop = r /\ job[r].pc \notin FlockPc
    \/ r \in pool /\ HeldBy(r) = None
    \/ /\ loop = None /\ r \notin pool
       /\ Awaited(job[r]) \/ job[r].pc \in FlockPc => FreeThread

SomebodyMoves ==
    \/ Finished
    \/ \E r \in Request : job[r].pc \notin FinalPc /\ CanMove(r)
    \/ Exhausted /\ Threads < Cardinality(Request)

(* Every request ends, with an answer or an error, unless the pool gets    *)
(* exhausted for good: a statement that waits for the row of an upload     *)
(* which cannot be resumed meanwhile is given up, and flocks are taken in  *)
(* one order.                                                              *)
EveryUploadEnds == (\A r \in Request : <>(job[r].pc \in FinalPc)) \/ <>[]Exhausted
=============================================================================

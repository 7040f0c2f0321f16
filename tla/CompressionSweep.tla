--------------------------- MODULE CompressionSweep ---------------------------
(***************************************************************************)
(* The coordinator of PDFCraft, scripts/compress_pdfs_parallel.py: a sweep  *)
(* over the library with worker threads, a cursor in a state file, signals, *)
(* crashes and resumption, next to uploads and deletes; and the other runs  *)
(* that take the same lock: its pilot, the batch approved by an             *)
(* administrator, and the older single-threaded script, which shares the    *)
(* state file.                                                              *)
(*                                                                          *)
(* The bytes of a row are a version number, which changes whenever the row  *)
(* gets another object; the marker is the version PDFCraft was last applied *)
(* to.  The lock file excludes a second coordinator, so one set of local    *)
(* variables stands for whichever holds it.                                 *)
(***************************************************************************)
EXTENDS Naturals, FiniteSets

CONSTANTS Pdf,         \* ids of table pdfs
          Seed,        \* rows present at the start, never optimized
          Modes,       \* the kinds of run that happen
          Jobs,        \* --jobs
          PageSize,    \* rows fetched at once (100)
          MaxFiles,    \* --max-files of a capped full sweep
          PilotLimit,  \* --limit of a pilot
          MaxVersion,  \* bound on the versions of a row
          MaxChanges,  \* bound on uploads, deletes and restores
          MaxHalts     \* bound on signals and crashes

ASSUME IdAssumption == Pdf \subseteq Nat \ {0} /\ Seed \subseteq Pdf

ASSUME ModeAssumption == Modes \subseteq {"full", "capped", "pilot", "approved", "serial"}

ASSUME BoundAssumption ==
    /\ {Jobs, PageSize, MaxFiles, PilotLimit, MaxVersion} \subseteq Nat \ {0}
    /\ {MaxChanges, MaxHalts} \subseteq Nat

VARIABLES row,         \* columns sha256, pdfcraft_processed_sha256, is_deleted
          saved,       \* full_cursor of the state file
          mode, pc,    \* the run that holds the lock and where its main thread is
          cursor, maxId, attempts, successes,
          stage,       \* the state of each row of the batch
          seen,        \* the version of each row when the batch was fetched
          pending,     \* results returned by wait() and not handled yet
          stop,        \* _stop_requested
          owed,        \* rows this sweep still has to attempt, see Finish
          changes, halts

table == <<row, changes>>
local == <<mode, cursor, maxId, attempts, successes, seen>>
vars  == <<row, saved, mode, pc, cursor, maxId, attempts, successes, stage,
           seen, pending, stop, owed, changes, halts>>

RowType == [version: Nat,     \* 0: not inserted yet
            marker: Nat,
            live: BOOLEAN]

Stages == {"none", "queued", "busy", "ok", "failed", "completed"}

(* Runs that look for rows behind a cursor and save it.                     *)
Sweeping == mode \in {"full", "capped", "serial"}

(* pdfcraft_processed_sha256 IS DISTINCT FROM sha256 and is_deleted = false *)
Eligible(p) == row[p].live /\ row[p].marker # row[p].version

Batch   == {p \in Pdf : stage[p] # "none"}
Results == {p \in Pdf : stage[p] \in {"ok", "failed"}}
Futures == {p \in Pdf : stage[p] \in {"busy", "ok", "failed"}}

Budget    == mode = "capped" => attempts < MaxFiles
PilotDone == mode = "pilot" /\ successes >= PilotLimit
Workers   == IF mode \in {"approved", "serial"} THEN 1 ELSE Jobs

NoBatch == [p \in Pdf |-> "none"]

Init ==
    /\ row = [p \in Pdf |-> [version |-> IF p \in Seed THEN 1 ELSE 0,
                             marker |-> 0, live |-> p \in Seed]]
    /\ saved = 0
    /\ mode \in Modes
    /\ pc = "off"
    /\ cursor = 0 /\ maxId = 0
    /\ attempts = 0 /\ successes = 0
    /\ stage = NoBatch
    /\ seen = [p \in Pdf |-> 0]
    /\ pending = {}
    /\ stop = FALSE
    /\ owed = Seed
    /\ changes = 0 /\ halts = 0
-----------------------------------------------------------------------------
(* Take the lock, read the state file, then the highest active id.  With no *)
(* active row the comparison with None raises and nothing has changed.      *)
Start(m) ==
    /\ pc = "off"
    /\ m # "approved"
    /\ mode' = m
    /\ pc' = "loop"
    /\ cursor' = IF m \in {"full", "capped"} THEN saved ELSE 0
    /\ \E top \in Pdf :
          /\ row[top].live
          /\ \A q \in Pdf : row[q].live => q <= top
          /\ maxId' = top
    /\ attempts' = 0 /\ successes' = 0
    /\ UNCHANGED <<table, saved, stage, seen, pending, stop, owed, halts>>

(* run_approved: every candidate is looked up before the first is written.  *)
StartApproved(C) ==
    /\ pc = "off"
    /\ C # {} /\ Cardinality(C) <= PilotLimit
    /\ \A p \in C : Eligible(p)
    /\ mode' = "approved"
    /\ pc' = "submit"
    /\ stage' = [p \in Pdf |-> IF p \in C THEN "queued" ELSE "none"]
    /\ seen' = [p \in Pdf |-> row[p].version]
    /\ cursor' = 0 /\ maxId' = 0
    /\ attempts' = 0 /\ successes' = 0
    /\ UNCHANGED <<table, saved, pending, stop, owed, halts>>

Continue ==
    cursor < maxId /\ ~stop /\ ~PilotDone /\ Budget

Candidates == {p \in Pdf : cursor < p /\ p <= maxId /\ Eligible(p)}

PageOf ==
    IF mode = "capped" /\ MaxFiles - attempts < PageSize
    THEN MaxFiles - attempts
    ELSE PageSize

(* ORDER BY id LIMIT n                                                      *)
FirstRows(B, n) ==
    /\ B \subseteq Candidates
    /\ \A b \in B, p \in Candidates \ B : b < p
    /\ B = Candidates \/ Cardinality(B) = n
    /\ Cardinality(B) <= n

Fetch ==
    /\ pc = "loop"
    /\ Continue
    /\ \E B \in SUBSET Pdf :
          /\ FirstRows(B, PageOf)
          /\ stage' = [p \in Pdf |-> IF p \in B THEN "queued" ELSE "none"]
          /\ pc' = IF B = {} THEN "end" ELSE "submit"
    /\ seen' = [p \in Pdf |-> row[p].version]
    /\ UNCHANGED <<table, saved, mode, cursor, maxId, attempts, successes,
                   pending, stop, owed, halts>>

LeaveLoop ==
    /\ pc = "loop"
    /\ ~Continue
    /\ pc' = "end"
    /\ UNCHANGED <<table, saved, local, stage, pending, stop, owed, halts>>
-----------------------------------------------------------------------------
(* The next row of the batch; the manifest of an approved batch is in any   *)
(* order.                                                                   *)
NextUp(p) ==
    /\ stage[p] = "queued"
    /\ \/ mode = "approved"
       \/ \A q \in Pdf : stage[q] = "queued" => p <= q

CanSubmit ==
    /\ pc = "submit"
    /\ ~stop /\ ~PilotDone
    /\ Cardinality(Futures) < Workers
    /\ \E p \in Pdf : stage[p] = "queued"

Submit(p) ==
    /\ CanSubmit
    /\ NextUp(p)
    /\ stage' = [stage EXCEPT ![p] = "busy"]
    /\ UNCHANGED <<table, saved, local, pc, pending, stop, owed, halts>>

(* wait(futures, FIRST_COMPLETED)                                           *)
Wait ==
    /\ pc = "submit"
    /\ ~CanSubmit
    /\ Results # {}
    /\ pending' = Results
    /\ pc' = "collect"
    /\ UNCHANGED <<table, saved, local, stage, stop, owed, halts>>

Drained_Never ==   \* slip: the loop waits for rows it will not submit
    /\ pc = "submit"
    /\ Batch \subseteq {p \in Pdf : stage[p] = "completed"}
    /\ pc' = IF mode = "approved" THEN "end" ELSE "loop"
    /\ UNCHANGED <<table, saved, local, stage, pending, stop, owed, halts>>

Drained ==
    /\ pc = "submit"
    /\ ~CanSubmit
    /\ Futures = {}
    /\ pc' = IF mode = "approved" THEN "end" ELSE "loop"
    /\ UNCHANGED <<table, saved, local, stage, pending, stop, owed, halts>>

(* The cursor moves over completed rows with no open one before them.       *)
AdvanceTo_Any(c, done) ==   \* slip: the cursor is the highest completed row
    c \in {cursor} \cup done /\ \A d \in {cursor} \cup done : d <= c

AdvanceTo(c, done) ==
    LET prefix == {d \in done : \A b \in Batch : b <= d => b \in done}
    IN  c \in {cursor} \cup prefix /\ \A d \in {cursor} \cup prefix : d <= c

SavedCursor(c) == IF Sweeping THEN c ELSE saved

(* One result: count it, move the cursor, write the state file, which a     *)
(* rename makes atomic.  run_approved keeps a report instead.               *)
Collect(p) ==
    /\ pc = "collect"
    /\ p \in pending
    /\ stage' = [stage EXCEPT ![p] = "completed"]
    /\ attempts' = attempts + 1
    /\ successes' = IF stage[p] = "ok" THEN successes + 1 ELSE successes
    /\ \E c \in {cursor} \cup Batch :
          /\ AdvanceTo(c, {q \in Pdf : stage[q] = "completed"} \cup {p})
          /\ cursor' = IF mode = "approved" THEN cursor ELSE c
    /\ saved' = SavedCursor(cursor')
    /\ pending' = pending \ {p}
    /\ pc' = IF pending = {p} THEN "submit" ELSE "collect"
    /\ UNCHANGED <<table, mode, maxId, seen, stop, owed, halts>>

SweepDone_Stopped == Budget   \* slip: a stop counts as an end

SweepDone == ~stop /\ Budget

ResetCursor_Not == saved   \* slip: the next sweep starts at the end

ResetCursor == 0

(* A finished sweep starts over at the first id.  That is when the next     *)
(* sweep begins: it owes an attempt to each row that is eligible now.       *)
Finish ==
    /\ pc = "end"
    /\ Sweeping /\ SweepDone
    /\ saved' = ResetCursor
    /\ owed' = {p \in Pdf : Eligible(p)}
    /\ pc' = "off"
    /\ stage' = NoBatch
    /\ stop' = FALSE
    /\ UNCHANGED <<table, local, pending, halts>>

Leave ==
    /\ pc = "end"
    /\ ~(Sweeping /\ SweepDone)
    /\ pc' = "off"
    /\ stage' = NoBatch
    /\ stop' = FALSE
    /\ UNCHANGED <<table, saved, local, pending, owed, halts>>
-----------------------------------------------------------------------------
(* process(): the worker verifies the object it read the batch entry for    *)
(* and re-checks the row under its lock.  It keeps the object and marks it, *)
(* or publishes a smaller one; an exception may come before the COMMIT, for *)
(* any reason, or after it, from the final checks.                          *)
Process(p) ==
    /\ stage[p] = "busy"
    /\ \E v \in {row[p].version, row[p].version + 1}, end \in {"ok", "failed"} :
          \/ /\ row[p].live /\ row[p].version = seen[p]
             /\ v <= MaxVersion
             /\ end = "failed" => v # row[p].version
             /\ row' = [row EXCEPT ![p].version = v, ![p].marker = v]
             /\ stage' = [stage EXCEPT ![p] = end]
          \/ /\ end = "failed"
             /\ stage' = [stage EXCEPT ![p] = end]
             /\ UNCHANGED row
    /\ owed' = IF Sweeping \/ row'[p] # row[p] THEN owed \ {p} ELSE owed
    /\ UNCHANGED <<saved, local, pc, pending, stop, changes, halts>>

(* A new article.  An id may become visible after higher ones.              *)
Insert(p) ==
    /\ row[p].version = 0
    /\ row' = [row EXCEPT ![p].version = 1, ![p].live = TRUE]
    /\ changes < MaxChanges /\ changes' = changes + 1
    /\ UNCHANGED <<saved, local, pc, stage, pending, stop, owed, halts>>

(* A forced upload gives a row other bytes and makes it visible.            *)
Replace(p) ==
    /\ row[p].version \in 1 .. MaxVersion - 1
    /\ row' = [row EXCEPT ![p].version = @ + 1, ![p].live = TRUE]
    /\ changes < MaxChanges /\ changes' = changes + 1
    /\ UNCHANGED <<saved, local, pc, stage, pending, stop, owed, halts>>

Delete(p) ==
    /\ row[p].live
    /\ row' = [row EXCEPT ![p].live = FALSE]
    /\ owed' = owed \ {p}
    /\ changes < MaxChanges /\ changes' = changes + 1
    /\ UNCHANGED <<saved, local, pc, stage, pending, stop, halts>>

(* Undoes a delete, which was counted.                                      *)
Restore(p) ==
    /\ row[p].version > 0 /\ ~row[p].live
    /\ row' = [row EXCEPT ![p].live = TRUE]
    /\ UNCHANGED <<saved, local, pc, stage, pending, stop, owed, changes, halts>>

(* SIGTERM or SIGINT; the older script has no handler and dies (Crash).     *)
RequestStop ==
    /\ pc # "off" /\ mode # "serial" /\ ~stop
    /\ stop' = TRUE
    /\ halts < MaxHalts /\ halts' = halts + 1
    /\ UNCHANGED <<table, saved, local, pc, stage, pending, owed>>

Crash ==
    /\ pc # "off"
    /\ pc' = "off"
    /\ stage' = NoBatch
    /\ pending' = {}
    /\ stop' = FALSE
    /\ halts < MaxHalts /\ halts' = halts + 1
    /\ UNCHANGED <<table, saved, local, owed>>

MainThread ==
    \/ Fetch \/ LeaveLoop \/ Wait \/ Drained \/ Finish \/ Leave
    \/ \E p \in Pdf : Submit(p) \/ Collect(p)

Library ==
    \E p \in Pdf : Insert(p) \/ Replace(p) \/ Delete(p) \/ Restore(p)

Next ==
    \/ \E m \in Modes : Start(m)
    \/ "approved" \in Modes /\ \E C \in SUBSET Pdf : StartApproved(C)
    \/ MainThread
    \/ \E p \in Pdf : Process(p)
    \/ Library
    \/ RequestStop \/ Crash

Spec == Init /\ [][Next]_vars

(* Cron starts a capped sweep every ten minutes.  It does not wait for the  *)
(* lock, but runs started by hand leave it free again and again.  A tool    *)
(* has a time limit.                                                       *)
FairSpec ==
    /\ Spec
    /\ SF_vars(Start("capped"))
    /\ WF_vars(MainThread)
    /\ WF_vars(\E p \in Pdf : Process(p))
-----------------------------------------------------------------------------
TypeOK ==
    /\ row \in [Pdf -> RowType]
    /\ saved \in Nat
    /\ mode \in {"full", "capped", "pilot", "approved", "serial"}
    /\ pc \in {"off", "loop", "submit", "collect", "end"}
    /\ {cursor, maxId, attempts, successes} \subseteq Nat
    /\ stage \in [Pdf -> Stages]
    /\ seen \in [Pdf -> Nat]
    /\ pending \subseteq Results /\ (pending # {} => pc = "collect")
    /\ stop \in BOOLEAN
    /\ owed \subseteq Pdf
    /\ changes \in 0 .. MaxChanges
    /\ halts \in 0 .. MaxHalts

(* "A service stop or crash therefore never loses unprocessed rows": the    *)
(* next run starts below every row that this sweep has not attempted yet,   *)
(* whatever order the workers finish in.                                    *)
NoneSkipped == \A p \in owed : saved < p

(* The cursor is reset, and last_full_scan_at set, only when every row that *)
(* was eligible when the sweep began has been attempted or is gone.         *)
SweepIsComplete == [][owed' \subseteq owed \/ owed = {}]_vars

(* What makes NoneSkipped inductive: behind the main thread's cursor        *)
(* nothing is owed, and up to the end of the batch only what the workers    *)
(* have not finished.                                                       *)
SweepInv ==
    /\ NoneSkipped
    /\ \A p \in owed : Eligible(p)
    /\ Sweeping /\ pc # "off" => \A p \in owed : cursor < p /\ p <= maxId
    /\ Sweeping /\ pc \in {"submit", "collect"} =>
          \A p \in owed, b \in Batch : p <= b => stage[p] \in {"queued", "busy"}
    /\ Sweeping /\ SweepDone /\ pc = "end" => owed = {}
    /\ stop => pc # "off" /\ mode # "serial"
    /\ \A p \in Pdf : /\ row[p].marker <= row[p].version
                      /\ row[p].live => row[p].version > 0

(* Every row owed is attempted in the end, and a stop is obeyed.            *)
EveryRowAttempted == \A p \in Pdf : p \in owed ~> p \notin owed

StopEndsRun == stop ~> pc = "off"
=============================================================================

--------------------------- MODULE MaintenanceQueue ---------------------------
(***************************************************************************)
(* The administrator's maintenance queue: web requests that enqueue, stop  *)
(* and approve jobs (maintenance.py), the cron-started host worker that    *)
(* claims one job and runs its command (run_admin_maintenance_worker.py),  *)
(* and the command itself, a process of its own that may outlive the       *)
(* worker.  Module JobBoard is what they promise together (OneBoard).      *)
(*                                                                         *)
(* A row of maintenance_jobs keeps its status, kind, approved source,      *)
(* cancel_requested, and what a reviewer may still do with its report:     *)
(* "fresh" while the report verifies and is at most an hour old, "stale"   *)
(* after.  The command of a full run shares the lock file                  *)
(* pdfcraft-batch.lock and the state file (last_full_scan_at) with the     *)
(* other coordinators of the host, here the process Cron.                  *)
(***************************************************************************)
EXTENDS Naturals

CONSTANTS Job,         \* ids of maintenance_jobs rows
          Admin,       \* concurrent web requests of administrators
          Kinds,       \* the kinds of job they ask for
          None, Cron,
          Faults,      \* which of the disturbances below may happen
          MaxCrashes   \* bound on worker crashes and host reboots

Preview    == {"audit", "metadata_preview"}
Approval   == [compression |-> "audit", metadata_apply |-> "metadata_preview"]
Write      == DOMAIN Approval
FullRun    == "full_compression"
Kind       == Preview \cup Write \cup {FullRun}
FaultKinds == {"crash", "reboot", "cron"}

ASSUME NoneAssumption == None \notin Job \cup {Cron} /\ Cron \notin Job
ASSUME KindAssumption == Kinds \subseteq Kind
ASSUME FaultAssumption == Faults \subseteq FaultKinds
ASSUME CrashAssumption == MaxCrashes \in Nat

VARIABLES row,      \* table maintenance_jobs
          form,     \* a request between its checks and its INSERT
          worker,   \* the process run by cron
          cmd,      \* the host command of each job
          batch,    \* who holds pdfcraft-batch.lock
          scanned,  \* last_full_scan_at differs from the current baseline
          swept,    \* jobs whose own command finished a sweep
          crashes

vars == <<row, form, worker, cmd, batch, scanned, swept, crashes>>
-----------------------------------------------------------------------------
Open     == {"queued", "running"}
Terminal == {"completed", "failed", "cancelled"}
Alive    == {"starting", "running", "draining"}

RowType == [status: {"absent"} \cup Open \cup Terminal, kind: Kind,
            source: Job \cup {None}, stop: BOOLEAN, report: {"none", "fresh", "stale"}]

FormType == [kind: Kind, source: Job \cup {None}]

WorkerType == [pc: {"off", "recover", "claim", "prepare", "launch", "wait",
                    "kill", "verdict", "finish"},
               job: Job \cup {None}, signalled: BOOLEAN, verdict: Terminal]

Off == [pc |-> "off", job |-> None, signalled |-> FALSE, verdict |-> "failed"]

Init ==
    /\ row = [j \in Job |-> [status |-> "absent", kind |-> "audit", source |-> None,
                             stop |-> FALSE, report |-> "none"]]
    /\ form = [a \in Admin |-> None]
    /\ worker = Off
    /\ cmd = [j \in Job |-> "none"]
    /\ batch = None
    /\ scanned = FALSE
    /\ swept = {}
    /\ crashes = 0

NoOpenJob == \A j \in Job : row[j].status \notin Open

Unapproved(s) == \A j \in Job : row[j].status # "absent" => row[j].source # s

Reviewable(s, k) ==
    /\ row[s].status = "completed"
    /\ row[s].kind = k
    /\ row[s].report = "fresh"
-----------------------------------------------------------------------------
(* Web requests.  The checks are SELECTs; the INSERT comes later, and only *)
(* the unique indexes relate the two.                                      *)
Enqueue(a, k) ==
    /\ form[a] = None
    /\ k \in Kinds \ Write
    /\ NoOpenJob
    /\ form' = [form EXCEPT ![a] = [kind |-> k, source |-> None]]
    /\ UNCHANGED <<row, worker, cmd, batch, scanned, swept, crashes>>

Approve(a, k, s) ==
    /\ form[a] = None
    /\ k \in Kinds \cap Write
    /\ Reviewable(s, Approval[k])
    /\ Unapproved(s)
    /\ NoOpenJob
    /\ form' = [form EXCEPT ![a] = [kind |-> k, source |-> s]]
    /\ UNCHANGED <<row, worker, cmd, batch, scanned, swept, crashes>>

(* uq_maintenance_active_job and uq_maintenance_source_approval.           *)
Unique_OpenOnly(f) == NoOpenJob   \* slip: no constraint on source_job_id

Unique(f) == NoOpenJob /\ (f.source # None => Unapproved(f.source))

Insert(a) ==
    /\ form[a] # None
    /\ Unique(form[a])
    /\ \E j \in Job :
          /\ row[j].status = "absent"
          /\ row' = [row EXCEPT ![j].status = "queued", ![j].kind = form[a].kind,
                                ![j].source = form[a].source]
    /\ form' = [form EXCEPT ![a] = None]
    /\ UNCHANGED <<worker, cmd, batch, scanned, swept, crashes>>

(* IntegrityError: 409.                                                    *)
Refuse(a) ==
    /\ form[a] # None
    /\ ~Unique(form[a])
    /\ form' = [form EXCEPT ![a] = None]
    /\ UNCHANGED <<row, worker, cmd, batch, scanned, swept, crashes>>

(* stop_full_library, under the row lock: a queued run is cancelled at     *)
(* once, a running one is only asked to stop.                              *)
Stop_Cancels(j) ==   \* slip: a running job is cancelled at once, too
    /\ row[j].kind = FullRun
    /\ row[j].status \in Open
    /\ row' = [row EXCEPT ![j].status = "cancelled", ![j].stop = TRUE]
    /\ UNCHANGED <<form, worker, cmd, batch, scanned, swept, crashes>>

Stop(j) ==
    /\ row[j].kind = FullRun
    /\ row[j].status \in Open
    /\ row' = [row EXCEPT
                  ![j].status = IF row[j].status = "queued" THEN "cancelled" ELSE "running",
                  ![j].stop = TRUE]
    /\ UNCHANGED <<form, worker, cmd, batch, scanned, swept, crashes>>

(* The hour is over, or the report was removed or changed.                 *)
Expire(j) ==
    /\ row[j].report = "fresh"
    /\ row' = [row EXCEPT ![j].report = "stale"]
    /\ UNCHANGED <<form, worker, cmd, batch, scanned, swept, crashes>>
-----------------------------------------------------------------------------
(* The worker.  worker.lock is an flock that the command inherits: it is   *)
(* free only when the worker and every command are gone.                   *)
LockFree_NotInherited == TRUE   \* slip: pass_fds is forgotten

LockFree == \A j \in Job : cmd[j] \notin Alive

Start ==
    /\ worker.pc = "off"
    /\ LockFree
    /\ worker' = [worker EXCEPT !.pc = "recover"]
    /\ UNCHANGED <<row, form, cmd, batch, scanned, swept, crashes>>

(* _fail_interrupted                                                       *)
Recover_Skipped ==   \* slip: nobody looks for interrupted jobs
    /\ worker.pc = "recover"
    /\ worker' = [worker EXCEPT !.pc = "claim"]
    /\ UNCHANGED <<row, form, cmd, batch, scanned, swept, crashes>>

Recover ==
    /\ worker.pc = "recover"
    /\ row' = [j \in Job |-> IF row[j].status = "running"
                             THEN [row[j] EXCEPT !.status = "failed"] ELSE row[j]]
    /\ worker' = [worker EXCEPT !.pc = "claim"]
    /\ UNCHANGED <<form, cmd, batch, scanned, swept, crashes>>

Claim(j) ==
    /\ worker.pc = "claim"
    /\ row[j].status = "queued"
    /\ row' = [row EXCEPT ![j].status = "running"]
    /\ worker' = [worker EXCEPT !.pc = "prepare", !.job = j]
    /\ UNCHANGED <<form, cmd, batch, scanned, swept, crashes>>

NothingQueued ==
    /\ worker.pc = "claim"
    /\ \A j \in Job : row[j].status # "queued"
    /\ worker' = Off
    /\ UNCHANGED <<row, form, cmd, batch, scanned, swept, crashes>>

(* Preflight: a write needs its preview once more, a full run notes the    *)
(* last_full_scan_at of the state file.                                    *)
Prepare ==
    LET r == row[worker.job] IN
    /\ worker.pc = "prepare"
    /\ r.kind \in Write => Reviewable(r.source, Approval[r.kind])
    /\ scanned' = IF r.kind = FullRun THEN FALSE ELSE scanned
    /\ worker' = [worker EXCEPT !.pc = "launch"]
    /\ UNCHANGED <<row, form, cmd, batch, swept, crashes>>

Launch ==
    /\ worker.pc = "launch"
    /\ cmd' = [cmd EXCEPT ![worker.job] = "starting"]
    /\ worker' = [worker EXCEPT !.pc = "wait"]
    /\ UNCHANGED <<row, form, batch, scanned, swept, crashes>>

(* No backup or disk space, an expired preview, no interpreter, a log file *)
(* that exists, an unreadable or wrong report.                             *)
GiveUp ==
    /\ worker.pc \in {"prepare", "launch", "verdict"}
    /\ worker' = [worker EXCEPT !.pc = "finish", !.verdict = "failed"]
    /\ UNCHANGED <<row, form, cmd, batch, scanned, swept, crashes>>

(* A coordinator that got as far as its signal handler drains, one that is *)
(* still being loaded dies.                                                *)
Terminated(c) == IF c = "starting" THEN "bad" ELSE "draining"

(* The 10 s poll passes a stop request on, once.                           *)
PassOnStop ==
    LET j == worker.job IN
    /\ worker.pc = "wait"
    /\ row[j].kind = FullRun /\ row[j].stop
    /\ ~worker.signalled
    /\ cmd[j] \in Alive
    /\ cmd' = [cmd EXCEPT ![j] = Terminated(cmd[j])]
    /\ worker' = [worker EXCEPT !.signalled = TRUE]
    /\ UNCHANGED <<row, form, batch, scanned, swept, crashes>>

(* The time limit of the kind, the drain limit after a stop, or an error   *)
(* of the poll itself.                                                     *)
Interrupt ==
    /\ worker.pc = "wait"
    /\ worker' = [worker EXCEPT !.pc = "kill"]
    /\ UNCHANGED <<row, form, cmd, batch, scanned, swept, crashes>>

Release(j) == IF batch = j THEN None ELSE batch

(* terminate_group: SIGTERM and, 45 s later, SIGKILL to the whole session. *)
Kill ==
    LET j == worker.job IN
    /\ worker.pc = "kill"
    /\ cmd' = [cmd EXCEPT ![j] = IF cmd[j] \in Alive THEN "bad" ELSE cmd[j]]
    /\ batch' = Release(j)
    /\ worker' = [worker EXCEPT !.pc = "finish", !.verdict = "failed"]
    /\ UNCHANGED <<row, form, scanned, swept, crashes>>

Reap ==
    /\ worker.pc = "wait"
    /\ cmd[worker.job] \in {"ok", "bad"}
    /\ worker' = [worker EXCEPT !.pc = "verdict"]
    /\ UNCHANGED <<row, form, cmd, batch, scanned, swept, crashes>>

(* A full run is completed when the state file tells of a sweep, cancelled *)
(* when it does not and a stop was requested.                              *)
Outcome_StatusOnly(j) ==   \* slip: the exit status alone decides
    IF cmd[j] = "ok" THEN "completed" ELSE "failed"

Outcome(j) ==
    IF row[j].kind # FullRun
    THEN IF cmd[j] = "ok" THEN "completed" ELSE "failed"
    ELSE IF scanned /\ cmd[j] = "ok" THEN "completed"
    ELSE IF row[j].stop THEN "cancelled" ELSE "failed"

Judge ==
    /\ worker.pc = "verdict"
    /\ worker' = [worker EXCEPT !.pc = "finish", !.verdict = Outcome(worker.job)]
    /\ UNCHANGED <<row, form, cmd, batch, scanned, swept, crashes>>

Finish ==
    /\ worker.pc = "finish"
    /\ row' = [row EXCEPT ![worker.job].status = worker.verdict,
                          ![worker.job].report =
                              IF worker.verdict = "completed" THEN "fresh" ELSE "none"]
    /\ worker' = Off
    /\ UNCHANGED <<form, cmd, batch, scanned, swept, crashes>>

(* The worker dies, or loses the database when it reports; the command it  *)
(* started lives on.                                                       *)
Crash ==
    /\ "crash" \in Faults /\ crashes < MaxCrashes
    /\ worker.pc # "off"
    /\ worker' = Off
    /\ crashes' = crashes + 1
    /\ UNCHANGED <<row, form, cmd, batch, scanned, swept>>

Reboot ==
    /\ "reboot" \in Faults /\ crashes < MaxCrashes
    /\ worker' = Off
    /\ cmd' = [j \in Job |-> IF cmd[j] \in Alive THEN "bad" ELSE cmd[j]]
    /\ batch' = None
    /\ crashes' = crashes + 1
    /\ UNCHANGED <<row, form, scanned, swept>>
-----------------------------------------------------------------------------
(* The command of job j.  The PDFCraft coordinators need the batch lock    *)
(* and do not wait for it.                                                 *)
NeedsBatch(j) == row[j].kind \in {"compression", FullRun}

Begin(j) ==
    /\ cmd[j] = "starting"
    /\ NeedsBatch(j) => batch = None
    /\ cmd' = [cmd EXCEPT ![j] = "running"]
    /\ batch' = IF NeedsBatch(j) THEN j ELSE batch
    /\ UNCHANGED <<row, form, worker, scanned, swept, crashes>>

Succeed(j) ==
    /\ cmd[j] = "running"
    /\ row[j].kind # FullRun
    /\ cmd' = [cmd EXCEPT ![j] = "ok"]
    /\ batch' = Release(j)
    /\ UNCHANGED <<row, form, worker, scanned, swept, crashes>>

(* The whole backlog is done; a signal that comes too late changes nothing.*)
SweepEnds(j) ==
    /\ cmd[j] \in {"running", "draining"}
    /\ row[j].kind = FullRun
    /\ cmd' = [cmd EXCEPT ![j] = "ok"]
    /\ batch' = Release(j)
    /\ scanned' = TRUE
    /\ swept' = swept \cup {j}
    /\ UNCHANGED <<row, form, worker, crashes>>

(* STOPPED: the PDFs in flight are finished, the cursor is saved, exit 0.  *)
Drain(j) ==
    /\ cmd[j] = "draining"
    /\ cmd' = [cmd EXCEPT ![j] = "ok"]
    /\ batch' = Release(j)
    /\ UNCHANGED <<row, form, worker, scanned, swept, crashes>>

Break(j) ==
    /\ cmd[j] \in Alive
    /\ cmd' = [cmd EXCEPT ![j] = "bad"]
    /\ batch' = Release(j)
    /\ UNCHANGED <<row, form, worker, scanned, swept, crashes>>

(* Another coordinator of the host, the optional cron sweep for instance.  *)
CronBegins ==
    /\ "cron" \in Faults
    /\ batch = None
    /\ batch' = Cron
    /\ UNCHANGED <<row, form, worker, cmd, scanned, swept, crashes>>

CronEnds ==
    /\ batch = Cron
    /\ batch' = None
    /\ scanned' \in {scanned, TRUE}
    /\ UNCHANGED <<row, form, worker, cmd, swept, crashes>>

Requests ==
    \/ \E a \in Admin :
          \/ \E k \in Kind : Enqueue(a, k)
          \/ \E k \in Kind, s \in Job : Approve(a, k, s)
          \/ Insert(a) \/ Refuse(a)
    \/ \E j \in Job : Stop(j) \/ Expire(j)

WorkerStep ==
    \/ Start \/ Recover \/ (\E j \in Job : Claim(j)) \/ NothingQueued
    \/ Prepare \/ Launch \/ GiveUp \/ PassOnStop \/ Interrupt \/ Kill
    \/ Reap \/ Judge \/ Finish

Command(j) == Begin(j) \/ Succeed(j) \/ SweepEnds(j) \/ Drain(j) \/ Break(j)

Next ==
    \/ Requests \/ WorkerStep \/ \E j \in Job : Command(j)
    \/ Crash \/ Reboot \/ CronBegins \/ CronEnds

Spec == Init /\ [][Next]_vars

(* The board: the rows, and of each command whether it lives and how it    *)
(* ended.                                                                  *)
Statuses == [j \in Job |-> row[j].status]
KindOf   == [j \in Job |-> row[j].kind]
Sources  == [j \in Job |-> row[j].source]
Stops    == [j \in Job |-> row[j].stop]
Runs     == [j \in Job |-> IF cmd[j] \in Alive THEN "alive" ELSE cmd[j]]

Board == INSTANCE JobBoard WITH
    status <- Statuses, kind <- KindOf, source <- Sources, stop <- Stops, run <- Runs

(* Cron starts a worker every minute and the worker is scheduled; every    *)
(* command works through a finite backlog with time limits on its tools,   *)
(* so it ends.                                                             *)
FairSpec ==
    /\ Spec
    /\ WF_vars(WorkerStep)
    /\ \A j \in Job : WF_vars(Command(j))
-----------------------------------------------------------------------------
TypeOK ==
    /\ row \in [Job -> RowType]
    /\ form \in [Admin -> FormType \cup {None}]
    /\ worker \in WorkerType
    /\ cmd \in [Job -> Alive \cup {"none", "ok", "bad"}]
    /\ batch \in Job \cup {None, Cron}
    /\ scanned \in BOOLEAN
    /\ swept \subseteq Job
    /\ crashes \in 0..MaxCrashes

(* A host command, orphaned or not, is alive only while its job is shown   *)
(* as running, and never next to another one: after a crash the inherited  *)
(* lock keeps the next worker out until the orphan is gone.                *)
CommandHasItsJob ==
    \A j \in Job : cmd[j] \in Alive =>
        /\ row[j].status = "running"
        /\ \A i \in Job \ {j} : cmd[i] \notin Alive

(* However the requests interleave, at most one job is open, and a preview *)
(* is approved for at most one write.                                      *)
OneOpenJob == \A i, j \in Job : row[i].status \in Open /\ row[j].status \in Open => i = j

ApprovedOnce ==
    \A i, j \in Job : i # j /\ row[i].source # None => row[i].source # row[j].source

(* The inductive invariant behind these: the worker owns the one running   *)
(* job from its claim on, a command exists only for a job that was         *)
(* claimed, and while the worker is not looking after a living command     *)
(* there is no worker at all.                                              *)
Busy == {"prepare", "launch", "wait", "kill", "verdict", "finish"}

WorkerOwnsJob ==
    /\ IF worker.pc \in Busy
       THEN worker.job \in Job /\ row[worker.job].status = "running"
       ELSE worker.job = None
    /\ \A j \in Job : row[j].status = "running" =>
          worker.pc \in {"off", "recover"} \/ worker.job = j

CommandOwned ==
    \A j \in Job :
        /\ cmd[j] \in Alive => /\ row[j].status = "running"
                               /\ worker.pc \in {"off", "wait", "kill"}
        /\ row[j].status \in {"absent", "queued"} => cmd[j] = "none"
        /\ worker.pc \in {"prepare", "launch"} /\ worker.job = j => cmd[j] = "none"

AbsentUnapproved == \A j \in Job : row[j].status = "absent" => row[j].source = None

QueueInv ==
    WorkerOwnsJob /\ CommandOwned /\ OneOpenJob /\ AbsentUnapproved /\ ApprovedOnce

(* A job that ended keeps its status: a stop never revives or relabels a   *)
(* finished run, and no worker reports on a job somebody else ended.       *)
TerminalIsFinal ==
    [][\A j \in Job : row[j].status \in Terminal => row'[j].status = row[j].status]_vars

(* The command of a job is started at most once, whatever crashes: an      *)
(* interrupted write is never replayed on its old approval.                *)
NeverReplayed ==
    [][\A j \in Job : cmd[j] # "none" /\ cmd'[j] = "starting" => cmd[j] = "starting"]_vars

(* A full run shown as completed is one whose own command went through the *)
(* whole backlog; one shown as cancelled was asked to stop.                *)
HonestOutcome ==
    \A j \in Job : row[j].kind = FullRun =>
        /\ row[j].status = "completed" => j \in swept
        /\ row[j].status = "cancelled" => row[j].stop

(* It is inductive with what the worker knows while it looks after a full  *)
(* run: a new last_full_scan_at is the work of its own command, provided   *)
(* that no other coordinator runs on the host.                             *)
HonestWorker ==
    LET j == worker.job IN
    row[j].kind = FullRun =>
        /\ worker.pc \in Busy \ {"prepare", "finish"} /\ scanned => j \in swept
        /\ worker.pc = "finish" =>
              /\ worker.verdict = "completed" => j \in swept
              /\ worker.verdict = "cancelled" => row[j].stop

HonestInv == batch # Cron /\ (worker.pc \in Busy => HonestWorker) /\ HonestOutcome

(* Every job ends, whether it is stopped, its command fails, or its worker *)
(* dies.                                                                   *)
EveryJobEnds == \A j \in Job : row[j].status = "queued" ~> row[j].status \in Terminal

(* Requests that check first and INSERT later, workers that crash and      *)
(* commands that outlive them act like one board on which jobs are asked   *)
(* for, run and reported on one at a time.                                 *)
OneBoard == Board!Spec

(* The command of a write was only ever started on a preview of the right  *)
(* kind whose own command succeeded, and that no other write rests on.     *)
WritesPreviewed ==
    \A j \in Job : cmd[j] # "none" /\ row[j].kind \in Write =>
        LET s == row[j].source IN
        /\ s \in Job /\ row[s].kind = Approval[row[j].kind] /\ cmd[s] = "ok"
        /\ \A i \in Job \ {j} : row[i].source # s

(* What is known between the steps of a request and of the worker.         *)
FormsApproved ==
    \A a \in Admin : form[a] # None =>
        LET f == form[a] IN
        IF f.kind \in Write
        THEN /\ f.source \in Job
             /\ row[f.source].status = "completed" /\ row[f.source].kind = Approval[f.kind]
        ELSE f.source = None

VerdictHolds ==
    worker.pc = "finish" =>
        /\ worker.verdict = "completed" => cmd[worker.job] = "ok"
        /\ worker.verdict = "cancelled" => row[worker.job].stop
=============================================================================

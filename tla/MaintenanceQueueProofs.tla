------------------------ MODULE MaintenanceQueueProofs ------------------------
(***************************************************************************)
(* Proofs about MaintenanceQueue, for any number of jobs, requests and     *)
(* crashes; last, that it implements module JobBoard.                      *)
(***************************************************************************)
EXTENDS MaintenanceQueue, TLAPS

(* A step that leaves table, worker and commands alone keeps QueueInv.     *)
LEMMA InvFrame ==
    ASSUME QueueInv, UNCHANGED <<row, worker, cmd>>
    PROVE  QueueInv'
  BY DEF QueueInv, WorkerOwnsJob, CommandOwned, OneOpenJob, AbsentUnapproved, ApprovedOnce

(* The constraints on the table look at status and source only.            *)
LEMMA TableFrame ==
    ASSUME QueueInv,
           \A j \in Job : /\ row'[j].source = row[j].source
                          /\ row'[j].status \in Open => row[j].status \in Open
                          /\ row'[j].status = "absent" => row[j].status = "absent"
    PROVE  OneOpenJob' /\ AbsentUnapproved' /\ ApprovedOnce'
  BY DEF QueueInv, OneOpenJob, AbsentUnapproved, ApprovedOnce
-----------------------------------------------------------------------------
LEMMA EnqueueKeeps ==
    ASSUME TypeOK, QueueInv, NEW a \in Admin, NEW k \in Kind, Enqueue(a, k)
    PROVE  TypeOK' /\ QueueInv'
  <1>1. TypeOK'
    BY DEF TypeOK, Enqueue, FormType
  <1> QED BY <1>1, InvFrame DEF Enqueue

LEMMA ApproveKeeps ==
    ASSUME TypeOK, QueueInv, NEW a \in Admin, NEW k \in Kind, NEW s \in Job, Approve(a, k, s)
    PROVE  TypeOK' /\ QueueInv'
  <1>1. TypeOK'
    BY DEF TypeOK, Approve, FormType
  <1> QED BY <1>1, InvFrame DEF Approve

LEMMA InsertKeeps ==
    ASSUME TypeOK, QueueInv, NEW a \in Admin, Insert(a)
    PROVE  TypeOK' /\ QueueInv'
  <1>1. PICK j \in Job :
          /\ row[j].status = "absent"
          /\ row' = [row EXCEPT ![j].status = "queued", ![j].kind = form[a].kind,
                                ![j].source = form[a].source]
    BY DEF Insert
  <1> DEFINE new == [row[j] EXCEPT !.status = "queued", !.kind = form[a].kind,
                                   !.source = form[a].source]
  <1>2. form[a] \in FormType
    BY DEF Insert, TypeOK
  <1>3. row[j] \in RowType
    BY DEF TypeOK
  <1>4. /\ new \in RowType
        /\ new.status = "queued" /\ new.source = form[a].source
    BY <1>2, <1>3 DEF RowType, FormType, Open
  <1>5. row' = [row EXCEPT ![j] = new]
    BY <1>1, <1>3 DEF TypeOK, RowType
  <1> HIDE DEF new
  <1>6. /\ row'[j].status = "queued" /\ row'[j].source = form[a].source
        /\ \A i \in Job : i # j => row'[i] = row[i]
    BY <1>4, <1>5 DEF TypeOK
  <1>7. Unique(form[a])
    BY DEF Insert
  <1>8. UNCHANGED <<worker, cmd, batch, scanned, swept, crashes>> /\ form' = [form EXCEPT ![a] = None]
    BY DEF Insert
  <1>9. TypeOK'
    BY <1>4, <1>5, <1>8 DEF TypeOK
  <1>10. WorkerOwnsJob' /\ CommandOwned'
    <2>1. row[j].status = "absent" /\ UNCHANGED <<worker, cmd>>
      BY <1>1, <1>8
    <2>2. WorkerOwnsJob'
      BY <1>6, <2>1 DEF QueueInv, WorkerOwnsJob
    <2>3. CommandOwned'
      BY <1>6, <2>1 DEF QueueInv, CommandOwned, Alive
    <2> QED BY <2>2, <2>3
  <1>11. OneOpenJob' /\ AbsentUnapproved'
    BY <1>6, <1>7 DEF QueueInv, OneOpenJob, AbsentUnapproved, Unique, NoOpenJob
  <1>12. \A i \in Job \ {j} : form[a].source # None => row[i].source # form[a].source
    BY <1>7 DEF QueueInv, AbsentUnapproved, Unique, Unapproved
  <1>13. ApprovedOnce'
    BY <1>6, <1>12 DEF QueueInv, ApprovedOnce
  <1> QED BY <1>9, <1>10, <1>11, <1>13 DEF QueueInv

LEMMA RefuseKeeps ==
    ASSUME TypeOK, QueueInv, NEW a \in Admin, Refuse(a)
    PROVE  TypeOK' /\ QueueInv'
  <1>1. TypeOK'
    BY DEF TypeOK, Refuse
  <1> QED BY <1>1, InvFrame DEF Refuse

LEMMA StopKeeps ==
    ASSUME TypeOK, QueueInv, NEW j \in Job, Stop(j)
    PROVE  TypeOK' /\ QueueInv'
  <1> DEFINE s   == IF row[j].status = "queued" THEN "cancelled" ELSE "running"
             new == [row[j] EXCEPT !.status = s, !.stop = TRUE]
  <1>1. row[j] \in RowType /\ row[j].status \in Open
    BY DEF TypeOK, Stop
  <1>2. /\ new \in RowType /\ new.status = s
        /\ new.source = row[j].source
    BY <1>1 DEF RowType, Open, Terminal
  <1>3. row' = [row EXCEPT ![j] = new]
    BY <1>1 DEF TypeOK, RowType, Stop
  <1> HIDE DEF new
  <1>4. /\ row'[j].status = s /\ row'[j].source = row[j].source
        /\ \A i \in Job : i # j => row'[i] = row[i]
    BY <1>2, <1>3 DEF TypeOK
  <1>5. UNCHANGED <<form, worker, cmd, batch, scanned, swept, crashes>>
    BY DEF Stop
  <1>6. TypeOK'
    BY <1>2, <1>3, <1>5 DEF TypeOK
  <1>7. OneOpenJob' /\ AbsentUnapproved' /\ ApprovedOnce'
    BY <1>1, <1>4, TableFrame DEF Open
  <1>8. WorkerOwnsJob' /\ CommandOwned'
    BY <1>1, <1>4, <1>5 DEF QueueInv, WorkerOwnsJob, CommandOwned, Open
  <1> QED BY <1>6, <1>7, <1>8 DEF QueueInv

LEMMA ExpireKeeps ==
    ASSUME TypeOK, QueueInv, NEW j \in Job, Expire(j)
    PROVE  TypeOK' /\ QueueInv'
  <1> DEFINE new == [row[j] EXCEPT !.report = "stale"]
  <1>1. row[j] \in RowType
    BY DEF TypeOK
  <1>2. /\ new \in RowType /\ new.status = row[j].status
        /\ new.source = row[j].source
    BY <1>1 DEF RowType
  <1>3. row' = [row EXCEPT ![j] = new]
    BY <1>1 DEF TypeOK, RowType, Expire
  <1> HIDE DEF new
  <1>4. \A i \in Job : row'[i].status = row[i].status /\ row'[i].source = row[i].source
    BY <1>2, <1>3 DEF TypeOK
  <1>5. UNCHANGED <<form, worker, cmd, batch, scanned, swept, crashes>>
    BY DEF Expire
  <1>6. TypeOK'
    BY <1>2, <1>3, <1>5 DEF TypeOK
  <1>7. OneOpenJob' /\ AbsentUnapproved' /\ ApprovedOnce'
    BY <1>4, TableFrame
  <1>8. WorkerOwnsJob' /\ CommandOwned'
    BY <1>4, <1>5 DEF QueueInv, WorkerOwnsJob, CommandOwned
  <1> QED BY <1>6, <1>7, <1>8 DEF QueueInv
-----------------------------------------------------------------------------
(* A step that leaves the table and the commands alone, while the worker   *)
(* keeps its job, or has none.                                             *)
LEMMA WorkerFrame ==
    ASSUME QueueInv, UNCHANGED <<row, cmd>>,
           worker'.job = worker.job,
           worker.pc \in Busy <=> worker'.pc \in Busy,
           worker.pc \in {"off", "recover"} => worker'.pc \in {"off", "recover"},
           worker'.pc \in {"prepare", "launch"} => worker.pc \in {"prepare", "launch"},
           \A j \in Job : cmd[j] \in Alive => worker'.pc \in {"off", "wait", "kill"}
    PROVE  QueueInv'
  <1>1. WorkerOwnsJob'
    BY DEF QueueInv, WorkerOwnsJob
  <1>2. CommandOwned'
    BY DEF QueueInv, CommandOwned
  <1>3. OneOpenJob' /\ AbsentUnapproved' /\ ApprovedOnce'
    BY TableFrame
  <1> QED BY <1>1, <1>2, <1>3 DEF QueueInv

(* Where the worker stands, and whose command may be alive.                *)
LEMMA NoCommand ==
    ASSUME QueueInv, worker.pc \notin {"off", "wait", "kill"}, NEW j \in Job
    PROVE  cmd[j] \notin Alive
  BY DEF QueueInv, CommandOwned

LEMMA OwnCommand ==
    ASSUME QueueInv, worker.pc \notin {"off", "recover"}, NEW j \in Job, cmd[j] \in Alive
    PROVE  j = worker.job
  BY DEF QueueInv, CommandOwned, WorkerOwnsJob

LEMMA StartKeeps ==
    ASSUME TypeOK, QueueInv, Start
    PROVE  TypeOK' /\ QueueInv'
  <1>1. worker.pc = "off" /\ worker'.pc = "recover" /\ worker'.job = worker.job
    BY DEF Start, TypeOK, WorkerType
  <1>2. TypeOK'
    BY DEF Start, TypeOK, WorkerType
  <1>3. UNCHANGED <<row, cmd>> /\ \A j \in Job : cmd[j] \notin Alive
    BY DEF Start, LockFree
  <1> QED BY <1>1, <1>2, <1>3, WorkerFrame DEF Busy

LEMMA RecoverKeeps ==
    ASSUME TypeOK, QueueInv, Recover
    PROVE  TypeOK' /\ QueueInv'
  <1> DEFINE new(j) == IF row[j].status = "running"
                       THEN [row[j] EXCEPT !.status = "failed"] ELSE row[j]
  <1>1. /\ row' = [j \in Job |-> new(j)]
        /\ worker.pc = "recover" /\ worker' = [worker EXCEPT !.pc = "claim"]
        /\ UNCHANGED <<form, cmd, batch, scanned, swept, crashes>>
    BY DEF Recover
  <1>2. ASSUME NEW j \in Job
        PROVE  /\ new(j) \in RowType
               /\ new(j).source = row[j].source
               /\ new(j).status = IF row[j].status = "running" THEN "failed"
                                  ELSE row[j].status
    BY DEF TypeOK, RowType, Terminal
  <1> HIDE DEF new
  <1>3. \A j \in Job : /\ row'[j].source = row[j].source
                       /\ row'[j].status = IF row[j].status = "running" THEN "failed"
                                           ELSE row[j].status
    BY <1>1, <1>2
  <1>4. TypeOK'
    <2>1. worker' \in WorkerType
      BY <1>1 DEF TypeOK, WorkerType
    <2> QED BY <1>1, <1>2, <2>1 DEF TypeOK
  <1>5. OneOpenJob' /\ AbsentUnapproved' /\ ApprovedOnce'
    BY <1>3, TableFrame DEF Open
  <1>6. worker'.pc = "claim" /\ worker'.job = worker.job
    BY <1>1 DEF TypeOK, WorkerType
  <1>7. WorkerOwnsJob'
    BY <1>1, <1>3, <1>6 DEF QueueInv, WorkerOwnsJob, Busy
  <1>8. CommandOwned'
    BY <1>1, <1>3, <1>6, NoCommand DEF QueueInv, CommandOwned
  <1> QED BY <1>4, <1>5, <1>7, <1>8 DEF QueueInv

LEMMA ClaimKeeps ==
    ASSUME TypeOK, QueueInv, NEW j \in Job, Claim(j)
    PROVE  TypeOK' /\ QueueInv'
  <1> DEFINE new == [row[j] EXCEPT !.status = "running"]
  <1>1. row[j] \in RowType /\ row[j].status = "queued" /\ worker.pc = "claim"
    BY DEF TypeOK, Claim
  <1>2. /\ new \in RowType /\ new.status = "running"
        /\ new.source = row[j].source
    BY <1>1 DEF RowType, Open
  <1>3. row' = [row EXCEPT ![j] = new]
    BY <1>1 DEF TypeOK, RowType, Claim
  <1> HIDE DEF new
  <1>4. /\ row'[j].status = "running" /\ row'[j].source = row[j].source
        /\ \A i \in Job : i # j => row'[i] = row[i]
    BY <1>2, <1>3 DEF TypeOK
  <1>5. /\ UNCHANGED <<form, cmd, batch, scanned, swept, crashes>>
        /\ worker' = [worker EXCEPT !.pc = "prepare", !.job = j]
    BY DEF Claim
  <1>6. worker' \in WorkerType /\ worker'.pc = "prepare" /\ worker'.job = j
    BY <1>5 DEF TypeOK, WorkerType
  <1>7. TypeOK'
    BY <1>2, <1>3, <1>5, <1>6 DEF TypeOK
  <1>8. OneOpenJob' /\ AbsentUnapproved' /\ ApprovedOnce'
    BY <1>1, <1>4, TableFrame DEF Open
  <1>9. \A i \in Job : row[i].status # "running"
    BY <1>1 DEF QueueInv, OneOpenJob, WorkerOwnsJob, Open, Busy
  <1>10. WorkerOwnsJob'
    BY <1>4, <1>6, <1>9 DEF WorkerOwnsJob, Busy
  <1>11. CommandOwned'
    BY <1>1, <1>4, <1>5, <1>6, <1>9, NoCommand DEF QueueInv, CommandOwned
  <1> QED BY <1>7, <1>8, <1>10, <1>11 DEF QueueInv

LEMMA NothingQueuedKeeps ==
    ASSUME TypeOK, QueueInv, NothingQueued
    PROVE  TypeOK' /\ QueueInv'
  <1>1. /\ worker.pc = "claim" /\ worker' = Off
        /\ UNCHANGED <<row, form, cmd, batch, scanned, swept, crashes>>
    BY DEF NothingQueued
  <1>2. worker'.pc = "off" /\ worker'.job = None /\ worker' \in WorkerType
    BY <1>1 DEF Off, WorkerType, Terminal
  <1>3. TypeOK'
    BY <1>1, <1>2 DEF TypeOK
  <1>4. worker.job = None
    BY <1>1 DEF QueueInv, WorkerOwnsJob, Busy
  <1>5. WorkerOwnsJob' /\ CommandOwned'
    BY <1>1, <1>2 DEF QueueInv, WorkerOwnsJob, CommandOwned, Busy
  <1> QED BY <1>1, <1>3, <1>5, TableFrame DEF QueueInv

LEMMA PrepareKeeps ==
    ASSUME TypeOK, QueueInv, Prepare
    PROVE  TypeOK' /\ QueueInv'
  <1>1. /\ worker.pc = "prepare" /\ worker' = [worker EXCEPT !.pc = "launch"]
        /\ UNCHANGED <<row, form, cmd, batch, swept, crashes>>
        /\ scanned' \in BOOLEAN
    BY DEF Prepare, TypeOK
  <1>2. worker'.pc = "launch" /\ worker'.job = worker.job /\ worker' \in WorkerType
    BY <1>1 DEF TypeOK, WorkerType
  <1>3. TypeOK'
    BY <1>1, <1>2 DEF TypeOK
  <1> QED BY <1>1, <1>2, <1>3, NoCommand, WorkerFrame DEF Busy

LEMMA LaunchKeeps ==
    ASSUME TypeOK, QueueInv, Launch
    PROVE  TypeOK' /\ QueueInv'
  <1>1. /\ worker.pc = "launch" /\ worker' = [worker EXCEPT !.pc = "wait"]
        /\ UNCHANGED <<row, form, batch, scanned, swept, crashes>>
        /\ cmd' = [cmd EXCEPT ![worker.job] = "starting"]
    BY DEF Launch
  <1>2. worker'.pc = "wait" /\ worker'.job = worker.job /\ worker' \in WorkerType
    BY <1>1 DEF TypeOK, WorkerType
  <1>3. worker.job \in Job /\ row[worker.job].status = "running"
    BY <1>1 DEF QueueInv, WorkerOwnsJob, Busy
  <1>4. TypeOK'
    BY <1>1, <1>2, <1>3 DEF TypeOK, Alive
  <1>5. \A j \in Job : j # worker.job => cmd'[j] = cmd[j]
    BY <1>1 DEF TypeOK
  <1>6. WorkerOwnsJob'
    BY <1>1, <1>2 DEF QueueInv, WorkerOwnsJob, Busy
  <1>7. CommandOwned'
    BY <1>1, <1>2, <1>3, <1>5, NoCommand DEF QueueInv, CommandOwned
  <1> QED BY <1>1, <1>4, <1>6, <1>7, TableFrame DEF QueueInv

LEMMA GiveUpKeeps ==
    ASSUME TypeOK, QueueInv, GiveUp
    PROVE  TypeOK' /\ QueueInv'
  <1>1. /\ worker.pc \in {"prepare", "launch", "verdict"}
        /\ worker' = [worker EXCEPT !.pc = "finish", !.verdict = "failed"]
        /\ UNCHANGED <<row, form, cmd, batch, scanned, swept, crashes>>
    BY DEF GiveUp
  <1>2. worker'.pc = "finish" /\ worker'.job = worker.job /\ worker' \in WorkerType
    BY <1>1 DEF TypeOK, WorkerType, Terminal
  <1>3. TypeOK'
    BY <1>1, <1>2 DEF TypeOK
  <1> QED BY <1>1, <1>2, <1>3, NoCommand, WorkerFrame DEF Busy

(* A step of the commands: none comes to life.                             *)
LEMMA CommandFrame ==
    ASSUME QueueInv, UNCHANGED row, worker'.job = worker.job, worker'.pc = worker.pc,
           \A j \in Job : /\ cmd'[j] \in Alive => cmd[j] \in Alive
                          /\ cmd[j] = "none" => cmd'[j] = "none"
    PROVE  QueueInv'
  <1>1. WorkerOwnsJob'
    BY DEF QueueInv, WorkerOwnsJob
  <1>2. CommandOwned'
    BY DEF QueueInv, CommandOwned
  <1> QED BY <1>1, <1>2, TableFrame DEF QueueInv

LEMMA PassOnStopKeeps ==
    ASSUME TypeOK, QueueInv, PassOnStop
    PROVE  TypeOK' /\ QueueInv'
  <1>1. /\ worker.pc = "wait" /\ worker' = [worker EXCEPT !.signalled = TRUE]
        /\ UNCHANGED <<row, form, batch, scanned, swept, crashes>>
        /\ cmd[worker.job] \in Alive
        /\ cmd' = [cmd EXCEPT ![worker.job] = Terminated(cmd[worker.job])]
    BY DEF PassOnStop
  <1>2. worker'.pc = worker.pc /\ worker'.job = worker.job /\ worker' \in WorkerType
    BY <1>1 DEF TypeOK, WorkerType
  <1>3. worker.job \in Job
    BY <1>1 DEF QueueInv, WorkerOwnsJob, Busy
  <1>4. TypeOK'
    BY <1>1, <1>2, <1>3 DEF TypeOK, Terminated, Alive
  <1>5. \A j \in Job : /\ cmd'[j] \in Alive => cmd[j] \in Alive
                       /\ cmd[j] = "none" => cmd'[j] = "none"
    BY <1>1, <1>3 DEF TypeOK, Alive
  <1> QED BY <1>1, <1>2, <1>4, <1>5, CommandFrame

LEMMA InterruptKeeps ==
    ASSUME TypeOK, QueueInv, Interrupt
    PROVE  TypeOK' /\ QueueInv'
  <1>1. /\ worker.pc = "wait" /\ worker' = [worker EXCEPT !.pc = "kill"]
        /\ UNCHANGED <<row, form, cmd, batch, scanned, swept, crashes>>
    BY DEF Interrupt
  <1>2. worker'.pc = "kill" /\ worker'.job = worker.job /\ worker' \in WorkerType
    BY <1>1 DEF TypeOK, WorkerType
  <1>3. TypeOK'
    BY <1>1, <1>2 DEF TypeOK
  <1> QED BY <1>1, <1>2, <1>3, WorkerFrame DEF Busy

LEMMA KillKeeps ==
    ASSUME TypeOK, QueueInv, Kill
    PROVE  TypeOK' /\ QueueInv'
  <1> DEFINE w == worker.job
  <1>1. /\ worker.pc = "kill"
        /\ worker' = [worker EXCEPT !.pc = "finish", !.verdict = "failed"]
        /\ cmd' = [cmd EXCEPT ![w] = IF cmd[w] \in Alive THEN "bad" ELSE cmd[w]]
        /\ UNCHANGED <<row, form, scanned, swept, crashes>>
        /\ batch' = Release(w)
    BY DEF Kill
  <1>2. worker'.pc = "finish" /\ worker'.job = w /\ worker' \in WorkerType
    BY <1>1 DEF TypeOK, WorkerType, Terminal
  <1>3. w \in Job
    BY <1>1 DEF QueueInv, WorkerOwnsJob, Busy
  <1>4. cmd[w] \in Alive \cup {"none", "ok", "bad"} /\ cmd'[w] \notin Alive
    BY <1>1, <1>3 DEF TypeOK, Alive
  <1>5. \A j \in Job : j # w => cmd'[j] = cmd[j]
    BY <1>1 DEF TypeOK
  <1>6. TypeOK'
    <2>1. cmd' \in [Job -> Alive \cup {"none", "ok", "bad"}]
      BY <1>1, <1>3, <1>4 DEF TypeOK
    <2>2. batch' \in Job \cup {None, Cron}
      BY <1>1 DEF TypeOK, Release
    <2> QED BY <1>1, <1>2, <2>1, <2>2 DEF TypeOK
  <1>7. \A j \in Job : cmd'[j] \notin Alive
    BY <1>1, <1>4, <1>5, OwnCommand
  <1>8. WorkerOwnsJob'
    BY <1>1, <1>2 DEF QueueInv, WorkerOwnsJob, Busy
  <1>9. row[w].status = "running"
    BY <1>1 DEF QueueInv, WorkerOwnsJob, Busy
  <1>10. CommandOwned'
    BY <1>1, <1>2, <1>5, <1>7, <1>9 DEF QueueInv, CommandOwned
  <1> QED BY <1>1, <1>6, <1>8, <1>10, TableFrame DEF QueueInv

LEMMA ReapKeeps ==
    ASSUME TypeOK, QueueInv, Reap
    PROVE  TypeOK' /\ QueueInv'
  <1>1. /\ worker.pc = "wait" /\ worker' = [worker EXCEPT !.pc = "verdict"]
        /\ UNCHANGED <<row, form, cmd, batch, scanned, swept, crashes>>
        /\ cmd[worker.job] \notin Alive
    BY DEF Reap, Alive
  <1>2. worker'.pc = "verdict" /\ worker'.job = worker.job /\ worker' \in WorkerType
    BY <1>1 DEF TypeOK, WorkerType
  <1>3. TypeOK'
    BY <1>1, <1>2 DEF TypeOK
  <1>4. \A j \in Job : cmd[j] \notin Alive
    BY <1>1, OwnCommand
  <1> QED BY <1>1, <1>2, <1>3, <1>4, WorkerFrame DEF Busy

LEMMA JudgeKeeps ==
    ASSUME TypeOK, QueueInv, Judge
    PROVE  TypeOK' /\ QueueInv'
  <1>1. /\ worker.pc = "verdict"
        /\ worker' = [worker EXCEPT !.pc = "finish", !.verdict = Outcome(worker.job)]
        /\ UNCHANGED <<row, form, cmd, batch, scanned, swept, crashes>>
    BY DEF Judge
  <1>2. Outcome(worker.job) \in Terminal
    BY DEF Outcome, Terminal
  <1>3. worker'.pc = "finish" /\ worker'.job = worker.job /\ worker' \in WorkerType
    BY <1>1, <1>2 DEF TypeOK, WorkerType
  <1>4. TypeOK'
    BY <1>1, <1>3 DEF TypeOK
  <1> QED BY <1>1, <1>3, <1>4, NoCommand, WorkerFrame DEF Busy

LEMMA FinishKeeps ==
    ASSUME TypeOK, QueueInv, Finish
    PROVE  TypeOK' /\ QueueInv'
  <1> DEFINE w   == worker.job
             rep == IF worker.verdict = "completed" THEN "fresh" ELSE "none"
             new == [row[w] EXCEPT !.status = worker.verdict, !.report = rep]
  <1>1. worker.pc = "finish" /\ worker.verdict \in Terminal
    BY DEF Finish, TypeOK, WorkerType
  <1>2. w \in Job /\ row[w] \in RowType /\ row[w].status = "running"
    BY <1>1 DEF QueueInv, WorkerOwnsJob, Busy, TypeOK
  <1>3. /\ new \in RowType /\ new.status = worker.verdict
        /\ new.source = row[w].source
    BY <1>1, <1>2 DEF RowType
  <1>4. row' = [row EXCEPT ![w] = new]
    BY <1>2 DEF TypeOK, RowType, Finish
  <1> HIDE DEF new
  <1>5. /\ row'[w].status \in Terminal /\ row'[w].source = row[w].source
        /\ \A j \in Job : j # w => row'[j] = row[j]
    BY <1>1, <1>2, <1>3, <1>4 DEF TypeOK
  <1>6. worker' = Off /\ UNCHANGED <<form, cmd, batch, scanned, swept, crashes>>
    BY DEF Finish
  <1>7. worker'.pc = "off" /\ worker'.job = None /\ worker' \in WorkerType
    BY <1>6 DEF Off, WorkerType, Terminal
  <1>8. TypeOK'
    BY <1>2, <1>3, <1>4, <1>6, <1>7 DEF TypeOK
  <1>9. OneOpenJob' /\ AbsentUnapproved' /\ ApprovedOnce'
    BY <1>2, <1>5, TableFrame DEF Open, Terminal
  <1>10. WorkerOwnsJob'
    BY <1>7 DEF WorkerOwnsJob, Busy
  <1>11. CommandOwned'
    BY <1>1, <1>5, <1>6, <1>7, NoCommand DEF QueueInv, CommandOwned, Terminal
  <1> QED BY <1>8, <1>9, <1>10, <1>11 DEF QueueInv

LEMMA CrashKeeps ==
    ASSUME TypeOK, QueueInv, Crash
    PROVE  TypeOK' /\ QueueInv'
  <1>1. /\ worker' = Off /\ crashes < MaxCrashes /\ crashes' = crashes + 1
        /\ UNCHANGED <<row, form, cmd, batch, scanned, swept>>
    BY DEF Crash
  <1>2. worker'.pc = "off" /\ worker'.job = None /\ worker' \in WorkerType
    BY <1>1 DEF Off, WorkerType, Terminal
  <1>3. TypeOK'
    BY <1>1, <1>2, CrashAssumption DEF TypeOK
  <1>4. WorkerOwnsJob' /\ CommandOwned'
    BY <1>1, <1>2 DEF QueueInv, WorkerOwnsJob, CommandOwned, Busy
  <1> QED BY <1>1, <1>3, <1>4, TableFrame DEF QueueInv

LEMMA RebootKeeps ==
    ASSUME TypeOK, QueueInv, Reboot
    PROVE  TypeOK' /\ QueueInv'
  <1>1. /\ worker' = Off /\ crashes < MaxCrashes /\ crashes' = crashes + 1
        /\ cmd' = [j \in Job |-> IF cmd[j] \in Alive THEN "bad" ELSE cmd[j]]
        /\ batch' = None
        /\ UNCHANGED <<row, form, scanned, swept>>
    BY DEF Reboot
  <1>2. worker'.pc = "off" /\ worker'.job = None /\ worker' \in WorkerType
    BY <1>1 DEF Off, WorkerType, Terminal
  <1>3. TypeOK'
    BY <1>1, <1>2, CrashAssumption DEF TypeOK, Alive
  <1>4. \A j \in Job : /\ cmd'[j] \notin Alive
                       /\ cmd[j] = "none" => cmd'[j] = "none"
    BY <1>1 DEF Alive
  <1>5. WorkerOwnsJob' /\ CommandOwned'
    BY <1>1, <1>2, <1>4 DEF QueueInv, WorkerOwnsJob, CommandOwned, Busy
  <1> QED BY <1>1, <1>3, <1>5, TableFrame DEF QueueInv
-----------------------------------------------------------------------------
LEMMA CommandKeeps ==
    ASSUME TypeOK, QueueInv, NEW j \in Job, Command(j)
    PROVE  TypeOK' /\ QueueInv'
  <1> USE DEF Alive
  <1>1. /\ cmd[j] \in Alive
        /\ \E c \in {"running", "ok", "bad"} : cmd' = [cmd EXCEPT ![j] = c]
        /\ UNCHANGED <<row, form, worker, crashes>>
    BY DEF Command, Begin, Succeed, SweepEnds, Drain, Break
  <1>2. /\ batch' \in {batch, j, None}
        /\ scanned' \in {scanned, TRUE} /\ swept' \in {swept, swept \cup {j}}
    BY DEF Command, Begin, Succeed, SweepEnds, Drain, Break, Release
  <1>3. TypeOK'
    BY <1>1, <1>2 DEF TypeOK
  <1>4. \A i \in Job : /\ cmd'[i] \in Alive => cmd[i] \in Alive
                       /\ cmd[i] = "none" => cmd'[i] = "none"
    BY <1>1 DEF TypeOK
  <1> QED BY <1>1, <1>3, <1>4, CommandFrame

LEMMA CronKeeps ==
    ASSUME TypeOK, QueueInv, CronBegins \/ CronEnds
    PROVE  TypeOK' /\ QueueInv'
  <1>1. /\ batch' \in {Cron, None} /\ scanned' \in {scanned, TRUE}
        /\ UNCHANGED <<row, form, worker, cmd, swept, crashes>>
    BY DEF CronBegins, CronEnds
  <1>2. TypeOK'
    BY <1>1 DEF TypeOK
  <1> QED BY <1>1, <1>2, InvFrame

LEMMA Inductive ==
    ASSUME TypeOK /\ QueueInv, [Next]_vars
    PROVE  (TypeOK /\ QueueInv)'
  <1>1. CASE Requests
    BY <1>1, EnqueueKeeps, ApproveKeeps, InsertKeeps, RefuseKeeps, StopKeeps, ExpireKeeps
       DEF Requests
  <1>2. CASE WorkerStep
    BY <1>2, StartKeeps, RecoverKeeps, ClaimKeeps, NothingQueuedKeeps, PrepareKeeps,
       LaunchKeeps, GiveUpKeeps, PassOnStopKeeps, InterruptKeeps, KillKeeps, ReapKeeps,
       JudgeKeeps, FinishKeeps
       DEF WorkerStep
  <1>3. CASE \E j \in Job : Command(j)
    BY <1>3, CommandKeeps
  <1>4. CASE Crash \/ Reboot \/ CronBegins \/ CronEnds
    BY <1>4, CrashKeeps, RebootKeeps, CronKeeps
  <1>5. CASE UNCHANGED vars
    BY <1>5, InvFrame DEF vars, TypeOK
  <1> QED BY <1>1, <1>2, <1>3, <1>4, <1>5 DEF Next

LEMMA InitKeeps == Init => TypeOK /\ QueueInv
  <1> SUFFICES ASSUME Init PROVE TypeOK /\ QueueInv
    OBVIOUS
  <1>1. TypeOK
    <2>1. row \in [Job -> RowType]
      BY DEF Init, RowType, Kind, Preview
    <2>2. worker \in WorkerType
      BY DEF Init, Off, WorkerType, Terminal
    <2>3. crashes \in 0..MaxCrashes
      BY CrashAssumption DEF Init
    <2> QED BY <2>1, <2>2, <2>3 DEF Init, TypeOK
  <1>2. /\ worker.pc = "off" /\ worker.job = None /\ \A j \in Job : cmd[j] = "none"
        /\ \A j \in Job : row[j].status = "absent" /\ row[j].source = None
    BY DEF Init, Off
  <1>3. WorkerOwnsJob /\ CommandOwned
    BY <1>2 DEF WorkerOwnsJob, CommandOwned, Busy, Alive
  <1>4. OneOpenJob /\ AbsentUnapproved /\ ApprovedOnce
    BY <1>2 DEF OneOpenJob, AbsentUnapproved, ApprovedOnce, Open
  <1> QED BY <1>1, <1>3, <1>4 DEF QueueInv

LEMMA Invariant == Spec => [](TypeOK /\ QueueInv)
  BY InitKeeps, Inductive, PTL DEF Spec
-----------------------------------------------------------------------------
(* Every variable keeps to its type.                                       *)
THEOREM TypeCorrect == Spec => []TypeOK
  BY Invariant, PTL

(* The worker owns the one running job, and commands exist for claimed     *)
(* jobs only.                                                              *)
THEOREM QueueCorrect == Spec => []QueueInv
  BY Invariant, PTL

(* A host command, orphaned or not, is alone and has a running job.        *)
THEOREM CommandCorrect == Spec => []CommandHasItsJob
  <1>1. QueueInv => CommandHasItsJob
    BY DEF QueueInv, CommandOwned, OneOpenJob, CommandHasItsJob, Open
  <1> QED BY <1>1, Invariant, PTL

(* The queue holds at most one open job.                                   *)
THEOREM QueueIsSingle == Spec => []OneOpenJob
  <1>1. QueueInv => OneOpenJob
    BY DEF QueueInv
  <1> QED BY <1>1, Invariant, PTL

(* No preview is approved for two writes.                                  *)
THEOREM ApprovalIsSingle == Spec => []ApprovedOnce
  <1>1. QueueInv => ApprovedOnce
    BY DEF QueueInv
  <1> QED BY <1>1, Invariant, PTL
-----------------------------------------------------------------------------
LEMMA TerminalStays ==
    ASSUME TypeOK, QueueInv, Next, NEW j \in Job, row[j].status \in Terminal
    PROVE  row'[j].status = row[j].status
  <1>1. row[j].status \notin {"absent", "queued", "running"}
    BY DEF Terminal
  <1>2. ASSUME NEW a \in Admin, Insert(a) PROVE row'[j] = row[j]
    BY <1>1, <1>2 DEF Insert, TypeOK
  <1>3. ASSUME NEW i \in Job, Stop(i) PROVE row'[j] = row[j]
    BY <1>1, <1>3 DEF Stop, TypeOK, Open
  <1>4. ASSUME NEW i \in Job, Expire(i) PROVE row'[j].status = row[j].status
    BY <1>4 DEF Expire, TypeOK, RowType
  <1>5. CASE Recover
    BY <1>1, <1>5 DEF Recover
  <1>6. ASSUME NEW i \in Job, Claim(i) PROVE row'[j] = row[j]
    BY <1>1, <1>6 DEF Claim, TypeOK
  <1>7. CASE Finish
    <2>1. row[worker.job].status = "running"
      BY <1>7 DEF Finish, QueueInv, WorkerOwnsJob, Busy
    <2> QED BY <1>1, <1>7, <2>1 DEF Finish, TypeOK
  <1>8. CASE UNCHANGED row
    BY <1>8
  <1> QED
    BY <1>2, <1>3, <1>4, <1>5, <1>6, <1>7, <1>8
       DEF Next, Requests, WorkerStep, Command, Enqueue, Approve, Refuse, Start,
           NothingQueued, Prepare, Launch, GiveUp, PassOnStop, Interrupt, Kill, Reap, Judge,
           Begin, Succeed, SweepEnds, Drain, Break, Crash, Reboot, CronBegins, CronEnds

(* Nothing relabels a job that ended.                                      *)
THEOREM EndIsFinal == Spec => TerminalIsFinal
  <1>1. TypeOK /\ QueueInv /\ [Next]_vars =>
          [\A j \in Job : row[j].status \in Terminal => row'[j].status = row[j].status]_vars
    BY TerminalStays
  <1> QED BY <1>1, Invariant, PTL DEF Spec, TerminalIsFinal

(* No command is started twice.                                            *)
THEOREM NoReplay == Spec => NeverReplayed
  <1> DEFINE Once == \A j \in Job : cmd[j] # "none" /\ cmd'[j] = "starting" => cmd[j] = "starting"
  <1>1. ASSUME TypeOK, QueueInv, Launch PROVE Once
    <2>1. worker.job \in Job /\ cmd[worker.job] = "none"
      BY <1>1 DEF Launch, QueueInv, WorkerOwnsJob, CommandOwned, Busy
    <2> QED BY <1>1, <2>1 DEF Launch, TypeOK
  <1>2. ASSUME TypeOK, NEW i \in Job, Command(i) PROVE Once
    <2>1. \E c \in {"running", "ok", "bad"} : cmd' = [cmd EXCEPT ![i] = c]
      BY <1>2 DEF Command, Begin, Succeed, SweepEnds, Drain, Break
    <2> QED BY <1>2, <2>1 DEF TypeOK
  <1>3. ASSUME TypeOK, QueueInv, PassOnStop \/ Kill PROVE Once
    <2>1. worker.job \in Job
      BY <1>3 DEF PassOnStop, Kill, QueueInv, WorkerOwnsJob, Busy
    <2>2. \E c \in {"draining", "bad", cmd[worker.job]} : cmd' = [cmd EXCEPT ![worker.job] = c]
      BY <1>3 DEF PassOnStop, Kill, Terminated
    <2> QED BY <1>3, <2>1, <2>2 DEF TypeOK
  <1>4. ASSUME Reboot PROVE Once
    BY <1>4 DEF Reboot
  <1>5. ASSUME UNCHANGED cmd PROVE Once
    BY <1>5
  <1>6. ASSUME TypeOK, QueueInv, Next PROVE Once
    <2> HIDE DEF Once
    <2> QED
      BY <1>1, <1>2, <1>3, <1>4, <1>5, <1>6
         DEF Next, Requests, WorkerStep, Enqueue, Approve, Insert, Refuse, Stop, Expire,
             Start, Recover, Claim, NothingQueued, Prepare, GiveUp, Interrupt, Reap, Judge,
             Finish, Crash, CronBegins, CronEnds
  <1>7. TypeOK /\ QueueInv /\ [Next]_vars => [Once]_vars
    BY <1>6
  <1> QED BY <1>7, Invariant, PTL DEF Spec, NeverReplayed
-----------------------------------------------------------------------------
(* What a step other than Finish does to a row, as far as HonestOutcome    *)
(* can tell.                                                               *)
RowStep(j) ==
    /\ row[j].status # "absent" => row'[j].kind = row[j].kind
    /\ row[j].status # "absent" /\ row[j].stop => row'[j].stop
    /\ row'[j].status = "completed" => row[j].status = "completed"
    /\ row'[j].status = "cancelled" => row[j].status = "cancelled" \/ row'[j].stop

LEMMA RowSteps ==
    ASSUME TypeOK, QueueInv, [Next]_vars, ~Finish, NEW j \in Job
    PROVE  RowStep(j)
  <1>0. row[j] \in RowType
    BY DEF TypeOK
  <1>1. ASSUME NEW a \in Admin, Insert(a) PROVE RowStep(j)
    <2>1. PICK i \in Job :
            /\ row[i].status = "absent"
            /\ row' = [row EXCEPT ![i].status = "queued", ![i].kind = form[a].kind,
                                  ![i].source = form[a].source]
      BY <1>1 DEF Insert
    <2>2. CASE i # j
      BY <2>1, <2>2 DEF TypeOK, RowStep
    <2>3. CASE i = j
      <3>1. row'[j].status = "queued"
        BY <1>0, <2>1, <2>3 DEF TypeOK, RowType
      <3> QED BY <2>1, <2>3, <3>1 DEF RowStep
    <2> QED BY <2>2, <2>3
  <1>2. ASSUME NEW i \in Job, Stop(i) PROVE RowStep(j)
    <2>1. CASE i # j
      BY <1>2, <2>1 DEF Stop, TypeOK, RowStep
    <2>2. CASE i = j
      <3>1. row'[j].kind = row[j].kind /\ row'[j].stop /\ row'[j].status \in {"cancelled", "running"}
        BY <1>0, <1>2, <2>2 DEF Stop, TypeOK, RowType
      <3> QED BY <3>1 DEF RowStep
    <2> QED BY <2>1, <2>2
  <1>3. ASSUME NEW i \in Job, Expire(i) PROVE RowStep(j)
    BY <1>0, <1>3 DEF Expire, TypeOK, RowType, RowStep
  <1>4. ASSUME Recover PROVE RowStep(j)
    BY <1>0, <1>4 DEF Recover, RowType, RowStep
  <1>5. ASSUME NEW i \in Job, Claim(i) PROVE RowStep(j)
    BY <1>0, <1>5 DEF Claim, TypeOK, RowType, RowStep
  <1>6. ASSUME UNCHANGED row PROVE RowStep(j)
    BY <1>6 DEF RowStep
  <1> HIDE DEF RowStep
  <1> QED
    BY <1>1, <1>2, <1>3, <1>4, <1>5, <1>6
       DEF Next, Requests, WorkerStep, Command, Enqueue, Approve, Refuse, Start,
           NothingQueued, Prepare, Launch, GiveUp, PassOnStop, Interrupt, Kill, Reap, Judge,
           Begin, Succeed, SweepEnds, Drain, Break, Crash, Reboot, CronBegins, CronEnds, vars

(* What a step does to the worker's knowledge of its full run.             *)
LEMMA HonestWorkers ==
    ASSUME TypeOK, QueueInv, HonestInv, [Next]_vars, worker'.pc \in Busy
    PROVE  HonestWorker'
  <1> DEFINE w == worker.job
             Kept == /\ worker' = worker \/ (w = worker'.job /\ worker.verdict = worker'.verdict)
                     /\ worker.pc \in Busy
                     /\ worker'.pc \notin {"prepare", "finish"} => worker.pc \notin {"prepare", "finish"}
                     /\ worker'.pc = "finish" => worker.pc = "finish"
                     /\ UNCHANGED <<scanned, swept>>
  <1>1. worker \in WorkerType /\ (worker.pc \in Busy => w \in Job /\ row[w].status = "running")
    BY DEF TypeOK, QueueInv, WorkerOwnsJob
  <1>2. ASSUME Kept, ~Finish PROVE HonestWorker'
    <2>1. w \in Job /\ row[w].status = "running" /\ HonestWorker
      BY <1>1, <1>2 DEF HonestInv
    <2>2. row'[w].kind = row[w].kind /\ (row[w].stop => row'[w].stop)
      BY <1>2, <2>1, RowSteps DEF RowStep
    <2> QED BY <1>2, <2>1, <2>2 DEF HonestWorker
  <1>3. CASE UNCHANGED <<worker, scanned, swept>> /\ ~Finish
    BY <1>2, <1>3 DEF Busy
  <1>4. ASSUME NEW j \in Job, Claim(j) PROVE HonestWorker'
    BY <1>1, <1>4 DEF Claim, HonestWorker, WorkerType
  <1>5. CASE Prepare
    <2>1. /\ worker'.pc = "launch" /\ worker'.job = w /\ row' = row
          /\ row[w].kind = FullRun => scanned' = FALSE
      BY <1>1, <1>5 DEF Prepare, WorkerType
    <2> QED BY <2>1 DEF HonestWorker
  <1>6. CASE GiveUp \/ Kill
    <2>1. worker'.pc = "finish" /\ worker'.verdict = "failed"
      BY <1>1, <1>6 DEF GiveUp, Kill, WorkerType
    <2> QED BY <2>1 DEF HonestWorker
  <1>7. CASE Judge
    <2>1. /\ worker'.pc = "finish" /\ worker'.job = w /\ worker'.verdict = Outcome(w)
          /\ UNCHANGED <<row, scanned, swept>> /\ worker.pc = "verdict"
      BY <1>1, <1>7 DEF Judge, WorkerType
    <2>2. HonestWorker
      BY <2>1 DEF HonestInv, Busy
    <2> QED BY <2>1, <2>2 DEF HonestWorker, Outcome, Busy
  <1>8. CASE Launch \/ PassOnStop \/ Interrupt \/ Reap
    <2>1. Kept
      BY <1>1, <1>8 DEF Launch, PassOnStop, Interrupt, Reap, WorkerType, Busy
    <2>2. ~Finish
      BY <1>1, <1>8 DEF Launch, PassOnStop, Interrupt, Reap, Finish
    <2> QED BY <1>2, <2>1, <2>2
  <1>9. CASE Start \/ Recover \/ NothingQueued \/ Finish \/ Crash \/ Reboot
    BY <1>1, <1>9 DEF Start, Recover, NothingQueued, Finish, Crash, Reboot, Off, Busy, WorkerType
  <1>10. ASSUME NEW j \in Job, SweepEnds(j) PROVE HonestWorker'
    <2>1. /\ cmd[j] \in Alive /\ UNCHANGED <<row, worker>> /\ swept' = swept \cup {j}
      BY <1>10 DEF SweepEnds, Alive
    <2>2. w = j /\ worker.pc \in {"wait", "kill"}
      BY <2>1, OwnCommand, NoCommand DEF Busy
    <2> QED BY <2>1, <2>2 DEF HonestWorker
  <1>11. CASE CronEnds
    BY <1>11 DEF CronEnds, HonestInv
  <1>12. CASE Finish \/ ~Finish
    <2> HIDE DEF Kept
    <2> QED
      BY <1>3, <1>4, <1>5, <1>6, <1>7, <1>8, <1>9, <1>10, <1>11
         DEF Next, Requests, WorkerStep, Command, Enqueue, Approve, Insert, Refuse, Stop,
             Expire, Begin, Succeed, Drain, Break, CronBegins, vars
  <1> QED BY <1>12

LEMMA HonestOutcomes ==
    ASSUME TypeOK, QueueInv, HonestInv, [Next]_vars
    PROVE  HonestOutcome'
  <1>1. CASE Finish
    <2> DEFINE w == worker.job
    <2>1. worker.pc = "finish" /\ w \in Job /\ HonestWorker /\ UNCHANGED swept
      BY <1>1 DEF Finish, QueueInv, WorkerOwnsJob, HonestInv, Busy
    <2>2. row[w] \in RowType
      BY <2>1 DEF TypeOK
    <2>3. /\ row'[w].kind = row[w].kind /\ row'[w].stop = row[w].stop
          /\ row'[w].status = worker.verdict
          /\ \A j \in Job : j # w => row'[j] = row[j]
      BY <1>1, <2>1, <2>2 DEF Finish, TypeOK, RowType
    <2> QED BY <2>1, <2>3 DEF HonestInv, HonestOutcome, HonestWorker
  <1>2. CASE ~Finish
    <2>1. swept \subseteq swept'
      BY DEF Next, Requests, WorkerStep, Command, Enqueue, Approve, Insert, Refuse, Stop,
             Expire, Start, Recover, Claim, NothingQueued, Prepare, Launch, GiveUp,
             PassOnStop, Interrupt, Kill, Reap, Judge, Finish, Begin, Succeed, SweepEnds,
             Drain, Break, Crash, Reboot, CronBegins, CronEnds, vars
    <2>2. ASSUME NEW j \in Job, row'[j].kind = FullRun
          PROVE  /\ row'[j].status = "completed" => j \in swept'
                 /\ row'[j].status = "cancelled" => row'[j].stop
      BY <1>2, <2>1, <2>2, RowSteps DEF RowStep, HonestInv, HonestOutcome
    <2> QED BY <2>2 DEF HonestOutcome
  <1> QED BY <1>1, <1>2

(* On a host without another PDFCraft coordinator, a full run shown as     *)
(* completed has gone through the whole backlog itself.                    *)
THEOREM OutcomeIsHonest == ASSUME "cron" \notin Faults PROVE Spec => []HonestOutcome
  <1>1. Init => HonestInv
    BY NoneAssumption DEF Init, HonestInv, HonestOutcome, Off, Busy
  <1>2. TypeOK /\ QueueInv /\ HonestInv /\ [Next]_vars => HonestInv'
    <2> SUFFICES ASSUME TypeOK, QueueInv, HonestInv, [Next]_vars PROVE HonestInv'
      OBVIOUS
    <2>1. batch' # Cron
      BY NoneAssumption
         DEF HonestInv, Next, Requests, WorkerStep, Command, Enqueue, Approve, Insert, Refuse,
             Stop, Expire, Start, Recover, Claim, NothingQueued, Prepare, Launch, GiveUp,
             PassOnStop, Interrupt, Kill, Reap, Judge, Finish, Begin, Succeed, SweepEnds,
             Drain, Break, Crash, Reboot, CronBegins, CronEnds, Release, vars
    <2> QED BY <2>1, HonestWorkers, HonestOutcomes DEF HonestInv
  <1>3. HonestInv => HonestOutcome
    BY DEF HonestInv
  <1> QED BY <1>1, <1>2, <1>3, Invariant, PTL DEF Spec
-----------------------------------------------------------------------------
(* The board by itself.                                                    *)
LEMMA BoardConstantsHold == Board!BoardConstants
  BY NoneAssumption
     DEF Board!BoardConstants, Board!Write, Approval, FullRun, Kind, Write, Preview

LEMMA BoardInit == Board!Init => Board!BoardInv
  BY BoardConstantsHold
     DEF Board!Init, Board!BoardInv, Board!BoardType, Board!Consistent, Board!Open, Board!Terminal,
         Board!BoardConstants

LEMMA BoardAsk ==
    ASSUME Board!BoardInv, NEW j \in Job, NEW k \in Kind, NEW s \in Job \cup {None},
           Board!Ask(j, k, s)
    PROVE  Board!BoardInv'
  <1> USE BoardConstantsHold DEF Board!BoardConstants
  <1>1. Board!BoardType'
    BY DEF Board!BoardInv, Board!BoardType, Board!Ask, Board!Open
  <1>2. Board!Consistent'
    BY DEF Board!BoardInv, Board!BoardType, Board!Ask, Board!Open, Board!Approvable, Board!Consistent
  <1> QED BY <1>1, <1>2 DEF Board!BoardInv, Board!BoardType, Board!Ask, Board!Open, Board!Approvable

LEMMA BoardMoves ==
    ASSUME Board!BoardInv, NEW j \in Job,
           \/ \E v \in Board!Terminal : Board!Report(j, v)
           \/ Board!Stop(j) \/ Board!Take(j) \/ Board!Begin(j) \/ Board!End(j)
    PROVE  Board!BoardInv'
  <1> USE BoardConstantsHold DEF Board!BoardConstants, Board!BoardInv, Board!BoardType, Board!Consistent, Board!Open, Board!Terminal
  <1>1. CASE Board!Stop(j)
    BY <1>1 DEF Board!Stop
  <1>2. CASE Board!Take(j)
    BY <1>2 DEF Board!Take
  <1>3. CASE Board!Begin(j)
    BY <1>3 DEF Board!Begin
  <1>4. CASE Board!End(j)
    BY <1>4 DEF Board!End
  <1>5. ASSUME NEW v \in Board!Terminal, Board!Report(j, v) PROVE Board!BoardInv'
    BY <1>5 DEF Board!Report
  <1> QED BY <1>1, <1>2, <1>3, <1>4, <1>5

(* The board is consistent by itself, whatever the jobs and their kinds.   *)
THEOREM BoardConsistent == Board!Spec => []Board!Consistent
  <1>1. Board!BoardInv /\ [Board!Next]_(Board!board) => Board!BoardInv'
    <2> SUFFICES ASSUME Board!BoardInv, [Board!Next]_(Board!board) PROVE Board!BoardInv'
      OBVIOUS
    <2>1. CASE UNCHANGED Board!board
      BY <2>1
         DEF Board!board, Board!BoardInv, Board!BoardType, Board!Consistent
    <2>2. CASE Board!Next
      BY <2>2, BoardAsk, BoardMoves DEF Board!Next
    <2> QED BY <2>1, <2>2
  <1>2. Board!BoardInv => Board!Consistent
    BY DEF Board!BoardInv
  <1> QED BY <1>1, <1>2, BoardInit, PTL DEF Board!Spec
-----------------------------------------------------------------------------
(* What is known between the steps of a request and of the worker.         *)
BoardKnown == FormsApproved /\ VerdictHolds

(* A request's approval rests on a row that has ended, the worker's verdict *)
(* on a command that has.                                                  *)
LEMMA KnownFrame ==
    ASSUME TypeOK, QueueInv, BoardKnown, [Next]_vars, UNCHANGED form
    PROVE  FormsApproved'
  <1> SUFFICES ASSUME NEW a \in Admin, form[a] # None, form[a].kind \in Write
               PROVE  /\ row'[form[a].source].status = "completed"
                      /\ row'[form[a].source].kind = Approval[form[a].kind]
    BY DEF BoardKnown, FormsApproved
  <1> DEFINE s == form[a].source
  <1>1. s \in Job /\ row[s].status = "completed" /\ row[s].kind = Approval[form[a].kind]
    BY DEF BoardKnown, FormsApproved
  <1>2. row'[s].status = "completed"
    <2>1. CASE Next
      BY <1>1, <2>1, TerminalStays DEF Terminal
    <2>2. CASE UNCHANGED vars
      BY <1>1, <2>2 DEF vars
    <2> QED BY <2>1, <2>2
  <1>3. row'[s].kind = row[s].kind
    <2>1. CASE Finish
      BY <1>1, <2>1 DEF Finish, TypeOK, RowType
    <2>2. CASE ~Finish
      BY <1>1, <2>2, RowSteps DEF RowStep
    <2> QED BY <2>1, <2>2
  <1> QED BY <1>1, <1>2, <1>3

LEMMA FormsKeep ==
    ASSUME TypeOK, QueueInv, BoardKnown, [Next]_vars
    PROVE  FormsApproved'
  <1>1. CASE UNCHANGED form
    BY <1>1, KnownFrame
  <1>2. ASSUME NEW a \in Admin, NEW f \in FormType \cup {None}, UNCHANGED row,
               form' = [form EXCEPT ![a] = f],
               f # None => IF f.kind \in Write
                           THEN /\ f.source \in Job /\ row[f.source].status = "completed"
                                /\ row[f.source].kind = Approval[f.kind]
                           ELSE f.source = None
        PROVE  FormsApproved'
    <2>1. \A b \in Admin : form'[b] = IF b = a THEN f ELSE form[b]
      BY <1>2 DEF TypeOK
    <2> QED BY <1>2, <2>1 DEF BoardKnown, FormsApproved
  <1>3. ASSUME NEW a \in Admin, NEW k \in Kind, Enqueue(a, k) PROVE FormsApproved'
    <2> DEFINE f == [kind |-> k, source |-> None]
    <2>1. f \in FormType /\ f.kind = k /\ f.source = None /\ k \notin Write
      BY <1>3 DEF FormType, Enqueue
    <2>2. form' = [form EXCEPT ![a] = f] /\ UNCHANGED row
      BY <1>3 DEF Enqueue
    <2> HIDE DEF f
    <2> QED BY <1>2, <2>1, <2>2
  <1>4. ASSUME NEW a \in Admin, NEW k \in Kind, NEW s \in Job, Approve(a, k, s)
        PROVE  FormsApproved'
    <2> DEFINE f == [kind |-> k, source |-> s]
    <2>1. f \in FormType /\ f.kind = k /\ f.source = s
      BY DEF FormType
    <2>2. /\ form' = [form EXCEPT ![a] = f] /\ UNCHANGED row
          /\ row[s].status = "completed" /\ row[s].kind = Approval[k]
      BY <1>4 DEF Approve, Reviewable
    <2>3. k \in Write
      BY <1>4 DEF Approve
    <2> HIDE DEF f
    <2> QED BY <1>2, <2>1, <2>2, <2>3
  <1>5. ASSUME NEW a \in Admin, Refuse(a) PROVE FormsApproved'
    BY <1>2, <1>5 DEF Refuse
  <1>6. ASSUME NEW a \in Admin, Insert(a) PROVE FormsApproved'
    <2>1. /\ form' = [form EXCEPT ![a] = None]
          /\ \A s \in Job : row[s].status = "completed" => row'[s] = row[s]
      <3>1. PICK j \in Job :
              /\ row[j].status = "absent"
              /\ row' = [row EXCEPT ![j].status = "queued", ![j].kind = form[a].kind,
                                    ![j].source = form[a].source]
        BY <1>6 DEF Insert
      <3> QED BY <1>6, <3>1 DEF Insert, TypeOK
    <2>2. \A b \in Admin : form'[b] = IF b = a THEN None ELSE form[b]
      BY <2>1 DEF TypeOK
    <2> QED BY <2>1, <2>2 DEF BoardKnown, FormsApproved
  <1> QED
    BY <1>1, <1>3, <1>4, <1>5, <1>6
       DEF Next, Requests, WorkerStep, Command, Stop, Expire, Start, Recover, Claim,
           NothingQueued, Prepare, Launch, GiveUp, PassOnStop, Interrupt, Kill, Reap, Judge,
           Finish, Begin, Succeed, SweepEnds, Drain, Break, Crash, Reboot, CronBegins,
           CronEnds, vars

LEMMA VerdictKeeps ==
    ASSUME TypeOK, QueueInv, BoardKnown, [Next]_vars
    PROVE  VerdictHolds'
  <1> DEFINE w == worker.job
  <1>1. worker \in WorkerType /\ (worker.pc \in Busy => w \in Job /\ row[w].status = "running")
    BY DEF TypeOK, QueueInv, WorkerOwnsJob
  <1>2. CASE worker' = worker /\ worker.pc = "finish"
    <2>1. w \in Job /\ row[w].status = "running" /\ VerdictHolds /\ ~Finish
      BY <1>1, <1>2 DEF Busy, BoardKnown, Finish, Off
    <2>2. row[w].stop => row'[w].stop
      BY <2>1, RowSteps DEF RowStep
    <2>3. cmd[w] = "ok" => cmd'[w] = "ok"
      BY <1>2, <2>1
         DEF Next, Requests, WorkerStep, Command, Enqueue, Approve, Insert, Refuse, Stop,
             Expire, Start, Recover, Claim, NothingQueued, Prepare, Launch, GiveUp,
             PassOnStop, Interrupt, Kill, Reap, Judge, Begin, Succeed, SweepEnds,
             Drain, Break, Crash, Reboot, CronBegins, CronEnds, Release, Alive, vars, TypeOK
    <2> QED BY <1>2, <2>1, <2>2, <2>3 DEF VerdictHolds
  <1>3. CASE worker' = worker /\ worker.pc # "finish"
    BY <1>3 DEF VerdictHolds
  <1>4. CASE GiveUp \/ Kill
    <2>1. worker'.verdict = "failed"
      BY <1>1, <1>4 DEF GiveUp, Kill, WorkerType
    <2> QED BY <2>1 DEF VerdictHolds
  <1>5. CASE Judge
    <2>1. /\ worker'.job = w /\ worker'.verdict = Outcome(w) /\ UNCHANGED <<row, cmd>>
      BY <1>1, <1>5 DEF Judge, WorkerType
    <2> QED BY <2>1 DEF VerdictHolds, Outcome
  <1>6. CASE Start \/ Recover \/ Prepare \/ Launch \/ PassOnStop \/ Interrupt
             \/ Reap
    <2>1. worker'.pc # "finish"
      BY <1>1, <1>6
         DEF Start, Recover, Prepare, Launch, PassOnStop, Interrupt, Reap, WorkerType
    <2> QED BY <2>1 DEF VerdictHolds
  <1>8. CASE NothingQueued \/ Finish \/ Crash \/ Reboot
    <2>1. worker' = Off
      BY <1>8 DEF NothingQueued, Finish, Crash, Reboot
    <2> QED BY <2>1 DEF VerdictHolds, Off
  <1>7. ASSUME NEW j \in Job, Claim(j) PROVE VerdictHolds'
    BY <1>1, <1>7 DEF Claim, WorkerType, VerdictHolds
  <1> QED
    BY <1>2, <1>3, <1>4, <1>5, <1>6, <1>7, <1>8
       DEF Next, Requests, WorkerStep, Command, Enqueue, Approve, Insert, Refuse, Stop,
           Expire, Begin, Succeed, SweepEnds, Drain, Break, CronBegins, CronEnds, vars
-----------------------------------------------------------------------------
(* The steps of the queue as steps of the board.                           *)
Boarded == [Board!Next]_(Board!board)

(* Rows keep what the board shows, and so do the commands.                 *)
LEMMA BoardFrame ==
    ASSUME \A j \in Job : /\ row'[j].status = row[j].status /\ row'[j].kind = row[j].kind
                          /\ row'[j].source = row[j].source /\ row'[j].stop = row[j].stop
                          /\ (cmd'[j] = cmd[j] \/ (cmd'[j] \in Alive /\ cmd[j] \in Alive))
    PROVE  Boarded
  BY DEF Boarded, Board!board, Statuses, KindOf, Sources, Stops, Runs

(* Only the command of j changes, and ends.                                *)
LEMMA BoardEnd ==
    ASSUME TypeOK, UNCHANGED row, NEW j \in Job, cmd[j] \in Alive, cmd'[j] \in {"ok", "bad"},
           \A i \in Job : i # j => cmd'[i] = cmd[i]
    PROVE  Boarded
  <1>1. Board!End(j)
    BY DEF Board!End, Alive, Statuses, KindOf, Sources, Stops, Runs
  <1> QED BY <1>1 DEF Boarded, Board!Next

LEMMA BoardCommand ==
    ASSUME TypeOK, QueueInv, NEW j \in Job, Command(j)
    PROVE  Boarded
  <1>1. /\ cmd[j] \in Alive /\ UNCHANGED row
        /\ \E c \in {"running", "ok", "bad"} : cmd' = [cmd EXCEPT ![j] = c]
    BY DEF Command, Begin, Succeed, SweepEnds, Drain, Break, Alive
  <1>2. PICK c \in {"running", "ok", "bad"} : cmd' = [cmd EXCEPT ![j] = c]
    BY <1>1
  <1>3. cmd'[j] = c /\ \A i \in Job : i # j => cmd'[i] = cmd[i]
    BY <1>2 DEF TypeOK
  <1>4. CASE c = "running"
    <2>1. \A i \in Job : /\ row'[i] = row[i]
                         /\ (cmd'[i] = cmd[i] \/ (cmd'[i] \in Alive /\ cmd[i] \in Alive))
      BY <1>1, <1>3, <1>4 DEF Alive
    <2>2. \A i \in Job : /\ row'[i].status = row[i].status /\ row'[i].kind = row[i].kind
                         /\ row'[i].source = row[i].source /\ row'[i].stop = row[i].stop
                         /\ (cmd'[i] = cmd[i] \/ (cmd'[i] \in Alive /\ cmd[i] \in Alive))
      BY <2>1
    <2> QED BY <2>2, BoardFrame
  <1>5. CASE c # "running"
    BY <1>1, <1>3, <1>5, BoardEnd
  <1> QED BY <1>4, <1>5

LEMMA BoardInsert ==
    ASSUME TypeOK, QueueInv, BoardKnown, NEW a \in Admin, Insert(a)
    PROVE  Boarded
  <1>1. PICK j \in Job :
          /\ row[j].status = "absent"
          /\ row' = [row EXCEPT ![j].status = "queued", ![j].kind = form[a].kind,
                                ![j].source = form[a].source]
    BY DEF Insert
  <1>0. PICK k \in Kind, s \in Job \cup {None} : k = form[a].kind /\ s = form[a].source
    BY DEF Insert, TypeOK, FormType
  <1>2. row[j] \in RowType
    BY DEF TypeOK
  <1>3. /\ row'[j].status = "queued" /\ row'[j].kind = k /\ row'[j].source = s
        /\ row'[j].stop = row[j].stop /\ \A i \in Job : i # j => row'[i] = row[i]
    BY <1>0, <1>1, <1>2 DEF TypeOK, RowType
  <1>4. UNCHANGED cmd /\ Unique(form[a]) /\ form[a] # None
    BY DEF Insert
  <1>5. IF k \in Board!Write
        THEN /\ s \in Job /\ row[s].status = "completed" /\ row[s].kind = Approval[k]
             /\ \A i \in Job : row[i].source # s
        ELSE s = None
    <2>1. CASE k \in Write
      <3>1. s \in Job /\ row[s].status = "completed" /\ row[s].kind = Approval[k]
        BY <1>0, <1>4, <2>1 DEF BoardKnown, FormsApproved
      <3>2. \A i \in Job : row[i].source # s
        BY <1>0, <1>4, <3>1, NoneAssumption DEF Unique, Unapproved, QueueInv, AbsentUnapproved
      <3> QED BY <2>1, <3>1, <3>2 DEF Write, Board!Write
    <2>2. CASE k \notin Write
      BY <1>0, <1>4, <2>2 DEF BoardKnown, FormsApproved, Write, Board!Write
    <2> QED BY <2>1, <2>2
  <1>6. \A i \in Job : row[i].status \notin Board!Open
    BY <1>4 DEF Unique, NoOpenJob, Open, Board!Open
  <1>7. k \in Board!Write => Board!Approvable(s, k)
    BY <1>5 DEF Board!Approvable, Statuses, KindOf, Sources
  <1>8. Board!Ask(j, k, s)
    <2>1. \A i \in Job : /\ row'[i].status = IF i = j THEN "queued" ELSE row[i].status
                         /\ row'[i].kind = IF i = j THEN k ELSE row[i].kind
                         /\ row'[i].source = IF i = j THEN s ELSE row[i].source
                         /\ row'[i].stop = row[i].stop
      BY <1>3
    <2>2. Statuses' = [Statuses EXCEPT ![j] = "queued"]
      BY <2>1 DEF Statuses
    <2>3. KindOf' = [KindOf EXCEPT ![j] = k]
      BY <2>1 DEF KindOf
    <2>4. Sources' = [Sources EXCEPT ![j] = s]
      BY <2>1 DEF Sources
    <2>5. UNCHANGED <<Stops, cmd>>
      BY <1>4, <2>1 DEF Stops
    <2>6. /\ Statuses[j] = "absent"
          /\ \A i \in Job : Statuses[i] \notin Board!Open
          /\ IF k \in Board!Write THEN Board!Approvable(s, k) ELSE s = None
      BY <1>1, <1>5, <1>6, <1>7 DEF Statuses
    <2>7. UNCHANGED Runs
      BY <2>5 DEF Runs
    <2> QED BY <2>2, <2>3, <2>4, <2>5, <2>6, <2>7 DEF Board!Ask
  <1> QED BY <1>8 DEF Boarded, Board!Next

(* What Stop, Claim, Recover and Finish do to the board: the status of one *)
(* job changes, and only Stop sets stop.                                   *)
Restated(j, v) ==
    /\ row'[j].status = v
    /\ row'[j].kind = row[j].kind /\ row'[j].source = row[j].source
    /\ \A i \in Job : i # j =>
          /\ row'[i].status = row[i].status /\ row'[i].kind = row[i].kind
          /\ row'[i].source = row[i].source /\ row'[i].stop = row[i].stop
    /\ UNCHANGED cmd

LEMMA BoardStop ==
    ASSUME TypeOK, NEW j \in Job, Stop(j)
    PROVE  Boarded
  <1> DEFINE v == IF row[j].status = "queued" THEN "cancelled" ELSE "running"
  <1>1. row[j] \in RowType /\ row[j].kind = FullRun /\ row[j].status \in Board!Open
    BY DEF TypeOK, Stop, Open, Board!Open
  <1>2. Restated(j, v) /\ row'[j].stop = TRUE
    BY <1>1 DEF Restated, Stop, TypeOK, RowType
  <1> HIDE DEF v
  <1>3. /\ Statuses' = [Statuses EXCEPT ![j] = v]
        /\ Stops' = [Stops EXCEPT ![j] = TRUE]
        /\ UNCHANGED <<KindOf, Sources, cmd>>
    BY <1>2 DEF Restated, Statuses, KindOf, Sources, Stops
  <1>4. Board!Stop(j)
    BY <1>1, <1>3 DEF Board!Stop, v, Statuses, KindOf, Runs
  <1> QED BY <1>4 DEF Boarded, Board!Next

LEMMA BoardTake ==
    ASSUME TypeOK, NEW j \in Job, Claim(j)
    PROVE  Boarded
  <1>1. row[j] \in RowType /\ row[j].status = "queued"
    BY DEF TypeOK, Claim
  <1>2. Restated(j, "running") /\ row'[j].stop = row[j].stop
    BY <1>1 DEF Restated, Claim, TypeOK, RowType
  <1>3. /\ Statuses' = [Statuses EXCEPT ![j] = "running"]
        /\ UNCHANGED <<KindOf, Sources, Stops, cmd>>
    BY <1>2 DEF Restated, Statuses, KindOf, Sources, Stops
  <1>4. Board!Take(j)
    BY <1>1, <1>3 DEF Board!Take, Statuses, Runs
  <1> QED BY <1>4 DEF Boarded, Board!Next

LEMMA BoardReport ==
    ASSUME TypeOK, NEW j \in Job, NEW v \in Terminal, row[j].status = "running", cmd[j] \notin Alive,
           Restated(j, v), row'[j].stop = row[j].stop,
           v = "completed" => cmd[j] = "ok", v = "cancelled" => row[j].stop
    PROVE  Boarded
  <1>1. /\ Statuses' = [Statuses EXCEPT ![j] = v]
        /\ UNCHANGED <<KindOf, Sources, Stops, cmd>>
    BY DEF Restated, Statuses, KindOf, Sources, Stops
  <1>2. cmd[j] # "alive"
    BY DEF TypeOK, Alive
  <1>3. Board!Report(j, v)
    BY <1>1, <1>2 DEF Board!Report, Statuses, Stops, Runs
  <1> QED BY <1>3 DEF Boarded, Board!Next, Terminal, Board!Terminal

LEMMA BoardLaunch ==
    ASSUME TypeOK, QueueInv, Launch
    PROVE  Boarded
  <1>0. PICK j \in Job : j = worker.job
    BY DEF Launch, QueueInv, WorkerOwnsJob, Busy
  <1>1. /\ row[j].status = "running" /\ cmd[j] = "none" /\ UNCHANGED row
        /\ cmd' = [cmd EXCEPT ![j] = "starting"]
    BY <1>0 DEF Launch, QueueInv, WorkerOwnsJob, CommandOwned, Busy
  <1>2. cmd'[j] = "starting" /\ \A i \in Job : i # j => cmd'[i] = cmd[i]
    BY <1>1 DEF TypeOK
  <1>3. Runs' = [Runs EXCEPT ![j] = "alive"]
    BY <1>2 DEF Alive, Runs
  <1>4. Board!Begin(j)
    BY <1>1, <1>3 DEF Board!Begin, Alive, Statuses, KindOf, Sources, Stops, Runs
  <1> QED BY <1>4 DEF Boarded, Board!Next

LEMMA BoardSignal ==
    ASSUME TypeOK, QueueInv, PassOnStop \/ Kill
    PROVE  Boarded
  <1> DEFINE j == worker.job
  <1>1. j \in Job /\ UNCHANGED row
    BY DEF PassOnStop, Kill, QueueInv, WorkerOwnsJob, Busy
  <1>2. PICK c \in {"draining", "bad", cmd[j]} :
          cmd' = [cmd EXCEPT ![j] = c] /\ (c # cmd[j] => cmd[j] \in Alive)
    BY DEF PassOnStop, Kill, Terminated
  <1>3. /\ c = cmd[j] \/ (cmd[j] \in Alive /\ c \in {"draining", "bad"})
        /\ cmd'[j] = c /\ \A i \in Job : i # j => cmd'[i] = cmd[i]
    BY <1>1, <1>2 DEF TypeOK
  <1> HIDE DEF j
  <1>4. CASE c = cmd[j] \/ c = "draining"
    <2>1. \A i \in Job : /\ row'[i].status = row[i].status /\ row'[i].kind = row[i].kind
                         /\ row'[i].source = row[i].source /\ row'[i].stop = row[i].stop
                         /\ (cmd'[i] = cmd[i] \/ (cmd'[i] \in Alive /\ cmd[i] \in Alive))
      BY <1>1, <1>3, <1>4 DEF Alive
    <2> QED BY <2>1, BoardFrame
  <1>5. CASE c # cmd[j] /\ c # "draining"
    BY <1>1, <1>3, <1>5, BoardEnd
  <1> QED BY <1>4, <1>5

(* A reboot ends at most one command, the recovery reports on at most one   *)
(* job.                                                                    *)
LEMMA BoardReboot ==
    ASSUME TypeOK, QueueInv, Reboot
    PROVE  Boarded
  <1>1. UNCHANGED row /\ cmd' = [j \in Job |-> IF cmd[j] \in Alive THEN "bad" ELSE cmd[j]]
    BY DEF Reboot
  <1>2. CASE \A j \in Job : cmd[j] \notin Alive
    <2>1. \A j \in Job : /\ row'[j].status = row[j].status /\ row'[j].kind = row[j].kind
                         /\ row'[j].source = row[j].source /\ row'[j].stop = row[j].stop
                         /\ (cmd'[j] = cmd[j] \/ (cmd'[j] \in Alive /\ cmd[j] \in Alive))
      BY <1>1, <1>2
    <2> QED BY <2>1, BoardFrame
  <1>3. ASSUME NEW j \in Job, cmd[j] \in Alive PROVE Boarded
    <2>1. \A i \in Job : i # j => cmd[i] \notin Alive
      BY <1>3 DEF QueueInv, CommandOwned, OneOpenJob, Open
    <2> QED BY <1>1, <1>3, <2>1, BoardEnd
  <1> QED BY <1>2, <1>3

LEMMA BoardRecover ==
    ASSUME TypeOK, QueueInv, Recover
    PROVE  Boarded
  <1>1. \A j \in Job : row[j] \in RowType
    BY DEF TypeOK
  <1>2. /\ \A j \in Job : /\ row'[j].status = IF row[j].status = "running" THEN "failed"
                                              ELSE row[j].status
                         /\ row'[j].kind = row[j].kind /\ row'[j].source = row[j].source
                         /\ row'[j].stop = row[j].stop
        /\ UNCHANGED cmd /\ worker.pc = "recover"
    BY <1>1 DEF Recover, RowType
  <1>3. CASE \A j \in Job : row[j].status # "running"
    BY <1>2, <1>3, BoardFrame
  <1>4. ASSUME NEW j \in Job, row[j].status = "running" PROVE Boarded
    <2>1. \A i \in Job : i # j => row[i].status # "running"
      BY <1>4 DEF QueueInv, OneOpenJob, Open
    <2>2. Restated(j, "failed")
      BY <1>2, <1>4, <2>1 DEF Restated
    <2>3. cmd[j] \notin Alive
      BY <1>2, NoCommand
    <2> QED BY <1>2, <1>4, <2>2, <2>3, BoardReport DEF Terminal
  <1> QED BY <1>3, <1>4

LEMMA BoardFinish ==
    ASSUME TypeOK, QueueInv, BoardKnown, Finish
    PROVE  Boarded
  <1> DEFINE j == worker.job
             v == worker.verdict
  <1>1. /\ j \in Job /\ row[j].status = "running" /\ row[j] \in RowType
        /\ v \in Terminal /\ worker.pc = "finish"
    BY DEF Finish, QueueInv, WorkerOwnsJob, Busy, TypeOK, WorkerType
  <1>2. cmd[j] \notin Alive
    BY <1>1, NoCommand
  <1>3. Restated(j, v) /\ row'[j].stop = row[j].stop
    BY <1>1 DEF Restated, Finish, TypeOK, RowType
  <1>4. (v = "completed" => cmd[j] = "ok") /\ (v = "cancelled" => row[j].stop)
    BY <1>1 DEF BoardKnown, VerdictHolds
  <1> QED BY <1>1, <1>2, <1>3, <1>4, BoardReport

LEMMA BoardExpire ==
    ASSUME TypeOK, NEW j \in Job, Expire(j)
    PROVE  Boarded
  <1>1. row[j] \in RowType
    BY DEF TypeOK
  <1>2. \A i \in Job : /\ row'[i].status = row[i].status /\ row'[i].kind = row[i].kind
                       /\ row'[i].source = row[i].source /\ row'[i].stop = row[i].stop
                       /\ (cmd'[i] = cmd[i] \/ (cmd'[i] \in Alive /\ cmd[i] \in Alive))
    BY <1>1 DEF Expire, TypeOK, RowType
  <1> QED BY <1>2, BoardFrame

LEMMA NextBoarded ==
    ASSUME TypeOK, QueueInv, BoardKnown, [Next]_vars
    PROVE  Boarded
  <1>1. CASE UNCHANGED <<row, cmd>>
    BY <1>1, BoardFrame
  <1> QED
    BY <1>1, BoardCommand, BoardInsert, BoardStop, BoardTake, BoardLaunch, BoardSignal,
       BoardReboot, BoardRecover, BoardFinish, BoardExpire
       DEF Next, Requests, WorkerStep, Enqueue, Approve, Refuse, Start, NothingQueued,
           Prepare, GiveUp, Interrupt, Reap, Judge, Crash, CronBegins, CronEnds, vars

(* However requests, worker, crashes and commands interleave, they act on  *)
(* one board: a write only runs on a preview of its own that ran to its    *)
(* end, and what a row says of its command is true.                        *)
THEOREM QueueIsABoard == Spec => OneBoard
  <1>1. Init => BoardKnown /\ Board!Init
    <2> SUFFICES ASSUME Init PROVE BoardKnown /\ Board!Init
      OBVIOUS
    <2>1. BoardKnown
      BY DEF Init, BoardKnown, FormsApproved, VerdictHolds, Off
    <2>2. Board!Init
      BY DEF Init, Board!Init, Kind, Preview, Alive,
             Statuses, KindOf, Sources, Stops, Runs
    <2> QED BY <2>1, <2>2
  <1>2. TypeOK /\ QueueInv /\ BoardKnown /\ [Next]_vars => BoardKnown'
    BY FormsKeep, VerdictKeeps DEF BoardKnown
  <1>3. TypeOK /\ QueueInv /\ BoardKnown /\ [Next]_vars => [Board!Next]_(Board!board)
    BY NextBoarded DEF Boarded
  <1> QED BY <1>1, <1>2, <1>3, Invariant, PTL DEF Spec, OneBoard, Board!Spec

(* So the page can be relied on: a row shown as completed had a command    *)
(* that succeeded, and every write a preview of its own that did.          *)
THEOREM RowsAreTrue == Spec => []Board!Consistent
  BY QueueIsABoard, BoardConsistent, PTL DEF OneBoard

(* The host starts the command of a write only when the preview that was   *)
(* approved for it, and for no other write, is of the right kind and its   *)
(* command has succeeded; and this stays so whatever crashes.              *)
THEOREM WritesArePreviewed == Spec => []WritesPreviewed
  <1>1. ASSUME QueueInv, Board!Consistent PROVE WritesPreviewed
    <2> SUFFICES ASSUME NEW j \in Job, cmd[j] # "none", row[j].kind \in Write
                 PROVE  /\ row[j].source \in Job
                        /\ row[row[j].source].kind = Approval[row[j].kind]
                        /\ cmd[row[j].source] = "ok"
                        /\ \A i \in Job \ {j} : row[i].source # row[j].source
      BY DEF WritesPreviewed
    <2>1. Statuses[j] # "absent" /\ KindOf[j] \in Board!Write
      BY <1>1 DEF QueueInv, CommandOwned, Statuses, KindOf, Write, Board!Write
    <2>2. /\ Sources[j] \in Job /\ KindOf[Sources[j]] = Approval[KindOf[j]]
          /\ Runs[Sources[j]] = "ok" /\ \A i \in Job \ {j} : Sources[i] # Sources[j]
      BY <1>1, <2>1 DEF Board!Consistent
    <2>3. /\ row[j].source \in Job /\ row[row[j].source].kind = Approval[row[j].kind]
          /\ \A i \in Job \ {j} : row[i].source # row[j].source
          /\ Runs[row[j].source] = "ok"
      BY <2>2 DEF Sources, KindOf
    <2> QED BY <2>3 DEF Runs
  <1>2. QueueInv /\ Board!Consistent => WritesPreviewed
    BY <1>1
  <1> QED BY <1>2, Invariant, RowsAreTrue, PTL
=============================================================================

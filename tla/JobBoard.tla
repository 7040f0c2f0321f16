------------------------------- MODULE JobBoard -------------------------------
(***************************************************************************)
(* What the maintenance page shows an administrator, and may be relied on: *)
(* one job at a time, every write on a preview that ran to its end and     *)
(* that no other write was approved on, a result that says what the        *)
(* command of the job did.  Module MaintenanceQueue is shown to implement  *)
(* this one, with its SELECTs apart from its INSERTs, its worker that      *)
(* crashes and its commands that outlive the worker.                       *)
(***************************************************************************)
CONSTANTS Job, Kind, None,
          FullRun,    \* the one kind of job that can be stopped
          Approval    \* the kind of preview that a kind of write is approved on

VARIABLES status, kind, source, stop,
          run         \* the command of a job: "none", "alive", "ok" or "bad"

board == <<status, kind, source, stop, run>>

Write    == DOMAIN Approval
Open     == {"queued", "running"}
Terminal == {"completed", "failed", "cancelled"}

(* What is proved of this module, in MaintenanceQueueProofs, assumes this. *)
BoardConstants ==
    /\ None \notin Job
    /\ FullRun \in Kind \ Write
    /\ Approval \in [Write -> Kind]

Init ==
    /\ status = [j \in Job |-> "absent"]
    /\ kind \in [Job -> Kind]
    /\ source = [j \in Job |-> None]
    /\ stop = [j \in Job |-> FALSE]
    /\ run = [j \in Job |-> "none"]

(* s may be approved for a write of kind k.                                *)
Approvable(s, k) ==
    /\ s \in Job
    /\ status[s] = "completed"
    /\ kind[s] = Approval[k]
    /\ \A i \in Job : source[i] # s

Ask(j, k, s) ==
    /\ status[j] = "absent"
    /\ \A i \in Job : status[i] \notin Open
    /\ IF k \in Write THEN Approvable(s, k) ELSE s = None
    /\ status' = [status EXCEPT ![j] = "queued"]
    /\ kind' = [kind EXCEPT ![j] = k]
    /\ source' = [source EXCEPT ![j] = s]
    /\ UNCHANGED <<stop, run>>

Stop(j) ==
    /\ kind[j] = FullRun
    /\ status[j] \in Open
    /\ status' = [status EXCEPT ![j] = IF status[j] = "queued" THEN "cancelled" ELSE "running"]
    /\ stop' = [stop EXCEPT ![j] = TRUE]
    /\ UNCHANGED <<kind, source, run>>

Take(j) ==
    /\ status[j] = "queued"
    /\ status' = [status EXCEPT ![j] = "running"]
    /\ UNCHANGED <<kind, source, stop, run>>

(* The command starts once, and while the job is shown as running.         *)
Begin(j) ==
    /\ status[j] = "running"
    /\ run[j] = "none"
    /\ run' = [run EXCEPT ![j] = "alive"]
    /\ UNCHANGED <<status, kind, source, stop>>

End(j) ==
    /\ run[j] = "alive"
    /\ \E v \in {"ok", "bad"} : run' = [run EXCEPT ![j] = v]
    /\ UNCHANGED <<status, kind, source, stop>>

(* Nothing is reported while the command lives, no success that it did not *)
(* have, and no cancellation that nobody asked for.                        *)
Report(j, v) ==
    /\ status[j] = "running"
    /\ run[j] # "alive"
    /\ v = "completed" => run[j] = "ok"
    /\ v = "cancelled" => stop[j]
    /\ status' = [status EXCEPT ![j] = v]
    /\ UNCHANGED <<kind, source, stop, run>>

Next ==
    \E j \in Job :
        \/ \E k \in Kind, s \in Job \cup {None} : Ask(j, k, s)
        \/ \E v \in Terminal : Report(j, v)
        \/ Stop(j) \/ Take(j) \/ Begin(j) \/ End(j)

Spec == Init /\ [][Next]_board
-----------------------------------------------------------------------------
BoardType ==
    /\ status \in [Job -> {"absent"} \cup Open \cup Terminal]
    /\ kind \in [Job -> Kind]
    /\ source \in [Job -> Job \cup {None}]
    /\ stop \in [Job -> BOOLEAN]
    /\ run \in [Job -> {"none", "alive", "ok", "bad"}]

(* One job is open and only its command lives; what is shown as completed  *)
(* was; every write has a preview of its own whose command succeeded.      *)
Consistent ==
    /\ \A i, j \in Job : status[i] \in Open /\ status[j] \in Open => i = j
    /\ \A j \in Job :
          /\ run[j] = "alive" => status[j] = "running"
          /\ status[j] = "completed" => run[j] = "ok"
          /\ status[j] = "cancelled" => stop[j] /\ kind[j] = FullRun
          /\ status[j] \in {"absent", "queued"} => run[j] = "none"
    /\ \A j \in Job : status[j] # "absent" /\ kind[j] \in Write =>
          /\ source[j] \in Job /\ kind[source[j]] = Approval[kind[j]]
          /\ status[source[j]] = "completed" /\ run[source[j]] = "ok"
          /\ \A i \in Job \ {j} : source[i] # source[j]

BoardInv ==
    /\ BoardType /\ Consistent
    /\ \A j \in Job : stop[j] => kind[j] = FullRun /\ status[j] # "absent"
    /\ \A j \in Job : source[j] # None => status[j] # "absent" /\ kind[j] \in Write
=============================================================================

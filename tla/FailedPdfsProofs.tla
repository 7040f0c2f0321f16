-------------------------- MODULE FailedPdfsProofs --------------------------
(***************************************************************************)
(* Proofs about module FailedPdfs, for any library, any files, any number   *)
(* of workers and uploads, and any number of programs, crashes and stops:   *)
(* a prune deletes only rows that were not repaired and whose last error is *)
(* on its list; and every article keeps its object, unless its bytes are on *)
(* the receipt of a prune.                                                  *)
(*                                                                          *)
(* Base is inductive for any constants.  It ties every task to the row that *)
(* was fetched for it, the program that runs to its receipt, and the window *)
(* of the log to the counter.  Kept, inductive next to it, is about the     *)
(* time between a COMMIT and the unlink of the old object: it needs         *)
(* NormalDois, SeedsAgree and RepairedOnce.                                 *)
(*                                                                          *)
(* Change states once which actions write which variable.                   *)
(***************************************************************************)
EXTENDS FailedPdfs, SequenceTheorems, TLAPS

HostType == [program: Programs,
             pc: {"off", "page", "loop", "end", "prepared", "deleted", "clean"},
             cursor: Nat, max: Nat, good: Nat, stop: BOOLEAN, rows: SUBSET Entry]
TaskType == [stage: Stages, sha: Hash \cup {None}, doi: Doi \cup {None}, kind: Kinds]
UploadType == [pc: {"idle", "stored"}, sha: Hash \cup {None}, staged: BOOLEAN]

Typed ==
    /\ TypeOK
    /\ host \in HostType /\ task \in [Pdf -> TaskType] /\ upload \in [Request -> UploadType]

(* No task is left when no repair runs.                                     *)
HostOK ==
    /\ host.pc = "off" => host = Off
    /\ host.pc \in {"off", "prepared", "deleted", "clean"} => task = NoTasks

LogOK ==
    /\ \A p, q \in At({"logged"}) : p = q
    /\ At({"logged"}) # {} => state.failed < Len(log)

ReceiptsOK ==
    /\ \A r \in receipts : \A e \in r.rows : row[e.id].state # "none"
    /\ host.pc \in {"prepared", "deleted", "clean"} => \E r \in receipts : r.rows = host.rows
    /\ host.pc \in {"deleted", "clean"} => \A e \in host.rows : row[e.id].state = "pruned"

Failed(p) == LastError(p) # 0 /\ (log[LastError(p)].kind # "other" \/ p \in FirstDoi)

Chosen == host.pc = "prepared" => \A e \in host.rows : Failed(e.id)

RowsOK ==
    /\ \A p \in Pdf : Exists(p) => row[p].sha \in Hash /\ row[p].doi \in Doi
    /\ \A p, q \in Pdf : Exists(p) /\ Exists(q) /\ row[p].sha = row[q].sha => p = q

(* Until its COMMIT the row of a task is the one that was fetched.          *)
Taken   == {"queued", "busy", "fix", "optimize", "mark", "replace", "linked"}
Certain == {"optimize", "mark", "replace", "linked"}

TaskOK(p) ==
    /\ task[p].stage \in Taken =>
          /\ Exists(p) /\ ~Repaired(p)
          /\ row[p].sha = task[p].sha /\ row[p].doi = task[p].doi
    /\ task[p].stage = "fix" =>
          /\ task[p].doi \notin Registered
          /\ Stripped[task[p].doi] # None /\ Recoverable(task[p].sha, task[p].doi)
    /\ task[p].stage \in Certain => task[p].doi \in Registered
    /\ task[p].stage \in {"replace", "linked"} => NewSha(p) # task[p].sha
    /\ task[p].stage = "committed" =>
          /\ task[p].sha \in Hash /\ NewSha(p) # task[p].sha
          /\ Exists(p) /\ Repaired(p)
TasksOK == \A p \in Pdf : TaskOK(p)

UploadsKnown == \A r \in Request : upload[r].pc = "stored" => upload[r].sha \in Hash

Base == /\ Typed /\ HostOK /\ LogOK /\ ReceiptsOK /\ Chosen
        /\ RowsOK /\ TasksOK /\ UploadsKnown

(* Under NormalDois, SeedsAgree and RepairedOnce.                           *)
RowsAgree ==
    \A p \in Pdf : Exists(p) /\ ~Repaired(p) => Agrees(row[p].sha, row[p].doi)

SourceOK(p) ==
    /\ task[p].stage = "linked" => NewSha(p) \in objects
    /\ task[p].stage = "committed" =>
          /\ row[p].doi = DoiOf[task[p].sha]
          /\ \A q \in Pdf : Exists(q) => row[q].sha # task[p].sha
SourcesOK == \A p \in Pdf : SourceOK(p)

InReceipt(h) == \E x \in receipts : \E e \in x.rows : e.sha = h

UploadOK(r) ==
    upload[r].pc = "stored" =>
        \/ upload[r].staged
        \/ upload[r].sha \in objects
        \/ InReceipt(upload[r].sha)
        \/ \E q \in Pdf : Exists(q) /\ Repaired(q) /\ row[q].doi = DoiOf[upload[r].sha]
UploadsOK == \A r \in Request : UploadOK(r)

Kept == RowsAgree /\ SourcesOK /\ UploadsOK /\ StoredUnlessPruned
-----------------------------------------------------------------------------
(* The actions that change each variable.                                   *)
RowStep ==
    \/ DeleteRows
    \/ \E p \in Pdf : FixDoi(p) \/ Mark(p) \/ Commit(p) \/ SoftDelete(p)
    \/ \E r \in Request : Store(r)
AliasStep ==
    DeleteRows \/ (\E p \in Pdf : Commit(p)) \/ (\E r \in Request : Store(r))
ObjectStep ==
    \/ \E p \in Pdf : Publish(p) \/ UnlinkSource(p)
    \/ \E e \in host.rows : Unlink(e)
    \/ \E r \in Request : Store(r)
LogStep     == \E p \in Pdf : LogError(p)
StateStep   == EndRepair \/ \E p \in Pdf : Collect(p)
ReceiptStep == (\E kind \in {"prune", "prune-doi"} : Prepare(kind)) \/ RecordCommit \/ FinishPrune
HostStep ==
    \/ \E kind \in {"repair", "pilot"} : StartRepair(kind)
    \/ Fetch \/ LeaveLoop \/ Drained \/ EndRepair \/ \E p \in Pdf : Collect(p)
    \/ \E kind \in {"prune", "prune-doi"} : Prepare(kind)
    \/ Resume \/ DeleteRows \/ Refuse \/ RecordCommit \/ FinishPrune
    \/ RequestStop \/ Crash
TaskStep ==
    \/ Fetch \/ EndRepair \/ Crash
    \/ \E p \in Pdf : Submit(p) \/ LogError(p) \/ Collect(p) \/ Worker(p) \/ Trip(p)
UploadStep ==
    \E r \in Request : Store(r) \/ \E h \in Hash : Receive(r, h)

Change ==
    /\ RowStep \/ UNCHANGED row
    /\ AliasStep \/ UNCHANGED alias
    /\ ObjectStep \/ UNCHANGED objects
    /\ LogStep \/ UNCHANGED log
    /\ StateStep \/ UNCHANGED state
    /\ ReceiptStep \/ UNCHANGED receipts
    /\ HostStep \/ UNCHANGED host
    /\ TaskStep \/ UNCHANGED task
    /\ UploadStep \/ UNCHANGED upload

LEMMA Changes == ASSUME Next PROVE Change
<1>1. CASE StartRepair("repair")
  BY <1>1 DEF Change, StartRepair, library, files, bounds, HostStep
<1>2. CASE StartRepair("pilot")
  BY <1>2 DEF Change, StartRepair, library, files, bounds, HostStep
<1>3. CASE Fetch
  BY <1>3 DEF Change, Fetch, library, files, bounds, HostStep, TaskStep
<1>4. CASE LeaveLoop
  BY <1>4 DEF Change, LeaveLoop, library, files, bounds, HostStep
<1>5. CASE Drained
  BY <1>5 DEF Change, Drained, library, files, bounds, HostStep
<1>6. CASE EndRepair
  BY <1>6 DEF Change, EndRepair, library, files, bounds, StateStep, HostStep, TaskStep
<1>7. ASSUME NEW p \in Pdf, Submit(p) PROVE Change
  BY <1>7 DEF Change, Submit, library, files, bounds, TaskStep
<1>8. ASSUME NEW p \in Pdf, LogError(p) PROVE Change
  BY <1>8 DEF Change, LogError, library, files, bounds, LogStep, TaskStep
<1>9. ASSUME NEW p \in Pdf, Collect(p) PROVE Change
  BY <1>9 DEF Change, Collect, library, files, bounds, StateStep, HostStep, TaskStep
<1>10. ASSUME NEW p \in Pdf, Examine(p) PROVE Change
  BY <1>10 DEF Change, Examine, library, files, bounds, TaskStep, Worker
<1>11. ASSUME NEW p \in Pdf, FixDoi(p) PROVE Change
  BY <1>11 DEF Change, FixDoi, library, files, bounds, RowStep, TaskStep, Worker
<1>12. ASSUME NEW p \in Pdf, Optimize(p) PROVE Change
  BY <1>12 DEF Change, Optimize, library, files, bounds, TaskStep, Worker
<1>13. ASSUME NEW p \in Pdf, Mark(p) PROVE Change
  BY <1>13 DEF Change, Mark, library, files, bounds, RowStep, TaskStep, Worker
<1>14. ASSUME NEW p \in Pdf, Publish(p) PROVE Change
  BY <1>14 DEF Change, Publish, library, files, bounds, ObjectStep, TaskStep, Worker
<1>15. ASSUME NEW p \in Pdf, Commit(p) PROVE Change
  BY <1>15 DEF Change, Commit, library, files, bounds, RowStep, AliasStep, TaskStep, Worker
<1>16. ASSUME NEW p \in Pdf, UnlinkSource(p) PROVE Change
  BY <1>16 DEF Change, UnlinkSource, library, files, bounds, ObjectStep, TaskStep, Worker
<1>17. ASSUME NEW p \in Pdf, Trip(p) PROVE Change
  BY <1>17 DEF Change, Trip, library, files, bounds, TaskStep
<1>18. CASE Prepare("prune")
  BY <1>18 DEF Change, Prepare, library, files, bounds, ReceiptStep, HostStep
<1>19. CASE Prepare("prune-doi")
  BY <1>19 DEF Change, Prepare, library, files, bounds, ReceiptStep, HostStep
<1>20. CASE Resume
  BY <1>20 DEF Change, Resume, library, files, bounds, HostStep
<1>21. CASE DeleteRows
  BY <1>21 DEF Change, DeleteRows, library, files, bounds, RowStep, AliasStep, HostStep
<1>22. CASE Refuse
  BY <1>22 DEF Change, Refuse, library, files, bounds, HostStep
<1>23. CASE RecordCommit
  BY <1>23 DEF Change, RecordCommit, library, files, bounds, ReceiptStep, HostStep
<1>24. CASE FinishPrune
  BY <1>24 DEF Change, FinishPrune, library, files, bounds, ReceiptStep, HostStep
<1>25. ASSUME NEW e \in host.rows, Unlink(e) PROVE Change
  BY <1>25 DEF Change, Unlink, library, files, bounds, ObjectStep
<1>26. CASE RequestStop
  BY <1>26 DEF Change, RequestStop, library, files, bounds, HostStep
<1>27. CASE Crash
  BY <1>27 DEF Change, Crash, library, files, bounds, HostStep, TaskStep
<1>28. ASSUME NEW r \in Request, Store(r) PROVE Change
  BY <1>28 DEF Change, Store, library, files, bounds, RowStep, AliasStep, ObjectStep, UploadStep
<1>29. ASSUME NEW r \in Request, NEW h \in Hash, Receive(r, h) PROVE Change
  BY <1>29 DEF Change, Receive, library, files, bounds, UploadStep
<1>30. ASSUME NEW p \in Pdf, SoftDelete(p) PROVE Change
  BY <1>30 DEF Change, SoftDelete, library, files, bounds, RowStep
<1>. QED
BY <1>1, <1>2, <1>3, <1>4, <1>5, <1>6, <1>7, <1>8, <1>9, <1>10, <1>11, <1>12, <1>13, <1>14,
     <1>15, <1>16, <1>17, <1>18, <1>19, <1>20, <1>21, <1>22, <1>23, <1>24, <1>25, <1>26, <1>27,
     <1>28, <1>29, <1>30 DEF Next, Main, Worker, Pruning, Library

(* What each action does to its task.                                       *)
TaskEdit(p, q) ==
    \/ task'[q] = task[q]
    \/ /\ q = p
       /\ \/ \E st \in Stages : task'[q] = [task[q] EXCEPT !.stage = st]
          \/ \E k \in Kinds : task'[q] = [task[q] EXCEPT !.stage = "failed", !.kind = k]
          \/ /\ FixDoi(p)
             /\ task'[q] = [task[q] EXCEPT !.stage = "optimize", !.doi = Stripped[task[q].doi]]
-----------------------------------------------------------------------------
(* The types of the library and of the files.                               *)

LEMMA RowEdits ==
    ASSUME NEW t \in RowType
    PROVE  /\ \A x \in {"active", "deleted", "pruned"} : [t EXCEPT !.state = x] \in RowType
           /\ \A d \in Doi \cup {None} : [t EXCEPT !.doi = d] \in RowType
           /\ \A h \in Hash : [t EXCEPT !.done = h] \in RowType
           /\ \A h \in Hash : [t EXCEPT !.sha = h, !.done = h] \in RowType
<1>1. /\ DOMAIN t = {"state", "sha", "doi", "done"}
      /\ t = [state |-> t.state, sha |-> t.sha, doi |-> t.doi, done |-> t.done]
      /\ t.state \in {"none", "active", "deleted", "pruned"}
      /\ t.sha \in Hash \cup {None} /\ t.doi \in Doi \cup {None} /\ t.done \in Hash \cup {None}
  BY DEF RowType
<1>. QED BY <1>1 DEF RowType

LEMMA RowTyped ==
    ASSUME Base, RowStep
    PROVE  row' \in [Pdf -> RowType]
<1>1. row \in [Pdf -> RowType]
  BY DEF Base, Typed, TypeOK
<1>2. CASE DeleteRows
  <2>1. \A p \in Pdf : [row[p] EXCEPT !.state = "pruned"] \in RowType
    BY <1>1, RowEdits
  <2>. QED BY <1>1, <1>2, <2>1 DEF DeleteRows
<1>3. ASSUME NEW p \in Pdf, FixDoi(p) PROVE row' \in [Pdf -> RowType]
  <2>1. task[p].doi \in Doi
    BY <1>3 DEF FixDoi, Base, TasksOK, TaskOK, Taken, RowsOK
  <2>2. Stripped[task[p].doi] \in Doi \cup {None}
    BY <2>1, FileAssumption DEF FileAssumption
  <2>3. [row[p] EXCEPT !.doi = Stripped[task[p].doi]] \in RowType
    BY <1>1, <2>2, RowEdits
  <2>. QED BY <1>1, <1>3, <2>3 DEF FixDoi
<1>4. ASSUME NEW p \in Pdf, Mark(p) PROVE row' \in [Pdf -> RowType]
  <2>1. task[p].sha \in Hash
    BY <1>4 DEF Mark, Base, TasksOK, TaskOK, Taken, RowsOK
  <2>2. [row[p] EXCEPT !.done = task[p].sha] \in RowType
    BY <1>1, <2>1, RowEdits
  <2>. QED BY <1>1, <1>4, <2>2 DEF Mark
<1>5. ASSUME NEW p \in Pdf, Commit(p) PROVE row' \in [Pdf -> RowType]
  <2>1. task[p].sha \in Hash
    BY <1>5 DEF Commit, Base, TasksOK, TaskOK, Taken, RowsOK
  <2>2. NewSha(p) \in Hash
    BY <2>1, FileAssumption DEF FileAssumption, NewSha
  <2>3. [row[p] EXCEPT !.sha = NewSha(p), !.done = NewSha(p)] \in RowType
    BY <1>1, <2>2, RowEdits
  <2>. QED BY <1>1, <1>5, <2>3 DEF Commit
<1>6. ASSUME NEW p \in Pdf, SoftDelete(p) PROVE row' \in [Pdf -> RowType]
  <2>1. [row[p] EXCEPT !.state = "deleted"] \in RowType
    BY <1>1, RowEdits
  <2>. QED BY <1>1, <1>6, <2>1 DEF SoftDelete
<1>7. ASSUME NEW r \in Request, Store(r) PROVE row' \in [Pdf -> RowType]
  <2>1. upload[r].sha \in Hash /\ DoiOf[upload[r].sha] \in Doi
    BY <1>7, FileAssumption DEF Store, Base, UploadsKnown, FileAssumption
  <2>. DEFINE h == upload[r].sha
  <2>2. \/ UNCHANGED row
        \/ \E p \in Pdf : row' = [row EXCEPT ![p].state = "active"]
        \/ \E p \in Pdf : row' = [row EXCEPT ![p] = [state |-> "active", sha |-> h,
                                                      doi |-> DoiOf[h], done |-> None]]
    BY <1>7 DEF Store, library
  <2>. HIDE DEF h
  <2>3. h \in Hash /\ DoiOf[h] \in Doi
    BY <2>1 DEF h
  <2>4. [state |-> "active", sha |-> h, doi |-> DoiOf[h], done |-> None] \in RowType
    BY <2>3 DEF RowType
  <2>5. \A p \in Pdf : [row[p] EXCEPT !.state = "active"] \in RowType
    BY <1>1, RowEdits
  <2>. QED BY <1>1, <2>2, <2>4, <2>5
<1>. QED
  BY <1>2, <1>3, <1>4, <1>5, <1>6, <1>7 DEF RowStep

LEMMA LibraryTyped ==
    ASSUME Base, Change
    PROVE  /\ row' \in [Pdf -> RowType]
           /\ alias' \in [Hash -> Pdf \cup {None}]
           /\ objects' \subseteq Hash
<1>1. row' \in [Pdf -> RowType]
  BY RowTyped DEF Change, Base, Typed, TypeOK
<1>2. alias' \in [Hash -> Pdf \cup {None}]
  <2>1. alias \in [Hash -> Pdf \cup {None}]
    BY DEF Base, Typed, TypeOK
  <2>2. CASE DeleteRows
    BY <2>1, <2>2 DEF DeleteRows
  <2>3. ASSUME NEW p \in Pdf, Commit(p) PROVE alias' \in [Hash -> Pdf \cup {None}]
    <3>1. \/ UNCHANGED alias
          \/ alias' = [alias EXCEPT ![NewSha(p)] = IF alias[NewSha(p)] = p THEN None
                                                  ELSE alias[NewSha(p)]]
      BY <2>3 DEF Commit
    <3>2. NewSha(p) \in Hash => alias[NewSha(p)] \in Pdf \cup {None}
      BY <2>1
    <3>. QED BY <2>1, <3>1, <3>2
  <2>4. ASSUME NEW r \in Request, Store(r) PROVE alias' \in [Hash -> Pdf \cup {None}]
    <3>1. \/ UNCHANGED alias
          \/ \E p \in Pdf : alias' = [alias EXCEPT ![upload[r].sha] = p]
      BY <2>4 DEF Store, library
    <3>2. ASSUME NEW p \in Pdf, alias' = [alias EXCEPT ![upload[r].sha] = p]
          PROVE  alias' \in [Hash -> Pdf \cup {None}]
      BY <2>1, <3>2
    <3>. QED BY <2>1, <3>1, <3>2
  <2>. QED BY <2>1, <2>2, <2>3, <2>4 DEF Change, AliasStep
<1>3. objects' \subseteq Hash
  <2>1. objects \subseteq Hash
    BY DEF Base, Typed, TypeOK
  <2>2. ASSUME NEW p \in Pdf, Publish(p) PROVE objects' \subseteq Hash
    <3>1. task[p].sha \in Hash
      BY <2>2 DEF Publish, Base, TasksOK, TaskOK, Taken, RowsOK
    <3>2. NewSha(p) \in Hash
      BY <3>1, FileAssumption DEF FileAssumption, NewSha
    <3>. QED BY <2>1, <2>2, <3>2 DEF Publish
  <2>3. ASSUME NEW p \in Pdf, UnlinkSource(p) PROVE objects' \subseteq Hash
    BY <2>1, <2>3 DEF UnlinkSource
  <2>4. ASSUME NEW e \in host.rows, Unlink(e) PROVE objects' \subseteq Hash
    BY <2>1, <2>4 DEF Unlink
  <2>5. ASSUME NEW r \in Request, Store(r) PROVE objects' \subseteq Hash
    <3>1. upload[r].sha \in Hash
      BY <2>5 DEF Store, Base, UploadsKnown
    <3>2. objects' \subseteq objects \cup {upload[r].sha}
      BY <2>5 DEF Store, library, Keep
    <3>. QED BY <2>1, <3>1, <3>2
  <2>. QED BY <2>1, <2>2, <2>3, <2>4, <2>5 DEF Change, ObjectStep
<1>. QED BY <1>1, <1>2, <1>3

(* The log only grows, by one line that no other task waits to be counted.  *)
LEMMA FilesTyped ==
    ASSUME Base, Change
    PROVE  /\ log' \in Seq([id: Pdf, kind: Kinds])
           /\ state' \in [failed: 0 .. Len(log'), cursor: Nat]
           /\ LogOK'
<1>1. /\ log \in Seq([id: Pdf, kind: Kinds]) /\ Len(log) \in Nat
      /\ state \in [failed: 0 .. Len(log), cursor: Nat]
      /\ task \in [Pdf -> TaskType] /\ host \in HostType
  BY DEF Base, Typed, TypeOK
<1>2. ASSUME NEW p \in Pdf, LogError(p)
      PROVE  /\ log' \in Seq([id: Pdf, kind: Kinds])
             /\ Len(log') = Len(log) + 1
  <2>1. [id |-> p, kind |-> task[p].kind] \in [id: Pdf, kind: Kinds]
    BY <1>1 DEF TaskType
  <2>. QED BY <1>1, <1>2, <2>1, AppendProperties DEF LogError
<1>3. log' \in Seq([id: Pdf, kind: Kinds]) /\ Len(log') \in Nat /\ Len(log) <= Len(log')
  <2>1. CASE UNCHANGED log
    BY <1>1, <2>1
  <2>2. CASE LogStep
    <3>1. PICK p \in Pdf : LogError(p)
      BY <2>2 DEF LogStep
    <3>2. log' \in Seq([id: Pdf, kind: Kinds]) /\ Len(log') = Len(log) + 1
      BY <1>2, <3>1
    <3>3. Len(log') \in Nat /\ Len(log) <= Len(log')
      BY <1>1, <3>2
    <3>. QED BY <3>2, <3>3
  <2>. QED BY <2>1, <2>2 DEF Change
<1>4. ASSUME NEW p \in Pdf, Collect(p)
      PROVE  /\ state' \in [failed: 0 .. Len(log), cursor: Nat]
             /\ At({"logged"})' = {}
             /\ UNCHANGED log
  <2>1. UNCHANGED log
    BY <1>4 DEF Collect
  <2>2. PICK c \in Pdf \cup {host.cursor} :
             state' = [failed |-> state.failed + IF Counted(p) THEN 1 ELSE 0,
                       cursor |-> IF Sweeping THEN c ELSE state.cursor]
    BY <1>4 DEF Collect
  <2>3. c \in Nat
    BY <1>1, PdfAssumption DEF HostType, PdfAssumption
  <2>4. Counted(p) => state.failed < Len(log)
    BY <1>1 DEF Counted, At, Base, LogOK
  <2>5. state.failed \in 0 .. Len(log) /\ state.cursor \in Nat
    BY <1>1
  <2>6. state.failed + (IF Counted(p) THEN 1 ELSE 0) \in 0 .. Len(log)
    BY <1>1, <2>4, <2>5
  <2>7. At({"logged"})' = {}
    BY <1>1, <1>4 DEF Collect, At, Base, LogOK, TaskType
  <2>. QED BY <2>1, <2>2, <2>3, <2>5, <2>6, <2>7
<1>5. CASE EndRepair
  <2>1. /\ UNCHANGED log /\ At({"logged"})' = {}
        /\ state' \in [failed: 0 .. Len(log), cursor: Nat]
    BY <1>1, <1>5 DEF EndRepair, At, NoTasks, NoTask
  <2>. QED BY <1>3, <2>1 DEF LogOK
<1>6. CASE UNCHANGED state
  <2>1. state' \in [failed: 0 .. Len(log'), cursor: Nat]
    BY <1>1, <1>3, <1>6
  <2>2. ASSUME NEW p \in Pdf, LogError(p) PROVE LogOK'
    <3>1. At({"logged"})' = {p}
      BY <1>1, <2>2 DEF LogError, At, TaskType
    <3>2. state.failed < Len(log')
      BY <1>1, <1>2, <2>2
    <3>. QED BY <1>6, <3>1, <3>2 DEF LogOK
  <2>3. ASSUME ~LogStep PROVE LogOK'
    <3>1. At({"logged"})' \subseteq At({"logged"})
      <4>1. ASSUME NEW p \in Pdf, Submit(p) \/ Collect(p) \/ Worker(p) \/ Trip(p)
            PROVE  At({"logged"})' \subseteq At({"logged"})
        <5>1. \E st \in Stages \ {"logged"} : \E d, k :
                 \/ task' = [task EXCEPT ![p].stage = st]
                 \/ task' = [task EXCEPT ![p].stage = st, ![p].kind = k]
                 \/ task' = [task EXCEPT ![p].stage = st, ![p].doi = d]
          <6>1. CASE Submit(p)
            BY <6>1 DEF Submit, Stages
          <6>2. CASE Collect(p)
            BY <6>2 DEF Collect, Stages
          <6>3. CASE Examine(p)
            BY <6>3 DEF Examine, To, Fails, Stages
          <6>4. CASE FixDoi(p)
            BY <6>4 DEF FixDoi, To, Fails, Stages
          <6>5. CASE Optimize(p)
            BY <6>5 DEF Optimize, To, Fails, Stages
          <6>6. CASE Mark(p)
            BY <6>6 DEF Mark, To, Fails, Stages
          <6>7. CASE Publish(p)
            BY <6>7 DEF Publish, To, Fails, Stages
          <6>8. CASE Commit(p)
            BY <6>8 DEF Commit, To, Fails, Stages
          <6>9. CASE UnlinkSource(p)
            BY <6>9 DEF UnlinkSource, To, Fails, Stages
          <6>10. CASE Trip(p)
            BY <6>10 DEF Trip, To, Fails, Stages
          <6>. QED BY <4>1, <6>1, <6>2, <6>3, <6>4, <6>5, <6>6, <6>7, <6>8, <6>9, <6>10 DEF Worker
        <5>2. task'[p].stage # "logged" /\ \A q \in Pdf \ {p} : task'[q] = task[q]
          BY <1>1, <5>1 DEF Stages, TaskType
        <5>. QED BY <5>2 DEF At
      <4>2. ASSUME Fetch \/ EndRepair \/ Crash PROVE At({"logged"})' \subseteq At({"logged"})
        <5>1. \A p \in Pdf : task'[p].stage # "logged"
          <6>1. CASE Fetch
            <7>1. PICK B \in SUBSET Candidates :
                     task' = [p \in Pdf |->
                                IF p \in B
                                THEN [NoTask EXCEPT !.stage = "queued",
                                                    !.sha = row[p].sha, !.doi = row[p].doi]
                                ELSE NoTask]
              BY <6>1 DEF Fetch
            <7>. QED BY <7>1 DEF NoTask
          <6>2. CASE EndRepair \/ Crash
            BY <6>2 DEF EndRepair, Crash, NoTasks, NoTask
          <6>. QED BY <4>2, <6>1, <6>2
        <5>. QED BY <5>1 DEF At
      <4>. QED BY <2>3, <4>1, <4>2 DEF Change, TaskStep, LogStep, At
    <3>2. UNCHANGED log
      BY <2>3 DEF Change
    <3>. QED BY <1>1, <1>6, <3>1, <3>2 DEF LogOK, Base
  <2>. QED BY <1>3, <2>1, <2>2, <2>3 DEF LogStep
<1>7. ASSUME NEW p \in Pdf, Collect(p) PROVE LogOK' /\ state' \in [failed: 0 .. Len(log'), cursor: Nat]
  BY <1>4, <1>7 DEF LogOK
<1>8. ASSUME EndRepair PROVE LogOK' /\ state' \in [failed: 0 .. Len(log'), cursor: Nat]
  BY <1>1, <1>8 DEF EndRepair, LogOK, At, NoTasks, NoTask
<1>. QED
  BY <1>3, <1>6, <1>7, <1>8 DEF Change, StateStep
-----------------------------------------------------------------------------
(* The log's window, and the program that holds the lock.                   *)

(* The lines of a sound window are the last ones of the log, and each is    *)
(* the last error of its id.                                                *)
LEMMA WindowLines ==
    ASSUME Base, state.failed \in 1 .. Len(log)
    PROVE  \A i \in 1 .. state.failed :
              /\ Len(log) - state.failed + i \in 1 .. Len(log)
              /\ Window[i] = log[Len(log) - state.failed + i]
              /\ Window[i] \in [id: Pdf, kind: Kinds]
<1>1. log \in Seq([id: Pdf, kind: Kinds]) /\ Len(log) \in Nat /\ state.failed \in Nat
  BY DEF Base, Typed, TypeOK
<1>. DEFINE first == Len(log) - state.failed + 1
<1>2. first \in 1 .. Len(log) + 1 /\ first \in 1 .. Len(log)
  BY <1>1
<1>3. \A i \in 1 .. Len(log) - first + 1 : Window[i] = log[first + i - 1]
  <2>1. Window = SubSeq(log, first, Len(log))
    BY DEF Window
  <2>. HIDE DEF first
  <2>2. first \in 1 .. Len(log) + 1 /\ Len(log) \in first - 1 .. Len(log)
    BY <1>1, <1>2
  <2>. QED BY <1>1, <2>1, <2>2, SubSeqProperties
<1>. SUFFICES ASSUME NEW i \in 1 .. state.failed
              PROVE  /\ Len(log) - state.failed + i \in 1 .. Len(log)
                     /\ Window[i] = log[Len(log) - state.failed + i]
                     /\ Window[i] \in [id: Pdf, kind: Kinds]
  OBVIOUS
<1>4. /\ i \in 1 .. Len(log) - first + 1
      /\ first + i - 1 = Len(log) - state.failed + i
      /\ Len(log) - state.failed + i \in 1 .. Len(log)
  BY <1>1
<1>5. Window[i] = log[Len(log) - state.failed + i]
  <2>. HIDE DEF first
  <2>. QED BY <1>3, <1>4
<1>6. log[Len(log) - state.failed + i] \in [id: Pdf, kind: Kinds]
  BY <1>1, <1>4, ElementOfSeq
<1>. QED BY <1>4, <1>5, <1>6

LEMMA SelectedFailed ==
    ASSUME Base, MapIsSound, NEW kind, NEW p \in Selected(kind)
    PROVE  p \in Pdf /\ Failed(p)
<1>1. log \in Seq([id: Pdf, kind: Kinds]) /\ Len(log) \in Nat /\ state.failed \in Nat
  BY DEF Base, Typed, TypeOK
<1>2. state.failed \in 1 .. Len(log)
  BY DEF MapIsSound
<1>3. PICK i \in 1 .. state.failed :
         /\ Window[i].id = p
         /\ Window[i].kind # "other" \/ p \in FirstDoi
  BY DEF Selected
<1>. DEFINE at == Len(log) - state.failed + i
<1>4. at \in 1 .. Len(log) /\ Window[i] = log[at] /\ log[at] \in [id: Pdf, kind: Kinds]
  BY <1>2, <1>3, WindowLines
<1>5. \A j \in at + 1 .. Len(log) : log[j].id # p
  <2>. SUFFICES ASSUME NEW j \in at + 1 .. Len(log) PROVE log[j].id # p
    OBVIOUS
  <2>. DEFINE k == j - (Len(log) - state.failed)
  <2>1. k \in 1 .. state.failed /\ k # i /\ Len(log) - state.failed + k = j
    BY <1>1, <1>2, <1>3
  <2>2. Window[k] = log[j]
    BY <1>2, <2>1, WindowLines
  <2>. QED BY <1>3, <2>1, <2>2 DEF MapIsSound
<1>. DEFINE I == {j \in 1 .. Len(log) : log[j].id = p}
<1>6. at \in I /\ \A j \in I : j <= at
  BY <1>1, <1>3, <1>4, <1>5
<1>7. LastError(p) = at
  <2>. HIDE DEF at
  <2>1. LastError(p) = IF I # {} THEN CHOOSE x \in I : \A y \in I : x >= y ELSE 0
    BY DEF LastError, SelectLastInSeq, Max
  <2>2. I \subseteq Nat
    OBVIOUS
  <2>. HIDE DEF I
  <2>3. \A x \in I : (\A y \in I : x >= y) => x = at
    BY <1>6, <2>2
  <2>. QED BY <1>6, <2>1, <2>2, <2>3
<1>. QED BY <1>3, <1>4, <1>7 DEF Failed

LEMMA HostTyped ==
    ASSUME Base, Change
    PROVE  /\ host' \in HostType
           /\ receipts' \subseteq [phase: {"prepared", "db-committed", "finished"},
                                   rows: SUBSET Entry]
<1>1. /\ host \in HostType /\ state.cursor \in Nat /\ objects \subseteq Hash
      /\ receipts \subseteq [phase: {"prepared", "db-committed", "finished"},
                             rows: SUBSET Entry]
  BY DEF Base, Typed, TypeOK
<1>2. Off \in HostType
  BY DEF Off, HostType, Programs
<1>3. ASSUME NEW kind \in {"prune", "prune-doi"}, Prepare(kind)
      PROVE  Entries(Selected(kind)) \in SUBSET Entry
  <2>1. \A p \in Selected(kind) : p \in Pdf /\ row[p].sha \in Hash
    BY <1>1, <1>3, SelectedFailed DEF Prepare
  <2>. QED BY <2>1 DEF Entries, Entry
<1>4. receipts' \subseteq [phase: {"prepared", "db-committed", "finished"}, rows: SUBSET Entry]
  <2>1. ASSUME NEW kind \in {"prune", "prune-doi"}, Prepare(kind)
        PROVE  receipts' \subseteq [phase: {"prepared", "db-committed", "finished"},
                                    rows: SUBSET Entry]
    <3>1. receipts' = receipts \cup {[phase |-> "prepared", rows |-> Entries(Selected(kind))]}
      BY <2>1 DEF Prepare
    <3>. QED BY <1>1, <1>3, <2>1, <3>1
  <2>2. ASSUME NEW phase \in {"db-committed", "finished"}, SetPhase(phase)
        PROVE  receipts' \subseteq [phase: {"prepared", "db-committed", "finished"},
                                    rows: SUBSET Entry]
    BY <1>1, <2>2 DEF SetPhase
  <2>. QED BY <1>1, <2>1, <2>2 DEF Change, ReceiptStep, RecordCommit, FinishPrune
<1>5. ASSUME NEW kind \in {"repair", "pilot"}, StartRepair(kind) PROVE host' \in HostType
  <2>1. PICK top \in Pdf :
           host' = [Off EXCEPT !.program = kind, !.pc = "page", !.max = top,
                               !.cursor = IF kind = "repair" THEN state.cursor ELSE 0]
    BY <1>5 DEF StartRepair
  <2>2. top \in Nat
    BY PdfAssumption DEF PdfAssumption
  <2>. QED BY <1>1, <2>1, <2>2 DEF Off, HostType, Programs
<1>6. ASSUME Fetch \/ LeaveLoop \/ Drained \/ RequestStop \/ DeleteRows \/ RecordCommit
      PROVE  host' \in HostType
  <2>1. \/ \E x \in {"page", "loop", "end", "deleted", "clean"} : host' = [host EXCEPT !.pc = x]
        \/ host' = [host EXCEPT !.stop = TRUE]
    BY <1>6 DEF Fetch, LeaveLoop, Drained, RequestStop, DeleteRows, RecordCommit
  <2>. QED BY <1>1, <2>1 DEF HostType
<1>7. ASSUME NEW p \in Pdf, Collect(p) PROVE host' \in HostType
  <2>1. PICK c \in Pdf \cup {host.cursor} :
           host' = [host EXCEPT !.cursor = c,
                                !.good = @ + IF task[p].stage = "ok" THEN 1 ELSE 0]
    BY <1>7 DEF Collect
  <2>2. c \in Nat /\ host.good + (IF task[p].stage = "ok" THEN 1 ELSE 0) \in Nat
    BY <1>1, PdfAssumption DEF HostType, PdfAssumption
  <2>. QED BY <1>1, <2>1, <2>2 DEF HostType
<1>8. ASSUME NEW kind \in {"prune", "prune-doi"}, Prepare(kind) PROVE host' \in HostType
  BY <1>1, <1>3, <1>8 DEF Prepare, Off, HostType, Programs
<1>9. ASSUME Resume PROVE host' \in HostType
  BY <1>1, <1>9 DEF Resume, Off, HostType, Programs
<1>10. ASSUME EndRepair \/ Refuse \/ FinishPrune \/ Crash PROVE host' \in HostType
  BY <1>2, <1>10 DEF EndRepair, Refuse, FinishPrune, Crash
<1>. QED
  BY <1>1, <1>4, <1>5, <1>6, <1>7, <1>8, <1>9, <1>10 DEF Change, HostStep

(* While no repair runs there are no tasks.                                 *)
LEMMA HostStays ==
    ASSUME Base, Change
    PROVE  HostOK'
<1>1. host \in HostType /\ HostOK
  BY DEF Base, Typed
<1>2. ASSUME HostStep
      PROVE  /\ host'.pc = "off" => host' = Off
             /\ host'.pc \in {"off", "prepared", "deleted", "clean"} => task' = NoTasks
  <2>1. CASE \E kind \in {"repair", "pilot"} : StartRepair(kind)
    BY <2>1 DEF StartRepair, Off
  <2>2. CASE Fetch \/ LeaveLoop \/ Drained
    BY <1>1, <2>2 DEF Fetch, LeaveLoop, Drained, HostType
  <2>3. CASE \E p \in Pdf : Collect(p)
    BY <1>1, <2>3 DEF Collect, HostType
  <2>4. CASE EndRepair \/ Crash
    BY <2>4 DEF EndRepair, Crash, Off
  <2>5. CASE \E kind \in {"prune", "prune-doi"} : Prepare(kind)
    BY <1>1, <2>5 DEF Prepare, HostOK, Off
  <2>6. CASE Resume
    BY <1>1, <2>6 DEF Resume, HostOK, Off
  <2>7. CASE DeleteRows \/ RecordCommit \/ Refuse \/ FinishPrune
    BY <1>1, <2>7 DEF DeleteRows, RecordCommit, Refuse, FinishPrune, HostOK, HostType, Off
  <2>8. CASE RequestStop
    BY <1>1, <2>8 DEF RequestStop, HostOK, HostType, Off
  <2>. QED BY <1>2, <2>1, <2>2, <2>3, <2>4, <2>5, <2>6, <2>7, <2>8 DEF HostStep
<1>3. ASSUME UNCHANGED host, host.pc \in {"off", "prepared", "deleted", "clean"}
      PROVE  UNCHANGED task
  <2>1. task = NoTasks
    BY <1>1, <1>3 DEF HostOK
  <2>2. \A p \in Pdf : task[p].stage = "none"
    BY <2>1 DEF NoTasks, NoTask
  <2>3. host.pc # "page" /\ host.pc # "loop" /\ host.pc # "end"
    BY <1>3
  <2>4. ASSUME NEW p \in Pdf PROVE ~(Submit(p) \/ LogError(p) \/ Collect(p) \/ Worker(p) \/ Trip(p))
    BY <2>2, <2>3 DEF Submit, CanSubmit, LogError, Collect, Worker, Trip, Working, Examine, FixDoi,
          Optimize, Mark, Publish, Commit, UnlinkSource
  <2>5. ~Fetch /\ ~EndRepair
    BY <2>3 DEF Fetch, EndRepair
  <2>6. Crash => UNCHANGED task
    BY <2>1 DEF Crash
  <2>. QED BY <2>4, <2>5, <2>6 DEF Change, TaskStep
<1>. QED
  BY <1>1, <1>2, <1>3 DEF Change, HostOK
-----------------------------------------------------------------------------
(* The rows.                                                                *)

(* The rows after each action.                                              *)
LEMMA RowAfter ==
    ASSUME Base, NEW q \in Pdf
    PROVE  /\ DeleteRows => \/ row'[q] = row[q]
                            \/ /\ Active(q) /\ ~Repaired(q) /\ q \in Ids
                               /\ row'[q].state = "pruned"
           /\ \A p \in Pdf : FixDoi(p) =>
                 \/ row'[q] = row[q]
                 \/ /\ q = p /\ row'[q].state = row[q].state
                    /\ row'[q].sha = row[q].sha /\ row'[q].done = row[q].done
                    /\ row'[q].doi = Stripped[task[q].doi]
           /\ \A p \in Pdf : Mark(p) =>
                 \/ row'[q] = row[q]
                 \/ /\ q = p /\ row'[q].state = row[q].state
                    /\ row'[q].sha = row[q].sha /\ row'[q].doi = row[q].doi
                    /\ row'[q].done = task[q].sha
           /\ \A p \in Pdf : Commit(p) =>
                 \/ row'[q] = row[q]
                 \/ /\ q = p /\ row'[q].state = row[q].state /\ row'[q].doi = row[q].doi
                    /\ row'[q].sha = NewSha(q) /\ row'[q].done = NewSha(q)
                    /\ \A x \in Pdf \ {q} : Exists(x) => row[x].sha # NewSha(q)
           /\ \A p \in Pdf : SoftDelete(p) =>
                 \/ row'[q] = row[q]
                 \/ /\ row[q].state = "active" /\ row'[q].state = "deleted"
                    /\ row'[q].sha = row[q].sha /\ row'[q].doi = row[q].doi
                    /\ row'[q].done = row[q].done
           /\ \A r \in Request : Store(r) =>
                 \/ row'[q] = row[q]
                 \/ /\ Exists(q) /\ row'[q].state = "active"
                    /\ row'[q].sha = row[q].sha /\ row'[q].doi = row[q].doi
                    /\ row'[q].done = row[q].done
                 \/ /\ row[q].state = "none"
                    /\ row'[q].state = "active" /\ row'[q].sha = upload[r].sha
                    /\ row'[q].doi = DoiOf[upload[r].sha] /\ row'[q].done = None
                    /\ \A x \in Pdf \ {q} : row'[x] = row[x]
                    /\ objects' = IF upload[r].staged THEN objects \cup {upload[r].sha} ELSE objects
                    /\ \A x \in Pdf : Exists(x) =>
                          row[x].sha # upload[r].sha /\ row[x].doi # DoiOf[upload[r].sha]
<1>1. row \in [Pdf -> RowType]
  BY DEF Base, Typed, TypeOK
<1>2. ASSUME DeleteRows
      PROVE  \/ row'[q] = row[q]
             \/ Active(q) /\ ~Repaired(q) /\ q \in Ids /\ row'[q].state = "pruned"
  <2>1. row'[q] = IF q \in Ids THEN [row[q] EXCEPT !.state = "pruned"] ELSE row[q]
    BY <1>2 DEF DeleteRows
  <2>2. q \in Ids => Active(q) /\ ~Repaired(q)
    BY <1>2 DEF DeleteRows, Unchanged, Unrepaired, Ids
  <2>. QED BY <1>1, <2>1, <2>2 DEF RowType
<1>4. ASSUME NEW p \in Pdf, FixDoi(p)
      PROVE  \/ row'[q] = row[q]
             \/ /\ q = p /\ row'[q].state = row[q].state
                /\ row'[q].sha = row[q].sha /\ row'[q].done = row[q].done
                /\ row'[q].doi = Stripped[task[q].doi]
  <2>1. \/ row' = row
        \/ row' = [row EXCEPT ![p] = [row[p] EXCEPT !.doi = Stripped[task[p].doi]]]
    BY <1>4 DEF FixDoi
  <2>2. \/ row'[q] = row[q]
        \/ q = p /\ row'[q] = [row[q] EXCEPT !.doi = Stripped[task[q].doi]]
    BY <1>1, <2>1
  <2>. QED BY <1>1, <2>2 DEF RowType
<1>5. ASSUME NEW p \in Pdf, Mark(p)
      PROVE  \/ row'[q] = row[q]
             \/ /\ q = p /\ row'[q].state = row[q].state
                /\ row'[q].sha = row[q].sha /\ row'[q].doi = row[q].doi
                /\ row'[q].done = task[q].sha
  <2>1. row' = row \/ row' = [row EXCEPT ![p] = [row[p] EXCEPT !.done = task[p].sha]]
    BY <1>5 DEF Mark
  <2>2. row'[q] = row[q] \/ (q = p /\ row'[q] = [row[q] EXCEPT !.done = task[q].sha])
    BY <1>1, <2>1
  <2>. QED BY <1>1, <2>2 DEF RowType
<1>6. ASSUME NEW p \in Pdf, Commit(p)
      PROVE  \/ row'[q] = row[q]
             \/ /\ q = p /\ row'[q].state = row[q].state /\ row'[q].doi = row[q].doi
                /\ row'[q].sha = NewSha(q) /\ row'[q].done = NewSha(q)
                /\ \A x \in Pdf \ {q} : Exists(x) => row[x].sha # NewSha(q)
  <2>1. \/ row' = row
        \/ /\ row' = [row EXCEPT ![p] = [row[p] EXCEPT !.sha = NewSha(p), !.done = NewSha(p)]]
           /\ \A x \in Pdf \ {p} : Exists(x) => row[x].sha # NewSha(p)
    BY <1>6 DEF Commit
  <2>2. \/ row'[q] = row[q]
        \/ /\ q = p
           /\ row'[q] = [row[q] EXCEPT !.sha = NewSha(q), !.done = NewSha(q)]
           /\ \A x \in Pdf \ {q} : Exists(x) => row[x].sha # NewSha(q)
    BY <1>1, <2>1
  <2>. QED BY <1>1, <2>2 DEF RowType
<1>7. ASSUME NEW p \in Pdf, SoftDelete(p)
      PROVE  \/ row'[q] = row[q]
             \/ /\ row[q].state = "active" /\ row'[q].state = "deleted"
                /\ row'[q].sha = row[q].sha /\ row'[q].doi = row[q].doi
                /\ row'[q].done = row[q].done
  <2>1. Active(p) /\ row' = [row EXCEPT ![p] = [row[p] EXCEPT !.state = "deleted"]]
    BY <1>7 DEF SoftDelete
  <2>2. \/ row'[q] = row[q]
        \/ Active(q) /\ row'[q] = [row[q] EXCEPT !.state = "deleted"]
    BY <1>1, <2>1
  <2>. QED BY <1>1, <2>2 DEF RowType, Active
<1>8. ASSUME NEW r \in Request, Store(r)
      PROVE  \/ row'[q] = row[q]
             \/ /\ Exists(q) /\ row'[q].state = "active"
                /\ row'[q].sha = row[q].sha /\ row'[q].doi = row[q].doi
                /\ row'[q].done = row[q].done
             \/ /\ row[q].state = "none"
                /\ row'[q].state = "active" /\ row'[q].sha = upload[r].sha
                /\ row'[q].doi = DoiOf[upload[r].sha] /\ row'[q].done = None
                /\ \A x \in Pdf \ {q} : row'[x] = row[x]
                /\ objects' = IF upload[r].staged THEN objects \cup {upload[r].sha} ELSE objects
                /\ \A x \in Pdf : Exists(x) =>
                      row[x].sha # upload[r].sha /\ row[x].doi # DoiOf[upload[r].sha]
  <2>. DEFINE h == upload[r].sha
              new == [state |-> "active", sha |-> h, doi |-> DoiOf[h], done |-> None]
  <2>1. \/ row' = row
        \/ \E p \in Pdf : Exists(p) /\ row' = [row EXCEPT ![p] = [row[p] EXCEPT !.state = "active"]]
        \/ /\ \A x \in Pdf : Exists(x) => row[x].sha # h
           /\ \E p \in Pdf :
                 /\ \A x \in Pdf : Exists(x) => row[x].doi # DoiOf[h]
                 /\ row[p].state = "none"
                 /\ row' = [row EXCEPT ![p] = new]
                 /\ objects' = IF upload[r].staged THEN objects \cup {h} ELSE objects
    BY <1>8 DEF Store, library, Keep
  <2>. HIDE DEF new
  <2>2. CASE \E p \in Pdf : Exists(p) /\ row' = [row EXCEPT ![p] = [row[p] EXCEPT !.state = "active"]]
    <3>1. \/ row'[q] = row[q]
          \/ Exists(q) /\ row'[q] = [row[q] EXCEPT !.state = "active"]
      BY <1>1, <2>2
    <3>. QED BY <1>1, <3>1 DEF RowType
  <2>3. ASSUME NEW p \in Pdf, row[p].state = "none", row' = [row EXCEPT ![p] = new]
        PROVE  \/ row'[q] = row[q]
               \/ /\ q = p /\ row[q].state = "none" /\ row'[q] = new
                  /\ \A x \in Pdf \ {q} : row'[x] = row[x]
    BY <1>1, <2>3
  <2>4. new.state = "active" /\ new.sha = h /\ new.doi = DoiOf[h] /\ new.done = None
    BY DEF new
  <2>. QED BY <2>1, <2>2, <2>3, <2>4
<1>. QED BY <1>2, <1>4, <1>5, <1>6, <1>7, <1>8

LEMMA RowStates ==
    ASSUME Base, Change, NEW q \in Pdf
    PROVE  /\ row[q].state # "none" => row'[q].state # "none"
           /\ row[q].state = "pruned" => row'[q].state = "pruned"
           /\ Exists(q)' /\ ~Exists(q) => row[q].state = "none"
<1>1. row[q].state \in {"none", "active", "deleted", "pruned"}
  BY DEF Base, Typed, TypeOK, RowType
<1>2. DeleteRows => \/ row'[q] = row[q]
                    \/ Active(q) /\ row'[q].state = "pruned"
  BY RowAfter
<1>3. \A p \in Pdf : FixDoi(p) \/ Mark(p) \/ Commit(p) => row'[q].state = row[q].state
  BY RowAfter
<1>4. \A p \in Pdf : SoftDelete(p) =>
         \/ row'[q] = row[q]
         \/ row[q].state = "active" /\ row'[q].state = "deleted"
  BY RowAfter
<1>5. \A r \in Request : Store(r) =>
         \/ row'[q] = row[q]
         \/ (Exists(q) \/ row[q].state = "none") /\ row'[q].state = "active"
  <2>1. ASSUME NEW r \in Request, Store(r)
        PROVE  \/ row'[q] = row[q]
               \/ (Exists(q) \/ row[q].state = "none") /\ row'[q].state = "active"
    BY <2>1, RowAfter
  <2>. QED BY <2>1
<1>. QED
  BY <1>1, <1>2, <1>3, <1>4, <1>5 DEF Change, RowStep, Exists, Active

LEMMA RowKept ==
    ASSUME Base, Change, ~DeleteRows, NEW q \in Pdf, Exists(q),
           ~(FixDoi(q) \/ Mark(q) \/ Commit(q))
    PROVE  /\ Exists(q)'
           /\ row'[q].sha = row[q].sha /\ row'[q].doi = row[q].doi
           /\ row'[q].done = row[q].done
<1>1. ASSUME NEW p \in Pdf, FixDoi(p) \/ Mark(p) \/ Commit(p)
      PROVE  row'[q] = row[q]
  BY <1>1, RowAfter
<1>2. ASSUME NEW p \in Pdf, SoftDelete(p)
      PROVE  \/ row'[q] = row[q]
             \/ /\ row'[q].state = "deleted"
                /\ row'[q].sha = row[q].sha /\ row'[q].doi = row[q].doi
                /\ row'[q].done = row[q].done
  BY <1>2, RowAfter
<1>3. ASSUME NEW r \in Request, Store(r)
      PROVE  \/ row'[q] = row[q]
             \/ /\ row'[q].state = "active"
                /\ row'[q].sha = row[q].sha /\ row'[q].doi = row[q].doi
                /\ row'[q].done = row[q].done
  BY <1>3, RowAfter DEF Exists
<1>. QED
  BY <1>1, <1>2, <1>3 DEF Change, RowStep, Exists

(* A row is new only after Store, with bytes that no row has.               *)
LEMMA NewRow ==
    ASSUME Base, Change, NEW q \in Pdf, ~Exists(q), Exists(q)'
    PROVE  \E r \in Request :
              /\ Store(r) /\ upload[r].sha \in Hash
              /\ row'[q].state = "active" /\ row'[q].sha = upload[r].sha
              /\ row'[q].doi = DoiOf[upload[r].sha] /\ row'[q].done = None
              /\ \A x \in Pdf \ {q} : row'[x] = row[x]
              /\ objects' = IF upload[r].staged THEN objects \cup {upload[r].sha} ELSE objects
              /\ \A x \in Pdf : Exists(x) =>
                    row[x].sha # upload[r].sha /\ row[x].doi # DoiOf[upload[r].sha]
<1>1. row'[q] # row[q]
  BY DEF Exists
<1>2. ~DeleteRows
  BY <1>1, RowAfter DEF Active, Exists
<1>3. ASSUME NEW p \in Pdf PROVE ~(FixDoi(p) \/ Mark(p) \/ Commit(p) \/ SoftDelete(p))
  BY <1>1, RowAfter DEF Exists
<1>4. PICK r \in Request : Store(r)
  BY <1>1, <1>2, <1>3 DEF Change, RowStep
<1>5. upload[r].sha \in Hash
  BY <1>4 DEF Base, UploadsKnown, Store
<1>6. /\ row[q].state = "none"
      /\ row'[q].state = "active" /\ row'[q].sha = upload[r].sha
      /\ row'[q].doi = DoiOf[upload[r].sha] /\ row'[q].done = None
      /\ \A x \in Pdf \ {q} : row'[x] = row[x]
      /\ objects' = IF upload[r].staged THEN objects \cup {upload[r].sha} ELSE objects
      /\ \A x \in Pdf : Exists(x) =>
            row[x].sha # upload[r].sha /\ row[x].doi # DoiOf[upload[r].sha]
  BY <1>1, <1>4, RowAfter
<1>. QED BY <1>4, <1>5, <1>6

(* The sha of a row changes only in Commit, which finds no row with it.     *)
LEMMA ShaChanged ==
    ASSUME Base, Change, NEW q \in Pdf, Exists(q), Exists(q)', row'[q].sha # row[q].sha
    PROVE  /\ Commit(q) /\ row'[q].sha = NewSha(q)
           /\ \A x \in Pdf \ {q} : Exists(x) => row[x].sha # NewSha(q)
           /\ \A x \in Pdf \ {q} : row'[x] = row[x]
<1>1. Commit(q)
  <2>1. ~DeleteRows
    BY RowAfter DEF Exists
  <2>2. ~(FixDoi(q) \/ Mark(q))
    BY RowAfter
  <2>. QED BY <2>1, <2>2, RowKept
<1>2. /\ row'[q].sha = NewSha(q)
      /\ \A x \in Pdf \ {q} : Exists(x) => row[x].sha # NewSha(q)
  BY <1>1, RowAfter
<1>3. ASSUME NEW x \in Pdf \ {q} PROVE row'[x] = row[x]
  BY <1>1, <1>3, RowAfter
<1>. QED BY <1>1, <1>2, <1>3

LEMMA RowsStay ==
    ASSUME Base, Change
    PROVE  RowsOK'
<1>1. RowsOK
  BY DEF Base
<1>2. ASSUME NEW q \in Pdf, Exists(q)' PROVE row'[q].sha \in Hash /\ row'[q].doi \in Doi
  <2>1. CASE ~Exists(q)
    <3>1. PICK r \in Request :
             /\ upload[r].sha \in Hash
             /\ row'[q].state = "active" /\ row'[q].sha = upload[r].sha
             /\ row'[q].doi = DoiOf[upload[r].sha] /\ row'[q].done = None
      BY <1>2, <2>1, NewRow
    <3>. QED BY <3>1, FileAssumption DEF FileAssumption
  <2>2. CASE Exists(q) /\ DeleteRows
    BY <1>1, <1>2, <2>2, RowAfter DEF RowsOK, Exists
  <2>3. CASE Exists(q) /\ ~DeleteRows /\ ~(FixDoi(q) \/ Mark(q) \/ Commit(q))
    BY <1>1, <2>3, RowKept DEF RowsOK
  <2>4. CASE Exists(q) /\ FixDoi(q)
    <3>1. task[q].doi \in Doi /\ Stripped[task[q].doi] # None
      BY <2>4 DEF FixDoi, Base, TasksOK, TaskOK, Taken, RowsOK
    <3>2. Stripped[task[q].doi] \in Doi
      BY <3>1, FileAssumption DEF FileAssumption
    <3>. QED BY <1>1, <2>4, <3>2, RowAfter DEF RowsOK
  <2>5. CASE Exists(q) /\ Mark(q)
    BY <1>1, <2>5, RowAfter DEF RowsOK
  <2>6. CASE Exists(q) /\ Commit(q)
    <3>1. task[q].sha \in Hash
      BY <2>6 DEF Commit, Base, TasksOK, TaskOK, Taken, RowsOK
    <3>2. NewSha(q) \in Hash
      BY <3>1, FileAssumption DEF FileAssumption, NewSha
    <3>. QED BY <1>1, <2>6, <3>2, RowAfter DEF RowsOK
  <2>. QED BY <2>1, <2>2, <2>3, <2>4, <2>5, <2>6
<1>4. ASSUME NEW x \in Pdf, NEW y \in Pdf, x # y, Exists(x)', Exists(y)', ~Exists(x)
      PROVE  row'[x].sha # row'[y].sha
  <2>1. PICK r \in Request :
           /\ row'[x].state = "active" /\ row'[x].sha = upload[r].sha
           /\ row'[x].doi = DoiOf[upload[r].sha] /\ row'[x].done = None
           /\ \A z \in Pdf \ {x} : row'[z] = row[z]
           /\ objects' = IF upload[r].staged THEN objects \cup {upload[r].sha} ELSE objects
           /\ \A z \in Pdf : Exists(z) =>
                 row[z].sha # upload[r].sha /\ row[z].doi # DoiOf[upload[r].sha]
    BY <1>4, NewRow
  <2>. QED BY <1>4, <2>1 DEF Exists
<1>5. ASSUME NEW x \in Pdf, NEW y \in Pdf, x # y, Exists(x), Exists(y), Exists(x)', Exists(y)',
             row'[x].sha # row[x].sha
      PROVE  row'[x].sha # row'[y].sha
  BY <1>5, ShaChanged
<1>6. ASSUME NEW p \in Pdf, NEW q \in Pdf, p # q, Exists(p)', Exists(q)'
      PROVE  row'[p].sha # row'[q].sha
  BY <1>1, <1>4, <1>5, <1>6 DEF RowsOK
<1>. QED
  BY <1>2, <1>6 DEF RowsOK
-----------------------------------------------------------------------------
(* The tasks.                                                               *)

LEMMA NoTaskTyped == NoTask \in TaskType /\ NoTask.stage = "none"
BY DEF NoTask, TaskType, Stages, Kinds

LEMMA ToFields ==
    ASSUME Base, NEW p \in Pdf, NEW st, To(p, st)
    PROVE  /\ task'[p].stage = st
           /\ task'[p].sha = task[p].sha /\ task'[p].doi = task[p].doi
<1>1. task \in [Pdf -> TaskType]
  BY DEF Base, Typed
<1>2. task'[p] = [task[p] EXCEPT !.stage = st]
  BY <1>1 DEF To
<1>. QED BY <1>1, <1>2 DEF TaskType

LEMMA FailsFields ==
    ASSUME Base, NEW p \in Pdf, NEW k, Fails(p, k)
    PROVE  task'[p].stage = "failed"
<1>1. task \in [Pdf -> TaskType]
  BY DEF Base, Typed
<1>2. task'[p] = [task[p] EXCEPT !.stage = "failed", !.kind = k]
  BY <1>1 DEF Fails
<1>. QED BY <1>1, <1>2 DEF TaskType

LEMMA TaskEdits ==
    ASSUME NEW t \in TaskType, NEW st \in Stages
    PROVE  /\ [t EXCEPT !.stage = st] \in TaskType
           /\ \A k \in Kinds : [t EXCEPT !.stage = st, !.kind = k] \in TaskType
           /\ \A d \in Doi \cup {None} : [t EXCEPT !.stage = st, !.doi = d] \in TaskType
BY DEF TaskType

LEMMA TaskAfter ==
    ASSUME Base, NEW p \in Pdf, NEW q \in Pdf,
           Submit(p) \/ LogError(p) \/ Collect(p) \/ Worker(p) \/ Trip(p)
    PROVE  TaskEdit(p, q)
<1>1. task \in [Pdf -> TaskType]
  BY DEF Base, Typed
<1>2. ASSUME NEW st \in Stages, task' = [task EXCEPT ![p].stage = st] PROVE TaskEdit(p, q)
  BY <1>1, <1>2 DEF TaskEdit
<1>3. ASSUME NEW st \in Stages, To(p, st) PROVE TaskEdit(p, q)
  BY <1>2, <1>3 DEF To
<1>4. ASSUME NEW k \in Kinds, Fails(p, k) PROVE TaskEdit(p, q)
  BY <1>1, <1>4 DEF Fails, TaskEdit
<1>. DEFINE Goal == TaskEdit(p, q)
<1>. HIDE DEF Goal
<1>5. CASE Submit(p)
  BY <1>2, <1>5 DEF Submit, Stages
<1>6. CASE LogError(p)
  BY <1>2, <1>6 DEF LogError, Stages
<1>7. CASE Collect(p)
  BY <1>2, <1>7 DEF Collect, Stages
<1>8. CASE Examine(p)
  BY <1>3, <1>4, <1>8 DEF Examine, Stages, Kinds
<1>9. CASE FixDoi(p)
  <2>1. CASE task' = [task EXCEPT ![p].stage = "optimize", ![p].doi = Stripped[task[p].doi]]
    BY <1>1, <1>9, <2>1 DEF TaskEdit
  <2>2. CASE Fails(p, "other") \/ Fails(p, "identity")
    BY <1>4, <2>2 DEF Kinds
  <2>. QED BY <1>9, <2>1, <2>2 DEF FixDoi
<1>10. CASE Optimize(p)
  BY <1>3, <1>4, <1>10 DEF Optimize, Stages, Kinds
<1>11. CASE Mark(p)
  BY <1>3, <1>4, <1>11 DEF Mark, Stages, Kinds
<1>12. CASE Publish(p)
  BY <1>3, <1>4, <1>12 DEF Publish, Stages, Kinds
<1>13. CASE Commit(p)
  BY <1>3, <1>4, <1>13 DEF Commit, Stages, Kinds
<1>14. CASE UnlinkSource(p)
  BY <1>3, <1>14 DEF UnlinkSource, Stages
<1>15. CASE Trip(p)
  BY <1>4, <1>15 DEF Trip, Kinds
<1>. QED
  BY <1>5, <1>6, <1>7, <1>8, <1>9, <1>10, <1>11, <1>12, <1>13, <1>14, <1>15 DEF Worker

(* What Fetch takes.                                                        *)
LEMMA Fetched ==
    ASSUME Fetch, NEW q \in Pdf
    PROVE  \/ task'[q] = NoTask
           \/ /\ Active(q) /\ ~Repaired(q)
              /\ task'[q] = [NoTask EXCEPT !.stage = "queued",
                                           !.sha = row[q].sha, !.doi = row[q].doi]
<1>1. PICK B \in SUBSET Candidates :
         task' = [p \in Pdf |->
                    IF p \in B
                    THEN [NoTask EXCEPT !.stage = "queued",
                                        !.sha = row[p].sha, !.doi = row[p].doi]
                    ELSE NoTask]
  BY DEF Fetch
<1>. QED BY <1>1 DEF Candidates

LEMMA TaskTyped ==
    ASSUME Base, Change
    PROVE  task' \in [Pdf -> TaskType]
<1>1. task \in [Pdf -> TaskType] /\ row \in [Pdf -> RowType]
  BY DEF Base, Typed, TypeOK
<1>2. NoTask \in TaskType
  BY NoTaskTyped
<1>3. ASSUME NEW p \in Pdf, Submit(p) \/ LogError(p) \/ Collect(p) \/ Worker(p) \/ Trip(p)
      PROVE  task' \in [Pdf -> TaskType]
  <2>1. ASSUME NEW q \in Pdf PROVE task'[q] \in TaskType
    <3>1. FixDoi(q) => Stripped[task[q].doi] \in Doi \cup {None}
      BY FileAssumption DEF FixDoi, Base, TasksOK, TaskOK, Taken, RowsOK, FileAssumption
    <3>2. TaskEdit(p, q)
      BY <1>3, TaskAfter
    <3>3. task[q] \in TaskType /\ "failed" \in Stages /\ "optimize" \in Stages
      BY <1>1 DEF Stages
    <3>4. \A st \in Stages : [task[q] EXCEPT !.stage = st] \in TaskType
      BY <3>3, TaskEdits
    <3>5. \A k \in Kinds : [task[q] EXCEPT !.stage = "failed", !.kind = k] \in TaskType
      BY <3>3, TaskEdits
    <3>6. \A d \in Doi \cup {None} : [task[q] EXCEPT !.stage = "optimize", !.doi = d] \in TaskType
      BY <3>3, TaskEdits
    <3>7. \/ task'[q] = task[q]
          \/ \E st \in Stages : task'[q] = [task[q] EXCEPT !.stage = st]
          \/ \E k \in Kinds : task'[q] = [task[q] EXCEPT !.stage = "failed", !.kind = k]
          \/ \E d \in Doi \cup {None} :
                task'[q] = [task[q] EXCEPT !.stage = "optimize", !.doi = d]
      BY <3>1, <3>2 DEF TaskEdit
    <3>8. ASSUME NEW st \in Stages, task'[q] = [task[q] EXCEPT !.stage = st]
          PROVE  task'[q] \in TaskType
      BY <3>4, <3>8
    <3>9. ASSUME NEW k \in Kinds, task'[q] = [task[q] EXCEPT !.stage = "failed", !.kind = k]
          PROVE  task'[q] \in TaskType
      BY <3>5, <3>9
    <3>10. ASSUME NEW d \in Doi \cup {None},
                  task'[q] = [task[q] EXCEPT !.stage = "optimize", !.doi = d]
           PROVE  task'[q] \in TaskType
      BY <3>6, <3>10
    <3>. QED BY <3>3, <3>7, <3>8, <3>9, <3>10
  <2>2. task' = [q \in Pdf |-> task'[q]]
    BY <1>1, <1>3 DEF Submit, LogError, Collect, Worker, Trip, Examine, FixDoi, Optimize, Mark,
          Publish, Commit, UnlinkSource, To, Fails
  <2>. QED BY <2>1, <2>2
<1>4. CASE Fetch
  <2>1. ASSUME NEW q \in Pdf PROVE task'[q] \in TaskType
    <3>1. row[q].sha \in Hash \cup {None} /\ row[q].doi \in Doi \cup {None}
      BY <1>1 DEF RowType
    <3>2. [NoTask EXCEPT !.stage = "queued", !.sha = row[q].sha, !.doi = row[q].doi] \in TaskType
      BY <1>2, <3>1 DEF TaskType, Stages
    <3>. QED BY <1>2, <1>4, <3>2, Fetched
  <2>2. task' = [q \in Pdf |-> task'[q]]
    BY <1>4 DEF Fetch
  <2>. QED BY <2>1, <2>2
<1>5. CASE EndRepair \/ Crash
  BY <1>2, <1>5 DEF EndRepair, Crash, NoTasks
<1>. QED
  BY <1>1, <1>3, <1>4, <1>5 DEF Change, TaskStep

LEMMA OwnStage ==
    ASSUME Base, NEW q \in Pdf, FixDoi(q) \/ Mark(q) \/ Commit(q)
    PROVE  task'[q].stage # task[q].stage
<1>1. task \in [Pdf -> TaskType] /\ task[q].stage \in {"fix", "mark", "linked"}
  BY DEF Base, Typed, FixDoi, Mark, Commit
<1>2. ASSUME task'[q] = [task[q] EXCEPT !.stage = "optimize", !.doi = Stripped[task[q].doi]]
      PROVE  task'[q].stage = "optimize"
  BY <1>1, <1>2 DEF TaskType
<1>3. \/ \E st \in {"ok", "committed"} : To(q, st)
      \/ \E k \in Kinds : Fails(q, k)
      \/ task'[q] = [task[q] EXCEPT !.stage = "optimize", !.doi = Stripped[task[q].doi]]
  BY <1>1 DEF FixDoi, Mark, Commit, Kinds
<1>. QED BY <1>1, <1>2, <1>3, ToFields, FailsFields

LEMMA TasksStay ==
    ASSUME Base, Change
    PROVE  TasksOK'
<1>1. task \in [Pdf -> TaskType] /\ TasksOK
  BY DEF Base, Typed
<1>2. ASSUME NEW q \in Pdf, task'[q] = NoTask PROVE TaskOK(q)'
  BY <1>2, NoTaskTyped DEF TaskOK, Taken, Certain
(* A row that a task relies on, and that the task itself does not change.   *)
<1>3. ASSUME NEW q \in Pdf, Exists(q), task[q].stage # "none", ~(FixDoi(q) \/ Mark(q) \/ Commit(q))
      PROVE  /\ Exists(q)'
             /\ row'[q].sha = row[q].sha /\ row'[q].doi = row[q].doi
             /\ row'[q].done = row[q].done
  <2>1. ~DeleteRows
    BY <1>3, NoTaskTyped DEF DeleteRows, Base, HostOK, NoTasks
  <2>. QED BY <1>3, <2>1, RowKept
<1>4. ASSUME NEW q \in Pdf, task'[q] = task[q], ~(FixDoi(q) \/ Mark(q) \/ Commit(q))
      PROVE  TaskOK(q)'
  <2>1. ASSUME task[q].stage \in Taken \cup {"committed"}
        PROVE  Exists(q) /\ task[q].stage # "none"
    BY <1>1, <2>1 DEF TasksOK, TaskOK, Taken
  <2>2. task[q].stage \in Taken \cup {"committed"} \/ TaskOK(q)'
    BY <1>4 DEF TaskOK, Taken, Certain
  <2>. QED BY <1>1, <1>3, <1>4, <2>1, <2>2 DEF TasksOK, TaskOK, Repaired, NewSha, Certain
<1>5. ASSUME Fetch, NEW q \in Pdf PROVE TaskOK(q)'
  <2>1. UNCHANGED row
    BY <1>5 DEF Fetch, library
  <2>2. CASE /\ Active(q) /\ ~Repaired(q)
             /\ task'[q] = [NoTask EXCEPT !.stage = "queued", !.sha = row[q].sha, !.doi = row[q].doi]
    BY <2>1, <2>2 DEF TaskOK, NoTask, Taken, Certain, Exists, Active, Repaired
  <2>. QED BY <1>2, <1>5, <2>2, Fetched
<1>6. ASSUME NEW p \in Pdf, Submit(p) \/ LogError(p) \/ Collect(p) \/ Worker(p) \/ Trip(p)
      PROVE  TaskOK(p)'
  <2>1. TaskOK(p) /\ task[p] \in TaskType
    BY <1>1 DEF TasksOK
  <2>2. ASSUME ~(FixDoi(p) \/ Mark(p) \/ Commit(p)), task[p].stage \in Taken \cup {"committed"}
        PROVE  /\ Exists(p)'
               /\ row'[p].sha = row[p].sha /\ row'[p].doi = row[p].doi
               /\ row'[p].done = row[p].done
    BY <1>3, <2>1, <2>2 DEF TaskOK, Taken
  <2>3. ASSUME task'[p].stage \in Stages \ (Taken \cup {"committed"}) PROVE TaskOK(p)'
    BY <2>3 DEF TaskOK, Taken, Certain
  <2>4. ASSUME NEW k, Fails(p, k) PROVE TaskOK(p)'
    <3>1. task'[p].stage = "failed"
      BY <2>4, FailsFields
    <3>. QED BY <2>3, <3>1 DEF Stages, Taken
  <2>5. CASE Submit(p)
    <3>1. UNCHANGED row /\ task[p].stage = "queued" /\ To(p, "busy")
      BY <2>5 DEF Submit, library, To
    <3>2. /\ task'[p].stage = "busy" /\ task'[p].sha = task[p].sha /\ task'[p].doi = task[p].doi
      BY <3>1, ToFields
    <3>. QED BY <2>1, <3>1, <3>2 DEF TaskOK, Taken, Certain, Exists, Repaired
  <2>6. CASE LogError(p) \/ Collect(p) \/ UnlinkSource(p)
    <3>1. \E st \in {"logged", "completed", "ok"} : To(p, st)
      BY <2>6 DEF LogError, Collect, UnlinkSource, To
    <3>2. task'[p].stage \in {"logged", "completed", "ok"}
      BY <3>1, ToFields
    <3>. QED BY <2>3, <3>2 DEF Stages, Taken
  <2>7. CASE Examine(p)
    <3>. DEFINE d == task[p].doi
    <3>1. UNCHANGED row /\ task[p].stage = "busy"
      BY <2>7 DEF Examine, library
    <3>2. CASE To(p, "optimize") /\ d \in Registered
      <4>1. task'[p].stage = "optimize" /\ task'[p].sha = task[p].sha /\ task'[p].doi = d
        BY <3>2, ToFields
      <4>. QED BY <2>1, <3>1, <3>2, <4>1 DEF TaskOK, Taken, Certain, Exists, Repaired
    <3>3. CASE /\ To(p, "fix") /\ d \notin Registered
               /\ Stripped[d] # None /\ Recoverable(task[p].sha, d)
      <4>1. task'[p].stage = "fix" /\ task'[p].sha = task[p].sha /\ task'[p].doi = d
        BY <3>3, ToFields
      <4>. QED
        BY <2>1, <3>1, <3>3, <4>1 DEF TaskOK, Taken, Certain, Exists, Repaired, Recoverable, TitleFits
    <3>4. \/ To(p, "optimize") /\ d \in Registered
          \/ /\ To(p, "fix") /\ d \notin Registered
             /\ Stripped[d] # None /\ Recoverable(task[p].sha, d)
          \/ \E k \in Kinds : Fails(p, k)
      BY <2>7 DEF Examine, Kinds
    <3>. QED BY <2>4, <3>2, <3>3, <3>4
  <2>8. CASE FixDoi(p)
    <3>. DEFINE d == Stripped[task[p].doi]
    <3>1. CASE /\ row' = [row EXCEPT ![p].doi = d]
               /\ task' = [task EXCEPT ![p].stage = "optimize", ![p].doi = d]
      <4>0. task'[p] = [task[p] EXCEPT !.stage = "optimize", !.doi = d]
        BY <1>1, <3>1
      <4>1. /\ task'[p].stage = "optimize" /\ task'[p].sha = task[p].sha /\ task'[p].doi = d
        BY <2>1, <4>0 DEF TaskType
      <4>2. row \in [Pdf -> RowType]
        BY DEF Base, Typed, TypeOK
      <4>3. /\ row'[p].state = row[p].state /\ row'[p].sha = row[p].sha
            /\ row'[p].done = row[p].done /\ row'[p].doi = d
        BY <3>1, <4>2 DEF RowType
      <4>4. d \in Registered
        BY <2>1, <2>8 DEF FixDoi, TaskOK, Recoverable
      <4>5. Exists(p) /\ ~Repaired(p) /\ row[p].sha = task[p].sha
        BY <2>1, <2>8 DEF FixDoi, TaskOK, Taken
      <4>. QED BY <4>1, <4>3, <4>4, <4>5 DEF TaskOK, Taken, Certain, Exists, Repaired
    <3>2. CASE Fails(p, "other") \/ Fails(p, "identity")
      BY <2>4, <3>2
    <3>. QED BY <2>8, <3>1, <3>2 DEF FixDoi
  <2>9. CASE Optimize(p)
    <3>1. UNCHANGED row /\ task[p].stage = "optimize"
      BY <2>9 DEF Optimize, library
    <3>2. ASSUME To(p, "replace"), Smaller[task[p].sha] # task[p].sha PROVE TaskOK(p)'
      <4>1. /\ task'[p].stage = "replace" /\ task'[p].sha = task[p].sha
            /\ task'[p].doi = task[p].doi
        BY <3>2, ToFields
      <4>. QED BY <2>1, <3>1, <3>2, <4>1 DEF TaskOK, Taken, Certain, Exists, Repaired, NewSha
    <3>3. ASSUME To(p, "mark") PROVE TaskOK(p)'
      <4>1. /\ task'[p].stage = "mark" /\ task'[p].sha = task[p].sha
            /\ task'[p].doi = task[p].doi
        BY <3>3, ToFields
      <4>. QED BY <2>1, <3>1, <4>1 DEF TaskOK, Taken, Certain, Exists, Repaired
    <3>. QED BY <2>4, <2>9, <3>2, <3>3 DEF Optimize
  <2>10. CASE Mark(p)
    <3>1. ASSUME To(p, "ok") PROVE TaskOK(p)'
      <4>1. task'[p].stage = "ok"
        BY <3>1, ToFields
      <4>. QED BY <2>3, <4>1 DEF Stages, Taken
    <3>. QED BY <2>4, <2>10, <3>1 DEF Mark
  <2>11. CASE Publish(p)
    <3>1. UNCHANGED row /\ task[p].stage = "replace"
      BY <2>11 DEF Publish
    <3>2. ASSUME To(p, "linked") PROVE TaskOK(p)'
      <4>1. /\ task'[p].stage = "linked" /\ task'[p].sha = task[p].sha
            /\ task'[p].doi = task[p].doi
        BY <3>2, ToFields
      <4>. QED BY <2>1, <3>1, <4>1 DEF TaskOK, Taken, Certain, Exists, Repaired, NewSha
    <3>. QED BY <2>4, <2>11, <3>2 DEF Publish
  <2>12. CASE Commit(p)
    <3>1. ASSUME To(p, "committed"),
                 row' = [row EXCEPT ![p].sha = NewSha(p), ![p].done = NewSha(p)]
          PROVE  TaskOK(p)'
      <4>1. /\ task'[p].stage = "committed" /\ task'[p].sha = task[p].sha
        BY <3>1, ToFields
      <4>2. row \in [Pdf -> RowType]
        BY DEF Base, Typed, TypeOK
      <4>3. /\ row'[p].state = row[p].state /\ row'[p].sha = row'[p].done
        BY <3>1, <4>2 DEF RowType
      <4>4. Exists(p) /\ NewSha(p) # task[p].sha /\ task[p].sha \in Hash
        BY <2>1, <2>12 DEF Commit, TaskOK, Taken, Base, RowsOK
      <4>. QED BY <4>1, <4>3, <4>4 DEF TaskOK, Taken, Certain, Exists, Repaired, NewSha
    <3>. QED BY <2>4, <2>12, <3>1 DEF Commit
  <2>13. CASE Trip(p)
    BY <2>4, <2>13 DEF Trip
  <2>. QED
    BY <1>6, <2>5, <2>6, <2>7, <2>8, <2>9, <2>10, <2>11, <2>12, <2>13 DEF Worker
<1>7. ASSUME NEW p \in Pdf, Submit(p) \/ LogError(p) \/ Collect(p) \/ Worker(p) \/ Trip(p),
             NEW q \in Pdf, q # p
      PROVE  TaskOK(q)'
  <2>1. task'[q] = task[q]
    BY <1>7, TaskAfter DEF TaskEdit
  <2>2. ~(FixDoi(q) \/ Mark(q) \/ Commit(q))
    <3>1. ASSUME FixDoi(q) \/ Mark(q) \/ Commit(q) PROVE task'[q].stage # task[q].stage
      BY <3>1, OwnStage
    <3>. QED BY <2>1, <3>1
  <2>. QED BY <1>4, <2>1, <2>2
<1>8. ASSUME UNCHANGED task, NEW q \in Pdf PROVE TaskOK(q)'
  <2>1. ~(FixDoi(q) \/ Mark(q) \/ Commit(q))
    <3>1. ASSUME FixDoi(q) \/ Mark(q) \/ Commit(q) PROVE task'[q].stage # task[q].stage
      BY <3>1, OwnStage
    <3>. QED BY <1>8, <3>1
  <2>. QED BY <1>4, <1>8, <2>1
<1>9. ASSUME EndRepair \/ Crash, NEW q \in Pdf PROVE TaskOK(q)'
  BY <1>2, <1>9 DEF EndRepair, Crash, NoTasks
<1>. QED
  BY <1>5, <1>6, <1>7, <1>8, <1>9 DEF Change, TaskStep, TasksOK
-----------------------------------------------------------------------------
(* Uploads, receipts, and Base.                                             *)

LEMMA UploadsTyped ==
    ASSUME Base, Change
    PROVE  upload' \in [Request -> UploadType] /\ UploadsKnown'
<1>1. upload \in [Request -> UploadType] /\ UploadsKnown
  BY DEF Base, Typed
<1>2. Idle \in UploadType /\ Idle.pc = "idle"
  BY DEF Idle, UploadType
<1>3. ASSUME NEW r \in Request, Store(r)
      PROVE  upload' \in [Request -> UploadType] /\ UploadsKnown'
  <2>1. upload' = [upload EXCEPT ![r] = Idle]
    BY <1>3 DEF Store
  <2>. QED BY <1>1, <1>2, <2>1 DEF UploadsKnown
<1>4. ASSUME NEW r \in Request, NEW h \in Hash, Receive(r, h)
      PROVE  upload' \in [Request -> UploadType] /\ UploadsKnown'
  <2>. DEFINE new == [pc |-> "stored", sha |-> h, staged |-> h \notin objects]
  <2>1. upload' = [upload EXCEPT ![r] = new]
    BY <1>4 DEF Receive
  <2>2. new \in UploadType /\ new.sha = h
    BY DEF UploadType
  <2>. HIDE DEF new
  <2>. QED BY <1>1, <2>1, <2>2 DEF UploadsKnown
<1>. QED BY <1>1, <1>3, <1>4 DEF Change, UploadStep, UploadsKnown

(* Receipts are kept, whatever phase is written into them.                  *)
LEMMA ReceiptsKept ==
    ASSUME Base, Change
    PROVE  /\ \A r \in receipts : \E x \in receipts' : x.rows = r.rows
           /\ \A x \in receipts' :
                 \/ \E r \in receipts : x.rows = r.rows
                 \/ \E kind \in {"prune", "prune-doi"} :
                       Prepare(kind) /\ x.rows = Entries(Selected(kind))
<1>1. receipts \subseteq [phase: {"prepared", "db-committed", "finished"}, rows: SUBSET Entry]
  BY DEF Base, Typed, TypeOK
<1>2. ASSUME NEW phase, SetPhase(phase)
      PROVE  /\ \A r \in receipts : \E x \in receipts' : x.rows = r.rows
             /\ \A x \in receipts' : \E r \in receipts : x.rows = r.rows
  <2>1. receipts' = {IF r.rows = host.rows THEN [r EXCEPT !.phase = phase] ELSE r : r \in receipts}
    BY <1>2 DEF SetPhase
  <2>2. \A r \in receipts : [r EXCEPT !.phase = phase].rows = r.rows
    BY <1>1
  <2>. QED BY <2>1, <2>2
<1>3. ASSUME NEW kind \in {"prune", "prune-doi"}, Prepare(kind)
      PROVE  \E x : x.rows = Entries(Selected(kind)) /\ receipts' = receipts \cup {x}
  <2>. DEFINE new == [phase |-> "prepared", rows |-> Entries(Selected(kind))]
  <2>1. receipts' = receipts \cup {new} /\ new.rows = Entries(Selected(kind))
    BY <1>3 DEF Prepare
  <2>. QED BY <2>1
<1>4. CASE RecordCommit
  BY <1>2, <1>4 DEF RecordCommit
<1>5. CASE FinishPrune
  BY <1>2, <1>5 DEF FinishPrune
<1>6. CASE \E kind \in {"prune", "prune-doi"} : Prepare(kind)
  BY <1>3, <1>6
<1>. QED BY <1>4, <1>5, <1>6 DEF Change, ReceiptStep

LEMMA ReceiptsStay ==
    ASSUME Base, Change
    PROVE  ReceiptsOK'
<1>1. /\ receipts \subseteq [phase: {"prepared", "db-committed", "finished"}, rows: SUBSET Entry]
      /\ host \in HostType /\ ReceiptsOK
  BY DEF Base, Typed, TypeOK
<1>2. \A S : \A e \in Entries(S) : e.id \in S
  BY DEF Entries
<1>3. ASSUME NEW x \in receipts', NEW e \in x.rows PROVE row'[e.id].state # "none"
  <2>1. CASE \E r \in receipts : x.rows = r.rows
    <3>1. PICK r \in receipts : x.rows = r.rows
      BY <2>1
    <3>2. e \in Entry /\ row[e.id].state # "none"
      BY <1>1, <1>3, <3>1 DEF ReceiptsOK
    <3>3. e.id \in Pdf
      BY <3>2 DEF Entry
    <3>. QED BY <3>2, <3>3, RowStates
  <2>2. ASSUME NEW kind \in {"prune", "prune-doi"}, Prepare(kind), x.rows = Entries(Selected(kind))
        PROVE  row'[e.id].state # "none"
    <3>1. e.id \in Selected(kind)
      BY <1>2, <1>3, <2>2
    <3>2. Active(e.id) /\ UNCHANGED row
      BY <2>2, <3>1 DEF Prepare, library
    <3>. QED BY <3>2 DEF Active
  <2>. QED BY <1>3, <2>1, <2>2, ReceiptsKept
(* The rows of the program that runs, and that they are gone.               *)
<1>4. ASSUME \E x \in receipts : x.rows = host.rows, host'.rows = host.rows
      PROVE  \E x \in receipts' : x.rows = host'.rows
  BY <1>4, ReceiptsKept
<1>5. ASSUME \A e \in host.rows : row[e.id].state = "pruned", host'.rows = host.rows
      PROVE  \A e \in host'.rows : row'[e.id].state = "pruned"
  <2>1. \A e \in host.rows : e.id \in Pdf
    BY <1>1 DEF HostType, Entry
  <2>. QED BY <1>5, <2>1, RowStates
<1>6. ASSUME host'.pc \in {"prepared", "deleted", "clean"}
      PROVE  /\ \E x \in receipts' : x.rows = host'.rows
             /\ host'.pc \in {"deleted", "clean"} =>
                   \A e \in host'.rows : row'[e.id].state = "pruned"
  <2>1. CASE UNCHANGED host
    BY <1>1, <1>4, <1>5, <1>6, <2>1 DEF ReceiptsOK
  <2>2. ASSUME NEW kind \in {"prune", "prune-doi"}, Prepare(kind)
        PROVE  host'.pc = "prepared" /\ \E x \in receipts' : x.rows = host'.rows
    <3>1. host' = [Off EXCEPT !.program = kind, !.pc = "prepared",
                              !.rows = Entries(Selected(kind))]
      BY <2>2 DEF Prepare
    <3>2. host'.rows = Entries(Selected(kind)) /\ host'.pc = "prepared"
      BY <3>1 DEF Off
    <3>. DEFINE new == [phase |-> "prepared", rows |-> Entries(Selected(kind))]
    <3>3. new \in receipts' /\ new.rows = Entries(Selected(kind))
      BY <2>2 DEF Prepare
    <3>. QED BY <3>2, <3>3
  <2>3. CASE Resume
    <3>1. PICK r \in receipts :
             /\ Resumes(r)
             /\ host' = [Off EXCEPT !.program = "resume", !.pc = "clean", !.rows = r.rows]
      BY <2>3 DEF Resume
    <3>2. host'.rows = r.rows /\ UNCHANGED <<row, receipts>>
      BY <2>3, <3>1 DEF Off, Resume, library, files
    <3>3. ASSUME NEW e \in r.rows PROVE row[e.id].state = "pruned"
      <4>1. e.id \in Pdf /\ ~Exists(e.id) /\ row[e.id].state # "none"
        BY <1>1, <3>1, <3>3 DEF Resumes, ReceiptsOK, Entry
      <4>. QED BY <4>1 DEF Base, Typed, TypeOK, RowType, Exists
    <3>. QED BY <3>1, <3>2, <3>3
  <2>4. CASE DeleteRows
    <3>1. host.pc = "prepared" /\ host' = [host EXCEPT !.pc = "deleted"]
      BY <2>4 DEF DeleteRows
    <3>2. host'.rows = host.rows
      BY <1>1, <3>1 DEF HostType
    <3>3. ASSUME NEW e \in host.rows PROVE row'[e.id].state = "pruned"
      <4>1. e.id \in Pdf /\ e.id \in Ids
        BY <1>1 DEF HostType, Entry, Ids
      <4>2. row'[e.id] = [row[e.id] EXCEPT !.state = "pruned"] /\ row[e.id] \in RowType
        BY <2>4, <4>1 DEF DeleteRows, Base, Typed, TypeOK
      <4>. QED BY <4>2 DEF RowType
    <3>. QED BY <1>1, <1>4, <3>1, <3>2, <3>3 DEF ReceiptsOK
  <2>5. CASE RecordCommit
    <3>1. host.pc = "deleted" /\ host' = [host EXCEPT !.pc = "clean"]
      BY <2>5 DEF RecordCommit
    <3>2. host'.rows = host.rows
      BY <1>1, <3>1 DEF HostType
    <3>. QED BY <1>1, <1>4, <1>5, <3>1, <3>2 DEF ReceiptsOK
  <2>6. CASE RequestStop
    <3>1. host' = [host EXCEPT !.stop = TRUE]
      BY <2>6 DEF RequestStop
    <3>2. host'.rows = host.rows /\ host'.pc = host.pc
      BY <1>1, <3>1 DEF HostType
    <3>. QED BY <1>1, <1>4, <1>5, <1>6, <3>2 DEF ReceiptsOK
  <2>7. ~(EndRepair \/ Refuse \/ FinishPrune \/ Crash)
    BY <1>6 DEF EndRepair, Refuse, FinishPrune, Crash, Off
  <2>8. ~(Fetch \/ LeaveLoop \/ Drained \/ \E kind \in {"repair", "pilot"} : StartRepair(kind))
    BY <1>1, <1>6 DEF Fetch, LeaveLoop, Drained, StartRepair, HostType, Off
  <2>9. ASSUME NEW p \in Pdf PROVE ~Collect(p)
    BY <1>1, <1>6 DEF Collect, HostType
  <2>. QED
    BY <2>1, <2>2, <2>3, <2>4, <2>5, <2>6, <2>7, <2>8, <2>9 DEF Change, HostStep
<1>. QED BY <1>3, <1>6 DEF ReceiptsOK

LEMMA SameErrors ==
    ASSUME UNCHANGED log, NEW p
    PROVE  Failed(p)' <=> Failed(p)
<1>1. LastError(p)' = LastError(p)
  BY DEF LastError, SelectLastInSeq
<1>. QED BY <1>1 DEF Failed

LEMMA ChosenStays ==
    ASSUME Base, Change
    PROVE  Chosen'
<1>1. host \in HostType /\ Chosen
  BY DEF Base, Typed
<1>. SUFFICES ASSUME host'.pc = "prepared", NEW e \in host'.rows
              PROVE  Failed(e.id)'
  BY DEF Chosen
<1>2. UNCHANGED log
  <2>1. ASSUME NEW p \in Pdf PROVE ~LogError(p)
    BY DEF LogError
  <2>. QED BY <2>1 DEF Change, LogStep
<1>3. ASSUME Failed(e.id) PROVE Failed(e.id)'
  BY <1>2, <1>3, SameErrors
<1>4. CASE \E kind \in {"prune", "prune-doi"} : Prepare(kind)
  <2>1. PICK kind \in {"prune", "prune-doi"} : Prepare(kind)
    BY <1>4
  <2>2. host' = [Off EXCEPT !.program = kind, !.pc = "prepared",
                            !.rows = Entries(Selected(kind))]
    BY <2>1 DEF Prepare
  <2>3. host'.rows = Entries(Selected(kind))
    BY <2>2 DEF Off
  <2>4. e.id \in Selected(kind) /\ MapIsSound
    BY <2>1, <2>3 DEF Entries, Prepare
  <2>. QED BY <1>3, <2>4, SelectedFailed
<1>5. CASE ~\E kind \in {"prune", "prune-doi"} : Prepare(kind)
  <2>1. host.pc = "prepared" /\ host'.rows = host.rows
    <3>1. ~(EndRepair \/ Refuse \/ FinishPrune \/ Crash \/ Resume)
      <4>1. host' # Off
        BY DEF Off
      <4>2. ~Resume
        BY DEF Resume, Off
      <4>. QED BY <4>1, <4>2 DEF EndRepair, Refuse, FinishPrune, Crash
    <3>2. ~(Fetch \/ LeaveLoop \/ Drained \/ DeleteRows \/ RecordCommit)
      BY <1>1 DEF Fetch, LeaveLoop, Drained, DeleteRows, RecordCommit, HostType
    <3>3. ASSUME NEW kind \in {"repair", "pilot"} PROVE ~StartRepair(kind)
      BY DEF StartRepair, Off
    <3>4. ASSUME NEW p \in Pdf PROVE ~Collect(p)
      BY <1>1 DEF Collect, HostType
    <3>5. ASSUME RequestStop PROVE host.pc = "prepared" /\ host'.rows = host.rows
      BY <1>1, <3>5 DEF RequestStop, HostType
    <3>. QED BY <1>5, <3>1, <3>2, <3>3, <3>4, <3>5 DEF Change, HostStep
  <2>. QED BY <1>1, <1>3, <2>1 DEF Chosen
<1>. QED BY <1>4, <1>5

(* Base is inductive.                                                       *)
LEMMA BaseInit ==
    ASSUME Init
    PROVE  Base
<1>1. \A p \in Pdf : /\ row[p].sha = SeedSha[p] /\ row[p].doi = SeedDoi[p] /\ row[p].done = None
                     /\ row[p].state = IF SeedSha[p] = None THEN "none" ELSE "active"
  BY DEF Init
<1>2. TypeOK
  <2>1. row \in [Pdf -> RowType]
    BY FileAssumption DEF Init, RowType, FileAssumption
  <2>2. log \in Seq([id: Pdf, kind: Kinds]) /\ Len(log) = 0
    <3>1. log = <<>>
      BY DEF Init
    <3>. QED BY <3>1, EmptySeq
  <2>3. state \in [failed: 0 .. Len(log), cursor: Nat]
    <3>1. state = [failed |-> 0, cursor |-> 0]
      BY DEF Init
    <3>. QED BY <2>2, <3>1
  <2>4. objects \subseteq Hash
    <3>1. objects = {SeedSha[p] : p \in Pdf} \ {None}
      BY DEF Init
    <3>2. \A p \in Pdf : SeedSha[p] \in Hash \cup {None}
      BY FileAssumption DEF FileAssumption
    <3>. QED BY <3>1, <3>2
  <2>5. \A p \in Pdf : task[p].stage = "none"
    BY NoTaskTyped DEF Init, NoTasks
  <2>. QED BY <2>1, <2>2, <2>3, <2>4, <2>5 DEF TypeOK, Init, Off, Programs, Stages
<1>3. host \in HostType /\ task \in [Pdf -> TaskType] /\ upload \in [Request -> UploadType]
  BY NoTaskTyped DEF Init, Off, HostType, Programs, NoTasks, Idle, UploadType
<1>4. /\ \A p \in Pdf : task[p].stage = "none"
      /\ \A r \in Request : upload[r].pc = "idle"
  BY NoTaskTyped DEF Init, NoTasks, Idle
<1>5. HostOK /\ LogOK /\ ReceiptsOK /\ Chosen
  BY <1>4 DEF Init, HostOK, LogOK, At, ReceiptsOK, Chosen, Off
<1>6. RowsOK
  <2>1. \A p \in Pdf : Exists(p) => SeedSha[p] # None
    BY <1>1 DEF Exists
  <2>2. \A p \in Pdf : SeedSha[p] # None => SeedSha[p] \in Hash /\ SeedDoi[p] \in Doi
    BY FileAssumption, SeedAssumption DEF FileAssumption, SeedAssumption
  <2>3. \A p, q \in Pdf : SeedSha[p] # None /\ SeedSha[p] = SeedSha[q] => p = q
    BY SeedAssumption DEF SeedAssumption
  <2>4. \A p \in Pdf : Exists(p) => row[p].sha \in Hash /\ row[p].doi \in Doi
    BY <1>1, <2>1, <2>2
  <2>. QED BY <1>1, <2>1, <2>3, <2>4 DEF RowsOK
<1>7. TasksOK /\ UploadsKnown
  BY <1>4 DEF TasksOK, TaskOK, Taken, Certain, UploadsKnown
<1>. QED BY <1>2, <1>3, <1>5, <1>6, <1>7 DEF Base, Typed

LEMMA BaseInductive ==
    ASSUME Base, [Next]_vars
    PROVE  Base'
<1>1. CASE Next
  <2>1. Change
    BY <1>1, Changes
  <2>2. RowsOK' /\ TasksOK' /\ HostOK' /\ ReceiptsOK' /\ Chosen'
    BY <2>1, RowsStay, TasksStay, HostStays, ReceiptsStay, ChosenStays
  <2>3. /\ row' \in [Pdf -> RowType] /\ alias' \in [Hash -> Pdf \cup {None}]
        /\ objects' \subseteq Hash
    BY <2>1, LibraryTyped
  <2>4. /\ log' \in Seq([id: Pdf, kind: Kinds])
        /\ state' \in [failed: 0 .. Len(log'), cursor: Nat]
        /\ LogOK'
    BY <2>1, FilesTyped
  <2>5. /\ host' \in HostType
        /\ receipts' \subseteq [phase: {"prepared", "db-committed", "finished"},
                                rows: SUBSET Entry]
    BY <2>1, HostTyped
  <2>6. task' \in [Pdf -> TaskType]
    BY <2>1, TaskTyped
  <2>7. upload' \in [Request -> UploadType] /\ UploadsKnown'
    BY <2>1, UploadsTyped
  <2>8. host'.program \in Programs /\ \A p \in Pdf : task'[p].stage \in Stages
    BY <2>5, <2>6 DEF HostType, TaskType
  <2>. QED BY <2>2, <2>3, <2>4, <2>5, <2>6, <2>7, <2>8 DEF Base, Typed, TypeOK
<1>2. CASE UNCHANGED vars
  <2>1. UNCHANGED <<row, alias, objects, log, state, receipts, host, task, upload>>
    BY <1>2 DEF vars
  <2>2. Typed' /\ HostOK' /\ UploadsKnown'
    BY <2>1 DEF Base, Typed, TypeOK, HostOK, UploadsKnown
  <2>3. LogOK' /\ ReceiptsOK'
    BY <2>1 DEF Base, LogOK, At, ReceiptsOK
  <2>4. Chosen'
    BY <2>1, SameErrors DEF Base, Chosen
  <2>5. RowsOK' /\ TasksOK'
    BY <2>1 DEF Base, RowsOK, TasksOK, TaskOK, Exists, Repaired, NewSha, Recoverable, TitleFits
  <2>. QED BY <2>2, <2>3, <2>4, <2>5 DEF Base
<1>. QED BY <1>1, <1>2

(* The types of the variables: what any mix of repairs, prunes, uploads and *)
(* deletes leaves in the tables, the object store and the files.            *)
THEOREM TypeCorrect == Spec => []TypeOK
<1>1. Init => Base
  BY BaseInit
<1>2. Base /\ [Next]_vars => Base'
  BY BaseInductive
<1>3. Base => TypeOK
  BY DEF Base, Typed
<1>. QED BY <1>1, <1>2, <1>3, PTL DEF Spec

(* A row that a prune program deletes was not repaired, and its last error  *)
(* is one that the program is for.                                          *)
THEOREM PrunesFailures == Spec => PrunedAsFailed
<1>1. Init => Base
  BY BaseInit
<1>2. Base /\ [Next]_vars => Base'
  BY BaseInductive
<1>. DEFINE Pruned == \A p \in Pdf : Exists(p) /\ row'[p].state = "pruned" =>
                         /\ ~Repaired(p)
                         /\ LastError(p) # 0
                         /\ log[LastError(p)].kind # "other" \/ p \in FirstDoi
<1>3. Base /\ [Next]_vars => [Pruned]_vars
  <2>. SUFFICES ASSUME Base, Next, NEW p \in Pdf, Exists(p), row'[p].state = "pruned"
                PROVE  /\ ~Repaired(p)
                       /\ LastError(p) # 0
                       /\ log[LastError(p)].kind # "other" \/ p \in FirstDoi
    OBVIOUS
  <2>1. Change
    BY Changes
  <2>2. DeleteRows
    <3>1. ASSUME FixDoi(p) \/ Mark(p) \/ Commit(p) PROVE FALSE
      BY <3>1, RowAfter DEF Exists
    <3>2. row[p].state # "pruned"
      BY DEF Exists
    <3>3. Exists(p)' => FALSE
      BY DEF Exists
    <3>. QED BY <2>1, <3>1, <3>3, RowKept
  <2>3. p \in Ids /\ ~Repaired(p)
    BY <2>2, RowAfter DEF Exists
  <2>4. Failed(p)
    BY <2>2, <2>3 DEF DeleteRows, Ids, Base, Chosen
  <2>. QED BY <2>3, <2>4 DEF Failed
<1>. QED BY <1>1, <1>2, <1>3, PTL DEF Spec, PrunedAsFailed
-----------------------------------------------------------------------------
(* The objects.                                                             *)

LEMMA RepairedStays ==
    ASSUME Base, Change, NEW q \in Pdf, Exists(q), Repaired(q)
    PROVE  /\ Exists(q)' /\ Repaired(q)'
           /\ row'[q].sha = row[q].sha /\ row'[q].doi = row[q].doi
<1>1. ~(FixDoi(q) \/ Mark(q) \/ Commit(q))
  BY DEF FixDoi, Mark, Commit, Base, TasksOK, TaskOK, Taken
<1>2. CASE DeleteRows
  <2>1. row'[q] = row[q]
    BY <1>2, RowAfter
  <2>. QED BY <2>1 DEF Exists, Repaired
<1>3. CASE ~DeleteRows
  <2>1. /\ Exists(q)'
        /\ row'[q].sha = row[q].sha /\ row'[q].doi = row[q].doi
        /\ row'[q].done = row[q].done
    BY <1>1, <1>3, RowKept
  <2>. QED BY <2>1 DEF Repaired
<1>. QED BY <1>2, <1>3

(* What removes an object.                                                  *)
LEMMA ObjectGone ==
    ASSUME Change, NEW h \in objects, h \notin objects'
    PROVE  \/ \E q \in Pdf : UnlinkSource(q) /\ h = task[q].sha
           \/ \E e \in host.rows : Unlink(e) /\ h = e.sha
<1>1. ASSUME NEW p \in Pdf, Publish(p) PROVE FALSE
  BY <1>1 DEF Publish
<1>2. ASSUME NEW r \in Request, Store(r) PROVE FALSE
  BY <1>2 DEF Store, library, Keep
<1>3. \A p \in Pdf : UnlinkSource(p) => h = task[p].sha
  BY DEF UnlinkSource
<1>4. \A e \in host.rows : Unlink(e) => h = e.sha
  BY DEF Unlink
<1>. QED BY <1>1, <1>2, <1>3, <1>4 DEF Change, ObjectStep

(* The two stages that Kept is about, and what brings a task to them.       *)
LEMMA StageAfter ==
    ASSUME Base, Change, NEW q \in Pdf, task'[q].stage \in {"linked", "committed"}
    PROVE  \/ task'[q] = task[q]
           \/ /\ task'[q].stage = "linked" /\ Publish(q)
              /\ task'[q].sha = task[q].sha /\ NewSha(q) \in objects'
           \/ /\ task'[q].stage = "committed" /\ Commit(q)
              /\ task'[q].sha = task[q].sha
              /\ row' = [row EXCEPT ![q].sha = NewSha(q), ![q].done = NewSha(q)]
<1>. SUFFICES ASSUME task'[q] # task[q]
              PROVE  \/ /\ task'[q].stage = "linked" /\ Publish(q)
                        /\ task'[q].sha = task[q].sha /\ NewSha(q) \in objects'
                     \/ /\ task'[q].stage = "committed" /\ Commit(q)
                        /\ task'[q].sha = task[q].sha
                        /\ row' = [row EXCEPT ![q].sha = NewSha(q), ![q].done = NewSha(q)]
  OBVIOUS
<1>1. task \in [Pdf -> TaskType]
  BY DEF Base, Typed
<1>2. ASSUME Fetch \/ EndRepair \/ Crash PROVE FALSE
  <2>1. ASSUME task'[q] = NoTask PROVE FALSE
    BY <2>1, NoTaskTyped
  <2>2. ASSUME task'[q] = [NoTask EXCEPT !.stage = "queued",
                                         !.sha = row[q].sha, !.doi = row[q].doi]
        PROVE  FALSE
    BY <2>2 DEF NoTask
  <2>3. CASE Fetch
    BY <2>1, <2>2, <2>3, Fetched
  <2>4. CASE EndRepair \/ Crash
    BY <2>1, <2>4 DEF EndRepair, Crash, NoTasks
  <2>. QED BY <1>2, <2>3, <2>4
<1>3. PICK p \in Pdf : Submit(p) \/ LogError(p) \/ Collect(p) \/ Worker(p) \/ Trip(p)
  BY <1>2 DEF Change, TaskStep
<1>4. p = q
  BY <1>3, TaskAfter DEF TaskEdit
<1>5. ASSUME NEW k, Fails(q, k) PROVE FALSE
  BY <1>5, FailsFields
<1>6. ASSUME NEW st, To(q, st)
      PROVE  task'[q].stage = st /\ task'[q].sha = task[q].sha
  BY <1>6, ToFields
<1>7. ~(Submit(q) \/ LogError(q) \/ Collect(q) \/ UnlinkSource(q))
  <2>1. ASSUME NEW st \in {"busy", "logged", "completed", "ok"}, To(q, st) PROVE FALSE
    BY <1>6, <2>1
  <2>2. Submit(q) => To(q, "busy")
    BY DEF Submit, To
  <2>3. LogError(q) => To(q, "logged")
    BY DEF LogError, To
  <2>4. Collect(q) => To(q, "completed")
    BY DEF Collect, To
  <2>5. UnlinkSource(q) => To(q, "ok")
    BY DEF UnlinkSource
  <2>. QED BY <2>1, <2>2, <2>3, <2>4, <2>5
<1>8. ~(Examine(q) \/ Optimize(q) \/ Mark(q) \/ Trip(q))
  BY <1>5, <1>6 DEF Examine, Optimize, Mark, Trip
<1>9. ~FixDoi(q)
  <2>1. ASSUME task' = [task EXCEPT ![q].stage = "optimize", ![q].doi = Stripped[task[q].doi]]
        PROVE  FALSE
    <3>1. task'[q] = [task[q] EXCEPT !.stage = "optimize", !.doi = Stripped[task[q].doi]]
      BY <1>1, <2>1
    <3>. QED BY <1>1, <3>1 DEF TaskType
  <2>. QED BY <1>5, <2>1 DEF FixDoi
<1>10. ASSUME Publish(q)
       PROVE  /\ task'[q].stage = "linked" /\ task'[q].sha = task[q].sha
              /\ NewSha(q) \in objects'
  BY <1>5, <1>6, <1>10 DEF Publish
<1>11. ASSUME Commit(q)
       PROVE  /\ task'[q].stage = "committed" /\ task'[q].sha = task[q].sha
              /\ row' = [row EXCEPT ![q].sha = NewSha(q), ![q].done = NewSha(q)]
  BY <1>5, <1>6, <1>11 DEF Commit
<1>. QED
  BY <1>3, <1>4, <1>7, <1>8, <1>9, <1>10, <1>11 DEF Worker

LEMMA UploadAfter ==
    ASSUME Base, Change, NEW r \in Request, upload'[r].pc = "stored"
    PROVE  \/ upload'[r] = upload[r]
           \/ upload'[r].staged
           \/ upload'[r].sha \in objects'
<1>1. upload \in [Request -> UploadType]
  BY DEF Base, Typed
<1>2. ASSUME NEW x \in Request, Store(x) PROVE upload'[r] = upload[r]
  <2>1. upload' = [upload EXCEPT ![x] = Idle]
    BY <1>2 DEF Store
  <2>. DEFINE idle == Idle
  <2>2. upload' = [upload EXCEPT ![x] = idle] /\ idle.pc = "idle"
    BY <2>1 DEF Idle
  <2>. HIDE DEF idle
  <2>3. r # x
    BY <1>1, <2>2
  <2>. QED BY <1>1, <2>2, <2>3
<1>3. ASSUME NEW x \in Request, NEW h \in Hash, Receive(x, h)
      PROVE  \/ upload'[r] = upload[r]
             \/ upload'[r].staged
             \/ upload'[r].sha \in objects'
  <2>. DEFINE new == [pc |-> "stored", sha |-> h, staged |-> h \notin objects]
  <2>1. upload' = [upload EXCEPT ![x] = new] /\ UNCHANGED objects
    BY <1>3 DEF Receive, library
  <2>2. new.staged \/ new.sha \in objects
    <3>1. CASE h \in objects
      BY <3>1
    <3>2. CASE h \notin objects
      BY <3>2, Zenon
    <3>. QED BY <3>1, <3>2
  <2>. HIDE DEF new
  <2>3. upload'[r] = upload[r] \/ upload'[r] = new
    BY <1>1, <2>1
  <2>. QED BY <2>1, <2>2, <2>3
<1>. QED BY <1>2, <1>3 DEF Change, UploadStep

LEMMA AgreesStay ==
    ASSUME NormalDois, Base, Change, RowsAgree
    PROVE  RowsAgree'
<1>. SUFFICES ASSUME NEW p \in Pdf, Exists(p)', ~Repaired(p)'
              PROVE  Agrees(row'[p].sha, row'[p].doi)
  BY DEF RowsAgree
<1>1. \A h \in Hash : Agrees(h, DoiOf[h])
  BY DEF NormalDois, Agrees
<1>2. CASE ~Exists(p)
  <2>1. PICK r \in Request :
           /\ Store(r) /\ upload[r].sha \in Hash
           /\ row'[p].state = "active" /\ row'[p].sha = upload[r].sha
           /\ row'[p].doi = DoiOf[upload[r].sha] /\ row'[p].done = None
           /\ \A x \in Pdf \ {p} : row'[x] = row[x]
           /\ objects' = IF upload[r].staged THEN objects \cup {upload[r].sha} ELSE objects
           /\ \A x \in Pdf : Exists(x) =>
                 row[x].sha # upload[r].sha /\ row[x].doi # DoiOf[upload[r].sha]
    BY <1>2, NewRow
  <2>. QED BY <1>1, <2>1
<1>3. ASSUME Exists(p), row'[p] = row[p] PROVE Agrees(row'[p].sha, row'[p].doi)
  BY <1>3 DEF RowsAgree, Repaired
<1>4. CASE Exists(p) /\ DeleteRows
  BY <1>3, <1>4, RowAfter DEF Exists
<1>5. CASE Exists(p) /\ ~DeleteRows /\ ~(FixDoi(p) \/ Mark(p) \/ Commit(p))
  <2>1. /\ row'[p].sha = row[p].sha /\ row'[p].doi = row[p].doi
        /\ row'[p].done = row[p].done
    BY <1>5, RowKept
  <2>. QED BY <1>5, <2>1 DEF RowsAgree, Repaired
<1>6. CASE Exists(p) /\ FixDoi(p)
  <2>1. /\ row[p].sha = task[p].sha /\ row[p].doi = task[p].doi /\ ~Repaired(p)
        /\ task[p].doi \notin Registered /\ Stripped[task[p].doi] # None
        /\ Recoverable(task[p].sha, task[p].doi) /\ row[p].sha \in Hash
    BY <1>6 DEF FixDoi, Base, TasksOK, TaskOK, Taken, RowsOK
  <2>2. Stripped[task[p].doi] = DoiOf[row[p].sha]
    BY <1>6, <2>1 DEF RowsAgree, Agrees
  <2>3. CASE row'[p].sha = row[p].sha /\ row'[p].doi = Stripped[task[p].doi]
    BY <1>1, <2>1, <2>2, <2>3
  <2>. QED BY <1>3, <1>6, <2>3, RowAfter
<1>7. CASE Exists(p) /\ Mark(p)
  <2>1. row[p].sha = task[p].sha
    BY <1>7 DEF Mark, Base, TasksOK, TaskOK, Taken
  <2>2. CASE row'[p].sha = row[p].sha /\ row'[p].done = task[p].sha
    BY <2>1, <2>2 DEF Repaired
  <2>. QED BY <1>3, <1>7, <2>2, RowAfter
<1>8. CASE Exists(p) /\ Commit(p)
  <2>1. CASE row'[p].sha = NewSha(p) /\ row'[p].done = NewSha(p)
    BY <2>1 DEF Repaired
  <2>. QED BY <1>3, <1>8, <2>1, RowAfter
<1>. QED BY <1>2, <1>4, <1>5, <1>6, <1>7, <1>8

LEMMA SourcesStay ==
    ASSUME NormalDois, RepairedOnce, Base, Change, Kept
    PROVE  SourcesOK'
<1>. SUFFICES ASSUME NEW q \in Pdf
              PROVE  SourceOK(q)'
  BY DEF SourcesOK
<1>1. SourceOK(q) /\ TaskOK(q)
  BY DEF Kept, SourcesOK, Base, TasksOK
(* No repaired file is the source of a repair.                              *)
<1>2. ASSUME NEW x \in Pdf, NEW y \in Pdf, task[x].sha \in Hash,
             NewSha(x) = task[y].sha, NewSha(y) # task[y].sha
      PROVE  FALSE
  BY <1>2 DEF RepairedOnce, NewSha
<1>3. ASSUME task'[q].stage = "linked" PROVE NewSha(q)' \in objects'
  <2>1. CASE Publish(q) /\ task'[q].sha = task[q].sha /\ NewSha(q) \in objects'
    BY <2>1 DEF NewSha
  <2>2. CASE task'[q] = task[q]
    <3>1. NewSha(q)' = NewSha(q) /\ NewSha(q) \in objects /\ task[q].stage = "linked"
      BY <1>1, <1>3, <2>2 DEF NewSha, SourceOK
    <3>2. task[q].sha \in Hash
      BY <1>1, <3>1 DEF TaskOK, Taken, Base, RowsOK
    <3>3. ASSUME NEW x \in Pdf, UnlinkSource(x), NewSha(q) = task[x].sha PROVE FALSE
      <4>1. NewSha(x) # task[x].sha
        BY <3>3 DEF UnlinkSource, Base, TasksOK, TaskOK
      <4>. QED BY <1>2, <3>2, <3>3, <4>1
    <3>4. ASSUME NEW e \in host.rows, Unlink(e) PROVE FALSE
      BY <3>1, <3>4, NoTaskTyped DEF Unlink, Base, HostOK, NoTasks
    <3>. QED BY <3>1, <3>3, <3>4, ObjectGone
  <2>. QED BY <1>3, <2>1, <2>2, StageAfter
<1>4. ASSUME task'[q].stage = "committed"
      PROVE  /\ row'[q].doi = DoiOf[task'[q].sha]
             /\ \A x \in Pdf : Exists(x)' => row'[x].sha # task'[q].sha
  <2>1. CASE /\ Commit(q) /\ task'[q].sha = task[q].sha
             /\ row' = [row EXCEPT ![q].sha = NewSha(q), ![q].done = NewSha(q)]
    <3>1. /\ Exists(q) /\ ~Repaired(q) /\ row[q].sha = task[q].sha
          /\ row[q].doi \in Registered /\ NewSha(q) # task[q].sha
      BY <1>1, <2>1 DEF Commit, TaskOK, Taken, Certain
    <3>2. row[q].doi = DoiOf[task[q].sha]
      BY <3>1 DEF Kept, RowsAgree, Agrees
    <3>3. row \in [Pdf -> RowType]
      BY DEF Base, Typed, TypeOK
    <3>4. row'[q].doi = row[q].doi /\ row'[q].sha = NewSha(q)
      BY <2>1, <3>3 DEF RowType
    <3>5. \A x \in Pdf \ {q} : row'[x] = row[x]
      BY <2>1, <3>3
    <3>6. \A x \in Pdf \ {q} : Exists(x) => row[x].sha # row[q].sha
      BY <3>1 DEF Base, RowsOK
    <3>. QED BY <2>1, <3>1, <3>2, <3>4, <3>5, <3>6 DEF Exists
  <2>2. CASE task'[q] = task[q]
    <3>1. /\ row[q].doi = DoiOf[task[q].sha]
          /\ \A x \in Pdf : Exists(x) => row[x].sha # task[q].sha
          /\ Exists(q) /\ Repaired(q) /\ NewSha(q) # task[q].sha
      BY <1>1, <1>4, <2>2 DEF SourceOK, TaskOK
    <3>2. row'[q].doi = row[q].doi
      BY <3>1, RepairedStays
    <3>3. ASSUME NEW x \in Pdf, Exists(x)', ~Exists(x) PROVE row'[x].sha # task[q].sha
      <4>1. PICK r \in Request :
               /\ Store(r) /\ upload[r].sha \in Hash
               /\ row'[x].state = "active" /\ row'[x].sha = upload[r].sha
               /\ row'[x].doi = DoiOf[upload[r].sha] /\ row'[x].done = None
               /\ \A z \in Pdf \ {x} : row'[z] = row[z]
               /\ objects' = IF upload[r].staged THEN objects \cup {upload[r].sha} ELSE objects
               /\ \A z \in Pdf : Exists(z) =>
                     row[z].sha # upload[r].sha /\ row[z].doi # DoiOf[upload[r].sha]
        BY <3>3, NewRow
      <4>. QED BY <3>1, <4>1
    <3>4. ASSUME NEW x \in Pdf, Exists(x)', Exists(x), row'[x].sha # row[x].sha
          PROVE  row'[x].sha # task[q].sha
      <4>1. Commit(x) /\ row'[x].sha = NewSha(x)
        BY <3>4, ShaChanged
      <4>2. task[x].sha \in Hash
        BY <4>1 DEF Commit, Base, TasksOK, TaskOK, Taken, RowsOK
      <4>. QED BY <1>2, <3>1, <4>1, <4>2
    <3>5. ASSUME NEW x \in Pdf, Exists(x)' PROVE row'[x].sha # task[q].sha
      BY <3>1, <3>3, <3>4, <3>5
    <3>. QED BY <2>2, <3>1, <3>2, <3>5
  <2>. QED BY <1>4, <2>1, <2>2, StageAfter
<1>. QED BY <1>3, <1>4 DEF SourceOK

LEMMA UploadsStay ==
    ASSUME Base, Change, Kept
    PROVE  UploadsOK'
<1>. SUFFICES ASSUME NEW r \in Request, upload'[r].pc = "stored",
                     ~upload'[r].staged, upload'[r].sha \notin objects'
              PROVE  \/ \E x \in receipts' : \E e \in x.rows : e.sha = upload'[r].sha
                     \/ \E q \in Pdf : /\ Exists(q)' /\ Repaired(q)'
                                       /\ row'[q].doi = DoiOf[upload'[r].sha]
  <2>1. ASSUME NEW r \in Request, upload'[r].pc = "stored",
               ~upload'[r].staged, upload'[r].sha \notin objects',
               \/ \E x \in receipts' : \E e \in x.rows : e.sha = upload'[r].sha
               \/ \E q \in Pdf : /\ Exists(q)' /\ Repaired(q)'
                                 /\ row'[q].doi = DoiOf[upload'[r].sha]
        PROVE  UploadOK(r)'
    BY <2>1 DEF UploadOK, InReceipt
  <2>. QED BY <2>1 DEF UploadsOK, UploadOK
<1>1. upload'[r] = upload[r]
  BY UploadAfter
<1>. DEFINE h == upload[r].sha
<1>2. UploadOK(r)
  BY DEF Kept, UploadsOK
<1>3. ASSUME NEW q \in Pdf, Exists(q), Repaired(q), row[q].doi = DoiOf[h]
      PROVE  Exists(q)' /\ Repaired(q)' /\ row'[q].doi = DoiOf[h]
  <2>. HIDE DEF h
  <2>. QED BY <1>3, RepairedStays
<1>4. ASSUME InReceipt(h)
      PROVE  \E x \in receipts' : \E e \in x.rows : e.sha = h
  <2>1. PICK y \in receipts : \E e \in y.rows : e.sha = h
    BY <1>4 DEF InReceipt
  <2>2. \E x \in receipts' : x.rows = y.rows
    BY ReceiptsKept
  <2>. QED BY <2>1, <2>2
<1>5. ASSUME h \in objects
      PROVE  \/ InReceipt(h)
             \/ \E q \in Pdf : Exists(q) /\ Repaired(q) /\ row[q].doi = DoiOf[h]
  <2>1. ASSUME NEW q \in Pdf, UnlinkSource(q), h = task[q].sha
        PROVE  Exists(q) /\ Repaired(q) /\ row[q].doi = DoiOf[h]
    BY <2>1 DEF UnlinkSource, Kept, SourcesOK, SourceOK, Base, TasksOK, TaskOK
  <2>2. ASSUME NEW e \in host.rows, Unlink(e), h = e.sha PROVE InReceipt(h)
    BY <2>2 DEF Unlink, Base, ReceiptsOK, InReceipt
  <2>3. h \notin objects'
    BY <1>1
  <2>. HIDE DEF h
  <2>. QED BY <1>5, <2>1, <2>2, <2>3, ObjectGone
<1>6. upload[r].pc = "stored" /\ ~upload[r].staged
  BY <1>1
<1>7. h \in objects \/ InReceipt(h)
         \/ \E q \in Pdf : Exists(q) /\ Repaired(q) /\ row[q].doi = DoiOf[h]
  BY <1>2, <1>6 DEF UploadOK
<1>. QED BY <1>1, <1>3, <1>4, <1>5, <1>7

LEMMA StoredStays ==
    ASSUME Base, Change, Kept
    PROVE  StoredUnlessPruned'
<1>. SUFFICES ASSUME NEW p \in Pdf, Exists(p)', row'[p].sha \notin objects'
              PROVE  \E x \in receipts' : \E e \in x.rows : e.sha = row'[p].sha /\ e.id # p
  BY DEF StoredUnlessPruned
(* A receipt stays.                                                         *)
<1>1. ASSUME NEW x \in receipts, NEW e \in x.rows, e.sha = row'[p].sha, e.id # p
      PROVE  \E y \in receipts' : \E f \in y.rows : f.sha = row'[p].sha /\ f.id # p
  <2>1. \E y \in receipts' : y.rows = x.rows
    BY ReceiptsKept
  <2>. QED BY <1>1, <2>1
<1>2. CASE ~Exists(p)
  <2>1. PICK r \in Request :
           /\ Store(r) /\ upload[r].sha \in Hash
           /\ row'[p].state = "active" /\ row'[p].sha = upload[r].sha
           /\ row'[p].doi = DoiOf[upload[r].sha] /\ row'[p].done = None
           /\ \A x \in Pdf \ {p} : row'[x] = row[x]
           /\ objects' = IF upload[r].staged THEN objects \cup {upload[r].sha} ELSE objects
           /\ \A x \in Pdf : Exists(x) =>
                 row[x].sha # upload[r].sha /\ row[x].doi # DoiOf[upload[r].sha]
    BY <1>2, NewRow
  <2>2. ~upload[r].staged /\ upload[r].sha \notin objects
    BY <2>1
  <2>3. UploadOK(r) /\ upload[r].pc = "stored"
    BY <2>1 DEF Kept, UploadsOK, Store
  <2>4. InReceipt(upload[r].sha)
    BY <2>1, <2>2, <2>3 DEF UploadOK
  <2>5. PICK x \in receipts : \E e \in x.rows : e.sha = row'[p].sha
    BY <2>1, <2>4 DEF InReceipt
  <2>6. row[p].state = "none"
    BY <1>2, RowStates
  <2>7. \A e \in x.rows : e.id # p
    BY <2>6 DEF Base, ReceiptsOK
  <2>. QED BY <1>1, <2>5, <2>7
<1>3. CASE Exists(p) /\ row'[p].sha # row[p].sha
  <2>1. Commit(p) /\ row'[p].sha = NewSha(p)
    BY <1>3, ShaChanged
  <2>2. NewSha(p) \in objects /\ UNCHANGED objects
    BY <2>1 DEF Commit, Kept, SourcesOK, SourceOK
  <2>. QED BY <2>1, <2>2
<1>4. CASE Exists(p) /\ row'[p].sha = row[p].sha /\ row[p].sha \notin objects
  <2>1. \E x \in receipts : \E e \in x.rows : e.sha = row[p].sha /\ e.id # p
    BY <1>4 DEF Kept, StoredUnlessPruned
  <2>. QED BY <1>1, <1>4, <2>1
<1>5. CASE Exists(p) /\ row'[p].sha = row[p].sha /\ row[p].sha \in objects
  <2>1. ASSUME NEW q \in Pdf, UnlinkSource(q), row[p].sha = task[q].sha PROVE FALSE
    BY <1>5, <2>1 DEF UnlinkSource, Kept, SourcesOK, SourceOK
  <2>2. PICK f \in host.rows : Unlink(f) /\ row[p].sha = f.sha
    BY <1>5, <2>1, ObjectGone
  <2>3. row[f.id].state = "pruned" /\ \E x \in receipts : x.rows = host.rows
    BY <2>2 DEF Unlink, Base, ReceiptsOK
  <2>4. f.id # p
    BY <1>5, <2>3 DEF Exists
  <2>. QED BY <1>1, <1>5, <2>2, <2>3, <2>4
<1>. QED BY <1>2, <1>3, <1>4, <1>5

LEMMA KeptInit ==
    ASSUME SeedsAgree, Init
    PROVE  Kept
<1>1. \A p \in Pdf : /\ row[p].sha = SeedSha[p] /\ row[p].doi = SeedDoi[p]
                     /\ row[p].state = IF SeedSha[p] = None THEN "none" ELSE "active"
  BY DEF Init
<1>2. \A p \in Pdf : task[p].stage = "none"
  BY NoTaskTyped DEF Init, NoTasks
<1>3. \A r \in Request : upload[r].pc = "idle"
  BY DEF Init, Idle
<1>4. \A p \in Pdf : Exists(p) => SeedSha[p] # None
  BY <1>1 DEF Exists
<1>5. RowsAgree
  BY <1>1, <1>4 DEF RowsAgree, SeedsAgree
<1>6. StoredUnlessPruned
  <2>1. objects = {SeedSha[p] : p \in Pdf} \ {None}
    BY DEF Init
  <2>. QED BY <1>1, <1>4, <2>1 DEF StoredUnlessPruned
<1>. QED BY <1>2, <1>3, <1>5, <1>6 DEF Kept, SourcesOK, SourceOK, UploadsOK, UploadOK

LEMMA KeptInductive ==
    ASSUME NormalDois, RepairedOnce, Base, Kept, [Next]_vars
    PROVE  Kept'
<1>1. CASE Next
  <2>1. Change
    BY <1>1, Changes
  <2>2. RowsAgree'
    BY <2>1, AgreesStay DEF Kept
  <2>. QED BY <2>1, <2>2, SourcesStay, UploadsStay, StoredStays DEF Kept
<1>2. CASE UNCHANGED vars
  <2>1. UNCHANGED <<row, objects, receipts, task, upload>>
    BY <1>2 DEF vars
  <2>2. \A p \in Pdf : (Exists(p)' <=> Exists(p)) /\ (Repaired(p)' <=> Repaired(p))
    BY <2>1 DEF Exists, Repaired
  <2>3. RowsAgree' /\ StoredUnlessPruned'
    BY <2>1, <2>2 DEF Kept, RowsAgree, StoredUnlessPruned
  <2>4. SourcesOK'
    BY <2>1, <2>2 DEF Kept, SourcesOK, SourceOK, NewSha
  <2>5. UploadsOK'
    BY <2>1, <2>2 DEF Kept, UploadsOK, UploadOK, InReceipt
  <2>. QED BY <2>3, <2>4, <2>5 DEF Kept
<1>. QED BY <1>1, <1>2

(* Every article has its object, unless its bytes are on a receipt, though  *)
(* repairs, prunes, uploads and deletes go on at once.                      *)
THEOREM ObjectsKept ==
    ASSUME NormalDois, SeedsAgree, RepairedOnce
    PROVE  Spec => []StoredUnlessPruned
<1>1. Init => Base /\ Kept
  BY BaseInit, KeptInit
<1>2. Base /\ Kept /\ [Next]_vars => (Base /\ Kept)'
  BY BaseInductive, KeptInductive
<1>3. Base /\ Kept => StoredUnlessPruned
  BY DEF Kept
<1>. QED BY <1>1, <1>2, <1>3, PTL DEF Spec
=============================================================================

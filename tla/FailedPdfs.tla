------------------------------ MODULE FailedPdfs ------------------------------
(***************************************************************************)
(* What the host does about PDFs that PDFCraft could not optimize.          *)
(* scripts/retry_pdfcraft_failures.py repairs them: it corrects a polluted  *)
(* DOI, optimizes, writes the DOI into the file and replaces the object; it *)
(* keeps a log of errors, a counter and a cursor.  prune_failed_pdfs.py and *)
(* prune_unresolved_doi_pdfs.py delete those that it failed on for certain  *)
(* reasons: rows in one transaction, objects after it, with a receipt from  *)
(* which the second half can be resumed.  All take one lock, and uploads    *)
(* and deletes of the server go on beside them.                             *)
(*                                                                          *)
(* Bytes are a hash.  A forced upload is in Upload and in Compressor.       *)
(***************************************************************************)
EXTENDS Naturals, FiniteSets, SequencesExt

CONSTANTS Pdf,          \* ids of table pdfs
          Hash, Doi,
          None,
          SeedSha, SeedDoi,   \* the library at the start, None where there is no row
          DoiOf,        \* the DOI under which an upload of these bytes is stored
          Registered,   \* DOIs that Crossref has
          Stripped,     \* a DOI without the PDF syntax it ends in, None if in none
          Form,         \* of the bytes as a PDF
          Cites,        \* DOIs whose doi.org address is in the bytes
          Titled,       \* the article whose title the document info has, or None
          InfoDois,     \* all DOIs of the document info
          OwnDoi,       \* that of its /DOI, or None
          Smaller,      \* the repaired bytes, /DOI included; the same when not smaller
          FirstDoi,     \* ids whose last error in the first program was the DOI
          Request,      \* concurrent uploads
          Jobs, PageSize, PilotLimit,   \* --jobs, 100 rows, --limit
          MaxRuns,      \* bound on programs started
          MaxChanges,   \* bound on uploads and deletes
          MaxHalts      \* bound on signals and crashes

ASSUME PdfAssumption ==
    /\ Pdf \subseteq Nat \ {0}
    /\ None \notin Pdf /\ None \notin Hash /\ None \notin Doi

ASSUME FileAssumption ==
    /\ SeedSha \in [Pdf -> Hash \cup {None}] /\ SeedDoi \in [Pdf -> Doi \cup {None}]
    /\ DoiOf \in [Hash -> Doi]
    /\ Registered \subseteq Doi /\ Stripped \in [Doi -> Doi \cup {None}]
    /\ Form \in [Hash -> {"sound", "signed", "encrypted", "damaged",
                         "permissions", "no pages"}]
    /\ {Cites, InfoDois} \subseteq [Hash -> SUBSET Doi]
    /\ {Titled, OwnDoi} \subseteq [Hash -> Doi \cup {None}]
    /\ Smaller \in [Hash -> Hash]
    /\ FirstDoi \subseteq Pdf

(* Table pdfs: sha256 UNIQUE, and a row has both columns or is none.        *)
ASSUME SeedAssumption ==
    /\ \A p \in Pdf : SeedSha[p] = None <=> SeedDoi[p] = None
    /\ \A p, q \in Pdf : SeedSha[p] # None /\ SeedSha[p] = SeedSha[q] => p = q

ASSUME BoundAssumption ==
    /\ {Jobs, PageSize, PilotLimit} \subseteq Nat \ {0}
    /\ {MaxRuns, MaxChanges, MaxHalts} \subseteq Nat

VARIABLES row,       \* table pdfs
          alias,     \* pdf_file_aliases: the row a hash is bound to
          objects,   \* hashes with a file in the object store
          log,       \* pdfcraft-repair-errors.jsonl
          state,     \* pdfcraft-repair-state.json: failures counted, full_cursor
          receipts,  \* the receipts of the prune programs
          host,      \* the program that holds the lock
          task,      \* each row of the repair's batch
          upload,    \* requests of the server
          runs, changes, halts

library == <<row, alias, objects>>
files   == <<log, state, receipts>>
bounds  == <<runs, changes, halts>>
vars    == <<row, alias, objects, log, state, receipts, host, task, upload, runs, changes, halts>>

RowType == [state: {"none", "active", "deleted", "pruned"},   \* ids are not reused
            sha: Hash \cup {None}, doi: Doi \cup {None},
            done: Hash \cup {None}]         \* pdfcraft_processed_sha256
Entry   == [id: Pdf, sha: Hash]
Kinds   == {"unfit", "identity", "other"}
Stages  == {"none", "queued", "busy", "fix", "optimize", "mark", "replace",
            "linked", "committed", "ok", "failed", "logged", "completed"}
Programs == {"off", "repair", "pilot", "prune", "prune-doi", "resume"}

Exists(p) == row[p].state \in {"active", "deleted"}
Active(p) == row[p].state = "active"
Repaired(p) == row[p].done = row[p].sha

Off     == [program |-> "off", pc |-> "off", cursor |-> 0, max |-> 0,
            good |-> 0, stop |-> FALSE, rows |-> {}]
NoTask  == [stage |-> "none", sha |-> None, doi |-> None, kind |-> "other"]
NoTasks == [p \in Pdf |-> NoTask]
Idle    == [pc |-> "idle", sha |-> None, staged |-> FALSE]

Init ==
    /\ row = [p \in Pdf |-> [state |-> IF SeedSha[p] = None THEN "none" ELSE "active",
                             sha |-> SeedSha[p], doi |-> SeedDoi[p], done |-> None]]
    /\ alias = [h \in Hash |-> None]
    /\ objects = {SeedSha[p] : p \in Pdf} \ {None}
    /\ log = <<>>
    /\ state = [failed |-> 0, cursor |-> 0]
    /\ receipts = {}
    /\ host = Off
    /\ task = NoTasks
    /\ upload = [r \in Request |-> Idle]
    /\ runs = 0 /\ changes = 0 /\ halts = 0
-----------------------------------------------------------------------------
(* The repair: main().                                                      *)
Sweeping == host.program = "repair"

StartRepair(kind) ==
    /\ host = Off
    /\ \E top \in Pdf :
          /\ Active(top)
          /\ \A q \in Pdf : Active(q) => q <= top
          /\ host' = [Off EXCEPT !.program = kind, !.pc = "page", !.max = top,
                                 !.cursor = IF kind = "repair" THEN state.cursor ELSE 0]
    /\ runs < MaxRuns /\ runs' = runs + 1
    /\ UNCHANGED <<library, files, task, upload, changes, halts>>

PilotDone == host.program = "pilot" /\ host.good >= PilotLimit

Candidates == {p \in Pdf : /\ host.cursor < p /\ p <= host.max
                           /\ Active(p) /\ ~Repaired(p)}

(* ORDER BY id LIMIT 100; the columns are those of this moment.             *)
Fetch ==
    /\ host.pc = "page"
    /\ host.cursor < host.max /\ ~host.stop /\ ~PilotDone
    /\ \E B \in SUBSET Candidates :
          /\ Cardinality(B) <= PageSize
          /\ B = Candidates \/ Cardinality(B) = PageSize
          /\ \A b \in B, p \in Candidates \ B : b < p
          /\ task' = [p \in Pdf |->
                        IF p \in B
                        THEN [NoTask EXCEPT !.stage = "queued",
                                            !.sha = row[p].sha, !.doi = row[p].doi]
                        ELSE NoTask]
          /\ host' = [host EXCEPT !.pc = IF B = {} THEN "end" ELSE "loop"]
    /\ UNCHANGED <<library, files, upload, bounds>>

LeaveLoop ==
    /\ host.pc = "page"
    /\ ~(host.cursor < host.max /\ ~host.stop /\ ~PilotDone)
    /\ host' = [host EXCEPT !.pc = "end"]
    /\ UNCHANGED <<library, files, task, upload, bounds>>

At(S)    == {p \in Pdf : task[p].stage \in S}
Working  == {"busy", "fix", "optimize", "mark", "replace", "linked", "committed"}
Futures  == At(Working \cup {"ok", "failed", "logged"})

CanSubmit ==
    /\ host.pc = "loop" /\ ~host.stop /\ ~PilotDone
    /\ At({"logged"}) = {}
    /\ Cardinality(Futures) < Jobs

Submit(p) ==
    /\ CanSubmit
    /\ task[p].stage = "queued"
    /\ \A q \in At({"queued"}) : p <= q
    /\ task' = [task EXCEPT ![p].stage = "busy"]
    /\ UNCHANGED <<library, files, host, upload, bounds>>

(* An error is appended to the log before the state file is written.        *)
LogError(p) ==
    /\ host.pc = "loop"
    /\ At({"logged"}) = {}
    /\ task[p].stage = "failed"
    /\ log' = Append(log, [id |-> p, kind |-> task[p].kind])
    /\ task' = [task EXCEPT ![p].stage = "logged"]
    /\ UNCHANGED <<library, state, receipts, host, upload, bounds>>

(* The cursor moves over the completed rows with no open one before them.   *)
Contiguous(c, done) ==
    LET prefix == {d \in done : \A b \in At(Stages \ {"none"}) : b <= d => b \in done}
    IN  /\ c \in prefix \cup {host.cursor}
        /\ \A d \in prefix \cup {host.cursor} : d <= c

(* Count the result, move the cursor, write the state file.  Only a full    *)
(* sweep counts its failures where the prune programs look.                 *)
Counted(p) == Sweeping /\ task[p].stage = "logged"

Collect(p) ==
    /\ host.pc = "loop"
    /\ task[p].stage = "logged" \/ (task[p].stage = "ok" /\ At({"logged"}) = {})
    /\ \E c \in Pdf \cup {host.cursor} :
          /\ Contiguous(c, At({"completed"}) \cup {p})
          /\ host' = [host EXCEPT !.cursor = c,
                                  !.good = @ + IF task[p].stage = "ok" THEN 1 ELSE 0]
          /\ state' = [failed |-> state.failed + IF Counted(p) THEN 1 ELSE 0,
                       cursor |-> IF Sweeping THEN c ELSE state.cursor]
    /\ task' = [task EXCEPT ![p].stage = "completed"]
    /\ UNCHANGED <<library, log, receipts, upload, bounds>>

Drained ==
    /\ host.pc = "loop"
    /\ Futures = {}
    /\ ~(CanSubmit /\ At({"queued"}) # {})
    /\ host' = [host EXCEPT !.pc = "page"]
    /\ UNCHANGED <<library, files, task, upload, bounds>>

(* A sweep that was not stopped starts over at the first id next time.      *)
EndRepair ==
    /\ host.pc = "end"
    /\ state' = IF Sweeping /\ ~host.stop THEN [state EXCEPT !.cursor = 0] ELSE state
    /\ host' = Off
    /\ task' = NoTasks
    /\ UNCHANGED <<library, log, receipts, upload, bounds>>
-----------------------------------------------------------------------------
(* process(): one row in a worker.  Whatever a step reads of the row is     *)
(* what the page returned, unless it is a query of its own.                 *)
To(p, stage)  == task' = [task EXCEPT ![p].stage = stage]
Fails(p, kind) == task' = [task EXCEPT ![p].stage = "failed", ![p].kind = kind]

(* active_signatures and structure: the errors the first prune asks for.    *)
Unfit(h) == Form[h] \in {"signed", "encrypted", "damaged"}

(* A title that is short, absent or a file name decides nothing.            *)
TitleFits(h, d) == Titled[h] \in {None, d}

(* The DOI in a polluted one is right: the file has its address, Crossref   *)
(* confirms it, and the title does not speak against it.                    *)
Recoverable(h, d) ==
    LET c == Stripped[d] IN c \in Cites[h] \cap Registered /\ TitleFits(h, c)

(* Another DOI in the file may mean that it is another paper.               *)
OtherPaper(h, d) == InfoDois[h] \notin {{}, {d}} /\ ~TitleFits(h, d)

(* correct_document_info had something to write.                            *)
Corrected(h, d) == OwnDoi[h] # d

(* The object, its structure, and whether the DOI of the row stands.        *)
Examine(p) ==
    /\ task[p].stage = "busy"
    /\ LET h == task[p].sha
           d == task[p].doi
       IN  \/ h \notin objects /\ Fails(p, "other")
           \/ h \in objects /\ Unfit(h) /\ Fails(p, "unfit")
           \/ h \in objects /\ ~Unfit(h) /\ Form[h] # "sound" /\ Fails(p, "other")
           \/ /\ h \in objects /\ Form[h] = "sound"
              /\ \/ d \in Registered /\ To(p, "optimize")
                 \/ d \notin Registered /\ Stripped[d] = None /\ Fails(p, "identity")
                 \/ /\ d \notin Registered /\ Stripped[d] # None
                    /\ IF Recoverable(h, d) THEN To(p, "fix") ELSE Fails(p, "other")
    /\ UNCHANGED <<library, files, host, upload, bounds>>

(* The row is what the page returned.                                       *)
SameRow(p) == Active(p) /\ row[p].sha = task[p].sha

(* A transaction of its own, which stands whatever becomes of the file.     *)
FixDoi(p) ==
    /\ task[p].stage = "fix"
    /\ LET d     == Stripped[task[p].doi]
           taken == \E q \in Pdf \ {p} : Exists(q) /\ row[q].doi = d
       IN  \/ /\ SameRow(p) /\ row[p].doi = task[p].doi /\ ~taken
              /\ row' = [row EXCEPT ![p].doi = d]
              /\ task' = [task EXCEPT ![p].stage = "optimize", ![p].doi = d]
           \/ /\ ~(SameRow(p) /\ row[p].doi = task[p].doi)
              /\ Fails(p, "other") /\ UNCHANGED row
           \/ /\ SameRow(p) /\ row[p].doi = task[p].doi /\ taken
              /\ Fails(p, "identity") /\ UNCHANGED row
    /\ UNCHANGED <<alias, objects, files, host, upload, bounds>>

(* The title, PDFCraft, and the DOI in the result.  A result that is not    *)
(* smaller keeps the original, which must have its DOI for that.            *)
Optimize(p) ==
    /\ task[p].stage = "optimize"
    /\ LET h == task[p].sha
           d == task[p].doi
       IN  \/ h \notin objects /\ Fails(p, "other")
           \/ h \in objects /\ OtherPaper(h, d) /\ Fails(p, "identity")
           \/ /\ h \in objects /\ ~OtherPaper(h, d)
              /\ \/ Smaller[h] # h /\ To(p, "replace")
                 \/ Smaller[h] = h /\ ~Corrected(h, d) /\ To(p, "mark")
                 \/ Smaller[h] = h /\ Corrected(h, d) /\ Fails(p, "other")
    /\ UNCHANGED <<library, files, host, upload, bounds>>

Mark(p) ==
    /\ task[p].stage = "mark"
    /\ \/ SameRow(p) /\ row' = [row EXCEPT ![p].done = task[p].sha] /\ To(p, "ok")
       \/ ~SameRow(p) /\ Fails(p, "other") /\ UNCHANGED row
    /\ UNCHANGED <<alias, objects, files, host, upload, bounds>>

NewSha(p) == Smaller[task[p].sha]

TakenElsewhere(p) ==
    \/ \E q \in Pdf \ {p} : Exists(q) /\ row[q].sha = NewSha(p)
    \/ alias[NewSha(p)] \notin {None, p}

(* SELECT ... FOR UPDATE, the checks, and a hard link that never overwrites. *)
Publish(p) ==
    /\ task[p].stage = "replace"
    /\ IF SameRow(p) /\ ~TakenElsewhere(p)
       THEN objects' = objects \cup {NewSha(p)} /\ To(p, "linked")
       ELSE Fails(p, "other") /\ UNCHANGED objects
    /\ UNCHANGED <<row, alias, files, host, upload, bounds>>

(* UPDATE and COMMIT; a row of these bytes that was inserted meanwhile makes *)
(* the UPDATE fail, and the new object stays.                               *)
Commit(p) ==
    /\ task[p].stage = "linked"
    /\ IF \E q \in Pdf \ {p} : Exists(q) /\ row[q].sha = NewSha(p)
       THEN Fails(p, "other") /\ UNCHANGED <<row, alias>>
       ELSE /\ row' = [row EXCEPT ![p].sha = NewSha(p), ![p].done = NewSha(p)]
            /\ alias' = [alias EXCEPT ![NewSha(p)] = IF @ = p THEN None ELSE @]
            /\ To(p, "committed")
    /\ UNCHANGED <<objects, files, host, upload, bounds>>

(* The old object is deleted "only after successful commit".                *)
UnlinkSource_Early(p) ==   \* slip: the original is unlinked before the COMMIT
    /\ task[p].stage \in {"linked", "committed"}
    /\ objects' = objects \ {task[p].sha}
    /\ IF task[p].stage = "committed" THEN To(p, "ok") ELSE UNCHANGED task
    /\ UNCHANGED <<row, alias, files, host, upload, bounds>>

UnlinkSource(p) ==
    /\ task[p].stage = "committed"
    /\ objects' = objects \ {task[p].sha}
    /\ To(p, "ok")
    /\ UNCHANGED <<row, alias, files, host, upload, bounds>>

(* PDFCraft, Crossref or the connection fails, before a COMMIT or after it. *)
Trip(p) ==
    /\ task[p].stage \in Working \cup {"ok"}
    /\ Fails(p, "other")
    /\ halts < MaxHalts /\ halts' = halts + 1
    /\ UNCHANGED <<library, files, host, upload, runs, changes>>

Worker(p) ==
    \/ Examine(p) \/ FixDoi(p) \/ Optimize(p) \/ Mark(p)
    \/ Publish(p) \/ Commit(p) \/ UnlinkSource(p)
-----------------------------------------------------------------------------
(* The prune programs.  latest_failure_map: as many last lines of the log   *)
(* as failures were counted, when no id is there twice.                     *)
Window_First == SubSeq(log, 1, state.failed)   \* slip: the first lines

Window == SubSeq(log, Len(log) - state.failed + 1, Len(log))

MapIsSound ==
    /\ state.failed \in 1 .. Len(log)
    /\ \A i, j \in 1 .. state.failed : i # j => Window[i].id # Window[j].id

(* The rows the operator asked to be rid of: whose repair failed for a      *)
(* reason on the list.  The second program passes over deleted ones.        *)
Selected(kind) ==
    LET lines == {Window[i] : i \in 1 .. state.failed}
    IN  IF kind = "prune"
        THEN {e.id : e \in {x \in lines : x.kind = "unfit" \/ x.id \in FirstDoi}}
        ELSE {e.id : e \in {x \in lines : x.kind = "identity" /\ Active(x.id)}}

Unrepaired(p) == ~Repaired(p)

Entries(S) == {[id |-> p, sha |-> row[p].sha] : p \in S}

(* Select, look the rows up, verify their objects, write the receipt.       *)
Prepare(kind) ==
    /\ host = Off
    /\ MapIsSound
    /\ LET S == Selected(kind) IN
       /\ S # {}
       /\ \A p \in S : Active(p) /\ Unrepaired(p) /\ row[p].sha \in objects
       /\ host' = [Off EXCEPT !.program = kind, !.pc = "prepared", !.rows = Entries(S)]
       /\ receipts' = receipts \cup {[phase |-> "prepared", rows |-> Entries(S)]}
    /\ runs < MaxRuns /\ runs' = runs + 1
    /\ UNCHANGED <<library, log, state, task, upload, changes, halts>>

Ids == {e.id : e \in host.rows}

Unchanged == \A e \in host.rows : /\ Active(e.id) /\ row[e.id].sha = e.sha
                                  /\ Unrepaired(e.id)

ForeignAlias == \E e \in host.rows : alias[e.sha] \notin Ids \cup {None}

(* SELECT ... FOR UPDATE, the checks again, DELETE of everything that       *)
(* refers to the rows and of the rows, COMMIT.                              *)
DeleteRows ==
    /\ host.pc = "prepared"
    /\ Unchanged /\ ~ForeignAlias
    /\ row' = [p \in Pdf |-> IF p \in Ids THEN [row[p] EXCEPT !.state = "pruned"]
                             ELSE row[p]]
    /\ alias' = [h \in Hash |-> IF alias[h] \in Ids THEN None ELSE alias[h]]
    /\ host' = [host EXCEPT !.pc = "deleted"]
    /\ UNCHANGED <<objects, files, task, upload, bounds>>

Refuse ==
    /\ host.pc = "prepared"
    /\ ~(Unchanged /\ ~ForeignAlias)
    /\ host' = Off
    /\ UNCHANGED <<library, files, task, upload, bounds>>

SetPhase(phase) ==
    receipts' = {IF r.rows = host.rows THEN [r EXCEPT !.phase = phase] ELSE r : r \in receipts}

RecordCommit ==
    /\ host.pc = "deleted"
    /\ SetPhase("db-committed")
    /\ host' = [host EXCEPT !.pc = "clean"]
    /\ UNCHANGED <<library, log, state, task, upload, bounds>>

(* --resume-receipt, whatever phase the receipt is in.                      *)
Resumes_Committed(r) == r.phase = "db-committed"   \* slip: only after its second write

Resumes(r) == \A e \in r.rows : ~Exists(e.id)

Resume ==
    /\ host = Off
    /\ \E r \in receipts :
          /\ r.phase # "finished"
          /\ Resumes(r)
          /\ host' = [Off EXCEPT !.program = "resume", !.pc = "clean", !.rows = r.rows]
    /\ UNCHANGED <<library, files, task, upload, bounds>>

(* clean_objects unlinks what is there by path, one object after another.   *)
Unlink(e) ==
    /\ host.pc = "clean"
    /\ e.sha \in objects
    /\ objects' = objects \ {e.sha}
    /\ UNCHANGED <<row, alias, files, host, task, upload, bounds>>

FinishPrune ==
    /\ host.pc = "clean"
    /\ \A e \in host.rows : e.sha \notin objects
    /\ SetPhase("finished")
    /\ host' = Off
    /\ UNCHANGED <<library, log, state, task, upload, bounds>>
-----------------------------------------------------------------------------
(* SIGTERM or SIGINT during a repair, and the death of a program.           *)
RequestStop ==
    /\ host.program \in {"repair", "pilot"} /\ ~host.stop
    /\ host' = [host EXCEPT !.stop = TRUE]
    /\ halts < MaxHalts /\ halts' = halts + 1
    /\ UNCHANGED <<library, files, task, upload, runs, changes>>

Crash ==
    /\ host # Off
    /\ host' = Off
    /\ task' = NoTasks
    /\ halts < MaxHalts /\ halts' = halts + 1
    /\ UNCHANGED <<library, files, upload, runs, changes>>

(* An upload looks whether the object exists, drops its own copy if so, and *)
(* commits later: to the row or alias of these bytes, as another file of    *)
(* the article with their DOI, or as a new article.                         *)
Receive(r, h) ==
    /\ upload[r] = Idle
    /\ upload' = [upload EXCEPT ![r] = [pc |-> "stored", sha |-> h,
                                        staged |-> h \notin objects]]
    /\ changes < MaxChanges /\ changes' = changes + 1
    /\ UNCHANGED <<library, files, host, task, runs, halts>>

RowLocked(p) == task[p].stage = "linked"

Keep(r) == objects' = IF upload[r].staged THEN objects \cup {upload[r].sha} ELSE objects

Store(r) ==
    LET h == upload[r].sha IN
    /\ upload[r].pc = "stored"
    /\ upload' = [upload EXCEPT ![r] = Idle]
    /\ \/ \E p \in Pdf :                                      \* these bytes are p
             /\ Exists(p) /\ row[p].sha = h /\ ~RowLocked(p)
             /\ row' = [row EXCEPT ![p].state = "active"]
             /\ Keep(r) /\ UNCHANGED alias
       \/ /\ \A p \in Pdf : Exists(p) => row[p].sha # h
          /\ \/ alias[h] # None /\ UNCHANGED library           \* an alias
             \/ \E p \in Pdf :                                \* another file of p
                   /\ alias[h] = None
                   /\ Exists(p) /\ row[p].doi = DoiOf[h] /\ ~RowLocked(p)
                   /\ alias' = [alias EXCEPT ![h] = p]
                   /\ row' = [row EXCEPT ![p].state = "active"]
                   /\ UNCHANGED objects
             \/ \E p \in Pdf :                                \* a new article
                   /\ alias[h] = None
                   /\ \A q \in Pdf : Exists(q) => row[q].doi # DoiOf[h]
                   /\ row[p].state = "none"
                   /\ \A q \in Pdf : q < p => row[q].state # "none"
                   /\ row' = [row EXCEPT ![p] = [state |-> "active", sha |-> h,
                                                 doi |-> DoiOf[h], done |-> None]]
                   /\ Keep(r) /\ UNCHANGED alias
    /\ UNCHANGED <<files, host, task, bounds>>

(* An administrator deletes an article, softly.                             *)
SoftDelete(p) ==
    /\ Active(p) /\ ~RowLocked(p)
    /\ row' = [row EXCEPT ![p].state = "deleted"]
    /\ changes < MaxChanges /\ changes' = changes + 1
    /\ UNCHANGED <<alias, objects, files, host, task, upload, runs, halts>>

Main == \/ Fetch \/ LeaveLoop \/ Drained \/ EndRepair
        \/ \E p \in Pdf : Submit(p) \/ LogError(p) \/ Collect(p)

Pruning == \/ DeleteRows \/ Refuse \/ RecordCommit \/ FinishPrune
           \/ \E e \in host.rows : Unlink(e)

Library == \/ \E r \in Request : Store(r) \/ \E h \in Hash : Receive(r, h)
           \/ \E p \in Pdf : SoftDelete(p)

Next ==
    \/ StartRepair("repair") \/ StartRepair("pilot")
    \/ Main
    \/ \E p \in Pdf : Worker(p) \/ Trip(p)
    \/ Prepare("prune") \/ Prepare("prune-doi") \/ Resume
    \/ Pruning
    \/ RequestStop \/ Crash
    \/ Library

Spec == Init /\ [][Next]_vars

(* Every program that runs gets on, tools have time limits, and the operator *)
(* resumes what a receipt says is unfinished as often as it takes.          *)
FairSpec ==
    /\ Spec
    /\ WF_vars(Main) /\ WF_vars(\E p \in Pdf : Worker(p)) /\ WF_vars(Pruning)
    /\ SF_vars(Resume)
-----------------------------------------------------------------------------
TypeOK ==
    /\ row \in [Pdf -> RowType]
    /\ alias \in [Hash -> Pdf \cup {None}]
    /\ objects \subseteq Hash
    /\ log \in Seq([id: Pdf, kind: Kinds])
    /\ state \in [failed: 0 .. Len(log), cursor: Nat]
    /\ receipts \subseteq [phase: {"prepared", "db-committed", "finished"}, rows: SUBSET Entry]
    /\ host.program \in Programs
    /\ \A p \in Pdf : task[p].stage \in Stages

(* "Delete requested still-unresolved" records; "successful later repairs   *)
(* are never included": a row that a prune deletes has not been repaired    *)
(* since, and the last error logged for it, whatever crashes, pilots and    *)
(* repeated sweeps did to log and counter, is one on the list.              *)
LastError(p) == SelectLastInSeq(log, LAMBDA e : e.id = p)

PrunedAsFailed ==
    [][\A p \in Pdf : Exists(p) /\ row'[p].state = "pruned" =>
          /\ ~Repaired(p)
          /\ LastError(p) # 0
          /\ log[LastError(p)].kind # "other" \/ p \in FirstDoi]_vars

(* What StoredUnlessPruned is proved under.  normalize_doi, through which    *)
(* every upload's DOI goes, leaves nothing to strip; a DOI that the repair   *)
(* takes for certain, or makes of a polluted one, is the one under which     *)
(* those bytes are uploaded: none was corrected to another by hand; and no   *)
(* repaired file is the source of another repair.                            *)
NormalDois == \A h \in Hash : Stripped[DoiOf[h]] = None

Agrees(h, d) ==
    /\ d \in Registered => d = DoiOf[h]
    /\ d \notin Registered /\ Stripped[d] # None /\ Recoverable(h, d) => Stripped[d] = DoiOf[h]

SeedsAgree == \A p \in Pdf : SeedSha[p] # None => Agrees(SeedSha[p], SeedDoi[p])

RepairedOnce == \A h \in Hash : Smaller[Smaller[h]] = Smaller[h]

(* "Keep source files intact", "delete old object only after successful     *)
(* commit": every article has its object, unless its bytes are those of a   *)
(* pruned row that were uploaded again before the cleanup ended.            *)
StoredUnlessPruned ==
    \A p \in Pdf : Exists(p) =>
        \/ row[p].sha \in objects
        \/ \E r \in receipts : \E e \in r.rows : e.sha = row[p].sha /\ e.id # p

(* "If interrupted after commit, --resume-receipt can safely finish         *)
(* cleanup": no upload loses its object to it.                              *)
StoredObject == \A p \in Pdf : Exists(p) => row[p].sha \in objects

(* Once rows are deleted their objects go too, though the program dies      *)
(* between any two steps.                                                   *)
CleanupEnds ==
    []<>(\A r \in receipts : (\A e \in r.rows : ~Exists(e.id)) => r.phase = "finished")
=============================================================================

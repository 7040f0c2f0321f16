----------------------------- MODULE UploadClient -----------------------------
(***************************************************************************)
(* nv upload (cli/user.py, http.py, upload_pipeline.py, upload_state.py,   *)
(* upload_report.py): commands, perhaps several at a time, that decide     *)
(* which files of a directory the server lacks, send them with retries,    *)
(* and keep the files still to be sent in the journal of module History.   *)
(*                                                                         *)
(* The files are identified by their article (DOI): what a scan finds in   *)
(* one is its Kind.  The server is the one of module Upload, as a request   *)
(* sees it: it knows the contents it accepted.                             *)
(***************************************************************************)
EXTENDS History

CONSTANTS Scan,         \* the paths in the order they are collected
          Folder,       \* directory of a path
          Content, Article,
          Layouts,      \* contents the files may have at first, each with a
                        \*   bound on lost requests and answers, outages,
                        \*   crashes, edits, and commands that overlap
          Revisions,    \* contents the user may give a file later
          Kind,         \* what the first scan says of a content: "trusted",
                        \*   "automatic", "unknown" or "wrong" (no scan sees
                        \*   it, and the server rejects it)
          Command,      \* processes
          Retrying,     \* those started with --retry-failed
          Workers,      \* --jobs
          Attempts,     \* of one upload (3)
          Cuts          \* how a write may be interrupted

RowType == [path: Path, op: Status, sha: Content \cup {None}, sig: Nat, context: BOOLEAN]

ASSUME RowAssumption ==
    None \notin Content \cup RowType \cup Status /\ {Torn, Split} \cap RowType = {}
ASSUME PathAssumption ==
    Scan \in Seq(Path) /\ IsInjective(Scan) /\ Range(Scan) = Path
ASSUME FileAssumption ==
    /\ \A layout \in Layouts : layout.files \in [Path -> Content] /\ layout.faults \in Nat
    /\ Revisions \subseteq Content
ASSUME CommandAssumption ==
    /\ IsFiniteSet(Command)
    /\ Workers \in Nat \ {0} /\ Attempts \in Nat \ {0}
    /\ Cuts \subseteq {"torn", "whole", "split"}

VARIABLES disk,      \* signature and contents of the files
          file,      \* the journal
          server,    \* contents the server knows
          wire,      \* requests given up by the client that may still arrive
          run,       \* the state of each command
          edited,    \* a file changed while a command was running
          faults     \* faults that may still happen

vars == <<disk, file, server, wire, run, edited, faults>>
-----------------------------------------------------------------------------
Idle == [pc |-> "off", job |-> [p \in Path |-> "none"],
         sha |-> [p \in Path |-> None], tries |-> [p \in Path |-> 0],
         active |-> None]

Running == {c \in Command : run[c].pc # "off"}

Known(d) == \E s \in server : Article[s] = d

Init ==
    /\ \E layout \in Layouts :
          /\ disk = [p \in Path |-> [sig |-> 0, sha |-> layout.files[p]]]
          /\ faults = layout.faults
    /\ file = EmptyFile
    /\ server = {}
    /\ wire = {}
    /\ run = [c \in Command |-> Idle]
    /\ edited = FALSE

Fault == faults > 0 /\ faults' = faults - 1

(* The user replaces a file.  Two commands do not run over a file that is  *)
(* being replaced.                                                         *)
Edit(p, s) ==
    /\ Fault
    /\ Cardinality(Running) <= 1
    /\ edited' = (Running # {})
    /\ disk' = [disk EXCEPT ![p] = [sig |-> disk[p].sig + 1, sha |-> s]]
    /\ UNCHANGED <<file, server, wire, run>>

Row(p, op, s, context) ==
    [path |-> p, op |-> op, sha |-> s, sig |-> disk[p].sig, context |-> context]

(* path_status: a row made for other bytes counts as pending, also one that *)
(* settled an entry and was not compacted away yet.                        *)
QueueStatus(p) ==
    LET row == Latest(file, p) IN
    IF row = None THEN None
    ELSE IF row.sig # disk[p].sig THEN "pending"
    ELSE IF IsOpen(row) THEN row.op ELSE None

Selected_Failed(c) ==   \* slip: a pending entry waits for its command
    IF c \in Retrying THEN {p \in Path : QueueStatus(p) \in {"failed", "review"}}
    ELSE Path

Selected(c) ==
    IF c \in Retrying THEN {p \in Path : QueueStatus(p) # None} ELSE Path

Go(c, next) == run' = [run EXCEPT ![c] = next]

Start(c) ==
    /\ run[c].pc = "off" /\ ~edited
    /\ c \in Retrying => Readable(file)
    /\ Selected(c) # {}
    /\ Go(c, [run[c] EXCEPT !.pc = IF c \in Retrying THEN "hash" ELSE "probe",
                            !.job = [p \in Path |-> IF p \in Selected(c) THEN "new" ELSE "none"]])
    /\ IF Running = {} THEN UNCHANGED faults ELSE Fault
    /\ UNCHANGED <<disk, file, server, wire, edited>>
-----------------------------------------------------------------------------
(* The phases of the main thread.  Jobs(c, S) are the paths in a state.    *)
Jobs(c, S) == {p \in Path : run[c].job[p] \in S}

Earlier(p, q) ==
    \E i, j \in DOMAIN Scan : Scan[i] = p /\ Scan[j] = q /\ i < j

(* The DOI preflight: what is on the server is not sent, what is doubtful  *)
(* is for review, and the rest is left to the full resolver.               *)
Verdicts(s) ==
    CASE Kind[s] = "trusted"   -> IF Known(Article[s]) THEN {"existing"} ELSE {"fast"}
      [] Kind[s] = "automatic" -> IF Known(Article[s]) THEN {"existing", "full"}
                                  ELSE {"fast", "doubt"}
      [] OTHER                 -> {"full"}

Probe(c) ==
    /\ run[c].pc = "probe"
    /\ \E verdict \in [Path -> {"existing", "fast", "full", "doubt"}] :
          LET fast(p) == p \in Jobs(c, {"new"}) /\ verdict[p] = "fast"
              twin(p) == \E q \in Path : /\ fast(p) /\ fast(q) /\ Earlier(q, p)
                                         /\ Article[disk[q].sha] = Article[disk[p].sha] IN
          /\ \A p \in Path : verdict[p] \in Verdicts(disk[p].sha)
          /\ Go(c, [run[c] EXCEPT !.pc = "hash",
                                  !.job = [p \in Path |-> IF run[c].job[p] = "none" THEN "none"
                                                          ELSE IF twin(p) THEN "done" ELSE verdict[p]]])
    /\ UNCHANGED <<disk, file, server, wire, edited, faults>>

(* Hashing, where one path stands for those with the same bytes; then the  *)
(* server is asked for the bytes of what the preflight did not settle.     *)
Hashing(c) == run[c].pc = "hash" /\ Jobs(c, {"existing", "doubt", "failed"}) = {}

Hash(c) ==
    /\ Hashing(c)
    /\ Readable(file)
    /\ LET hashed == Jobs(c, {"new", "fast", "full"})
           twin(p) == \E q \in hashed : Earlier(q, p) /\ disk[q].sha = disk[p].sha
           judge(p) == IF p \notin hashed THEN run[c].job[p]
                       ELSE IF twin(p) THEN "done"
                       ELSE IF run[c].job[p] = "fast" THEN "fast"
                       ELSE IF disk[p].sha \in server THEN "existing" ELSE "full" IN
       Go(c, [run[c] EXCEPT !.pc = "prepare",
                            !.sha = [p \in Path |-> IF p \in hashed THEN disk[p].sha ELSE None],
                            !.job = [p \in Path |-> judge(p)]])
    /\ UNCHANGED <<disk, file, server, wire, edited, faults>>

(* A file that changes meanwhile, or is no PDF.                            *)
HashFails(c, p) ==
    /\ Fault
    /\ run[c].pc = "hash"
    /\ run[c].job[p] \in {"new", "fast", "full"}
    /\ Go(c, [run[c] EXCEPT !.job[p] = "failed"])
    /\ UNCHANGED <<disk, file, server, wire, edited>>

(* UploadState.rejection: this context was rejected before.                *)
Rejected(p, s) ==
    LET row  == Latest(file, p)
        same == {q \in Path : LET r == Latest(file, q) IN IsOpen(r) /\ r.sha = s} IN
    IF row # None THEN row.op = "review" /\ row.sha = s /\ row.context
    ELSE \E q \in same : Latest(file, q).op = "review" /\ Latest(file, q).context

(* The full resolver, then a last look at the server by DOI.               *)
Resolutions(c, p, s) ==
    CASE run[c].job[p] = "fast" -> {"ready"}
      [] c \notin Retrying /\ Rejected(p, s) -> {"done"}
      [] Kind[s] = "wrong" -> {"ready", "failed"}
      [] Known(Article[s]) -> IF Kind[s] = "trusted" THEN {"existing"} ELSE {"existing", "ready"}
      [] OTHER -> {"ready"}

Prepare(c) ==
    /\ run[c].pc = "prepare"
    /\ Jobs(c, {"existing", "failed"}) = {}
    /\ \E resolution \in [Path -> {"ready", "failed", "existing", "done"}] :
          /\ \A p \in Jobs(c, {"fast", "full"}) :
                resolution[p] \in Resolutions(c, p, run[c].sha[p])
          /\ \A p \in Path \ Jobs(c, {"fast", "full"}) : resolution[p] = "done"
          /\ Go(c, [run[c] EXCEPT !.pc = "upload",
                                  !.job = [p \in Path |->
                                     IF p \in Jobs(c, {"fast", "full"}) THEN resolution[p]
                                     ELSE run[c].job[p]]])
    /\ UNCHANGED <<disk, file, server, wire, edited, faults>>
-----------------------------------------------------------------------------
(* UploadReport: the entries of the queue the command knows of are loaded  *)
(* once.                                                                   *)
Active(c) == IF run[c].active = None THEN Open(file) ELSE run[c].active

Loaded(c) == run[c].active # None \/ Readable(file)

(* state_paths: one path per directory, the last of those with these bytes. *)
Siblings(c, p) ==
    LET same == {q \in Path : run[c].sha[q] # None /\ run[c].sha[q] = run[c].sha[p]} IN
    {q \in same : \A r \in same : Folder[r] = Folder[q] => ~Earlier(q, r)}

Confirmation(c, p) == run[c].job[p] \in {"existing", "ok"}

(* UploadReport.record and record_failure: a confirmation clears an entry  *)
(* the command knows of; a failure is written for the path, then for every *)
(* directory with these bytes.                                             *)
FailureRows(c, p) ==
    LET op   == IF run[c].job[p] = "failed" THEN "failed" ELSE "review"
        s    == run[c].sha[p]
        also == IF s = None THEN {} ELSE Siblings(c, p)
        rows == [i \in DOMAIN Scan |-> Row(Scan[i], op, s, TRUE)] IN
    <<Row(p, op, s, FALSE)>> \o Part(rows, {i \in DOMAIN Scan : Scan[i] \in also})

Rows(c, p) ==
    IF ~Confirmation(c, p) THEN FailureRows(c, p)
    ELSE IF p \in Active(c) THEN <<Row(p, "clear", None, FALSE)>> ELSE <<>>

(* Outcomes of uploads come in any order, decisions in that of the scan.   *)
Recordable(c) ==
    LET decided == Jobs(c, {"existing", "doubt"}) IN
    Jobs(c, {"ok", "failed", "review"})
    \cup {p \in decided : \A q \in decided : ~Earlier(q, p)}

Record(c, p) ==
    /\ run[c].pc # "aborted" /\ p \in Recordable(c)
    /\ Loaded(c)
    /\ file' = Write(file, Rows(c, p))
    /\ Go(c, [run[c] EXCEPT !.job[p] = "done", !.tries[p] = 0,
                            !.active = IF Confirmation(c, p) THEN Active(c) \ {p}
                                       ELSE Active(c) \cup {p}])
    /\ UNCHANGED <<disk, server, wire, edited, faults>>

(* record_pending: only what is about to be sent enters the queue.         *)
Announced_Not(c, p) == <<>>   \* slip: nothing is written before the upload

Announced(c, p) == <<Row(p, "pending", run[c].sha[p], FALSE)>>

NextUp(c, p) ==
    /\ run[c].pc = "upload"
    /\ run[c].job[p] = "ready"
    /\ \A q \in Jobs(c, {"ready"}) : ~Earlier(q, p)
    /\ Jobs(c, {"announced"}) = {}

Announce(c, p) ==
    /\ NextUp(c, p)
    /\ Loaded(c)
    /\ file' = Write(file, Announced(c, p))
    /\ Go(c, [run[c] EXCEPT !.job[p] = "announced", !.active = Active(c) \cup {p}])
    /\ UNCHANGED <<disk, server, wire, edited, faults>>

(* UploadPipeline.submit waits for a free worker.                          *)
Submit(c, p) ==
    /\ run[c].pc = "upload"
    /\ run[c].job[p] = "announced"
    /\ Cardinality(Jobs(c, {"sending"})) < Workers
    /\ Go(c, [run[c] EXCEPT !.job[p] = "sending"])
    /\ UNCHANGED <<disk, file, server, wire, edited, faults>>

Ends(c) ==
    /\ Go(c, Idle)
    /\ edited' = (edited /\ Running # {c})

Settled(c) == run[c].pc = "upload" /\ Jobs(c, {"none", "done"}) = Path

Finish(c) ==
    /\ Settled(c) /\ Readable(file)
    /\ file' = Compacted(file)
    /\ Ends(c)
    /\ UNCHANGED <<disk, server, wire, faults>>
-----------------------------------------------------------------------------
(* A worker thread: upload_pdf opens the file for every attempt.  The      *)
(* server checks the expected hash, then the identity of the article.      *)
Accepts(request) ==
    request.bytes = request.expected /\ Kind[request.bytes] # "wrong"

Apply(request) ==
    server' = IF Accepts(request) THEN server \cup {request.bytes} ELSE server

Request(c, p) == [bytes |-> disk[p].sha, expected |-> run[c].sha[p]]

Sending(c, p) == run[c].job[p] = "sending"

Answer(c, p) ==
    /\ Sending(c, p)
    /\ LET request == Request(c, p) IN
       /\ Apply(request)
       /\ Go(c, [run[c] EXCEPT !.job[p] =
                    IF Accepts(request) THEN "ok"
                    ELSE IF request.bytes # request.expected THEN "failed" ELSE "review"])
    /\ UNCHANGED <<disk, file, wire, edited, faults>>

(* A lost request or answer, a timeout, 429, 502, 503 or 504: try again.   *)
(* What was lost may arrive late, or never.                                *)
TryAgain(c, p) ==
    LET last == run[c].tries[p] + 1 = Attempts IN
    Go(c, [run[c] EXCEPT !.tries[p] = IF last THEN 0 ELSE run[c].tries[p] + 1,
                         !.job[p] = IF last THEN "failed" ELSE "sending"])

LoseAnswer(c, p) ==
    /\ Fault /\ Sending(c, p)
    /\ Apply(Request(c, p))
    /\ TryAgain(c, p)
    /\ UNCHANGED <<disk, file, wire, edited>>

LoseRequest(c, p) ==
    /\ Fault /\ Sending(c, p)
    /\ TryAgain(c, p)
    /\ wire' = wire \cup {Request(c, p)}
    /\ UNCHANGED <<disk, file, server, edited>>

Arrive(request) ==
    /\ request \in wire
    /\ wire' = wire \ {request}
    /\ Apply(request)
    /\ UNCHANGED <<disk, file, run, edited, faults>>
-----------------------------------------------------------------------------
(* A lookup that fails ends the command before the next phase; a full disk *)
(* keeps the old journal.                                                  *)
Outage(c) ==
    /\ Fault
    /\ run[c].pc \in {"probe", "hash", "prepare"} \/ Settled(c)
    /\ Ends(c)
    /\ UNCHANGED <<disk, file, server, wire>>

(* Ctrl-C, or a write that fails: the requests under way are completed,    *)
(* and their outcomes are not recorded.                                    *)
Aborted(c) ==
    Go(c, [run[c] EXCEPT !.pc = "aborted", !.active = None,
                         !.job = [p \in Path |-> IF Sending(c, p) THEN "sending" ELSE "none"]])

Interrupt(c) ==
    /\ Fault
    /\ run[c].pc \notin {"off", "aborted"}
    /\ Aborted(c)
    /\ UNCHANGED <<disk, file, server, wire, edited>>

(* The last row that was begun is cut.                                     *)
ShortWrite(c, p, cut) ==
    /\ Fault /\ Loaded(c)
    /\ \/ run[c].pc # "aborted" /\ p \in Recordable(c)
       \/ NextUp(c, p)
    /\ LET rows == IF p \in Recordable(c) THEN Rows(c, p) ELSE Announced(c, p) IN
       \E k \in DOMAIN rows :
          file' = Interrupted(file, rows, k, cut)
    /\ Aborted(c)
    /\ UNCHANGED <<disk, server, wire, edited>>

(* A journal that does not decode stops the command that reads it.         *)
Unreadable(c) ==
    /\ run[c].pc \notin {"off", "aborted"}
    /\ ~Readable(file)
    /\ \/ Hashing(c) \/ Settled(c)
       \/ ~Loaded(c) /\ (Recordable(c) # {} \/ \E p \in Path : NextUp(c, p))
    /\ Aborted(c)
    /\ UNCHANGED <<disk, file, server, wire, edited, faults>>

Abandon(c) ==
    /\ run[c].pc = "aborted"
    /\ Jobs(c, {"sending"}) = {}
    /\ Ends(c)
    /\ UNCHANGED <<disk, file, server, wire, faults>>

Crash(c) ==
    /\ Fault
    /\ run[c].pc # "off"
    /\ wire' = wire \cup {Request(c, p) : p \in Jobs(c, {"sending"})}
    /\ Ends(c)
    /\ UNCHANGED <<disk, file, server>>
-----------------------------------------------------------------------------
MainThread(c) ==
    \/ Probe(c) \/ Hash(c) \/ Prepare(c)
    \/ Finish(c) \/ Unreadable(c) \/ Abandon(c)
    \/ \E p \in Path : Record(c, p) \/ Announce(c, p) \/ Submit(c, p)

Disturbance ==
    \/ \E p \in Path, s \in Revisions : Edit(p, s)
    \/ \E c \in Command :
          \/ Outage(c) \/ Interrupt(c) \/ Crash(c)
          \/ \E p \in Path :
                \/ HashFails(c, p) \/ LoseAnswer(c, p) \/ LoseRequest(c, p)
                \/ \E cut \in Cuts : ShortWrite(c, p, cut)

Next ==
    \/ \E c \in Command : Start(c) \/ MainThread(c) \/ \E p \in Path : Answer(c, p)
    \/ \E request \in wire : Arrive(request)
    \/ Disturbance

Spec == Init /\ [][Next]_vars

(* The commands go on, the server answers, and the user retries.           *)
FairSpec ==
    /\ Spec
    /\ \A c \in Command :
          WF_vars(MainThread(c) \/ \E p \in Path : Answer(c, p))
    /\ \A c \in Retrying : SF_vars(Start(c))
-----------------------------------------------------------------------------
JobState == {"none", "new", "existing", "fast", "full", "doubt", "ready",
             "announced", "sending", "ok", "failed", "review", "done"}

RunType ==
    [pc: {"off", "probe", "hash", "prepare", "upload", "aborted"},
     job: [Path -> JobState], sha: [Path -> Content \cup {None}],
     tries: [Path -> 0 .. Attempts - 1], active: (SUBSET Path) \cup {None}]

TypeOK ==
    /\ disk \in [Path -> [sig: Nat, sha: Content]]
    /\ file \in [lines: Seq(RowType \cup {Torn, Split}), ended: BOOLEAN]
    /\ server \subseteq Content
    /\ wire \subseteq [bytes: Content, expected: Content]
    /\ run \in [Command -> RunType]
    /\ edited \in BOOLEAN /\ faults \in Nat

(* Whatever is being sent, or was answered but not yet recorded, can be    *)
(* found again: its path is in the queue, or the server has the article.   *)
SentIsQueued ==
    \A c \in Command, p \in Path :
        run[c].job[p] \in {"sending", "ok", "review"} /\ ~edited =>
            QueueStatus(p) # None \/ Known(Article[run[c].sha[p]])

(* The journal implements the queue it stands for.                         *)
Entry(p) ==
    LET row == Latest(file, p) IN
    IF IsOpen(row) THEN [status |-> row.op, sig |-> row.sig] ELSE None

Queue == INSTANCE RetryQueue WITH queue <- [p \in Path |-> Entry(p)]

JournalIsQueue == Queue!Spec

(* For a user who retries, what the server would accept does not stay in   *)
(* the queue, unless the journal no longer decodes.                        *)
Drained == \A p \in Path : QueueStatus(p) = None \/ Kind[disk[p].sha] = "wrong"

QueueDrains == []<>(Drained \/ ~Readable(file))
=============================================================================

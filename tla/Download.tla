------------------------------- MODULE Download -------------------------------
(***************************************************************************)
(* The command nv download (cli/user.py): a list of DOIs is matched on the *)
(* server, a destination is planned for every PDF, and a pool of threads   *)
(* streams the files into `.part` files that a later run goes on with.     *)
(*                                                                         *)
(* The bytes of a file are chunks, each known by the version of the PDF it *)
(* belongs to and its place in it; the SHA-256 of a file is the sequence   *)
(* itself.  One command runs at a time in the directory.                   *)
(***************************************************************************)
EXTENDS Naturals, Sequences, SequencesExt, FiniteSets

CONSTANTS Doi,
          Versions,     \* the contents the PDF of a DOI may have on the server
          Others,       \* contents of files nv did not save
          Size,         \* chunks of a version
          Name,         \* original_name of the PDF of a DOI
          Counters,     \* 1..n: the numbers tried after a name
          Requests,     \* the command lines: sequences of DOIs
          Again,        \* the one the user runs again and again
          Leftovers,    \* what may lie in the directory before the first run
          Workers,      \* --workers
          MaxChanges,   \* bound: replacements and deletions on the server
          MaxFaults,    \* bound: lost connections, limits, interrupts,
                        \*   crashes, and runs of another command line
          None

Version == Others \cup UNION {Versions[d] : d \in Doi}

Slot == {Name[d] : d \in Doi} \X Counters

Content(v) == [i \in 1..Size[v] |-> <<v, i>>]

ASSUME SizeAssumption == Size \in [Version -> Nat \ {0}]

(* What a path may hold: nothing, or the chunks of a file.                 *)
FileType == {None} \cup Seq(Version \X Nat)

ASSUME NoneAssumption ==
    None \notin {"ok", "skipped"} /\ \A v \in Version : None # Content(v)

ASSUME RequestAssumption ==
    /\ Again \in Requests
    /\ Requests \subseteq Seq(Doi)
    /\ \A r \in Requests : IsInjective(r)

(* A file with a PDF's name is whole: nv renames whole files only.  A      *)
(* `.part` may hold anything.                                              *)
ASSUME LeftoverAssumption ==
    \A l \in Leftovers :
       /\ l[1] \in [Slot -> {None} \cup {Content(v) : v \in Version}]
       /\ l[2] \in [Slot -> FileType]

ASSUME BoundAssumption ==
    Workers \in Nat \ {0} /\ MaxChanges \in Nat /\ MaxFaults \in Nat

VARIABLES server,    \* the version the server retains for a DOI
          dest,      \* the PDF files of the directory
          part,      \* its .part files
          todo,      \* DOIs the running command has still to plan
          seen,      \* what the server said of them
          used,      \* used_destinations
          task,      \* the DownloadPlan of a DOI and the thread that runs it
          outcome,   \* what the command counts for each DOI
          stop,      \* the Event
          mode,      \* "off", "running" or "interrupted"
          changes, faults

vars == <<server, dest, part, todo, seen, used, task, outcome, stop,
          mode, changes, faults>>

files == <<dest, part>>
-----------------------------------------------------------------------------
Results == {"downloaded", "resumed", "interrupted", "limited", "failed"}

NoTask == [pc |-> "none", slot |-> None, version |-> None, offset |-> 0,
           source |-> None, digest |-> <<>>, result |-> None]

Init ==
    /\ server \in [Doi -> Version] /\ \A d \in Doi : server[d] \in Versions[d]
    /\ \E l \in Leftovers : dest = l[1] /\ part = l[2]
    /\ todo = <<>>
    /\ seen = [d \in Doi |-> None]
    /\ used = {}
    /\ task = [d \in Doi |-> NoTask]
    /\ outcome = [d \in Doi |-> None]
    /\ stop = FALSE
    /\ mode = "off"
    /\ changes = 0
    /\ faults = 0
-----------------------------------------------------------------------------
(* An upload, a compression or a deletion changes what the server has.     *)
ServerChange(d, v) ==
    /\ changes < MaxChanges
    /\ server[d] # v
    /\ server' = [server EXCEPT ![d] = v]
    /\ changes' = changes + 1
    /\ UNCHANGED <<files, todo, seen, used, task, outcome, stop, mode, faults>>

Fault == faults < MaxFaults /\ faults' = faults + 1

(* collect_dois, then fetch_download_batch: one answer for the batch.      *)
Start(request) ==
    /\ mode = "off"
    /\ mode' = "running"
    /\ IF request = Again THEN UNCHANGED faults ELSE Fault
    /\ todo' = request
    /\ seen' = [d \in Doi |-> IF d \in Range(request) THEN server[d] ELSE None]
    /\ used' = {}
    /\ task' = [d \in Doi |-> NoTask]
    /\ outcome' = [d \in Doi |-> None]
    /\ stop' = FALSE
    /\ UNCHANGED <<server, files, changes>>

(* The lookup is tried three times; then every DOI of the batch has failed. *)
LookupFails(request) ==
    /\ mode = "off"
    /\ Fault
    /\ outcome' = [d \in Doi |-> IF d \in Range(request) THEN "failed" ELSE None]
    /\ UNCHANGED <<server, files, todo, seen, used, task, stop, mode, changes>>

(* plan_download_destination: the first number whose file is absent, or    *)
(* is the PDF asked for.                                                   *)
Free_Any(slot, v) == slot \notin used   \* slip: other files are not looked at

Free(slot, v) == slot \notin used /\ dest[slot] \in {None, Content(v)}

First(slot, v) ==
    /\ Free(slot, v)
    /\ \A k \in Counters : k < slot[2] => ~Free(<<slot[1], k>>, v)

SavedPart_Size(slot, v) ==   \* slip: a .part of the right size is taken for the file
    part[slot] # None /\ Len(part[slot]) = Size[v]

SavedPart(slot, v) == part[slot] = Content(v)

(* A .part that is complete but wrong, or too long, is thrown away.        *)
Useless_Never(slot, v) == FALSE   \* slip: it is always resumed

Useless(slot, v) == part[slot] # None /\ Len(part[slot]) >= Size[v]

Unavailable(d) ==
    /\ seen[d] = None
    /\ outcome' = [outcome EXCEPT ![d] = "unavailable"]
    /\ UNCHANGED <<files, used, task>>

AlreadySaved(d, slot) ==
    /\ dest[slot] = Content(seen[d])
    /\ part' = [part EXCEPT ![slot] = None]
    /\ outcome' = [outcome EXCEPT ![d] = "skipped"]
    /\ UNCHANGED <<dest, task>>

PartIsComplete(d, slot) ==
    /\ dest[slot] # Content(seen[d])
    /\ SavedPart(slot, seen[d])
    /\ dest' = [dest EXCEPT ![slot] = part[slot]]
    /\ part' = [part EXCEPT ![slot] = None]
    /\ outcome' = [outcome EXCEPT ![d] = "skipped"]
    /\ UNCHANGED task

Queue(d, slot) ==
    /\ dest[slot] # Content(seen[d])
    /\ ~SavedPart(slot, seen[d])
    /\ LET kept == IF Useless(slot, seen[d]) THEN None ELSE part[slot] IN
       /\ part' = [part EXCEPT ![slot] = kept]
       /\ task' = [task EXCEPT ![d] =
              [NoTask EXCEPT !.pc = "queued", !.slot = slot, !.version = seen[d],
                             !.offset = IF kept = None THEN 0 ELSE Len(kept)]]
    /\ UNCHANGED <<dest, outcome>>

PlanNext ==
    /\ mode = "running" /\ todo # <<>>
    /\ todo' = Tail(todo)
    /\ LET d == Head(todo) IN
       \/ Unavailable(d)
       \/ /\ seen[d] # None
          /\ \E k \in Counters :
                LET slot == <<Name[d], k>> IN
                /\ First(slot, seen[d])
                /\ used' = used \cup {slot}
                /\ AlreadySaved(d, slot) \/ PartIsComplete(d, slot) \/ Queue(d, slot)
    /\ UNCHANGED <<server, seen, stop, mode, changes, faults>>
-----------------------------------------------------------------------------
(* run_download_plan, in a thread of the pool.                             *)
Active == {d \in Doi : task[d].pc \in {"asking", "writing"}}

Becomes(d, pc) == task' = [task EXCEPT ![d].pc = pc]

Ends(d, result) ==
    task' = [task EXCEPT ![d].pc = "ended", ![d].result = result]

Begin(d) ==
    /\ todo = <<>> /\ ~stop
    /\ task[d].pc = "queued"
    /\ Cardinality(Active) < Workers
    /\ Becomes(d, "asking")
    /\ UNCHANGED <<server, files, todo, seen, used, outcome, stop, mode, changes, faults>>

(* 206: the bytes from the offset on; the prefix on disk is hashed first.  *)
AnswerRange(d) ==
    /\ task[d].pc = "asking"
    /\ server[d] # None
    /\ task[d].offset \in 1..(Size[server[d]] - 1)
    /\ task' = [task EXCEPT ![d].pc = "writing", ![d].source = server[d],
                            ![d].digest = part[task[d].slot]]
    /\ UNCHANGED <<server, files, todo, seen, used, outcome, stop, mode, changes, faults>>

(* 200: the whole file, whatever was asked; what was to be resumed goes.   *)
AnswerWhole(d) ==
    /\ task[d].pc = "asking"
    /\ server[d] # None
    /\ part' = [part EXCEPT ![task[d].slot] = <<>>]
    /\ task' = [task EXCEPT ![d].pc = "writing", ![d].source = server[d],
                            ![d].offset = 0, ![d].digest = <<>>]
    /\ UNCHANGED <<server, dest, todo, seen, used, outcome, stop, mode, changes, faults>>

(* The PDF was deleted, or ends before the offset (416).                   *)
AnswerError(d) ==
    /\ task[d].pc = "asking"
    /\ server[d] = None \/ (server[d] # None /\ task[d].offset >= Size[server[d]])
    /\ Ends(d, "failed")
    /\ UNCHANGED <<server, files, todo, seen, used, outcome, stop, mode, changes, faults>>

(* What is appended goes on where the answer goes on.                      *)
Received(d) == Len(task[d].digest)

Write(d) ==
    /\ task[d].pc = "writing" /\ ~stop
    /\ Received(d) < Size[task[d].source]
    /\ LET chunk == <<task[d].source, Received(d) + 1>> IN
       /\ part' = [part EXCEPT ![task[d].slot] = Append(@, chunk)]
       /\ task' = [task EXCEPT ![d].digest = Append(@, chunk)]
    /\ UNCHANGED <<server, dest, todo, seen, used, outcome, stop, mode, changes, faults>>

Verified(d) ==
    /\ Len(part[task[d].slot]) = Size[task[d].version]
    /\ task[d].digest = Content(task[d].version)

ReceivedAll(d) ==
    task[d].pc = "writing" /\ Received(d) = Size[task[d].source]

Save(d) ==
    /\ ReceivedAll(d) /\ ~stop
    /\ Verified(d)
    /\ dest' = [dest EXCEPT ![task[d].slot] = part[task[d].slot]]
    /\ part' = [part EXCEPT ![task[d].slot] = None]
    /\ Ends(d, IF task[d].offset > 0 THEN "resumed" ELSE "downloaded")
    /\ UNCHANGED <<server, todo, seen, used, outcome, stop, mode, changes, faults>>

(* Incomplete download or checksum mismatch: the .part stays.              *)
Mismatch(d) ==
    /\ ReceivedAll(d)
    /\ ~Verified(d)
    /\ Ends(d, "failed")
    /\ UNCHANGED <<server, files, todo, seen, used, outcome, stop, mode, changes, faults>>

(* check_stopped: before the request, at every chunk, before the rename.   *)
Stopped(d) ==
    /\ stop
    /\ d \in Active
    /\ Ends(d, "interrupted")
    /\ UNCHANGED <<server, files, todo, seen, used, outcome, stop, mode, changes, faults>>

(* The connection fails before the answer or in the middle of it.          *)
Broken(d) ==
    /\ Fault
    /\ d \in Active
    /\ Ends(d, "failed")
    /\ UNCHANGED <<server, files, todo, seen, used, outcome, stop, mode, changes>>

(* 429: the user's download limit.                                         *)
Limited(d) ==
    /\ Fault
    /\ task[d].pc = "asking"
    /\ Ends(d, "limited")
    /\ UNCHANGED <<server, files, todo, seen, used, outcome, stop, mode, changes>>
-----------------------------------------------------------------------------
(* finish_downloads, in the main thread.                                   *)
Cancelled == {d \in Doi : task[d].pc = "queued"}

Counted(d) ==
    CASE task[d].result \in {"downloaded", "resumed"} -> "ok"
      [] task[d].result \in {"interrupted", "limited"} -> "pending"
      [] task[d].result = "failed" -> "failed"

Collect(d) ==
    /\ mode = "running"
    /\ task[d].pc = "ended"
    /\ LET limit == task[d].result = "limited"
           closed == {d} \cup (IF limit THEN Cancelled ELSE {}) IN
       /\ stop' = (stop \/ limit)
       /\ task' = [e \in Doi |-> IF e \in closed THEN [task[e] EXCEPT !.pc = "none"] ELSE task[e]]
       /\ outcome' = [e \in Doi |-> IF e = d THEN Counted(d)
                                    ELSE IF e \in closed THEN "pending" ELSE outcome[e]]
    /\ UNCHANGED <<server, files, todo, seen, used, mode, changes, faults>>

(* Ctrl-C: what has not begun is cancelled, the threads stop, and nothing  *)
(* more is counted.                                                        *)
Interrupt ==
    /\ Fault
    /\ mode = "running" /\ todo = <<>>
    /\ mode' = "interrupted"
    /\ stop' = TRUE
    /\ task' = [d \in Doi |-> IF d \in Cancelled THEN NoTask ELSE task[d]]
    /\ UNCHANGED <<server, files, todo, seen, used, outcome, changes>>

Over ==
    CASE mode = "running"     -> \A d \in Doi : task[d].pc = "none"
      [] mode = "interrupted" -> Active = {}
      [] mode = "off"         -> FALSE

Finish ==
    /\ todo = <<>> /\ Over
    /\ mode' = "off"
    /\ UNCHANGED <<server, files, todo, seen, used, task, outcome, stop, changes, faults>>

(* The process is killed: only the files remain.                           *)
Crash ==
    /\ Fault
    /\ mode # "off"
    /\ mode' = "off"
    /\ todo' = <<>>
    /\ seen' = [d \in Doi |-> None]
    /\ used' = {}
    /\ task' = [d \in Doi |-> NoTask]
    /\ outcome' = [d \in Doi |-> None]
    /\ stop' = FALSE
    /\ UNCHANGED <<server, files, changes>>
-----------------------------------------------------------------------------
Thread(d) ==
    \/ Begin(d) \/ AnswerRange(d) \/ AnswerWhole(d) \/ AnswerError(d)
    \/ Write(d) \/ Save(d) \/ Mismatch(d) \/ Stopped(d)

Command == PlanNext \/ Finish \/ \E d \in Doi : Thread(d) \/ Collect(d)

Environment ==
    \/ \E d \in Doi : \E v \in Versions[d] \cup {None} : ServerChange(d, v)
    \/ \E d \in Doi : Broken(d) \/ Limited(d)
    \/ \E r \in Requests : LookupFails(r)
    \/ Interrupt \/ Crash

Next == (\E r \in Requests : Start(r)) \/ Command \/ Environment

Spec == Init /\ [][Next]_vars

(* The threads and the server go on, and the user runs the command again.  *)
FairSpec == Spec /\ WF_vars(Command) /\ WF_vars(Start(Again))
-----------------------------------------------------------------------------
TaskType ==
    [pc: {"none", "queued", "asking", "writing", "ended"}, slot: Slot \cup {None},
     version: Version \cup {None}, offset: Nat, source: Version \cup {None},
     digest: Seq(Version \X Nat), result: Results \cup {None}]

TypeOK ==
    /\ server \in [Doi -> Version \cup {None}]
    /\ dest \in [Slot -> FileType] /\ part \in [Slot -> FileType]
    /\ todo \in Seq(Doi)
    /\ seen \in [Doi -> Version \cup {None}]
    /\ used \subseteq Slot
    /\ task \in [Doi -> TaskType]
    /\ outcome \in [Doi -> {None, "ok", "skipped", "pending", "failed", "unavailable"}]
    /\ stop \in BOOLEAN
    /\ mode \in {"off", "running", "interrupted"}
    /\ changes \in Nat /\ faults \in Nat

Has(slot, v) == dest[slot] = Content(v)

(* No file with a PDF's name ever mixes two contents or lacks a part of    *)
(* one, whatever the .part held, and a PDF the command counts as saved is  *)
(* there, byte for byte the one the server had announced.                  *)
SavedIsExact ==
    /\ \A slot \in Slot : dest[slot] # None => \E v \in Version : Has(slot, v)
    /\ \A d \in Doi : outcome[d] \in {"ok", "skipped"} =>
          \E slot \in used : slot[1] = Name[d] /\ Has(slot, seen[d])

(* A file once in the directory is never overwritten, neither by another   *)
(* PDF of the same name nor by a new version of its own.                   *)
NeverOverwritten ==
    [][\A slot \in Slot : dest[slot] # None => dest'[slot] = dest[slot]]_vars

(* The same command, run again after whatever broke it, ends up with every *)
(* PDF: no .part an earlier run left can be in its way for ever.           *)
EverySaved ==
    <>[](\A d \in Range(Again) :
            server[d] # None => \E slot \in Slot : slot[1] = Name[d] /\ Has(slot, server[d]))
=============================================================================

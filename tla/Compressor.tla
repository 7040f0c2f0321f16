----------------------------- MODULE Compressor -----------------------------
(***************************************************************************)
(* The workers of scripts/compress_pdfs_parallel.py at work on the object  *)
(* store next to running uploads: process() verifies the object of a row,  *)
(* makes a smaller one, publishes it, commits the row and unlinks the old  *)
(* object.  It takes the row lock of the database, and none of the flocks  *)
(* that uploads take.  Which rows it is given is CompressionSweep's        *)
(* business; here any visible row will do, but never one row twice at once. *)
(***************************************************************************)
EXTENDS Upload

CONSTANTS Worker,
          Optimized    \* bytes PDFCraft and the DOI stamp make of an object;
                       \* the same bytes when the result is not smaller

ASSUME OptimizedAssumption == Optimized \in [Hash -> [Doi -> Hash]]

VARIABLE work    \* the local state of process() in each worker

compressorVars == <<vars, work>>

WorkType == [pc: {"idle", "fetched", "optimized", "linked", "committed"},
             row: PdfId \cup {None}, sha: Hash \cup {None}, doi: Doi \cup {None}]

Idling == [pc |-> "idle", row |-> None, sha |-> None, doi |-> None]

CompressorInit ==
    /\ Init
    /\ work = [w \in Worker |-> Idling]

NewSha(w) == Optimized[work[w].sha][work[w].doi]

(* The columns of the row, read in the batch query.                        *)
Fetch(w, p) ==
    /\ work[w] = Idling
    /\ p \in Rows \ deleted
    /\ \A v \in Worker : work[v].row # p
    /\ work' = [work EXCEPT ![w] = [pc |-> "fetched", row |-> p,
                                    sha |-> shaOf[p], doi |-> doiOf[p]]]
    /\ UNCHANGED vars

(* The source is there and does not name another DOI; the candidate names  *)
(* this one and is smaller.                                                *)
Optimize(w) ==
    /\ work[w].pc = "fetched"
    /\ work[w].sha \in objects
    /\ Embedded[work[w].sha] \in {None, work[w].doi}
    /\ NewSha(w) # work[w].sha
    /\ Embedded[NewSha(w)] = work[w].doi
    /\ work' = [work EXCEPT ![w].pc = "optimized"]
    /\ UNCHANGED vars

(* The candidate's bytes are the object or an alias of another row.        *)
TakenElsewhere(h, p) ==
    \/ \E q \in PdfId \ {p} : shaOf[q] = h
    \/ alias[h] \notin {None, p}

RowUnchanged_OnlyVisible(w) ==   \* slip: the row's hash is not compared
    work[w].row \notin deleted

RowUnchanged(w) ==
    /\ shaOf[work[w].row] = work[w].sha
    /\ work[w].row \notin deleted

(* SELECT ... FOR UPDATE, the checks, and os.link of the new object, which *)
(* never overwrites.                                                       *)
Publish_NoBackup(w) ==   \* slip: the source is moved over before the COMMIT
    /\ work[w].pc = "optimized"
    /\ ~RowBusy(work[w].row, None)
    /\ RowUnchanged(w)
    /\ ~TakenElsewhere(NewSha(w), work[w].row)
    /\ objects' = (objects \ {work[w].sha}) \cup {NewSha(w)}
    /\ work' = [work EXCEPT ![w].pc = "linked"]
    /\ UNCHANGED <<db, locks, job>>

Publish(w) ==
    /\ work[w].pc = "optimized"
    /\ ~RowBusy(work[w].row, None)
    /\ RowUnchanged(w)
    /\ ~TakenElsewhere(NewSha(w), work[w].row)
    /\ objects' = objects \cup {NewSha(w)}
    /\ work' = [work EXCEPT ![w].pc = "linked"]
    /\ UNCHANGED <<db, locks, job>>

Commit_KeepsAlias(w) ==   \* slip: the row's own alias is not deleted
    /\ work[w].pc = "linked"
    /\ \A r \in Request : ~(Inserting(r) /\ job[r].sha = NewSha(w))
    /\ \A q \in PdfId \ {work[w].row} : shaOf[q] # NewSha(w)
    /\ shaOf' = [shaOf EXCEPT ![work[w].row] = NewSha(w)]
    /\ work' = [work EXCEPT ![w].pc = "committed"]
    /\ UNCHANGED <<doiOf, alias, deleted, objects, locks, job>>

(* UPDATE, DELETE of the row's own alias, COMMIT.  The UPDATE waits for an *)
(* INSERT of the same bytes and fails when it was committed.               *)
Commit(w) ==
    /\ work[w].pc = "linked"
    /\ \A r \in Request : ~(Inserting(r) /\ job[r].sha = NewSha(w))
    /\ \A q \in PdfId \ {work[w].row} : shaOf[q] # NewSha(w)
    /\ shaOf' = [shaOf EXCEPT ![work[w].row] = NewSha(w)]
    /\ alias' = IF alias[NewSha(w)] = work[w].row
                THEN [alias EXCEPT ![NewSha(w)] = None] ELSE alias
    /\ work' = [work EXCEPT ![w].pc = "committed"]
    /\ UNCHANGED <<doiOf, deleted, objects, locks, job>>

(* "No retained backup."                                                   *)
UnlinkSource(w) ==
    /\ work[w].pc = "committed"
    /\ objects' = objects \ {work[w].sha}
    /\ work' = [work EXCEPT ![w] = Idling]
    /\ UNCHANGED <<db, locks, job>>

(* An exception, a result that is not smaller, or the death of the process. *)
(* A new object that was linked stays "rather than risk deleting one that  *)
(* another transaction committed".                                         *)
GiveUp(w) ==
    /\ work[w] # Idling
    /\ work' = [work EXCEPT ![w] = Idling]
    /\ UNCHANGED vars

(* Uploads and administrators, who wait for the row lock from SELECT ...   *)
(* FOR UPDATE to COMMIT.                                                   *)
RowLocked(p) == \E w \in Worker : work[w].pc = "linked" /\ work[w].row = p

LibraryStep ==
    /\ Next
    /\ UNCHANGED work
    /\ \A p \in PdfId : RowLocked(p) =>
          /\ UNCHANGED <<doiOf[p], shaOf[p]>>
          /\ p \in deleted <=> p \in deleted'
          /\ ~RowBusy(p, None)'

CompressStep(w) ==
    \/ \E p \in PdfId : Fetch(w, p)
    \/ Optimize(w) \/ Publish(w) \/ Commit(w) \/ UnlinkSource(w) \/ GiveUp(w)

CompressorNext == LibraryStep \/ \E w \in Worker : CompressStep(w)

CompressorSpec == CompressorInit /\ [][CompressorNext]_compressorVars
-----------------------------------------------------------------------------
(* The local state of the workers, and that what a worker has verified of  *)
(* its row under the row lock still stands at the COMMIT.                  *)
WorkInv ==
    /\ work \in [Worker -> WorkType]
    /\ \A w \in Worker : work[w] # Idling => work[w].row \in Rows
    /\ \A v, w \in Worker : v # w /\ work[v].row = work[w].row => work[v] = Idling
    /\ \A w \in Worker : work[w].pc = "linked" =>
          /\ shaOf[work[w].row] = work[w].sha
          /\ work[w].row \notin deleted
          /\ ~RowBusy(work[w].row, None)

(* A compression replaces exactly the bytes it optimized, of a visible row: *)
(* a forced replacement, a deletion or a restored article between the look *)
(* at the row and the COMMIT is never undone.                              *)
NoLostReplacement ==
    [][\A p \in PdfId : shaOf[p] # None /\ shaOf'[p] # shaOf[p] /\ job' = job =>
          /\ p \notin deleted
          /\ shaOf'[p] = Optimized[shaOf[p]][doiOf[p]]]_compressorVars

(* Uploads, stamped and forced ones too, administrators and workers still   *)
(* act on the registry one COMMIT at a time, and a compression is one more  *)
(* operation of it, although a worker holds none of the locks under which  *)
(* an upload decides.                                                      *)
AtomicCompaction == Registry!CompactingSpec
=============================================================================

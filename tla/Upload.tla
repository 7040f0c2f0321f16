------------------------------- MODULE Upload -------------------------------
(***************************************************************************)
(* The upload handler of the NetVault server (main_helpers.process_upload  *)
(* with storage.py) running concurrently for several requests, next to the *)
(* two administrator operations that touch the same rows: soft delete and  *)
(* DOI correction.                                                         *)
(*                                                                         *)
(* A PDF is abstracted to its SHA-256, a member of Hash.  What the code    *)
(* reads out of the bytes is the constant Embedded (the unique Document    *)
(* Info DOI, or None) and what the DOI stamp writes is the constant        *)
(* Stamped.  The database is three columns of pdfs (doi, sha256,           *)
(* is_deleted) and the table pdf_file_aliases; the object store is the set *)
(* of hashes that have a file under objects/; each flock directory is a    *)
(* function from lock slots to the request that holds the slot.            *)
(*                                                                         *)
(* The handler is cut into one action per stretch between two points where *)
(* it may be suspended or where another process may see what it wrote.     *)
(***************************************************************************)
CONSTANTS Request,     \* concurrent executions of process_upload
          PdfId,       \* primary keys of table pdfs
          Hash,        \* SHA-256 values, standing for the bytes of PDFs
          Doi,         \* normalized DOIs
          Slot,        \* lock files of one lock directory
          None,
          Embedded,    \* Document Info DOI of the bytes
          Stamped,     \* bytes after stamp_uploaded_doi
          ObjectSlot,  \* lock file of an object hash
          DoiSlot,     \* lock file of a DOI
          Inputs,      \* the uploads clients send
          SeedDoi,     \* the library the server starts with
          SeedSha,
          Faults       \* which of the disturbances below may happen

FaultKinds == {"earlyError", "dbError", "cancel", "correction", "softDelete"}

InputType == [raw: Hash, doi: Doi \cup {None}, trusted: BOOLEAN, force: BOOLEAN]

ASSUME NoneAssumption == None \notin Request \cup PdfId \cup Hash \cup Doi

ASSUME BytesAssumption ==
    /\ Embedded \in [Hash -> Doi \cup {None}]
    /\ Stamped \in [Hash -> [Doi -> Hash]]

ASSUME SlotAssumption ==
    /\ ObjectSlot \in [Hash -> Slot]
    /\ DoiSlot \in [Doi -> Slot]

(* A trusted source needs an explicit DOI (400 otherwise).                 *)
ASSUME InputAssumption ==
    /\ Inputs \subseteq InputType
    /\ \A i \in Inputs : i.trusted => i.doi # None

(* The library satisfies the constraints of table pdfs: doi and sha256 are *)
(* NOT NULL and UNIQUE.                                                    *)
ASSUME SeedAssumption ==
    /\ SeedDoi \in [PdfId -> Doi \cup {None}]
    /\ SeedSha \in [PdfId -> Hash \cup {None}]
    /\ \A p \in PdfId : SeedDoi[p] = None <=> SeedSha[p] = None
    /\ \A p, q \in PdfId :
          p # q /\ SeedDoi[p] # None => /\ SeedDoi[p] # SeedDoi[q]
                                        /\ SeedSha[p] # SeedSha[q]

ASSUME FaultAssumption == Faults \subseteq FaultKinds

VARIABLES doiOf,    \* pdfs.doi, None when the row does not exist
          shaOf,    \* pdfs.sha256, None when the row does not exist
          deleted,  \* rows with is_deleted
          alias,    \* pdf_file_aliases: the row a hash is bound to
          objects,  \* hashes with a file in the object store
          objLock,  \* locks-v2/objects
          doiLock,  \* locks-v2/doi
          job       \* the local state of each request

db    == <<doiOf, shaOf, deleted, alias>>
locks == <<objLock, doiLock>>
vars  == <<doiOf, shaOf, deleted, alias, objects, objLock, doiLock, job>>
-----------------------------------------------------------------------------
(* A row update is pending from the SELECT ... FOR UPDATE of the decision  *)
(* to the COMMIT: the row lock is held in these phases.                    *)
CommitPc  == {"commitReplace", "commitAlias", "commitStore"}
LockedPc  == {"lookup", "promoteKnown", "commitKnown", "resolve", "stamp",
              "lockDoi", "decide", "respond"} \cup CommitPc
FinalPc   == {"done", "failed", "cancelled", "aborted"}
Pc        == {"store", "lock", "relock"} \cup LockedPc \cup FinalPc

JobType ==
    [pc: Pc, input: Inputs,
     sha: Hash,                \* hash of the staged (or stored) bytes
     staged: BOOLEAN,          \* staged_path is not None: the private copy exists
     doi: Doi \cup {None},     \* normalized_doi
     verified: BOOLEAN,        \* verified_metadata.status == "ok"
     row: PdfId \cup {None},   \* the row the request works on
     old: Hash \cup {None},    \* the row's hash when it was read
     claims: SUBSET Hash,      \* aliases to insert at COMMIT
     restore: BOOLEAN,         \* the row was seen soft-deleted
     replaced: BOOLEAN,        \* the force branch was taken
     promoted: BOOLEAN]        \* promoted_new_object

Fresh(i) == [pc |-> "store", input |-> i, sha |-> i.raw, staged |-> FALSE,
             doi |-> None, verified |-> FALSE, row |-> None, old |-> None,
             claims |-> {}, restore |-> FALSE, replaced |-> FALSE, promoted |-> FALSE]

Rows == {p \in PdfId : shaOf[p] # None}

(* SELECT id FROM pdfs WHERE column = v                                    *)
Holder(column, v) ==
    IF \E p \in PdfId : column[p] = v
    THEN CHOOSE p \in PdfId : column[p] = v
    ELSE None

(* Another request holds the row lock of p: the row was read by its DOI,   *)
(* FOR UPDATE.                                                             *)
RowBusy(p, r) ==
    \E q \in Request \ {r} :
        job[q].row = p /\ job[q].pc \in CommitPc /\ doiOf[p] = job[q].doi

(* A row inserted and flushed, not committed yet: its doi and sha256 make  *)
(* a second INSERT or UPDATE of the same values wait on the unique index.  *)
Inserting(q) == job[q].pc = "commitStore" /\ job[q].row = None

(* document evidence is read from the staged copy or from the object       *)
ReadDoi(j) == IF j.staged \/ j.sha \in objects THEN Embedded[j.sha] ELSE None
-----------------------------------------------------------------------------
Init ==
    /\ doiOf = SeedDoi
    /\ shaOf = SeedSha
    /\ deleted \in SUBSET {p \in PdfId : SeedSha[p] # None}
    /\ alias = [h \in Hash |-> None]
    /\ objects = {h \in Hash : \E p \in PdfId : SeedSha[p] = h}
    /\ objLock = [s \in Slot |-> None]
    /\ doiLock = [s \in Slot |-> None]
    /\ job \in [Request -> {Fresh(i) : i \in Inputs}]

(* store_pdf: stream to a private file; keep it only when no object of that *)
(* hash exists at this moment.                                             *)
StorePdf(r) ==
    /\ job[r].pc = "store"
    /\ job' = [job EXCEPT ![r].pc = "lock", ![r].staged = job[r].sha \notin objects]
    /\ UNCHANGED <<db, objects, locks>>

(* Bad extension, header, size or %%EOF, or not the hash the client chose. *)
RejectIntake(r) ==
    /\ job[r].pc = "store"
    /\ job' = [job EXCEPT ![r].pc = "failed"]
    /\ UNCHANGED <<db, objects, locks>>

(* acquire_object_lock(sha256): a blocking flock on the slot of the hash,  *)
(* first for the received bytes and, after a stamp, for the final bytes.   *)
AcquireObject_Shared(r) ==   \* slip: the lock does not exclude
    /\ job[r].pc \in {"lock", "relock"}
    /\ objLock' = [objLock EXCEPT ![ObjectSlot[job[r].sha]] = r]
    /\ job' = [job EXCEPT ![r].pc = IF job[r].pc = "lock" THEN "lookup" ELSE "lockDoi"]
    /\ UNCHANGED <<db, objects, doiLock>>

AcquireObject(r) ==
    /\ job[r].pc \in {"lock", "relock"}
    /\ objLock[ObjectSlot[job[r].sha]] = None
    /\ objLock' = [objLock EXCEPT ![ObjectSlot[job[r].sha]] = r]
    /\ job' = [job EXCEPT ![r].pc = IF job[r].pc = "lock" THEN "lookup" ELSE "lockDoi"]
    /\ UNCHANGED <<db, objects, doiLock>>

KnownRow(j) ==
    LET p == Holder(shaOf, j.sha)
    IN  IF p # None \/ j.input.force THEN p ELSE alias[j.sha]

IsKnown(j) == KnownRow(j) # None /\ ~j.input.force

(* The identity an upload of known bytes asserts; a DOI in the file wins   *)
(* over an explicit one unless the mapping is trusted.                     *)
AssertedDoi(j) ==
    IF ~j.input.trusted /\ ReadDoi(j) # None THEN ReadDoi(j) ELSE j.input.doi

AssertsOtherDoi(j) ==
    AssertedDoi(j) # None /\ AssertedDoi(j) # doiOf[KnownRow(j)]

(* The bytes are already bound to a row, and the upload does not contradict *)
(* that binding.                                                           *)
LookupKnown(r) ==
    LET j == job[r] IN
    /\ j.pc = "lookup"
    /\ IsKnown(j)
    /\ ~AssertsOtherDoi(j)
    /\ job' = [job EXCEPT ![r].pc = "promoteKnown",
                          ![r].row = KnownRow(j),
                          ![r].old = shaOf[KnownRow(j)],
                          ![r].restore = KnownRow(j) \in deleted]
    /\ UNCHANGED <<db, objects, locks>>

LookupUnknown(r) ==
    /\ job[r].pc = "lookup"
    /\ ~IsKnown(job[r])
    /\ job' = [job EXCEPT ![r].pc = "resolve"]
    /\ UNCHANGED <<db, objects, locks>>

(* Put the staged copy back when it is the row's own object, otherwise     *)
(* drop it provided that the row's object exists.                          *)
PromoteKnown(r) ==
    LET j == job[r] IN
    /\ j.pc = "promoteKnown"
    /\ j.staged /\ j.old # j.sha => j.old \in objects
    /\ objects' = IF j.staged /\ j.old = j.sha THEN objects \cup {j.sha} ELSE objects
    /\ job' = [job EXCEPT ![r].pc = "commitKnown", ![r].staged = FALSE]
    /\ UNCHANGED <<db, locks>>

CommitKnown(r) ==
    LET j == job[r] IN
    /\ j.pc = "commitKnown"
    /\ ~RowBusy(j.row, r)
    /\ deleted' = IF j.restore THEN deleted \ {j.row} ELSE deleted
    /\ job' = [job EXCEPT ![r].pc = "respond"]
    /\ UNCHANGED <<doiOf, shaOf, alias, objects, locks>>

(* DOI evidence and registry lookups.  A trusted mapping is taken as given, *)
(* a DOI in the file is authoritative, anything else is whatever the       *)
(* resolver accepts; --force needs registry metadata unless trusted.       *)
Resolve(r) ==
    LET j == job[r] IN
    /\ j.pc = "resolve"
    /\ \E d \in Doi, ok \in BOOLEAN :
          /\ j.input.trusted => d = j.input.doi
          /\ ~j.input.trusted /\ ReadDoi(j) # None => d = ReadDoi(j)
          /\ ~j.input.trusted /\ j.input.force => ok
          /\ job' = [job EXCEPT ![r].pc = "stamp", ![r].doi = d, ![r].verified = ok]
    /\ UNCHANGED <<db, objects, locks>>

(* stamp_uploaded_doi on the staged copy only.  When the bytes change, the *)
(* lock of the received hash is given up before the next one is taken.     *)
Stamp_NoRelock(r) ==   \* slip: stay under the lock of the received bytes
    LET j == job[r]
        h == IF j.staged THEN Stamped[j.sha][j.doi] ELSE j.sha
    IN
    /\ j.pc = "stamp"
    /\ job' = [job EXCEPT ![r].pc = "lockDoi", ![r].sha = h]
    /\ UNCHANGED <<db, objects, locks>>

Stamp(r) ==
    LET j == job[r]
        h == IF j.staged THEN Stamped[j.sha][j.doi] ELSE j.sha
    IN
    /\ j.pc = "stamp"
    /\ objLock' = IF h = j.sha THEN objLock
                  ELSE [objLock EXCEPT ![ObjectSlot[j.sha]] = None]
    /\ job' = [job EXCEPT ![r].pc = IF h = j.sha THEN "lockDoi" ELSE "relock",
                          ![r].sha = h]
    /\ UNCHANGED <<db, objects, doiLock>>

AcquireDoi(r) ==
    /\ job[r].pc = "lockDoi"
    /\ doiLock[DoiSlot[job[r].doi]] = None
    /\ doiLock' = [doiLock EXCEPT ![DoiSlot[job[r].doi]] = r]
    /\ job' = [job EXCEPT ![r].pc = "decide"]
    /\ UNCHANGED <<db, objects, objLock>>
-----------------------------------------------------------------------------
(* The decision, on what the three SELECTs return.                         *)
ByDoi(j) == Holder(doiOf, j.doi)
BySha(j) == Holder(shaOf, j.sha)

(* 409: the final bytes belong to another article.                         *)
BelongsElsewhere_NoForce(j) ==   \* slip: a forced upload skips the object's row
    alias[j.sha] # None /\ alias[j.sha] # ByDoi(j)

BelongsElsewhere(j) ==
    \/ alias[j.sha] # None /\ alias[j.sha] # ByDoi(j)
    \/ j.input.force /\ BySha(j) # None /\ doiOf[BySha(j)] # j.doi

Replaces(j) == j.input.force /\ ByDoi(j) # None

OtherBytes(j) == ByDoi(j) # None /\ shaOf[ByDoi(j)] # j.sha

Joins(j) == ~j.input.force /\ OtherBytes(j) /\ (j.input.trusted \/ j.verified)

Stores(j) == ~Replaces(j) /\ ~OtherBytes(j)

StoreRow(j) == IF ByDoi(j) # None THEN ByDoi(j) ELSE BySha(j)

(* 409: the received bytes, when the stamp changed them, belong elsewhere. *)
RawTaken(j) ==
    /\ j.input.raw # j.sha
    /\ LET p == IF Joins(j) THEN ByDoi(j) ELSE StoreRow(j)
       IN  \/ alias[j.input.raw] # None /\ alias[j.input.raw] # p
           \/ /\ Stores(j)
              /\ Holder(shaOf, j.input.raw) # None
              /\ Holder(shaOf, j.input.raw) # p

FreeAliases(S) == {h \in S : alias[h] = None}

Promote(r) ==
    objects' = IF job[r].staged THEN objects \cup {job[r].sha} ELSE objects

PromotedNew(j) == j.staged /\ j.sha \notin objects

(* --force on an existing article: publish the new object, then rewrite    *)
(* the row and its aliases.                                                *)
DecideReplace(r) ==
    LET j == job[r] IN
    /\ j.pc = "decide"
    /\ ~BelongsElsewhere(j)
    /\ Replaces(j)
    /\ ~RowBusy(ByDoi(j), r)
    /\ Promote(r)
    /\ job' = [job EXCEPT ![r].pc = "commitReplace", ![r].staged = FALSE,
                          ![r].row = ByDoi(j), ![r].old = shaOf[ByDoi(j)],
                          ![r].replaced = TRUE, ![r].promoted = PromotedNew(j),
                          ![r].claims = {j.input.raw} \ {j.sha}]
    /\ UNCHANGED <<db, locks>>

(* Other bytes of a known article: keep its canonical object, remember the *)
(* new hashes as aliases.                                                  *)
DecideAlias(r) ==
    LET j == job[r] IN
    /\ j.pc = "decide"
    /\ ~BelongsElsewhere(j)
    /\ Joins(j)
    /\ ~RawTaken(j)
    /\ ~RowBusy(ByDoi(j), r)
    /\ job' = [job EXCEPT ![r].pc = "commitAlias",
                          ![r].row = ByDoi(j), ![r].old = shaOf[ByDoi(j)],
                          ![r].claims = FreeAliases({j.sha, j.input.raw})]
    /\ UNCHANGED <<db, objects, locks>>

(* A new article, or one whose object already has these bytes.             *)
DecideStore(r) ==
    LET j == job[r]
        p == StoreRow(j)
    IN
    /\ j.pc = "decide"
    /\ ~BelongsElsewhere(j)
    /\ Stores(j)
    /\ ~RawTaken(j)
    /\ p # None => ~RowBusy(p, r)
    /\ p = None => \A q \in Request \ {r} :
                      Inserting(q) => job[q].doi # j.doi /\ job[q].sha # j.sha
    /\ Promote(r)
    /\ job' = [job EXCEPT ![r].pc = "commitStore", ![r].staged = FALSE,
                          ![r].row = p,
                          ![r].promoted = PromotedNew(j),
                          ![r].claims = FreeAliases({j.input.raw} \ {j.sha})]
    /\ UNCHANGED <<db, locks>>

(* UNIQUE constraints at COMMIT: pdf_file_aliases.sha256 and pdfs.sha256.  *)
OwnAliases_Kept(j) == {}   \* slip: a replacement keeps the old aliases

OwnAliases(j) == IF j.replaced THEN {h \in Hash : alias[h] = j.row} ELSE {}

CommitConflict(j) ==
    \/ \E h \in j.claims : alias[h] # None /\ h \notin OwnAliases(j)
    \/ j.replaced /\ Holder(shaOf, j.sha) # None /\ Holder(shaOf, j.sha) # j.row

Bind(j, p) ==
    alias' = [h \in Hash |-> IF h \in j.claims THEN p
                             ELSE IF h \in OwnAliases(j) THEN None ELSE alias[h]]

CommitReplace(r) ==
    LET j == job[r] IN
    /\ j.pc = "commitReplace"
    /\ ~CommitConflict(j)
    /\ shaOf' = [shaOf EXCEPT ![j.row] = j.sha]
    /\ deleted' = deleted \ {j.row}
    /\ Bind(j, j.row)
    /\ job' = [job EXCEPT ![r].pc = "respond"]
    /\ UNCHANGED <<doiOf, objects, locks>>

CommitAlias(r) ==
    LET j == job[r] IN
    /\ j.pc = "commitAlias"
    /\ ~CommitConflict(j)
    /\ deleted' = deleted \ {j.row}
    /\ Bind(j, j.row)
    /\ job' = [job EXCEPT ![r].pc = "respond", ![r].staged = FALSE]
    /\ UNCHANGED <<doiOf, shaOf, objects, locks>>

CommitStore(r) ==
    LET j == job[r] IN
    /\ j.pc = "commitStore"
    /\ ~CommitConflict(j)
    /\ \E p \in PdfId :
          /\ IF j.row = None
             THEN /\ shaOf[p] = None
                  /\ doiOf' = [doiOf EXCEPT ![p] = j.doi]
                  /\ shaOf' = [shaOf EXCEPT ![p] = j.sha]
             ELSE p = j.row /\ UNCHANGED <<doiOf, shaOf>>
          /\ deleted' = deleted \ {p}
          /\ Bind(j, p)
          /\ job' = [job EXCEPT ![r].pc = "respond", ![r].row = p]
    /\ UNCHANGED <<objects, locks>>

FreeLocks_ObjectOnly(r) ==   \* slip: the DOI lock is not released
    /\ objLock' = [s \in Slot |-> IF objLock[s] = r THEN None ELSE objLock[s]]
    /\ UNCHANGED doiLock

FreeLocks(r) ==
    /\ objLock' = [s \in Slot |-> IF objLock[s] = r THEN None ELSE objLock[s]]
    /\ doiLock' = [s \in Slot |-> IF doiLock[s] = r THEN None ELSE doiLock[s]]

(* After the COMMIT: refresh, unlink the object a replacement made stale,  *)
(* answer, release the DOI lock and then the object lock.                  *)
Respond(r) ==
    LET j == job[r] IN
    /\ j.pc = "respond"
    /\ objects' = IF j.replaced /\ j.old # j.sha THEN objects \ {j.old} ELSE objects
    /\ job' = [job EXCEPT ![r].pc = "done"]
    /\ FreeLocks(r)
    /\ UNCHANGED db

(* Why a request is refused in its current phase.                          *)
Refuses(j) ==
    \/ j.pc = "lookup" /\ IsKnown(j) /\ (AssertsOtherDoi(j) \/ ~j.input.trusted)
                                       \* several DOIs in the file
    \/ j.pc = "commitKnown" /\ ~j.input.trusted   \* metadata not verified
    \/ j.pc = "promoteKnown" /\ j.staged /\ j.old # j.sha /\ j.old \notin objects
    \/ j.pc = "resolve"                \* no DOI, conflict, metadata unavailable
    \/ j.pc = "stamp" /\ j.staged      \* encrypted, signed or certified PDF
    \/ /\ j.pc = "decide"
       /\ \/ BelongsElsewhere(j)
          \/ OtherBytes(j) /\ ~Replaces(j) /\ ~Joins(j)
          \/ (Joins(j) \/ Stores(j)) /\ RawTaken(j)
    \/ j.pc \in CommitPc /\ CommitConflict(j)

(* Where the database or a lock file may fail it after that.               *)
Breaks(j) ==
    /\ "dbError" \in Faults
    /\ j.pc \in CommitPc \cup {"lookup", "commitKnown", "relock", "lockDoi", "decide", "respond"}

Raises(j) == Refuses(j) \/ Breaks(j)

(* except Exception: roll back, drop the staged copy, unlink the object    *)
(* this request published; finally: release the locks.                     *)
Fail(r) ==
    LET j == job[r] IN
    /\ Raises(j)
    /\ objects' = IF j.promoted THEN objects \ {j.sha} ELSE objects
    /\ job' = [job EXCEPT ![r].pc = "failed", ![r].staged = FALSE]
    /\ FreeLocks(r)
    /\ UNCHANGED db

(* The ways out that no except block sees: the locks are given up, an       *)
(* uncommitted transaction is rolled back when the session closes, and the *)
(* private copy stays.                                                     *)
Leave(r, end) ==
    /\ job' = [job EXCEPT ![r].pc = end]
    /\ FreeLocks(r)
    /\ UNCHANGED <<db, objects>>

(* Cancellation is not an Exception: only the finally block runs.          *)
Cancel(r) ==
    /\ "cancel" \in Faults
    /\ job[r].pc \notin FinalPc \cup {"store"}
    /\ Leave(r, "cancelled")

(* db.rollback() and the first acquire_object_lock come before the try.    *)
Abort(r) ==
    /\ "earlyError" \in Faults
    /\ job[r].pc = "lock"
    /\ Leave(r, "aborted")
-----------------------------------------------------------------------------
(* DELETE /admin/pdfs: no flock, no object removal.                        *)
SoftDelete(p) ==
    /\ "softDelete" \in Faults
    /\ p \in Rows \ deleted
    /\ ~RowBusy(p, None)
    /\ deleted' = deleted \cup {p}
    /\ UNCHANGED <<doiOf, shaOf, alias, objects, locks, job>>

(* correct_pdf_doi: the row is locked FOR UPDATE, no DOI flock is taken.   *)
CorrectDoi(p, d) ==
    /\ "correction" \in Faults
    /\ p \in Rows \ deleted
    /\ ~RowBusy(p, None)
    /\ Holder(doiOf, d) = None
    /\ \A q \in Request : Inserting(q) => job[q].doi # d
    /\ doiOf' = [doiOf EXCEPT ![p] = d]
    /\ UNCHANGED <<shaOf, deleted, alias, objects, locks, job>>

Finished == \A r \in Request : job[r].pc \in FinalPc

Idle == Finished /\ UNCHANGED vars

Progress(r) ==
    \/ StorePdf(r) \/ RejectIntake(r) \/ AcquireObject(r)
    \/ LookupKnown(r) \/ LookupUnknown(r) \/ PromoteKnown(r) \/ CommitKnown(r)
    \/ Resolve(r) \/ Stamp(r) \/ AcquireDoi(r)
    \/ DecideReplace(r) \/ DecideAlias(r) \/ DecideStore(r)
    \/ CommitReplace(r) \/ CommitAlias(r) \/ CommitStore(r)
    \/ Respond(r) \/ Fail(r)

Next ==
    \/ \E r \in Request : Progress(r) \/ Cancel(r) \/ Abort(r)
    \/ \E p \in PdfId : SoftDelete(p)
    \/ \E p \in PdfId, d \in Doi : CorrectDoi(p, d)
    \/ Idle

Spec == Init /\ [][Next]_vars
-----------------------------------------------------------------------------
TypeOK ==
    /\ doiOf \in [PdfId -> Doi \cup {None}]
    /\ shaOf \in [PdfId -> Hash \cup {None}]
    /\ deleted \subseteq PdfId
    /\ alias \in [Hash -> PdfId \cup {None}]
    /\ objects \subseteq Hash
    /\ objLock \in [Slot -> Request \cup {None}]
    /\ doiLock \in [Slot -> Request \cup {None}]
    /\ job \in [Request -> JobType]

(* Two requests that may publish, bind or unlink the same final bytes, or  *)
(* decide about the same DOI, are never in their critical sections         *)
(* together: acquire_object_lock serializes them although the lock of the  *)
(* received bytes is dropped half-way.                                     *)
DoiPc == CommitPc \cup {"decide"}

OneWriterPerKey ==
    \A q, r \in Request : q # r =>
        /\ job[q].pc \in LockedPc /\ job[r].pc \in LockedPc =>
              job[q].sha # job[r].sha
        /\ job[q].pc \in DoiPc /\ job[r].pc \in DoiPc => job[q].doi # job[r].doi

(* What a request holds in which phase, the inductive invariant behind the  *)
(* other two: never two slots of one directory, the DOI slot only while it *)
(* holds the slot of the final bytes, the private copy only until it is    *)
(* published or dropped.                                                   *)
UnstagedPc == {"store", "commitKnown", "commitReplace", "commitStore",
               "respond", "done", "failed"}

Holds(r) ==
    /\ job[r].pc \in LockedPc => objLock[ObjectSlot[job[r].sha]] = r
    /\ job[r].pc \in DoiPc => job[r].doi \in Doi /\ doiLock[DoiSlot[job[r].doi]] = r
    /\ job[r].pc \in {"stamp", "relock", "lockDoi"} => job[r].doi \in Doi
    /\ job[r].pc \in UnstagedPc => ~job[r].staged
    /\ \A s \in Slot :
          /\ objLock[s] = r => job[r].pc \in LockedPc /\ s = ObjectSlot[job[r].sha]
          /\ doiLock[s] = r => job[r].pc \in DoiPc \cup {"respond"}

HoldInv == \A r \in Request : Holds(r)

(* A request that is over holds no lock, and its private staging file is   *)
(* gone once it was accepted, refused or failed inside the try; what is     *)
(* cancelled, or fails before the try, leaves the file to nobody.          *)
NothingLeftBehind ==
    \A r \in Request : job[r].pc \in FinalPc =>
        /\ job[r].pc \in {"done", "failed"} => ~job[r].staged
        /\ \A s \in Slot : objLock[s] # r /\ doiLock[s] # r

(* The bytes of a PDF identify one article: no hash is the object of one   *)
(* row and an alias of another.  The code relies on it whenever it looks a *)
(* hash up in both tables.                                                 *)
HashOneArticle ==
    \A h \in Hash : alias[h] # None => Holder(shaOf, h) \in {None, alias[h]}

(* What scripts/verify-storage.sh asserts: every row has its object.       *)
StoredObject == \A p \in Rows : shaOf[p] \in objects

(* It holds for as long as no forced replacement was made: store_pdf drops *)
(* the private copy of an upload before any lock is held, and yet no other *)
(* upload, refused or cancelled, takes the object it relies on away.       *)
StoredUnlessForced == (\A r \in Request : ~job[r].replaced) => StoredObject

(* Every COMMIT is one atomic step of the article registry, on a state in  *)
(* which the registry allows it.                                           *)
Registry == INSTANCE ArticleRegistry

AtomicRegistry == Registry!Spec

(* The two locks make the decision final: between the SELECTs and the      *)
(* COMMIT no other upload can take the aliases or the hash it relies on,   *)
(* so no upload ends in an IntegrityError (a 500) instead of a 409.        *)
CommitNeverConflicts ==
    \A r \in Request : job[r].pc \in CommitPc => ~CommitConflict(job[r])

(* An accepted upload resolved to a DOI is answered with the article of    *)
(* that DOI, never with another one that happens to hold the bytes.        *)
BoundToItsDoi ==
    [][\A r \in Request :
          job[r].pc \in CommitPc /\ job'[r].pc = "respond" =>
              doiOf'[job'[r].row] = job[r].doi]_vars

(* Why those three hold as long as no upload is restamped: from the lookup *)
(* on, the object lock keeps the bytes of an unforced upload unbound; from *)
(* the decision on, nobody else can bind the bytes or the DOI it decided   *)
(* about.                                                                  *)
Unstamped == \A i \in Inputs, d \in Doi : Stamped[i.raw][d] = i.raw

Unbound(h) == alias[h] = None /\ \A p \in PdfId : shaOf[p] # h

DecisionStands(j) ==
    /\ j.claims = IF j.pc = "commitAlias" THEN {j.sha} ELSE {}
    /\ j.replaced <=> j.pc = "commitReplace"
    /\ alias[j.sha] = None \/ (j.replaced /\ alias[j.sha] = j.row)
    /\ \A p \in PdfId : shaOf[p] = j.sha => p = j.row
    /\ IF j.row = None
       THEN j.pc = "commitStore" /\ \A p \in PdfId : doiOf[p] # j.doi
       ELSE j.pc # "commitStore" /\ j.row \in Rows /\ doiOf[j.row] = j.doi

Binds(r) ==
    LET j == job[r] IN
    /\ j.sha = j.input.raw /\ j.pc # "relock"
    /\ j.replaced => j.pc \in {"commitReplace", "respond"} \cup FinalPc
    /\ j.pc \in {"promoteKnown", "commitKnown"} => j.row \in Rows
    /\ j.pc \in {"resolve", "stamp", "lockDoi", "decide"} /\ ~j.input.force => Unbound(j.sha)
    /\ j.pc \in CommitPc => DecisionStands(j)

BindInv == Registry!Consistent /\ \A r \in Request : Binds(r)

(* Whose article bytes are is agreed, which lets those three hold although *)
(* uploads are stamped: a DOI in the bytes is that article's, the library  *)
(* has it so, uploads come from a list that has it so too, and the stamp   *)
(* for that DOI makes it bytes of the same article.                        *)
OwnArticles ==
    \E article \in [Hash -> Doi] :
        /\ \A h \in Hash : Embedded[h] \in {None, article[h]}
        /\ \A i \in Inputs : /\ i.trusted /\ i.doi = article[i.raw]
                             /\ article[Stamped[i.raw][i.doi]] = i.doi
        /\ \A p \in PdfId : SeedSha[p] # None => SeedDoi[p] = article[SeedSha[p]]
=============================================================================

---------------------------- MODULE UploadProofs ----------------------------
(***************************************************************************)
(* Proofs about modules Upload and Compressor, for any number of requests, *)
(* workers, rows, hashes and lock files, any bytes and any assignment of   *)
(* keys to lock files.  First the types, the locks and the private files;  *)
(* then that module Upload implements ArticleRegistry, once as long as no  *)
(* upload is restamped (BindInv) and once as long as whose article bytes   *)
(* are is agreed (Agreed); then that the rows keep their objects; then the *)
(* workers, which do not disturb the invariant of the uploads, TypeOK /\   *)
(* HoldInv, whose own, WorkInv, rests on it and on the row lock, which     *)
(* compact the registry in one step (AgreedWork) and leave every row its   *)
(* object (SharedInv); last that the event loop runs the same steps        *)
(* (UploadServer) and that nobody waits in a circle there.                 *)
(***************************************************************************)
EXTENDS Compressor, UploadServer, FiniteSetTheorems, TLAPS, Integers

IInv == TypeOK /\ HoldInv

(* What a lookup returns.                                                  *)
LEMMA HolderType ==
    ASSUME NEW column, NEW v
    PROVE  Holder(column, v) \in PdfId \cup {None}
  <1>1. CASE \E p \in PdfId : column[p] = v
    BY <1>1 DEF Holder
  <1>2. CASE ~ \E p \in PdfId : column[p] = v
    BY <1>2 DEF Holder
  <1> QED BY <1>1, <1>2

LEMMA KnownRowType ==
    ASSUME TypeOK, NEW r \in Request
    PROVE  KnownRow(job[r]) \in PdfId \cup {None}
  <1>1. job[r].sha \in Hash
    BY DEF TypeOK, JobType
  <1>2. alias[job[r].sha] \in PdfId \cup {None}
    BY <1>1 DEF TypeOK
  <1> QED BY <1>2, HolderType DEF KnownRow

LEMMA ReadDoiType ==
    ASSUME TypeOK, NEW r \in Request
    PROVE  ReadDoi(job[r]) \in Doi \cup {None}
  BY BytesAssumption DEF ReadDoi, TypeOK, JobType

(* The lemma about frames: a step of r leaves alone the local state and    *)
(* the locks of everybody else.                                            *)
OnlyOf(r) ==
    \A q \in Request \ {r} :
        /\ job'[q] = job[q]
        /\ \A s \in Slot : (objLock'[s] = q <=> objLock[s] = q)
                        /\ (doiLock'[s] = q <=> doiLock[s] = q)

LEMMA HoldFrame ==
    ASSUME TypeOK, HoldInv, NEW r \in Request, OnlyOf(r), Holds(r)'
    PROVE  HoldInv'
  <1> SUFFICES ASSUME NEW q \in Request, q # r
               PROVE  Holds(q)'
    BY DEF HoldInv
  <1>1. Holds(q)
    BY DEF HoldInv
  <1>2. job'[q] = job[q] /\ \A s \in Slot : (objLock'[s] = q <=> objLock[s] = q)
                                         /\ (doiLock'[s] = q <=> doiLock[s] = q)
    BY DEF OnlyOf
  <1>3. ObjectSlot[job[q].sha] \in Slot
    BY SlotAssumption DEF TypeOK, JobType
  <1>4. job[q].doi \in Doi => DoiSlot[job[q].doi] \in Slot
    BY SlotAssumption
  <1> QED BY <1>1, <1>2, <1>3, <1>4 DEF Holds

(* Steps of r that touch no lock.                                          *)
LEMMA NoLockFrame ==
    ASSUME NEW r \in Request, TypeOK, UNCHANGED locks,
           \A q \in Request \ {r} : job'[q] = job[q]
    PROVE  OnlyOf(r)
  BY DEF OnlyOf, locks

LEMMA FreeLocksFrame ==
    ASSUME NEW r \in Request, TypeOK, FreeLocks(r),
           \A q \in Request \ {r} : job'[q] = job[q]
    PROVE  /\ OnlyOf(r)
           /\ objLock' \in [Slot -> Request \cup {None}]
           /\ doiLock' \in [Slot -> Request \cup {None}]
           /\ \A s \in Slot : objLock'[s] # r /\ doiLock'[s] # r
  <1>1. r # None /\ \A q \in Request : q # None
    BY NoneAssumption
  <1>2. \A s \in Slot : /\ objLock'[s] = IF objLock[s] = r THEN None ELSE objLock[s]
                        /\ doiLock'[s] = IF doiLock[s] = r THEN None ELSE doiLock[s]
    BY DEF FreeLocks
  <1>3. objLock' \in [Slot -> Request \cup {None}] /\ doiLock' \in [Slot -> Request \cup {None}]
    BY DEF FreeLocks, TypeOK
  <1> QED BY <1>1, <1>2, <1>3 DEF OnlyOf

-----------------------------------------------------------------------------
LEMMA InitHolds == Init => IInv
  <1> SUFFICES ASSUME Init PROVE IInv
    OBVIOUS
  <1>1. \A i \in Inputs : Fresh(i) \in JobType /\ Fresh(i).pc = "store" /\ Fresh(i).staged = FALSE
    BY InputAssumption DEF Fresh, JobType, Pc, InputType
  <1>2. \A r \in Request : job[r] \in JobType /\ job[r].pc = "store" /\ job[r].staged = FALSE
    BY <1>1 DEF Init
  <1>3. TypeOK
    BY <1>1, SeedAssumption DEF Init, TypeOK
  <1>4. HoldInv
    BY <1>2, NoneAssumption DEF Init, HoldInv, Holds, LockedPc, DoiPc, CommitPc, UnstagedPc
  <1> QED BY <1>3, <1>4 DEF IInv

(* Every step of a request that touches no lock.                           *)
(* A step of r replaces its record, and may leave the rest alone.          *)
LEMMA JobStep ==
    ASSUME TypeOK, NEW r \in Request, NEW new \in JobType, job' = [job EXCEPT ![r] = new]
    PROVE  /\ job' \in [Request -> JobType]
           /\ job'[r] = new
           /\ \A q \in Request \ {r} : job'[q] = job[q]
  BY DEF TypeOK

(* The shared data of the vault, apart from the locks.                     *)
DataType ==
    /\ doiOf \in [PdfId -> Doi \cup {None}]
    /\ shaOf \in [PdfId -> Hash \cup {None}]
    /\ deleted \subseteq PdfId
    /\ alias \in [Hash -> PdfId \cup {None}]
    /\ objects \subseteq Hash

LEMMA QuietStep ==
    ASSUME TypeOK, NEW r \in Request, NEW new \in JobType, job' = [job EXCEPT ![r] = new],
           DataType', UNCHANGED locks
    PROVE  TypeOK' /\ OnlyOf(r)
  BY JobStep, NoLockFrame DEF TypeOK, DataType, locks

LEMMA FreeingStep ==
    ASSUME TypeOK, NEW r \in Request, NEW new \in JobType, job' = [job EXCEPT ![r] = new],
           DataType', FreeLocks(r)
    PROVE  TypeOK' /\ OnlyOf(r) /\ \A s \in Slot : objLock'[s] # r /\ doiLock'[s] # r
  BY JobStep, FreeLocksFrame DEF TypeOK, DataType

LEMMA BindType ==
    ASSUME TypeOK, NEW j, NEW p \in PdfId \cup {None}, Bind(j, p)
    PROVE  alias' \in [Hash -> PdfId \cup {None}]
  BY DEF TypeOK, Bind

LEMMA StorePdfKeeps ==
    ASSUME IInv, NEW r \in Request, StorePdf(r)
    PROVE  IInv'
  <1> DEFINE new == [job[r] EXCEPT !.pc = "lock", !.staged = job[r].sha \notin objects]
  <1>1. job[r] \in JobType
    BY DEF IInv, TypeOK
  <1>2. new \in JobType
    BY <1>1 DEF JobType, Pc, LockedPc, CommitPc, FinalPc
  <1>3. job' = [job EXCEPT ![r] = new] /\ UNCHANGED locks
    BY DEF StorePdf, IInv, TypeOK, locks
  <1>4. /\ job[r].pc = "store"
        /\ job'[r].pc = "lock"
        /\ job'[r].sha = job[r].sha /\ job'[r].doi = job[r].doi
    BY <1>1, <1>3 DEF StorePdf, IInv, TypeOK, JobType
  <1> HIDE DEF new
  <1>5. DataType'
    BY <1>1 DEF StorePdf, IInv, TypeOK, DataType, db, JobType
  <1>6. TypeOK' /\ OnlyOf(r)
    BY <1>2, <1>3, <1>5, QuietStep DEF IInv
  <1>7. Holds(r)'
    BY <1>3, <1>4 DEF IInv, HoldInv, locks, Holds, LockedPc, DoiPc, CommitPc, UnstagedPc, FinalPc
  <1> QED BY <1>6, <1>7, HoldFrame DEF IInv

LEMMA RejectIntakeKeeps ==
    ASSUME IInv, NEW r \in Request, RejectIntake(r)
    PROVE  IInv'
  <1> DEFINE new == [job[r] EXCEPT !.pc = "failed"]
  <1>1. job[r] \in JobType
    BY DEF IInv, TypeOK
  <1>2. new \in JobType
    BY <1>1 DEF JobType, Pc, LockedPc, CommitPc, FinalPc
  <1>3. job' = [job EXCEPT ![r] = new] /\ UNCHANGED locks
    BY DEF RejectIntake, IInv, TypeOK, locks
  <1>4. /\ job[r].pc = "store"
        /\ job'[r].pc = "failed" /\ job'[r].staged = job[r].staged
        /\ job'[r].sha = job[r].sha /\ job'[r].doi = job[r].doi
    BY <1>1, <1>3 DEF RejectIntake, IInv, TypeOK, JobType
  <1> HIDE DEF new
  <1>5. DataType'
    BY <1>1 DEF RejectIntake, IInv, TypeOK, DataType, db, JobType
  <1>6. TypeOK' /\ OnlyOf(r)
    BY <1>2, <1>3, <1>5, QuietStep DEF IInv
  <1>7. Holds(r)'
    BY <1>3, <1>4 DEF IInv, HoldInv, locks, Holds, LockedPc, DoiPc, CommitPc, UnstagedPc, FinalPc
  <1> QED BY <1>6, <1>7, HoldFrame DEF IInv

LEMMA LookupKnownKeeps ==
    ASSUME IInv, NEW r \in Request, LookupKnown(r)
    PROVE  IInv'
  <1> DEFINE new == [job[r] EXCEPT !.pc = "promoteKnown", !.row = KnownRow(job[r]),
                                     !.old = shaOf[KnownRow(job[r])],
                                     !.restore = KnownRow(job[r]) \in deleted]
  <1>1. job[r] \in JobType
    BY DEF IInv, TypeOK
  <1>2. new \in JobType
    <2>1. KnownRow(job[r]) \in PdfId /\ shaOf[KnownRow(job[r])] \in Hash \cup {None}
      BY KnownRowType DEF LookupKnown, IsKnown, TypeOK, IInv
    <2>2. \A p \in PdfId, h \in Hash \cup {None}, b \in BOOLEAN :
            [job[r] EXCEPT !.pc = "promoteKnown", !.row = p, !.old = h, !.restore = b] \in JobType
      BY <1>1 DEF JobType, Pc, LockedPc
    <2>3. (KnownRow(job[r]) \in deleted) \in BOOLEAN
      OBVIOUS
    <2> QED BY <2>1, <2>2, <2>3, Zenon
  <1>3. job' = [job EXCEPT ![r] = new] /\ UNCHANGED locks
    BY DEF LookupKnown, IInv, TypeOK, locks
  <1>4. /\ job[r].pc = "lookup"
        /\ job'[r].pc = "promoteKnown"
        /\ job'[r].sha = job[r].sha /\ job'[r].doi = job[r].doi
    BY <1>1, <1>3 DEF LookupKnown, IInv, TypeOK, JobType
  <1> HIDE DEF new
  <1>5. DataType'
    BY <1>1 DEF LookupKnown, IInv, TypeOK, DataType, db, JobType
  <1>6. TypeOK' /\ OnlyOf(r)
    BY <1>2, <1>3, <1>5, QuietStep DEF IInv
  <1>7. Holds(r)'
    BY <1>3, <1>4 DEF IInv, HoldInv, locks, Holds, LockedPc, DoiPc, CommitPc, UnstagedPc, FinalPc
  <1> QED BY <1>6, <1>7, HoldFrame DEF IInv

LEMMA LookupUnknownKeeps ==
    ASSUME IInv, NEW r \in Request, LookupUnknown(r)
    PROVE  IInv'
  <1> DEFINE new == [job[r] EXCEPT !.pc = "resolve"]
  <1>1. job[r] \in JobType
    BY DEF IInv, TypeOK
  <1>2. new \in JobType
    BY <1>1 DEF JobType, Pc, LockedPc, CommitPc, FinalPc
  <1>3. job' = [job EXCEPT ![r] = new] /\ UNCHANGED locks
    BY DEF LookupUnknown, IInv, TypeOK, locks
  <1>4. /\ job[r].pc = "lookup"
        /\ job'[r].pc = "resolve"
        /\ job'[r].sha = job[r].sha /\ job'[r].doi = job[r].doi
    BY <1>1, <1>3 DEF LookupUnknown, IInv, TypeOK, JobType
  <1> HIDE DEF new
  <1>5. DataType'
    BY <1>1 DEF LookupUnknown, IInv, TypeOK, DataType, db, JobType
  <1>6. TypeOK' /\ OnlyOf(r)
    BY <1>2, <1>3, <1>5, QuietStep DEF IInv
  <1>7. Holds(r)'
    BY <1>3, <1>4 DEF IInv, HoldInv, locks, Holds, LockedPc, DoiPc, CommitPc, UnstagedPc, FinalPc
  <1> QED BY <1>6, <1>7, HoldFrame DEF IInv

LEMMA PromoteKnownKeeps ==
    ASSUME IInv, NEW r \in Request, PromoteKnown(r)
    PROVE  IInv'
  <1> DEFINE new == [job[r] EXCEPT !.pc = "commitKnown", !.staged = FALSE]
  <1>1. job[r] \in JobType
    BY DEF IInv, TypeOK
  <1>2. new \in JobType
    BY <1>1 DEF JobType, Pc, LockedPc, CommitPc, FinalPc
  <1>3. job' = [job EXCEPT ![r] = new] /\ UNCHANGED locks
    BY DEF PromoteKnown, IInv, TypeOK, locks
  <1>4. /\ job[r].pc = "promoteKnown"
        /\ job'[r].pc = "commitKnown" /\ ~job'[r].staged
        /\ job'[r].sha = job[r].sha /\ job'[r].doi = job[r].doi
    BY <1>1, <1>3 DEF PromoteKnown, IInv, TypeOK, JobType
  <1> HIDE DEF new
  <1>5. DataType'
    BY <1>1 DEF PromoteKnown, IInv, TypeOK, DataType, db, JobType
  <1>6. TypeOK' /\ OnlyOf(r)
    BY <1>2, <1>3, <1>5, QuietStep DEF IInv
  <1>7. Holds(r)'
    BY <1>3, <1>4 DEF IInv, HoldInv, locks, Holds, LockedPc, DoiPc, CommitPc, UnstagedPc, FinalPc
  <1> QED BY <1>6, <1>7, HoldFrame DEF IInv

LEMMA CommitKnownKeeps ==
    ASSUME IInv, NEW r \in Request, CommitKnown(r)
    PROVE  IInv'
  <1> DEFINE new == [job[r] EXCEPT !.pc = "respond"]
  <1>1. job[r] \in JobType
    BY DEF IInv, TypeOK
  <1>2. new \in JobType
    BY <1>1 DEF JobType, Pc, LockedPc, CommitPc, FinalPc
  <1>3. job' = [job EXCEPT ![r] = new] /\ UNCHANGED locks
    BY DEF CommitKnown, IInv, TypeOK, locks
  <1>4. /\ job[r].pc = "commitKnown"
        /\ job'[r].pc = "respond" /\ job'[r].staged = job[r].staged
        /\ job'[r].sha = job[r].sha /\ job'[r].doi = job[r].doi
    BY <1>1, <1>3 DEF CommitKnown, IInv, TypeOK, JobType
  <1> HIDE DEF new
  <1>5. DataType'
    BY <1>1 DEF CommitKnown, IInv, TypeOK, DataType, db, JobType
  <1>6. TypeOK' /\ OnlyOf(r)
    BY <1>2, <1>3, <1>5, QuietStep DEF IInv
  <1>7. Holds(r)'
    BY <1>3, <1>4 DEF IInv, HoldInv, locks, Holds, LockedPc, DoiPc, CommitPc, UnstagedPc, FinalPc
  <1> QED BY <1>6, <1>7, HoldFrame DEF IInv

LEMMA ResolveKeeps ==
    ASSUME IInv, NEW r \in Request, Resolve(r)
    PROVE  IInv'
  <1>a. PICK d \in Doi, ok \in BOOLEAN :
           job' = [job EXCEPT ![r].pc = "stamp", ![r].doi = d, ![r].verified = ok]
    BY DEF Resolve
  <1> DEFINE new == [job[r] EXCEPT !.pc = "stamp", !.doi = d, !.verified = ok]
  <1>1. job[r] \in JobType
    BY DEF IInv, TypeOK
  <1>2. new \in JobType
    BY <1>1 DEF JobType, Pc, LockedPc, CommitPc, FinalPc
  <1>3. job' = [job EXCEPT ![r] = new] /\ UNCHANGED locks
    BY <1>a DEF Resolve, IInv, TypeOK, locks
  <1>4. /\ job[r].pc = "resolve"
        /\ job'[r].pc = "stamp"
        /\ job'[r].sha = job[r].sha /\ job'[r].doi \in Doi
    BY <1>a, <1>1, <1>3 DEF Resolve, IInv, TypeOK, JobType
  <1> HIDE DEF new
  <1>5. DataType'
    BY <1>a, <1>1 DEF Resolve, IInv, TypeOK, DataType, db, JobType
  <1>6. TypeOK' /\ OnlyOf(r)
    BY <1>2, <1>3, <1>5, QuietStep DEF IInv
  <1>7. Holds(r)'
    BY <1>3, <1>4 DEF IInv, HoldInv, locks, Holds, LockedPc, DoiPc, CommitPc, UnstagedPc, FinalPc
  <1> QED BY <1>6, <1>7, HoldFrame DEF IInv

LEMMA AcquireObjectKeeps ==
    ASSUME IInv, NEW r \in Request, AcquireObject(r)
    PROVE  IInv'
  <1> DEFINE slot == ObjectSlot[job[r].sha]
             p == IF job[r].pc = "lock" THEN "lookup" ELSE "lockDoi"
             new == [job[r] EXCEPT !.pc = p]
  <1>1. job[r] \in JobType /\ slot \in Slot
    BY SlotAssumption DEF IInv, TypeOK, JobType
  <1>2. new \in JobType
    BY <1>1 DEF JobType, Pc, LockedPc, CommitPc, FinalPc
  <1>3. job' = [job EXCEPT ![r] = new] /\ objLock[slot] = None
        /\ objLock' = [objLock EXCEPT ![slot] = r] /\ UNCHANGED doiLock
    BY DEF AcquireObject, IInv, TypeOK
  <1>4. /\ job[r].pc \in {"lock", "relock"} /\ job'[r].pc = p
        /\ job'[r].sha = job[r].sha /\ job'[r].doi = job[r].doi
    BY <1>1, <1>3 DEF AcquireObject, IInv, TypeOK, JobType
  <1> HIDE DEF new
  <1>5. TypeOK'
    BY <1>1, <1>2, <1>3, JobStep DEF AcquireObject, IInv, TypeOK, db
  <1>6. OnlyOf(r)
    BY <1>1, <1>2, <1>3, NoneAssumption, JobStep DEF OnlyOf, IInv, TypeOK
  <1>7. Holds(r)'
    BY <1>1, <1>3, <1>4 DEF IInv, TypeOK, HoldInv, Holds, LockedPc, DoiPc, CommitPc, UnstagedPc
  <1> QED BY <1>5, <1>6, <1>7, HoldFrame DEF IInv

LEMMA StampKeeps ==
    ASSUME IInv, NEW r \in Request, Stamp(r)
    PROVE  IInv'
  <1> DEFINE slot == ObjectSlot[job[r].sha]
             h == IF job[r].staged THEN Stamped[job[r].sha][job[r].doi] ELSE job[r].sha
             p == IF h = job[r].sha THEN "lockDoi" ELSE "relock"
             new == [job[r] EXCEPT !.pc = p, !.sha = h]
  <1>1. job[r] \in JobType /\ slot \in Slot /\ h \in Hash
    BY SlotAssumption, BytesAssumption DEF IInv, TypeOK, JobType, HoldInv, Holds, Stamp
  <1>2. new \in JobType
    <2>1. \A x \in Hash, y \in {"lockDoi", "relock"} : [job[r] EXCEPT !.pc = y, !.sha = x] \in JobType
      BY <1>1 DEF JobType, Pc, LockedPc
    <2> QED BY <1>1, <2>1
  <1>3. job' = [job EXCEPT ![r] = new] /\ UNCHANGED doiLock
        /\ objLock' = IF h = job[r].sha THEN objLock ELSE [objLock EXCEPT ![slot] = None]
    BY DEF Stamp, IInv, TypeOK
  <1>4. /\ job[r].pc = "stamp" /\ job'[r].pc = p
        /\ job'[r].sha = h /\ job'[r].doi = job[r].doi
    BY <1>1, <1>3 DEF Stamp, IInv, TypeOK, JobType
  <1>a. objLock[slot] = r /\ job[r].doi \in Doi
    BY <1>4 DEF IInv, HoldInv, Holds, LockedPc
  <1> HIDE DEF new
  <1>5. TypeOK'
    BY <1>1, <1>2, <1>3, JobStep DEF Stamp, IInv, TypeOK, db
  <1>6. OnlyOf(r)
    <2>1. \A q \in Request \ {r} : job'[q] = job[q]
      BY <1>2, <1>3, JobStep DEF IInv
    <2> QED BY <2>1, <1>1, <1>3, <1>a, NoneAssumption DEF OnlyOf, IInv, TypeOK
  <1>7. Holds(r)'
    BY <1>1, <1>3, <1>4, <1>a, NoneAssumption DEF IInv, TypeOK, HoldInv, Holds, LockedPc, DoiPc, CommitPc, UnstagedPc
  <1> QED BY <1>5, <1>6, <1>7, HoldFrame DEF IInv

LEMMA AcquireDoiKeeps ==
    ASSUME IInv, NEW r \in Request, AcquireDoi(r)
    PROVE  IInv'
  <1> DEFINE slot == DoiSlot[job[r].doi]
             new == [job[r] EXCEPT !.pc = "decide"]
  <1>1. job[r] \in JobType /\ job[r].doi \in Doi /\ slot \in Slot
    BY SlotAssumption DEF AcquireDoi, IInv, TypeOK, JobType, HoldInv, Holds
  <1>2. new \in JobType
    BY <1>1 DEF JobType, Pc, LockedPc, CommitPc, FinalPc
  <1>3. job' = [job EXCEPT ![r] = new] /\ doiLock[slot] = None
        /\ doiLock' = [doiLock EXCEPT ![slot] = r] /\ UNCHANGED objLock
    BY DEF AcquireDoi, IInv, TypeOK
  <1>4. /\ job[r].pc = "lockDoi" /\ job'[r].pc = "decide"
        /\ job'[r].sha = job[r].sha /\ job'[r].doi = job[r].doi
    BY <1>1, <1>3 DEF AcquireDoi, IInv, TypeOK, JobType
  <1> HIDE DEF new
  <1>5. TypeOK'
    BY <1>1, <1>2, <1>3, JobStep DEF AcquireDoi, IInv, TypeOK, db
  <1>6. OnlyOf(r)
    BY <1>1, <1>2, <1>3, NoneAssumption, JobStep DEF OnlyOf, IInv, TypeOK
  <1>7. Holds(r)'
    BY <1>1, <1>3, <1>4 DEF IInv, TypeOK, HoldInv, Holds, LockedPc, DoiPc, CommitPc, UnstagedPc
  <1> QED BY <1>5, <1>6, <1>7, HoldFrame DEF IInv

LEMMA DecideReplaceKeeps ==
    ASSUME IInv, NEW r \in Request, DecideReplace(r)
    PROVE  IInv'
  <1> DEFINE new == [job[r] EXCEPT !.pc = "commitReplace", !.staged = FALSE, !.row = ByDoi(job[r]),
                               !.old = shaOf[ByDoi(job[r])], !.replaced = TRUE,
                               !.promoted = PromotedNew(job[r]),
                               !.claims = {job[r].input.raw} \ {job[r].sha}]
  <1>1. job[r] \in JobType
    BY DEF IInv, TypeOK
  <1>2. new \in JobType
    <2>1. \A p \in PdfId \cup {None}, h \in Hash \cup {None}, b \in BOOLEAN, c \in SUBSET Hash :
            [job[r] EXCEPT !.pc = "commitReplace", !.staged = FALSE, !.row = p, !.old = h,
                           !.replaced = TRUE, !.promoted = b, !.claims = c] \in JobType
      BY <1>1 DEF JobType, Pc, LockedPc, CommitPc
    <2>2. /\ ByDoi(job[r]) \in PdfId \cup {None} /\ shaOf[ByDoi(job[r])] \in Hash \cup {None}
          /\ PromotedNew(job[r]) \in BOOLEAN /\ {job[r].input.raw} \ {job[r].sha} \in SUBSET Hash
      BY <1>1, HolderType, InputAssumption DEF ByDoi, Replaces, DecideReplace, PromotedNew, JobType, InputType, IInv, TypeOK
    <2> QED BY <2>1, <2>2, Zenon
  <1>3. job' = [job EXCEPT ![r] = new] /\ UNCHANGED locks
    BY DEF DecideReplace, IInv, TypeOK, locks
  <1>4. /\ job[r].pc = "decide"
        /\ job'[r].pc = "commitReplace" /\ ~job'[r].staged
        /\ job'[r].sha = job[r].sha /\ job'[r].doi = job[r].doi
    BY <1>1, <1>3 DEF DecideReplace, IInv, TypeOK, JobType
  <1> HIDE DEF new
  <1>5. DataType'
    BY <1>1 DEF DecideReplace, IInv, TypeOK, DataType, db, Promote, JobType
  <1>6. TypeOK' /\ OnlyOf(r)
    BY <1>2, <1>3, <1>5, QuietStep DEF IInv
  <1>7. Holds(r)'
    BY <1>3, <1>4 DEF IInv, HoldInv, locks, Holds, LockedPc, DoiPc, CommitPc, UnstagedPc, FinalPc
  <1> QED BY <1>6, <1>7, HoldFrame DEF IInv

LEMMA DecideAliasKeeps ==
    ASSUME IInv, NEW r \in Request, DecideAlias(r)
    PROVE  IInv'
  <1> DEFINE new == [job[r] EXCEPT !.pc = "commitAlias", !.row = ByDoi(job[r]),
                               !.old = shaOf[ByDoi(job[r])],
                               !.claims = FreeAliases({job[r].sha, job[r].input.raw})]
  <1>1. job[r] \in JobType
    BY DEF IInv, TypeOK
  <1>2. new \in JobType
    <2>1. \A p \in PdfId \cup {None}, h \in Hash \cup {None}, c \in SUBSET Hash :
            [job[r] EXCEPT !.pc = "commitAlias", !.row = p, !.old = h, !.claims = c] \in JobType
      BY <1>1 DEF JobType, Pc, LockedPc, CommitPc
    <2>2. /\ ByDoi(job[r]) \in PdfId \cup {None} /\ shaOf[ByDoi(job[r])] \in Hash \cup {None}
          /\ FreeAliases({job[r].sha, job[r].input.raw}) \in SUBSET Hash
      BY <1>1, HolderType, InputAssumption DEF ByDoi, Joins, OtherBytes, DecideAlias, FreeAliases, JobType, InputType, IInv, TypeOK
    <2> QED BY <2>1, <2>2, Zenon
  <1>3. job' = [job EXCEPT ![r] = new] /\ UNCHANGED locks
    BY DEF DecideAlias, IInv, TypeOK, locks
  <1>4. /\ job[r].pc = "decide"
        /\ job'[r].pc = "commitAlias"
        /\ job'[r].sha = job[r].sha /\ job'[r].doi = job[r].doi
    BY <1>1, <1>3 DEF DecideAlias, IInv, TypeOK, JobType
  <1> HIDE DEF new
  <1>5. DataType'
    BY <1>1 DEF DecideAlias, IInv, TypeOK, DataType, db, JobType
  <1>6. TypeOK' /\ OnlyOf(r)
    BY <1>2, <1>3, <1>5, QuietStep DEF IInv
  <1>7. Holds(r)'
    BY <1>3, <1>4 DEF IInv, HoldInv, locks, Holds, LockedPc, DoiPc, CommitPc, UnstagedPc, FinalPc
  <1> QED BY <1>6, <1>7, HoldFrame DEF IInv

LEMMA DecideStoreKeeps ==
    ASSUME IInv, NEW r \in Request, DecideStore(r)
    PROVE  IInv'
  <1> DEFINE new == [job[r] EXCEPT !.pc = "commitStore", !.staged = FALSE, !.row = StoreRow(job[r]),
                               !.promoted = PromotedNew(job[r]),
                               !.claims = FreeAliases({job[r].input.raw} \ {job[r].sha})]
  <1>1. job[r] \in JobType
    BY DEF IInv, TypeOK
  <1>2. new \in JobType
    <2>1. \A p \in PdfId \cup {None}, b \in BOOLEAN, c \in SUBSET Hash :
            [job[r] EXCEPT !.pc = "commitStore", !.staged = FALSE, !.row = p,
                           !.promoted = b, !.claims = c] \in JobType
      BY <1>1 DEF JobType, Pc, LockedPc, CommitPc
    <2>2. /\ StoreRow(job[r]) \in PdfId \cup {None}
          /\ PromotedNew(job[r]) \in BOOLEAN
          /\ FreeAliases({job[r].input.raw} \ {job[r].sha}) \in SUBSET Hash
      BY <1>1, HolderType, InputAssumption DEF StoreRow, ByDoi, BySha, PromotedNew, FreeAliases, JobType, InputType, IInv, TypeOK
    <2> QED BY <2>1, <2>2, Zenon
  <1>3. job' = [job EXCEPT ![r] = new] /\ UNCHANGED locks
    BY DEF DecideStore, IInv, TypeOK, locks
  <1>4. /\ job[r].pc = "decide"
        /\ job'[r].pc = "commitStore" /\ ~job'[r].staged
        /\ job'[r].sha = job[r].sha /\ job'[r].doi = job[r].doi
    BY <1>1, <1>3 DEF DecideStore, IInv, TypeOK, JobType
  <1> HIDE DEF new
  <1>5. DataType'
    BY <1>1 DEF DecideStore, IInv, TypeOK, DataType, db, Promote, JobType
  <1>6. TypeOK' /\ OnlyOf(r)
    BY <1>2, <1>3, <1>5, QuietStep DEF IInv
  <1>7. Holds(r)'
    BY <1>3, <1>4 DEF IInv, HoldInv, locks, Holds, LockedPc, DoiPc, CommitPc, UnstagedPc, FinalPc
  <1> QED BY <1>6, <1>7, HoldFrame DEF IInv

LEMMA CommitReplaceKeeps ==
    ASSUME IInv, NEW r \in Request, CommitReplace(r)
    PROVE  IInv'
  <1> DEFINE new == [job[r] EXCEPT !.pc = "respond"]
  <1>1. job[r] \in JobType
    BY DEF IInv, TypeOK
  <1>2. new \in JobType
    BY <1>1 DEF JobType, Pc, LockedPc, CommitPc, FinalPc
  <1>3. job' = [job EXCEPT ![r] = new] /\ UNCHANGED locks
    BY DEF CommitReplace, IInv, TypeOK, locks
  <1>4. /\ job[r].pc = "commitReplace"
        /\ job'[r].pc = "respond" /\ job'[r].staged = job[r].staged
        /\ job'[r].sha = job[r].sha /\ job'[r].doi = job[r].doi
    BY BindType, <1>1, <1>3 DEF CommitReplace, IInv, TypeOK, JobType
  <1> HIDE DEF new
  <1>5. DataType'
    BY BindType, <1>1 DEF CommitReplace, IInv, TypeOK, DataType, db, JobType
  <1>6. TypeOK' /\ OnlyOf(r)
    BY <1>2, <1>3, <1>5, QuietStep DEF IInv
  <1>7. Holds(r)'
    BY <1>3, <1>4 DEF IInv, HoldInv, locks, Holds, LockedPc, DoiPc, CommitPc, UnstagedPc, FinalPc
  <1> QED BY <1>6, <1>7, HoldFrame DEF IInv

LEMMA CommitAliasKeeps ==
    ASSUME IInv, NEW r \in Request, CommitAlias(r)
    PROVE  IInv'
  <1> DEFINE new == [job[r] EXCEPT !.pc = "respond", !.staged = FALSE]
  <1>1. job[r] \in JobType
    BY DEF IInv, TypeOK
  <1>2. new \in JobType
    BY <1>1 DEF JobType, Pc, LockedPc, CommitPc, FinalPc
  <1>3. job' = [job EXCEPT ![r] = new] /\ UNCHANGED locks
    BY DEF CommitAlias, IInv, TypeOK, locks
  <1>4. /\ job[r].pc = "commitAlias"
        /\ job'[r].pc = "respond" /\ ~job'[r].staged
        /\ job'[r].sha = job[r].sha /\ job'[r].doi = job[r].doi
    BY BindType, <1>1, <1>3 DEF CommitAlias, IInv, TypeOK, JobType
  <1> HIDE DEF new
  <1>5. DataType'
    BY BindType, <1>1 DEF CommitAlias, IInv, TypeOK, DataType, db, JobType
  <1>6. TypeOK' /\ OnlyOf(r)
    BY <1>2, <1>3, <1>5, QuietStep DEF IInv
  <1>7. Holds(r)'
    BY <1>3, <1>4 DEF IInv, HoldInv, locks, Holds, LockedPc, DoiPc, CommitPc, UnstagedPc, FinalPc
  <1> QED BY <1>6, <1>7, HoldFrame DEF IInv

LEMMA CommitStoreKeeps ==
    ASSUME IInv, NEW r \in Request, CommitStore(r)
    PROVE  IInv'
  <1>a. PICK p \in PdfId :
          /\ IF job[r].row = None
             THEN /\ doiOf' = [doiOf EXCEPT ![p] = job[r].doi]
                  /\ shaOf' = [shaOf EXCEPT ![p] = job[r].sha]
             ELSE UNCHANGED <<doiOf, shaOf>>
          /\ deleted' = deleted \ {p}
          /\ Bind(job[r], p)
          /\ job' = [job EXCEPT ![r].pc = "respond", ![r].row = p]
    BY DEF CommitStore
  <1> DEFINE new == [job[r] EXCEPT !.pc = "respond", !.row = p]
  <1>1. job[r] \in JobType
    BY DEF IInv, TypeOK
  <1>2. new \in JobType
    BY <1>1 DEF JobType, Pc, LockedPc, CommitPc, FinalPc
  <1>3. job' = [job EXCEPT ![r] = new] /\ UNCHANGED locks
    BY <1>a DEF CommitStore, IInv, TypeOK, locks
  <1>4. /\ job[r].pc = "commitStore"
        /\ job'[r].pc = "respond" /\ job'[r].staged = job[r].staged
        /\ job'[r].sha = job[r].sha /\ job'[r].doi = job[r].doi
    BY <1>a, BindType, <1>1, <1>3 DEF CommitStore, IInv, TypeOK, JobType
  <1> HIDE DEF new
  <1>5. DataType'
    BY <1>a, BindType, <1>1 DEF CommitStore, IInv, TypeOK, DataType, db, JobType
  <1>6. TypeOK' /\ OnlyOf(r)
    BY <1>2, <1>3, <1>5, QuietStep DEF IInv
  <1>7. Holds(r)'
    BY <1>3, <1>4 DEF IInv, HoldInv, locks, Holds, LockedPc, DoiPc, CommitPc, UnstagedPc, FinalPc
  <1> QED BY <1>6, <1>7, HoldFrame DEF IInv

LEMMA RespondKeeps ==
    ASSUME IInv, NEW r \in Request, Respond(r)
    PROVE  IInv'
  <1> DEFINE new == [job[r] EXCEPT !.pc = "done"]
  <1>1. job[r] \in JobType
    BY DEF IInv, TypeOK
  <1>2. new \in JobType
    BY <1>1 DEF JobType, Pc, LockedPc, CommitPc, FinalPc
  <1>3. job' = [job EXCEPT ![r] = new] /\ FreeLocks(r)
    BY DEF Respond, IInv, TypeOK, locks
  <1>4. /\ job'[r].pc = "done" /\ ~job'[r].staged
        /\ job'[r].sha = job[r].sha /\ job'[r].doi = job[r].doi
    BY <1>1, <1>3 DEF Respond, IInv, TypeOK, JobType, HoldInv, Holds, UnstagedPc
  <1> HIDE DEF new
  <1>5. DataType'
    BY <1>1 DEF Respond, IInv, TypeOK, DataType, db, JobType
  <1>6. TypeOK' /\ OnlyOf(r) /\ \A s \in Slot : objLock'[s] # r /\ doiLock'[s] # r
    BY <1>2, <1>3, <1>5, FreeingStep DEF IInv
  <1>7. Holds(r)'
    BY <1>4, <1>6 DEF Holds, LockedPc, DoiPc, CommitPc, UnstagedPc, FinalPc
  <1> QED BY <1>6, <1>7, HoldFrame DEF IInv

LEMMA FailKeeps ==
    ASSUME IInv, NEW r \in Request, Fail(r)
    PROVE  IInv'
  <1> DEFINE new == [job[r] EXCEPT !.pc = "failed", !.staged = FALSE]
  <1>1. job[r] \in JobType
    BY DEF IInv, TypeOK
  <1>2. new \in JobType
    BY <1>1 DEF JobType, Pc, LockedPc, CommitPc, FinalPc
  <1>3. job' = [job EXCEPT ![r] = new] /\ FreeLocks(r)
    BY DEF Fail, IInv, TypeOK, locks
  <1>4. /\ job'[r].pc = "failed" /\ ~job'[r].staged
        /\ job'[r].sha = job[r].sha /\ job'[r].doi = job[r].doi
    BY <1>1, <1>3 DEF Fail, IInv, TypeOK, JobType
  <1> HIDE DEF new
  <1>5. DataType'
    BY <1>1 DEF Fail, IInv, TypeOK, DataType, db, JobType
  <1>6. TypeOK' /\ OnlyOf(r) /\ \A s \in Slot : objLock'[s] # r /\ doiLock'[s] # r
    BY <1>2, <1>3, <1>5, FreeingStep DEF IInv
  <1>7. Holds(r)'
    BY <1>4, <1>6 DEF Holds, LockedPc, DoiPc, CommitPc, UnstagedPc, FinalPc
  <1> QED BY <1>6, <1>7, HoldFrame DEF IInv

LEMMA LeaveKeeps ==
    ASSUME IInv, NEW r \in Request, Cancel(r) \/ Abort(r)
    PROVE  IInv'
  <1>a. PICK end \in {"cancelled", "aborted"} : Leave(r, end)
    BY DEF Cancel, Abort
  <1> DEFINE new == [job[r] EXCEPT !.pc = end]
  <1>1. job[r] \in JobType
    BY DEF IInv, TypeOK
  <1>2. new \in JobType
    BY <1>1 DEF JobType, Pc, LockedPc, CommitPc, FinalPc
  <1>3. job' = [job EXCEPT ![r] = new] /\ FreeLocks(r)
    BY <1>a DEF Leave, IInv, TypeOK, locks
  <1>4. /\ job'[r].pc \in {"cancelled", "aborted"}
        /\ job'[r].sha = job[r].sha /\ job'[r].doi = job[r].doi
    BY <1>1, <1>3 DEF IInv, TypeOK, JobType
  <1> HIDE DEF new
  <1>5. DataType'
    BY <1>1, <1>a DEF Leave, IInv, TypeOK, DataType, db, JobType
  <1>6. TypeOK' /\ OnlyOf(r) /\ \A s \in Slot : objLock'[s] # r /\ doiLock'[s] # r
    BY <1>2, <1>3, <1>5, FreeingStep DEF IInv
  <1>7. Holds(r)'
    BY <1>4, <1>6 DEF Holds, LockedPc, DoiPc, CommitPc, UnstagedPc, FinalPc
  <1> QED BY <1>6, <1>7, HoldFrame DEF IInv

(* Steps that change no request and no lock.                               *)
LEMMA OtherStep ==
    ASSUME IInv, DataType', UNCHANGED <<locks, job>>
    PROVE  IInv'
  BY DEF IInv, TypeOK, DataType, HoldInv, Holds, locks

LEMMA SoftDeleteKeeps ==
    ASSUME IInv, NEW p \in PdfId, SoftDelete(p)
    PROVE  IInv'
  <1>1. DataType' /\ UNCHANGED <<locks, job>>
    BY DEF SoftDelete, IInv, TypeOK, DataType
  <1> QED BY <1>1, OtherStep

LEMMA CorrectDoiKeeps ==
    ASSUME IInv, NEW p \in PdfId, NEW d \in Doi, CorrectDoi(p, d)
    PROVE  IInv'
  <1>1. DataType' /\ UNCHANGED <<locks, job>>
    BY DEF CorrectDoi, IInv, TypeOK, DataType
  <1> QED BY <1>1, OtherStep
-----------------------------------------------------------------------------
LEMMA NextKeeps == IInv /\ [Next]_vars => IInv'
  <1> SUFFICES ASSUME IInv, [Next]_vars PROVE IInv'
    OBVIOUS
  <1>1. CASE \E r \in Request : Progress(r)
    <2> PICK r \in Request : Progress(r) BY <1>1
    <2>1. CASE StorePdf(r) BY <2>1, StorePdfKeeps
    <2>2. CASE RejectIntake(r) BY <2>2, RejectIntakeKeeps
    <2>3. CASE AcquireObject(r) BY <2>3, AcquireObjectKeeps
    <2>4. CASE LookupKnown(r) BY <2>4, LookupKnownKeeps
    <2>5. CASE LookupUnknown(r) BY <2>5, LookupUnknownKeeps
    <2>6. CASE PromoteKnown(r) BY <2>6, PromoteKnownKeeps
    <2>7. CASE CommitKnown(r) BY <2>7, CommitKnownKeeps
    <2>8. CASE Resolve(r) BY <2>8, ResolveKeeps
    <2>9. CASE Stamp(r) BY <2>9, StampKeeps
    <2>10. CASE AcquireDoi(r) BY <2>10, AcquireDoiKeeps
    <2>11. CASE DecideReplace(r) BY <2>11, DecideReplaceKeeps
    <2>12. CASE DecideAlias(r) BY <2>12, DecideAliasKeeps
    <2>13. CASE DecideStore(r) BY <2>13, DecideStoreKeeps
    <2>14. CASE CommitReplace(r) BY <2>14, CommitReplaceKeeps
    <2>15. CASE CommitAlias(r) BY <2>15, CommitAliasKeeps
    <2>16. CASE CommitStore(r) BY <2>16, CommitStoreKeeps
    <2>17. CASE Respond(r) BY <2>17, RespondKeeps
    <2>18. CASE Fail(r) BY <2>18, FailKeeps
    <2> QED BY <2>1, <2>2, <2>3, <2>4, <2>5, <2>6, <2>7, <2>8, <2>9, <2>10, <2>11, <2>12, <2>13, <2>14, <2>15, <2>16, <2>17, <2>18 DEF Progress
  <1>2. CASE \E r \in Request : Cancel(r) \/ Abort(r)
    BY <1>2, LeaveKeeps
  <1>3. CASE \/ \E p \in PdfId : SoftDelete(p)
             \/ \E p \in PdfId, d \in Doi : CorrectDoi(p, d)
    <2>1. CASE \E p \in PdfId : SoftDelete(p)
      BY <2>1, SoftDeleteKeeps
    <2>2. CASE \E p \in PdfId, d \in Doi : CorrectDoi(p, d)
      BY <2>2, CorrectDoiKeeps
    <2> QED BY <1>3, <2>1, <2>2
  <1>4. CASE UNCHANGED vars
    <2>1. DataType' /\ UNCHANGED <<locks, job>>
      BY <1>4 DEF vars, locks, IInv, TypeOK, DataType
    <2> QED BY <2>1, OtherStep
  <1> QED BY <1>1, <1>2, <1>3, <1>4 DEF Next, Idle

LEMMA Inductive == Spec => []IInv
  <1> QED BY InitHolds, NextKeeps, PTL DEF Spec

(* The variables keep their types in every reachable state: no handler     *)
(* writes a missing row, hash or DOI into the tables or its own state.     *)
THEOREM TypeCorrect == Spec => []TypeOK
  <1>1. IInv => TypeOK
    BY DEF IInv
  <1> QED BY <1>1, Inductive, PTL

(* acquire_object_lock and release_object_lock are used correctly: each    *)
(* phase of process_upload holds exactly the lock files, and the staging   *)
(* file, that it should.                                                   *)
THEOREM HoldCorrect == Spec => []HoldInv
  <1>1. IInv => HoldInv
    BY DEF IInv
  <1> QED BY <1>1, Inductive, PTL

(* Mutual exclusion: two requests are never between the lock and the       *)
(* release of the same final bytes, nor deciding about the same DOI.       *)
THEOREM MutualExclusion == Spec => []OneWriterPerKey
  <1>1. IInv => OneWriterPerKey
    <2> SUFFICES ASSUME IInv, NEW q \in Request, NEW r \in Request, q # r
                 PROVE  /\ job[q].pc \in LockedPc /\ job[r].pc \in LockedPc =>
                              job[q].sha # job[r].sha
                        /\ job[q].pc \in DoiPc /\ job[r].pc \in DoiPc =>
                              job[q].doi # job[r].doi
      BY DEF OneWriterPerKey
    <2> QED BY DEF IInv, HoldInv, Holds
  <1> QED BY <1>1, Inductive, PTL

(* However process_upload ends, by an answer, a refusal, an error or a     *)
(* cancellation, it holds no lock any more; and unless it was cancelled or *)
(* failed before the try, its private staging file is gone.                *)
THEOREM CleanUp == Spec => []NothingLeftBehind
  <1>1. IInv => NothingLeftBehind
    <2> SUFFICES ASSUME IInv, NEW r \in Request, job[r].pc \in FinalPc
                 PROVE  /\ job[r].pc \in {"done", "failed"} => ~job[r].staged
                        /\ \A s \in Slot : objLock[s] # r /\ doiLock[s] # r
      BY DEF NothingLeftBehind
    <2>1. Holds(r)
      BY DEF IInv, HoldInv
    <2> QED BY <2>1 DEF Holds, FinalPc, LockedPc, DoiPc, CommitPc, UnstagedPc
  <1> QED BY <1>1, Inductive, PTL
-----------------------------------------------------------------------------
(* The abstract registry by itself.                                        *)
LEMMA RegistryCreates ==
    ASSUME Registry!NoneOutside, Registry!RegistryInv,
           NEW p \in PdfId, NEW d \in Doi, NEW h \in Hash, NEW S \in SUBSET Hash, Registry!Create(p, d, h, S)
    PROVE  Registry!RegistryInv'
  <1>1. Registry!RegistryType'
    BY DEF Registry!RegistryInv, Registry!RegistryType, Registry!Create
  <1>2. \A q \in PdfId : /\ q # p => doiOf'[q] = doiOf[q] /\ shaOf'[q] = shaOf[q]
                         /\ q = p => doiOf'[q] = d /\ shaOf'[q] = h
    BY DEF Registry!RegistryInv, Registry!RegistryType, Registry!Create
  <1>3. Registry!Consistent'
    BY <1>1, <1>2
       DEF Registry!NoneOutside, Registry!RegistryInv, Registry!RegistryType,
           Registry!Consistent, Registry!Create, Registry!FreeFor, Registry!UnusedDoi,
           Registry!Article
  <1> QED BY <1>1, <1>3 DEF Registry!RegistryInv

LEMMA RegistryJoins ==
    ASSUME Registry!RegistryInv, NEW p \in PdfId, NEW S \in Registry!Sent, Registry!Join(p, S)
    PROVE  Registry!RegistryInv'
  BY DEF Registry!RegistryInv, Registry!RegistryType, Registry!Consistent, Registry!Join,
         Registry!FreeFor, Registry!Article

LEMMA RegistryReplaces ==
    ASSUME Registry!NoneOutside, Registry!RegistryInv, NEW p \in PdfId, NEW h \in Hash, NEW S \in SUBSET Hash, Registry!Replace(p, h, S)
    PROVE  Registry!RegistryInv'
  <1>1. Registry!RegistryType'
    BY DEF Registry!RegistryInv, Registry!RegistryType, Registry!Replace
  <1>2. \A q \in PdfId : /\ q # p => shaOf'[q] = shaOf[q]
                         /\ q = p => shaOf'[q] = h
    BY DEF Registry!RegistryInv, Registry!RegistryType, Registry!Replace
  <1>3. Registry!Consistent'
    BY <1>1, <1>2
       DEF Registry!NoneOutside, Registry!RegistryInv, Registry!RegistryType,
           Registry!Consistent, Registry!Replace, Registry!FreeFor, Registry!Article
  <1> QED BY <1>1, <1>3 DEF Registry!RegistryInv

LEMMA RegistryHides ==
    ASSUME Registry!RegistryInv, NEW p \in PdfId, Registry!Hide(p)
    PROVE  Registry!RegistryInv'
  BY DEF Registry!RegistryInv, Registry!RegistryType, Registry!Consistent, Registry!Hide,
         Registry!Article

LEMMA RegistryCorrects ==
    ASSUME Registry!NoneOutside, Registry!RegistryInv, NEW p \in PdfId, NEW d \in Doi, Registry!Correct(p, d)
    PROVE  Registry!RegistryInv'
  BY DEF Registry!NoneOutside, Registry!RegistryInv, Registry!RegistryType,
         Registry!Consistent, Registry!Correct, Registry!UnusedDoi, Registry!Article

LEMMA RegistryStep ==
    ASSUME Registry!NoneOutside PROVE Registry!RegistryInv /\ [Registry!Next]_(Registry!registry) => Registry!RegistryInv'
  <1>1. ASSUME Registry!RegistryInv, UNCHANGED Registry!registry PROVE Registry!RegistryInv'
    BY <1>1
       DEF Registry!RegistryInv, Registry!RegistryType, Registry!Consistent,
           Registry!Article, Registry!registry
  <1>2. ASSUME Registry!RegistryInv, NEW p \in PdfId, NEW d \in Doi, NEW h \in Hash, NEW x \in Hash,
               Registry!Create(p, d, h, {x} \ {h})
        PROVE  Registry!RegistryInv'
    BY <1>2, RegistryCreates
  <1>3. ASSUME Registry!RegistryInv, NEW p \in PdfId, NEW h \in Hash, NEW x \in Hash,
               Registry!Replace(p, h, {x} \ {h})
        PROVE  Registry!RegistryInv'
    BY <1>3, RegistryReplaces
  <1> QED BY <1>1, <1>2, <1>3, RegistryJoins, RegistryHides, RegistryCorrects DEF Registry!Next

(* The registry is consistent in every reachable state, whatever the rows, *)
(* hashes and DOIs are.                                                    *)
THEOREM RegistryConsistent ==
    ASSUME Registry!NoneOutside, Registry!SeedUnique PROVE Registry!Spec => []Registry!Consistent
  <1>1. Registry!Init => Registry!RegistryInv
    BY DEF Registry!SeedUnique, Registry!NoneOutside, Registry!Init, Registry!RegistryInv,
           Registry!RegistryType, Registry!Consistent, Registry!Article
  <1>2. Registry!RegistryInv => Registry!Consistent
    BY DEF Registry!RegistryInv
  <1> QED BY <1>1, <1>2, RegistryStep, PTL DEF Registry!Spec

LEMMA RegistryCompacts ==
    ASSUME Registry!NoneOutside, Registry!RegistryInv, NEW p \in PdfId, NEW h \in Hash, Registry!Compact(p, h)
    PROVE  Registry!RegistryInv'
  <1>1. Registry!RegistryType'
    BY DEF Registry!RegistryInv, Registry!RegistryType, Registry!Compact
  <1>2. /\ \A q \in PdfId : shaOf'[q] = IF q = p THEN h ELSE shaOf[q]
        /\ \A x \in Hash : alias'[x] = IF x = h THEN None ELSE alias[x]
    BY DEF Registry!RegistryInv, Registry!RegistryType, Registry!Compact
  <1>3. Registry!Consistent'
    BY <1>1, <1>2
       DEF Registry!NoneOutside, Registry!RegistryInv, Registry!RegistryType,
           Registry!Consistent, Registry!Compact, Registry!FreeFor, Registry!Article
  <1> QED BY <1>1, <1>3 DEF Registry!RegistryInv

(* Compaction is an operation the registry can offer: the bytes it stores  *)
(* for an article stay nobody else's, whoever sent them before.            *)
THEOREM RegistryConsistentWhenCompacted ==
    ASSUME Registry!NoneOutside, Registry!SeedUnique
    PROVE  Registry!CompactingSpec => []Registry!Consistent
  <1>1. Registry!Init => Registry!RegistryInv
    BY DEF Registry!SeedUnique, Registry!NoneOutside, Registry!Init, Registry!RegistryInv,
           Registry!RegistryType, Registry!Consistent, Registry!Article
  <1>2. Registry!RegistryInv => Registry!Consistent
    BY DEF Registry!RegistryInv
  <1>3. Registry!RegistryInv /\ [Registry!CompactingNext]_(Registry!registry)
           => Registry!RegistryInv'
    BY RegistryStep, RegistryCompacts DEF Registry!CompactingNext
  <1> QED BY <1>1, <1>2, <1>3, PTL DEF Registry!CompactingSpec
-----------------------------------------------------------------------------
(* As long as no upload is restamped, module Upload implements module      *)
(* ArticleRegistry: every COMMIT of process_upload is one atomic step of   *)
(* the registry, whatever the other requests and administrators do.        *)
HolderFacts(column, v) ==
    LET p == Holder(column, v) IN
    IF p = None THEN \A q \in PdfId : column[q] # v ELSE p \in PdfId /\ column[p] = v

LEMMA HolderIs ==
    ASSUME NEW column, NEW v
    PROVE  HolderFacts(column, v)
  <1>1. CASE \E p \in PdfId : column[p] = v
    BY <1>1, NoneAssumption DEF Holder, HolderFacts
  <1>2. CASE ~ \E p \in PdfId : column[p] = v
    BY <1>2, NoneAssumption DEF Holder, HolderFacts
  <1> QED BY <1>1, <1>2

(* The critical sections of MutualExclusion.                               *)
LEMMA Exclusive ==
    ASSUME IInv, NEW q \in Request, NEW r \in Request, q # r
    PROVE  /\ job[q].pc \in LockedPc /\ job[r].pc \in LockedPc => job[q].sha # job[r].sha
           /\ job[q].pc \in DoiPc /\ job[r].pc \in DoiPc => job[q].doi # job[r].doi
  BY DEF IInv, HoldInv, Holds

(* A step of the registry keeps the tables consistent.                     *)
LEMMA RegistryKeeps ==
    ASSUME TypeOK, Registry!Consistent, [Registry!Next]_(Registry!registry)
    PROVE  Registry!Consistent'
  <1>1. Registry!RegistryInv
    BY DEF TypeOK, Registry!RegistryInv, Registry!RegistryType
  <1>2. Registry!NoneOutside
    BY NoneAssumption DEF Registry!NoneOutside
  <1>3. Registry!RegistryInv'
    BY <1>1, <1>2, RegistryStep
  <1> QED BY <1>3 DEF Registry!RegistryInv

(* Steps that do not touch the columns a decision relies on.               *)
LEMMA BindFrame ==
    ASSUME BindInv, NEW q \in Request, job'[q] = job[q], UNCHANGED <<doiOf, shaOf, alias>>
    PROVE  Binds(q)'
  <1>1. Binds(q)
    BY DEF BindInv
  <1> QED BY <1>1 DEF Binds, DecisionStands, Unbound, Rows

Refined == [Registry!Next]_(Registry!registry)

LEMMA QuietBinds ==
    ASSUME IInv, BindInv, NEW r \in Request, \A q \in Request \ {r} : job'[q] = job[q],
           UNCHANGED db, Binds(r)'
    PROVE  BindInv' /\ Refined
  <1>1. UNCHANGED <<doiOf, shaOf, deleted, alias>>
    BY DEF db
  <1>2. \A q \in Request : Binds(q)'
    BY <1>1, BindFrame
  <1>3. Registry!Consistent'
    BY <1>1 DEF BindInv, Registry!Consistent, Registry!Article
  <1>4. UNCHANGED Registry!registry
    BY <1>1 DEF Registry!registry
  <1> QED BY <1>2, <1>3, <1>4 DEF BindInv, Refined

LEMMA StorePdfBinds ==
    ASSUME Unstamped, IInv, BindInv, NEW r \in Request, StorePdf(r)
    PROVE  BindInv' /\ Refined
  <1>1. /\ \A q \in Request \ {r} : job'[q] = job[q]
        /\ UNCHANGED db
    BY DEF StorePdf, IInv, TypeOK
  <1>2. /\ job[r].pc = "store" /\ job'[r].pc = "lock"
        /\ job'[r].sha = job[r].sha
        /\ job'[r].input = job[r].input
        /\ job'[r].replaced = job[r].replaced
    BY DEF StorePdf, IInv, TypeOK, JobType
  <1>3. Binds(r)'
    BY <1>1, <1>2 DEF BindInv, Binds, DecisionStands, Unbound, Rows, LockedPc, DoiPc, CommitPc, FinalPc, db
  <1> QED BY <1>1, <1>3, QuietBinds

LEMMA RejectIntakeBinds ==
    ASSUME Unstamped, IInv, BindInv, NEW r \in Request, RejectIntake(r)
    PROVE  BindInv' /\ Refined
  <1>1. /\ \A q \in Request \ {r} : job'[q] = job[q]
        /\ UNCHANGED db
    BY DEF RejectIntake, IInv, TypeOK
  <1>2. /\ job[r].pc = "store" /\ job'[r].pc = "failed"
        /\ job'[r].sha = job[r].sha
        /\ job'[r].input = job[r].input
        /\ job'[r].replaced = job[r].replaced
    BY DEF RejectIntake, IInv, TypeOK, JobType
  <1>3. Binds(r)'
    BY <1>1, <1>2 DEF BindInv, Binds, DecisionStands, Unbound, Rows, LockedPc, DoiPc, CommitPc, FinalPc, db
  <1> QED BY <1>1, <1>3, QuietBinds

LEMMA AcquireObjectBinds ==
    ASSUME Unstamped, IInv, BindInv, NEW r \in Request, AcquireObject(r)
    PROVE  BindInv' /\ Refined
  <1>1. /\ \A q \in Request \ {r} : job'[q] = job[q]
        /\ UNCHANGED db
    BY DEF AcquireObject, IInv, TypeOK
  <1>2. /\ \/ job[r].pc = "lock" /\ job'[r].pc = "lookup"
           \/ job[r].pc = "relock" /\ job'[r].pc = "lockDoi"
        /\ job'[r].sha = job[r].sha
        /\ job'[r].input = job[r].input
        /\ job'[r].replaced = job[r].replaced
    BY DEF AcquireObject, IInv, TypeOK, JobType
  <1>3. Binds(r)'
    BY <1>1, <1>2 DEF BindInv, Binds, DecisionStands, Unbound, Rows, LockedPc, DoiPc, CommitPc, FinalPc, db
  <1> QED BY <1>1, <1>3, QuietBinds

LEMMA LookupKnownBinds ==
    ASSUME Unstamped, IInv, BindInv, NEW r \in Request, LookupKnown(r)
    PROVE  BindInv' /\ Refined
  <1>a. KnownRow(job[r]) \in Rows
    <2>1. HolderFacts(shaOf, job[r].sha)
      BY HolderIs
    <2>2. job[r].sha \in Hash
      BY DEF IInv, TypeOK, JobType
    <2> QED BY <2>1, <2>2, NoneAssumption
            DEF HolderFacts, LookupKnown, IsKnown, KnownRow, Rows, BindInv,
                Registry!Consistent, Registry!Article
  <1>1. /\ \A q \in Request \ {r} : job'[q] = job[q]
        /\ UNCHANGED db
    BY DEF LookupKnown, IInv, TypeOK
  <1>2. /\ job[r].pc = "lookup" /\ job'[r].pc = "promoteKnown"
        /\ job'[r].sha = job[r].sha
        /\ job'[r].input = job[r].input
        /\ job'[r].replaced = job[r].replaced
        /\ job'[r].row = KnownRow(job[r])
    BY DEF LookupKnown, IInv, TypeOK, JobType
  <1>3. Binds(r)'
    BY <1>a, <1>1, <1>2 DEF BindInv, Binds, DecisionStands, Unbound, Rows, LockedPc, DoiPc, CommitPc, FinalPc, db
  <1> QED BY <1>1, <1>3, QuietBinds

LEMMA LookupUnknownBinds ==
    ASSUME Unstamped, IInv, BindInv, NEW r \in Request, LookupUnknown(r)
    PROVE  BindInv' /\ Refined
  <1>a. ~job[r].input.force => Unbound(job[r].sha)
    <2>1. HolderFacts(shaOf, job[r].sha)
      BY HolderIs
    <2> QED BY <2>1 DEF HolderFacts, LookupUnknown, IsKnown, KnownRow, Unbound
  <1>1. /\ \A q \in Request \ {r} : job'[q] = job[q]
        /\ UNCHANGED db
    BY DEF LookupUnknown, IInv, TypeOK
  <1>2. /\ job[r].pc = "lookup" /\ job'[r].pc = "resolve"
        /\ job'[r].sha = job[r].sha
        /\ job'[r].input = job[r].input
        /\ job'[r].replaced = job[r].replaced
    BY DEF LookupUnknown, IInv, TypeOK, JobType
  <1>3. Binds(r)'
    BY <1>a, <1>1, <1>2 DEF BindInv, Binds, DecisionStands, Unbound, Rows, LockedPc, DoiPc, CommitPc, FinalPc, db
  <1> QED BY <1>1, <1>3, QuietBinds

LEMMA PromoteKnownBinds ==
    ASSUME Unstamped, IInv, BindInv, NEW r \in Request, PromoteKnown(r)
    PROVE  BindInv' /\ Refined
  <1>1. /\ \A q \in Request \ {r} : job'[q] = job[q]
        /\ UNCHANGED db
    BY DEF PromoteKnown, IInv, TypeOK
  <1>2. /\ job[r].pc = "promoteKnown" /\ job'[r].pc = "commitKnown"
        /\ job'[r].sha = job[r].sha
        /\ job'[r].input = job[r].input
        /\ job'[r].replaced = job[r].replaced
        /\ job'[r].row = job[r].row
    BY DEF PromoteKnown, IInv, TypeOK, JobType
  <1>3. Binds(r)'
    BY <1>1, <1>2 DEF BindInv, Binds, DecisionStands, Unbound, Rows, LockedPc, DoiPc, CommitPc, FinalPc, db
  <1> QED BY <1>1, <1>3, QuietBinds

LEMMA ResolveBinds ==
    ASSUME Unstamped, IInv, BindInv, NEW r \in Request, Resolve(r)
    PROVE  BindInv' /\ Refined
  <1>1. /\ \A q \in Request \ {r} : job'[q] = job[q]
        /\ UNCHANGED db
    BY DEF Resolve, IInv, TypeOK
  <1>2. /\ job[r].pc = "resolve" /\ job'[r].pc = "stamp"
        /\ job'[r].sha = job[r].sha
        /\ job'[r].input = job[r].input
        /\ job'[r].replaced = job[r].replaced
    BY DEF Resolve, IInv, TypeOK, JobType
  <1>3. Binds(r)'
    BY <1>1, <1>2 DEF BindInv, Binds, DecisionStands, Unbound, Rows, LockedPc, DoiPc, CommitPc, FinalPc, db
  <1> QED BY <1>1, <1>3, QuietBinds

LEMMA AcquireDoiBinds ==
    ASSUME Unstamped, IInv, BindInv, NEW r \in Request, AcquireDoi(r)
    PROVE  BindInv' /\ Refined
  <1>1. /\ \A q \in Request \ {r} : job'[q] = job[q]
        /\ UNCHANGED db
    BY DEF AcquireDoi, IInv, TypeOK
  <1>2. /\ job[r].pc = "lockDoi" /\ job'[r].pc = "decide"
        /\ job'[r].sha = job[r].sha
        /\ job'[r].input = job[r].input
        /\ job'[r].replaced = job[r].replaced
    BY DEF AcquireDoi, IInv, TypeOK, JobType
  <1>3. Binds(r)'
    BY <1>1, <1>2 DEF BindInv, Binds, DecisionStands, Unbound, Rows, LockedPc, DoiPc, CommitPc, FinalPc, db
  <1> QED BY <1>1, <1>3, QuietBinds

LEMMA RespondBinds ==
    ASSUME Unstamped, IInv, BindInv, NEW r \in Request, Respond(r)
    PROVE  BindInv' /\ Refined
  <1>1. /\ \A q \in Request \ {r} : job'[q] = job[q]
        /\ UNCHANGED db
    BY DEF Respond, IInv, TypeOK
  <1>2. /\ job[r].pc = "respond" /\ job'[r].pc = "done"
        /\ job'[r].sha = job[r].sha
        /\ job'[r].input = job[r].input
        /\ job'[r].replaced = job[r].replaced
    BY DEF Respond, IInv, TypeOK, JobType
  <1>3. Binds(r)'
    BY <1>1, <1>2 DEF BindInv, Binds, DecisionStands, Unbound, Rows, LockedPc, DoiPc, CommitPc, FinalPc, db
  <1> QED BY <1>1, <1>3, QuietBinds

LEMMA FailBinds ==
    ASSUME Unstamped, IInv, BindInv, NEW r \in Request, Fail(r)
    PROVE  BindInv' /\ Refined
  <1>1. /\ \A q \in Request \ {r} : job'[q] = job[q]
        /\ UNCHANGED db
    BY DEF Fail, IInv, TypeOK
  <1>2. /\ job'[r].pc = "failed"
        /\ job'[r].sha = job[r].sha
        /\ job'[r].input = job[r].input
    BY DEF Fail, IInv, TypeOK, JobType
  <1>3. Binds(r)'
    BY <1>1, <1>2 DEF BindInv, Binds, DecisionStands, Unbound, Rows, LockedPc, DoiPc, CommitPc, FinalPc, db
  <1> QED BY <1>1, <1>3, QuietBinds

LEMMA LeaveBinds ==
    ASSUME Unstamped, IInv, BindInv, NEW r \in Request, Cancel(r) \/ Abort(r)
    PROVE  BindInv' /\ Refined
  <1>1. /\ \A q \in Request \ {r} : job'[q] = job[q]
        /\ UNCHANGED db
    BY DEF Cancel, Abort, Leave, IInv, TypeOK
  <1>2. /\ job'[r].pc \in {"cancelled", "aborted"}
        /\ job'[r].sha = job[r].sha
        /\ job'[r].input = job[r].input
    BY DEF Cancel, Abort, Leave, IInv, TypeOK, JobType
  <1>3. Binds(r)'
    BY <1>1, <1>2 DEF BindInv, Binds, DecisionStands, Unbound, Rows, LockedPc, DoiPc, CommitPc, FinalPc, db
  <1> QED BY <1>1, <1>3, QuietBinds

LEMMA StampBinds ==
    ASSUME Unstamped, IInv, BindInv, NEW r \in Request, Stamp(r)
    PROVE  BindInv' /\ Refined
  <1>a. job[r].staged => Stamped[job[r].sha][job[r].doi] = job[r].sha
    <2>1. job[r].input \in Inputs /\ job[r].doi \in Doi /\ job[r].sha = job[r].input.raw
      BY DEF Stamp, IInv, TypeOK, JobType, HoldInv, Holds, BindInv, Binds
    <2> QED BY <2>1 DEF Unstamped
  <1>1. /\ \A q \in Request \ {r} : job'[q] = job[q]
        /\ UNCHANGED db
    BY DEF Stamp, IInv, TypeOK
  <1>2. /\ job[r].pc = "stamp" /\ job'[r].pc = "lockDoi"
        /\ job'[r].sha = job[r].sha
        /\ job'[r].input = job[r].input
        /\ job'[r].replaced = job[r].replaced
    BY <1>a DEF Stamp, IInv, TypeOK, JobType
  <1>3. Binds(r)'
    BY <1>1, <1>2 DEF BindInv, Binds, DecisionStands, Unbound, Rows, LockedPc, DoiPc, CommitPc, FinalPc, db
  <1> QED BY <1>1, <1>3, QuietBinds

(* What the three SELECTs of the decision establish.                       *)
LEMMA DecisionFacts ==
    ASSUME IInv, BindInv, NEW r \in Request, job[r].pc = "decide", ~BelongsElsewhere(job[r])
    PROVE  /\ job[r].doi \in Doi /\ job[r].sha \in Hash
           /\ job[r].sha = job[r].input.raw /\ ~job[r].replaced
           /\ ~job[r].input.force => Unbound(job[r].sha)
           /\ alias[job[r].sha] \in {None, ByDoi(job[r])}
           /\ IF ByDoi(job[r]) = None
              THEN \A q \in PdfId : doiOf[q] # job[r].doi
              ELSE ByDoi(job[r]) \in Rows /\ doiOf[ByDoi(job[r])] = job[r].doi
           /\ job[r].input.force => \A q \in PdfId : shaOf[q] = job[r].sha => q = ByDoi(job[r])
  <1> DEFINE j == job[r]
             p == ByDoi(j)
  <1>1. HolderFacts(doiOf, j.doi) /\ HolderFacts(shaOf, j.sha)
    BY HolderIs
  <1>2. /\ j.doi \in Doi /\ j.sha \in Hash /\ j.sha = j.input.raw /\ ~j.replaced
        /\ ~j.input.force => Unbound(j.sha)
    BY DEF IInv, TypeOK, JobType, HoldInv, Holds, DoiPc, BindInv, Binds, FinalPc
  <1>3. IF p = None THEN \A q \in PdfId : doiOf[q] # j.doi
                    ELSE p \in PdfId /\ p \in Rows /\ doiOf[p] = j.doi
    BY <1>1, <1>2, NoneAssumption DEF HolderFacts, ByDoi, Rows, BindInv, Registry!Consistent
  <1>4. ASSUME j.input.force, NEW q \in PdfId, shaOf[q] = j.sha
        PROVE  q = p
    <2>1. BySha(j) \in PdfId /\ shaOf[BySha(j)] = j.sha /\ doiOf[BySha(j)] = j.doi
      BY <1>1, <1>4 DEF HolderFacts, BySha, BelongsElsewhere
    <2>2. BySha(j) = q
      BY <1>2, <1>4, <2>1, NoneAssumption DEF BindInv, Registry!Consistent, Registry!Article
    <2>3. p # None
      BY <1>3, <2>1
    <2> QED BY <1>2, <1>3, <2>1, <2>2, <2>3, NoneAssumption
            DEF BindInv, Registry!Consistent, Registry!Article, Rows
  <1>5. alias[j.sha] \in {None, p}
    BY DEF BelongsElsewhere
  <1> QED BY <1>2, <1>3, <1>4, <1>5

LEMMA DecideReplaceBinds ==
    ASSUME Unstamped, IInv, BindInv, NEW r \in Request, DecideReplace(r)
    PROVE  BindInv' /\ Refined
  <1>1. /\ \A q \in Request \ {r} : job'[q] = job[q]
        /\ UNCHANGED db
    BY DEF DecideReplace, IInv, TypeOK
  <1>2. /\ job'[r].pc = "commitReplace"
        /\ job'[r].sha = job[r].sha /\ job'[r].doi = job[r].doi
        /\ job'[r].input = job[r].input
        /\ job'[r].row = ByDoi(job[r])
        /\ job'[r].replaced
        /\ job'[r].claims = {job[r].input.raw} \ {job[r].sha}
    BY DEF DecideReplace, IInv, TypeOK, JobType
  <1>d. /\ job[r].doi \in Doi /\ job[r].sha \in Hash
        /\ job[r].sha = job[r].input.raw /\ ~job[r].replaced
        /\ ~job[r].input.force => Unbound(job[r].sha)
        /\ alias[job[r].sha] \in {None, ByDoi(job[r])}
        /\ IF ByDoi(job[r]) = None
           THEN \A q \in PdfId : doiOf[q] # job[r].doi
           ELSE ByDoi(job[r]) \in Rows /\ doiOf[ByDoi(job[r])] = job[r].doi
        /\ job[r].input.force => \A q \in PdfId : shaOf[q] = job[r].sha => q = ByDoi(job[r])
    BY DecisionFacts DEF DecideReplace
  <1>3. job[r].input.force /\ ByDoi(job[r]) # None
    BY DEF DecideReplace, Replaces
  <1>4. DecisionStands(job[r])'
    <2>1. job'[r].claims = {} /\ UNCHANGED <<doiOf, shaOf, alias, Rows>>
      BY <1>1, <1>2, <1>d DEF db, Rows
    <2> QED BY <2>1, <1>2, <1>3, <1>d, NoneAssumption DEF DecisionStands, Rows
  <1>5. Binds(r)'
    BY <1>1, <1>2, <1>4, <1>d DEF Binds, CommitPc
  <1> QED BY <1>1, <1>5, QuietBinds

LEMMA DecideAliasBinds ==
    ASSUME Unstamped, IInv, BindInv, NEW r \in Request, DecideAlias(r)
    PROVE  BindInv' /\ Refined
  <1>1. /\ \A q \in Request \ {r} : job'[q] = job[q]
        /\ UNCHANGED db
    BY DEF DecideAlias, IInv, TypeOK
  <1>2. /\ job'[r].pc = "commitAlias"
        /\ job'[r].sha = job[r].sha /\ job'[r].doi = job[r].doi
        /\ job'[r].input = job[r].input
        /\ job'[r].row = ByDoi(job[r])
        /\ job'[r].replaced = job[r].replaced
        /\ job'[r].claims = FreeAliases({job[r].sha, job[r].input.raw})
    BY DEF DecideAlias, IInv, TypeOK, JobType
  <1>d. /\ job[r].doi \in Doi /\ job[r].sha \in Hash
        /\ job[r].sha = job[r].input.raw /\ ~job[r].replaced
        /\ ~job[r].input.force => Unbound(job[r].sha)
        /\ alias[job[r].sha] \in {None, ByDoi(job[r])}
        /\ IF ByDoi(job[r]) = None
           THEN \A q \in PdfId : doiOf[q] # job[r].doi
           ELSE ByDoi(job[r]) \in Rows /\ doiOf[ByDoi(job[r])] = job[r].doi
        /\ job[r].input.force => \A q \in PdfId : shaOf[q] = job[r].sha => q = ByDoi(job[r])
    BY DecisionFacts DEF DecideAlias
  <1>3. ~job[r].input.force /\ ByDoi(job[r]) # None
    BY DEF DecideAlias, Joins, OtherBytes
  <1>4. DecisionStands(job[r])'
    <2>1. job'[r].claims = {job[r].sha} /\ UNCHANGED <<doiOf, shaOf, alias, Rows>>
      BY <1>1, <1>2, <1>3, <1>d DEF db, Rows, FreeAliases, Unbound
    <2> QED BY <2>1, <1>2, <1>3, <1>d, NoneAssumption DEF DecisionStands, Unbound, Rows
  <1>5. Binds(r)'
    BY <1>1, <1>2, <1>4, <1>d DEF Binds, CommitPc
  <1> QED BY <1>1, <1>5, QuietBinds

LEMMA DecideStoreBinds ==
    ASSUME Unstamped, IInv, BindInv, NEW r \in Request, DecideStore(r)
    PROVE  BindInv' /\ Refined
  <1>1. /\ \A q \in Request \ {r} : job'[q] = job[q]
        /\ UNCHANGED db
    BY DEF DecideStore, IInv, TypeOK
  <1>2. /\ job'[r].pc = "commitStore"
        /\ job'[r].sha = job[r].sha /\ job'[r].doi = job[r].doi
        /\ job'[r].input = job[r].input
        /\ job'[r].row = StoreRow(job[r])
        /\ job'[r].replaced = job[r].replaced
        /\ job'[r].claims = FreeAliases({job[r].input.raw} \ {job[r].sha})
    BY DEF DecideStore, IInv, TypeOK, JobType
  <1>d. /\ job[r].doi \in Doi /\ job[r].sha \in Hash
        /\ job[r].sha = job[r].input.raw /\ ~job[r].replaced
        /\ ~job[r].input.force => Unbound(job[r].sha)
        /\ alias[job[r].sha] \in {None, ByDoi(job[r])}
        /\ IF ByDoi(job[r]) = None
           THEN \A q \in PdfId : doiOf[q] # job[r].doi
           ELSE ByDoi(job[r]) \in Rows /\ doiOf[ByDoi(job[r])] = job[r].doi
        /\ job[r].input.force => \A q \in PdfId : shaOf[q] = job[r].sha => q = ByDoi(job[r])
    BY DecisionFacts DEF DecideStore
  <1>3. /\ StoreRow(job[r]) = None
        /\ ByDoi(job[r]) = None
        /\ \A p \in PdfId : shaOf[p] # job[r].sha
    <2>1. HolderFacts(shaOf, job[r].sha)
      BY HolderIs
    <2>2. \A p \in PdfId : shaOf[p] # job[r].sha
      BY <1>d, NoneAssumption DEF DecideStore, Stores, Replaces, Unbound
    <2>3. ByDoi(job[r]) = None
      BY <2>2, <1>d DEF DecideStore, Stores, Replaces, OtherBytes, Rows
    <2> QED BY <2>1, <2>2, <2>3 DEF StoreRow, BySha, HolderFacts
  <1>4. DecisionStands(job[r])'
    <2>1. job'[r].claims = {} /\ UNCHANGED <<doiOf, shaOf, alias, Rows>>
      BY <1>1, <1>2, <1>d DEF db, Rows, FreeAliases
    <2> QED BY <2>1, <1>2, <1>3, <1>d DEF DecisionStands
  <1>5. Binds(r)'
    BY <1>1, <1>2, <1>4, <1>d DEF Binds, CommitPc
  <1> QED BY <1>1, <1>5, QuietBinds

-----------------------------------------------------------------------------
(* The steps that write the tables.                                        *)
LEMMA CommitKnownBinds ==
    ASSUME Unstamped, IInv, BindInv, NEW r \in Request, CommitKnown(r)
    PROVE  BindInv' /\ Refined
  <1>1. /\ \A q \in Request \ {r} : job'[q] = job[q]
        /\ UNCHANGED <<doiOf, shaOf, alias>>
    BY DEF CommitKnown, IInv, TypeOK
  <1>2. /\ job[r].pc = "commitKnown" /\ job'[r].pc = "respond"
        /\ job'[r].sha = job[r].sha
        /\ job'[r].input = job[r].input
        /\ job'[r].replaced = job[r].replaced
    BY DEF CommitKnown, IInv, TypeOK, JobType
  <1>3. Binds(r)'
    BY <1>1, <1>2 DEF BindInv, Binds, CommitPc, FinalPc
  <1>4. \A q \in Request : Binds(q)'
    BY <1>1, <1>3, BindFrame
  <1>5. BindInv'
    BY <1>1, <1>4 DEF BindInv, Registry!Consistent, Registry!Article
  <1>6. Refined
    <2>1. job[r].row \in PdfId /\ job[r].row \in Registry!Article
      BY <1>2 DEF BindInv, Binds, Rows, Registry!Article
    <2>2. CASE job[r].restore
      <3>1. {} \in Registry!Sent
        BY DEF Registry!Sent, IInv, TypeOK, JobType
      <3>2. Registry!Join(job[r].row, {})
        BY <1>1, <2>1, <2>2 DEF Registry!Join, CommitKnown, IInv, TypeOK
      <3> QED BY <2>1, <3>1, <3>2 DEF Refined, Registry!Next
    <2>3. CASE ~job[r].restore
      BY <1>1, <2>3 DEF CommitKnown, Refined, Registry!registry
    <2> QED BY <2>2, <2>3
  <1> QED BY <1>5, <1>6

(* What a COMMIT of r leaves standing for the other requests: it touches   *)
(* the entries of its own bytes, its own row and its own DOI only.         *)
LEMMA CommitFrame ==
    ASSUME IInv, BindInv, NEW r \in Request, job[r].pc \in CommitPc,
           \A q \in Request \ {r} : job'[q] = job[q],
           NEW p \in PdfId,
           \A x \in PdfId \ {p} : doiOf'[x] = doiOf[x] /\ shaOf'[x] = shaOf[x],
           doiOf'[p] \in {doiOf[p], job[r].doi},
           shaOf'[p] \in {shaOf[p], job[r].sha},
           p \in Rows => doiOf'[p] = doiOf[p],
           \A h \in Hash \ {job[r].sha} : alias'[h] \in {None, alias[h]},
           NEW q \in Request, q # r
    PROVE  Binds(q)'
  <1>1. Binds(q) /\ job'[q] = job[q] /\ job[q].sha \in Hash /\ job[r].sha \in Hash
    BY DEF BindInv, IInv, TypeOK, JobType
  <1>2. job[q].pc \in LockedPc => job[q].sha # job[r].sha
    BY Exclusive DEF LockedPc
  <1>3. job[q].pc \in DoiPc => job[q].doi # job[r].doi
    BY Exclusive DEF DoiPc
  <1>4. job[q].pc \in LockedPc => /\ alias'[job[q].sha] \in {None, alias[job[q].sha]}
                                 /\ \A x \in PdfId : shaOf'[x] = job[q].sha => shaOf[x] = job[q].sha
    BY <1>1, <1>2
  <1>5. Rows \subseteq Rows'
    BY <1>1, NoneAssumption DEF Rows
  <1>6. ASSUME job[q].pc \in {"resolve", "stamp", "lockDoi", "decide"}, ~job[q].input.force
        PROVE  Unbound(job[q].sha)'
    BY <1>1, <1>4, <1>6 DEF Binds, Unbound, LockedPc
  <1>7. ASSUME job[q].pc \in CommitPc
        PROVE  DecisionStands(job[q])'
    <2>1. DecisionStands(job[q])
      BY <1>1, <1>7 DEF Binds
    <2>2. \A x \in PdfId : doiOf'[x] = job[q].doi => doiOf[x] = job[q].doi
      BY <1>3, <1>7 DEF DoiPc
    <2>3. /\ \/ alias'[job[q].sha] = None
             \/ job[q].replaced /\ alias'[job[q].sha] = job[q].row
          /\ \A x \in PdfId : shaOf'[x] = job[q].sha => x = job[q].row
      BY <1>4, <1>7, <2>1 DEF DecisionStands, LockedPc
    <2>4. job[q].row \in Rows => doiOf'[job[q].row] = doiOf[job[q].row]
      BY DEF Rows
    <2> QED BY <1>1, <1>5, <2>1, <2>2, <2>3, <2>4 DEF DecisionStands
  <1> QED BY <1>1, <1>5, <1>6, <1>7 DEF Binds

LEMMA SentFew == \A h \in Hash : {} \in Registry!Sent /\ {h} \in Registry!Sent
  BY DEF Registry!Sent

LEMMA SameBytes == \A h \in Hash : {h} \ {h} = {}
  OBVIOUS

LEMMA CommitReplaceBinds ==
    ASSUME Unstamped, IInv, BindInv, NEW r \in Request, CommitReplace(r)
    PROVE  BindInv' /\ Refined
  <1> DEFINE p == job[r].row
             h == job[r].sha
  <1>1. /\ \A q \in Request \ {r} : job'[q] = job[q]
        /\ UNCHANGED doiOf /\ shaOf' = [shaOf EXCEPT ![p] = h] /\ deleted' = deleted \ {p}
    BY DEF CommitReplace, IInv, TypeOK
  <1>2. /\ job[r].pc = "commitReplace" /\ job'[r].pc = "respond"
        /\ job'[r].sha = h /\ h \in Hash
        /\ job'[r].input = job[r].input
        /\ job'[r].replaced = job[r].replaced
    BY DEF CommitReplace, IInv, TypeOK, JobType
  <1>3. DecisionStands(job[r]) /\ h = job[r].input.raw
    BY <1>2 DEF BindInv, Binds, CommitPc
  <1>4. p \in PdfId /\ p \in Rows /\ job[r].claims = {} /\ job[r].replaced
    BY <1>2, <1>3 DEF DecisionStands, Rows
  <1>5. alias' = [x \in Hash |-> IF alias[x] = p THEN None ELSE alias[x]]
    BY <1>4 DEF CommitReplace, Bind, OwnAliases
  <1>6. Registry!Next
    <2>1. Registry!Replace(p, h, {})
      BY <1>1, <1>3, <1>4, <1>5
         DEF Registry!Replace, Registry!FreeFor, Registry!Article, Rows, DecisionStands
    <2>2. Registry!Replace(p, h, {h} \ {h})
      BY <2>1, SameBytes
    <2> QED BY <1>2, <1>4, <2>2 DEF Registry!Next
  <1>7. Registry!Consistent'
    BY <1>6, RegistryKeeps DEF IInv, BindInv
  <1>8. \A q \in Request \ {r} : Binds(q)'
    <2>1. \A x \in PdfId \ {p} : doiOf'[x] = doiOf[x] /\ shaOf'[x] = shaOf[x]
      BY <1>1 DEF IInv, TypeOK
    <2>2. doiOf'[p] = doiOf[p] /\ shaOf'[p] = h
      BY <1>1, <1>4 DEF IInv, TypeOK
    <2>3. \A x \in Hash \ {h} : alias'[x] \in {None, alias[x]}
      BY <1>5
    <2> QED BY <1>1, <1>2, <1>4, <2>1, <2>2, <2>3, CommitFrame DEF CommitPc
  <1>9. Binds(r)'
    BY <1>2, <1>3 DEF Binds, CommitPc
  <1> QED BY <1>6, <1>7, <1>8, <1>9 DEF BindInv, Refined

LEMMA CommitAliasBinds ==
    ASSUME Unstamped, IInv, BindInv, NEW r \in Request, CommitAlias(r)
    PROVE  BindInv' /\ Refined
  <1> DEFINE p == job[r].row
             h == job[r].sha
  <1>1. /\ \A q \in Request \ {r} : job'[q] = job[q]
        /\ UNCHANGED <<doiOf, shaOf>> /\ deleted' = deleted \ {p}
    BY DEF CommitAlias, IInv, TypeOK
  <1>2. /\ job[r].pc = "commitAlias" /\ job'[r].pc = "respond"
        /\ job'[r].sha = h /\ h \in Hash
        /\ job'[r].input = job[r].input
        /\ job'[r].replaced = job[r].replaced
    BY DEF CommitAlias, IInv, TypeOK, JobType
  <1>3. DecisionStands(job[r]) /\ h = job[r].input.raw
    BY <1>2 DEF BindInv, Binds, CommitPc
  <1>4. p \in PdfId /\ p \in Rows /\ job[r].claims = {h} /\ ~job[r].replaced
    BY <1>2, <1>3 DEF DecisionStands, Rows
  <1>5. alias' = [x \in Hash |-> IF x = h THEN p ELSE alias[x]]
    BY <1>4 DEF CommitAlias, Bind, OwnAliases
  <1>6. Registry!Next
    <2>1. Registry!Join(p, {h})
      BY <1>1, <1>3, <1>4, <1>5
         DEF Registry!Join, Registry!FreeFor, Registry!Article, Rows, DecisionStands
    <2> QED BY <1>2, <1>4, <2>1, SentFew DEF Registry!Next
  <1>7. Registry!Consistent'
    BY <1>6, RegistryKeeps DEF IInv, BindInv
  <1>8. \A q \in Request \ {r} : Binds(q)'
    <2>1. \A x \in Hash \ {h} : alias'[x] \in {None, alias[x]}
      BY <1>5
    <2> QED BY <1>1, <1>2, <1>4, <2>1, CommitFrame DEF CommitPc
  <1>9. Binds(r)'
    BY <1>2, <1>3, <1>4 DEF Binds, CommitPc
  <1> QED BY <1>6, <1>7, <1>8, <1>9 DEF BindInv, Refined

LEMMA CommitStoreBinds ==
    ASSUME Unstamped, IInv, BindInv, NEW r \in Request, CommitStore(r)
    PROVE  BindInv' /\ Refined
  <1> DEFINE d == job[r].doi
             h == job[r].sha
  <1>1. /\ \A q \in Request \ {r} : job'[q] = job[q]
        /\ job[r].pc = "commitStore" /\ job'[r].pc = "respond"
        /\ job'[r].sha = h /\ h \in Hash
        /\ job'[r].input = job[r].input
        /\ job'[r].replaced = job[r].replaced
    BY DEF CommitStore, IInv, TypeOK, JobType
  <1>2. d \in Doi
    BY <1>1 DEF IInv, HoldInv, Holds, DoiPc, CommitPc
  <1>3. DecisionStands(job[r]) /\ h = job[r].input.raw
    BY <1>1 DEF BindInv, Binds, CommitPc
  <1>4. job[r].row = None /\ job[r].claims = {} /\ ~job[r].replaced
    BY <1>1, <1>3 DEF DecisionStands
  <1>5. PICK p \in PdfId :
          /\ shaOf[p] = None
          /\ doiOf' = [doiOf EXCEPT ![p] = d]
          /\ shaOf' = [shaOf EXCEPT ![p] = h]
          /\ deleted' = deleted \ {p}
          /\ Bind(job[r], p)
    BY <1>4 DEF CommitStore
  <1>6. alias' = [x \in Hash |-> alias[x]]
    BY <1>4, <1>5 DEF Bind, OwnAliases
  <1>7. Registry!Next
    <2>1. alias' = [x \in Hash |-> IF x \in {} THEN p ELSE alias[x]]
      BY <1>6
    <2>2. Registry!Create(p, d, h, {})
      <3>1. Registry!FreeFor(h, p)
        BY <1>3, <1>4, NoneAssumption DEF Registry!FreeFor, DecisionStands
      <3>2. Registry!UnusedDoi(d) /\ p \notin Registry!Article
        BY <1>3, <1>4, <1>5 DEF Registry!UnusedDoi, Registry!Article, DecisionStands
      <3> QED BY <1>5, <2>1, <3>1, <3>2 DEF Registry!Create
    <2>3. Registry!Create(p, d, h, {h} \ {h})
      BY <2>2, SameBytes
    <2> QED BY <1>1, <1>2, <2>3 DEF Registry!Next
  <1>8. Registry!Consistent'
    BY <1>7, RegistryKeeps DEF IInv, BindInv
  <1>9. \A q \in Request \ {r} : Binds(q)'
    <2>1. \A x \in PdfId \ {p} : doiOf'[x] = doiOf[x] /\ shaOf'[x] = shaOf[x]
      BY <1>5 DEF IInv, TypeOK
    <2>2. doiOf'[p] = d /\ shaOf'[p] = h /\ p \notin Rows
      BY <1>5 DEF IInv, TypeOK, Rows
    <2>3. \A x \in Hash \ {h} : alias'[x] \in {None, alias[x]}
      BY <1>6
    <2> QED BY <1>1, <2>1, <2>2, <2>3, CommitFrame DEF CommitPc
  <1>10. Binds(r)'
    BY <1>1, <1>3, <1>4 DEF Binds, CommitPc
  <1> QED BY <1>7, <1>8, <1>9, <1>10 DEF BindInv, Refined

LEMMA SoftDeleteBinds ==
    ASSUME IInv, BindInv, NEW p \in PdfId, SoftDelete(p)
    PROVE  BindInv' /\ Refined
  <1>1. UNCHANGED <<doiOf, shaOf, alias, job>>
    BY DEF SoftDelete
  <1>2. BindInv'
    BY <1>1, BindFrame DEF BindInv, Registry!Consistent, Registry!Article
  <1>3. Registry!Hide(p)
    BY DEF SoftDelete, Registry!Hide, Registry!Article, Rows
  <1> QED BY <1>2, <1>3 DEF Refined, Registry!Next

(* correct_pdf_doi takes no lock file: what protects the deciding requests *)
(* is the row lock they hold and the index entry they have inserted.       *)
LEMMA CorrectDoiBinds ==
    ASSUME IInv, BindInv, NEW p \in PdfId, NEW d \in Doi, CorrectDoi(p, d)
    PROVE  BindInv' /\ Refined
  <1>1. /\ doiOf' = [doiOf EXCEPT ![p] = d]
        /\ UNCHANGED <<shaOf, deleted, alias, job>>
        /\ p \in Rows \ deleted
    BY DEF CorrectDoi
  <1>2. HolderFacts(doiOf, d) /\ Holder(doiOf, d) = None
    BY HolderIs DEF CorrectDoi
  <1>3. Registry!Correct(p, d)
    BY <1>1, <1>2 DEF Registry!Correct, Registry!UnusedDoi, Registry!Article, Rows, HolderFacts
  <1>4. Registry!Next
    BY <1>3 DEF Registry!Next
  <1>5. Registry!Consistent'
    BY <1>4, RegistryKeeps DEF IInv, BindInv
  <1>6. ASSUME NEW q \in Request PROVE Binds(q)'
    <2>1. Binds(q)
      BY DEF BindInv
    <2>2. ASSUME job[q].pc \in CommitPc PROVE DecisionStands(job[q])'
      <3>1. DecisionStands(job[q])
        BY <2>1, <2>2 DEF Binds
      <3>2. CASE job[q].row = None
        <4>1. Inserting(q)
          BY <3>1, <3>2 DEF DecisionStands, Inserting
        <4>2. job[q].doi # d
          BY <4>1 DEF CorrectDoi
        <4> QED BY <1>1, <3>1, <3>2, <4>2 DEF DecisionStands, IInv, TypeOK
      <3>3. CASE job[q].row # None
        <4>1. job[q].row \in Rows /\ doiOf[job[q].row] = job[q].doi
          BY <3>1, <3>3 DEF DecisionStands
        <4>2. q \in Request \ {None}
          BY NoneAssumption
        <4>3. job[q].row # p
          BY <2>2, <4>1, <4>2 DEF CorrectDoi, RowBusy
        <4>4. doiOf'[job[q].row] = doiOf[job[q].row]
          BY <1>1, <4>1, <4>3 DEF IInv, TypeOK, Rows
        <4> QED BY <1>1, <3>1, <3>3, <4>1, <4>4 DEF DecisionStands, Rows
      <3> QED BY <3>2, <3>3
    <2> QED BY <1>1, <2>1, <2>2 DEF Binds, Unbound, Rows
  <1> QED BY <1>4, <1>5, <1>6 DEF BindInv, Refined

LEMMA InitBinds ==
    ASSUME Init
    PROVE  BindInv /\ Registry!Init
  <1>1. Registry!Init
    BY DEF Init, Registry!Init
  <1>2. Registry!Consistent
    BY SeedAssumption, NoneAssumption DEF Init, Registry!Consistent, Registry!Article
  <1>3. ASSUME NEW r \in Request PROVE Binds(r)
    <2>1. PICK i \in Inputs : job[r] = Fresh(i)
      BY DEF Init
    <2> QED BY <2>1 DEF Binds, Fresh, CommitPc
  <1> QED BY <1>1, <1>2, <1>3 DEF BindInv

LEMMA NextBinds ==
    ASSUME Unstamped, IInv, BindInv, [Next]_vars
    PROVE  BindInv' /\ Refined
  <1>1. CASE \E r \in Request : Progress(r)
    <2> PICK r \in Request : Progress(r) BY <1>1
    <2>1. CASE StorePdf(r) BY <2>1, StorePdfBinds
    <2>2. CASE RejectIntake(r) BY <2>2, RejectIntakeBinds
    <2>3. CASE AcquireObject(r) BY <2>3, AcquireObjectBinds
    <2>4. CASE LookupKnown(r) BY <2>4, LookupKnownBinds
    <2>5. CASE LookupUnknown(r) BY <2>5, LookupUnknownBinds
    <2>6. CASE PromoteKnown(r) BY <2>6, PromoteKnownBinds
    <2>7. CASE CommitKnown(r) BY <2>7, CommitKnownBinds
    <2>8. CASE Resolve(r) BY <2>8, ResolveBinds
    <2>9. CASE Stamp(r) BY <2>9, StampBinds
    <2>10. CASE AcquireDoi(r) BY <2>10, AcquireDoiBinds
    <2>11. CASE DecideReplace(r) BY <2>11, DecideReplaceBinds
    <2>12. CASE DecideAlias(r) BY <2>12, DecideAliasBinds
    <2>13. CASE DecideStore(r) BY <2>13, DecideStoreBinds
    <2>14. CASE CommitReplace(r) BY <2>14, CommitReplaceBinds
    <2>15. CASE CommitAlias(r) BY <2>15, CommitAliasBinds
    <2>16. CASE CommitStore(r) BY <2>16, CommitStoreBinds
    <2>17. CASE Respond(r) BY <2>17, RespondBinds
    <2>18. CASE Fail(r) BY <2>18, FailBinds
    <2> QED BY <2>1, <2>2, <2>3, <2>4, <2>5, <2>6, <2>7, <2>8, <2>9, <2>10, <2>11, <2>12, <2>13, <2>14, <2>15, <2>16, <2>17, <2>18 DEF Progress
  <1>2. CASE \E r \in Request : Cancel(r) \/ Abort(r)
    BY <1>2, LeaveBinds
  <1>3. CASE \E p \in PdfId : SoftDelete(p)
    BY <1>3, SoftDeleteBinds
  <1>4. CASE \E p \in PdfId, d \in Doi : CorrectDoi(p, d)
    BY <1>4, CorrectDoiBinds
  <1>5. CASE UNCHANGED vars
    <2>1. UNCHANGED <<doiOf, shaOf, deleted, alias, job>>
      BY <1>5 DEF vars
    <2>2. BindInv'
      BY <2>1, BindFrame DEF BindInv, Registry!Consistent, Registry!Article
    <2>3. UNCHANGED Registry!registry
      BY <2>1 DEF Registry!registry
    <2> QED BY <2>2, <2>3 DEF Refined
  <1> QED BY <1>1, <1>2, <1>3, <1>4, <1>5 DEF Next, Idle
-----------------------------------------------------------------------------
LEMMA BindInductive ==
    ASSUME Unstamped
    PROVE  Spec => []BindInv
  <1>1. Init => BindInv
    BY InitBinds
  <1>2. IInv /\ BindInv /\ [Next]_vars => BindInv'
    BY NextBinds
  <1> QED BY <1>1, <1>2, Inductive, PTL DEF Spec

(* What the decision relied on still holds at the COMMIT.                  *)
THEOREM BindCorrect ==
    ASSUME Unstamped
    PROVE  Spec => []BindInv
  BY BindInductive

(* process_upload, soft delete and DOI correction implement the atomic     *)
(* registry when no upload is restamped.                                   *)
THEOREM Serializable ==
    ASSUME Unstamped
    PROVE  Spec => AtomicRegistry
  <1>1. Init => Registry!Init
    BY InitBinds
  <1>2. IInv /\ BindInv /\ [Next]_vars => [Registry!Next]_(Registry!registry)
    BY NextBinds DEF Refined
  <1> QED BY <1>1, <1>2, Inductive, BindInductive, PTL DEF Spec, AtomicRegistry, Registry!Spec

(* No hash is the object of one row and an alias of another.               *)
THEOREM OneArticlePerHash ==
    ASSUME Unstamped
    PROVE  Spec => []HashOneArticle
  <1>1. IInv /\ BindInv => HashOneArticle
    <2> SUFFICES ASSUME IInv, BindInv, NEW h \in Hash, alias[h] # None
                 PROVE  Holder(shaOf, h) \in {None, alias[h]}
      BY DEF HashOneArticle
    <2>1. HolderFacts(shaOf, h)
      BY HolderIs
    <2> QED BY <2>1, NoneAssumption DEF HolderFacts, BindInv, Registry!Consistent, Registry!Article
  <1> QED BY <1>1, Inductive, BindInductive, PTL

LEMMA NeverConflicts ==
    ASSUME IInv, BindInv, NEW r \in Request, job[r].pc \in CommitPc
    PROVE  ~CommitConflict(job[r])
  <1>1. DecisionStands(job[r])
    BY DEF BindInv, Binds
  <1>2. Binds(r) /\ HolderFacts(shaOf, job[r].sha)
    BY HolderIs DEF BindInv
  <1>3. \A h \in job[r].claims : alias[h] = None
    BY <1>1 DEF DecisionStands
  <1> QED BY <1>1, <1>2, <1>3 DEF CommitConflict, HolderFacts, DecisionStands, OwnAliases

(* A COMMIT of process_upload violates no UNIQUE constraint.               *)
THEOREM NoCommitConflict ==
    ASSUME Unstamped
    PROVE  Spec => []CommitNeverConflicts
  <1>1. IInv /\ BindInv => CommitNeverConflicts
    BY NeverConflicts DEF CommitNeverConflicts
  <1> QED BY <1>1, Inductive, BindInductive, PTL

(* Only the COMMIT of r takes r from its decision to the answer.           *)
LEMMA AnswerStep ==
    ASSUME IInv, NEW r \in Request, job[r].pc \in CommitPc, job'[r].pc = "respond", Next
    PROVE  CommitReplace(r) \/ CommitAlias(r) \/ CommitStore(r)
  <1>1. job'[r] # job[r]
    BY DEF CommitPc
  <1>2. PICK q \in Request : Progress(q) \/ Cancel(q) \/ Abort(q)
    BY <1>1 DEF Next, SoftDelete, CorrectDoi, Idle, vars
  <1>3. q = r
    <2> SUFFICES ASSUME q # r PROVE job'[r] = job[r]
      BY <1>1
    <2>1. CASE StorePdf(q) BY <2>1 DEF StorePdf, IInv, TypeOK
    <2>2. CASE RejectIntake(q) BY <2>2 DEF RejectIntake, IInv, TypeOK
    <2>3. CASE AcquireObject(q) BY <2>3 DEF AcquireObject, IInv, TypeOK
    <2>4. CASE LookupKnown(q) BY <2>4 DEF LookupKnown, IInv, TypeOK
    <2>5. CASE LookupUnknown(q) BY <2>5 DEF LookupUnknown, IInv, TypeOK
    <2>6. CASE PromoteKnown(q) BY <2>6 DEF PromoteKnown, IInv, TypeOK
    <2>7. CASE CommitKnown(q) BY <2>7 DEF CommitKnown, IInv, TypeOK
    <2>8. CASE Resolve(q) BY <2>8 DEF Resolve, IInv, TypeOK
    <2>9. CASE Stamp(q) BY <2>9 DEF Stamp, IInv, TypeOK
    <2>10. CASE AcquireDoi(q) BY <2>10 DEF AcquireDoi, IInv, TypeOK
    <2>11. CASE DecideReplace(q) BY <2>11 DEF DecideReplace, IInv, TypeOK
    <2>12. CASE DecideAlias(q) BY <2>12 DEF DecideAlias, IInv, TypeOK
    <2>13. CASE DecideStore(q) BY <2>13 DEF DecideStore, IInv, TypeOK
    <2>14. CASE Respond(q) BY <2>14 DEF Respond, IInv, TypeOK
    <2>15. CASE Fail(q) BY <2>15 DEF Fail, IInv, TypeOK
    <2>16. CASE CommitReplace(q) BY <2>16 DEF CommitReplace, IInv, TypeOK
    <2>17. CASE CommitAlias(q) BY <2>17 DEF CommitAlias, IInv, TypeOK
    <2>18. CASE CommitStore(q) BY <2>18 DEF CommitStore, IInv, TypeOK
    <2>19. CASE Cancel(q) \/ Abort(q) BY <2>19 DEF Cancel, Abort, Leave, IInv, TypeOK
    <2> QED BY <1>2, <2>1, <2>2, <2>3, <2>4, <2>5, <2>6, <2>7, <2>8, <2>9, <2>10, <2>11, <2>12, <2>13, <2>14, <2>15, <2>16, <2>17, <2>18, <2>19 DEF Progress
  <1>5. ~StorePdf(r)
    BY DEF StorePdf, CommitPc, IInv, TypeOK, JobType
  <1>6. ~RejectIntake(r)
    BY DEF RejectIntake, CommitPc, IInv, TypeOK, JobType
  <1>7. ~AcquireObject(r)
    BY DEF AcquireObject, CommitPc, IInv, TypeOK, JobType
  <1>8. ~LookupKnown(r)
    BY DEF LookupKnown, CommitPc, IInv, TypeOK, JobType
  <1>9. ~LookupUnknown(r)
    BY DEF LookupUnknown, CommitPc, IInv, TypeOK, JobType
  <1>10. ~PromoteKnown(r)
    BY DEF PromoteKnown, CommitPc, IInv, TypeOK, JobType
  <1>11. ~CommitKnown(r)
    BY DEF CommitKnown, CommitPc, IInv, TypeOK, JobType
  <1>12. ~Resolve(r)
    BY DEF Resolve, CommitPc, IInv, TypeOK, JobType
  <1>13. ~Stamp(r)
    BY DEF Stamp, CommitPc, IInv, TypeOK, JobType
  <1>14. ~AcquireDoi(r)
    BY DEF AcquireDoi, CommitPc, IInv, TypeOK, JobType
  <1>15. ~DecideReplace(r)
    BY DEF DecideReplace, CommitPc, IInv, TypeOK, JobType
  <1>16. ~DecideAlias(r)
    BY DEF DecideAlias, CommitPc, IInv, TypeOK, JobType
  <1>17. ~DecideStore(r)
    BY DEF DecideStore, CommitPc, IInv, TypeOK, JobType
  <1>18. ~Respond(r)
    BY DEF Respond, CommitPc, IInv, TypeOK, JobType
  <1>19. ~Fail(r)
    BY DEF Fail, CommitPc, IInv, TypeOK, JobType
  <1>20. ~(Cancel(r) \/ Abort(r))
    BY DEF Cancel, Abort, Leave, CommitPc, IInv, TypeOK, JobType
  <1> QED BY <1>2, <1>3, <1>5, <1>6, <1>7, <1>8, <1>9, <1>10, <1>11, <1>12, <1>13, <1>14, <1>15, <1>16, <1>17, <1>18, <1>19, <1>20 DEF Progress

(* An accepted upload is answered with the article of the DOI it was       *)
(* resolved to.                                                            *)
THEOREM AnswerIsBound ==
    ASSUME Unstamped
    PROVE  Spec => BoundToItsDoi
  <1> DEFINE Answer == \A r \in Request :
                          job[r].pc \in CommitPc /\ job'[r].pc = "respond" =>
                              doiOf'[job'[r].row] = job[r].doi
  <1>1. ASSUME IInv, BindInv, Next PROVE Answer
    <2> SUFFICES ASSUME NEW r \in Request, job[r].pc \in CommitPc, job'[r].pc = "respond"
                 PROVE  doiOf'[job'[r].row] = job[r].doi
      OBVIOUS
    <2>1. DecisionStands(job[r])
      BY <1>1 DEF BindInv, Binds
    <2>2. CASE CommitReplace(r) \/ CommitAlias(r)
      <3>1. UNCHANGED doiOf /\ job'[r].row = job[r].row
        BY <1>1, <2>2 DEF CommitReplace, CommitAlias, IInv, TypeOK, JobType
      <3>2. job[r].pc # "commitStore"
        BY <2>2 DEF CommitReplace, CommitAlias
      <3> QED BY <2>1, <3>1, <3>2 DEF DecisionStands
    <2>3. CASE CommitStore(r)
      <3>1. job[r].row = None
        BY <2>1, <2>3 DEF DecisionStands, CommitStore
      <3>2. PICK p \in PdfId : /\ doiOf' = [doiOf EXCEPT ![p] = job[r].doi]
                               /\ job' = [job EXCEPT ![r].pc = "respond", ![r].row = p]
        BY <2>3, <3>1 DEF CommitStore
      <3>3. job'[r].row = p /\ doiOf'[p] = job[r].doi
        BY <1>1, <3>2 DEF IInv, TypeOK, JobType
      <3> QED BY <3>3
    <2> QED BY <1>1, <2>2, <2>3, AnswerStep
  <1>2. IInv /\ BindInv /\ [Next]_vars => [Answer]_vars
    BY <1>1
  <1> HIDE DEF Answer
  <1>3. Spec => [][Answer]_vars
    BY <1>2, Inductive, BindInductive, PTL DEF Spec
  <1> QED BY <1>3 DEF Answer, BoundToItsDoi

-----------------------------------------------------------------------------
(* Whose article bytes are, A, is agreed: so the tables say, and so do the  *)
(* requests that are about to write them.                                   *)
Agrees(A) ==
    /\ A \in [Hash -> Doi]
    /\ \A h \in Hash : Embedded[h] \in {None, A[h]}
    /\ \A i \in Inputs : /\ i.trusted /\ i.doi = A[i.raw]
                         /\ A[Stamped[i.raw][i.doi]] = i.doi
    /\ \A p \in PdfId : SeedSha[p] # None => SeedDoi[p] = A[SeedSha[p]]

RowsAgree(A) ==
    /\ \A p \in Rows : doiOf[p] = A[shaOf[p]]
    /\ \A p, q \in Rows : doiOf[p] = doiOf[q] => p = q

Tables(A) ==
    /\ RowsAgree(A)
    /\ \A p \in PdfId : doiOf[p] = None <=> shaOf[p] = None
    /\ \A h \in Hash : alias[h] # None => alias[h] \in Rows /\ doiOf[alias[h]] = A[h]

(* What the decision of a request that commits rests on.                    *)
Stands(A, j) ==
    /\ j.doi = A[j.sha]
    /\ j.replaced <=> j.pc = "commitReplace"
    /\ j.claims \subseteq {j.input.raw, j.sha}
    /\ j.pc # "commitAlias" => j.claims \subseteq {j.input.raw} \ {j.sha}
    /\ j.pc = "commitReplace" => j.claims = {j.input.raw} \ {j.sha}
    /\ \A h \in j.claims : alias[h] = None \/ (j.replaced /\ alias[h] = j.row)
    /\ IF j.row = None
       THEN j.pc = "commitStore" /\ \A p \in PdfId : doiOf[p] # j.doi
       ELSE j.row \in Rows /\ doiOf[j.row] = j.doi

UnstampedPc == {"store", "lock", "lookup", "resolve", "stamp"}

Acts(A, r) ==
    LET j == job[r] IN
    /\ A[j.sha] = A[j.input.raw]
    /\ j.pc \in UnstampedPc => j.sha = j.input.raw
    /\ j.doi \in {None, A[j.sha]}
    /\ j.replaced => j.pc \in {"commitReplace", "respond"} \cup FinalPc
    /\ j.pc \in {"promoteKnown", "commitKnown"} => j.row \in Rows
    /\ j.pc \in CommitPc => Stands(A, j)

Agreed(A) == Tables(A) /\ \A r \in Request : Acts(A, r)

LEMMA TablesConsistent ==
    ASSUME NEW A, Tables(A), TypeOK
    PROVE  Registry!Consistent
  BY DEF Tables, RowsAgree, Rows, Registry!Consistent, Registry!Article, TypeOK

(* No other row has a claim on bytes of the article of row p.               *)
LEMMA OwnBytesFree ==
    ASSUME NEW A, Tables(A), NEW p \in Rows, NEW h \in Hash, A[h] = doiOf[p]
    PROVE  Registry!FreeFor(h, p)
  <1>1. alias[h] # None => alias[h] = p
    BY DEF Tables, RowsAgree
  <1>2. ASSUME NEW q \in PdfId, shaOf[q] = h PROVE q = p
    <2>1. q \in Rows
      BY <1>2, NoneAssumption DEF Rows
    <2> QED BY <1>2, <2>1 DEF Tables, RowsAgree
  <1> QED BY <1>1, <1>2 DEF Registry!FreeFor

LEMMA NewBytesFree ==
    ASSUME NEW A, Tables(A), NEW h \in Hash, \A q \in PdfId : doiOf[q] # A[h], NEW p \in PdfId
    PROVE  Registry!FreeFor(h, p)
  <1>1. alias[h] = None
    BY DEF Tables, Rows
  <1>2. ASSUME NEW q \in PdfId, shaOf[q] = h PROVE FALSE
    <2>1. q \in Rows
      BY <1>2, NoneAssumption DEF Rows
    <2> QED BY <1>2, <2>1 DEF Tables, RowsAgree
  <1> QED BY <1>1, <1>2 DEF Registry!FreeFor

(* A step of r that writes no table.                                        *)
LEMMA QuietActs ==
    ASSUME NEW A, Agreed(A), NEW r \in Request, \A q \in Request \ {r} : job'[q] = job[q],
           UNCHANGED <<doiOf, shaOf, alias>>, Acts(A, r)'
    PROVE  Agreed(A)'
  <1>1. Tables(A)'
    BY DEF Agreed, Tables, RowsAgree, Rows
  <1>2. ASSUME NEW q \in Request, q # r PROVE Acts(A, q)'
    <2>1. Acts(A, q) /\ job'[q] = job[q]
      BY <1>2 DEF Agreed
    <2> QED BY <2>1 DEF Acts, Stands, Rows
  <1> QED BY <1>1, <1>2 DEF Agreed

LEMMA EarlyActs ==
    ASSUME NEW A, Agrees(A), IInv, Agreed(A), NEW r \in Request,
           \/ StorePdf(r) \/ RejectIntake(r) \/ AcquireObject(r) \/ LookupKnown(r)
           \/ LookupUnknown(r) \/ PromoteKnown(r) \/ Resolve(r)
           \/ Stamp(r) \/ AcquireDoi(r) \/ Respond(r) \/ Fail(r) \/ Cancel(r) \/ Abort(r)
    PROVE  Agreed(A)' /\ Refined
  <1>1. /\ job \in [Request -> JobType] /\ job[r] \in JobType /\ job[r].input \in Inputs
        /\ Acts(A, r) /\ Holds(r)
    BY DEF Agreed, IInv, TypeOK, HoldInv, JobType
  <1>2. /\ \A q \in Request \ {r} : job'[q] = job[q]
        /\ UNCHANGED <<doiOf, shaOf, deleted, alias>>
    BY <1>1 DEF StorePdf, RejectIntake, AcquireObject, LookupKnown, LookupUnknown, PromoteKnown,
         Resolve, Stamp, AcquireDoi, Respond, Fail, Cancel, Abort, Leave, db
  <1>3. Refined
    BY <1>2 DEF Refined, Registry!registry
  <1> DEFINE Same == /\ A[job'[r].sha] = A[job[r].sha] /\ job'[r].input = job[r].input
                     /\ job'[r].doi \in {job[r].doi, A[job[r].sha]}
                     /\ job'[r].replaced = job[r].replaced
                     /\ job'[r].pc \notin CommitPc
                     /\ job'[r].pc \in UnstampedPc =>
                           job[r].pc \in UnstampedPc /\ job'[r].sha = job[r].sha
                     /\ job'[r].pc \in {"promoteKnown", "commitKnown"} =>
                           job'[r].row \in Rows
                     /\ job[r].replaced => job'[r].pc \in FinalPc
  <1>4. Same => Acts(A, r)'
    BY <1>1, <1>2 DEF Acts, Rows
  <1>5. Same => Agreed(A)'
    BY <1>2, <1>4, QuietActs
  <1>6. ASSUME StorePdf(r) \/ RejectIntake(r) \/ Cancel(r) \/ Abort(r) PROVE Same
    BY <1>1, <1>6 DEF StorePdf, RejectIntake, Cancel, Abort, Leave, JobType, Acts, FinalPc, CommitPc, UnstampedPc
  <1>7. ASSUME AcquireObject(r) \/ AcquireDoi(r) PROVE Same
    BY <1>1, <1>7 DEF AcquireObject, AcquireDoi, JobType, Acts, FinalPc, CommitPc, UnstampedPc
  <1>8. ASSUME LookupKnown(r) PROVE Same
    <2>1. KnownRow(job[r]) \in Rows
      <3>1. HolderFacts(shaOf, job[r].sha)
        BY HolderIs
      <3>2. job[r].sha \in Hash
        BY <1>1 DEF JobType
      <3> QED BY <3>1, <3>2, <1>8, NoneAssumption
              DEF HolderFacts, LookupKnown, IsKnown, KnownRow, Rows, Agreed, Tables
    <2>2. PICK o, b : job' = [job EXCEPT ![r].pc = "promoteKnown", ![r].row = KnownRow(job[r]),
                                         ![r].old = o, ![r].restore = b]
      BY <1>8 DEF LookupKnown
    <2>3. job[r].pc = "lookup"
      BY <1>8 DEF LookupKnown
    <2>4. /\ job'[r].pc = "promoteKnown" /\ job'[r].row = KnownRow(job[r])
          /\ job'[r].sha = job[r].sha /\ job'[r].input = job[r].input
          /\ job'[r].doi = job[r].doi /\ job'[r].replaced = job[r].replaced
      BY <1>1, <2>2 DEF JobType
    <2> QED BY <1>1, <2>1, <2>3, <2>4 DEF Acts, FinalPc, CommitPc, UnstampedPc
  <1>9. ASSUME LookupUnknown(r) \/ PromoteKnown(r) PROVE Same
    BY <1>1, <1>9 DEF LookupUnknown, PromoteKnown, JobType, Acts, FinalPc, CommitPc, UnstampedPc
  <1>10. ASSUME Resolve(r) PROVE Same
    <2>1. PICK d \in Doi, ok \in BOOLEAN :
             /\ d = job[r].input.doi
             /\ job' = [job EXCEPT ![r].pc = "stamp", ![r].doi = d, ![r].verified = ok]
      BY <1>1, <1>10 DEF Resolve, Agrees
    <2>2. d = A[job[r].sha] /\ job[r].pc = "resolve"
      BY <1>1, <1>10, <2>1 DEF Acts, Resolve, Agrees
    <2>3. /\ job'[r].pc = "stamp" /\ job'[r].doi = d
          /\ job'[r].sha = job[r].sha /\ job'[r].input = job[r].input
          /\ job'[r].replaced = job[r].replaced
      BY <1>1, <2>1 DEF JobType
    <2> QED BY <1>1, <2>2, <2>3 DEF Acts, FinalPc, CommitPc, UnstampedPc
  <1>11. ASSUME Stamp(r) PROVE Same
    <2>1. job[r].pc = "stamp" /\ job[r].doi \in Doi /\ job[r].sha \in Hash
      BY <1>1, <1>11 DEF Stamp, Holds, JobType
    <2>2. job[r].doi = A[job[r].sha] /\ job[r].sha = job[r].input.raw
      BY <1>1, <2>1, NoneAssumption DEF Acts, UnstampedPc
    <2>3. /\ job'[r].sha \in {job[r].sha, Stamped[job[r].sha][job[r].doi]}
          /\ job'[r].pc \in {"lockDoi", "relock"} /\ job'[r].doi = job[r].doi
          /\ job'[r].input = job[r].input /\ job'[r].replaced = job[r].replaced
      BY <1>1, <1>11 DEF Stamp, JobType
    <2>4. A[job'[r].sha] = A[job[r].sha]
      BY <1>1, <2>1, <2>2, <2>3 DEF Agrees
    <2> QED BY <1>1, <2>1, <2>3, <2>4 DEF Acts, FinalPc, CommitPc, UnstampedPc
  <1>12. ASSUME Respond(r) \/ Fail(r) PROVE Same
    BY <1>1, <1>12 DEF Respond, Fail, JobType, Acts, FinalPc, CommitPc, UnstampedPc
  <1> HIDE DEF Same
  <1> QED BY <1>3, <1>5, <1>6, <1>7, <1>8, <1>9, <1>10, <1>11, <1>12

(* The decision: the article of the DOI is the one of the bytes.            *)
LEMMA DecideActs ==
    ASSUME NEW A, Agrees(A), IInv, Agreed(A), NEW r \in Request,
           DecideReplace(r) \/ DecideAlias(r) \/ DecideStore(r)
    PROVE  Agreed(A)' /\ Refined
  <1> DEFINE j == job[r]
             p == ByDoi(j)
  <1>1. /\ job \in [Request -> JobType] /\ j \in JobType /\ Acts(A, r) /\ Holds(r)
        /\ j.sha \in Hash /\ j.input.raw \in Hash /\ j.pc = "decide"
    BY InputAssumption
       DEF Agreed, IInv, TypeOK, HoldInv, JobType, InputType, DecideReplace, DecideAlias, DecideStore
  <1>2. /\ \A q \in Request \ {r} : job'[q] = job[q]
        /\ UNCHANGED <<doiOf, shaOf, deleted, alias>>
    BY <1>1 DEF DecideReplace, DecideAlias, DecideStore, db
  <1>3. Refined
    BY <1>2 DEF Refined, Registry!registry
  <1>4. j.doi \in Doi /\ j.doi = A[j.sha] /\ A[j.input.raw] = A[j.sha] /\ ~j.replaced
    BY <1>1, NoneAssumption DEF Acts, Holds, DoiPc, FinalPc
  <1>5. IF p = None THEN \A q \in PdfId : doiOf[q] # j.doi
                    ELSE p \in Rows /\ doiOf[p] = j.doi
    <2>1. HolderFacts(doiOf, j.doi)
      BY HolderIs
    <2> QED BY <1>4, <2>1, NoneAssumption DEF HolderFacts, ByDoi, Rows, Agreed, Tables
  <1>6. ASSUME p = None PROVE BySha(j) = None
    <2>1. HolderFacts(shaOf, j.sha)
      BY HolderIs
    <2> QED BY <1>1, <1>4, <1>5, <1>6, <2>1, NoneAssumption
            DEF HolderFacts, BySha, Agreed, Tables, RowsAgree, Rows
  <1>7. /\ job'[r].sha = j.sha /\ job'[r].doi = j.doi /\ job'[r].input = j.input
        /\ job'[r].row = p
        /\ \/ /\ job'[r].pc = "commitReplace" /\ job'[r].replaced /\ p # None
              /\ job'[r].claims = {j.input.raw} \ {j.sha}
           \/ /\ job'[r].pc = "commitAlias" /\ ~job'[r].replaced /\ p # None
              /\ job'[r].claims = FreeAliases({j.sha, j.input.raw})
           \/ /\ job'[r].pc = "commitStore" /\ ~job'[r].replaced
              /\ job'[r].claims = FreeAliases({j.input.raw} \ {j.sha})
    <2>1. CASE DecideReplace(r)
      BY <1>1, <2>1 DEF DecideReplace, Replaces, JobType
    <2>2. CASE DecideAlias(r)
      BY <1>1, <1>4, <2>2 DEF DecideAlias, Joins, OtherBytes, JobType
    <2>3. CASE DecideStore(r)
      BY <1>1, <1>4, <1>6, <2>3 DEF DecideStore, StoreRow, JobType
    <2> QED BY <2>1, <2>2, <2>3
  <1>8. \A h \in {j.sha, j.input.raw} : alias[h] = None \/ alias[h] = p
    BY <1>1, <1>4, <1>5 DEF Agreed, Tables, RowsAgree, Rows
  <1> HIDE DEF p
  <1>9. Stands(A, job[r])'
    BY <1>2, <1>4, <1>5, <1>7, <1>8 DEF Stands, FreeAliases, Rows
  <1>10. Acts(A, r)'
    BY <1>1, <1>4, <1>7, <1>9 DEF Acts, FinalPc, UnstampedPc
  <1> QED BY <1>2, <1>3, <1>10, QuietActs

(* A COMMIT of r leaves rows and aliases of other articles alone, so what   *)
(* other requests have decided stands.                                      *)
LEMMA OthersAct ==
    ASSUME NEW A, Agrees(A), IInv, Agreed(A), NEW r \in Request, job[r].pc \in CommitPc,
           \A q \in Request \ {r} : job'[q] = job[q],
           Rows \subseteq Rows',
           \A x \in Rows : doiOf'[x] = doiOf[x],
           \A x \in PdfId : doiOf'[x] \in {doiOf[x], job[r].doi},
           \A h \in Hash : alias'[h] \in {None, alias[h]} \/ A[h] = job[r].doi,
           NEW q \in Request, q # r
    PROVE  Acts(A, q)'
  <1>1. /\ Acts(A, q) /\ job'[q] = job[q] /\ job[q].sha \in Hash /\ job[q].input.raw \in Hash
    BY InputAssumption DEF Agreed, IInv, TypeOK, JobType, InputType
  <1>2. ASSUME job[q].pc \in CommitPc PROVE Stands(A, job[q])'
    <2>1. Stands(A, job[q]) /\ job[q].doi # job[r].doi
      BY <1>1, <1>2, Exclusive DEF Acts, DoiPc
    <2>2. \A h \in job[q].claims : alias'[h] \in {None, alias[h]}
      BY <1>1, <2>1 DEF Stands, Acts
    <2> QED BY <1>1, <2>1, <2>2 DEF Stands
  <1> QED BY <1>1, <1>2 DEF Acts

(* The steps that write the tables.                                         *)
LEMMA CommitActs ==
    ASSUME NEW A, Agrees(A), IInv, Agreed(A), NEW r \in Request,
           CommitReplace(r) \/ CommitAlias(r) \/ CommitStore(r),
           Registry!Next, RowsAgree(A)',
           \A p \in PdfId : doiOf'[p] = None <=> shaOf'[p] = None,
           Rows \subseteq Rows',
           \A x \in Rows : doiOf'[x] = doiOf[x],
           \A x \in PdfId : doiOf'[x] \in {doiOf[x], job[r].doi},
           \A h \in Hash : \/ alias'[h] \in {None, alias[h]}
                           \/ /\ A[h] = job[r].doi
                              /\ alias'[h] \in Rows' /\ doiOf'[alias'[h]] = job[r].doi
    PROVE  Agreed(A)' /\ Refined
  <1>1. /\ job \in [Request -> JobType] /\ job[r] \in JobType /\ Acts(A, r)
    BY DEF Agreed, IInv, TypeOK
  <1>2. /\ job[r].pc \in CommitPc /\ job'[r].pc = "respond"
        /\ \A q \in Request \ {r} : job'[q] = job[q]
        /\ job'[r].sha = job[r].sha /\ job'[r].input = job[r].input
        /\ job'[r].doi = job[r].doi /\ job'[r].replaced = job[r].replaced
    BY <1>1 DEF CommitReplace, CommitAlias, CommitStore, JobType, CommitPc
  <1>3. Acts(A, r)'
    BY <1>1, <1>2 DEF Acts, FinalPc, CommitPc, UnstampedPc
  <1>4. \A q \in Request \ {r} : Acts(A, q)'
    BY <1>2, OthersAct
  <1>5. \A h \in Hash : alias'[h] # None => alias'[h] \in Rows' /\ doiOf'[alias'[h]] = A[h]
    BY DEF Agreed, Tables
  <1>6. Tables(A)'
    BY <1>5 DEF Tables
  <1> QED BY <1>3, <1>4, <1>6 DEF Agreed, Refined

LEMMA CommitReplaceActs ==
    ASSUME NEW A, Agrees(A), IInv, Agreed(A), NEW r \in Request, CommitReplace(r)
    PROVE  Agreed(A)' /\ Refined
  <1> DEFINE p == job[r].row
             h == job[r].sha
             x == job[r].input.raw
  <1>1. /\ UNCHANGED doiOf /\ shaOf' = [shaOf EXCEPT ![p] = h] /\ deleted' = deleted \ {p}
        /\ job[r].pc = "commitReplace" /\ h \in Hash /\ x \in Hash /\ h # None
        /\ shaOf \in [PdfId -> Hash \cup {None}]
    BY InputAssumption, NoneAssumption DEF CommitReplace, IInv, TypeOK, JobType, InputType
  <1>2. Acts(A, r) /\ Tables(A)
    BY DEF Agreed
  <1>3. /\ Stands(A, job[r]) /\ A[x] = A[h] /\ job[r].doi = A[h] /\ job[r].replaced
        /\ job[r].claims = {x} \ {h}
    BY <1>1, <1>2 DEF Acts, Stands, CommitPc
  <1>4. p \in Rows /\ p \in PdfId /\ doiOf[p] = A[h]
    BY <1>1, <1>3 DEF Stands, Rows
  <1>5. alias' = [y \in Hash |-> IF y \in {x} \ {h} THEN p
                                 ELSE IF alias[y] = p THEN None ELSE alias[y]]
    <2>1. alias' = [y \in Hash |-> IF y \in {x} \ {h} THEN p
                          ELSE IF y \in {z \in Hash : alias[z] = p} THEN None ELSE alias[y]]
      BY <1>3 DEF CommitReplace, Bind, OwnAliases
    <2> QED BY <2>1
  <1> HIDE DEF p, h, x
  <1>6. Registry!Next
    <2>1. \A y \in ({x} \ {h}) \cup {h} : Registry!FreeFor(y, p)
      BY <1>1, <1>2, <1>3, <1>4, OwnBytesFree
    <2>2. Registry!Replace(p, h, {x} \ {h})
      BY <1>1, <1>4, <1>5, <2>1 DEF Registry!Replace, Registry!Article, Rows
    <2> QED BY <1>1, <1>4, <2>2 DEF Registry!Next
  <1>7. Rows' = Rows /\ \A q \in Rows : q # p => shaOf'[q] = shaOf[q]
    BY <1>1, <1>4 DEF Rows
  <1>8. RowsAgree(A)' /\ \A q \in PdfId : doiOf'[q] = None <=> shaOf'[q] = None
    <2>1. shaOf'[p] = h
      BY <1>1, <1>4
    <2>2. RowsAgree(A)'
      BY <1>1, <1>2, <1>4, <1>7, <2>1 DEF RowsAgree, Tables
    <2>3. ASSUME NEW q \in PdfId PROVE doiOf'[q] = None <=> shaOf'[q] = None
      BY <1>1, <1>2, <1>7 DEF Tables, Rows
    <2> QED BY <2>2, <2>3
  <1> QED BY <1>1, <1>3, <1>4, <1>5, <1>6, <1>7, <1>8, CommitActs

LEMMA CommitAliasActs ==
    ASSUME NEW A, Agrees(A), IInv, Agreed(A), NEW r \in Request, CommitAlias(r)
    PROVE  Agreed(A)' /\ Refined
  <1> DEFINE p == job[r].row
             S == job[r].claims
  <1>1. /\ UNCHANGED <<doiOf, shaOf>> /\ deleted' = deleted \ {p}
        /\ job[r].pc = "commitAlias" /\ job[r].sha \in Hash /\ job[r].input.raw \in Hash
    BY InputAssumption DEF CommitAlias, IInv, TypeOK, JobType, InputType
  <1>2. Acts(A, r) /\ Tables(A)
    BY DEF Agreed
  <1>3. /\ Stands(A, job[r]) /\ A[job[r].input.raw] = A[job[r].sha]
        /\ job[r].doi = A[job[r].sha] /\ ~job[r].replaced
        /\ S \subseteq {job[r].input.raw, job[r].sha}
    BY <1>1, <1>2 DEF Acts, Stands, CommitPc
  <1>4. p \in Rows /\ p \in PdfId /\ doiOf[p] = job[r].doi
    BY <1>1, <1>3 DEF Stands, Rows
  <1>5. alias' = [y \in Hash |-> IF y \in S THEN p ELSE alias[y]]
    BY <1>3 DEF CommitAlias, Bind, OwnAliases
  <1> HIDE DEF p, S
  <1>6. S \in SUBSET Hash /\ S \in Registry!Sent
    BY <1>1, <1>3 DEF Registry!Sent
  <1>7. Registry!Next
    <2>1. \A y \in S : Registry!FreeFor(y, p)
      BY <1>1, <1>2, <1>3, <1>4, OwnBytesFree
    <2>2. Registry!Join(p, S)
      BY <1>1, <1>4, <1>5, <2>1 DEF Registry!Join, Registry!Article, Rows
    <2> QED BY <1>4, <1>6, <2>2 DEF Registry!Next
  <1>8. Rows' = Rows /\ RowsAgree(A)' /\ \A q \in PdfId : doiOf'[q] = None <=> shaOf'[q] = None
    BY <1>1, <1>2 DEF Rows, RowsAgree, Tables
  <1>9. \A y \in S : A[y] = job[r].doi
    BY <1>3
  <1> QED BY <1>1, <1>4, <1>5, <1>7, <1>8, <1>9, CommitActs

LEMMA CommitStoreActs ==
    ASSUME NEW A, Agrees(A), IInv, Agreed(A), NEW r \in Request, CommitStore(r)
    PROVE  Agreed(A)' /\ Refined
  <1> DEFINE d == job[r].doi
             h == job[r].sha
             x == job[r].input.raw
             S == job[r].claims
  <1>1. /\ job[r].pc = "commitStore" /\ h \in Hash /\ x \in Hash /\ h # None
        /\ shaOf \in [PdfId -> Hash \cup {None}] /\ doiOf \in [PdfId -> Doi \cup {None}]
    BY InputAssumption, NoneAssumption DEF CommitStore, IInv, TypeOK, JobType, InputType
  <1>2. Acts(A, r) /\ Tables(A) /\ d \in Doi /\ d # None
    BY <1>1, NoneAssumption DEF Agreed, IInv, HoldInv, Holds, DoiPc, CommitPc
  <1>3. /\ Stands(A, job[r]) /\ A[x] = A[h] /\ d = A[h] /\ ~job[r].replaced
        /\ S \subseteq {x} \ {h}
    BY <1>1, <1>2 DEF Acts, Stands, CommitPc
  <1>4. PICK p \in PdfId :
          /\ IF job[r].row = None
             THEN /\ shaOf[p] = None
                  /\ doiOf' = [doiOf EXCEPT ![p] = d]
                  /\ shaOf' = [shaOf EXCEPT ![p] = h]
             ELSE p = job[r].row /\ UNCHANGED <<doiOf, shaOf>>
          /\ deleted' = deleted \ {p}
          /\ Bind(job[r], p)
    BY DEF CommitStore
  <1>5. alias' = [y \in Hash |-> IF y \in S THEN p ELSE alias[y]]
    BY <1>3, <1>4 DEF Bind, OwnAliases
  <1>6. /\ \A y \in S : A[y] = d /\ y \in Hash
        /\ S = {x} \ {h} \/ S = {h} \ {h}
    BY <1>1, <1>3
  <1>7. ASSUME NEW q \in Rows PROVE q \in PdfId
    BY <1>7 DEF Rows
  <1>8. CASE job[r].row # None
    <2>1. p \in Rows /\ doiOf[p] = d /\ UNCHANGED <<doiOf, shaOf>>
      BY <1>3, <1>4, <1>8 DEF Stands
    <2> HIDE DEF d, h, x, S
    <2>2. Registry!Next
      <3>1. \A y \in S : Registry!FreeFor(y, p)
        BY <1>2, <1>6, <2>1, OwnBytesFree
      <3>2. Registry!Join(p, S)
        BY <1>4, <1>5, <2>1, <3>1 DEF Registry!Join, Registry!Article, Rows
      <3>3. S \in Registry!Sent
        BY <1>1, <1>3 DEF Registry!Sent
      <3> QED BY <3>2, <3>3 DEF Registry!Next
    <2>3. Rows' = Rows /\ RowsAgree(A)' /\ \A q \in PdfId : doiOf'[q] = None <=> shaOf'[q] = None
      BY <1>2, <2>1 DEF Rows, RowsAgree, Tables
    <2> QED BY <1>5, <1>6, <1>7, <2>1, <2>2, <2>3, CommitActs DEF d
  <1>9. CASE job[r].row = None
    <2>1. /\ \A q \in PdfId : doiOf[q] # d
          /\ shaOf[p] = None
          /\ doiOf' = [doiOf EXCEPT ![p] = d]
          /\ shaOf' = [shaOf EXCEPT ![p] = h]
      BY <1>3, <1>4, <1>9 DEF Stands
    <2> HIDE DEF d, h, x, S
    <2>2. Registry!Next
      <3>1. \A y \in S \cup {h} : Registry!FreeFor(y, p)
        BY <1>1, <1>2, <1>3, <1>6, <2>1, NewBytesFree
      <3>2. Registry!Create(p, d, h, S)
        BY <1>4, <1>5, <2>1, <3>1 DEF Registry!Create, Registry!UnusedDoi, Registry!Article
      <3>3. PICK z \in Hash : S = {z} \ {h}
        BY <1>1, <1>6
      <3>4. Registry!Create(p, d, h, {z} \ {h})
        BY <3>2, <3>3
      <3> QED BY <1>1, <1>2, <3>4 DEF Registry!Next
    <2>3. /\ Rows' = Rows \cup {p} /\ p \notin Rows /\ doiOf'[p] = d /\ shaOf'[p] = h
          /\ \A q \in PdfId : q # p => doiOf'[q] = doiOf[q] /\ shaOf'[q] = shaOf[q]
      BY <1>1, <2>1 DEF Rows
    <2>4. RowsAgree(A)' /\ \A q \in PdfId : doiOf'[q] = None <=> shaOf'[q] = None
      <3>1. \A q \in Rows : q # p /\ doiOf'[q] = doiOf[q] /\ shaOf'[q] = shaOf[q]
        BY <1>7, <2>3
      <3>2. RowsAgree(A)'
        BY <1>2, <1>3, <1>7, <2>1, <2>3, <3>1 DEF RowsAgree, Tables
      <3>3. \A q \in PdfId : doiOf'[q] = None <=> shaOf'[q] = None
        BY <1>1, <1>2, <2>3 DEF Tables
      <3> QED BY <3>2, <3>3
    <2> QED BY <1>2, <1>5, <1>6, <1>7, <2>2, <2>3, <2>4, CommitActs DEF d
  <1> QED BY <1>8, <1>9

LEMMA CommitKnownActs ==
    ASSUME NEW A, Agrees(A), IInv, Agreed(A), NEW r \in Request, CommitKnown(r)
    PROVE  Agreed(A)' /\ Refined
  <1>1. /\ \A q \in Request \ {r} : job'[q] = job[q]
        /\ UNCHANGED <<doiOf, shaOf, alias>>
    BY DEF CommitKnown, IInv, TypeOK
  <1>2. /\ job[r].pc = "commitKnown" /\ job'[r].pc = "respond"
        /\ job'[r].sha = job[r].sha
        /\ job'[r].input = job[r].input /\ job'[r].doi = job[r].doi
        /\ job'[r].replaced = job[r].replaced
    BY DEF CommitKnown, IInv, TypeOK, JobType
  <1>3. Acts(A, r) /\ job[r].row \in Rows
    BY <1>2 DEF Agreed, Acts
  <1>4. Acts(A, r)'
    BY <1>2, <1>3 DEF Acts, CommitPc, FinalPc, UnstampedPc
  <1>5. Agreed(A)'
    BY <1>1, <1>4, QuietActs
  <1>6. Refined
    <2>1. job[r].row \in PdfId /\ job[r].row \in Registry!Article
      BY <1>3 DEF Rows, Registry!Article
    <2>2. CASE job[r].restore
      <3>1. {} \in Registry!Sent
        BY DEF Registry!Sent, IInv, TypeOK, JobType
      <3>2. Registry!Join(job[r].row, {})
        BY <1>1, <2>1, <2>2 DEF Registry!Join, CommitKnown, IInv, TypeOK
      <3> QED BY <2>1, <3>1, <3>2 DEF Refined, Registry!Next
    <2>3. CASE ~job[r].restore
      BY <1>1, <2>3 DEF CommitKnown, Refined, Registry!registry
    <2> QED BY <2>2, <2>3
  <1> QED BY <1>5, <1>6

LEMMA NextActs ==
    ASSUME NEW A, Agrees(A), "correction" \notin Faults, IInv, Agreed(A), [Next]_vars
    PROVE  Agreed(A)' /\ Refined
  <1>1. ASSUME NEW r \in Request, Progress(r) \/ Cancel(r) \/ Abort(r) PROVE Agreed(A)' /\ Refined
    BY <1>1, EarlyActs, DecideActs, CommitReplaceActs, CommitAliasActs, CommitStoreActs,
       CommitKnownActs DEF Progress
  <1>2. ASSUME UNCHANGED <<doiOf, shaOf, alias, job>> PROVE Agreed(A)'
    BY <1>2 DEF Agreed, Tables, RowsAgree, Rows, Acts, Stands
  <1>3. ASSUME NEW p \in PdfId, SoftDelete(p) PROVE Agreed(A)' /\ Refined
    <2>1. Agreed(A)'
      BY <1>2, <1>3 DEF SoftDelete
    <2>2. Registry!Hide(p)
      BY <1>3 DEF SoftDelete, Registry!Hide, Registry!Article, Rows
    <2> QED BY <2>1, <2>2 DEF Refined, Registry!Next
  <1>4. ASSUME UNCHANGED vars PROVE Agreed(A)' /\ Refined
    BY <1>2, <1>4 DEF vars, Refined, Registry!registry
  <1> QED BY <1>1, <1>3, <1>4 DEF Next, Idle, CorrectDoi

LEMMA InitActs ==
    ASSUME NEW A, Agrees(A), Init
    PROVE  Agreed(A) /\ Registry!Init
  <1>1. Registry!Init
    BY DEF Init, Registry!Init
  <1>2. Tables(A)
    BY SeedAssumption, NoneAssumption DEF Init, Tables, RowsAgree, Rows, Agrees
  <1>3. ASSUME NEW r \in Request PROVE Acts(A, r)
    <2>1. PICK i \in Inputs : job[r] = Fresh(i)
      BY DEF Init
    <2> QED BY <2>1 DEF Acts, Fresh, CommitPc
  <1> QED BY <1>1, <1>2, <1>3 DEF Agreed

LEMMA AgreedInductive ==
    ASSUME NEW A, Agrees(A), "correction" \notin Faults
    PROVE  /\ Spec => []Agreed(A)
           /\ Spec => AtomicRegistry
  <1>1. Init => Agreed(A) /\ Registry!Init
    BY InitActs
  <1>2. IInv /\ Agreed(A) /\ [Next]_vars => Agreed(A)'
    BY NextActs
  <1>3. IInv /\ Agreed(A) /\ [Next]_vars => [Registry!Next]_(Registry!registry)
    BY NextActs DEF Refined
  <1>4. Spec => []Agreed(A)
    BY <1>1, <1>2, Inductive, PTL DEF Spec
  <1> QED BY <1>1, <1>3, <1>4, Inductive, PTL DEF Spec, AtomicRegistry, Registry!Spec

(* What follows of a state in which the articles are agreed.                *)
LEMMA AgreedAnswers ==
    ASSUME NEW A, IInv, Agreed(A)
    PROVE  HashOneArticle /\ CommitNeverConflicts
  <1>1. Registry!Consistent
    BY TablesConsistent DEF IInv, Agreed
  <1>2. HashOneArticle
    <2> SUFFICES ASSUME NEW h \in Hash, alias[h] # None
                 PROVE  Holder(shaOf, h) \in {None, alias[h]}
      BY DEF HashOneArticle
    <2>1. HolderFacts(shaOf, h)
      BY HolderIs
    <2> QED BY <1>1, <2>1, NoneAssumption DEF HolderFacts, Registry!Consistent, Registry!Article
  <1>3. ASSUME NEW r \in Request, job[r].pc \in CommitPc PROVE ~CommitConflict(job[r])
    <2>1. /\ Stands(A, job[r]) /\ Tables(A) /\ job[r].sha \in Hash
          /\ job[r].claims \subseteq Hash
      BY <1>3 DEF Agreed, Acts, IInv, TypeOK, JobType
    <2>2. ASSUME NEW h \in job[r].claims, alias[h] # None PROVE h \in OwnAliases(job[r])
      BY <2>1, <2>2 DEF Stands, OwnAliases
    <2>3. ASSUME job[r].replaced, Holder(shaOf, job[r].sha) # None
          PROVE  Holder(shaOf, job[r].sha) = job[r].row
      <3>1. HolderFacts(shaOf, job[r].sha)
        BY HolderIs
      <3>2. job[r].row \in Rows /\ doiOf[job[r].row] = A[job[r].sha]
        BY <2>1, <2>3 DEF Stands
      <3> QED BY <2>1, <2>3, <3>1, <3>2, NoneAssumption
              DEF HolderFacts, Tables, RowsAgree, Rows
    <2> QED BY <2>2, <2>3 DEF CommitConflict
  <1> QED BY <1>2, <1>3 DEF CommitNeverConflicts

LEMMA AgreedIs ==
    ASSUME OwnArticles
    PROVE  \E A : Agrees(A)
  BY DEF OwnArticles, Agrees

(* Uploads may be restamped: every COMMIT of process_upload is still one   *)
(* step of the registry, as long as all bytes of an article, stamped ones  *)
(* included, are taken for the same article and no DOI is corrected.       *)
THEOREM SerializableWhenStamped ==
    ASSUME OwnArticles, "correction" \notin Faults
    PROVE  Spec => AtomicRegistry
  <1>1. PICK A : Agrees(A)
    BY AgreedIs
  <1> QED BY <1>1, AgreedInductive

(* Nor does a COMMIT of theirs violate a UNIQUE constraint, or bind a hash *)
(* to two articles.                                                        *)
THEOREM NoConflictWhenStamped ==
    ASSUME OwnArticles, "correction" \notin Faults
    PROVE  Spec => [](HashOneArticle /\ CommitNeverConflicts)
  <1>1. PICK A : Agrees(A)
    BY AgreedIs
  <1>2. IInv /\ Agreed(A) => HashOneArticle /\ CommitNeverConflicts
    BY AgreedAnswers
  <1>3. Spec => []Agreed(A)
    BY <1>1, AgreedInductive
  <1> QED BY <1>2, <1>3, Inductive, PTL

(* What BoundToItsDoi says of a step.                                      *)
Answers ==
    \A r \in Request : job[r].pc \in CommitPc /\ job'[r].pc = "respond" =>
                         doiOf'[job'[r].row] = job[r].doi

LEMMA AgreedStep ==
    ASSUME NEW A, IInv, Agreed(A), [Next]_vars
    PROVE  [Answers]_vars
  <1>1. SUFFICES ASSUME Next, NEW r \in Request, job[r].pc \in CommitPc, job'[r].pc = "respond"
                 PROVE  doiOf'[job'[r].row] = job[r].doi
    BY DEF Answers
  <1>2. Stands(A, job[r])
    BY <1>1 DEF Agreed, Acts
  <1>3. CASE CommitReplace(r) \/ CommitAlias(r)
    <2>1. UNCHANGED doiOf /\ job'[r].row = job[r].row
      BY <1>3 DEF CommitReplace, CommitAlias, IInv, TypeOK, JobType
    <2>2. job[r].pc # "commitStore"
      BY <1>3 DEF CommitReplace, CommitAlias
    <2> QED BY <1>2, <2>1, <2>2 DEF Stands
  <1>4. CASE CommitStore(r)
    <2>1. PICK p \in PdfId : /\ IF job[r].row = None
                                THEN doiOf' = [doiOf EXCEPT ![p] = job[r].doi]
                                ELSE p = job[r].row /\ UNCHANGED doiOf
                             /\ job' = [job EXCEPT ![r].pc = "respond", ![r].row = p]
      BY <1>4 DEF CommitStore
    <2>2. job'[r].row = p /\ doiOf \in [PdfId -> Doi \cup {None}]
      BY <2>1 DEF IInv, TypeOK, JobType
    <2> QED BY <1>2, <2>1, <2>2 DEF Stands
  <1> QED BY <1>1, <1>3, <1>4, AnswerStep

(* A stamped upload too is answered with the article of the DOI it was     *)
(* resolved to.                                                            *)
THEOREM AnswerIsBoundWhenStamped ==
    ASSUME OwnArticles, "correction" \notin Faults
    PROVE  Spec => BoundToItsDoi
  <1>1. PICK A : Agrees(A)
    BY AgreedIs
  <1>2. IInv /\ Agreed(A) /\ [Next]_vars => [Answers]_vars
    BY AgreedStep
  <1>3. Spec => []Agreed(A)
    BY <1>1, AgreedInductive
  <1>4. Spec => [][Answers]_vars
    BY <1>2, <1>3, Inductive, PTL DEF Spec
  <1> QED BY <1>4 DEF Answers, BoundToItsDoi
-----------------------------------------------------------------------------
(* While an upload has neither copy nor row, the object it saw when it      *)
(* arrived is there; an upload that has published has not been refused.     *)
Relies(r) ==
    /\ job[r].pc \in {"lock", "lookup", "resolve", "stamp", "lockDoi", "decide"} =>
          job[r].staged \/ job[r].sha \in objects
    /\ job[r].pc = "relock" => job[r].staged
    /\ job[r].pc = "commitReplace" => job[r].replaced
    /\ job[r].pc = "commitStore" => job[r].sha \in objects
    /\ job[r].promoted => job[r].pc \in CommitPc \cup {"respond"} \cup FinalPc

Intact == StoredObject /\ \A r \in Request : Relies(r)

Unforced == \A r \in Request : ~job[r].replaced

StoreInv == Unforced => Intact

LEMMA IntactFrame ==
    ASSUME Intact, NEW r \in Request, \A q \in Request \ {r} : job'[q] = job[q],
           objects \subseteq objects', Relies(r)',
           \A p \in PdfId : shaOf'[p] = shaOf[p] \/ shaOf'[p] \in objects'
    PROVE  Intact'
  BY DEF Intact, StoredObject, Rows, Relies

(* Steps that leave objects and rows alone.                                 *)
LEMMA QuietIntact ==
    ASSUME Intact, NEW r \in Request, \A q \in Request \ {r} : job'[q] = job[q],
           UNCHANGED <<objects, shaOf>>, Relies(r)'
    PROVE  Intact'
  BY IntactFrame

LEMMA WaitingIntact ==
    ASSUME IInv, Intact, NEW r \in Request,
           \/ StorePdf(r) \/ RejectIntake(r) \/ AcquireObject(r) \/ LookupKnown(r)
           \/ LookupUnknown(r) \/ Resolve(r) \/ AcquireDoi(r) \/ CommitKnown(r)
    PROVE  Intact'
  <1>1. Relies(r) /\ job[r] \in JobType
    BY DEF Intact, IInv, TypeOK
  <1>2. /\ \A q \in Request \ {r} : job'[q] = job[q]
        /\ UNCHANGED <<objects, shaOf>>
    BY DEF StorePdf, RejectIntake, AcquireObject, LookupKnown, LookupUnknown, Resolve,
           AcquireDoi, CommitKnown, db, IInv, TypeOK
  <1>3. CASE StorePdf(r)
    BY <1>1, <1>2, <1>3, QuietIntact DEF StorePdf, Relies, CommitPc, FinalPc, IInv, TypeOK, JobType
  <1>4. CASE RejectIntake(r)
    BY <1>1, <1>2, <1>4, QuietIntact DEF RejectIntake, Relies, CommitPc, FinalPc, IInv, TypeOK, JobType
  <1>5. CASE AcquireObject(r)
    BY <1>1, <1>2, <1>5, QuietIntact DEF AcquireObject, Relies, CommitPc, FinalPc, IInv, TypeOK, JobType
  <1>6. CASE LookupKnown(r)
    BY <1>1, <1>2, <1>6, QuietIntact DEF LookupKnown, Relies, CommitPc, FinalPc, IInv, TypeOK, JobType
  <1>7. CASE LookupUnknown(r)
    BY <1>1, <1>2, <1>7, QuietIntact DEF LookupUnknown, Relies, CommitPc, FinalPc, IInv, TypeOK, JobType
  <1>8. CASE Resolve(r)
    <2>1. job[r].pc = "resolve"
      BY <1>8 DEF Resolve
    <2>2. PICK d \in Doi, ok \in BOOLEAN :
             job' = [job EXCEPT ![r].pc = "stamp", ![r].doi = d, ![r].verified = ok]
      BY <1>8 DEF Resolve
    <2>3. /\ job'[r].pc = "stamp" /\ job'[r].sha = job[r].sha
          /\ job'[r].staged = job[r].staged /\ job'[r].promoted = job[r].promoted
      BY <1>1, <2>2 DEF IInv, TypeOK, JobType
    <2>4. Relies(r)'
      BY <1>1, <1>2, <2>1, <2>3 DEF Relies, CommitPc, FinalPc
    <2> QED BY <1>2, <2>4, QuietIntact
  <1>9. CASE AcquireDoi(r)
    BY <1>1, <1>2, <1>9, QuietIntact DEF AcquireDoi, Relies, CommitPc, FinalPc, IInv, TypeOK, JobType
  <1>10. CASE CommitKnown(r)
    BY <1>1, <1>2, <1>10, QuietIntact DEF CommitKnown, Relies, CommitPc, FinalPc, IInv, TypeOK, JobType
  <1> QED BY <1>3, <1>4, <1>5, <1>6, <1>7, <1>8, <1>9, <1>10

LEMMA PromoteKnownIntact ==
    ASSUME IInv, Intact, NEW r \in Request, PromoteKnown(r)
    PROVE  Intact'
  <1>1. Relies(r) /\ job[r] \in JobType
    BY DEF Intact, IInv, TypeOK
  <1> QED BY <1>1, IntactFrame
          DEF Relies, PromoteKnown, db, IInv, TypeOK, JobType, CommitPc, FinalPc

(* Only a staged copy is stamped.                                           *)
LEMMA StampIntact ==
    ASSUME IInv, Intact, NEW r \in Request, Stamp(r)
    PROVE  Intact'
  <1>1. Relies(r) /\ job[r] \in JobType
    BY DEF Intact, IInv, TypeOK
  <1>2. /\ \A q \in Request \ {r} : job'[q] = job[q]
        /\ UNCHANGED <<objects, shaOf>>
        /\ job[r].pc = "stamp" /\ job'[r].staged = job[r].staged
        /\ job'[r].promoted = job[r].promoted
        /\ job'[r].pc \in {"lockDoi", "relock"}
        /\ ~job[r].staged => job'[r].sha = job[r].sha /\ job'[r].pc = "lockDoi"
    BY DEF Stamp, db, IInv, TypeOK, JobType
  <1>3. Relies(r)'
    BY <1>1, <1>2 DEF Relies, CommitPc, FinalPc
  <1> QED BY <1>2, <1>3, QuietIntact

LEMMA DecideIntact ==
    ASSUME IInv, Intact, NEW r \in Request, DecideStore(r) \/ DecideAlias(r)
    PROVE  Intact'
  <1>1. Relies(r) /\ job[r] \in JobType /\ job[r].pc = "decide"
    BY DEF Intact, IInv, TypeOK, DecideStore, DecideAlias
  <1>2. /\ \A q \in Request \ {r} : job'[q] = job[q]
        /\ shaOf' = shaOf /\ objects \subseteq objects'
        /\ job'[r].sha = job[r].sha
    BY DEF DecideStore, DecideAlias, Promote, db, IInv, TypeOK, JobType
  <1>3. DecideStore(r) => job'[r].pc = "commitStore" /\ job'[r].sha \in objects'
    BY <1>1, <1>2 DEF DecideStore, Promote, Relies, IInv, TypeOK, JobType
  <1>4. DecideAlias(r) => job'[r].pc = "commitAlias"
    BY DEF DecideAlias, IInv, TypeOK, JobType
  <1>5. Relies(r)'
    BY <1>3, <1>4 DEF Relies, CommitPc
  <1> QED BY <1>2, <1>5, IntactFrame

LEMMA CommitIntact ==
    ASSUME IInv, Intact, NEW r \in Request, CommitStore(r) \/ CommitAlias(r)
    PROVE  Intact'
  <1>1. Relies(r) /\ job[r] \in JobType
    BY DEF Intact, IInv, TypeOK
  <1>2. /\ \A q \in Request \ {r} : job'[q] = job[q]
        /\ objects' = objects /\ job'[r].pc = "respond"
    BY DEF CommitStore, CommitAlias, IInv, TypeOK, JobType
  <1>3. \A p \in PdfId : shaOf'[p] = shaOf[p] \/ shaOf'[p] \in objects'
    BY <1>1, <1>2 DEF CommitStore, CommitAlias, Relies, IInv, TypeOK
  <1>4. Relies(r)'
    BY <1>2 DEF Relies
  <1> QED BY <1>2, <1>3, <1>4, IntactFrame

(* Without a replacement the answer unlinks nothing.                        *)
LEMMA RespondIntact ==
    ASSUME IInv, Intact, NEW r \in Request, Respond(r), ~job[r].replaced
    PROVE  Intact'
  <1>1. /\ \A q \in Request \ {r} : job'[q] = job[q]
        /\ UNCHANGED <<objects, shaOf>> /\ job'[r].pc = "done"
    BY DEF Respond, db, IInv, TypeOK, JobType
  <1>2. Relies(r)'
    BY <1>1 DEF Relies, FinalPc
  <1> QED BY <1>1, <1>2, QuietIntact

(* An upload is refused only before it publishes: no COMMIT conflicts.      *)
LEMMA FailIntact ==
    ASSUME "dbError" \notin Faults, IInv, CommitNeverConflicts, Intact, NEW r \in Request, Fail(r)
    PROVE  Intact'
  <1>1. Relies(r) /\ job[r] \in JobType
    BY DEF Intact, IInv, TypeOK
  <1>2. ASSUME job[r].pc \in CommitPc PROVE ~CommitConflict(job[r])
    BY <1>2 DEF CommitNeverConflicts
  <1>3. job[r].pc \notin CommitPc \cup {"respond"} \cup FinalPc
    BY <1>2 DEF Fail, Raises, Refuses, Breaks, CommitPc, FinalPc
  <1>4. ~job[r].promoted
    BY <1>1, <1>3 DEF Relies
  <1>5. /\ \A q \in Request \ {r} : job'[q] = job[q]
        /\ UNCHANGED <<objects, shaOf>> /\ job'[r].pc = "failed"
    BY <1>4 DEF Fail, db, IInv, TypeOK, JobType
  <1>6. Relies(r)'
    BY <1>5 DEF Relies, FinalPc
  <1> QED BY <1>5, <1>6, QuietIntact

LEMMA LeaveIntact ==
    ASSUME IInv, Intact, NEW r \in Request, Cancel(r) \/ Abort(r)
    PROVE  Intact'
  <1>1. /\ \A q \in Request \ {r} : job'[q] = job[q]
        /\ UNCHANGED <<objects, shaOf>> /\ job'[r].pc \in {"cancelled", "aborted"}
    BY DEF Cancel, Abort, Leave, db, IInv, TypeOK, JobType
  <1>2. Relies(r)'
    BY <1>1 DEF Relies, FinalPc
  <1> QED BY <1>1, <1>2, QuietIntact

(* Once taken, the branch of a forced replacement stays on record.          *)
LEMMA StaysForced ==
    ASSUME IInv, NEW r \in Request, Progress(r) \/ Cancel(r) \/ Abort(r),
           NEW q \in Request, job[q].replaced
    PROVE  job'[q].replaced
  <1>1. CASE StorePdf(r) BY <1>1 DEF StorePdf, IInv, TypeOK, JobType
  <1>2. CASE RejectIntake(r) BY <1>2 DEF RejectIntake, IInv, TypeOK, JobType
  <1>3. CASE AcquireObject(r) BY <1>3 DEF AcquireObject, IInv, TypeOK, JobType
  <1>4. CASE LookupKnown(r) BY <1>4 DEF LookupKnown, IInv, TypeOK, JobType
  <1>5. CASE LookupUnknown(r) BY <1>5 DEF LookupUnknown, IInv, TypeOK, JobType
  <1>6. CASE PromoteKnown(r) BY <1>6 DEF PromoteKnown, IInv, TypeOK, JobType
  <1>7. CASE CommitKnown(r) BY <1>7 DEF CommitKnown, IInv, TypeOK, JobType
  <1>8. CASE Resolve(r) BY <1>8 DEF Resolve, IInv, TypeOK, JobType
  <1>9. CASE Stamp(r) BY <1>9 DEF Stamp, IInv, TypeOK, JobType
  <1>10. CASE AcquireDoi(r) BY <1>10 DEF AcquireDoi, IInv, TypeOK, JobType
  <1>11. CASE DecideReplace(r) BY <1>11 DEF DecideReplace, IInv, TypeOK, JobType
  <1>12. CASE DecideAlias(r) BY <1>12 DEF DecideAlias, IInv, TypeOK, JobType
  <1>13. CASE DecideStore(r) BY <1>13 DEF DecideStore, IInv, TypeOK, JobType
  <1>14. CASE CommitReplace(r) BY <1>14 DEF CommitReplace, IInv, TypeOK, JobType
  <1>15. CASE CommitAlias(r) BY <1>15 DEF CommitAlias, IInv, TypeOK, JobType
  <1>16. CASE CommitStore(r) BY <1>16 DEF CommitStore, IInv, TypeOK, JobType
  <1>17. CASE Respond(r) BY <1>17 DEF Respond, IInv, TypeOK, JobType
  <1>18. CASE Fail(r) BY <1>18 DEF Fail, IInv, TypeOK, JobType
  <1>19. CASE Cancel(r) \/ Abort(r) BY <1>19 DEF Cancel, Abort, Leave, IInv, TypeOK, JobType
  <1> QED BY <1>1, <1>2, <1>3, <1>4, <1>5, <1>6, <1>7, <1>8, <1>9, <1>10, <1>11, <1>12, <1>13, <1>14, <1>15, <1>16, <1>17, <1>18, <1>19 DEF Progress

LEMMA StoreKeeps ==
    ASSUME "dbError" \notin Faults, IInv, CommitNeverConflicts, StoreInv, [Next]_vars
    PROVE  StoreInv'
  <1> SUFFICES ASSUME Unforced' PROVE Intact'
    BY DEF StoreInv
  <1>1. CASE \E r \in Request : Progress(r) \/ Cancel(r) \/ Abort(r)
    <2> PICK r \in Request : Progress(r) \/ Cancel(r) \/ Abort(r) BY <1>1
    <2>1. Unforced
      BY StaysForced DEF Unforced
    <2>2. Intact /\ ~job[r].replaced /\ ~job'[r].replaced
      BY <2>1 DEF StoreInv, Unforced
    <2>3. ~DecideReplace(r)
      BY <2>2 DEF DecideReplace, IInv, TypeOK, JobType
    <2>4. ~CommitReplace(r)
      BY <2>2 DEF CommitReplace, Intact, Relies
    <2> QED
      BY <2>2, <2>3, <2>4, WaitingIntact, PromoteKnownIntact, StampIntact, DecideIntact,
         CommitIntact, RespondIntact, FailIntact, LeaveIntact DEF Progress
  <1>2. CASE UNCHANGED <<shaOf, objects, job>>
    BY <1>2 DEF StoreInv, Unforced, Intact, StoredObject, Rows, Relies
  <1> QED BY <1>1, <1>2 DEF Next, SoftDelete, CorrectDoi, Idle, vars

LEMMA StoreInductive ==
    ASSUME "dbError" \notin Faults
    PROVE  Spec /\ []CommitNeverConflicts => []StoredUnlessForced
  <1>1. Init => StoreInv
    <2> SUFFICES ASSUME Init PROVE Intact
      BY DEF StoreInv
    <2>1. StoredObject
      BY NoneAssumption, SeedAssumption DEF Init, StoredObject, Rows
    <2>2. ASSUME NEW r \in Request PROVE Relies(r)
      BY DEF Init, Fresh, Relies
    <2> QED BY <2>1, <2>2 DEF Intact
  <1>2. IInv /\ CommitNeverConflicts /\ StoreInv /\ [Next]_vars => StoreInv'
    BY StoreKeeps
  <1>3. StoreInv => StoredUnlessForced
    BY DEF StoreInv, Intact, Unforced, StoredUnlessForced
  <1> QED BY <1>1, <1>2, <1>3, Inductive, PTL DEF Spec

(* What verify-storage.sh looks for, for every number of uploads: without a *)
(* forced replacement, a restamped file or a database error no row loses    *)
(* its object, although store_pdf drops the private copy of an upload       *)
(* before it holds a lock.                                                  *)
THEOREM ObjectsStay ==
    ASSUME Unstamped, "dbError" \notin Faults
    PROVE  Spec => []StoredUnlessForced
  BY NoCommitConflict, StoreInductive, PTL

(* Files may be restamped when whose article bytes are is agreed and no DOI *)
(* is corrected: nobody then publishes bytes and has to take them back.     *)
THEOREM ObjectsStayWhenStamped ==
    ASSUME OwnArticles, "dbError" \notin Faults, "correction" \notin Faults
    PROVE  Spec => []StoredUnlessForced
  <1>1. Spec => []CommitNeverConflicts
    <2>1. HashOneArticle /\ CommitNeverConflicts => CommitNeverConflicts
      OBVIOUS
    <2> QED BY <2>1, NoConflictWhenStamped, PTL
  <1> QED BY <1>1, StoreInductive, PTL
-----------------------------------------------------------------------------
(* Compression workers beside the uploads.                                 *)
(* A row that is being compressed keeps the DOI it was fetched with, unless *)
(* an administrator corrects it.                                           *)
SameDoi == \A w \in Worker : work[w] # Idling => doiOf[work[w].row] = work[w].doi

(* A row has both of its NOT NULL columns, and a worker has read them.     *)
WholeRows ==
    /\ \A p \in Rows : doiOf[p] \in Doi
    /\ \A r \in Request :
          job[r].pc = "commitReplace" => job[r].row \in PdfId /\ doiOf[job[r].row] \in Doi

Columns == \A w \in Worker : work[w] # Idling => work[w].sha \in Hash /\ work[w].doi \in Doi

CInv ==
    /\ IInv
    /\ WorkInv
    /\ "correction" \notin Faults => SameDoi
    /\ WholeRows
    /\ Columns

(* Three steps write the columns of a row.                                 *)
LEMMA RowWriters ==
    ASSUME [Next]_vars,
           \A r \in Request : ~CommitReplace(r) /\ ~CommitStore(r),
           \A q \in PdfId, d \in Doi : ~CorrectDoi(q, d)
    PROVE  UNCHANGED <<shaOf, doiOf>>
  <1>1. ASSUME NEW r \in Request, Progress(r) PROVE UNCHANGED <<shaOf, doiOf>>
    BY <1>1 DEF Progress, db, StorePdf, RejectIntake, AcquireObject, LookupKnown, LookupUnknown,
         PromoteKnown, CommitKnown, Resolve, Stamp, AcquireDoi, DecideReplace, DecideAlias,
         DecideStore, CommitAlias, Respond, Fail
  <1>2. ASSUME NEW r \in Request, Cancel(r) \/ Abort(r) PROVE UNCHANGED <<shaOf, doiOf>>
    BY <1>2 DEF Cancel, Abort, Leave, db
  <1>3. ASSUME NEW q \in PdfId, SoftDelete(q) PROVE UNCHANGED <<shaOf, doiOf>>
    BY <1>3 DEF SoftDelete
  <1>4. ASSUME UNCHANGED vars PROVE UNCHANGED <<shaOf, doiOf>>
    BY <1>4 DEF vars
  <1> QED BY <1>1, <1>2, <1>3, <1>4 DEF Next, Idle

(* What an upload or an administrator does to the rows: none disappears,   *)
(* the DOI of one changes only by a correction, its object only together   *)
(* with the state of a request.                                            *)
LEMMA RowsStay ==
    ASSUME IInv, [Next]_vars, NEW p \in Rows
    PROVE  /\ shaOf'[p] # None
           /\ "correction" \notin Faults => doiOf'[p] = doiOf[p]
           /\ job' = job => shaOf'[p] = shaOf[p]
  <1> p \in PdfId /\ shaOf[p] # None
    BY DEF Rows
  <1> DEFINE Goal == /\ shaOf'[p] # None
                     /\ "correction" \notin Faults => doiOf'[p] = doiOf[p]
                     /\ job' = job => shaOf'[p] = shaOf[p]
  <1>1. ASSUME NEW r \in Request, CommitReplace(r) PROVE Goal
    <2>1. job[r] \in JobType /\ shaOf \in [PdfId -> Hash \cup {None}] /\ job \in [Request -> JobType]
      BY DEF IInv, TypeOK
    <2>2. job[r].sha \in Hash /\ None \notin Hash
      BY <2>1, NoneAssumption DEF JobType
    <2>3. job' # job
      BY <1>1, <2>1 DEF CommitReplace, JobType
    <2>4. shaOf' = [shaOf EXCEPT ![job[r].row] = job[r].sha] /\ doiOf' = doiOf
      BY <1>1 DEF CommitReplace
    <2> QED BY <2>1, <2>2, <2>3, <2>4
  <1>2. ASSUME NEW r \in Request, CommitStore(r) PROVE Goal
    <2>1. job[r] \in JobType /\ shaOf \in [PdfId -> Hash \cup {None}] /\ job \in [Request -> JobType]
      BY DEF IInv, TypeOK
    <2>2. PICK q \in PdfId :
            /\ IF job[r].row = None
               THEN /\ shaOf[q] = None
                    /\ doiOf' = [doiOf EXCEPT ![q] = job[r].doi]
                    /\ shaOf' = [shaOf EXCEPT ![q] = job[r].sha]
               ELSE UNCHANGED <<doiOf, shaOf>>
      BY <1>2 DEF CommitStore
    <2>3. doiOf \in [PdfId -> Doi \cup {None}]
      BY DEF IInv, TypeOK
    <2> QED BY <2>1, <2>2, <2>3
  <1>3. ASSUME NEW q \in PdfId, NEW d \in Doi, CorrectDoi(q, d) PROVE Goal
    BY <1>3 DEF CorrectDoi
  <1>4. ASSUME UNCHANGED <<shaOf, doiOf>> PROVE Goal
    BY <1>4
  <1> HIDE DEF Goal
  <1>9. Goal
    BY <1>1, <1>2, <1>3, <1>4, RowWriters
  <1> QED BY <1>9 DEF Goal

(* A request comes to a replacement only by deciding for it.               *)
LEMMA ReplacePhase ==
    ASSUME IInv, [Next]_vars, NEW r \in Request, job'[r].pc = "commitReplace"
    PROVE  \/ DecideReplace(r)
           \/ job[r].pc = "commitReplace" /\ job'[r].row = job[r].row
  <1> DEFINE Goal == \/ DecideReplace(r)
                     \/ job[r].pc = "commitReplace" /\ job'[r].row = job[r].row
  <1>1. job \in [Request -> JobType] /\ job[r] \in JobType
    BY DEF IInv, TypeOK
  <1>2. ASSUME NEW q \in Request, q # r, Progress(q) \/ Cancel(q) \/ Abort(q) PROVE job'[r] = job[r]
    BY <1>1, <1>2 DEF Progress, StorePdf, RejectIntake, AcquireObject, LookupKnown,
         LookupUnknown, PromoteKnown, CommitKnown, Resolve, Stamp, AcquireDoi, DecideReplace,
         DecideAlias, DecideStore, CommitReplace, CommitAlias, CommitStore, Respond, Fail, Cancel, Abort, Leave
  <1>3. ASSUME StorePdf(r) \/ RejectIntake(r) \/ AcquireObject(r) PROVE FALSE
    BY <1>1, <1>3 DEF JobType, StorePdf, RejectIntake, AcquireObject
  <1>4. ~LookupKnown(r)
    <2> SUFFICES ASSUME LookupKnown(r) PROVE FALSE
      OBVIOUS
    <2>1. \E p, o, b : job' = [job EXCEPT ![r].pc = "promoteKnown", ![r].row = p,
                                        ![r].old = o, ![r].restore = b]
      BY DEF LookupKnown
    <2> QED BY <1>1, <2>1 DEF JobType
  <1>5. ~LookupUnknown(r) /\ ~PromoteKnown(r) /\ ~CommitKnown(r) /\ ~Resolve(r)
    <2>1. ~LookupUnknown(r)
      BY <1>1 DEF JobType, LookupUnknown
    <2>2. ~PromoteKnown(r)
      BY <1>1 DEF JobType, PromoteKnown
    <2>3. ~CommitKnown(r)
      BY <1>1 DEF JobType, CommitKnown
    <2>4. ~Resolve(r)
      <3> SUFFICES ASSUME Resolve(r) PROVE FALSE
        OBVIOUS
      <3>1. PICK d \in Doi, ok \in BOOLEAN :
              job' = [job EXCEPT ![r].pc = "stamp", ![r].doi = d, ![r].verified = ok]
        BY DEF Resolve
      <3> QED BY <1>1, <3>1 DEF JobType
    <2> QED BY <2>1, <2>2, <2>3, <2>4
  <1>6. ~(Stamp(r) \/ AcquireDoi(r))
    BY <1>1 DEF JobType, Stamp, AcquireDoi
  <1>7. /\ DecideAlias(r) => job'[r].pc = "commitAlias"
        /\ DecideStore(r) => job'[r].pc = "commitStore"
    BY <1>1 DEF JobType, DecideAlias, DecideStore
  <1>8. ~(CommitReplace(r) \/ CommitAlias(r) \/ CommitStore(r))
    BY <1>1 DEF JobType, CommitReplace, CommitAlias, CommitStore
  <1>9. ~(Respond(r) \/ Fail(r) \/ Cancel(r) \/ Abort(r))
    BY <1>1 DEF JobType, Respond, Fail, Cancel, Abort, Leave
  <1>10. ASSUME job' = job PROVE Goal
    BY <1>10
  <1>11. ASSUME NEW q \in Request, Progress(q) \/ Cancel(q) \/ Abort(q) PROVE Goal
    <2>1. CASE q # r
      BY <1>2, <1>11, <2>1
    <2>2. CASE q = r
      BY <1>3, <1>4, <1>5, <1>6, <1>7, <1>8, <1>9, <1>11, <2>2 DEF Progress
    <2> QED BY <2>1, <2>2
  <1> HIDE DEF Goal
  <1>12. Goal
    BY <1>10, <1>11 DEF Next, Idle, vars, SoftDelete, CorrectDoi
  <1> QED BY <1>12 DEF Goal

(* Neither an INSERT nor a replacement leaves a row without a DOI.         *)
LEMMA WholeRowsStay ==
    ASSUME IInv, WholeRows, [Next]_vars
    PROVE  WholeRows'
  <1>0. doiOf \in [PdfId -> Doi \cup {None}] /\ shaOf \in [PdfId -> Hash \cup {None}]
    BY DEF IInv, TypeOK
  <1>1. ASSUME NEW p \in PdfId, doiOf[p] \in Doi PROVE doiOf'[p] \in Doi
    <2>1. ASSUME NEW r \in Request, CommitStore(r) PROVE doiOf'[p] \in Doi
      <3>1. job[r].doi \in Doi
        BY <2>1 DEF CommitStore, IInv, HoldInv, Holds, DoiPc, CommitPc
      <3>2. \/ doiOf' = doiOf
            \/ \E q \in PdfId : doiOf' = [doiOf EXCEPT ![q] = job[r].doi]
        BY <2>1 DEF CommitStore
      <3> QED BY <1>0, <1>1, <3>1, <3>2
    <2>2. ASSUME NEW q \in PdfId, NEW d \in Doi, CorrectDoi(q, d) PROVE doiOf'[p] \in Doi
      BY <1>0, <1>1, <2>2 DEF CorrectDoi
    <2>3. ASSUME NEW r \in Request, CommitReplace(r) PROVE doiOf' = doiOf
      BY <2>3 DEF CommitReplace
    <2> QED BY <1>1, <2>1, <2>2, <2>3, RowWriters
  <1>2. ASSUME NEW r \in Request, job'[r].pc = "commitReplace"
        PROVE  job'[r].row \in PdfId /\ doiOf'[job'[r].row] \in Doi
    <2>1. CASE DecideReplace(r)
      <3>1. ByDoi(job[r]) # None /\ doiOf' = doiOf
        BY <2>1 DEF DecideReplace, Replaces, db
      <3>2. doiOf[ByDoi(job[r])] = job[r].doi
        BY <3>1 DEF ByDoi, Holder
      <3>3. job[r].doi \in Doi
        BY <2>1 DEF DecideReplace, IInv, HoldInv, Holds, DoiPc
      <3>4. job'[r].row = ByDoi(job[r])
        BY <2>1 DEF DecideReplace, IInv, TypeOK, JobType
      <3> QED BY <3>1, <3>2, <3>3, <3>4, HolderType DEF ByDoi
    <2>2. CASE job[r].pc = "commitReplace" /\ job'[r].row = job[r].row
      <3>1. doiOf[job[r].row] \in Doi /\ job[r].row \in PdfId
        <4>1. doiOf[job[r].row] \in Doi
          BY <2>2 DEF WholeRows
        <4>2. job[r].row \in PdfId
          BY <2>2 DEF WholeRows
        <4> QED BY <4>1, <4>2
      <3> QED BY <1>1, <2>2, <3>1
    <2> QED BY <1>2, <2>1, <2>2, ReplacePhase
  <1>3. ASSUME NEW p \in PdfId, shaOf'[p] # None PROVE doiOf'[p] \in Doi
    <2>1. CASE p \in Rows
      BY <1>1, <2>1 DEF WholeRows
    <2>2. CASE shaOf[p] = None
      <3>1. ASSUME NEW r \in Request, CommitReplace(r) PROVE doiOf'[p] \in Doi
        <4>1. /\ job[r].pc = "commitReplace" /\ doiOf' = doiOf
              /\ shaOf' = [shaOf EXCEPT ![job[r].row] = job[r].sha]
          BY <3>1 DEF CommitReplace
        <4>2. p = job[r].row
          BY <1>0, <1>3, <2>2, <4>1
        <4> QED BY <4>1, <4>2 DEF WholeRows
      <3>2. ASSUME NEW r \in Request, CommitStore(r) PROVE doiOf'[p] \in Doi
        <4>1. PICK q \in PdfId :
                \/ UNCHANGED <<doiOf, shaOf>>
                \/ /\ doiOf' = [doiOf EXCEPT ![q] = job[r].doi]
                   /\ shaOf' = [shaOf EXCEPT ![q] = job[r].sha]
          BY <3>2 DEF CommitStore
        <4>2. job[r].doi \in Doi
          BY <3>2 DEF CommitStore, IInv, HoldInv, Holds, DoiPc, CommitPc
        <4> QED BY <1>0, <1>3, <2>2, <4>1, <4>2
      <3>3. ASSUME NEW q \in PdfId, NEW d \in Doi, CorrectDoi(q, d) PROVE shaOf' = shaOf
        BY <3>3 DEF CorrectDoi
      <3> QED BY <1>3, <2>2, <3>1, <3>2, <3>3, RowWriters
    <2> QED BY <2>1, <2>2 DEF Rows
  <1> QED BY <1>2, <1>3 DEF WholeRows, Rows

LEMMA CompressorInitHolds == CompressorInit => CInv
  <1> SUFFICES ASSUME CompressorInit PROVE CInv
    OBVIOUS
  <1>1. IInv
    BY InitHolds DEF CompressorInit
  <1>2. work = [w \in Worker |-> Idling] /\ Idling \in WorkType /\ Idling.pc = "idle"
    BY DEF CompressorInit, Idling, WorkType
  <1>3. WorkInv /\ SameDoi /\ Columns
    BY <1>2 DEF WorkInv, SameDoi, Columns
  <1>4. \A p \in Rows : doiOf[p] \in Doi
    BY SeedAssumption DEF CompressorInit, Init, Rows
  <1>5. \A r \in Request : job[r].pc = "store"
    BY DEF CompressorInit, Init, Fresh
  <1> QED BY <1>1, <1>3, <1>4, <1>5 DEF CInv, WholeRows

LEMMA LibraryStepKeeps ==
    ASSUME CInv, LibraryStep
    PROVE  CInv'
  <1>1. IInv'
    BY NextKeeps DEF CInv, LibraryStep
  <1>2. work' = work
    BY DEF LibraryStep
  <1>3. ASSUME NEW w \in Worker, work[w] # Idling
        PROVE  /\ work[w].row \in Rows /\ work[w].row \in Rows'
               /\ "correction" \notin Faults => doiOf'[work[w].row] = doiOf[work[w].row]
    <2>1. work[w].row \in Rows
      BY <1>3 DEF CInv, WorkInv
    <2> QED BY <2>1, RowsStay DEF CInv, LibraryStep, Rows
  <1>4. ASSUME NEW w \in Worker, work[w].pc = "linked"
        PROVE  /\ shaOf'[work[w].row] = work[w].sha
               /\ work[w].row \notin deleted'
               /\ ~RowBusy(work[w].row, None)'
    <2>1. work[w].row \in PdfId /\ RowLocked(work[w].row)
      BY <1>3, <1>4 DEF RowLocked, Rows, Idling
    <2>2. shaOf[work[w].row] = work[w].sha /\ work[w].row \notin deleted
      BY <1>4 DEF CInv, WorkInv
    <2> QED BY <2>1, <2>2 DEF LibraryStep
  <1>5. WorkInv'
    BY <1>2, <1>3, <1>4 DEF CInv, WorkInv
  <1>6. "correction" \notin Faults => SameDoi'
    BY <1>2, <1>3 DEF CInv, SameDoi
  <1>7. WholeRows'
    BY WholeRowsStay DEF CInv, LibraryStep
  <1>8. Columns'
    BY <1>2 DEF CInv, Columns
  <1> QED BY <1>1, <1>5, <1>6, <1>7, <1>8 DEF CInv

(* A step of a worker may change the objects, and the hash of its own row.  *)
LEMMA WorkerStep ==
    ASSUME CInv, NEW w \in Worker, NEW new \in WorkType, work' = [work EXCEPT ![w] = new],
           DataType', UNCHANGED <<doiOf, deleted, locks, job>>,
           new # Idling => new.row \in Rows /\ new.sha \in Hash /\ new.doi \in Doi,
           new # Idling /\ "correction" \notin Faults => doiOf[new.row] = new.doi,
           \A v \in Worker \ {w} : work[v] # Idling => work[v].row # new.row,
           \A p \in PdfId : \/ shaOf'[p] = shaOf[p]
                            \/ p = new.row /\ p \in Rows /\ shaOf'[p] # None,
           new.pc = "linked" => /\ shaOf'[new.row] = new.sha
                                /\ new.row \notin deleted
                                /\ ~RowBusy(new.row, None)
    PROVE  CInv'
  <1>1. IInv'
    BY OtherStep DEF CInv
  <1>2. work \in [Worker -> WorkType] /\ work' \in [Worker -> WorkType]
    BY DEF CInv, WorkInv
  <1>3. /\ work'[w] = new
        /\ \A v \in Worker \ {w} : work'[v] = work[v]
    BY <1>2
  <1>4. \A v \in Worker : work[v] # Idling => work[v].row \in Rows
    BY DEF CInv, WorkInv
  <1>5. \A p \in Rows : p \in Rows' /\ p \in PdfId /\ p # None
    BY NoneAssumption DEF Rows
  <1>6. ASSUME NEW v \in Worker, work'[v] # Idling PROVE work'[v].row \in Rows'
    BY <1>3, <1>4, <1>5, <1>6
  <1>7. ASSUME NEW u \in Worker, NEW v \in Worker, u # v, work'[u].row = work'[v].row,
               work'[u] # Idling
        PROVE  FALSE
    <2>1. work'[v] # Idling
      <3>1. work'[u].row # None
        BY <1>3, <1>4, <1>5, <1>7
      <3> QED BY <3>1, <1>7 DEF Idling
    <2>2. CASE u = w
      BY <2>1, <2>2, <1>3, <1>7
    <2>3. CASE v = w
      BY <2>1, <2>3, <1>3, <1>7
    <2>4. CASE u # w /\ v # w
      BY <2>1, <2>4, <1>3, <1>7 DEF CInv, WorkInv
    <2> QED BY <2>2, <2>3, <2>4
  <1>8. \A p : RowBusy(p, None)' <=> RowBusy(p, None)
    BY DEF RowBusy
  <1>9. ASSUME NEW v \in Worker, work'[v].pc = "linked"
        PROVE  /\ shaOf'[work'[v].row] = work'[v].sha
               /\ work'[v].row \notin deleted'
               /\ ~RowBusy(work'[v].row, None)
    <2>1. CASE v = w
      BY <1>3, <1>9, <2>1
    <2>2. CASE v # w
      <3>1. work[v] # Idling /\ work'[v] = work[v]
        BY <1>3, <1>9, <2>2 DEF Idling
      <3>2. work[v].row # new.row /\ work[v].row \in PdfId
        BY <3>1, <2>2, <1>4, <1>5
      <3>3. /\ shaOf[work[v].row] = work[v].sha
            /\ work[v].row \notin deleted
            /\ ~RowBusy(work[v].row, None)
        BY <3>1, <1>9 DEF CInv, WorkInv
      <3> QED BY <3>1, <3>2, <3>3
    <2> QED BY <2>1, <2>2
  <1>10. WorkInv'
    BY <1>2, <1>6, <1>7, <1>8, <1>9 DEF WorkInv
  <1>11. "correction" \notin Faults => SameDoi'
    BY <1>3 DEF CInv, SameDoi
  <1>12. WholeRows'
    BY DEF CInv, WholeRows, Rows
  <1>13. Columns'
    BY <1>3 DEF CInv, Columns
  <1> QED BY <1>1, <1>10, <1>11, <1>12, <1>13 DEF CInv

(* What a worker that is not idle has in its state.                        *)
LEMMA Working ==
    ASSUME CInv, NEW w \in Worker, work[w].pc # "idle"
    PROVE  /\ work \in [Worker -> WorkType] /\ work[w] \in WorkType /\ work[w] # Idling
           /\ work[w].row \in Rows /\ work[w].row \in PdfId
           /\ work[w].sha \in Hash /\ work[w].doi \in Doi /\ NewSha(w) \in Hash
           /\ "correction" \notin Faults => doiOf[work[w].row] = work[w].doi
           /\ \A v \in Worker \ {w} : work[v] # Idling => work[v].row # work[w].row
  <1>1. work[w] # Idling
    BY DEF Idling
  <1>2. work[w].sha \in Hash /\ work[w].doi \in Doi
    BY <1>1 DEF CInv, Columns
  <1>3. NewSha(w) \in Hash
    BY <1>2, OptimizedAssumption DEF NewSha
  <1> QED BY <1>1, <1>2, <1>3 DEF CInv, WorkInv, SameDoi, Rows

(* A worker goes on with its row, to the next phase.                       *)
LEMMA NextPhase ==
    ASSUME CInv, NEW w \in Worker, NEW pc \in {"optimized", "linked", "committed"},
           work[w].pc # "idle", work' = [work EXCEPT ![w].pc = pc],
           DataType', UNCHANGED <<doiOf, deleted, locks, job>>,
           \A p \in PdfId : shaOf'[p] = shaOf[p] \/ (p = work[w].row /\ shaOf'[p] # None),
           pc = "linked" => /\ shaOf'[work[w].row] = work[w].sha
                            /\ work[w].row \notin deleted
                            /\ ~RowBusy(work[w].row, None)
    PROVE  CInv'
  <1> DEFINE new == [work[w] EXCEPT !.pc = pc]
  <1>1. /\ new \in WorkType /\ new # Idling /\ new.pc = pc
        /\ new.row = work[w].row /\ new.doi = work[w].doi /\ new.sha = work[w].sha
    BY Working DEF WorkType, Idling
  <1>2. work' = [work EXCEPT ![w] = new]
    OBVIOUS
  <1> HIDE DEF new
  <1>3. new.row \in Rows /\ new.sha \in Hash /\ new.doi \in Doi
    BY <1>1, Working
  <1>4. "correction" \notin Faults => doiOf[new.row] = new.doi
    BY <1>1, Working
  <1>5. \A v \in Worker \ {w} : work[v] # Idling => work[v].row # new.row
    BY <1>1, Working
  <1>6. \A p \in PdfId : shaOf'[p] = shaOf[p] \/ (p = new.row /\ p \in Rows /\ shaOf'[p] # None)
    BY <1>1, <1>3
  <1>7. new.pc = "linked" => /\ shaOf'[new.row] = new.sha
                             /\ new.row \notin deleted
                             /\ ~RowBusy(new.row, None)
    BY <1>1
  <1> QED BY <1>1, <1>2, <1>3, <1>4, <1>5, <1>6, <1>7, WorkerStep

LEMMA FetchKeeps ==
    ASSUME CInv, NEW w \in Worker, NEW p \in PdfId, Fetch(w, p)
    PROVE  CInv'
  <1> DEFINE new == [pc |-> "fetched", row |-> p, sha |-> shaOf[p], doi |-> doiOf[p]]
  <1>1. p \in Rows /\ shaOf[p] \in Hash /\ doiOf[p] \in Doi
    BY DEF Fetch, CInv, WholeRows, Rows, IInv, TypeOK
  <1>2. /\ new \in WorkType /\ new # Idling
        /\ new.row = p /\ new.pc = "fetched" /\ new.doi = doiOf[p] /\ new.sha = shaOf[p]
    BY <1>1 DEF WorkType, Idling
  <1>3. work' = [work EXCEPT ![w] = new] /\ UNCHANGED vars
    BY DEF Fetch
  <1> HIDE DEF new
  <1>4. DataType' /\ UNCHANGED <<doiOf, shaOf, deleted, locks, job>>
    BY <1>3 DEF vars, locks, CInv, IInv, TypeOK, DataType
  <1>5. \A v \in Worker \ {w} : work[v] # Idling => work[v].row # new.row
    BY <1>2 DEF Fetch
  <1> QED BY <1>1, <1>2, <1>3, <1>4, <1>5, WorkerStep

LEMMA OptimizeKeeps ==
    ASSUME CInv, NEW w \in Worker, Optimize(w)
    PROVE  CInv'
  <1>1. work[w].pc # "idle" /\ work' = [work EXCEPT ![w].pc = "optimized"] /\ UNCHANGED vars
    BY DEF Optimize
  <1>2. DataType' /\ UNCHANGED <<doiOf, shaOf, deleted, locks, job>>
    BY <1>1 DEF vars, locks, CInv, IInv, TypeOK, DataType
  <1> QED BY <1>1, <1>2, NextPhase

LEMMA PublishKeeps ==
    ASSUME CInv, NEW w \in Worker, Publish(w)
    PROVE  CInv'
  <1>1. work[w].pc # "idle" /\ work' = [work EXCEPT ![w].pc = "linked"]
    BY DEF Publish
  <1>2. UNCHANGED <<doiOf, shaOf, deleted, locks, job>>
    BY DEF Publish, db
  <1>3. DataType'
    BY <1>1, Working DEF Publish, db, CInv, IInv, TypeOK, DataType
  <1>4. /\ shaOf[work[w].row] = work[w].sha /\ work[w].row \notin deleted
        /\ ~RowBusy(work[w].row, None)
    BY DEF Publish, RowUnchanged
  <1> QED BY <1>1, <1>2, <1>3, <1>4, NextPhase

LEMMA CommitKeeps ==
    ASSUME CInv, NEW w \in Worker, Commit(w)
    PROVE  CInv'
  <1>1. work[w].pc # "idle" /\ work' = [work EXCEPT ![w].pc = "committed"]
    BY DEF Commit
  <1>2. UNCHANGED <<doiOf, deleted, locks, job>>
    BY DEF Commit
  <1>3. /\ shaOf \in [PdfId -> Hash \cup {None}] /\ NewSha(w) \in Hash
        /\ shaOf' = [shaOf EXCEPT ![work[w].row] = NewSha(w)]
    BY <1>1, Working DEF Commit, CInv, IInv, TypeOK
  <1>4. \A p \in PdfId : shaOf'[p] = shaOf[p] \/ (p = work[w].row /\ shaOf'[p] # None)
    BY <1>3, NoneAssumption
  <1>5. alias' \in [Hash -> PdfId \cup {None}]
    BY DEF Commit, CInv, IInv, TypeOK
  <1>6. DataType'
    BY <1>2, <1>3, <1>5 DEF Commit, CInv, IInv, TypeOK, DataType
  <1> QED BY <1>1, <1>2, <1>4, <1>6, NextPhase

LEMMA IdleAgainKeeps ==
    ASSUME CInv, NEW w \in Worker, UnlinkSource(w) \/ GiveUp(w)
    PROVE  CInv'
  <1>1. Idling \in WorkType /\ Idling.pc = "idle" /\ Idling.row = None
    BY DEF Idling, WorkType
  <1>2. work' = [work EXCEPT ![w] = Idling]
    BY DEF UnlinkSource, GiveUp
  <1>3. UNCHANGED <<doiOf, shaOf, deleted, alias, locks, job>>
    BY DEF UnlinkSource, GiveUp, vars, db, locks
  <1>4. DataType'
    BY <1>3 DEF UnlinkSource, GiveUp, vars, CInv, IInv, TypeOK, DataType
  <1>5. \A v \in Worker : work[v] # Idling => work[v].row # None
    BY NoneAssumption DEF CInv, WorkInv, Rows
  <1> QED BY <1>1, <1>2, <1>3, <1>4, <1>5, WorkerStep

LEMMA CompressorStepKeeps == CInv /\ [CompressorNext]_compressorVars => CInv'
  <1> SUFFICES ASSUME CInv, [CompressorNext]_compressorVars PROVE CInv'
    OBVIOUS
  <1>1. CASE LibraryStep
    BY <1>1, LibraryStepKeeps
  <1>2. ASSUME NEW w \in Worker, CompressStep(w) PROVE CInv'
    <2>1. CASE \E p \in PdfId : Fetch(w, p)
      BY <2>1, FetchKeeps
    <2>2. CASE Optimize(w)
      BY <2>2, OptimizeKeeps
    <2>3. CASE Publish(w)
      BY <2>3, PublishKeeps
    <2>4. CASE Commit(w)
      BY <2>4, CommitKeeps
    <2>5. CASE UnlinkSource(w) \/ GiveUp(w)
      BY <2>5, IdleAgainKeeps
    <2> QED BY <1>2, <2>1, <2>2, <2>3, <2>4, <2>5 DEF CompressStep
  <1>3. CASE UNCHANGED compressorVars
    <2>1. UNCHANGED vars /\ work' = work
      BY <1>3 DEF compressorVars
    <2>2. IInv'
      BY <2>1, NextKeeps DEF CInv
    <2>3. WorkInv' /\ ("correction" \notin Faults => SameDoi') /\ WholeRows' /\ Columns'
      BY <2>1 DEF vars, CInv, WorkInv, SameDoi, WholeRows, Columns, Rows, RowBusy
    <2> QED BY <2>2, <2>3 DEF CInv
  <1> QED BY <1>1, <1>2, <1>3 DEF CompressorNext

LEMMA CompressorInductive == CompressorSpec => []CInv
  <1> QED BY CompressorInitHolds, CompressorStepKeeps, PTL DEF CompressorSpec

(* process() and its FOR UPDATE: no row is in two workers' hands, and what *)
(* a worker has verified under the row lock still stands at its COMMIT.    *)
THEOREM CompressorWork == CompressorSpec => []WorkInv
  <1>1. CInv => WorkInv
    BY DEF CInv
  <1> QED BY <1>1, CompressorInductive, PTL

(* Workers take none of the flocks of the uploads and do not disturb them: *)
(* uploads still exclude each other and leave nothing behind.              *)
THEOREM UploadsUndisturbed == CompressorSpec => [](TypeOK /\ HoldInv)
  <1>1. CInv => TypeOK /\ HoldInv
    BY DEF CInv, IInv
  <1> QED BY <1>1, CompressorInductive, PTL

(* The UPDATE of process() replaces exactly the bytes that were optimized, *)
(* of a visible row, by what was made of them for the DOI of that row, as  *)
(* long as no administrator corrects DOIs meanwhile.                       *)
THEOREM ReplacesWhatItRead ==
    ASSUME "correction" \notin Faults
    PROVE  CompressorSpec => NoLostReplacement
  <1> DEFINE Step == \A p \in PdfId : shaOf[p] # None /\ shaOf'[p] # shaOf[p] /\ job' = job =>
                        /\ p \notin deleted
                        /\ shaOf'[p] = Optimized[shaOf[p]][doiOf[p]]
  <1>1. CInv /\ [CompressorNext]_compressorVars => [Step]_compressorVars
    <2> SUFFICES ASSUME CInv, CompressorNext,
                        NEW p \in PdfId, shaOf[p] # None, shaOf'[p] # shaOf[p], job' = job
                 PROVE  /\ p \notin deleted
                        /\ shaOf'[p] = Optimized[shaOf[p]][doiOf[p]]
      OBVIOUS
    <2>1. CASE LibraryStep
      <3>1. p \in Rows
        BY DEF Rows
      <3> QED BY <2>1, <3>1, RowsStay DEF LibraryStep, CInv
    <2>2. ASSUME NEW w \in Worker, Commit(w)
          PROVE  /\ p \notin deleted
                 /\ shaOf'[p] = Optimized[shaOf[p]][doiOf[p]]
      <3>1. work[w].pc = "linked" /\ shaOf' = [shaOf EXCEPT ![work[w].row] = NewSha(w)]
        BY <2>2 DEF Commit
      <3>2. p = work[w].row /\ shaOf'[p] = NewSha(w)
        BY <3>1 DEF CInv, IInv, TypeOK
      <3>3. shaOf[p] = work[w].sha /\ p \notin deleted
        BY <3>1, <3>2 DEF CInv, WorkInv
      <3>4. doiOf[p] = work[w].doi
        BY <3>1, <3>2, Working
      <3> QED BY <3>2, <3>3, <3>4 DEF NewSha
    <2>3. ASSUME NEW w \in Worker, CompressStep(w), ~Commit(w) PROVE shaOf' = shaOf
      BY <2>3 DEF CompressStep, Fetch, Optimize, Publish, UnlinkSource, GiveUp, vars, db
    <2> QED BY <2>1, <2>2, <2>3 DEF CompressorNext
  <1> HIDE DEF Step
  <1>2. CompressorSpec => [][Step]_compressorVars
    BY <1>1, CompressorInductive, PTL DEF CompressorSpec
  <1> QED BY <1>2 DEF Step, NoLostReplacement

-----------------------------------------------------------------------------
(* Workers make bytes of the article they read.                             *)
Makes(A, w) == work[w].pc \in {"optimized", "linked"} => A[NewSha(w)] = work[w].doi

AgreedWork(A) == Agreed(A) /\ \A w \in Worker : Makes(A, w)

RefinedNextToWorkers == [Registry!CompactingNext]_(Registry!registry)

LEMMA OptimizeActs ==
    ASSUME NEW A, Agrees(A), "correction" \notin Faults, CInv, AgreedWork(A),
           NEW w \in Worker, CompressStep(w), ~Commit(w)
    PROVE  AgreedWork(A)' /\ RefinedNextToWorkers
  <1>1. work \in [Worker -> WorkType] /\ Makes(A, w)
    BY DEF CInv, WorkInv, AgreedWork
  <1>2. /\ \A v \in Worker \ {w} : work'[v] = work[v]
        /\ UNCHANGED <<doiOf, shaOf, deleted, alias, job>>
    BY <1>1 DEF CompressStep, Fetch, Optimize, Publish, UnlinkSource, GiveUp, vars, db
  <1>3. Agreed(A)'
    BY <1>2 DEF AgreedWork, Agreed, Tables, RowsAgree, Rows, Acts, Stands
  <1>4. RefinedNextToWorkers
    BY <1>2 DEF RefinedNextToWorkers, Registry!registry
  <1>5. ASSUME NEW v \in Worker, v # w PROVE Makes(A, v)'
    BY <1>2, <1>5 DEF AgreedWork, Makes, NewSha
  <1>6. ASSUME NEW p \in PdfId, Fetch(w, p) PROVE Makes(A, w)'
    BY <1>1, <1>6 DEF Fetch, Makes
  <1>7. ASSUME Optimize(w) PROVE Makes(A, w)'
    <2>1. /\ work'[w].pc = "optimized" /\ work'[w].sha = work[w].sha /\ work'[w].doi = work[w].doi
          /\ work[w].pc = "fetched" /\ work[w] # Idling
      BY <1>1, <1>7 DEF Optimize, WorkType, Idling
    <2>2. NewSha(w)' = NewSha(w)
      BY <2>1 DEF NewSha
    <2>3. A[NewSha(w)] = work[w].doi
      BY <1>7, <2>1, Working, NoneAssumption DEF Optimize, Agrees
    <2> QED BY <2>1, <2>2, <2>3 DEF Makes
  <1>8. ASSUME Publish(w) PROVE Makes(A, w)'
    <2>1. /\ work'[w].pc = "linked" /\ work'[w].sha = work[w].sha /\ work'[w].doi = work[w].doi
          /\ work[w].pc = "optimized"
      BY <1>1, <1>8 DEF Publish, WorkType
    <2>2. NewSha(w)' = NewSha(w)
      BY <2>1 DEF NewSha
    <2> QED BY <1>1, <2>1, <2>2 DEF Makes
  <1>9. ASSUME UnlinkSource(w) \/ GiveUp(w) PROVE Makes(A, w)'
    <2>1. work'[w] = Idling
      BY <1>1, <1>9 DEF UnlinkSource, GiveUp
    <2> QED BY <2>1 DEF Makes, Idling
  <1>10. Makes(A, w)'
    BY <1>6, <1>7, <1>8, <1>9 DEF CompressStep
  <1> QED BY <1>3, <1>4, <1>5, <1>10 DEF AgreedWork

LEMMA CompactActs ==
    ASSUME NEW A, Agrees(A), "correction" \notin Faults, CInv, AgreedWork(A),
           NEW w \in Worker, Commit(w)
    PROVE  AgreedWork(A)' /\ RefinedNextToWorkers
  <1> DEFINE p == work[w].row
             h == NewSha(w)
  <1>1. /\ work \in [Worker -> WorkType] /\ Makes(A, w) /\ work[w].pc = "linked"
        /\ shaOf \in [PdfId -> Hash \cup {None}] /\ alias \in [Hash -> PdfId \cup {None}]
        /\ work[w] # Idling /\ p \in Rows /\ doiOf[p] = work[w].doi
        /\ h \in Hash /\ h # None /\ p \notin deleted /\ Tables(A)
    BY Working, NoneAssumption
       DEF CInv, WorkInv, AgreedWork, Agreed, Commit, IInv, TypeOK
  <1>2. A[h] = doiOf[p]
    BY <1>1 DEF Makes
  <1>3. /\ work'[w].pc = "committed" /\ \A v \in Worker \ {w} : work'[v] = work[v]
        /\ shaOf' = [shaOf EXCEPT ![p] = h]
        /\ alias' = IF alias[h] = p THEN [alias EXCEPT ![h] = None] ELSE alias
        /\ UNCHANGED <<doiOf, deleted, job>>
    BY <1>1 DEF Commit, WorkType
  <1> HIDE DEF p, h
  <1>4. p \in PdfId /\ Rows' = Rows /\ shaOf'[p] = h
        /\ \A q \in PdfId : q # p => shaOf'[q] = shaOf[q]
    BY <1>1, <1>3 DEF Rows
  <1>5. Registry!FreeFor(h, p)
    BY <1>1, <1>2, OwnBytesFree
  <1>6. alias' = [alias EXCEPT ![h] = None]
    BY <1>1, <1>3, <1>5 DEF Registry!FreeFor
  <1>7. Registry!Compact(p, h)
    BY <1>1, <1>3, <1>4, <1>5, <1>6 DEF Registry!Compact, Registry!Article, Rows
  <1>8. RefinedNextToWorkers
    BY <1>1, <1>4, <1>7 DEF RefinedNextToWorkers, Registry!CompactingNext
  <1>9. Tables(A)'
    <2>1. RowsAgree(A)'
      BY <1>1, <1>2, <1>3, <1>4 DEF Tables, RowsAgree, Rows
    <2>2. \A q \in PdfId : doiOf'[q] = None <=> shaOf'[q] = None
      BY <1>1, <1>3, <1>4 DEF Tables, Rows
    <2>3. \A y \in Hash : alias'[y] # None => alias'[y] \in Rows' /\ doiOf'[alias'[y]] = A[y]
      BY <1>1, <1>3, <1>4, <1>6 DEF Tables
    <2> QED BY <2>1, <2>2, <2>3 DEF Tables
  <1>10. ASSUME NEW r \in Request PROVE Acts(A, r)'
    <2>1. Acts(A, r) /\ job'[r] = job[r] /\ job[r].claims \subseteq Hash
      BY <1>3 DEF AgreedWork, Agreed, CInv, IInv, TypeOK, JobType
    <2>2. \A y \in Hash : alias'[y] \in {None, alias[y]}
      BY <1>1, <1>6
    <2>3. job[r].pc \in CommitPc => Stands(A, job[r])'
      BY <1>3, <1>4, <2>1, <2>2 DEF Acts, Stands
    <2> QED BY <1>4, <2>1, <2>3 DEF Acts
  <1>11. ASSUME NEW v \in Worker PROVE Makes(A, v)'
    BY <1>3 DEF AgreedWork, Makes, NewSha
  <1> QED BY <1>8, <1>9, <1>10, <1>11 DEF AgreedWork, Agreed

LEMMA CompressorNextActs ==
    ASSUME NEW A, Agrees(A), "correction" \notin Faults, CInv, AgreedWork(A),
           [CompressorNext]_compressorVars
    PROVE  AgreedWork(A)' /\ RefinedNextToWorkers
  <1>1. ASSUME [Next]_vars, UNCHANGED work PROVE AgreedWork(A)' /\ RefinedNextToWorkers
    <2>1. Agreed(A)' /\ Refined
      BY <1>1, NextActs DEF CInv, AgreedWork
    <2>2. \A w \in Worker : Makes(A, w)'
      BY <1>1 DEF AgreedWork, Makes, NewSha
    <2> QED BY <2>1, <2>2 DEF AgreedWork, Refined, RefinedNextToWorkers, Registry!CompactingNext
  <1>2. ASSUME NEW w \in Worker, CompressStep(w) PROVE AgreedWork(A)' /\ RefinedNextToWorkers
    BY <1>2, OptimizeActs, CompactActs
  <1>3. LibraryStep => [Next]_vars /\ UNCHANGED work
    BY DEF LibraryStep
  <1>4. UNCHANGED compressorVars => [Next]_vars /\ UNCHANGED work
    BY DEF compressorVars
  <1> QED BY <1>1, <1>2, <1>3, <1>4 DEF CompressorNext

LEMMA AgreedWorkInductive ==
    ASSUME NEW A, Agrees(A), "correction" \notin Faults
    PROVE  /\ CompressorSpec => []AgreedWork(A)
           /\ CompressorSpec => AtomicCompaction
  <1>1. CompressorInit => AgreedWork(A) /\ Registry!Init
    <2> SUFFICES ASSUME CompressorInit PROVE AgreedWork(A) /\ Registry!Init
      OBVIOUS
    <2>1. Agreed(A) /\ Registry!Init
      BY InitActs DEF CompressorInit
    <2>2. \A w \in Worker : Makes(A, w)
      BY DEF CompressorInit, Makes, Idling
    <2> QED BY <2>1, <2>2 DEF AgreedWork
  <1>2. CInv /\ AgreedWork(A) /\ [CompressorNext]_compressorVars => AgreedWork(A)'
    BY CompressorNextActs
  <1>3. CInv /\ AgreedWork(A) /\ [CompressorNext]_compressorVars
           => [Registry!CompactingNext]_(Registry!registry)
    BY CompressorNextActs DEF RefinedNextToWorkers
  <1>4. CompressorSpec => []AgreedWork(A)
    BY <1>1, <1>2, CompressorInductive, PTL DEF CompressorSpec
  <1> QED BY <1>1, <1>3, <1>4, CompressorInductive, PTL
          DEF CompressorSpec, AtomicCompaction, Registry!CompactingSpec

(* Next to workers the library implements the registry with compaction:    *)
(* the UPDATE of process() is one step of it, between the COMMITs of       *)
(* uploads that know nothing of the workers.                               *)
THEOREM SerializableNextToWorkers ==
    ASSUME OwnArticles, "correction" \notin Faults
    PROVE  CompressorSpec => AtomicCompaction
  <1>1. PICK A : Agrees(A)
    BY AgreedIs
  <1> QED BY <1>1, AgreedWorkInductive

(* A compressed object is bound while uploads are between their decision   *)
(* and their COMMIT; still none of them meets a UNIQUE constraint.         *)
THEOREM NoConflictNextToWorkers ==
    ASSUME OwnArticles, "correction" \notin Faults
    PROVE  CompressorSpec => [](HashOneArticle /\ CommitNeverConflicts)
  <1>1. PICK A : Agrees(A)
    BY AgreedIs
  <1>2. CInv /\ AgreedWork(A) => HashOneArticle /\ CommitNeverConflicts
    BY AgreedAnswers DEF CInv, AgreedWork
  <1>3. CompressorSpec => []AgreedWork(A)
    BY <1>1, AgreedWorkInductive
  <1> QED BY <1>2, <1>3, CompressorInductive, PTL

(* And each is answered with the article of the DOI it was resolved to.    *)
THEOREM AnswerIsBoundNextToWorkers ==
    ASSUME OwnArticles, "correction" \notin Faults
    PROVE  CompressorSpec => BoundToItsDoi
  <1>1. PICK A : Agrees(A)
    BY AgreedIs
  <1>2. CInv /\ AgreedWork(A) /\ [CompressorNext]_compressorVars => [Answers]_vars
    <2> SUFFICES ASSUME CInv, AgreedWork(A), [CompressorNext]_compressorVars
                 PROVE  [Answers]_vars
      OBVIOUS
    <2>1. [Next]_vars \/ UNCHANGED job
      BY DEF CompressorNext, CompressStep, LibraryStep, compressorVars, vars,
             Fetch, Optimize, Publish, Commit, UnlinkSource, GiveUp
    <2>2. UNCHANGED job => Answers
      BY DEF Answers, CommitPc
    <2> QED BY <2>1, <2>2, AgreedStep DEF CInv, AgreedWork
  <1>3. CompressorSpec => []AgreedWork(A)
    BY <1>1, AgreedWorkInductive
  <1>4. CompressorSpec => [][Answers]_vars
    BY <1>2, <1>3, CompressorInductive, PTL DEF CompressorSpec
  <1> QED BY <1>4 DEF Answers, BoundToItsDoi
-----------------------------------------------------------------------------
(* Next to the workers of the compressor an object may go away while an      *)
(* upload that has dropped its copy waits: then its article has a row.      *)
Stocked(A, h) == \E p \in Rows : doiOf[p] = A[h]

BeforeStore == {"lock", "lookup", "resolve", "stamp", "lockDoi", "decide"}

Upholds(A, r) ==
    /\ job[r].pc = "relock" => job[r].staged
    /\ job[r].pc \in BeforeStore =>
          job[r].staged \/ job[r].sha \in objects \/ Stocked(A, job[r].sha)
    /\ job[r].pc = "commitReplace" => job[r].replaced
    /\ job[r].pc = "commitStore" /\ job[r].row = None =>
          job[r].sha \in objects /\ ~Stocked(A, job[r].sha)
    /\ job[r].promoted => job[r].pc \in {"commitReplace", "commitStore", "respond"} \cup FinalPc

(* What a worker unlinks is no row's, and what it commits is there.         *)
Spares(A, w) ==
    /\ work[w] # Idling => A[work[w].sha] = work[w].doi
    /\ work[w].pc \in {"optimized", "linked", "committed"} =>
          NewSha(w) # work[w].sha /\ A[NewSha(w)] = work[w].doi
    /\ work[w].pc = "linked" => NewSha(w) \in objects
    /\ work[w].pc = "committed" => shaOf[work[w].row] # work[w].sha

Shared(A) ==
    /\ StoredObject /\ RowsAgree(A)
    /\ \A r \in Request : Upholds(A, r)
    /\ \A w \in Worker : Spares(A, w)

SharedInv(A) == Unforced => Shared(A)

(* A request goes on, rows stay as they are, and no object goes away.       *)
LEMMA QuietShared ==
    ASSUME NEW A, Shared(A), NEW r \in Request, \A q \in Request \ {r} : job'[q] = job[q],
           UNCHANGED <<doiOf, shaOf, work>>, objects \subseteq objects', Upholds(A, r)'
    PROVE  Shared(A)'
  <1>1. StoredObject' /\ RowsAgree(A)'
    BY DEF Shared, StoredObject, RowsAgree, Rows
  <1>2. ASSUME NEW q \in Request, q # r PROVE Upholds(A, q)'
    <2>1. Upholds(A, q)
      BY DEF Shared
    <2>2. job'[q] = job[q]
      BY <1>2
    <2> QED BY <2>1, <2>2 DEF Upholds, Stocked, Rows
  <1>3. ASSUME NEW w \in Worker PROVE Spares(A, w)'
    <2>1. Spares(A, w)
      BY DEF Shared
    <2> QED BY <2>1 DEF Spares, NewSha
  <1> QED BY <1>1, <1>2, <1>3 DEF Shared

LEMMA EarlyShared ==
    ASSUME NEW A, IInv, Shared(A), work' = work, NEW r \in Request,
           \/ StorePdf(r) \/ RejectIntake(r) \/ AcquireObject(r) \/ LookupKnown(r)
           \/ LookupUnknown(r) \/ PromoteKnown(r) \/ CommitKnown(r) \/ Resolve(r)
           \/ Stamp(r) \/ AcquireDoi(r) \/ Cancel(r) \/ Abort(r)
    PROVE  Shared(A)'
  <1>1. /\ job \in [Request -> JobType] /\ job[r] \in JobType /\ job[r].input \in Inputs
        /\ Upholds(A, r) /\ Holds(r)
    BY DEF Shared, IInv, TypeOK, HoldInv, JobType
  <1>2. /\ \A q \in Request \ {r} : job'[q] = job[q]
        /\ UNCHANGED <<doiOf, shaOf, work>> /\ objects \subseteq objects'
    BY <1>1 DEF StorePdf, RejectIntake, AcquireObject, LookupKnown, LookupUnknown, PromoteKnown,
         CommitKnown, Resolve, Stamp, AcquireDoi, Cancel, Abort, Leave, db
  <1>3. ASSUME NEW h PROVE Stocked(A, h)' <=> Stocked(A, h)
    BY <1>2 DEF Stocked, Rows
  (* It suffices that what Upholds reads of the request is as before.        *)
  <1> DEFINE Same == /\ job'[r].sha = job[r].sha \/ job'[r].staged
                     /\ job'[r].promoted = job[r].promoted
                     /\ job'[r].pc \notin {"commitReplace", "commitStore"}
                     /\ job'[r].pc = "relock" => job'[r].staged
                     /\ job[r].pc \in {"commitReplace", "commitStore", "respond"} \cup FinalPc
                           => job'[r].pc \in FinalPc
                     /\ job'[r].pc \in BeforeStore =>
                           \/ job[r].pc \in BeforeStore /\ job'[r].staged = job[r].staged
                           \/ job'[r].staged \/ job[r].sha \in objects
  <1>4. Same => Upholds(A, r)'
    BY <1>1, <1>2, <1>3 DEF Upholds
  <1>5. CASE StorePdf(r)
    <2>1. Same BY <1>1, <1>5 DEF StorePdf, JobType, FinalPc, BeforeStore
    <2> QED BY <1>2, <1>4, <2>1, QuietShared
  <1>6. CASE RejectIntake(r) \/ Cancel(r) \/ Abort(r)
    <2>1. Same BY <1>1, <1>6 DEF RejectIntake, Cancel, Abort, Leave, JobType, FinalPc, BeforeStore
    <2> QED BY <1>2, <1>4, <2>1, QuietShared
  <1>7. CASE AcquireObject(r)
    <2>1. Same BY <1>1, <1>7 DEF AcquireObject, JobType, FinalPc, BeforeStore, Upholds
    <2> QED BY <1>2, <1>4, <2>1, QuietShared
  <1>8. CASE LookupKnown(r)
    <2>1. \E p, o, b : job' = [job EXCEPT ![r].pc = "promoteKnown", ![r].row = p,
                                        ![r].old = o, ![r].restore = b]
      BY <1>8 DEF LookupKnown
    <2>2. job[r].pc = "lookup"
      BY <1>8 DEF LookupKnown
    <2>3. Same BY <1>1, <2>1, <2>2 DEF JobType, FinalPc, BeforeStore
    <2> QED BY <1>2, <1>4, <2>3, QuietShared
  <1>9. CASE LookupUnknown(r) \/ CommitKnown(r) \/ AcquireDoi(r)
    <2>1. Same BY <1>1, <1>9 DEF LookupUnknown, CommitKnown, AcquireDoi, JobType, FinalPc, BeforeStore
    <2> QED BY <1>2, <1>4, <2>1, QuietShared
  <1>10. CASE PromoteKnown(r)
    <2>1. Same BY <1>1, <1>10 DEF PromoteKnown, JobType, FinalPc, BeforeStore
    <2> QED BY <1>2, <1>4, <2>1, QuietShared
  <1>11. CASE Resolve(r)
    <2>1. PICK d \in Doi, ok \in BOOLEAN :
             job' = [job EXCEPT ![r].pc = "stamp", ![r].doi = d, ![r].verified = ok]
      BY <1>11 DEF Resolve
    <2>2. job[r].pc = "resolve"
      BY <1>11 DEF Resolve
    <2>3. Same BY <1>1, <2>1, <2>2 DEF JobType, FinalPc, BeforeStore
    <2> QED BY <1>2, <1>4, <2>3, QuietShared
  <1>12. CASE Stamp(r)
    <2>1. /\ job[r].pc = "stamp" /\ job'[r].pc \in {"lockDoi", "relock"}
          /\ job'[r].staged = job[r].staged /\ job'[r].promoted = job[r].promoted
          /\ ~job[r].staged => job'[r].sha = job[r].sha /\ job'[r].pc = "lockDoi"
      BY <1>1, <1>12 DEF Stamp, JobType
    <2>2. Same BY <1>1, <2>1 DEF FinalPc, BeforeStore
    <2> QED BY <1>2, <1>4, <2>2, QuietShared
  <1> HIDE DEF Same
  <1> QED BY <1>5, <1>6, <1>7, <1>8, <1>9, <1>10, <1>11, <1>12

LEMMA DecideShared ==
    ASSUME NEW A, IInv, Agreed(A), Shared(A), work' = work, NEW r \in Request,
           DecideAlias(r) \/ DecideStore(r)
    PROVE  Shared(A)'
  <1>1. /\ job \in [Request -> JobType] /\ job[r] \in JobType
        /\ Upholds(A, r) /\ Acts(A, r) /\ Holds(r) /\ job[r].pc = "decide"
    BY DEF Shared, Agreed, IInv, TypeOK, HoldInv, DecideAlias, DecideStore
  <1>2. /\ \A q \in Request \ {r} : job'[q] = job[q]
        /\ UNCHANGED <<doiOf, shaOf, work>> /\ objects \subseteq objects'
    BY <1>1 DEF DecideAlias, DecideStore, Promote, db
  <1>3. ASSUME NEW h PROVE Stocked(A, h)' <=> Stocked(A, h)
    BY <1>2 DEF Stocked, Rows
  <1>4. /\ job'[r].sha = job[r].sha /\ job'[r].input = job[r].input /\ job'[r].doi = job[r].doi
    BY <1>1 DEF DecideAlias, DecideStore, JobType
  <1>5. CASE DecideAlias(r)
    <2>1. job'[r].pc = "commitAlias" /\ job'[r].promoted = job[r].promoted
      BY <1>1, <1>5 DEF DecideAlias, JobType
    <2>2. Upholds(A, r)'
      BY <1>1, <1>4, <2>1 DEF Upholds, BeforeStore, FinalPc
    <2> QED BY <1>2, <2>2, QuietShared
  <1>6. CASE DecideStore(r)
    <2>1. job'[r].pc = "commitStore" /\ job'[r].row = StoreRow(job[r])
      BY <1>1, <1>6 DEF DecideStore, JobType
    <2>2. ASSUME StoreRow(job[r]) = None
          PROVE  job[r].sha \in objects' /\ ~Stocked(A, job[r].sha)
      <3>1. ByDoi(job[r]) = None
        BY <2>2 DEF StoreRow
      <3>2. job[r].doi = A[job[r].sha]
        BY <1>1, NoneAssumption DEF Acts, Holds, DoiPc
      <3>3. ~Stocked(A, job[r].sha)
        <4>1. \A p \in PdfId : doiOf[p] # job[r].doi
          BY <3>1, NoneAssumption DEF ByDoi, Holder
        <4> QED BY <3>2, <4>1 DEF Stocked, Rows
      <3>4. job[r].sha \in objects'
        BY <1>1, <1>2, <1>6, <3>3 DEF Upholds, BeforeStore, DecideStore, Promote
      <3> QED BY <3>3, <3>4
    <2>3. Upholds(A, r)'
      BY <1>1, <1>3, <1>4, <2>1, <2>2 DEF Upholds, BeforeStore, FinalPc
    <2> QED BY <1>2, <2>3, QuietShared
  <1> QED BY <1>5, <1>6

(* No upload that published is refused, and without a replacement none      *)
(* unlinks.                                                                 *)
LEMMA EndShared ==
    ASSUME NEW A, "dbError" \notin Faults, IInv, CommitNeverConflicts, Shared(A), work' = work,
           NEW r \in Request, ~job[r].replaced, CommitAlias(r) \/ Respond(r) \/ Fail(r)
    PROVE  Shared(A)'
  <1>1. /\ job \in [Request -> JobType] /\ job[r] \in JobType /\ Upholds(A, r)
    BY DEF Shared, IInv, TypeOK
  <1>2. Fail(r) => ~job[r].promoted
    <2> SUFFICES ASSUME Fail(r), job[r].promoted PROVE FALSE
      OBVIOUS
    <2>1. job[r].pc \in CommitPc /\ CommitConflict(job[r])
      BY <1>1 DEF Upholds, Fail, Raises, Refuses, Breaks, FinalPc
    <2> QED BY <2>1 DEF CommitNeverConflicts
  <1>3. /\ \A q \in Request \ {r} : job'[q] = job[q]
        /\ UNCHANGED <<doiOf, shaOf, work>> /\ objects \subseteq objects'
        /\ job'[r].pc \in {"respond"} \cup FinalPc
        /\ job'[r].sha = job[r].sha /\ job'[r].input = job[r].input /\ job'[r].doi = job[r].doi
        /\ job'[r].promoted = job[r].promoted
    BY <1>1, <1>2 DEF CommitAlias, Respond, Fail, db, JobType, FinalPc
  <1>4. Upholds(A, r)'
    BY <1>1, <1>3 DEF Upholds, BeforeStore, FinalPc
  <1> QED BY <1>3, <1>4, QuietShared

(* The INSERT of a new article, with bytes whose object is there.           *)
LEMMA StoreShared ==
    ASSUME NEW A, IInv, WholeRows, WorkInv, Agreed(A), Shared(A), work' = work,
           NEW r \in Request, ~job[r].replaced, CommitStore(r)
    PROVE  Shared(A)'
  <1>1. /\ job \in [Request -> JobType] /\ job[r] \in JobType
        /\ shaOf \in [PdfId -> Hash \cup {None}] /\ doiOf \in [PdfId -> Doi \cup {None}]
        /\ Upholds(A, r) /\ Stands(A, job[r]) /\ job[r].pc = "commitStore"
    BY DEF Shared, Agreed, Acts, CommitPc, IInv, TypeOK, CommitStore
  <1>2. PICK p \in PdfId :
          /\ IF job[r].row = None
             THEN /\ shaOf[p] = None
                  /\ doiOf' = [doiOf EXCEPT ![p] = job[r].doi]
                  /\ shaOf' = [shaOf EXCEPT ![p] = job[r].sha]
             ELSE UNCHANGED <<doiOf, shaOf>>
          /\ job' = [job EXCEPT ![r].pc = "respond", ![r].row = p]
    BY DEF CommitStore
  <1>3. /\ \A q \in Request \ {r} : job'[q] = job[q]
        /\ job'[r].pc = "respond" /\ job'[r].sha = job[r].sha
        /\ job'[r].input = job[r].input /\ job'[r].doi = job[r].doi
        /\ objects' = objects
    BY <1>1, <1>2 DEF CommitStore, JobType
  <1>4. Upholds(A, r)'
    BY <1>1, <1>3 DEF Upholds, BeforeStore, FinalPc
  <1>5. CASE job[r].row # None
    BY <1>2, <1>3, <1>4, <1>5, QuietShared
  <1>6. CASE job[r].row = None
    <2>1. /\ job[r].sha \in Hash /\ job[r].sha # None /\ job[r].sha \in objects
          /\ job[r].doi = A[job[r].sha] /\ ~Stocked(A, job[r].sha)
      BY <1>1, <1>6, NoneAssumption DEF Upholds, Stands, JobType
    <2>2. /\ Rows' = Rows \cup {p} /\ p \notin Rows
          /\ doiOf'[p] = job[r].doi /\ shaOf'[p] = job[r].sha
          /\ \A q \in Rows : doiOf'[q] = doiOf[q] /\ shaOf'[q] = shaOf[q]
      BY <1>1, <1>2, <1>6, <2>1 DEF Rows
    <2>3. StoredObject'
      BY <1>3, <2>1, <2>2 DEF Shared, StoredObject
    <2>4. RowsAgree(A)'
      BY <2>1, <2>2 DEF Shared, RowsAgree, Stocked
    <2>5. ASSUME NEW h PROVE Stocked(A, h)' <=> Stocked(A, h) \/ A[h] = job[r].doi
      BY <2>2 DEF Stocked
    <2>6. ASSUME NEW q \in Request, q # r PROVE Upholds(A, q)'
      <3>1. Upholds(A, q) /\ job'[q] = job[q]
        BY <1>3, <2>6 DEF Shared
      <3>2. ASSUME job[q].pc = "commitStore" PROVE A[job[q].sha] # job[r].doi
        <4>1. job[q].doi # job[r].doi
          BY <1>1, <2>6, <3>2, Exclusive DEF DoiPc, CommitPc
        <4> QED BY <3>2, <4>1 DEF Agreed, Acts, Stands, CommitPc
      <3> QED BY <1>3, <2>5, <3>1, <3>2 DEF Upholds
    <2>7. ASSUME NEW w \in Worker PROVE Spares(A, w)'
      <3>1. Spares(A, w)
        BY DEF Shared
      <3>2. work[w].pc = "committed" => work[w].row \in Rows
        BY DEF WorkInv, Idling
      <3> QED BY <1>3, <2>2, <3>1, <3>2 DEF Spares, NewSha
    <2> QED BY <1>4, <2>3, <2>4, <2>6, <2>7 DEF Shared
  <1> QED BY <1>5, <1>6

(* A worker goes on, and rows and objects stay as they are.                 *)
LEMMA WorkerShared ==
    ASSUME NEW A, Shared(A), NEW w \in Worker, \A v \in Worker \ {w} : work'[v] = work[v],
           UNCHANGED <<doiOf, shaOf, job>>, objects \subseteq objects', Spares(A, w)'
    PROVE  Shared(A)'
  <1>1. StoredObject' /\ RowsAgree(A)'
    BY DEF Shared, StoredObject, RowsAgree, Rows
  <1>2. ASSUME NEW r \in Request PROVE Upholds(A, r)'
    <2>1. Upholds(A, r)
      BY DEF Shared
    <2> QED BY <2>1 DEF Upholds, Stocked, Rows
  <1>3. ASSUME NEW v \in Worker, v # w PROVE Spares(A, v)'
    <2>1. Spares(A, v) /\ work'[v] = work[v]
      BY <1>3 DEF Shared
    <2> QED BY <2>1 DEF Spares, NewSha
  <1> QED BY <1>1, <1>2, <1>3 DEF Shared

LEMMA WorkShared ==
    ASSUME NEW A, \A h \in Hash : Embedded[h] \in {None, A[h]}, "correction" \notin Faults,
           CInv, Shared(A), NEW w \in Worker,
           \/ \E p \in PdfId : Fetch(w, p)
           \/ Optimize(w) \/ Publish(w) \/ GiveUp(w)
    PROVE  Shared(A)'
  <1>1. work \in [Worker -> WorkType] /\ Spares(A, w)
    BY DEF CInv, WorkInv, Shared
  <1>2. /\ \A v \in Worker \ {w} : work'[v] = work[v]
        /\ UNCHANGED <<doiOf, shaOf, job>> /\ objects \subseteq objects'
    BY <1>1 DEF Fetch, Optimize, Publish, GiveUp, vars, db
  <1>3. ASSUME NEW p \in PdfId, Fetch(w, p) PROVE Spares(A, w)'
    <2>1. /\ work'[w].pc = "fetched" /\ work'[w].sha = shaOf[p] /\ work'[w].doi = doiOf[p]
          /\ p \in Rows
      BY <1>1, <1>3 DEF Fetch
    <2> QED BY <2>1 DEF Spares, Shared, RowsAgree
  <1>4. CASE Optimize(w)
    <2>1. /\ work'[w].pc = "optimized" /\ work'[w].sha = work[w].sha /\ work'[w].doi = work[w].doi
          /\ work[w].pc = "fetched" /\ work[w] # Idling
      BY <1>1, <1>4 DEF Optimize, WorkType, Idling
    <2>2. NewSha(w)' = NewSha(w)
      BY <2>1 DEF NewSha
    <2>3. A[NewSha(w)] = work[w].doi
      BY <1>4, <2>1, Working, NoneAssumption DEF Optimize
    <2>4. Spares(A, w)'
      BY <1>1, <1>4, <2>1, <2>2, <2>3 DEF Spares, Optimize
    <2> QED BY <1>2, <2>4, WorkerShared
  <1>5. CASE Publish(w)
    <2>1. /\ work'[w].pc = "linked" /\ work'[w].sha = work[w].sha /\ work'[w].doi = work[w].doi
          /\ work[w].pc = "optimized" /\ work[w] # Idling
      BY <1>1, <1>5 DEF Publish, WorkType, Idling
    <2>2. NewSha(w)' = NewSha(w) /\ NewSha(w) \in objects'
      BY <1>5, <2>1 DEF NewSha, Publish
    <2>3. Spares(A, w)'
      BY <1>1, <2>1, <2>2 DEF Spares
    <2> QED BY <1>2, <2>3, WorkerShared
  <1>6. CASE GiveUp(w)
    <2>1. work'[w] = Idling
      BY <1>1, <1>6 DEF GiveUp
    <2>2. Spares(A, w)'
      BY <2>1 DEF Spares, Idling
    <2> QED BY <1>2, <2>2, WorkerShared
  <1> QED BY <1>2, <1>3, <1>4, <1>5, <1>6, WorkerShared

LEMMA ReplaceShared ==
    ASSUME NEW A, "correction" \notin Faults, CInv, Shared(A), NEW w \in Worker, Commit(w)
    PROVE  Shared(A)'
  <1> DEFINE p == work[w].row
  <1>1. /\ work \in [Worker -> WorkType] /\ Spares(A, w) /\ work[w].pc = "linked"
        /\ shaOf \in [PdfId -> Hash \cup {None}] /\ work[w] # Idling
        /\ p \in Rows /\ doiOf[p] = work[w].doi /\ NewSha(w) \in Hash /\ NewSha(w) # None
        /\ \A v \in Worker \ {w} : work[v] # Idling => work[v].row # p
    BY Working, NoneAssumption DEF CInv, WorkInv, Shared, Commit, IInv, TypeOK
  <1>2. /\ work'[w].pc = "committed" /\ work'[w].sha = work[w].sha /\ work'[w].doi = work[w].doi
        /\ work'[w].row = p
        /\ \A v \in Worker \ {w} : work'[v] = work[v]
        /\ shaOf' = [shaOf EXCEPT ![p] = NewSha(w)]
        /\ UNCHANGED <<doiOf, job, objects>>
    BY <1>1 DEF Commit, WorkType, locks
  <1> HIDE DEF p
  <1>3. /\ Rows' = Rows /\ shaOf'[p] = NewSha(w)
        /\ \A q \in Rows \ {p} : shaOf'[q] = shaOf[q]
    BY <1>1, <1>2 DEF Rows
  <1>4. NewSha(w) \in objects /\ A[NewSha(w)] = doiOf[p] /\ NewSha(w) # work[w].sha
    BY <1>1 DEF Spares
  <1>5. StoredObject' /\ RowsAgree(A)'
    <2>1. StoredObject'
      BY <1>2, <1>3, <1>4 DEF Shared, StoredObject
    <2>2. RowsAgree(A)'
      BY <1>2, <1>3, <1>4 DEF Shared, RowsAgree
    <2> QED BY <2>1, <2>2
  <1>6. ASSUME NEW r \in Request PROVE Upholds(A, r)'
    <2>1. Upholds(A, r)
      BY DEF Shared
    <2> QED BY <1>2, <1>3, <2>1 DEF Upholds, Stocked
  <1>7. Spares(A, w)'
    BY <1>1, <1>2, <1>3, <1>4 DEF Spares, NewSha
  <1>8. ASSUME NEW v \in Worker, v # w PROVE Spares(A, v)'
    <2>1. Spares(A, v) /\ work'[v] = work[v]
      BY <1>2, <1>8 DEF Shared
    <2>2. work[v].pc = "committed" => work[v].row \in Rows \ {p}
      BY <1>1, <1>8 DEF CInv, WorkInv, Idling
    <2> QED BY <1>2, <1>3, <2>1, <2>2 DEF Spares, NewSha
  <1> QED BY <1>5, <1>6, <1>7, <1>8 DEF Shared

(* The bytes that are unlinked belong to the row alone that had them, and   *)
(* uploads that are about to insert bytes insert those of other articles.   *)
LEMMA UnlinkShared ==
    ASSUME NEW A, "correction" \notin Faults, CInv, Shared(A), NEW w \in Worker, UnlinkSource(w)
    PROVE  Shared(A)'
  <1> DEFINE p == work[w].row
             x == work[w].sha
  <1>1. /\ work \in [Worker -> WorkType] /\ Spares(A, w) /\ work[w].pc = "committed"
        /\ work[w] # Idling /\ p \in Rows /\ doiOf[p] = work[w].doi
        /\ \A v \in Worker \ {w} : work[v] # Idling => work[v].row # p
    BY Working DEF CInv, WorkInv, Shared, UnlinkSource
  <1>2. A[x] = doiOf[p] /\ shaOf[p] # x
    BY <1>1 DEF Spares
  <1>3. /\ objects' = objects \ {x} /\ UNCHANGED <<doiOf, shaOf, job>>
        /\ work'[w] = Idling /\ \A v \in Worker \ {w} : work'[v] = work[v]
    BY <1>1 DEF UnlinkSource, db
  <1> HIDE DEF p, x
  <1>4. Rows' = Rows
    BY <1>3 DEF Rows
  <1>5. ASSUME NEW q \in Rows, doiOf[q] = doiOf[p] PROVE q = p
    BY <1>1, <1>5 DEF Shared, RowsAgree
  <1>6. \A q \in Rows : shaOf[q] # x
    BY <1>2, <1>5 DEF Shared, RowsAgree
  <1>7. StoredObject' /\ RowsAgree(A)'
    <2>1. StoredObject'
      BY <1>3, <1>4, <1>6 DEF Shared, StoredObject
    <2> QED BY <1>3, <1>4, <2>1 DEF Shared, RowsAgree
  <1>8. ASSUME NEW r \in Request PROVE Upholds(A, r)'
    <2>1. Upholds(A, r)
      BY DEF Shared
    <2>2. job[r].sha = x => Stocked(A, job[r].sha)
      BY <1>1, <1>2 DEF Stocked
    <2> QED BY <1>3, <1>4, <2>1, <2>2 DEF Upholds, Stocked
  <1>9. Spares(A, w)'
    BY <1>3 DEF Spares, Idling
  <1>10. ASSUME NEW v \in Worker, v # w PROVE Spares(A, v)'
    <2>1. Spares(A, v) /\ work'[v] = work[v]
      BY <1>3, <1>10 DEF Shared
    <2>2. work[v].pc = "linked" => NewSha(v) # x
      <3> SUFFICES ASSUME work[v].pc = "linked", NewSha(v) = x PROVE FALSE
        OBVIOUS
      <3>1. work[v] # Idling /\ work[v].row \in Rows /\ doiOf[work[v].row] = work[v].doi
        BY Working
      <3>2. doiOf[work[v].row] = doiOf[p]
        BY <1>2, <2>1, <3>1 DEF Spares
      <3> QED BY <1>1, <1>5, <1>10, <3>1, <3>2
    <2> QED BY <1>3, <2>1, <2>2 DEF Spares, NewSha
  <1> QED BY <1>7, <1>8, <1>9, <1>10 DEF Shared

LEMMA SharedKeeps ==
    ASSUME NEW A, \A h \in Hash : Embedded[h] \in {None, A[h]},
           "dbError" \notin Faults, "correction" \notin Faults,
           CInv, Agreed(A), SharedInv(A), [CompressorNext]_compressorVars
    PROVE  SharedInv(A)'
  <1> SUFFICES ASSUME Unforced' PROVE Shared(A)'
    BY DEF SharedInv
  <1>1. CASE LibraryStep
    <2>1. work' = work /\ IInv /\ WholeRows /\ WorkInv /\ CommitNeverConflicts
      BY <1>1, AgreedAnswers DEF LibraryStep, CInv
    <2>2. ASSUME NEW r \in Request, Progress(r) \/ Cancel(r) \/ Abort(r) PROVE Shared(A)'
      <3>1. Unforced
        BY <2>1, <2>2, StaysForced DEF Unforced
      <3>2. Shared(A) /\ ~job[r].replaced /\ ~job'[r].replaced
        BY <3>1 DEF SharedInv, Unforced
      <3>3. ~DecideReplace(r)
        BY <2>1, <3>2 DEF DecideReplace, IInv, TypeOK, JobType
      <3>4. ~CommitReplace(r)
        BY <3>2 DEF CommitReplace, Shared, Upholds
      <3> QED
        BY <2>1, <2>2, <3>2, <3>3, <3>4, EarlyShared, DecideShared, EndShared, StoreShared
           DEF Progress
    <2>3. CASE UNCHANGED <<doiOf, shaOf, objects, job>>
      BY <2>1, <2>3 DEF SharedInv, Unforced, Shared, StoredObject, RowsAgree, Rows, Upholds,
                        Stocked, Spares, NewSha
    <2> QED BY <1>1, <2>2, <2>3 DEF LibraryStep, Next, SoftDelete, CorrectDoi, Idle, vars
  <1>2. ASSUME NEW w \in Worker, CompressStep(w) PROVE Shared(A)'
    <2>1. job' = job
      BY <1>2 DEF CompressStep, Fetch, Optimize, Publish, Commit, UnlinkSource, GiveUp, vars
    <2>2. Shared(A)
      BY <2>1 DEF SharedInv, Unforced
    <2> QED BY <1>2, <2>2, WorkShared, ReplaceShared, UnlinkShared DEF CompressStep
  <1>3. CASE UNCHANGED compressorVars
    BY <1>3 DEF compressorVars, vars, SharedInv, Unforced, Shared, StoredObject, RowsAgree, Rows,
                Upholds, Stocked, Spares, NewSha
  <1> QED BY <1>1, <1>2, <1>3 DEF CompressorNext

(* Compression removes objects while uploads that have dropped their copy   *)
(* rely on them, and takes none of their locks; yet no row loses its        *)
(* object: such an upload ends on the row of its article, as long as whose  *)
(* article bytes are is agreed and no DOI is corrected meanwhile.           *)
THEOREM ObjectsStayNextToWorkers ==
    ASSUME OwnArticles, "dbError" \notin Faults, "correction" \notin Faults
    PROVE  CompressorSpec => []StoredUnlessForced
  <1>1. PICK A : Agrees(A)
    BY AgreedIs
  <1>2. CompressorInit => SharedInv(A)
    <2> SUFFICES ASSUME CompressorInit PROVE Shared(A)
      BY DEF SharedInv
    <2>1. StoredObject /\ RowsAgree(A)
      <3>1. StoredObject
        BY NoneAssumption, SeedAssumption DEF CompressorInit, Init, StoredObject, Rows
      <3>2. RowsAgree(A)
        BY <1>1, SeedAssumption DEF Agrees, CompressorInit, Init, RowsAgree, Rows
      <3> QED BY <3>1, <3>2
    <2>2. ASSUME NEW r \in Request PROVE Upholds(A, r)
      <3>1. PICK i \in Inputs : job[r] = Fresh(i)
        BY DEF CompressorInit, Init
      <3> QED BY <3>1 DEF Fresh, Upholds, BeforeStore
    <2>3. ASSUME NEW w \in Worker PROVE Spares(A, w)
      BY DEF CompressorInit, Spares, Idling
    <2> QED BY <2>1, <2>2, <2>3 DEF Shared
  <1>3. CInv /\ AgreedWork(A) /\ SharedInv(A) /\ [CompressorNext]_compressorVars => SharedInv(A)'
    BY <1>1, SharedKeeps DEF Agrees, AgreedWork
  <1>4. SharedInv(A) => StoredUnlessForced
    BY DEF SharedInv, Shared, Unforced, StoredUnlessForced
  <1>5. CompressorSpec => []AgreedWork(A)
    BY <1>1, AgreedWorkInductive
  <1> QED BY <1>2, <1>3, <1>4, <1>5, CompressorInductive, PTL DEF CompressorSpec
-----------------------------------------------------------------------------
(* How far a request has come.                                             *)
Phase(pc) ==
    CASE pc = "store"        -> 0
      [] pc = "lock"         -> 1
      [] pc = "lookup"       -> 2
      [] pc = "promoteKnown" -> 3
      [] pc = "commitKnown"  -> 4
      [] pc = "resolve"      -> 3
      [] pc = "stamp"        -> 4
      [] pc = "relock"       -> 5
      [] pc = "lockDoi"      -> 6
      [] pc = "decide"       -> 7
      [] pc \in CommitPc     -> 8
      [] pc = "respond"      -> 9
      [] OTHER               -> 10

Further(r) == Phase(job'[r].pc) > Phase(job[r].pc)

LEMMA StepsForward ==
    ASSUME IInv, NEW r \in Request, Progress(r) \/ Cancel(r) \/ Abort(r)
    PROVE  Further(r) /\ \A q \in Request \ {r} : job'[q] = job[q]
  <1>1. job \in [Request -> JobType]
    BY DEF IInv, TypeOK
  <1>2. CASE StorePdf(r)
    BY <1>1, <1>2 DEF StorePdf, Further, Phase, CommitPc, JobType
  <1>3. CASE RejectIntake(r)
    BY <1>1, <1>3 DEF RejectIntake, Further, Phase, CommitPc, JobType
  <1>4. CASE AcquireObject(r)
    BY <1>1, <1>4 DEF AcquireObject, Further, Phase, CommitPc, JobType
  <1>5. CASE LookupKnown(r)
    BY <1>1, <1>5 DEF LookupKnown, Further, Phase, CommitPc, JobType
  <1>6. CASE LookupUnknown(r)
    BY <1>1, <1>6 DEF LookupUnknown, Further, Phase, CommitPc, JobType
  <1>7. CASE PromoteKnown(r)
    BY <1>1, <1>7 DEF PromoteKnown, Further, Phase, CommitPc, JobType
  <1>8. CASE CommitKnown(r)
    BY <1>1, <1>8 DEF CommitKnown, Further, Phase, CommitPc, JobType
  <1>9. CASE Resolve(r)
    BY <1>1, <1>9 DEF Resolve, Further, Phase, CommitPc, JobType
  <1>10. CASE Stamp(r)
    <2>1. /\ job[r].pc = "stamp" /\ job'[r].pc \in {"lockDoi", "relock"}
          /\ \A q \in Request \ {r} : job'[q] = job[q]
      BY <1>1, <1>10 DEF Stamp, JobType
    <2> QED BY <2>1 DEF Further, Phase, CommitPc
  <1>11. CASE AcquireDoi(r)
    BY <1>1, <1>11 DEF AcquireDoi, Further, Phase, CommitPc, JobType
  <1>12. CASE DecideReplace(r)
    <2>1. /\ job[r].pc = "decide" /\ job'[r].pc = "commitReplace"
          /\ \A q \in Request \ {r} : job'[q] = job[q]
      BY <1>1, <1>12 DEF DecideReplace, JobType
    <2> QED BY <2>1 DEF Further, Phase, CommitPc
  <1>13. CASE DecideAlias(r)
    BY <1>1, <1>13 DEF DecideAlias, Further, Phase, CommitPc, JobType
  <1>14. CASE DecideStore(r)
    BY <1>1, <1>14 DEF DecideStore, Further, Phase, CommitPc, JobType
  <1>15. CASE CommitReplace(r)
    BY <1>1, <1>15 DEF CommitReplace, Further, Phase, CommitPc, JobType
  <1>16. CASE CommitAlias(r)
    BY <1>1, <1>16 DEF CommitAlias, Further, Phase, CommitPc, JobType
  <1>17. CASE CommitStore(r)
    BY <1>1, <1>17 DEF CommitStore, Further, Phase, CommitPc, JobType
  <1>18. CASE Respond(r)
    BY <1>1, <1>18 DEF Respond, Further, Phase, CommitPc, JobType
  <1>19. CASE Fail(r)
    BY <1>1, <1>19 DEF Fail, Further, Phase, CommitPc, JobType, Raises, Refuses, Breaks, FinalPc, Pc, LockedPc
  <1>20. CASE Cancel(r) \/ Abort(r)
    BY <1>1, <1>20 DEF Cancel, Abort, Leave, Further, Phase, CommitPc, JobType, FinalPc, Pc, LockedPc
  <1> QED BY <1>2, <1>3, <1>4, <1>5, <1>6, <1>7, <1>8, <1>9, <1>10, <1>11, <1>12, <1>13, <1>14, <1>15, <1>16, <1>17, <1>18, <1>19, <1>20 DEF Progress

(* Every step of a request takes it nearer to its end, by one of ten        *)
(* phases, and no step of another one takes it back.                       *)
THEOREM NeverBack ==
    Spec => [][\A r \in Request : job'[r] # job[r] => Further(r)]_vars
  <1> DEFINE Step == \A r \in Request : job'[r] # job[r] => Further(r)
  <1>1. IInv /\ [Next]_vars => [Step]_vars
    <2> SUFFICES ASSUME IInv, Next, NEW r \in Request, job'[r] # job[r] PROVE Further(r)
      OBVIOUS
    <2>1. PICK q \in Request : Progress(q) \/ Cancel(q) \/ Abort(q)
      BY DEF Next, SoftDelete, CorrectDoi, Idle, vars
    <2> QED BY <2>1, StepsForward
  <1> HIDE DEF Step
  <1>2. Spec => [][Step]_vars
    BY <1>1, Inductive, PTL DEF Spec
  <1> QED BY <1>2 DEF Step
-----------------------------------------------------------------------------
(* The event loop and the thread pool only restrain when the steps of      *)
(* Upload happen.                                                          *)
LEMMA StretchIsProgress ==
    ASSUME NEW r \in Request, Stretch(r) PROVE Progress(r)
  BY DEF Stretch, Progress

LEMMA ServerSteps == [ServerNext]_serverVars => [Next]_vars
  <1> SUFFICES ASSUME ServerNext PROVE Next \/ UNCHANGED vars
    BY DEF serverVars
  <1>1. ASSUME NEW r \in Request, Run(r) PROVE Progress(r)
    BY <1>1, StretchIsProgress DEF Run
  <1>2. ASSUME NEW r \in Request, Submit(r) \/ Block(r) PROVE UNCHANGED vars
    BY <1>2 DEF Submit, Block
  <1>3. ASSUME NEW r \in Request, Granted(r) \/ Timeout(r) PROVE Progress(r)
    BY <1>3 DEF Granted, Timeout, Progress
  <1>4. ASSUME NEW r \in Request, Break(r) PROVE Progress(r) \/ Cancel(r) \/ Abort(r)
    BY <1>4 DEF Break, Progress
  <1> QED BY <1>1, <1>2, <1>3, <1>4 DEF ServerNext, Administer, Next

(* Whatever holds of the handler by itself holds of it on the event loop.  *)
THEOREM ServerIsUpload == ServerSpec => Spec
  <1>1. ServerInit => Init
    BY DEF ServerInit
  <1> QED BY <1>1, ServerSteps, PTL DEF ServerSpec, Spec

(* A step of the server moves one request.                                 *)
LEMMA LoopKeeps ==
    ASSUME IInv, LoopInv, [ServerNext]_serverVars
    PROVE  LoopInv'
  <1>1. ASSUME NEW r \in Request, Run(r) PROVE LoopInv'
    <2>1. \A q \in Request \ {r} : job'[q] = job[q]
      BY <1>1, StretchIsProgress, StepsForward DEF Run
    <2>2. r \notin pool /\ pool' = pool
      <3>1. CASE loop = r
        BY <1>1, <3>1, NoneAssumption DEF Run, LoopInv
      <3>2. CASE loop # r
        BY <1>1, <3>2 DEF Run, HasLoop
      <3> QED BY <3>1, <3>2
    <2>3. loop' = r => job'[r].pc \notin FlockPc \cup FinalPc
      <3> SUFFICES ASSUME loop' = r PROVE job'[r].pc \notin FlockPc \cup FinalPc
        OBVIOUS
      <3>1. r # None
        BY NoneAssumption
      <3>2. GoesOn(job'[r])
        BY <1>1, <3>1 DEF Run, HandOver
      <3> HIDE DEF CommitPc
      <3> QED BY <3>2 DEF GoesOn, FlockPc, FinalPc, CommitPc
    <2>4. loop' \in {r, None}
      BY <1>1 DEF Run, HandOver
    <2> QED BY <2>1, <2>2, <2>3, <2>4, NoneAssumption DEF LoopInv
  <1>2. ASSUME NEW r \in Request, Submit(r) PROVE LoopInv'
    BY <1>2 DEF Submit, LoopInv, vars
  <1>3. ASSUME NEW r \in Request, Granted(r) PROVE LoopInv'
    <2>1. \A q \in Request \ {r} : job'[q] = job[q]
      BY <1>3, StepsForward DEF Granted, Progress
    <2>2. r \in pool /\ pool' = pool \ {r} /\ loop' = loop
      BY <1>3 DEF Granted
    <2> QED BY <2>1, <2>2 DEF LoopInv
  <1>4. ASSUME NEW r \in Request, Block(r) PROVE LoopInv'
    <2>1. job[r].pc \in {"commitKnown", "decide"}
      BY <1>4 DEF Block, StatementWaits
    <2> QED BY <1>4, <2>1, NoneAssumption DEF Block, HasLoop, LoopInv, FlockPc, FinalPc, vars
  <1>5. ASSUME NEW r \in Request, Timeout(r) \/ Break(r) PROVE LoopInv'
    <2>1. \A q \in Request \ {r} : job'[q] = job[q]
      BY <1>5, StepsForward DEF Timeout, Break, Progress
    <2>2. r \notin pool /\ pool' = pool /\ loop' = None
      BY <1>5, NoneAssumption DEF Timeout, Break, LoopInv
    <2> QED BY <2>1, <2>2 DEF LoopInv
  <1>6. CASE UNCHANGED <<job, loop, pool>>
    BY <1>6 DEF LoopInv
  <1> QED BY <1>1, <1>2, <1>3, <1>4, <1>5, <1>6
          DEF ServerNext, Administer, SoftDelete, CorrectDoi, Idle, serverVars, vars

LEMMA LoopInductive == ServerSpec => [](IInv /\ LoopInv)
  <1>1. ServerInit => LoopInv
    BY DEF ServerInit, LoopInv
  <1> QED BY <1>1, InitHolds, NextKeeps, ServerSteps, LoopKeeps, PTL DEF ServerSpec, ServerInit

(* Whoever holds the flock for which a thread waits is under way, and one  *)
(* that is itself waiting for a flock waits for the lock of a DOI.         *)
LEMMA HolderUnderWay ==
    ASSUME IInv, NEW r \in Request, job[r].pc \in FlockPc, HeldBy(r) # None
    PROVE  /\ HeldBy(r) \in Request
           /\ job[HeldBy(r)].pc \notin FinalPc \cup {"lock", "relock"}
           /\ job[r].pc = "lockDoi" => job[HeldBy(r)].pc \notin FlockPc
  <1>1. CASE job[r].pc = "lockDoi"
    <2>1. DoiSlot[job[r].doi] \in Slot
      BY <1>1, SlotAssumption DEF IInv, HoldInv, Holds
    <2>2. HeldBy(r) \in Request /\ job[HeldBy(r)].pc \in DoiPc \cup {"respond"}
      BY <1>1, <2>1 DEF HeldBy, IInv, TypeOK, HoldInv, Holds
    <2> QED BY <2>2 DEF DoiPc, CommitPc, FinalPc, FlockPc
  <1>2. CASE job[r].pc # "lockDoi"
    <2>1. ObjectSlot[job[r].sha] \in Slot
      BY SlotAssumption DEF IInv, TypeOK, JobType
    <2>2. HeldBy(r) \in Request /\ job[HeldBy(r)].pc \in LockedPc
      BY <1>2, <2>1 DEF HeldBy, IInv, TypeOK, HoldInv, Holds
    <2> QED BY <1>2, <2>2 DEF LockedPc, CommitPc, FinalPc
  <1> QED BY <1>1, <1>2

(* So not all requests under way wait in threads.                          *)
LEMMA SomebodyOutside ==
    ASSUME IInv, LoopInv, \A q \in pool : HeldBy(q) # None, NEW r \in pool
    PROVE  \E q \in Request \ pool : job[q].pc \notin FinalPc
  <1>1. r \in Request /\ job[r].pc \in FlockPc
    BY DEF LoopInv
  <1>2. /\ HeldBy(r) \in Request
        /\ job[HeldBy(r)].pc \notin FinalPc \cup {"lock", "relock"}
    BY <1>1, HolderUnderWay
  <1>3. CASE HeldBy(r) \notin pool
    BY <1>2, <1>3
  <1>4. CASE HeldBy(r) \in pool
    <2> DEFINE p == HeldBy(r)
    <2>1. p \in Request /\ job[p].pc = "lockDoi"
      BY <1>2, <1>4 DEF LoopInv, FlockPc
    <2>2. HeldBy(p) \in Request /\ job[HeldBy(p)].pc \notin FinalPc \cup FlockPc
      BY <1>4, <2>1, HolderUnderWay DEF FlockPc
    <2> QED BY <2>2 DEF LoopInv
  <1> QED BY <1>3, <1>4

(* However many requests share however few lock files, rows, threads and   *)
(* the one event loop: unless there are more of them than threads and      *)
(* every thread waits for a flock, somebody can go on.                     *)
THEOREM NoDeadlock == ServerSpec => []SomebodyMoves
  <1>1. IInv /\ LoopInv => SomebodyMoves
    <2> SUFFICES ASSUME IInv, LoopInv, ~Finished,
                        \A r \in Request : job[r].pc \notin FinalPc => ~CanMove(r)
                 PROVE  Exhausted /\ Threads < Cardinality(Request)
      BY DEF SomebodyMoves
    <2>1. loop = None
      BY DEF LoopInv, CanMove
    <2>2. \A r \in pool : HeldBy(r) # None
      BY DEF LoopInv, CanMove, FlockPc, FinalPc
    <2>3. ~FreeThread
      <3> SUFFICES ASSUME FreeThread PROVE FALSE
        OBVIOUS
      <3>1. PICK r \in Request : job[r].pc \notin FinalPc
        BY DEF Finished
      <3>2. \A q \in Request : job[q].pc \notin FinalPc => q \in pool
        BY <2>1 DEF CanMove
      <3> QED BY <2>2, <3>1, <3>2, SomebodyOutside
    <2>4. Exhausted
      <3>1. \A r \in pool : HeldBy(r) \in Request /\ job[HeldBy(r)].pc \notin FinalPc
        BY <2>2, HolderUnderWay DEF LoopInv
      <3> QED BY <2>3, <3>1 DEF Exhausted
    <2>5. Threads < Cardinality(Request)
      <3>1. pool \subseteq Request /\ IsFiniteSet(pool) /\ IsFiniteSet(Request)
        BY ThreadAssumption, FS_Subset DEF LoopInv
      <3>2. /\ Cardinality(pool) \in Nat /\ Cardinality(Request) \in Nat
            /\ ~(Cardinality(pool) < Threads)
        BY <2>3, <3>1, FS_CardinalityType DEF FreeThread
      <3>3. pool # {}
        BY <3>2, ThreadAssumption, FS_EmptySet
      <3>4. \E q \in Request : q \notin pool
        BY <2>2, <3>3, SomebodyOutside
      <3>5. Cardinality(pool) <= Cardinality(Request) /\ Cardinality(pool) # Cardinality(Request)
        BY <3>1, <3>4, FS_Subset
      <3> QED BY <3>2, <3>5, ThreadAssumption
    <2> QED BY <2>4, <2>5
  <1> QED BY <1>1, LoopInductive, PTL
=============================================================================

---------------------------- MODULE ReaderProofs ----------------------------
(***************************************************************************)
(* Proofs about what users read: the files that module Download leaves in  *)
(* a directory, and the numbers of module Dashboard.                       *)
(*                                                                         *)
(* Download, for every list of PDFs, number of threads, server and         *)
(* directory to begin with: whatever is cut, resumed or replaced, a file   *)
(* with a PDF's name is one version, whole, and is never overwritten.      *)
(* Dashboard, for any users, threads and time to live: what is left of the *)
(* time of an entry bounds the age of its numbers.                         *)
(***************************************************************************)
EXTENDS Download, Dashboard, SequenceTheorems, TLAPS

UnderWay(d) == task[d].pc \in {"queued", "asking", "writing"}

(* The plan of a DOI and the file it may write.                            *)
Planned(d) ==
    /\ task[d].slot \in used /\ task[d].slot[1] = Name[d]
    /\ task[d].version = seen[d] /\ seen[d] # None

PlanInv ==
    \A d \in Doi : UnderWay(d) =>
       /\ Planned(d)
       /\ dest[task[d].slot] = None
       /\ task[d].pc = "writing" =>
             part[task[d].slot] = task[d].digest /\ task[d].source \in Version
       /\ task[d].pc # "writing" /\ task[d].offset > 0 => part[task[d].slot] # None

ResultInv ==
    \A d \in Doi : task[d].pc = "ended" =>
       /\ task[d].result \in Results
       /\ task[d].result \in {"downloaded", "resumed"} =>
             Planned(d) /\ Has(task[d].slot, seen[d])

(* used_destinations keeps the threads apart.                              *)
ApartInv ==
    \A d, e \in Doi : d # e /\ UnderWay(d) /\ UnderWay(e) => task[d].slot # task[e].slot

CountInv == \A d \in Doi : outcome[d] \in {"ok", "skipped"} => seen[d] # None

IInv == TypeOK /\ PlanInv /\ ResultInv /\ ApartInv /\ CountInv /\ SavedIsExact

LEMMA ContentType == ASSUME NEW v \in Version PROVE Content(v) \in FileType
  <1>1. Size[v] \in Nat /\ \A i \in 1..Size[v] : <<v, i>> \in Version \X Nat
    BY SizeAssumption
  <1>2. [i \in 1..Size[v] |-> <<v, i>>] \in Seq(Version \X Nat)
    BY <1>1, SeqDef
  <1> QED BY <1>2 DEF Content, FileType

LEMMA InitInv == ASSUME Init PROVE IInv
  <1>1. PICK l \in Leftovers : dest = l[1] /\ part = l[2]
    BY DEF Init
  <1>2. dest \in [Slot -> {None} \cup {Content(v) : v \in Version}] /\ part \in [Slot -> FileType]
    BY <1>1, LeftoverAssumption
  <1>3. dest \in [Slot -> FileType]
    BY <1>2, ContentType DEF FileType
  <1>4. NoTask \in TaskType
    BY EmptySeq DEF NoTask, TaskType
  <1>5. task \in [Doi -> TaskType]
    BY <1>4 DEF Init
  <1>6. TypeOK
    BY <1>2, <1>3, <1>5, EmptySeq DEF Init, TypeOK
  <1>7. \A d \in Doi : task[d].pc = "none" /\ outcome[d] = None
    BY DEF Init, NoTask
  <1>8. SavedIsExact
    BY <1>2, <1>7, NoneAssumption DEF SavedIsExact, Has
  <1>9. CountInv
    BY <1>7, NoneAssumption DEF CountInv
  <1> QED BY <1>6, <1>7, <1>8, <1>9 DEF IInv, PlanInv, ResultInv, ApartInv, UnderWay

-----------------------------------------------------------------------------
(* Steps that leave plans and files alone.                                 *)
LEMMA QuietFrame ==
    ASSUME IInv, TypeOK', UNCHANGED <<files, seen, used, task>>,
           \A d \in Doi : outcome'[d] \in {"ok", "skipped"} => outcome[d] \in {"ok", "skipped"}
    PROVE  IInv'
  BY DEF IInv, PlanInv, ResultInv, ApartInv, CountInv, SavedIsExact, UnderWay, Planned, Has, files

(* Nothing is planned yet, or everything is forgotten.                     *)
LEMMA FreshFrame ==
    ASSUME IInv, TypeOK', UNCHANGED files,
           \A d \in Doi : task'[d] = NoTask /\ outcome'[d] \notin {"ok", "skipped"}
    PROVE  IInv'
  BY DEF IInv, PlanInv, ResultInv, ApartInv, CountInv, SavedIsExact, UnderWay, Has, files, NoTask

LEMMA NoTaskType == NoTask \in TaskType
  BY EmptySeq DEF NoTask, TaskType

LEMMA ServerChangeKeeps ==
    ASSUME IInv, NEW d \in Doi, NEW v \in Versions[d] \cup {None}, ServerChange(d, v)
    PROVE  IInv'
  <1>1. v \in Version \cup {None}
    BY DEF Version
  <1>2. TypeOK'
    BY <1>1 DEF ServerChange, IInv, TypeOK, files
  <1> QED BY <1>2, QuietFrame DEF ServerChange

LEMMA StartKeeps == ASSUME IInv, NEW r \in Requests, Start(r) PROVE IInv'
  <1>1. r \in Seq(Doi) /\ task' = [d \in Doi |-> NoTask] /\ outcome' = [d \in Doi |-> None]
    BY RequestAssumption DEF Start
  <1>2. faults' \in Nat
    BY DEF Start, Fault, IInv, TypeOK
  <1>3. TypeOK'
    BY <1>1, <1>2, NoTaskType DEF Start, IInv, TypeOK, files
  <1> QED BY <1>1, <1>3, FreshFrame, NoneAssumption DEF Start

LEMMA LookupFailsKeeps == ASSUME IInv, NEW r \in Requests, LookupFails(r) PROVE IInv'
  <1>1. TypeOK'
    BY DEF LookupFails, Fault, IInv, TypeOK, files
  <1> QED BY <1>1, QuietFrame, NoneAssumption DEF LookupFails

LEMMA CrashKeeps == ASSUME IInv, Crash PROVE IInv'
  <1>1. faults' \in Nat
    BY DEF Crash, Fault, IInv, TypeOK
  <1>2. task' \in [Doi -> TaskType] /\ todo' \in Seq(Doi)
    BY NoTaskType, EmptySeq DEF Crash
  <1>3. TypeOK'
    BY <1>1, <1>2 DEF Crash, IInv, TypeOK, files
  <1> QED BY <1>3, FreshFrame, NoneAssumption DEF Crash

LEMMA FinishKeeps == ASSUME IInv, Finish PROVE IInv'
  <1>1. TypeOK'
    BY DEF Finish, IInv, TypeOK, files
  <1> QED BY <1>1, QuietFrame DEF Finish

LEMMA InterruptKeeps == ASSUME IInv, Interrupt PROVE IInv'
  <1>1. /\ \A d \in Doi : task'[d] \in {task[d], NoTask}
        /\ task' \in [Doi -> TaskType]
    BY NoTaskType DEF Interrupt, IInv, TypeOK
  <1>2. TypeOK'
    BY <1>1 DEF Interrupt, Fault, IInv, TypeOK, files
  <1>3. UNCHANGED <<files, seen, used, outcome>> /\ NoTask.pc = "none"
    BY DEF Interrupt, NoTask
  <1> QED BY <1>1, <1>2, <1>3
       DEF IInv, PlanInv, ResultInv, ApartInv, CountInv, SavedIsExact, UnderWay, Planned, Has, files

LEMMA CollectKeeps == ASSUME IInv, NEW d \in Doi, Collect(d) PROVE IInv'
  <1> DEFINE ok == task[d].result \in {"downloaded", "resumed"}
  <1>1. /\ task[d].pc = "ended" /\ task[d] \in TaskType /\ task[d].result \in Results
        /\ UNCHANGED <<server, files, todo, seen, used, mode, changes, faults>>
    BY DEF Collect, IInv, TypeOK, ResultInv
  <1>2. ASSUME NEW t \in TaskType
        PROVE  [t EXCEPT !.pc = "none"] \in TaskType /\ [t EXCEPT !.pc = "none"].pc = "none"
    BY DEF TaskType
  <1>3. /\ \A e \in Doi : task'[e] = task[e] \/ task'[e].pc = "none"
        /\ task' \in [Doi -> TaskType]
    BY <1>2 DEF Collect, IInv, TypeOK
  <1>4. Counted(d) \in {"ok", "pending", "failed"} /\ (Counted(d) = "ok" => ok)
    BY <1>1 DEF Counted, Results
  <1>5. /\ outcome'[d] = Counted(d)
        /\ \A e \in Doi \ {d} : outcome'[e] \in {outcome[e], "pending"}
        /\ outcome' \in [Doi -> {None, "ok", "skipped", "pending", "failed", "unavailable"}]
    BY <1>4 DEF Collect, IInv, TypeOK
  <1>6. TypeOK'
    BY <1>1, <1>3, <1>5 DEF Collect, IInv, TypeOK, files
  <1>7. ok => task[d].slot \in used /\ task[d].slot[1] = Name[d] /\ Has(task[d].slot, seen[d])
    BY <1>1 DEF IInv, ResultInv, Planned
  <1>8. SavedIsExact'
    BY <1>1, <1>4, <1>5, <1>7 DEF IInv, SavedIsExact, Has, files
  <1>9. CountInv'
    BY <1>1, <1>4, <1>5, <1>7 DEF IInv, CountInv, ResultInv, Planned
  <1> QED BY <1>1, <1>3, <1>6, <1>8, <1>9
       DEF IInv, PlanInv, ResultInv, ApartInv, UnderWay, Planned, Has, files
-----------------------------------------------------------------------------
(* The main thread plans d: it takes a path that no other plan has.        *)
LEMMA PlanFrame ==
    ASSUME IInv, TypeOK', NEW d \in Doi, NEW slot \in Slot,
           slot \notin used, used' = used \cup {slot}, slot[1] = Name[d],
           dest[slot] \in {None, Content(seen[d])}, seen[d] \in Version, seen[d] # None,
           \A s \in Slot : s # slot => dest'[s] = dest[s] /\ part'[s] = part[s],
           \A e \in Doi : e # d => task'[e] = task[e] /\ outcome'[e] = outcome[e],
           UNCHANGED seen,
           \/ /\ task'[d] = task[d]
              /\ dest'[slot] = Content(seen[d])
           \/ /\ task'[d].pc = "queued" /\ task'[d].slot = slot /\ task'[d].version = seen[d]
              /\ dest[slot] = None /\ dest'[slot] = None /\ outcome'[d] = outcome[d]
              /\ task'[d].offset > 0 => part'[slot] # None
    PROVE  IInv'
  <1>1. \A e \in Doi : UnderWay(e) => task[e].slot \in used /\ task[e].slot \in Slot
    BY DEF IInv, TypeOK, PlanInv, Planned
  <1>2. \A s \in Slot : dest[s] # None => dest'[s] = dest[s]
    OBVIOUS
  <1>3. ASSUME NEW e \in Doi, NEW s \in used, Has(s, seen[e])
        PROVE  Has(s, seen[e])'
    BY <1>3 DEF Has, IInv, TypeOK
  <1>4. PlanInv'
    <2>1. ASSUME NEW e \in Doi, UnderWay(e), task'[e] = task[e]
          PROVE  /\ Planned(e)' /\ dest'[task[e].slot] = None
                 /\ task[e].pc = "writing" =>
                       part'[task[e].slot] = task[e].digest /\ task[e].source \in Version
                 /\ task[e].pc # "writing" /\ task[e].offset > 0 => part'[task[e].slot] # None
      <3>1. task[e].slot # slot /\ Planned(e)
        BY <1>1, <2>1 DEF IInv, PlanInv, Planned
      <3> QED BY <1>1, <2>1, <3>1 DEF IInv, PlanInv, Planned
    <2>2. \A e \in Doi : UnderWay(e)' => (UnderWay(e) /\ task'[e] = task[e]) \/ e = d
      BY DEF UnderWay
    <2>3. CASE task'[d] = task[d]
      BY <2>1, <2>2, <2>3 DEF PlanInv, UnderWay
    <2>4. CASE task'[d] # task[d]
      <3>1. /\ Planned(d)' /\ dest'[task'[d].slot] = None /\ task'[d].pc # "writing"
            /\ task'[d].offset > 0 => part'[task'[d].slot] # None
        BY <2>4 DEF Planned
      <3>2. ASSUME NEW e \in Doi \ {d}, UnderWay(e)' PROVE UnderWay(e) /\ task'[e] = task[e]
        BY <3>2 DEF UnderWay
      <3> QED BY <2>1, <3>1, <3>2 DEF PlanInv
    <2> QED BY <2>3, <2>4
  <1>5. ResultInv'
    BY <1>3 DEF IInv, ResultInv, Planned
  <1>6. ApartInv'
    BY <1>1 DEF IInv, ApartInv, UnderWay
  <1>7. SavedIsExact'
    <2>1. \A s \in Slot : dest'[s] # None => \E v \in Version : Has(s, v)'
      BY DEF IInv, SavedIsExact, Has
    <2>2. Has(slot, seen[d])' \/ outcome'[d] = outcome[d]
      BY DEF Has
    <2> QED BY <1>3, <2>1, <2>2 DEF IInv, SavedIsExact
  <1>8. CountInv'
    BY DEF IInv, CountInv
  <1> QED BY <1>4, <1>5, <1>6, <1>7, <1>8 DEF IInv

LEMMA PlanNextKeeps == ASSUME IInv, PlanNext PROVE IInv'
  <1> DEFINE d == Head(todo)
  <1>1. /\ todo # <<>> /\ todo' = Tail(todo)
        /\ UNCHANGED <<server, seen, stop, mode, changes, faults>>
    BY DEF PlanNext
  <1>2. d \in Doi /\ todo' \in Seq(Doi)
    BY <1>1, HeadTailProperties DEF IInv, TypeOK
  <1>3. CASE Unavailable(d)
    <2>1. TypeOK'
      BY <1>1, <1>2, <1>3 DEF Unavailable, IInv, TypeOK, files
    <2> QED BY <1>1, <1>2, <1>3, <2>1, QuietFrame DEF Unavailable, IInv, TypeOK
  <1>4. ASSUME seen[d] # None, NEW k \in Counters,
               First(<<Name[d], k>>, seen[d]), used' = used \cup {<<Name[d], k>>},
               \/ AlreadySaved(d, <<Name[d], k>>) \/ PartIsComplete(d, <<Name[d], k>>)
               \/ Queue(d, <<Name[d], k>>)
        PROVE  IInv'
    <2> DEFINE slot == <<Name[d], k>>
    <2>1. slot \in Slot /\ slot[1] = Name[d]
      BY <1>2 DEF Slot
    <2>2. slot \notin used /\ dest[slot] \in {None, Content(seen[d])}
      BY <1>4 DEF First, Free
    <2>3. seen[d] \in Version
      BY <1>2, <1>4 DEF IInv, TypeOK
    <2>4. Content(seen[d]) \in FileType /\ None \in FileType
      BY <2>3, ContentType DEF FileType
    <2>5. used' \subseteq Slot
      BY <1>4, <2>1 DEF IInv, TypeOK
    <2> HIDE DEF d, slot
    <2>6. CASE AlreadySaved(d, slot)
      <3>1. TypeOK'
        BY <1>1, <1>2, <2>1, <2>4, <2>5, <2>6 DEF AlreadySaved, IInv, TypeOK
      <3>2. \A e \in Doi : e # d => outcome'[e] = outcome[e]
        BY <2>6 DEF AlreadySaved, IInv, TypeOK
      <3>3. \A s \in Slot : s # slot => part'[s] = part[s]
        BY <2>6 DEF AlreadySaved, IInv, TypeOK
      <3> QED BY <1>1, <1>2, <1>4, <2>1, <2>2, <2>3, <2>6, <3>1, <3>2, <3>3, PlanFrame
              DEF AlreadySaved, slot
    <2>7. CASE PartIsComplete(d, slot)
      <3>1. part[slot] = Content(seen[d])
        BY <2>7 DEF PartIsComplete, SavedPart
      <3>2. TypeOK'
        BY <1>1, <1>2, <2>1, <2>4, <2>5, <2>7, <3>1 DEF PartIsComplete, IInv, TypeOK
      <3>3. \A e \in Doi : e # d => outcome'[e] = outcome[e]
        BY <2>7 DEF PartIsComplete, IInv, TypeOK
      <3>4. /\ \A s \in Slot : s # slot => dest'[s] = dest[s] /\ part'[s] = part[s]
            /\ dest'[slot] = Content(seen[d])
        BY <2>1, <2>7, <3>1 DEF PartIsComplete, IInv, TypeOK
      <3> QED BY <1>1, <1>2, <1>4, <2>1, <2>2, <2>3, <2>7, <3>2, <3>3, <3>4, PlanFrame
              DEF PartIsComplete, slot
    <2>8. CASE Queue(d, slot)
      <3> DEFINE kept == IF Useless(slot, seen[d]) THEN None ELSE part[slot]
                 from == IF kept = None THEN 0 ELSE Len(kept)
                 new  == [NoTask EXCEPT !.pc = "queued", !.slot = slot,
                                        !.version = seen[d], !.offset = from]
      <3>1. /\ part' = [part EXCEPT ![slot] = kept] /\ task' = [task EXCEPT ![d] = new]
            /\ UNCHANGED <<dest, outcome>> /\ dest[slot] # Content(seen[d])
        BY <2>8 DEF Queue
      <3>2. kept \in FileType
        BY <2>1, <2>4 DEF IInv, TypeOK
      <3>3. from \in Nat
        BY <3>2, LenProperties DEF FileType
      <3>4. kept = None => from = 0
        OBVIOUS
      <3> HIDE DEF kept, from
      <3>5. /\ new \in TaskType /\ new.pc = "queued" /\ new.slot = slot
            /\ new.version = seen[d] /\ new.offset = from
        BY <2>1, <2>3, <3>3, EmptySeq DEF NoTask, TaskType
      <3> HIDE DEF new
      <3>6. TypeOK'
        BY <1>1, <1>2, <2>5, <3>1, <3>2, <3>5 DEF IInv, TypeOK
      <3>7. /\ \A e \in Doi : e # d => task'[e] = task[e]
            /\ task'[d] = new
            /\ \A s \in Slot : s # slot => part'[s] = part[s]
            /\ part'[slot] = kept
        BY <1>2, <2>1, <3>1 DEF IInv, TypeOK
      <3>8. dest[slot] = None /\ (new.offset > 0 => kept # None)
        BY <2>2, <3>1, <3>3, <3>4, <3>5
      <3> QED BY <1>1, <1>2, <1>4, <2>1, <2>2, <2>3, <3>1, <3>5, <3>6, <3>7, <3>8, PlanFrame
              DEF slot
    <2> QED BY <1>4, <2>6, <2>7, <2>8 DEF slot
  <1> QED BY <1>3, <1>4 DEF PlanNext
-----------------------------------------------------------------------------
(* A thread touches only the two files of its plan.                        *)
LEMMA ThreadFrame ==
    ASSUME IInv, NEW d \in Doi, UnderWay(d), NEW new \in TaskType,
           task' = [task EXCEPT ![d] = new],
           new.slot = task[d].slot, new.version = task[d].version,
           new.pc \in {"asking", "writing", "ended"},
           new.pc # "ended" =>
              /\ dest'[new.slot] = None
              /\ new.pc = "writing" =>
                    part'[new.slot] = new.digest /\ new.source \in Version
              /\ new.pc # "writing" /\ new.offset > 0 => part'[new.slot] # None,
           new.pc = "ended" =>
              /\ new.result \in Results
              /\ dest'[new.slot] \in {None, Content(new.version)}
              /\ new.result \in {"downloaded", "resumed"} =>
                    dest'[new.slot] = Content(new.version),
           dest' \in [Slot -> FileType], part' \in [Slot -> FileType],
           \A s \in Slot : s # new.slot => dest'[s] = dest[s] /\ part'[s] = part[s],
           UNCHANGED <<server, todo, seen, used, outcome, stop, mode, changes>>,
           faults' \in Nat
    PROVE  IInv'
  <1>1. /\ task' \in [Doi -> TaskType] /\ task'[d] = new
        /\ \A e \in Doi : e # d => task'[e] = task[e]
    BY DEF IInv, TypeOK
  <1>2. TypeOK'
    BY <1>1 DEF IInv, TypeOK
  <1>3. Planned(d) /\ dest[new.slot] = None /\ new.slot \in Slot
    BY DEF IInv, PlanInv, Planned, TypeOK
  <1>4. seen[d] \in Version /\ new.version = seen[d]
    BY <1>3 DEF Planned, IInv, TypeOK
  <1>5. \A s \in Slot : dest[s] # None => s # new.slot /\ dest'[s] = dest[s]
    BY <1>3
  <1>6. ASSUME NEW e \in Doi, NEW s \in Slot, seen[e] # None, Has(s, seen[e]) PROVE Has(s, seen[e])'
    <2>1. seen[e] \in Version
      BY <1>6 DEF IInv, TypeOK
    <2> QED BY <1>5, <1>6, <2>1, NoneAssumption DEF Has
  <1>7. \A e \in Doi : e # d /\ UnderWay(e) => task[e].slot # new.slot /\ task[e].slot \in Slot
    BY DEF IInv, ApartInv, PlanInv, Planned, TypeOK
  <1>8. PlanInv'
    <2>1. ASSUME NEW e \in Doi, e # d, UnderWay(e)' PROVE UnderWay(e)
      BY <1>1, <2>1 DEF UnderWay
    <2> QED BY <1>1, <1>3, <1>7, <2>1 DEF IInv, PlanInv, Planned, UnderWay
  <1>9. ResultInv'
    <2>1. ASSUME NEW e \in Doi, e # d, task[e].pc = "ended",
                 task[e].result \in {"downloaded", "resumed"}
          PROVE  Planned(e)' /\ Has(task[e].slot, seen[e])'
      <3>1. Planned(e) /\ Has(task[e].slot, seen[e]) /\ task[e].slot \in Slot
        BY <2>1 DEF IInv, ResultInv, Planned, TypeOK
      <3>2. Planned(e)'
        BY <1>1, <2>1, <3>1 DEF Planned
      <3> QED BY <1>6, <3>1, <3>2 DEF Planned
    <2>2. ASSUME NEW e \in Doi, e # d, task'[e].pc = "ended" PROVE task'[e].result \in Results
      BY <1>1, <2>2 DEF IInv, ResultInv
    <2>3. Planned(d)'
      BY <1>1, <1>3 DEF Planned
    <2>4. new.pc = "ended" /\ new.result \in {"downloaded", "resumed"} => Has(new.slot, seen[d])'
      BY <1>4 DEF Has
    <2> QED BY <1>1, <2>1, <2>2, <2>3, <2>4 DEF ResultInv
  <1>10. ApartInv'
    BY <1>1, <1>7 DEF IInv, ApartInv, UnderWay
  <1>11. SavedIsExact'
    <2>1. \A s \in Slot : dest'[s] # None => \E v \in Version : Has(s, v)'
      BY <1>3, <1>4, <1>5 DEF IInv, SavedIsExact, Has
    <2>2. ASSUME NEW e \in Doi, outcome'[e] \in {"ok", "skipped"}
          PROVE  \E s \in used' : s[1] = Name[e] /\ Has(s, seen[e])'
      <3>1. PICK s \in used : s[1] = Name[e] /\ Has(s, seen[e])
        BY <2>2 DEF IInv, SavedIsExact
      <3> QED BY <1>6, <2>2, <3>1 DEF IInv, TypeOK, CountInv
    <2> QED BY <2>1, <2>2 DEF SavedIsExact
  <1>12. CountInv'
    BY DEF IInv, CountInv
  <1> QED BY <1>2, <1>8, <1>9, <1>10, <1>11, <1>12 DEF IInv

LEMMA BeginKeeps == ASSUME IInv, NEW d \in Doi, Begin(d) PROVE IInv'
  <1> DEFINE new == [task[d] EXCEPT !.pc = "asking"]
  <1>1. /\ task' = [task EXCEPT ![d] = new] /\ task[d].pc = "queued"
        /\ UNCHANGED <<server, files, todo, seen, used, outcome, stop, mode, changes, faults>>
    BY DEF Begin, Becomes
  <1>2. task[d] \in TaskType
    BY DEF IInv, TypeOK
  <1>3. /\ new \in TaskType /\ new.pc = "asking" /\ new.slot = task[d].slot
        /\ new.version = task[d].version /\ new.offset = task[d].offset
    BY <1>2 DEF TaskType
  <1> HIDE DEF new
  <1> QED BY <1>1, <1>3, ThreadFrame DEF IInv, TypeOK, PlanInv, UnderWay, files

LEMMA AnswerRangeKeeps == ASSUME IInv, NEW d \in Doi, AnswerRange(d) PROVE IInv'
  <1> DEFINE kept == part[task[d].slot]
             new  == [task[d] EXCEPT !.pc = "writing", !.source = server[d], !.digest = kept]
  <1>1. /\ task' = [task EXCEPT ![d] = new] /\ task[d].pc = "asking" /\ server[d] # None
        /\ UNCHANGED <<server, files, todo, seen, used, outcome, stop, mode, changes, faults>>
    BY DEF AnswerRange
  <1>2. task[d] \in TaskType /\ server[d] \in Version
    BY <1>1 DEF IInv, TypeOK
  <1>3. task[d].offset > 0
    BY <1>2, SizeAssumption DEF AnswerRange, TaskType
  <1>4. task[d].slot \in Slot /\ dest[task[d].slot] = None /\ kept # None
    BY <1>1, <1>3 DEF IInv, TypeOK, PlanInv, Planned, UnderWay
  <1>5. kept \in Seq(Version \X Nat)
    BY <1>4 DEF IInv, TypeOK, FileType
  <1> HIDE DEF kept
  <1>6. /\ new \in TaskType /\ new.pc = "writing" /\ new.slot = task[d].slot
        /\ new.version = task[d].version /\ new.digest = kept /\ new.source = server[d]
    BY <1>2, <1>5 DEF TaskType
  <1> HIDE DEF new
  <1> QED BY <1>1, <1>2, <1>4, <1>6, ThreadFrame DEF IInv, TypeOK, UnderWay, files, kept

LEMMA AnswerWholeKeeps == ASSUME IInv, NEW d \in Doi, AnswerWhole(d) PROVE IInv'
  <1> DEFINE new == [task[d] EXCEPT !.pc = "writing", !.source = server[d],
                                    !.offset = 0, !.digest = <<>>]
  <1>1. /\ task' = [task EXCEPT ![d] = new] /\ task[d].pc = "asking" /\ server[d] # None
        /\ part' = [part EXCEPT ![task[d].slot] = <<>>]
        /\ UNCHANGED <<server, dest, todo, seen, used, outcome, stop, mode, changes, faults>>
    BY DEF AnswerWhole
  <1>2. task[d] \in TaskType /\ server[d] \in Version
    BY <1>1 DEF IInv, TypeOK
  <1>3. task[d].slot \in Slot /\ dest[task[d].slot] = None
    BY <1>1 DEF IInv, TypeOK, PlanInv, Planned, UnderWay
  <1>4. <<>> \in Seq(Version \X Nat)
    BY EmptySeq
  <1>5. /\ new \in TaskType /\ new.pc = "writing" /\ new.slot = task[d].slot
        /\ new.version = task[d].version /\ new.digest = <<>> /\ new.source = server[d]
    BY <1>2, <1>4 DEF TaskType
  <1> HIDE DEF new
  <1>6. /\ part' \in [Slot -> FileType] /\ part'[new.slot] = <<>>
        /\ \A s \in Slot : s # new.slot => part'[s] = part[s]
    BY <1>1, <1>3, <1>4, <1>5 DEF IInv, TypeOK, FileType
  <1> QED BY <1>1, <1>2, <1>3, <1>5, <1>6, ThreadFrame DEF IInv, TypeOK, UnderWay

LEMMA WriteKeeps == ASSUME IInv, NEW d \in Doi, Write(d) PROVE IInv'
  <1> DEFINE chunk == <<task[d].source, Received(d) + 1>>
             more  == Append(task[d].digest, chunk)
             new   == [task[d] EXCEPT !.digest = more]
  <1>1. /\ task[d].pc = "writing"
        /\ part' = [part EXCEPT ![task[d].slot] = Append(part[task[d].slot], chunk)]
        /\ task' = [task EXCEPT ![d] = new]
        /\ UNCHANGED <<server, dest, todo, seen, used, outcome, stop, mode, changes, faults>>
    BY DEF Write
  <1>2. task[d] \in TaskType
    BY DEF IInv, TypeOK
  <1>3. task[d].slot \in Slot /\ dest[task[d].slot] = None /\ part[task[d].slot] = task[d].digest
    BY <1>1 DEF IInv, TypeOK, PlanInv, Planned, UnderWay
  <1>4. task[d].digest \in Seq(Version \X Nat)
    BY <1>2 DEF TaskType
  <1>5. task[d].source \in Version
    BY <1>1 DEF IInv, PlanInv, UnderWay
  <1>6. chunk \in Version \X Nat
    BY <1>4, <1>5, LenProperties DEF Received
  <1>7. more \in Seq(Version \X Nat)
    BY <1>4, <1>6, AppendProperties
  <1> HIDE DEF chunk, more
  <1>8. /\ new \in TaskType /\ new.pc = "writing" /\ new.slot = task[d].slot
        /\ new.version = task[d].version /\ new.digest = more
        /\ new.source = task[d].source
    BY <1>1, <1>2, <1>7 DEF TaskType
  <1> HIDE DEF new
  <1>9. /\ part' \in [Slot -> FileType] /\ part'[new.slot] = more
        /\ \A s \in Slot : s # new.slot => part'[s] = part[s]
    BY <1>1, <1>3, <1>7, <1>8 DEF IInv, TypeOK, FileType, more
  <1> QED BY <1>1, <1>3, <1>5, <1>8, <1>9, ThreadFrame DEF IInv, TypeOK, UnderWay

LEMMA SaveKeeps == ASSUME IInv, NEW d \in Doi, Save(d) PROVE IInv'
  <1> DEFINE how == IF task[d].offset > 0 THEN "resumed" ELSE "downloaded"
             new == [task[d] EXCEPT !.pc = "ended", !.result = how]
  <1>1. /\ task[d].pc = "writing" /\ task[d].digest = Content(task[d].version)
        /\ dest' = [dest EXCEPT ![task[d].slot] = part[task[d].slot]]
        /\ part' = [part EXCEPT ![task[d].slot] = None]
        /\ task' = [task EXCEPT ![d] = new]
        /\ UNCHANGED <<server, todo, seen, used, outcome, stop, mode, changes, faults>>
    BY DEF Save, ReceivedAll, Verified, Ends
  <1>2. task[d] \in TaskType
    BY DEF IInv, TypeOK
  <1>3. /\ task[d].slot \in Slot /\ task[d].version \in Version
        /\ part[task[d].slot] = Content(task[d].version)
    BY <1>1 DEF IInv, TypeOK, PlanInv, Planned, UnderWay
  <1>4. how \in Results
    BY DEF Results
  <1> HIDE DEF how
  <1>5. /\ new \in TaskType /\ new.pc = "ended" /\ new.slot = task[d].slot
        /\ new.version = task[d].version /\ new.result \in Results
    BY <1>2, <1>4 DEF TaskType
  <1> HIDE DEF new
  <1>6. Content(task[d].version) \in FileType /\ None \in FileType
    BY <1>3, ContentType DEF FileType
  <1>7. /\ dest' \in [Slot -> FileType] /\ part' \in [Slot -> FileType]
        /\ dest'[new.slot] = Content(new.version)
        /\ \A s \in Slot : s # new.slot => dest'[s] = dest[s] /\ part'[s] = part[s]
    BY <1>1, <1>3, <1>5, <1>6 DEF IInv, TypeOK
  <1> QED BY <1>1, <1>5, <1>7, ThreadFrame DEF IInv, TypeOK, UnderWay

(* A thread ends without a file.                                           *)
LEMMA EndsKeeps ==
    ASSUME IInv, NEW d \in Doi, NEW r \in {"interrupted", "limited", "failed"},
           UnderWay(d), Ends(d, r), faults' \in Nat,
           UNCHANGED <<server, files, todo, seen, used, outcome, stop, mode, changes>>
    PROVE  IInv'
  <1> DEFINE new == [task[d] EXCEPT !.pc = "ended", !.result = r]
  <1>1. task' = [task EXCEPT ![d] = new] /\ task[d] \in TaskType /\ dest[task[d].slot] = None
    BY DEF Ends, IInv, TypeOK, PlanInv
  <1>2. /\ new \in TaskType /\ new.pc = "ended" /\ new.slot = task[d].slot
        /\ new.version = task[d].version /\ new.result = r
    BY <1>1 DEF TaskType, Results
  <1> HIDE DEF new
  <1> QED BY <1>1, <1>2, ThreadFrame DEF IInv, TypeOK, Results, files

LEMMA OtherEndsKeep ==
    ASSUME IInv, NEW d \in Doi,
           AnswerError(d) \/ Mismatch(d) \/ Stopped(d) \/ Broken(d) \/ Limited(d)
    PROVE  IInv'
  <1>1. UnderWay(d) /\ \E r \in {"interrupted", "limited", "failed"} : Ends(d, r)
    BY DEF AnswerError, Mismatch, ReceivedAll, Stopped, Broken, Limited, Active, UnderWay
  <1>2. faults' \in Nat
    BY DEF AnswerError, Mismatch, Stopped, Broken, Limited, Fault, IInv, TypeOK
  <1>3. UNCHANGED <<server, files, todo, seen, used, outcome, stop, mode, changes>>
    BY DEF AnswerError, Mismatch, Stopped, Broken, Limited
  <1> QED BY <1>1, <1>2, <1>3, EndsKeeps
-----------------------------------------------------------------------------
LEMMA StepKeeps == IInv /\ [Next]_vars => IInv'
  <1>1. ASSUME IInv, UNCHANGED vars PROVE IInv'
    BY <1>1 DEF vars, files, IInv, TypeOK, PlanInv, ResultInv, ApartInv, CountInv,
                SavedIsExact, UnderWay, Planned, Has
  <1>2. ASSUME IInv, NEW d \in Doi, Thread(d) PROVE IInv'
    BY <1>2, BeginKeeps, AnswerRangeKeeps, AnswerWholeKeeps, WriteKeeps, SaveKeeps,
       OtherEndsKeep DEF Thread
  <1> QED BY <1>1, <1>2, StartKeeps, PlanNextKeeps, FinishKeeps, CollectKeeps, OtherEndsKeep,
             ServerChangeKeeps, LookupFailsKeeps, InterruptKeeps, CrashKeeps
          DEF Next, Command, Environment

(* The types of the variables, in every reachable state.                    *)
THEOREM TypeCorrect == Spec => []TypeOK
  <1>1. IInv => TypeOK
    BY DEF IInv
  <1> QED BY <1>1, InitInv, StepKeeps, PTL DEF Spec

(* Whatever a `.part` held and whatever broke a run: a file with a PDF's    *)
(* name is one version, whole, and what is counted as saved is there.       *)
THEOREM SavedExactly == Spec => []SavedIsExact
  <1>1. IInv => SavedIsExact
    BY DEF IInv
  <1> QED BY <1>1, InitInv, StepKeeps, PTL DEF Spec

(* No step of any thread, for any number of them, overwrites a file.        *)
THEOREM FilesStay == Spec => NeverOverwritten
  <1> DEFINE Same == \A slot \in Slot : dest[slot] # None => dest'[slot] = dest[slot]
  <1>1. ASSUME IInv, PlanNext PROVE Same
    BY <1>1 DEF PlanNext, Unavailable, AlreadySaved, PartIsComplete, Queue, First, Free, files,
                IInv, TypeOK
  <1>2. ASSUME IInv, NEW d \in Doi, Save(d) PROVE Same
    BY <1>2 DEF Save, ReceivedAll, IInv, TypeOK, PlanInv, UnderWay
  <1>3. ASSUME Next, ~PlanNext, \A d \in Doi : ~Save(d) PROVE dest' = dest
    BY <1>3 DEF Next, Command, Environment, Thread, Start, LookupFails, ServerChange, Begin,
                AnswerRange, AnswerWhole, AnswerError, Write, Mismatch, Stopped, Broken,
                Limited, Collect, Interrupt, Finish, Crash, files
  <1>4. IInv /\ [Next]_vars => Same
    BY <1>1, <1>2, <1>3 DEF vars
  <1> QED BY <1>4, InitInv, StepKeeps, PTL DEF Spec, NeverOverwritten

-----------------------------------------------------------------------------
(* The dashboard.                                                          *)
Counts  == [lib: Nat, age: Nat]
Numbers == [left: Nat, own: Counts, list: Nat, rows: Nat, listed: Nat, vault: Counts]

(* While they are good for an entry, its own numbers and the vault's are    *)
(* at most as old as what is left of its time allows.                       *)
Fresh(s) == s.left > 0 => s.own.age + s.left <= TTL /\ s.vault.age + s.left <= 2 * TTL - 1

Entries == [in: BOOLEAN, stats: Numbers]
Locals  == [pc: {"idle", "changed", "commit", "items", "refresh"} \cup Viewing,
            key: Key \cup {FreeRequest.key}, filter: Filters, stats: Numbers,
            reload: BOOLEAN, shared: BOOLEAN, had: BOOLEAN]

Pages   == [filter: Filters, away: BOOLEAN, shows: Filters, own: Nat, list: Nat, rows: Nat,
            listed: Nat, vault: Nat, current: BOOLEAN]

FreshInv ==
    /\ lib \in Nat /\ list \in [User -> Nat] /\ page \in [User -> Pages]
    /\ cache \in [Key -> Entries]
    /\ req \in [Request -> Locals]
    /\ \A r \in Request : req[r].pc \notin {"idle", "changed"} => req[r].key \in Key
    /\ \A k \in Key : Fresh(cache[k].stats)
    /\ \A r \in Request : Fresh(req[r].stats)

(* What a step does with a cached entry or with the numbers of a request.   *)
LEMMA NoStatsFresh == NoStats \in Numbers /\ NoStats.left = 0 /\ Fresh(NoStats)
BY DEF NoStats, Never, Numbers, Counts, Fresh

LEMMA ShownFresh ==
    ASSUME NEW s \in Numbers
    PROVE  Shown(s) \in Numbers /\ Fresh(Shown(s))
<1>. DEFINE own == [s.own EXCEPT !.age = 0]
            vault == [s.vault EXCEPT !.age = 0]
<1>1. own \in Counts /\ vault \in Counts
  BY DEF Numbers, Counts
<1>2. Shown(s) = [s EXCEPT !.left = 0, !.own = own, !.vault = vault]
  BY DEF Shown, Numbers, Counts
<1>. HIDE DEF own, vault
<1>3. Shown(s) \in Numbers
  <2>1. \A n \in Nat : [s EXCEPT !.left = n, !.own = own, !.vault = vault] \in Numbers
    BY <1>1 DEF Numbers
  <2>. QED BY <1>2, <2>1
<1>4. Shown(s).left = 0
  BY <1>2 DEF Numbers
<1>. QED BY <1>3, <1>4 DEF Fresh

LEMMA AgedFresh ==
    ASSUME NEW s \in Numbers, Fresh(s)
    PROVE  Aged(s) \in Numbers /\ Fresh(Aged(s))
<1>1. CASE s.left <= 1
  BY <1>1, ShownFresh DEF Aged
<1>2. CASE ~(s.left <= 1)
  <2>1. ASSUME NEW c \in Counts
        PROVE  Older(c) \in Counts /\ Older(c).age <= c.age + 1
    BY <2>1 DEF Older, Counts
  <2>2. s.own \in Counts /\ s.vault \in Counts /\ s.left \in Nat
    BY DEF Numbers
  <2>. DEFINE own == Older(s.own)
              vault == Older(s.vault)
  <2>3. /\ own \in Counts /\ own.age \in Nat /\ own.age <= s.own.age + 1
        /\ vault \in Counts /\ vault.age \in Nat /\ vault.age <= s.vault.age + 1
        /\ s.own.age \in Nat /\ s.vault.age \in Nat
    BY <2>1, <2>2 DEF Counts
  <2>4. Aged(s) = [s EXCEPT !.left = s.left - 1, !.own = own, !.vault = vault]
    BY <1>2 DEF Aged
  <2>. HIDE DEF own, vault
  <2>5. Aged(s) \in Numbers
    <3>1. s.left - 1 \in Nat
      BY <1>2, <2>2
    <3>. QED BY <2>3, <2>4, <3>1 DEF Numbers
  <2>6. Aged(s).left = s.left - 1 /\ Aged(s).own = own /\ Aged(s).vault = vault
    BY <2>4 DEF Numbers
  <2>. QED BY <1>2, <2>2, <2>3, <2>5, <2>6, TTLAssumption DEF Fresh, TTLAssumption
<1>. QED BY <1>1, <1>2

LEMMA FreeLocals ==
    /\ FreeRequest \in Locals
    /\ FreeRequest.pc = "idle" /\ FreeRequest.stats = NoStats
BY NoStatsFresh DEF FreeRequest, Locals, Viewing, Filters

(* One request takes a step that leaves cache and lists alone.              *)
LEMMA OneRequest ==
    ASSUME FreshInv, NEW r \in Request, NEW t \in Locals,
           t.pc \notin {"idle", "changed"} => t.key \in Key,
           Fresh(t.stats),
           req' = [req EXCEPT ![r] = t]
    PROVE  /\ req' \in [Request -> Locals]
           /\ \A q \in Request : req'[q].pc \notin {"idle", "changed"} => req'[q].key \in Key
           /\ \A q \in Request : Fresh(req'[q].stats)
BY DEF FreshInv

LEMMA FreshInit == ASSUME StatsInit PROVE FreshInv
<1>1. NoEntry \in Entries /\ NoEntry.stats = NoStats
  BY NoStatsFresh DEF NoEntry, Entries
<1>2. cache \in [Key -> Entries] /\ \A k \in Key : cache[k].stats = NoStats
  BY <1>1 DEF StatsInit
<1>3. /\ req \in [Request -> Locals]
      /\ \A r \in Request : req[r].pc = "idle" /\ req[r].stats = NoStats
  BY FreeLocals DEF StatsInit
<1>4. page \in [User -> Pages]
  BY DEF StatsInit, Pages, Filters
<1>. QED BY <1>2, <1>3, <1>4, NoStatsFresh DEF StatsInit, FreshInv

(* Ways to begin.                                                           *)
LEMMA Beginnings ==
    ASSUME FreshInv, NEW r \in Request, NEW u \in User, NEW f \in Filters, NEW pc,
           NEW reload \in BOOLEAN,
           \/ View(r, u, f, reload)
           \/ pc \in {"refresh", "commit", "items"} /\ Turn(r, u, pc)
    PROVE  /\ req' \in [Request -> Locals]
           /\ \A q \in Request : req'[q].pc \notin {"idle", "changed"} => req'[q].key \in Key
           /\ \A q \in Request : Fresh(req'[q].stats)
<1>1. CASE View(r, u, f, reload)
  <2>. DEFINE t == [FreeRequest EXCEPT !.pc = "lookup", !.filter = f,
                                !.reload = reload, !.key = <<u, Available(u, f)>>]
  <2>1. <<u, Available(u, f)>> \in Key
    BY DEF Available, Key, Filters
  <2>2. t \in Locals /\ t.key = <<u, Available(u, f)>> /\ t.stats = NoStats
    BY <2>1, FreeLocals DEF Locals, Viewing
  <2>3. req' = [req EXCEPT ![r] = t]
    BY <1>1 DEF View
  <2>. HIDE DEF t
  <2>. QED BY <2>1, <2>2, <2>3, OneRequest, NoStatsFresh
<1>2. CASE pc \in {"refresh", "commit", "items"} /\ Turn(r, u, pc)
  <2>. DEFINE t == [FreeRequest EXCEPT !.pc = pc, !.key = <<u, "own">>]
  <2>1. <<u, "own">> \in Key
    BY DEF Key, Filters
  <2>2. t \in Locals /\ t.key = <<u, "own">> /\ t.stats = NoStats
    BY <1>2, <2>1, FreeLocals DEF Locals
  <2>3. req' = [req EXCEPT ![r] = t]
    BY <1>2 DEF Turn
  <2>. HIDE DEF t
  <2>. QED BY <2>1, <2>2, <2>3, OneRequest, NoStatsFresh
<1>. QED BY <1>1, <1>2

(* Ways to end.                                                             *)
LEMMA Endings ==
    ASSUME FreshInv, NEW r \in Request,
           \/ req' = [req EXCEPT ![r] = FreeRequest]
           \/ req' = [req EXCEPT ![r] = [FreeRequest EXCEPT !.pc = "changed"]]
    PROVE  /\ req' \in [Request -> Locals]
           /\ \A q \in Request : req'[q].pc \notin {"idle", "changed"} => req'[q].key \in Key
           /\ \A q \in Request : Fresh(req'[q].stats)
<1>1. CASE req' = [req EXCEPT ![r] = FreeRequest]
  BY <1>1, FreeLocals, NoStatsFresh, OneRequest
<1>2. CASE req' = [req EXCEPT ![r] = [FreeRequest EXCEPT !.pc = "changed"]]
  <2>. DEFINE t == [FreeRequest EXCEPT !.pc = "changed"]
  <2>1. t \in Locals /\ t.pc = "changed" /\ t.stats = NoStats
    BY FreeLocals DEF Locals
  <2>2. req' = [req EXCEPT ![r] = t]
    BY <1>2
  <2>. HIDE DEF t
  <2>. QED BY <2>1, <2>2, OneRequest, NoStatsFresh
<1>. QED BY <1>1, <1>2

(* The steps of a view.                                                     *)
LEMMA Counting ==
    ASSUME FreshInv, NEW r \in Request,
           \/ Lookup(r) \/ CountAll(r) \/ CountSummary(r)
           \/ CountJournals(r) \/ CountVault(r)
    PROVE  FreshInv'
<1>1. UNCHANGED <<lib, list, cache, page>>
  BY DEF Lookup, CountAll, CountSummary, CountJournals,
        CountVault
<1>. DEFINE s == req[r].stats
<1>2. /\ req \in [Request -> Locals] /\ req[r] \in Locals /\ s \in Numbers /\ Fresh(s)
      /\ lib \in Nat /\ TTL \in Nat \ {0}
  BY TTLAssumption DEF FreshInv, Locals, TTLAssumption
<1>3. req[r].key \in Key
  BY DEF FreshInv, Lookup, CountAll, CountSummary, CountJournals,
        CountVault
<1>4. Now \in Counts /\ Now.age = 0 /\ Listed(r) \in Nat
  BY <1>2, <1>3 DEF Now, Counts, Listed, Key, FreshInv
<1>. SUFFICES \E t \in Locals : /\ t.key \in Key /\ Fresh(t.stats)
                                /\ req' = [req EXCEPT ![r] = t]
  <2>1. ASSUME NEW t \in Locals, t.key \in Key, Fresh(t.stats), req' = [req EXCEPT ![r] = t]
        PROVE  FreshInv'
    <3>1. /\ req' \in [Request -> Locals]
          /\ \A q \in Request : req'[q].pc \notin {"idle", "changed"} => req'[q].key \in Key
          /\ \A q \in Request : Fresh(req'[q].stats)
      BY <2>1, OneRequest
    <3>. QED BY <1>1, <3>1 DEF FreshInv
  <2>. QED BY <2>1
(* A step that writes stats and pc of the request.                          *)
<1>5. ASSUME NEW st \in Numbers, Fresh(st), NEW pc \in Viewing, NEW sh \in BOOLEAN,
             req' = [req EXCEPT ![r] = [req[r] EXCEPT !.pc = pc, !.shared = sh, !.stats = st]]
      PROVE  \E t \in Locals : /\ t.key \in Key /\ Fresh(t.stats)
                               /\ req' = [req EXCEPT ![r] = t]
  <2>. DEFINE t == [req[r] EXCEPT !.pc = pc, !.shared = sh, !.stats = st]
  <2>1. t \in Locals /\ t.key = req[r].key /\ t.stats = st
    BY <1>2, <1>5 DEF Locals
  <2>. HIDE DEF t
  <2>. QED BY <1>3, <1>5, <2>1 DEF t
<1>6. CASE Lookup(r)
  <2>. DEFINE all == <<req[r].key[1], "all">>
              sh  == req[r].key[2] # "all" /\ Live(all)
              new == [NoStats EXCEPT !.left = TTL,
                                     !.vault = IF sh THEN cache[all].stats.own
                                               ELSE NoStats.vault]
  <2>1. all \in Key /\ sh \in BOOLEAN
    BY <1>3 DEF Key, Filters
  <2>2. CASE req' = [req EXCEPT ![r] =
                       [req[r] EXCEPT !.pc = "render",
                                      !.stats = Shown(cache[req[r].key].stats)]]
    <3>. DEFINE st == Shown(cache[req[r].key].stats)
    <3>1. st \in Numbers /\ Fresh(st)
      BY <1>3, ShownFresh DEF FreshInv, Entries
    <3>2. req[r].shared \in BOOLEAN /\ "render" \in Viewing
      BY <1>2 DEF Locals, Viewing
    <3>3. req' = [req EXCEPT ![r] = [req[r] EXCEPT !.pc = "render", !.shared = req[r].shared,
                                                   !.stats = st]]
      BY <1>2, <2>2 DEF Locals
    <3>. HIDE DEF st
    <3>. QED BY <1>5, <3>1, <3>2, <3>3
  <2>3. CASE req' = [req EXCEPT ![r] = [req[r] EXCEPT !.pc = "count", !.shared = sh, !.stats = new]]
    <3>. DEFINE own == cache[all].stats.own
                vault == IF sh THEN own ELSE NoStats.vault
    <3>1. /\ cache[all].stats \in Numbers /\ Fresh(cache[all].stats)
          /\ own \in Counts /\ own.age \in Nat
      BY <2>1 DEF FreshInv, Entries, Numbers, Counts
    <3>2. sh => own.age + 1 <= TTL
      <4>1. cache[all].stats.left \in Nat
        BY <3>1 DEF Numbers
      <4>. QED BY <1>2, <3>1, <4>1 DEF Live, Fresh
    <3>3. NoStats \in Numbers /\ NoStats.own.age = 0 /\ NoStats.vault.age = 0
      BY NoStatsFresh DEF NoStats, Never
    <3>4. vault \in Counts /\ vault.age \in Nat /\ vault.age + 1 <= TTL
      <4>. HIDE DEF own, sh
      <4>1. NoStats.vault \in Counts
        BY <3>3 DEF Numbers
      <4>. QED BY <1>2, <3>1, <3>2, <3>3, <4>1
    <3>5. new = [NoStats EXCEPT !.left = TTL, !.vault = vault]
      OBVIOUS
    <3>. HIDE DEF new, vault, own, sh
    <3>6. new \in Numbers /\ new.left = TTL /\ new.vault = vault /\ new.own.age = 0
      BY <1>2, <3>3, <3>4, <3>5 DEF Numbers
    <3>7. Fresh(new)
      BY <1>2, <3>4, <3>6 DEF Fresh
    <3>8. "count" \in Viewing
      BY DEF Viewing
    <3>. QED BY <1>5, <2>1, <2>3, <3>6, <3>7, <3>8
  <2>. QED BY <1>6, <2>2, <2>3 DEF Lookup
<1>7. ASSUME NEW st \in Numbers, Fresh(st), NEW pc \in Viewing,
             req' = [req EXCEPT ![r] = [req[r] EXCEPT !.pc = pc, !.stats = st]]
      PROVE  \E t \in Locals : /\ t.key \in Key /\ Fresh(t.stats)
                               /\ req' = [req EXCEPT ![r] = t]
  <2>1. req[r].shared \in BOOLEAN
    BY <1>2 DEF Locals
  <2>2. req' = [req EXCEPT ![r] = [req[r] EXCEPT !.pc = pc, !.shared = req[r].shared,
                                                 !.stats = st]]
    BY <1>2, <1>7 DEF Locals
  <2>. QED BY <1>5, <1>7, <2>1, <2>2
<1>8. CASE CountAll(r)
  <2>. DEFINE st == [s EXCEPT !.own = Now, !.rows = lib, !.vault = Now]
  <2>1. st \in Numbers /\ st.left = s.left /\ st.own = Now /\ st.vault = Now
        /\ s.left \in Nat
    BY <1>2, <1>4 DEF Numbers
  <2>2. Fresh(st)
    <3>. HIDE DEF st
    <3>. QED BY <1>2, <1>4, <2>1 DEF Fresh, Numbers, Counts
  <2>3. req' = [req EXCEPT ![r] = [req[r] EXCEPT !.pc = "store", !.stats = st]]
    BY <1>2, <1>8 DEF CountAll, Locals
  <2>. HIDE DEF st
  <2>. QED BY <1>7, <2>1, <2>2, <2>3 DEF Viewing
<1>9. CASE CountSummary(r)
  <2>. DEFINE st == [s EXCEPT !.own = Now, !.list = Listed(r)]
  <2>1. st \in Numbers /\ st.left = s.left /\ st.own = Now /\ st.vault = s.vault
        /\ s.left \in Nat
    BY <1>2, <1>4 DEF Numbers
  <2>2. Fresh(st)
    <3>. HIDE DEF st
    <3>. QED BY <1>2, <1>4, <2>1 DEF Fresh, Numbers, Counts
  <2>3. req' = [req EXCEPT ![r] = [req[r] EXCEPT !.pc = "journals", !.stats = st]]
    BY <1>2, <1>9 DEF CountSummary, Locals
  <2>. HIDE DEF st
  <2>. QED BY <1>7, <2>1, <2>2, <2>3 DEF Viewing
<1>10. CASE CountJournals(r)
  <2>. DEFINE st == [s EXCEPT !.rows = lib, !.listed = Listed(r)]
              pc == IF req[r].shared THEN "store" ELSE "vault"
  <2>1. st \in Numbers /\ st.left = s.left /\ st.own = s.own /\ st.vault = s.vault
    BY <1>2, <1>4 DEF Numbers
  <2>2. Fresh(st) /\ pc \in Viewing
    BY <1>2, <2>1 DEF Fresh, Viewing
  <2>3. req' = [req EXCEPT ![r] = [req[r] EXCEPT !.pc = pc, !.stats = st]]
    BY <1>2, <1>10 DEF CountJournals, Locals
  <2>. HIDE DEF st, pc
  <2>. QED BY <1>7, <2>1, <2>2, <2>3
<1>11. CASE CountVault(r)
  <2>. DEFINE st == [s EXCEPT !.vault = Now]
  <2>1. st \in Numbers /\ st.left = s.left /\ st.own = s.own /\ st.vault = Now
        /\ s.left \in Nat
    BY <1>2, <1>4 DEF Numbers
  <2>2. Fresh(st)
    <3>. HIDE DEF st
    <3>. QED BY <1>2, <1>4, <2>1 DEF Fresh, Numbers, Counts
  <2>3. req' = [req EXCEPT ![r] = [req[r] EXCEPT !.pc = "store", !.stats = st]]
    BY <1>2, <1>11 DEF CountVault, Locals
  <2>. HIDE DEF st
  <2>. QED BY <1>7, <2>1, <2>2, <2>3 DEF Viewing
<1>. QED BY <1>6, <1>8, <1>9, <1>10, <1>11

LEMMA StoreFresh ==
    ASSUME FreshInv, NEW r \in Request, Store(r)
    PROVE  FreshInv'
<1>. DEFINE s == req[r].stats
<1>1. /\ req[r] \in Locals /\ s \in Numbers /\ Fresh(s) /\ req[r].key \in Key
      /\ cache \in [Key -> Entries]
  BY DEF FreshInv, Locals, Store
<1>2. ASSUME NEW e \in Entries, Fresh(e.stats), cache' = [cache EXCEPT ![req[r].key] = e]
      PROVE  cache' \in [Key -> Entries] /\ \A k \in Key : Fresh(cache'[k].stats)
  BY <1>1, <1>2 DEF FreshInv
<1>3. Expired \in Entries /\ Fresh(Expired.stats)
  BY NoStatsFresh DEF Expired, Entries
<1>4. cache' \in [Key -> Entries] /\ \A k \in Key : Fresh(cache'[k].stats)
  <2>. DEFINE e == [in |-> TRUE, stats |-> [s EXCEPT !.left = Remaining(r)]]
  <2>1. [s EXCEPT !.left = Remaining(r)] = s
    BY <1>1 DEF Remaining, Numbers
  <2>2. e.stats = s /\ e \in Entries
    BY <1>1, <2>1 DEF Entries
  <2>3. \/ cache' = [cache EXCEPT ![req[r].key] = Expired]
        \/ cache' = [cache EXCEPT ![req[r].key] = e]
    BY DEF Store
  <2>. HIDE DEF e
  <2>. QED BY <1>1, <1>2, <1>3, <2>2, <2>3
<1>5. /\ req' \in [Request -> Locals]
      /\ \A q \in Request : req'[q].pc \notin {"idle", "changed"} => req'[q].key \in Key
      /\ \A q \in Request : Fresh(req'[q].stats)
  <2>. DEFINE st == Shown(s)
              t  == [req[r] EXCEPT !.pc = "render", !.shared = FALSE, !.stats = st]
  <2>1. st \in Numbers /\ Fresh(st)
    BY <1>1, ShownFresh
  <2>2. req' = [req EXCEPT ![r] = t]
    BY <1>1 DEF Store, FreshInv, Locals
  <2>. HIDE DEF st
  <2>3. t \in Locals /\ t.key = req[r].key /\ t.stats = st
    BY <1>1, <2>1 DEF Locals, Viewing
  <2>. HIDE DEF t
  <2>. QED BY <1>1, <2>1, <2>2, <2>3, OneRequest
<1>. QED BY <1>4, <1>5 DEF Store, FreshInv

LEMMA TickFresh ==
    ASSUME FreshInv, Tick
    PROVE  FreshInv'
<1>1. UNCHANGED <<lib, list, page>>
  BY DEF Tick
<1>2. ASSUME NEW k \in Key PROVE cache'[k] \in Entries /\ Fresh(cache'[k].stats)
  <2>1. cache[k] \in Entries /\ cache[k].stats \in Numbers /\ Fresh(cache[k].stats)
    BY DEF FreshInv, Entries
  <2>2. Expired \in Entries /\ Fresh(Expired.stats)
    BY NoStatsFresh DEF Expired, Entries
  <2>. DEFINE st == Aged(cache[k].stats)
              e  == [cache[k] EXCEPT !.stats = st]
  <2>3. st \in Numbers /\ Fresh(st)
    BY <2>1, AgedFresh
  <2>4. cache'[k] = Expired \/ cache'[k] = e \/ cache'[k] = cache[k]
    BY DEF Tick
  <2>. HIDE DEF st
  <2>5. e \in Entries /\ e.stats = st
    BY <2>1, <2>3 DEF Entries
  <2>. HIDE DEF e
  <2>. QED BY <2>1, <2>2, <2>3, <2>4, <2>5
<1>3. ASSUME NEW r \in Request
      PROVE  /\ req'[r] \in Locals /\ Fresh(req'[r].stats)
             /\ req'[r].pc \notin {"idle", "changed"} => req'[r].key \in Key
  <2>1. /\ req[r] \in Locals /\ req[r].stats \in Numbers /\ Fresh(req[r].stats)
        /\ req[r].pc \notin {"idle", "changed"} => req[r].key \in Key
    BY DEF FreshInv, Locals
  <2>. DEFINE st == Aged(req[r].stats)
              t  == [req[r] EXCEPT !.stats = st]
  <2>2. st \in Numbers /\ Fresh(st)
    BY <2>1, AgedFresh
  <2>3. req'[r] = t \/ req'[r] = req[r]
    BY DEF Tick
  <2>. HIDE DEF st
  <2>4. t \in Locals /\ t.stats = st /\ t.pc = req[r].pc /\ t.key = req[r].key
    BY <2>1, <2>2 DEF Locals
  <2>. HIDE DEF t
  <2>. QED BY <2>1, <2>2, <2>3, <2>4
<1>4. cache' = [k \in Key |-> cache'[k]] /\ req' = [r \in Request |-> req'[r]]
  BY DEF Tick
<1>5. cache' \in [Key -> Entries] /\ req' \in [Request -> Locals]
  BY <1>2, <1>3, <1>4
<1>. QED BY <1>1, <1>2, <1>3, <1>5 DEF FreshInv

LEMMA FreshStays ==
    ASSUME FreshInv, [StatsNext]_statsVars
    PROVE  FreshInv'
<1>. DEFINE Locally == /\ req' \in [Request -> Locals]
                       /\ \A q \in Request :
                             req'[q].pc \notin {"idle", "changed"} => req'[q].key \in Key
                       /\ \A q \in Request : Fresh(req'[q].stats)
(* The lists and the library only count up, and entries only go.            *)
<1>1. ASSUME Locally, lib' \in {lib, lib + 1},
             \/ UNCHANGED list
             \/ \E u \in User : list' = [list EXCEPT ![u] = list[u] + 1],
             \/ UNCHANGED cache
             \/ cache' = [k \in Key |-> NoEntry]
             \/ \E k \in Key : cache' = [cache EXCEPT ![k] = NoEntry],
             UNCHANGED page \/ NewRevision \/ page' \in [User -> Pages]
      PROVE  FreshInv'
  <2>1. lib' \in Nat /\ list' \in [User -> Nat]
    BY <1>1 DEF FreshInv
  <2>2. NoEntry \in Entries /\ Fresh(NoEntry.stats)
    BY NoStatsFresh DEF NoEntry, Entries
  <2>3. cache' \in [Key -> Entries] /\ \A k \in Key : Fresh(cache'[k].stats)
    BY <1>1, <2>2 DEF FreshInv
  <2>4. page' \in [User -> Pages]
    <3>1. \A u \in User : [page[u] EXCEPT !.current = FALSE] \in Pages
      BY DEF FreshInv, Pages
    <3>. QED BY <1>1, <3>1 DEF FreshInv, NewRevision
  <2>. QED BY <1>1, <2>1, <2>3, <2>4 DEF FreshInv
<1>2. ASSUME NEW r \in Request, NEW u \in User, NEW f \in Filters,
             NEW reload \in BOOLEAN, View(r, u, f, reload)
      PROVE  Locally
  BY <1>2, Beginnings
<1>3. ASSUME NEW r \in Request, NEW u \in User, NEW pc \in {"refresh", "commit", "items"},
             Turn(r, u, pc)
      PROVE  Locally
  BY <1>3, Beginnings DEF Filters
<1>4. ASSUME NEW r \in Request,
             \/ req' = [req EXCEPT ![r] = FreeRequest]
             \/ req' = [req EXCEPT ![r] = [FreeRequest EXCEPT !.pc = "changed"]]
      PROVE  Locally
  BY <1>4, Endings
<1>5. ASSUME UNCHANGED req PROVE Locally
  BY <1>5 DEF FreshInv
<1>. HIDE DEF Locally
<1>6. ASSUME NEW r \in Request, NEW u \in User, NEW f \in Filters, Open(r, u, f)
      PROVE  FreshInv'
  BY <1>1, <1>2, <1>6 DEF Open
<1>7. ASSUME NEW r \in Request, NEW u \in User, Poll(r, u) \/ Fallback(r, u)
      PROVE  FreshInv'
  <2>1. \E f \in Filters, reload \in BOOLEAN : View(r, u, f, reload)
    BY <1>7 DEF Poll, Fallback, FreshInv, Pages
  <2>. QED BY <1>1, <1>2, <1>7, <2>1 DEF Poll, Fallback
<1>8. ASSUME NEW r \in Request, NEW u \in User,
             CreateList(r, u) \/ CheckRevision(r, u) \/ DeleteList(r, u)
      PROVE  FreshInv'
  <2>1. Locally
    BY <1>3, <1>8 DEF CreateList, CheckRevision, DeleteList
  <2>. QED BY <1>1, <1>8, <2>1 DEF CreateList, CheckRevision, DeleteList
<1>9. ASSUME NEW r \in Request, ChangeLibrary(r) PROVE FreshInv'
  BY <1>1, <1>4, <1>9 DEF ChangeLibrary
<1>10. ASSUME NEW r \in Request, RefreshFails(r) \/ Invalidate(r) PROVE FreshInv'
  BY <1>1, <1>4, <1>10 DEF RefreshFails, Invalidate
<1>11. ASSUME NEW r \in Request, Render(r) PROVE FreshInv'
  <2>. DEFINE s == req[r].stats
              away == page[req[r].key[1]].away
              p == [filter |-> req[r].filter, away |-> away, shows |-> req[r].key[2],
                    own |-> s.own.lib, list |-> s.list, rows |-> s.rows,
                    listed |-> s.listed, vault |-> s.vault.lib, current |-> TRUE]
  <2>1. /\ req[r].filter \in Filters /\ req[r].key[2] \in Filters /\ s \in Numbers
        /\ req[r].key[1] \in User /\ away \in BOOLEAN
    BY <1>11 DEF Render, FreshInv, Locals, Key, Pages
  <2>2. p \in Pages
    BY <2>1 DEF Pages, Numbers, Counts
  <2>3. page' = page \/ page' = [page EXCEPT ![req[r].key[1]] = p]
    BY <1>11 DEF Render
  <2>. HIDE DEF p
  <2>4. page' \in [User -> Pages]
    BY <2>2, <2>3 DEF FreshInv
  <2>. QED BY <1>1, <1>4, <1>11, <2>4 DEF Render
<1>12. ASSUME NEW r \in Request, CommitList(r) PROVE FreshInv'
  <2>1. req[r].key[1] \in User
    BY <1>12 DEF CommitList, FreshInv, Key
  <2>. QED BY <1>1, <1>3, <1>4, <1>12, <2>1 DEF CommitList
<1>13. ASSUME NEW r \in Request, CopyItems(r) PROVE FreshInv'
  <2>. DEFINE t == [req[r] EXCEPT !.pc = "refresh", !.had = cache[req[r].key].in]
  <2>1. /\ req[r] \in Locals /\ req[r].key \in Key /\ Fresh(req[r].stats)
        /\ cache[req[r].key].in \in BOOLEAN
    BY <1>13 DEF CopyItems, FreshInv, Entries
  <2>2. t \in Locals /\ t.key = req[r].key /\ t.stats = req[r].stats
    BY <2>1 DEF Locals
  <2>3. req' = [req EXCEPT ![r] = t]
    BY <1>13 DEF CopyItems, FreshInv
  <2>. HIDE DEF t
  <2>4. Locally
    BY <2>1, <2>2, <2>3, OneRequest DEF Locally
  <2>. QED BY <1>1, <1>13, <2>4 DEF CopyItems
<1>14. ASSUME NEW r \in Request, Refresh(r) PROVE FreshInv'
  <2>1. req[r].key \in Key
    BY <1>14 DEF Refresh, FreshInv
  <2>. QED BY <1>1, <1>4, <1>14, <2>1 DEF Refresh
<1>15. ASSUME HostChange PROVE FreshInv'
  BY <1>1, <1>5, <1>15 DEF HostChange
<1>16. ASSUME NEW u \in User, Look(u) PROVE FreshInv'
  <2>1. \A away \in BOOLEAN : [page[u] EXCEPT !.away = away] \in Pages
    BY DEF FreshInv, Pages
  <2>2. page[u].away \in BOOLEAN /\ page \in [User -> Pages]
    BY DEF FreshInv, Pages
  <2>3. page' \in [User -> Pages]
    BY <1>16, <2>1, <2>2 DEF Look
  <2>. QED BY <1>1, <1>5, <1>16, <2>3 DEF Look
<1>17. ASSUME UNCHANGED statsVars PROVE FreshInv'
  BY <1>1, <1>5, <1>17 DEF statsVars
<1>. QED
  BY <1>6, <1>7, <1>8, <1>9, <1>10, <1>11, <1>12, <1>13, <1>14, <1>15, <1>16, <1>17, Counting, StoreFresh,
     TickFresh DEF StatsNext, Step

(* No cached number is served beyond its time, whatever threads count and   *)
(* however slowly they do.                                                  *)
THEOREM NumbersAreFresh == StatsSpec => []BoundedStaleness
<1>1. FreshInv => BoundedStaleness
  <2>. SUFFICES ASSUME FreshInv, NEW k \in Key, Live(k)
                PROVE  cache[k].stats.own.age < TTL /\ cache[k].stats.vault.age < 2 * TTL - 1
    BY DEF BoundedStaleness
  <2>1. /\ cache[k].stats.left \in Nat /\ cache[k].stats.left > 0
        /\ cache[k].stats.own.age \in Nat /\ cache[k].stats.vault.age \in Nat
        /\ Fresh(cache[k].stats)
    BY DEF FreshInv, Entries, Numbers, Counts, Live
  <2>. QED BY <2>1, TTLAssumption DEF Fresh, TTLAssumption
<1>2. StatsInit => FreshInv
  BY FreshInit
<1>3. FreshInv /\ [StatsNext]_statsVars => FreshInv'
  BY FreshStays
<1>. QED BY <1>1, <1>2, <1>3, PTL DEF StatsSpec
=============================================================================

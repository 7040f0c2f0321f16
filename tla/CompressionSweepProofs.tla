------------------------ MODULE CompressionSweepProofs ------------------------
(***************************************************************************)
(* Proofs about CompressionSweep for every library, number of workers, page *)
(* size and budget: no stop, crash or order of completion makes a sweep     *)
(* skip a row, and a sweep that is recorded as complete is complete.        *)
(***************************************************************************)
EXTENDS CompressionSweep, FiniteSetTheorems, TLAPS

IInv == TypeOK /\ SweepInv

LEMMA InitInv == ASSUME Init PROVE IInv
  <1>1. /\ \A p \in Seed : row[p].version = 1 /\ row[p].marker = 0 /\ row[p].live
        /\ \A p \in Pdf \ Seed : row[p].version = 0 /\ row[p].marker = 0 /\ ~row[p].live
    BY IdAssumption DEF Init
  <1>2. \A p \in Seed : Eligible(p) /\ 0 < p
    BY <1>1, IdAssumption DEF Eligible
  <1>3. row \in [Pdf -> RowType]
    BY DEF Init, RowType
  <1>4. mode \in {"full", "capped", "pilot", "approved", "serial"} /\ Results = {}
    BY ModeAssumption DEF Init, Results, NoBatch
  <1>5. stage \in [Pdf -> Stages] /\ seen \in [Pdf -> Nat] /\ owed \subseteq Pdf
    BY IdAssumption DEF Init, NoBatch, Stages
  <1>6. 0 \in 0 .. MaxChanges /\ 0 \in 0 .. MaxHalts
    BY BoundAssumption
  <1>7. TypeOK
    <2>1. /\ saved = 0 /\ pc = "off" /\ cursor = 0 /\ maxId = 0 /\ attempts = 0
          /\ successes = 0 /\ pending = {} /\ stop = FALSE /\ changes = 0 /\ halts = 0
      BY DEF Init
    <2>2. {cursor, maxId, attempts, successes} \subseteq Nat /\ saved \in Nat
      BY <2>1
    <2>3. pending \subseteq Results /\ stop \in BOOLEAN
      BY <2>1
    <2> QED BY <1>3, <1>4, <1>5, <1>6, <2>1, <2>2, <2>3 DEF TypeOK
  <1>8. \A p \in Pdf : row[p].marker <= row[p].version /\ (row[p].live => row[p].version > 0)
    BY <1>1
  <1>9. SweepInv
    BY <1>2, <1>8 DEF Init, SweepInv, NoneSkipped
  <1> QED BY <1>7, <1>9 DEF IInv

LEMMA StartKeeps == ASSUME IInv, NEW m \in Modes, Start(m) PROVE IInv'
  <1>1. TypeOK'
    BY IdAssumption, ModeAssumption
       DEF Start, IInv, TypeOK, table, Results
  <1>2. /\ UNCHANGED <<row, saved, owed, stage>>
        /\ pc' = "loop" /\ mode' = m
    BY DEF Start, table
  <1>3. cursor' \in {saved, 0} /\ (m \in {"full", "capped"} => cursor' = saved) /\ (m = "serial" => cursor' = 0)
    BY DEF Start
  <1>4. \A p \in owed : row[p].live /\ p \in Nat /\ p > 0 /\ saved < p /\ p <= maxId'
    BY IdAssumption DEF Start, IInv, TypeOK, SweepInv, NoneSkipped, Eligible
  <1>5. Sweeping' => cursor' \in {0, saved}
    BY <1>2, <1>3 DEF Sweeping
  <1>6. ~stop /\ stop' = stop
    BY DEF Start, IInv, SweepInv
  <1>7. \A p \in owed : Eligible(p)'
    BY <1>2 DEF IInv, SweepInv, Eligible
  <1>8. \A p \in owed : Sweeping' => cursor' < p
    BY <1>4, <1>5
  <1> QED BY <1>1, <1>2, <1>4, <1>6, <1>7, <1>8 DEF IInv, SweepInv, NoneSkipped

LEMMA StartApprovedKeeps == ASSUME IInv, NEW C \in SUBSET Pdf, StartApproved(C) PROVE IInv'
  <1>1. TypeOK'
    BY DEF StartApproved, IInv, TypeOK, RowType, Stages, table, Results
  <1> QED BY <1>1
       DEF StartApproved, IInv, SweepInv, NoneSkipped, Eligible, Sweeping, table

LEMMA FetchKeeps == ASSUME IInv, Fetch PROVE IInv'
  <1>1. PICK B \in SUBSET Pdf :
          /\ FirstRows(B, PageOf)
          /\ stage' = [p \in Pdf |-> IF p \in B THEN "queued" ELSE "none"]
          /\ pc' = IF B = {} THEN "end" ELSE "submit"
    BY DEF Fetch
  <1>2. /\ UNCHANGED <<row, saved, mode, cursor, maxId, attempts, stop, owed>>
        /\ pc = "loop"
    BY DEF Fetch, table
  <1>3. TypeOK'
    BY <1>1 DEF Fetch, IInv, TypeOK, RowType, Stages, table, Results
  <1>4. Sweeping => owed \subseteq Candidates
    BY <1>2 DEF IInv, TypeOK, SweepInv, Candidates
  <1>5. B = {} /\ Sweeping => owed = {}
    <2>1. ASSUME B = {}, NEW p \in Candidates PROVE FALSE
      <3>1. Candidates # {} /\ Cardinality({}) = 0
        BY <2>1, FS_EmptySet
      <3>2. Cardinality(B) = PageOf
        BY <1>1, <2>1, <3>1 DEF FirstRows
      <3>3. PageOf > 0
        BY <1>2, BoundAssumption DEF Fetch, Continue, Budget, PageOf, IInv, TypeOK
      <3> QED BY <2>1, <3>1, <3>2, <3>3
    <2> QED BY <1>4, <2>1
  <1>6. ASSUME NEW p \in owed, NEW b \in B, Sweeping, p <= b PROVE p \in B
    <2>1. p \in Candidates /\ p \in Nat /\ b \in Nat
      BY <1>4, <1>6, IdAssumption DEF Candidates
    <2>2. p \notin B => b < p
      BY <1>1, <2>1 DEF FirstRows
    <2> QED BY <1>6, <2>1, <2>2
  <1>7. Batch' = B
    BY <1>1 DEF Batch
  <1>8. \A p \in B : stage'[p] = "queued"
    BY <1>1
  <1> QED BY <1>1, <1>2, <1>3, <1>5, <1>6, <1>7, <1>8
       DEF IInv, SweepInv, NoneSkipped, Eligible, Sweeping, SweepDone

LEMMA LeaveLoopKeeps == ASSUME IInv, LeaveLoop PROVE IInv'
  <1>1. /\ UNCHANGED <<row, saved, mode, cursor, maxId, attempts, successes, stage, stop, owed>>
        /\ pc = "loop" /\ pc' = "end" /\ ~Continue
    BY DEF LeaveLoop, table, local
  <1>2. TypeOK'
    BY DEF LeaveLoop, IInv, TypeOK, table, local, Results
  <1>3. ASSUME Sweeping, cursor >= maxId, NEW p \in owed PROVE FALSE
    <2>1. cursor < p /\ p <= maxId
      BY <1>1, <1>3 DEF IInv, SweepInv
    <2>2. p \in Nat /\ cursor \in Nat /\ maxId \in Nat
      BY IdAssumption DEF IInv, TypeOK
    <2> QED BY <1>3, <2>1, <2>2
  <1>4. Sweeping /\ SweepDone => cursor >= maxId
    BY <1>1 DEF Continue, Sweeping, SweepDone, PilotDone, Budget, IInv, TypeOK, SweepInv
  <1>5. Sweeping' = Sweeping /\ SweepDone' = SweepDone
    BY <1>1 DEF Sweeping, SweepDone, Budget
  <1> QED BY <1>1, <1>2, <1>3, <1>4, <1>5 DEF IInv, SweepInv, NoneSkipped, Eligible

LEMMA SubmitKeeps == ASSUME IInv, NEW p \in Pdf, Submit(p) PROVE IInv'
  <1>1. /\ UNCHANGED <<row, saved, mode, pc, cursor, maxId, attempts, pending, stop, owed>>
        /\ pc = "submit" /\ stage[p] = "queued"
        /\ stage' = [stage EXCEPT ![p] = "busy"]
    BY DEF Submit, CanSubmit, NextUp, table, local
  <1>2. TypeOK'
    BY <1>1 DEF Submit, IInv, TypeOK, Stages, table, local, Results
  <1>3. Batch' = Batch
    BY <1>1 DEF Batch, IInv, TypeOK
  <1>4. \A q \in Pdf : stage[q] \in {"queued", "busy"} => stage'[q] \in {"queued", "busy"}
    BY <1>1 DEF IInv, TypeOK
  <1> QED BY <1>1, <1>2, <1>3, <1>4
       DEF IInv, SweepInv, NoneSkipped, Eligible, Sweeping, SweepDone, TypeOK

LEMMA WaitKeeps == ASSUME IInv, Wait PROVE IInv'
  <1>1. /\ UNCHANGED <<row, saved, mode, cursor, maxId, attempts, stage, stop, owed>>
        /\ pc = "submit" /\ pc' = "collect"
    BY DEF Wait, table, local
  <1>2. TypeOK'
    BY DEF Wait, IInv, TypeOK, table, local, Results
  <1> QED BY <1>1, <1>2
       DEF IInv, SweepInv, NoneSkipped, Eligible, Sweeping, SweepDone, Batch

LEMMA DrainedKeeps == ASSUME IInv, Drained PROVE IInv'
  <1>1. /\ UNCHANGED <<row, saved, mode, cursor, maxId, attempts, stage, stop, owed>>
        /\ pc = "submit" /\ pc' \in {"loop", "end"}
        /\ pc' = "end" => mode = "approved"
    BY DEF Drained, table, local
  <1>2. TypeOK'
    BY DEF Drained, IInv, TypeOK, table, local, Results
  <1> QED BY <1>1, <1>2
       DEF IInv, SweepInv, NoneSkipped, Eligible, Sweeping, SweepDone

(* The heart of the matter: if the cursor moves over a row that is owed,    *)
(* that row is in the batch and completed, so it is not owed.               *)
LEMMA CollectKeeps == ASSUME IInv, NEW p \in Pdf, Collect(p) PROVE IInv'
  <1> DEFINE done == {q \in Pdf : stage[q] = "completed"} \cup {p}
  <1>1. PICK c \in {cursor} \cup Batch :
          /\ AdvanceTo(c, done)
          /\ cursor' = IF mode = "approved" THEN cursor ELSE c
    BY DEF Collect
  <1>2. /\ UNCHANGED <<row, mode, maxId, stop, owed>>
        /\ pc = "collect" /\ p \in pending
        /\ stage' = [stage EXCEPT ![p] = "completed"]
        /\ saved' = IF Sweeping THEN cursor' ELSE saved
        /\ pc' \in {"submit", "collect"}
    BY DEF Collect, table, SavedCursor
  <1>3. stage[p] \in {"ok", "failed"}
    BY <1>2 DEF IInv, TypeOK, Results
  <1>4. c \in Nat /\ cursor' \in Nat
    BY <1>1, IdAssumption DEF Batch, IInv, TypeOK
  <1>5. TypeOK'
    BY <1>2, <1>3, <1>4 DEF Collect, SavedCursor, IInv, TypeOK, Stages, Results, table
  <1>6. Batch' = Batch
    BY <1>2, <1>3 DEF Batch, IInv, TypeOK
  <1>7. ASSUME NEW q \in owed, Sweeping PROVE c < q
    <2>1. q \in Pdf /\ q \in Nat /\ cursor < q
      BY <1>2, <1>7, IdAssumption DEF IInv, TypeOK, SweepInv
    <2>2. CASE c = cursor
      BY <2>1, <2>2
    <2>3. CASE c # cursor
      <3>1. c \in Batch /\ \A b \in Batch : b <= c => b \in done
        BY <1>1, <2>3 DEF AdvanceTo
      <3>2. SUFFICES ASSUME q <= c PROVE FALSE
        BY <1>4, <2>1
      <3>3. stage[q] \in {"queued", "busy"}
        BY <1>2, <1>7, <3>1, <3>2 DEF IInv, SweepInv
      <3>4. q \in done
        BY <2>1, <3>1, <3>2, <3>3 DEF Batch
      <3> QED BY <1>3, <3>3, <3>4
    <2> QED BY <2>2, <2>3
  <1>8. \A q \in owed : Sweeping => cursor' < q /\ saved' < q
    BY <1>1, <1>2, <1>7 DEF Sweeping
  <1>9. ~Sweeping => saved' = saved
    BY <1>2
  <1>10. ASSUME NEW q \in Pdf, stage[q] \in {"queued", "busy"}
         PROVE  stage'[q] \in {"queued", "busy"}
    BY <1>2, <1>3, <1>10 DEF IInv, TypeOK
  <1>11. NoneSkipped'
    BY <1>2, <1>8, <1>9 DEF IInv, SweepInv, NoneSkipped
  <1>12. Sweeping' = Sweeping
    BY <1>2 DEF Sweeping
  <1>13. SweepInv'
    BY <1>2, <1>6, <1>8, <1>10, <1>11, <1>12 DEF IInv, TypeOK, SweepInv, Eligible
  <1> QED BY <1>5, <1>13 DEF IInv

LEMMA FinishKeeps == ASSUME IInv, Finish PROVE IInv' /\ owed = {}
  <1>1. /\ UNCHANGED <<row, mode>>
        /\ pc = "end" /\ Sweeping /\ SweepDone
        /\ saved' = 0 /\ owed' = {p \in Pdf : Eligible(p)} /\ pc' = "off" /\ stop' = FALSE
    BY DEF Finish, table, local, ResetCursor
  <1>2. TypeOK'
    <2>1. pending = {}
      BY <1>1 DEF IInv, TypeOK
    <2>2. UNCHANGED <<table, local, pending, halts>> /\ stage' = NoBatch
      BY DEF Finish
    <2> QED BY <1>1, <2>1, <2>2 DEF NoBatch, IInv, TypeOK, Stages, Results, table, local
  <1>3. \A p \in owed' : Eligible(p)' /\ saved' < p
    BY <1>1, IdAssumption DEF Eligible
  <1>4. owed = {}
    BY <1>1 DEF IInv, SweepInv
  <1> QED BY <1>1, <1>2, <1>3, <1>4 DEF IInv, SweepInv, NoneSkipped

LEMMA LeaveKeeps == ASSUME IInv, Leave PROVE IInv'
  <1>1. /\ UNCHANGED <<row, saved, owed>>
        /\ pc = "end" /\ pc' = "off" /\ stop' = FALSE
        /\ UNCHANGED <<table, local, pending, halts>> /\ stage' = NoBatch
    BY DEF Leave, table
  <1>2. pending = {}
    BY <1>1 DEF IInv, TypeOK
  <1>3. TypeOK'
    <2>1. stage' \in [Pdf -> Stages] /\ pending' \subseteq Results'
      BY <1>1, <1>2 DEF NoBatch, Stages, table
    <2> QED BY <1>1, <1>2, <2>1 DEF IInv, TypeOK, table, local
  <1> QED BY <1>1, <1>3 DEF IInv, SweepInv, NoneSkipped, Eligible

LEMMA CrashKeeps == ASSUME IInv, Crash PROVE IInv'
  <1>1. /\ UNCHANGED <<row, saved, owed>>
        /\ pc' = "off" /\ stop' = FALSE /\ pending' = {}
        /\ UNCHANGED <<table, local>> /\ stage' = NoBatch
        /\ halts < MaxHalts /\ halts' = halts + 1
    BY DEF Crash, table
  <1>2. stage' \in [Pdf -> Stages] /\ halts' \in 0 .. MaxHalts /\ pending' \subseteq Results'
    BY <1>1, BoundAssumption DEF NoBatch, Stages, IInv, TypeOK
  <1>3. TypeOK'
    BY <1>1, <1>2 DEF IInv, TypeOK, table, local
  <1> QED BY <1>1, <1>3 DEF IInv, SweepInv, NoneSkipped, Eligible

LEMMA RequestStopKeeps == ASSUME IInv, RequestStop PROVE IInv'
  <1>1. /\ UNCHANGED <<row, saved, mode, pc, cursor, maxId, attempts, stage, owed>>
        /\ pc # "off" /\ mode # "serial" /\ stop' = TRUE
    BY DEF RequestStop, table, local
  <1>2. TypeOK'
    BY BoundAssumption DEF RequestStop, IInv, TypeOK, Results, table, local
  <1> QED BY <1>1, <1>2
       DEF IInv, SweepInv, NoneSkipped, Eligible, Sweeping, SweepDone, Batch

Sound(r) == r.marker <= r.version /\ (r.live => r.version > 0)

(* What other steps than those of the main thread may do to the table: a    *)
(* row that is still owed is still eligible, and nothing becomes owed.      *)
LEMMA TableFrame ==
    ASSUME IInv, TypeOK', owed' \subseteq owed, \A p \in owed' : Eligible(p)',
           \A p \in Pdf : Sound(row'[p]),
           UNCHANGED <<saved, mode, pc, cursor, maxId, attempts, stop>>,
           Batch' = Batch,
           \A p \in owed' : stage[p] \in {"queued", "busy"} => stage'[p] \in {"queued", "busy"}
    PROVE  IInv'
  BY DEF IInv, SweepInv, NoneSkipped, Sweeping, SweepDone, Budget, Sound

LEMMA ProcessKeeps == ASSUME IInv, NEW p \in Pdf, Process(p) PROVE IInv'
  <1>1. PICK v \in {row[p].version, row[p].version + 1}, end \in {"ok", "failed"} :
          /\ stage' = [stage EXCEPT ![p] = end]
          /\ \/ row' = [row EXCEPT ![p].version = v, ![p].marker = v] /\ row[p].live
             \/ row' = row
    BY DEF Process
  <1>2. /\ stage[p] = "busy"
        /\ owed' = IF Sweeping \/ row'[p] # row[p] THEN owed \ {p} ELSE owed
        /\ UNCHANGED <<saved, local, pc, pending, stop, changes, halts>>
    BY DEF Process
  <1>3. \A q \in Pdf \ {p} : row'[q] = row[q] /\ stage'[q] = stage[q]
    BY <1>1 DEF IInv, TypeOK
  <1>4. stage'[p] = end /\ stage' \in [Pdf -> Stages]
    BY <1>1 DEF IInv, TypeOK, Stages
  <1>5. row[p] \in RowType /\ v \in Nat
    BY <1>1 DEF IInv, TypeOK, RowType
  <1>6. row' \in [Pdf -> RowType]
    BY <1>1, <1>5 DEF IInv, TypeOK, RowType
  <1>7. Results \subseteq Results'
    BY <1>2, <1>3, <1>4 DEF Results
  <1>8. TypeOK'
    BY <1>2, <1>4, <1>6, <1>7 DEF IInv, TypeOK, local
  <1>9. Batch' = Batch
    BY <1>2, <1>3, <1>4 DEF Batch
  <1>10. \A q \in owed' : Eligible(q)'
    BY <1>2, <1>3 DEF IInv, TypeOK, SweepInv, Eligible
  <1>11. Sweeping => p \notin owed'
    BY <1>2
  <1>12. \A q \in Pdf : Sound(row[q])
    BY DEF IInv, SweepInv, Sound
  <1>13. Sound(row'[p])
    <2>1. CASE row' = row
      BY <1>12, <2>1
    <2>2. CASE row' = [row EXCEPT ![p].version = v, ![p].marker = v] /\ row[p].live
      <3>1. row'[p].version = v /\ row'[p].marker = v /\ v > 0
        BY <1>5, <1>12, <2>2 DEF IInv, TypeOK, RowType, Sound
      <3> QED BY <1>5, <3>1 DEF Sound
    <2> QED BY <1>1, <2>1, <2>2
  <1>14. \A q \in Pdf : Sound(row'[q])
    BY <1>3, <1>12, <1>13
  <1>15. CASE Sweeping
    <2>1. \A q \in owed' : stage'[q] = stage[q]
      BY <1>2, <1>3, <1>11, <1>15 DEF IInv, TypeOK
    <2> QED BY <1>2, <1>8, <1>9, <1>10, <1>14, <2>1, TableFrame DEF local
  <1>16. CASE ~Sweeping
    BY <1>2, <1>8, <1>10, <1>16, <1>14 DEF IInv, SweepInv, NoneSkipped, Sweeping, local, Sound
  <1> QED BY <1>15, <1>16

(* Uploads, deletes and restores.                                           *)
LEMMA LibraryKeeps == ASSUME IInv, NEW p \in Pdf,
                             Insert(p) \/ Replace(p) \/ Delete(p) \/ Restore(p)
                      PROVE  IInv'
  <1>1. /\ UNCHANGED <<saved, local, pc, stage, pending, stop, halts>>
        /\ changes' = changes \/ (changes < MaxChanges /\ changes' = changes + 1)
    BY DEF Insert, Replace, Delete, Restore
  <1>2. row[p] \in RowType /\ Sound(row[p]) /\ (p \in owed => Eligible(p))
    BY DEF IInv, TypeOK, SweepInv, Sound
  <1>3. PICK new \in RowType :
          /\ row' = [row EXCEPT ![p] = new]
          /\ Sound(new)
          /\ p \in owed' => new.live /\ new.marker # new.version
    <2>1. CASE Insert(p)
      <3> DEFINE new == [row[p] EXCEPT !.version = 1, !.live = TRUE]
      <3>1. new \in RowType /\ new.version = 1 /\ new.live /\ new.marker = row[p].marker
        BY <1>2 DEF RowType
      <3>2. row[p].version = 0
        BY <2>1 DEF Insert
      <3>3. row' = [row EXCEPT ![p] = new]
        BY <2>1 DEF Insert
      <3>4. row[p].marker \in Nat
        BY <1>2 DEF RowType
      <3>5. row[p].marker = 0
        BY <1>2, <3>2, <3>4 DEF Sound
      <3>6. Sound(new) /\ new.live /\ new.marker # new.version
        BY <3>1, <3>5 DEF Sound
      <3>7. new \in RowType
        BY <3>1
      <3> HIDE DEF new
      <3> QED BY <3>3, <3>6, <3>7
    <2>2. CASE Replace(p)
      <3> DEFINE next == row[p].version + 1
                 new == [row[p] EXCEPT !.version = next, !.live = TRUE]
      <3>1. row[p].version \in Nat /\ row[p].marker \in Nat /\ next \in Nat
        BY <1>2 DEF RowType
      <3>2. row' = [row EXCEPT ![p] = new]
        BY <2>2 DEF Replace
      <3>3. row[p].marker <= row[p].version
        BY <1>2 DEF Sound
      <3>4. row[p].marker <= next /\ row[p].marker # next /\ next > 0
        BY <3>1, <3>3
      <3> HIDE DEF next
      <3>5. /\ new \in RowType /\ new.version = next
            /\ new.live /\ new.marker = row[p].marker
        BY <1>2, <3>1 DEF RowType
      <3>6. Sound(new)
        BY <3>4, <3>5 DEF Sound
      <3> HIDE DEF new
      <3> QED BY <3>2, <3>4, <3>5, <3>6
    <2>3. CASE Delete(p)
      BY <1>2, <2>3 DEF Delete, RowType, Sound, Eligible
    <2>4. CASE Restore(p)
      BY <1>2, <2>4 DEF Restore, RowType, Sound, Eligible
    <2> QED BY <2>1, <2>2, <2>3, <2>4
  <1>4. owed' \subseteq owed
    BY DEF Insert, Replace, Delete, Restore
  <1>5. /\ row' \in [Pdf -> RowType] /\ row'[p] = new
        /\ \A q \in Pdf \ {p} : row'[q] = row[q]
    BY <1>3 DEF IInv, TypeOK
  <1>6. TypeOK'
    BY <1>1, <1>4, <1>5, BoundAssumption DEF IInv, TypeOK, Results, local
  <1>7. \A q \in owed' : Eligible(q)'
    BY <1>3, <1>4, <1>5 DEF IInv, TypeOK, SweepInv, Eligible
  <1>8. \A q \in Pdf : Sound(row'[q])
    BY <1>3, <1>5 DEF IInv, SweepInv, Sound
  <1> QED BY <1>1, <1>4, <1>6, <1>7, <1>8, TableFrame DEF local, Batch

LEMMA StepKeeps == IInv /\ [Next]_vars => IInv'
  <1>1. ASSUME IInv, UNCHANGED vars PROVE IInv'
    BY <1>1 DEF vars, IInv, TypeOK, SweepInv, NoneSkipped, Results, Batch, Eligible,
                Sweeping, SweepDone, Budget
  <1>2. ASSUME IInv, MainThread PROVE IInv'
    BY <1>2, FetchKeeps, LeaveLoopKeeps, WaitKeeps, DrainedKeeps, FinishKeeps, LeaveKeeps,
       SubmitKeeps, CollectKeeps DEF MainThread
  <1> QED BY <1>1, <1>2, StartKeeps, StartApprovedKeeps, ProcessKeeps, LibraryKeeps,
             RequestStopKeeps, CrashKeeps DEF Next, Library

(* The types of the variables, in every reachable state.                    *)
THEOREM TypeCorrect == Spec => []TypeOK
  <1>1. IInv => TypeOK
    BY DEF IInv
  <1> QED BY <1>1, InitInv, StepKeeps, PTL DEF Spec

(* No stop, crash, resumption or order of completion makes a sweep skip a   *)
(* row, for every number of workers, page size and budget.                  *)
THEOREM NothingSkipped == Spec => []NoneSkipped
  <1>1. IInv => NoneSkipped
    BY DEF IInv, SweepInv
  <1> QED BY <1>1, InitInv, StepKeeps, PTL DEF Spec

(* A sweep is recorded as complete only when nothing is owed.               *)
THEOREM CompleteMeansComplete == Spec => SweepIsComplete
  <1>1. ASSUME IInv, [Next]_vars PROVE owed' \subseteq owed \/ owed = {}
    <2>1. CASE Finish
      BY <1>1, <2>1, FinishKeeps
    <2>2. CASE UNCHANGED vars
      BY <2>2 DEF vars
    <2>3. ASSUME Next, ~Finish PROVE owed' \subseteq owed
      BY <2>3 DEF Next, MainThread, Library, Start, StartApproved, Fetch, LeaveLoop, Wait,
                  Drained, Leave, Submit, Collect, Process, Insert, Replace, Delete,
                  Restore, RequestStop, Crash
    <2> QED BY <1>1, <2>1, <2>2, <2>3
  <1> QED BY <1>1, InitInv, StepKeeps, PTL DEF Spec, SweepIsComplete
=============================================================================

-------------------------- MODULE UploadClientProofs --------------------------
(***************************************************************************)
(* Proofs about UploadClient and the journal of History, for any number of *)
(* files and of commands that run at the same time, any content, any       *)
(* number of faults.                                                       *)
(*                                                                         *)
(* The lemmas come in the order of the argument: what the newest row of a  *)
(* path is in a sequence of lines; what a reader sees of the journal after *)
(* a write, an interrupted write and a compaction; the rows the commands   *)
(* write; the invariant IInv and the steps that keep it, those that leave  *)
(* the journal alone first; and the theorems.                              *)
(***************************************************************************)
EXTENDS UploadClient, FiniteSetTheorems, WellFoundedInduction, TLAPS

(* A set of places has a last one.                                         *)
LEMMA LastPlace ==
    ASSUME NEW n \in Nat, NEW S \in SUBSET (1 .. n), S # {}
    PROVE  \E i \in S : \A j \in S : j <= i
  <1> DEFINE R == {ss \in Nat \X Nat : ss[1] < ss[2]}
             T == {n - i : i \in S}
  <1>1. IsWellFoundedOn(R, Nat)
    BY NatLessThanWellFounded DEF OpToRel
  <1>2. ASSUME NEW a \in Nat, NEW b \in Nat, a < b PROVE <<a, b>> \in R
    <2> DEFINE ss == <<a, b>>
    <2>1. ss \in Nat \X Nat /\ ss[1] = a /\ ss[2] = b
      OBVIOUS
    <2> QED BY <1>2, <2>1
  <1>3. T \in SUBSET Nat /\ T # {}
    OBVIOUS
  <1> HIDE DEF R
  <1>4. PICK x \in T : \A y \in T : ~ (<<y, x>> \in R)
    BY <1>1, <1>3, WFMin
  <1>5. PICK i \in S : x = n - i
    BY <1>4
  <1>6. ASSUME NEW j \in S PROVE j <= i
    <2> DEFINE y == n - j
    <2>1. y \in T /\ y \in Nat /\ x \in Nat
      BY <1>3
    <2> HIDE DEF y
    <2>2. ~(y < x)
      BY <1>2, <1>4, <2>1
    <2> QED BY <1>5, <2>1, <2>2 DEF y
  <1> QED BY <1>6

(* What the newest row of a path is.                                       *)
Line == RowType \cup {Torn, Split}

LEMMA RowIsRow ==
    /\ \A r \in RowType : IsRow(r) /\ r # None
    /\ \A l \in Line : IsRow(l) => l \in RowType
  BY RowAssumption DEF IsRow, Line

LEMMA NewestIs ==
    ASSUME NEW lines, NEW p, NEW i \in Records(lines), lines[i].path = p,
           \A j \in Records(lines) : lines[j].path = p => j <= i,
           Records(lines) \subseteq Nat
    PROVE  Newest(lines, p) = lines[i]
  <1> DEFINE own == {k \in Records(lines) : lines[k].path = p}
             most == CHOOSE k \in own : \A j \in own : j <= k
  <1>1. i \in own /\ \A j \in own : j <= i
    OBVIOUS
  <1>2. most \in own /\ \A j \in own : j <= most
    BY <1>1
  <1>3. most = i
    BY <1>1, <1>2
  <1>4. own # {}
    BY <1>1
  <1> QED BY <1>3, <1>4 DEF Newest

LEMMA NewestNone ==
    ASSUME NEW lines, NEW p, \A j \in Records(lines) : lines[j].path # p
    PROVE  Newest(lines, p) = None
  BY DEF Newest

LEMMA NewestCases ==
    ASSUME NEW lines \in Seq(Line), NEW p
    PROVE  \/ /\ Newest(lines, p) = None
              /\ \A j \in Records(lines) : lines[j].path # p
           \/ \E i \in Records(lines) :
                 /\ Newest(lines, p) = lines[i] /\ lines[i].path = p
                 /\ \A j \in Records(lines) : lines[j].path = p => j <= i
  <1> DEFINE own == {k \in Records(lines) : lines[k].path = p}
  <1>1. CASE own = {}
    BY <1>1, NewestNone
  <1>2. CASE own # {}
    <2>1. own \in SUBSET (1 .. Len(lines)) /\ Len(lines) \in Nat
      BY DEF Records
    <2>2. PICK i \in own : \A j \in own : j <= i
      BY <1>2, <2>1, LastPlace
    <2>3. Newest(lines, p) = lines[i]
      BY <2>1, <2>2, NewestIs DEF Records
    <2> QED BY <2>2, <2>3
  <1> QED BY <1>1, <1>2

LEMMA NewestType ==
    ASSUME NEW lines \in Seq(Line), NEW p
    PROVE  /\ Newest(lines, p) \in RowType \cup {None}
           /\ Newest(lines, p) # None =>
                 /\ Newest(lines, p) \in RowType /\ Newest(lines, p).path = p
                 /\ \E i \in DOMAIN lines : Newest(lines, p) = lines[i]
  <1>1. \A i \in Records(lines) : lines[i] \in RowType /\ i \in DOMAIN lines
    BY RowIsRow DEF Records
  <1> QED BY <1>1, NewestCases, RowIsRow

LEMMA NewestAt ==
    ASSUME NEW lines \in Seq(Line), NEW i \in DOMAIN lines, IsRow(lines[i])
    PROVE  Newest(lines, lines[i].path) # None
  <1>1. i \in Records(lines)
    BY DEF Records
  <1>2. \A j \in Records(lines) : lines[j] # None
    BY RowIsRow DEF Records
  <1> QED BY <1>1, <1>2, NewestCases

LEMMA NewestEmpty == \A p : Newest(<<>>, p) = None
  BY DEF Newest, Records

LEMMA NewestOne ==
    ASSUME NEW l \in Line, NEW p
    PROVE  Newest(<<l>>, p) = IF IsRow(l) /\ l.path = p THEN l ELSE None
  <1> DEFINE lines == <<l>>
  <1>1. lines \in Seq(Line) /\ DOMAIN lines = {1} /\ lines[1] = l
    OBVIOUS
  <1> HIDE DEF lines
  <1>2. Records(lines) = IF IsRow(l) THEN {1} ELSE {}
    BY <1>1 DEF Records
  <1>3. CASE IsRow(l) /\ l.path = p
    BY <1>1, <1>2, <1>3, NewestCases
  <1>4. CASE ~(IsRow(l) /\ l.path = p)
    BY <1>1, <1>2, <1>4, NewestNone
  <1> QED BY <1>3, <1>4 DEF lines

LEMMA NewestConcat ==
    ASSUME NEW a \in Seq(Line), NEW b \in Seq(Line), NEW p
    PROVE  Newest(a \o b, p) = IF Newest(b, p) # None THEN Newest(b, p) ELSE Newest(a, p)
  <1> DEFINE ab == a \o b
  <1>1. /\ ab \in Seq(Line) /\ Len(ab) = Len(a) + Len(b)
        /\ Len(a) \in Nat /\ Len(b) \in Nat
        /\ \A i \in 1 .. Len(a) : ab[i] = a[i]
        /\ \A i \in 1 .. Len(b) : ab[Len(a) + i] = b[i]
        /\ DOMAIN a = 1 .. Len(a) /\ DOMAIN b = 1 .. Len(b) /\ DOMAIN ab = 1 .. Len(a) + Len(b)
    OBVIOUS
  <1> HIDE DEF ab
  <1>2. \A i \in 1 .. Len(a) : i \in Records(ab) <=> i \in Records(a)
    BY <1>1 DEF Records
  <1>3. \A i \in 1 .. Len(b) : Len(a) + i \in Records(ab) <=> i \in Records(b)
    BY <1>1 DEF Records
  <1>4. \A i \in Records(ab) : \/ i \in 1 .. Len(a)
                               \/ i - Len(a) \in 1 .. Len(b) /\ i = Len(a) + (i - Len(a))
    BY <1>1 DEF Records
  <1>5. Records(a) \subseteq 1 .. Len(a) /\ Records(b) \subseteq 1 .. Len(b) /\ Records(ab) \subseteq Nat
    BY <1>1 DEF Records
  <1>6. \A i \in Records(b) : b[i] # None
    BY RowIsRow DEF Records
  <1>7. CASE \E i \in Records(b) : b[i].path = p
    <2>1. PICK i \in Records(b) : /\ Newest(b, p) = b[i] /\ b[i].path = p
                                  /\ \A j \in Records(b) : b[j].path = p => j <= i
      BY <1>7, NewestCases
    <2>2. Len(a) + i \in Records(ab) /\ ab[Len(a) + i] = b[i]
      BY <1>1, <1>3, <1>5, <2>1
    <2>3. ASSUME NEW j \in Records(ab), ab[j].path = p PROVE j <= Len(a) + i
      <3>1. CASE j \in 1 .. Len(a)
        BY <1>1, <1>5, <3>1
      <3>2. CASE j - Len(a) \in 1 .. Len(b) /\ j = Len(a) + (j - Len(a))
        <4> DEFINE k == j - Len(a)
        <4>1. k \in 1 .. Len(b) /\ j = Len(a) + k
          BY <3>2
        <4> HIDE DEF k
        <4>2. k \in Records(b) /\ b[k].path = p
          BY <1>1, <1>3, <2>3, <4>1
        <4>3. k <= i
          BY <2>1, <4>2
        <4> QED BY <1>1, <1>5, <4>1, <4>3
      <3> QED BY <1>4, <3>1, <3>2
    <2>4. Newest(ab, p) = b[i]
      BY <1>5, <2>1, <2>2, <2>3, NewestIs
    <2> QED BY <1>6, <2>1, <2>4 DEF ab
  <1>8. CASE \A i \in Records(b) : b[i].path # p
    <2>1. Newest(b, p) = None
      BY <1>8, NewestNone
    <2>2. ASSUME NEW j \in Records(ab), ab[j].path = p
          PROVE  j \in 1 .. Len(a) /\ j \in Records(a) /\ a[j].path = p
      <3>1. CASE j \in 1 .. Len(a)
        BY <1>1, <1>2, <2>2, <3>1
      <3>2. CASE j - Len(a) \in 1 .. Len(b) /\ j = Len(a) + (j - Len(a))
        <4> DEFINE k == j - Len(a)
        <4>1. k \in 1 .. Len(b) /\ j = Len(a) + k
          BY <3>2
        <4> HIDE DEF k
        <4>2. k \in Records(b) /\ b[k].path = p
          BY <1>1, <1>3, <2>2, <4>1
        <4> QED BY <1>8, <4>2
      <3> QED BY <1>4, <3>1, <3>2
    <2>3. CASE \E i \in Records(a) : a[i].path = p
      <3>1. PICK i \in Records(a) : /\ Newest(a, p) = a[i] /\ a[i].path = p
                                    /\ \A j \in Records(a) : a[j].path = p => j <= i
        BY <2>3, NewestCases
      <3>2. i \in Records(ab) /\ ab[i] = a[i]
        BY <1>1, <1>2, <1>5, <3>1
      <3>3. Newest(ab, p) = a[i]
        BY <1>5, <2>2, <3>1, <3>2, NewestIs
      <3> QED BY <2>1, <3>1, <3>3 DEF ab
    <2>4. CASE \A i \in Records(a) : a[i].path # p
      <3>1. Newest(a, p) = None
        BY <2>4, NewestNone
      <3>2. Newest(ab, p) = None
        BY <2>2, <2>4, NewestNone
      <3> QED BY <2>1, <3>1, <3>2 DEF ab
    <2> QED BY <2>3, <2>4
  <1> QED BY <1>7, <1>8

(* The two views of a journal: what readers see of a path, and what they    *)
(* will see once the open end is closed.                                   *)
JournalType == [lines: Seq(Line), ended: BOOLEAN]

LEMMA VisibleType ==
    ASSUME NEW f \in JournalType, ~f.ended => f.lines # <<>>
    PROVE  Visible(f) \in Seq(Line)
  <1>1. f.lines \in Seq(Line) /\ f.ended \in BOOLEAN
    BY DEF JournalType
  <1>2. ASSUME f.lines # <<>> PROVE Front(f.lines) \in Seq(Line)
    BY <1>1, <1>2 DEF Front
  <1> QED BY <1>1, <1>2 DEF Visible

LEMMA EndedView ==
    ASSUME NEW f \in JournalType, f.ended, NEW p
    PROVE  Latest(f, p) = Newest(f.lines, p)
  BY DEF Latest, Visible

LEMMA WriteView ==
    ASSUME NEW f \in JournalType, NEW rows \in Seq(RowType), rows # <<>>
    PROVE  /\ Write(f, rows) \in JournalType /\ Write(f, rows).ended
           /\ \A p : LET after == IF Newest(rows, p) # None THEN Newest(rows, p)
                                  ELSE Newest(f.lines, p) IN
                     /\ Latest(Write(f, rows), p) = after
                     /\ Newest(Write(f, rows).lines, p) = after
  <1>1. rows \in Seq(Line) /\ f.lines \in Seq(Line)
    BY DEF Line, JournalType
  <1> DEFINE w == Write(f, rows)
  <1>2. w = [lines |-> f.lines \o rows, ended |-> TRUE]
    BY DEF Write
  <1>3. w \in JournalType /\ w.ended /\ w.lines = f.lines \o rows
    BY <1>1, <1>2 DEF JournalType
  <1> HIDE DEF w
  <1>4. ASSUME NEW p
        PROVE  Newest(w.lines, p) = IF Newest(rows, p) # None THEN Newest(rows, p)
                                    ELSE Newest(f.lines, p)
    BY <1>1, <1>3, NewestConcat
  <1>5. ASSUME NEW p PROVE Latest(w, p) = Newest(w.lines, p)
    BY <1>3, EndedView
  <1> QED BY <1>3, <1>4, <1>5 DEF w

LEMMA CutView ==
    ASSUME NEW f \in JournalType, NEW rows \in Seq(RowType), NEW k \in DOMAIN rows,
           NEW cut \in {"torn", "whole", "split"}
    PROVE  LET g == Interrupted(f, rows, k, cut)
               begun(p) == IF Newest(SubSeq(rows, 1, k - 1), p) # None
                           THEN Newest(SubSeq(rows, 1, k - 1), p)
                           ELSE Newest(f.lines, p) IN
           /\ g \in JournalType /\ g.lines # <<>>
           /\ \A p : /\ Latest(g, p) = begun(p)
                     /\ Newest(g.lines, p) = IF cut = "whole" /\ rows[k].path = p
                                             THEN rows[k] ELSE begun(p)
  <1> DEFINE g == Interrupted(f, rows, k, cut)
             done == SubSeq(rows, 1, k - 1)
             tail == CASE cut = "whole" -> rows[k]
                       [] cut = "split" -> Split
                       [] cut = "torn"  -> Torn
             body == f.lines \o done
  <1>1. /\ done \in Seq(Line) /\ f.lines \in Seq(Line) /\ rows[k] \in RowType
        /\ body \in Seq(Line)
    BY DEF Line, JournalType
  <1>2. tail \in Line /\ (IsRow(tail) <=> cut = "whole")
    <2>1. CASE cut = "whole"
      BY <1>1, <2>1, RowIsRow DEF Line
    <2>2. CASE cut = "split"
      BY <2>2 DEF Line, IsRow
    <2>3. CASE cut = "torn"
      BY <2>3 DEF Line, IsRow
    <2> QED BY <2>1, <2>2, <2>3
  <1>3. cut = "whole" => tail = rows[k]
    OBVIOUS
  <1>4. g = [lines |-> body \o <<tail>>, ended |-> FALSE]
    BY DEF Interrupted
  <1> HIDE DEF tail, g, done, body
  <1>5. /\ body \o <<tail>> \in Seq(Line) /\ body \o <<tail>> # <<>>
        /\ <<tail>> \in Seq(Line)
        /\ Front(body \o <<tail>>) = body
    BY <1>1, <1>2 DEF Front
  <1>6. g \in JournalType /\ g.lines = body \o <<tail>> /\ ~g.ended /\ Visible(g) = body
    BY <1>4, <1>5 DEF JournalType, Visible
  <1>7. ASSUME NEW p
        PROVE  /\ Latest(g, p) = IF Newest(done, p) # None THEN Newest(done, p)
                                 ELSE Newest(f.lines, p)
               /\ Newest(g.lines, p) = IF cut = "whole" /\ rows[k].path = p
                                       THEN rows[k] ELSE Latest(g, p)
    <2>1. Latest(g, p) = Newest(body, p)
      BY <1>6 DEF Latest
    <2>2. Newest(body, p) = IF Newest(done, p) # None THEN Newest(done, p)
                            ELSE Newest(f.lines, p)
      BY <1>1, NewestConcat DEF body
    <2>3. Newest(<<tail>>, p) = IF IsRow(tail) /\ tail.path = p THEN tail ELSE None
      BY <1>2, NewestOne
    <2>4. Newest(g.lines, p) = IF Newest(<<tail>>, p) # None THEN Newest(<<tail>>, p)
                               ELSE Newest(body, p)
      <3> DEFINE one == <<tail>>
      <3>1. one \in Seq(Line) /\ g.lines = body \o one
        BY <1>5, <1>6
      <3> HIDE DEF one
      <3>2. Newest(body \o one, p) = IF Newest(one, p) # None THEN Newest(one, p)
                                     ELSE Newest(body, p)
        BY <1>1, <3>1, NewestConcat
      <3> QED BY <3>1, <3>2 DEF one
    <2>5. rows[k] # None
      BY <1>1, RowIsRow
    <2> QED BY <1>2, <1>3, <2>1, <2>2, <2>3, <2>4, <2>5
  <1> QED BY <1>5, <1>6, <1>7 DEF g, done

(* A part of a sequence lists the places it was made of, each once.        *)
LEMMA RankBound ==
    ASSUME NEW S, IsFiniteSet(S), S \subseteq Nat, NEW i \in S
    PROVE  Rank(S, i) \in 1 .. Cardinality(S)
  <1> DEFINE U == {j \in S : j <= i}
  <1>1. U \in SUBSET S /\ i \in U
    OBVIOUS
  <1> HIDE DEF U
  <1>2. IsFiniteSet(U) /\ Cardinality(U) <= Cardinality(S)
    BY <1>1, FS_Subset
  <1>3. Cardinality(U) \in Nat /\ Cardinality(S) \in Nat
    BY <1>2, FS_CardinalityType
  <1>4. Cardinality(U) # 0
    BY <1>1, <1>2, FS_EmptySet
  <1>5. Rank(S, i) = Cardinality(U)
    BY DEF Rank, U
  <1> QED BY <1>2, <1>3, <1>4, <1>5

LEMMA RankOrder ==
    ASSUME NEW S, IsFiniteSet(S), S \subseteq Nat, NEW i \in S, NEW k \in S, i < k
    PROVE  Rank(S, i) < Rank(S, k)
  <1> DEFINE U == {j \in S : j <= i}
             V == {j \in S : j <= k}
  <1>0. i \in Nat /\ k \in Nat /\ \A j \in S : j \in Nat
    OBVIOUS
  <1>1. U \in SUBSET V /\ V \in SUBSET S /\ k \in V /\ k \notin U
    <2>1. ASSUME NEW j \in U PROVE j \in V
      BY <1>0
    <2>2. k \in V /\ k \notin U
      BY <1>0
    <2> QED BY <2>1, <2>2
  <1> HIDE DEF U, V
  <1>2. IsFiniteSet(V)
    BY <1>1, FS_Subset
  <1>3. IsFiniteSet(U) /\ Cardinality(U) <= Cardinality(V) /\ Cardinality(U) # Cardinality(V)
    BY <1>1, <1>2, FS_Subset
  <1>4. Cardinality(U) \in Nat /\ Cardinality(V) \in Nat
    BY <1>2, <1>3, FS_CardinalityType
  <1>5. Rank(S, i) = Cardinality(U) /\ Rank(S, k) = Cardinality(V)
    BY DEF Rank, U, V
  <1> QED BY <1>3, <1>4, <1>5

LEMMA RankOnto ==
    ASSUME NEW S, IsFiniteSet(S), S \subseteq Nat
    PROVE  /\ \A i \in S : Rank(S, i) \in 1 .. Cardinality(S)
           /\ \A i, k \in S : Rank(S, i) = Rank(S, k) => i = k
           /\ \A n \in 1 .. Cardinality(S) : \E i \in S : Rank(S, i) = n
  <1> DEFINE size == Cardinality(S)
             rank == [i \in S |-> Rank(S, i)]
  <1>1. size \in Nat
    BY FS_CardinalityType
  <1> HIDE DEF size
  <1>2. \A i \in S : Rank(S, i) \in 1 .. size
    BY RankBound DEF size
  <1>3. \A i, k \in S : Rank(S, i) = Rank(S, k) => i = k
    <2> SUFFICES ASSUME NEW i \in S, NEW k \in S, Rank(S, i) = Rank(S, k), i # k
                 PROVE  FALSE
      OBVIOUS
    <2>1. i < k \/ k < i
      OBVIOUS
    <2>2. Rank(S, i) < Rank(S, k) \/ Rank(S, k) < Rank(S, i)
      BY <2>1, RankOrder
    <2> QED BY <1>1, <1>2, <2>2
  <1>4. rank \in Injection(S, 1 .. size)
    BY <1>2, <1>3 DEF Injection, IsInjective
  <1>5. IsFiniteSet(1 .. size) /\ Cardinality(1 .. size) = size
    BY <1>1, FS_Interval
  <1> HIDE DEF rank
  <1>6. rank \in Surjection(S, 1 .. size)
    BY <1>4, <1>5, FS_Injection DEF size
  <1>7. \A n \in 1 .. size : \E i \in S : Rank(S, i) = n
    BY <1>6 DEF Surjection, rank
  <1> QED BY <1>2, <1>3, <1>7 DEF size

LEMMA PartFrom ==
    ASSUME NEW s, NEW S \in SUBSET Nat, IsFiniteSet(S)
    PROVE  \A n \in 1 .. Cardinality(S) : \E i \in S : Part(s, S)[n] = s[i]
  <1> DEFINE place(n) == CHOOSE i \in S : Rank(S, i) = n
  <1>1. \A n \in 1 .. Cardinality(S) : place(n) \in S /\ Part(s, S)[n] = s[place(n)]
    BY RankOnto DEF Part
  <1> QED BY <1>1

LEMMA PartOf ==
    ASSUME NEW s, NEW S \in SUBSET Nat, IsFiniteSet(S)
    PROVE  \A i \in S : \E n \in 1 .. Cardinality(S) : Part(s, S)[n] = s[i]
  <1> SUFFICES ASSUME NEW i \in S
               PROVE  \E n \in 1 .. Cardinality(S) : Part(s, S)[n] = s[i]
    OBVIOUS
  <1> DEFINE n == Rank(S, i)
             place == CHOOSE k \in S : Rank(S, k) = n
  <1>1. n \in 1 .. Cardinality(S)
    BY RankOnto
  <1>2. place \in S /\ Rank(S, place) = n
    OBVIOUS
  <1>3. place = i
    BY <1>2, RankOnto
  <1>4. Part(s, S)[n] = s[place]
    BY <1>1 DEF Part
  <1> QED BY <1>1, <1>3, <1>4

(* Compaction keeps the newest row of a path unless it is settled.         *)
LEMMA CompactedView ==
    ASSUME NEW f \in JournalType, ~f.ended => f.lines # <<>>
    PROVE  LET g == Compacted(f)
               kept(p) == IF Latest(f, p) # None /\ Stays(Latest(f, p))
                          THEN Latest(f, p) ELSE None IN
           \/ g = f /\ \A p : Latest(f, p) = kept(p)
           \/ /\ g \in JournalType /\ g.ended
              /\ \A p : Latest(g, p) = kept(p) /\ Newest(g.lines, p) = kept(p)
  <1> DEFINE lines == Visible(f)
             stay  == {i \in Records(lines) : Stays(lines[i]) /\ ~Superseded(lines, i)}
             list  == Part(lines, stay)
             g     == Compacted(f)
             new(p)  == Newest(lines, p)
             kept(p) == IF new(p) # None /\ Stays(new(p)) THEN new(p) ELSE None
  <1>1. lines \in Seq(Line) /\ DOMAIN lines = 1 .. Len(lines) /\ Len(lines) \in Nat
    BY VisibleType
  <1>2. g = IF stay = Records(lines) THEN f ELSE [lines |-> list, ended |-> TRUE]
    BY DEF Compacted
  <1>3. \A p : Latest(f, p) = new(p)
    BY DEF Latest
  <1> HIDE DEF lines, g
  <1>4. \A i \in Records(lines) : lines[i] \in RowType /\ i \in Nat /\ lines[i] # None
    BY <1>1, RowIsRow DEF Records
  <1>5. stay \subseteq Nat /\ IsFiniteSet(stay)
    <2>1. stay \in SUBSET (1 .. Len(lines))
      BY <1>1 DEF Records
    <2>2. IsFiniteSet(1 .. Len(lines))
      BY <1>1, FS_Interval
    <2> QED BY <2>1, <2>2, FS_Subset
  <1>51. \A i : i \in stay <=> i \in Records(lines) /\ Stays(lines[i]) /\ ~Superseded(lines, i)
    OBVIOUS
  <1> HIDE DEF stay, list
  <1>6. /\ Cardinality(stay) \in Nat
        /\ DOMAIN list = 1 .. Cardinality(stay)
        /\ \A n \in DOMAIN list : \E i \in stay : list[n] = lines[i]
        /\ \A i \in stay : \E n \in DOMAIN list : list[n] = lines[i]
    <2>1. Cardinality(stay) \in Nat
      BY <1>5, FS_CardinalityType
    <2>3. \A n \in 1 .. Cardinality(stay) : \E i \in stay : Part(lines, stay)[n] = lines[i]
      BY <1>5, PartFrom
    <2>4. \A i \in stay : \E n \in 1 .. Cardinality(stay) : Part(lines, stay)[n] = lines[i]
      BY <1>5, PartOf
    <2>2. DOMAIN Part(lines, stay) = 1 .. Cardinality(stay)
      BY DEF Part
    <2> QED BY <2>1, <2>2, <2>3, <2>4 DEF list
  <1>7. list \in Seq(RowType) /\ list \in Seq(Line)
    <2>1. \A n \in 1 .. Cardinality(stay) : list[n] \in RowType
      BY <1>4, <1>51, <1>6
    <2>2. list = [n \in 1 .. Cardinality(stay) |-> list[n]]
      BY DEF Part, list
    <2>3. list \in Seq(RowType)
      BY <1>6, <2>1, <2>2
    <2> QED BY <2>3 DEF Line
  (* A path has at most one place that stays: the newest one.              *)
  <1>8. ASSUME NEW p, NEW i \in stay, lines[i].path = p
        PROVE  new(p) = lines[i]
    <2>1. \A j \in Records(lines) : lines[j].path = p => j <= i
      BY <1>4, <1>51, <1>8 DEF Superseded
    <2> QED BY <1>4, <1>51, <1>8, <2>1, NewestIs
  <1>9. ASSUME NEW p, new(p) # None, Stays(new(p))
        PROVE  \E i \in stay : lines[i].path = p /\ new(p) = lines[i]
    <2>1. PICK i \in Records(lines) :
             /\ new(p) = lines[i] /\ lines[i].path = p
             /\ \A j \in Records(lines) : lines[j].path = p => j <= i
      BY <1>1, <1>9, NewestCases
    <2>2. ~Superseded(lines, i)
      BY <1>4, <2>1 DEF Superseded
    <2> QED BY <1>51, <1>9, <2>1, <2>2
  <1>10. ASSUME NEW p PROVE Newest(list, p) = kept(p)
    <2>1. CASE kept(p) # None
      <3>1. PICK i \in stay : lines[i].path = p /\ new(p) = lines[i]
        BY <1>9, <2>1
      <3>2. PICK n \in DOMAIN list : list[n] = lines[i]
        BY <1>6
      <3>3. Newest(list, p) # None
        BY <1>4, <1>51, <1>7, <3>1, <3>2, NewestAt, RowIsRow
      <3>4. Newest(list, p).path = p /\ \E m \in DOMAIN list : Newest(list, p) = list[m]
        BY <1>7, <3>3, NewestType
      <3>5. PICK j \in stay : Newest(list, p) = lines[j]
        BY <1>6, <3>4
      <3>6. new(p) = lines[j]
        BY <1>8, <3>4, <3>5
      <3> QED BY <2>1, <3>5, <3>6
    <2>2. CASE kept(p) = None
      <3> SUFFICES ASSUME Newest(list, p) # None PROVE FALSE
        BY <2>2
      <3>1. Newest(list, p).path = p /\ \E m \in DOMAIN list : Newest(list, p) = list[m]
        BY <1>7, NewestType
      <3>2. PICK j \in stay : Newest(list, p) = lines[j]
        BY <1>6, <3>1
      <3>3. new(p) = lines[j] /\ new(p) # None /\ Stays(new(p))
        BY <1>4, <1>51, <1>8, <3>1, <3>2
      <3> QED BY <2>2, <3>3
    <2> QED BY <2>1, <2>2
  <1>11. CASE stay # Records(lines)
    <2>1. g = [lines |-> list, ended |-> TRUE]
      BY <1>2, <1>11
    <2>2. g \in JournalType /\ g.ended /\ g.lines = list
      BY <1>7, <2>1 DEF JournalType
    <2>3. \A p : Latest(g, p) = kept(p) /\ Newest(g.lines, p) = kept(p)
      BY <1>10, <2>2, EndedView
    <2> QED BY <1>3, <2>2, <2>3 DEF g
  <1>12. CASE stay = Records(lines)
    <2>1. ASSUME NEW p, new(p) # None PROVE Stays(new(p))
      <3>1. PICK i \in Records(lines) : new(p) = lines[i]
        BY <1>1, <2>1, NewestCases
      <3> QED BY <1>12, <1>51, <3>1
    <2> QED BY <1>2, <1>3, <1>12, <2>1 DEF g
  <1> QED BY <1>11, <1>12

-----------------------------------------------------------------------------
(* Types.                                                                  *)
LEMMA IdleType == Idle \in RunType
  <1>1. 0 \in 0 .. Attempts - 1
    BY CommandAssumption
  <1> QED BY <1>1 DEF Idle, RunType, JobState

LEMMA FileType == TypeOK => file \in JournalType
  BY DEF TypeOK, JournalType, Line

LEMMA OpenPaths == Open(file) \subseteq Path
  BY DEF Open

LEMMA ActiveType ==
    ASSUME TypeOK, NEW c \in Command
    PROVE  Active(c) \subseteq Path
  <1>1. run[c].active \in (SUBSET Path) \cup {None}
    BY DEF TypeOK, RunType
  <1> QED BY <1>1, OpenPaths DEF Active

LEMMA RowIs ==
    ASSUME TypeOK, NEW p \in Path, NEW op \in Status, NEW s \in Content \cup {None}
    PROVE  /\ Row(p, op, s, FALSE) \in RowType /\ Row(p, op, s, TRUE) \in RowType
           /\ Row(p, op, s, FALSE).path = p /\ Row(p, op, s, TRUE).path = p
           /\ Row(p, op, s, FALSE).op = op /\ Row(p, op, s, TRUE).op = op
           /\ Row(p, op, s, FALSE).sig = disk[p].sig /\ Row(p, op, s, TRUE).sig = disk[p].sig
  BY DEF TypeOK, Row, RowType

LEMMA ScanPlaces ==
    /\ \A i \in DOMAIN Scan : Scan[i] \in Path
    /\ DOMAIN Scan \subseteq Nat /\ IsFiniteSet(DOMAIN Scan)
  <1>1. Scan \in Seq(Path)
    BY PathAssumption
  <1>2. DOMAIN Scan = 1 .. Len(Scan) /\ Len(Scan) \in Nat
    BY <1>1
  <1>3. IsFiniteSet(1 .. Len(Scan))
    BY <1>2, FS_Interval
  <1> QED BY <1>1, <1>2, <1>3

(* The rows of a failure: of the path and of those with its bytes.         *)
LEMMA FailureRowsAre ==
    ASSUME TypeOK, NEW c \in Command, NEW p \in Path
    PROVE  LET rows == FailureRows(c, p) IN
           /\ rows \in Seq(RowType) /\ rows # <<>>
           /\ \A k \in DOMAIN rows :
                 /\ rows[k].op \in {"failed", "review"}
                 /\ rows[k].sig = disk[rows[k].path].sig
                 /\ \/ rows[k].path = p
                    \/ run[c].sha[p] # None /\ run[c].sha[rows[k].path] = run[c].sha[p]
  <1> DEFINE what    == IF run[c].job[p] = "failed" THEN "failed" ELSE "review"
             hash     == run[c].sha[p]
             also  == IF hash = None THEN {} ELSE Siblings(c, p)
             every == [i \in DOMAIN Scan |-> Row(Scan[i], what, hash, TRUE)]
             places     == {i \in DOMAIN Scan : Scan[i] \in also}
             rest  == Part(every, places)
             own   == Row(p, what, hash, FALSE)
             Fine(r) == /\ r \in RowType /\ r.op \in {"failed", "review"}
                        /\ r.sig = disk[r.path].sig
                        /\ \/ r.path = p
                           \/ hash # None /\ run[c].sha[r.path] = hash
  <1>1. /\ what \in {"failed", "review"} /\ what \in Status
        /\ hash \in Content \cup {None} /\ hash = run[c].sha[p]
    BY DEF TypeOK, RunType, Status
  <1>2. FailureRows(c, p) = <<own>> \o rest
    BY DEF FailureRows
  <1>3. \A q \in also : hash # None /\ run[c].sha[q] = hash
    BY DEF Siblings
  <1> HIDE DEF what, hash, also
  <1>4. Fine(own)
    <2>1. own \in RowType /\ own.path = p /\ own.op = what /\ own.sig = disk[p].sig
      <3>1. FALSE \in BOOLEAN /\ what \in Status /\ hash \in Content \cup {None}
        BY <1>1
      <3> QED BY <3>1, RowIs
    <2> HIDE DEF own
    <2>2. own.op \in {"failed", "review"} /\ own.sig = disk[own.path].sig
      BY <1>1, <2>1
    <2> QED BY <2>1, <2>2
  <1>5. ASSUME NEW i \in places PROVE Fine(every[i])
    <2>1. Scan[i] \in Path /\ every[i] = Row(Scan[i], what, hash, TRUE) /\ Scan[i] \in also
      BY ScanPlaces
    <2> DEFINE q == Scan[i]
               r == Row(q, what, hash, TRUE)
    <2>4. q \in Path
      BY <2>1
    <2>2. r \in RowType /\ r.path = q /\ r.op = what /\ r.sig = disk[q].sig
      <3> HIDE DEF q, every, places, rest, own, Fine
      <3>1. /\ q \in Path /\ what \in Status /\ hash \in Content \cup {None}
        BY <1>1, <2>4
      <3> QED BY <3>1, RowIs
    <2>3. every[i] = r
      BY <2>1 DEF q
    <2> HIDE DEF r, every
    <2> QED BY <1>1, <1>3, <2>1, <2>2, <2>3 DEF q
  <1>6. places \in SUBSET Nat /\ IsFiniteSet(places)
    BY ScanPlaces, FS_Subset
  <1>7. Cardinality(places) \in Nat
    BY <1>6, FS_CardinalityType
  <1>8. DOMAIN rest = 1 .. Cardinality(places)
    BY DEF Part
  <1>81. rest = [n \in 1 .. Cardinality(places) |-> rest[n]]
    BY DEF Part
  <1> HIDE DEF rest, every, places
  <1>9. \A n \in 1 .. Cardinality(places) : \E i \in places : rest[n] = every[i]
    <2>1. \A n \in 1 .. Cardinality(places) : \E i \in places : Part(every, places)[n] = every[i]
      BY <1>6, PartFrom
    <2> QED BY <2>1 DEF rest
  <1> HIDE DEF own, Fine
  <1>10. \A n \in 1 .. Cardinality(places) : Fine(rest[n])
    BY <1>5, <1>9
  <1>11. rest \in Seq(RowType) /\ Len(rest) = Cardinality(places)
    <2>1. \A n \in 1 .. Cardinality(places) : rest[n] \in RowType
      BY <1>10 DEF Fine
    <2> QED BY <1>7, <1>81, <2>1
  <1>12. own \in RowType
    BY <1>4 DEF Fine
  <1> DEFINE rows == <<own>> \o rest
  <1>13. rows \in Seq(RowType) /\ rows # <<>> /\ DOMAIN rows = 1 .. 1 + Len(rest)
    BY <1>11, <1>12
  <1>14. \A k \in DOMAIN rows : rows[k] = own \/ \E n \in 1 .. Cardinality(places) : rows[k] = rest[n]
    BY <1>7, <1>11, <1>12
  <1> HIDE DEF rows
  <1>15. \A k \in DOMAIN rows : Fine(rows[k])
    BY <1>4, <1>10, <1>14
  <1>16. FailureRows(c, p) = rows
    BY <1>2 DEF rows
  <1> QED BY <1>1, <1>13, <1>15, <1>16 DEF Fine

LEMMA AnnouncedIs ==
    ASSUME TypeOK, NEW c \in Command, NEW p \in Path
    PROVE  LET rows == Announced(c, p) IN
           /\ rows \in Seq(RowType) /\ rows # <<>> /\ DOMAIN rows = {1}
           /\ rows[1].path = p /\ rows[1].op = "pending" /\ rows[1].sig = disk[p].sig
           /\ rows = <<rows[1]>>
  <1> DEFINE r == Row(p, "pending", run[c].sha[p], FALSE)
  <1>1. run[c].sha[p] \in Content \cup {None} /\ "pending" \in Status
    BY DEF TypeOK, RunType, Status
  <1>2. r \in RowType /\ r.path = p /\ r.op = "pending" /\ r.sig = disk[p].sig
    BY <1>1, RowIs
  <1> HIDE DEF r
  <1>3. Announced(c, p) = <<r>>
    BY DEF Announced, r
  <1> QED BY <1>2, <1>3

LEMMA RowsAre ==
    ASSUME TypeOK, NEW c \in Command, NEW p \in Path
    PROVE  LET rows == Rows(c, p) IN
           /\ rows \in Seq(RowType)
           /\ \A k \in DOMAIN rows : rows[k].sig = disk[rows[k].path].sig
           /\ \/ /\ ~Confirmation(c, p) /\ rows # <<>>
                 /\ \A k \in DOMAIN rows :
                       /\ rows[k].op \in {"failed", "review"}
                       /\ \/ rows[k].path = p
                          \/ /\ run[c].sha[p] # None
                             /\ run[c].sha[rows[k].path] = run[c].sha[p]
              \/ Confirmation(c, p) /\ rows = <<>>
              \/ /\ Confirmation(c, p) /\ Len(rows) = 1 /\ rows = <<rows[1]>>
                 /\ rows[1].path = p /\ rows[1].op = "clear"
  <1> DEFINE r == Row(p, "clear", None, FALSE)
  <1>1. r \in RowType /\ r.path = p /\ r.op = "clear" /\ r.sig = disk[p].sig
    <2>1. "clear" \in Status /\ None \in Content \cup {None}
      BY DEF Status
    <2> QED BY <2>1, RowIs
  <1> HIDE DEF r
  <1>2. CASE ~Confirmation(c, p)
    <2>1. Rows(c, p) = FailureRows(c, p)
      BY <1>2 DEF Rows
    <2> QED BY <1>2, <2>1, FailureRowsAre
  <1>3. CASE Confirmation(c, p) /\ p \in Active(c)
    <2>1. Rows(c, p) = <<r>>
      BY <1>3 DEF Rows, r
    <2> QED BY <1>1, <1>3, <2>1
  <1>4. CASE Confirmation(c, p) /\ p \notin Active(c)
    <2>1. Rows(c, p) = <<>>
      BY <1>4 DEF Rows
    <2> QED BY <1>4, <2>1
  <1> QED BY <1>2, <1>3, <1>4

-----------------------------------------------------------------------------
(* The invariant.  D, S, F and e stand for the files, the contents the     *)
(* server knows, the journal, and whether a file was edited.               *)
Stored(S, s) == \E x \in S : Article[x] = Article[s]

(* The newest row of a path when the open end of the journal counts.       *)
Final(F, p) == Newest(F.lines, p)

(* A row stands for no entry, or for one that was made for other bytes.    *)
Outdated(row, D, p) == ~IsOpen(row) \/ row.sig # D[p].sig

(* An edit during the command has left every row of the path behind.       *)
Stale(D, F, e, p) ==
    e /\ Outdated(Latest(F, p), D, p) /\ Outdated(Final(F, p), D, p)

(* A row is not newer than its file, and an open end that clears an entry   *)
(* is right to.                                                            *)
JournalOK(D, S, F) ==
    /\ ~F.ended => F.lines # <<>>
    /\ \A p \in Path :
          /\ Latest(F, p) # None => Latest(F, p).sig <= D[p].sig
          /\ Final(F, p) # None => Final(F, p).sig <= D[p].sig
          /\ \/ IsOpen(Final(F, p))
             \/ Outdated(Latest(F, p), D, p)
             \/ Stored(S, D[p].sha)

(* The states of a path in each phase of a command.                        *)
Allowed(pc) ==
    CASE pc = "off"     -> {"none"}
      [] pc = "probe"   -> {"none", "new"}
      [] pc = "hash"    -> {"none", "new", "existing", "fast", "full", "doubt",
                            "done", "failed"}
      [] pc = "prepare" -> {"none", "existing", "fast", "full", "done"}
      [] pc = "upload"  -> {"none", "existing", "ready", "announced", "sending",
                            "ok", "failed", "review", "done"}
      [] pc = "aborted" -> {"none", "sending", "ok", "failed", "review"}

Hashed == {"fast", "full", "ready", "announced", "sending", "ok", "review"}

(* What a command knows of itself: one path stands for those with its bytes. *)
PhaseOK(r) ==
    /\ \A p \in Path : r.job[p] \in Allowed(r.pc)
    /\ r.pc \in {"off", "probe", "hash"} => \A p \in Path : r.sha[p] = None
    /\ \A p \in Path : r.pc # "hash" /\ r.job[p] \in Hashed => r.sha[p] # None
    /\ r.pc \in {"prepare", "upload"} =>
          \A p, q \in Path :
             r.job[p] \notin {"none", "done"} /\ r.job[q] \notin {"none", "done"}
                /\ r.sha[p] = r.sha[q] => p = q

Confirming(r, p) == r.pc # "aborted" /\ r.job[p] \in {"existing", "ok"}
Resolving(r, p)  == r.pc = "prepare" /\ r.job[p] \in {"fast", "full"}
Underway(r, p)   == r.job[p] \in {"announced", "sending", "ok", "review"}

(* What it knows of a file, the server and the journal.                    *)
ViewOf(r, D, S, F, e, p) ==
    /\ ~e /\ r.sha[p] # None => D[p].sha = r.sha[p]
    /\ Confirming(r, p) => Stored(S, D[p].sha) \/ Stale(D, F, e, p)
    /\ Resolving(r, p) => D[p].sha = r.sha[p] \/ Stale(D, F, e, p)
    /\ ~e /\ Underway(r, p) =>
          Stored(S, r.sha[p]) \/ (IsOpen(Latest(F, p)) /\ IsOpen(Final(F, p)))

ViewOK(r, D, S, F, e) == \A p \in Path : ViewOf(r, D, S, F, e, p)

CommandsOK ==
    \A c \in Command : PhaseOK(run[c]) /\ ViewOK(run[c], disk, server, file, edited)

Alone == edited => \A c, d \in Running : c = d

IInv ==
    /\ TypeOK
    /\ JournalOK(disk, server, file)
    /\ CommandsOK
    /\ Alone
-----------------------------------------------------------------------------
(* The server forgets nothing.                                             *)
LEMMA JournalGrows ==
    ASSUME NEW D, NEW F, NEW S, NEW T, S \subseteq T, JournalOK(D, S, F)
    PROVE  JournalOK(D, T, F)
  BY DEF JournalOK, Stored

LEMMA ViewGrows ==
    ASSUME NEW D, NEW F, NEW S, NEW T, NEW e, S \subseteq T, NEW r, ViewOK(r, D, S, F, e)
    PROVE  ViewOK(r, D, T, F, e)
  BY DEF ViewOK, ViewOf, Stored

(* A step of one path in a command.                                        *)
LEMMA JobPhase ==
    ASSUME NEW r, NEW t, PhaseOK(r), NEW p \in Path, NEW j,
           r.job \in [Path -> JobState],
           t.pc = r.pc, t.sha = r.sha, t.job = [r.job EXCEPT ![p] = j],
           j \in Allowed(r.pc),
           r.pc # "hash" /\ j \in Hashed => r.sha[p] # None,
           j \notin {"none", "done"} => r.job[p] \notin {"none", "done"}
    PROVE  PhaseOK(t)
  <1>1. \A q \in Path : t.job[q] = IF q = p THEN j ELSE r.job[q]
    OBVIOUS
  <1> QED BY <1>1 DEF PhaseOK

LEMMA JobView ==
    ASSUME NEW r, NEW t, NEW D, NEW S, NEW F, NEW e, ViewOK(r, D, S, F, e),
           NEW p \in Path, NEW j,
           r.job \in [Path -> JobState],
           t.pc = r.pc, t.sha = r.sha, t.job = [r.job EXCEPT ![p] = j],
           Confirming(t, p) => Stored(S, D[p].sha) \/ Stale(D, F, e, p),
           Resolving(t, p) => D[p].sha = r.sha[p] \/ Stale(D, F, e, p),
           ~e /\ Underway(t, p) =>
              Stored(S, r.sha[p]) \/ (IsOpen(Latest(F, p)) /\ IsOpen(Final(F, p)))
    PROVE  ViewOK(t, D, S, F, e)
  <1>1. \A q \in Path : t.job[q] = IF q = p THEN j ELSE r.job[q]
    OBVIOUS
  <1>2. ASSUME NEW q \in Path, q # p PROVE ViewOf(t, D, S, F, e, q)
    <2>1. ViewOf(r, D, S, F, e, q) /\ t.job[q] = r.job[q]
      BY <1>1, <1>2 DEF ViewOK
    <2> QED BY <2>1 DEF ViewOf, Confirming, Resolving, Underway
  <1>3. ViewOf(t, D, S, F, e, p)
    BY DEF ViewOf, ViewOK
  <1> QED BY <1>2, <1>3 DEF ViewOK

(* A command that is over, or does nothing but send.                       *)
LEMMA IdleOK ==
    ASSUME NEW D, NEW S, NEW F, NEW e
    PROVE  PhaseOK(Idle) /\ ViewOK(Idle, D, S, F, e)
  <1>1. Idle.pc = "off" /\ \A p \in Path : Idle.job[p] = "none" /\ Idle.sha[p] = None
    BY DEF Idle
  <1>2. "none" \in Allowed("off")
    BY DEF Allowed
  <1>3. PhaseOK(Idle)
    BY <1>1, <1>2 DEF PhaseOK, Hashed
  <1> QED BY <1>1, <1>3 DEF ViewOK, ViewOf, Confirming, Resolving, Underway

(* A step of one command that leaves the files and the journal alone.      *)
LEMMA QuietStep ==
    ASSUME IInv, NEW c \in Command, NEW t \in RunType, Go(c, t),
           UNCHANGED <<disk, file, edited>>, server \subseteq server',
           PhaseOK(t), ViewOK(t, disk, server', file, edited),
           edited => run[c].pc # "off"
    PROVE  JournalOK(disk, server, file)' /\ CommandsOK' /\ Alone'
  <1>1. run' \in [Command -> RunType] /\ run'[c] = t /\ \A d \in Command \ {c} : run'[d] = run[d]
    BY DEF IInv, TypeOK, Go
  <1>2. JournalOK(disk, server, file)'
    BY JournalGrows DEF IInv
  <1>3. ASSUME NEW d \in Command
        PROVE  PhaseOK(run'[d]) /\ ViewOK(run'[d], disk', server', file', edited')
    <2>1. CASE d = c
      BY <1>1, <2>1
    <2>2. CASE d # c
      <3>1. run'[d] = run[d] /\ PhaseOK(run[d]) /\ ViewOK(run[d], disk, server, file, edited)
        BY <1>1, <2>2 DEF IInv, CommandsOK
      <3>2. ViewOK(run[d], disk, server', file, edited)
        BY <3>1, ViewGrows
      <3> QED BY <3>1, <3>2
    <2> QED BY <2>1, <2>2
  <1>4. Alone'
    <2> SUFFICES ASSUME edited' PROVE Running' \subseteq Running
      BY DEF Alone, IInv
    <2> QED BY <1>1 DEF Running
  <1> QED BY <1>2, <1>3, <1>4 DEF CommandsOK

-----------------------------------------------------------------------------
(* The rows one write appends: every one is of the file as it is, and one  *)
(* that clears an entry is alone and right to.                             *)
Sound(rows, D, S, F, e) ==
    /\ rows \in Seq(RowType) /\ rows # <<>>
    /\ \A k \in DOMAIN rows :
          /\ rows[k].sig = D[rows[k].path].sig
          /\ \/ IsOpen(rows[k])
             \/ /\ Len(rows) = 1
                /\ Stored(S, D[rows[k].path].sha) \/ Stale(D, F, e, rows[k].path)

OpenedBy(rows, p) == \E k \in DOMAIN rows : rows[k].path = p /\ IsOpen(rows[k])

(* What holds of a path before such a write, and whether it is finished.   *)
Kept(D, S, F, G, e, rows) ==
    \A p \in Path :
       /\ IsOpen(Latest(F, p)) /\ IsOpen(Final(F, p)) =>
             \/ IsOpen(Latest(G, p)) /\ IsOpen(Final(G, p))
             \/ Stored(S, D[p].sha) \/ e
       /\ Stale(D, F, e, p) => Stale(D, G, e, p) \/ OpenedBy(rows, p)

(* No entry disappears that was made for the file as it is, unless the     *)
(* server has it.                                                          *)
Settles(D, S, F, G) ==
    \A p \in Path : IsOpen(Latest(F, p)) /\ ~IsOpen(Latest(G, p)) =>
       Outdated(Latest(F, p), D, p) \/ Stored(S, D[p].sha)

(* A file has a signature.                                                 *)
Signed(D) == \A p \in Path : D[p].sig \in Nat

LEMMA NewestRow ==
    ASSUME NEW rows \in Seq(RowType), NEW p, Newest(rows, p) # None
    PROVE  \E k \in DOMAIN rows : Newest(rows, p) = rows[k] /\ rows[k].path = p
  <1>1. rows \in Seq(Line)
    BY DEF Line
  <1> QED BY <1>1, NewestType

LEMMA WriteJournal ==
    ASSUME NEW D, NEW S, NEW e, NEW F \in JournalType, JournalOK(D, S, F), Signed(D),
           NEW rows, Sound(rows, D, S, F, e)
    PROVE  /\ Write(F, rows) \in JournalType
           /\ JournalOK(D, S, Write(F, rows))
           /\ Kept(D, S, F, Write(F, rows), e, rows)
           /\ Settles(D, S, F, Write(F, rows))
  <1> DEFINE G == Write(F, rows)
  <1>1. rows \in Seq(RowType) /\ rows # <<>>
    BY DEF Sound
  <1>2. /\ G \in JournalType /\ G.ended
        /\ \A p : LET after == IF Newest(rows, p) # None THEN Newest(rows, p)
                               ELSE Newest(F.lines, p) IN
                  Latest(G, p) = after /\ Newest(G.lines, p) = after
    BY <1>1, WriteView
  <1> HIDE DEF G
  <1>3. \A p : /\ Latest(G, p) = Final(G, p)
               /\ Final(G, p) = IF Newest(rows, p) # None THEN Newest(rows, p) ELSE Final(F, p)
    BY <1>2 DEF Final
  <1>4. ASSUME NEW p \in Path, Newest(rows, p) # None
        PROVE  \E k \in DOMAIN rows :
                  /\ Newest(rows, p) = rows[k] /\ rows[k].path = p /\ rows[k].sig = D[p].sig
                  /\ IsOpen(rows[k]) \/ Stored(S, D[p].sha) \/ Stale(D, F, e, p)
    BY <1>1, <1>4, NewestRow DEF Sound
  <1>5. JournalOK(D, S, G)
    <2> SUFFICES ASSUME NEW p \in Path
                 PROVE  /\ Final(G, p) # None => Final(G, p).sig <= D[p].sig
                        /\ IsOpen(Final(G, p)) \/ Outdated(Latest(G, p), D, p)
      BY <1>2, <1>3 DEF JournalOK
    <2>1. Final(G, p) # None => Final(G, p).sig <= D[p].sig
      BY <1>3, <1>4 DEF JournalOK, Signed
    <2>2. IsOpen(Final(G, p)) \/ Outdated(Latest(G, p), D, p)
      BY <1>3 DEF Outdated
    <2> QED BY <2>1, <2>2
  <1>6. ASSUME NEW p \in Path, IsOpen(Final(F, p))
        PROVE  \/ IsOpen(Latest(G, p)) /\ IsOpen(Final(G, p))
               \/ Stored(S, D[p].sha) \/ e
    BY <1>3, <1>4, <1>6 DEF Stale
  <1>7. ASSUME NEW p \in Path, Stale(D, F, e, p)
        PROVE  Stale(D, G, e, p) \/ OpenedBy(rows, p)
    BY <1>3, <1>4, <1>7 DEF Stale, OpenedBy, Outdated
  <1>8. Kept(D, S, F, G, e, rows)
    BY <1>6, <1>7 DEF Kept
  <1>9. Settles(D, S, F, G)
    <2> SUFFICES ASSUME NEW p \in Path, IsOpen(Latest(F, p)), ~IsOpen(Latest(G, p))
                 PROVE  Outdated(Latest(F, p), D, p) \/ Stored(S, D[p].sha)
      BY DEF Settles
    <2> QED BY <1>3, <1>4 DEF JournalOK, Stale
  <1> QED BY <1>2, <1>5, <1>8, <1>9 DEF G

LEMMA CutJournal ==
    ASSUME NEW D, NEW S, NEW e, NEW F \in JournalType, JournalOK(D, S, F), Signed(D),
           NEW rows, Sound(rows, D, S, F, e), NEW k \in DOMAIN rows,
           NEW cut \in {"torn", "whole", "split"}
    PROVE  /\ Interrupted(F, rows, k, cut) \in JournalType
           /\ JournalOK(D, S, Interrupted(F, rows, k, cut))
           /\ Kept(D, S, F, Interrupted(F, rows, k, cut), e, rows)
           /\ Settles(D, S, F, Interrupted(F, rows, k, cut))
  <1> DEFINE G == Interrupted(F, rows, k, cut)
             done == SubSeq(rows, 1, k - 1)
             begun(p) == IF Newest(done, p) # None THEN Newest(done, p) ELSE Newest(F.lines, p)
  <1>1. rows \in Seq(RowType) /\ rows # <<>>
    BY DEF Sound
  <1>2. /\ G \in JournalType /\ G.lines # <<>>
        /\ \A p : /\ Latest(G, p) = begun(p)
                  /\ Newest(G.lines, p) = IF cut = "whole" /\ rows[k].path = p
                                          THEN rows[k] ELSE begun(p)
    BY <1>1, CutView
  <1>3. done \in Seq(RowType) /\ Len(done) = k - 1 /\ \A i \in DOMAIN done : i \in DOMAIN rows /\ done[i] = rows[i]
    BY <1>1
  <1>9. k \in 1 .. Len(rows) /\ Len(rows) \in Nat
    BY <1>1
  <1> HIDE DEF G, done
  <1>4. ASSUME NEW p \in Path, Newest(done, p) # None
        PROVE  \E i \in DOMAIN rows :
                  /\ Newest(done, p) = rows[i] /\ rows[i].path = p /\ rows[i].sig = D[p].sig
                  /\ IsOpen(rows[i])
    <2>1. PICK i \in DOMAIN done : Newest(done, p) = done[i] /\ done[i].path = p
      BY <1>3, <1>4, NewestRow
    <2>2. i \in 1 .. k - 1
      BY <1>3, <1>9
    <2>3. Len(rows) # 1
      BY <2>2, <1>9
    <2> QED BY <1>3, <2>1, <2>3 DEF Sound
  <1>5. \A p : /\ Latest(G, p) = IF Newest(done, p) # None THEN Newest(done, p) ELSE Final(F, p)
               /\ Final(G, p) = IF cut = "whole" /\ rows[k].path = p THEN rows[k] ELSE Latest(G, p)
    BY <1>2 DEF Final
  <1> HIDE DEF begun
  <1>6. /\ rows[k].sig = D[rows[k].path].sig
        /\ \/ IsOpen(rows[k])
           \/ /\ k = 1
              /\ Stored(S, D[rows[k].path].sha) \/ Stale(D, F, e, rows[k].path)
    BY <1>9 DEF Sound
  <1>7. k = 1 => \A p : Newest(done, p) = None
    <2> SUFFICES ASSUME k = 1 PROVE done = <<>>
      BY NewestEmpty
    <2> QED BY <1>3
  <1>8. JournalOK(D, S, G)
    <2> SUFFICES ASSUME NEW p \in Path
                 PROVE  /\ Latest(G, p) # None => Latest(G, p).sig <= D[p].sig
                        /\ Final(G, p) # None => Final(G, p).sig <= D[p].sig
                        /\ \/ IsOpen(Final(G, p)) \/ Outdated(Latest(G, p), D, p)
                           \/ Stored(S, D[p].sha)
      BY <1>2 DEF JournalOK
    <2>1. Latest(G, p) # None => Latest(G, p).sig <= D[p].sig
      BY <1>4, <1>5 DEF JournalOK, Signed
    <2>2. Final(G, p) # None => Final(G, p).sig <= D[p].sig
      BY <2>1, <1>5, <1>6 DEF Signed
    <2>3. IsOpen(Final(G, p)) \/ Outdated(Latest(G, p), D, p) \/ Stored(S, D[p].sha)
      <3>1. CASE Final(G, p) = Latest(G, p)
        BY <3>1 DEF Outdated
      <3>2. CASE Final(G, p) # Latest(G, p)
        <4>1. rows[k].path = p /\ Final(G, p) = rows[k]
          BY <1>5, <3>2
        <4>2. CASE IsOpen(rows[k])
          BY <4>1, <4>2
        <4>3. CASE ~IsOpen(rows[k])
          <5>1. Latest(G, p) = Final(F, p)
            BY <1>5, <1>6, <1>7, <4>3
          <5> QED BY <1>6, <4>1, <4>3, <5>1 DEF Stale
        <4> QED BY <4>2, <4>3
      <3> QED BY <3>1, <3>2
    <2> QED BY <2>1, <2>2, <2>3
  <1>10. ASSUME NEW p \in Path, IsOpen(Final(F, p))
        PROVE  \/ IsOpen(Latest(G, p)) /\ IsOpen(Final(G, p))
               \/ Stored(S, D[p].sha) \/ e
    <2>1. IsOpen(Latest(G, p))
      BY <1>4, <1>5, <1>10
    <2> QED BY <1>5, <1>6, <2>1 DEF Stale
  <1>11. ASSUME NEW p \in Path, Stale(D, F, e, p)
        PROVE  Stale(D, G, e, p) \/ OpenedBy(rows, p)
    <2>1. Outdated(Latest(G, p), D, p) \/ OpenedBy(rows, p)
      BY <1>4, <1>5, <1>11 DEF Stale, OpenedBy
    <2>2. Outdated(Final(G, p), D, p) \/ OpenedBy(rows, p)
      BY <1>5, <2>1 DEF OpenedBy, Outdated
    <2> QED BY <1>11, <2>1, <2>2 DEF Stale
  <1>12. Kept(D, S, F, G, e, rows)
    BY <1>10, <1>11 DEF Kept
  <1>13. Settles(D, S, F, G)
    <2> SUFFICES ASSUME NEW p \in Path, IsOpen(Latest(F, p)), ~IsOpen(Latest(G, p))
                 PROVE  Outdated(Latest(F, p), D, p) \/ Stored(S, D[p].sha)
      BY DEF Settles
    <2> QED BY <1>4, <1>5 DEF JournalOK
  <1> QED BY <1>2, <1>8, <1>12, <1>13 DEF G

(* Compaction keeps every open entry.                                      *)
LEMMA CompactJournal ==
    ASSUME NEW D, NEW S, NEW F \in JournalType, JournalOK(D, S, F)
    PROVE  /\ Compacted(F) \in JournalType
           /\ JournalOK(D, S, Compacted(F))
           /\ Settles(D, S, F, Compacted(F))
           /\ \A p \in Path :
                 IsOpen(Latest(F, p)) /\ IsOpen(Final(F, p)) =>
                    IsOpen(Latest(Compacted(F), p)) /\ IsOpen(Final(Compacted(F), p))
  <1> DEFINE G == Compacted(F)
             kept(p) == IF Latest(F, p) # None /\ Stays(Latest(F, p))
                        THEN Latest(F, p) ELSE None
  <1>1. \/ G = F /\ \A p : Latest(F, p) = kept(p)
        \/ /\ G \in JournalType /\ G.ended
           /\ \A p : Latest(G, p) = kept(p) /\ Newest(G.lines, p) = kept(p)
    BY CompactedView DEF JournalOK
  <1> HIDE DEF G
  <1>2. CASE G = F
    BY <1>2 DEF G, Settles
  <1>3. CASE /\ G \in JournalType /\ G.ended
             /\ \A p : Latest(G, p) = kept(p) /\ Newest(G.lines, p) = kept(p)
    <2>1. \A p : Final(G, p) = Latest(G, p)
      BY <1>3 DEF Final
    <2>2. JournalOK(D, S, G)
      <3> SUFFICES ASSUME NEW p \in Path
                   PROVE  /\ Latest(G, p) # None => Latest(G, p).sig <= D[p].sig
                          /\ IsOpen(Final(G, p)) \/ Outdated(Latest(G, p), D, p)
        BY <1>3, <2>1 DEF JournalOK
      <3>1. Latest(G, p) # None => Latest(G, p) = Latest(F, p)
        BY <1>3
      <3> QED BY <3>1, <2>1 DEF JournalOK, Outdated
    <2>3. ASSUME NEW p \in Path, IsOpen(Latest(F, p))
          PROVE  IsOpen(Latest(G, p)) /\ IsOpen(Final(G, p))
      <3>1. Latest(G, p) = Latest(F, p)
        BY <1>3, <2>3 DEF IsOpen, Stays
      <3> QED BY <3>1, <2>1, <2>3
    <2> QED BY <1>3, <2>2, <2>3 DEF G, Settles
  <1> QED BY <1>1, <1>2, <1>3

-----------------------------------------------------------------------------
(* What every step of one command changes.                                 *)
LEMMA RunOf ==
    ASSUME TypeOK, NEW c \in Command
    PROVE  /\ run[c] \in RunType /\ run[c].job \in [Path -> JobState]
           /\ run[c].sha \in [Path -> Content \cup {None}]
           /\ run[c].tries \in [Path -> 0 .. Attempts - 1]
  BY DEF TypeOK, RunType

LEMMA GoIs ==
    ASSUME TypeOK, NEW c \in Command, NEW t \in RunType, Go(c, t)
    PROVE  /\ run' \in [Command -> RunType] /\ run'[c] = t
           /\ \A d \in Command \ {c} : run'[d] = run[d]
  BY DEF TypeOK, Go

LEMMA JobType ==
    ASSUME NEW r \in RunType, NEW p \in Path, NEW j \in JobState
    PROVE  LET t == [r EXCEPT !.job[p] = j] IN
           /\ t \in RunType /\ t.pc = r.pc /\ t.sha = r.sha
           /\ t.job = [r.job EXCEPT ![p] = j]
  BY DEF RunType

(* Nothing but a command, requests and what may still go wrong.            *)
LEMMA QuietInv ==
    ASSUME IInv, NEW c \in Command, NEW t \in RunType, Go(c, t),
           UNCHANGED <<disk, file, server, edited>>,
           UNCHANGED wire \/ wire' \subseteq [bytes: Content, expected: Content],
           UNCHANGED faults \/ Fault,
           PhaseOK(t), ViewOK(t, disk, server, file, edited),
           edited => run[c].pc # "off"
    PROVE  IInv'
  <1>0. TypeOK
    BY DEF IInv
  <1>5. run' \in [Command -> RunType]
    BY <1>0, GoIs
  <1>1. TypeOK'
    <2>1. faults' \in Nat
      BY <1>0 DEF TypeOK, Fault
    <2>2. wire' \subseteq [bytes: Content, expected: Content]
      BY <1>0 DEF TypeOK
    <2> QED BY <1>0, <1>5, <2>1, <2>2 DEF TypeOK
  <1>2. /\ server \subseteq server' /\ UNCHANGED <<disk, file, edited>>
        /\ ViewOK(t, disk, server', file, edited)
    OBVIOUS
  <1>3. JournalOK(disk, server, file)' /\ CommandsOK' /\ Alone'
    BY <1>2, QuietStep
  <1> QED BY <1>1, <1>3 DEF IInv

LEMMA StartInv ==
    ASSUME IInv, NEW c \in Command, Start(c)
    PROVE  IInv'
  <1> DEFINE r == run[c]
             jobs == [p \in Path |-> IF p \in Selected(c) THEN "new" ELSE "none"]
             phase == IF c \in Retrying THEN "hash" ELSE "probe"
             t == [r EXCEPT !.pc = phase, !.job = jobs]
  <1>1. r \in RunType /\ PhaseOK(r)
    BY RunOf DEF IInv, CommandsOK
  <1>2. jobs \in [Path -> JobState]
    BY DEF JobState
  <1>3. t \in RunType /\ t.pc = phase /\ t.job = jobs /\ t.sha = r.sha
    BY <1>1, <1>2 DEF RunType
  <1>4. /\ Go(c, t) /\ UNCHANGED <<disk, file, server, wire, edited>>
        /\ UNCHANGED faults \/ Fault
        /\ ~edited /\ r.pc = "off"
    BY DEF Start
  <1>5. \A p \in Path : t.job[p] \in {"none", "new"} /\ t.sha[p] = None
    BY <1>1, <1>3, <1>4 DEF PhaseOK
  <1>6. phase \in {"hash", "probe"}
    OBVIOUS
  <1> HIDE DEF t, jobs, phase, r
  <1>7. PhaseOK(t)
    BY <1>3, <1>5, <1>6 DEF PhaseOK, Allowed, Hashed
  <1>8. ViewOK(t, disk, server, file, edited)
    BY <1>5 DEF ViewOK, ViewOf, Confirming, Resolving, Underway
  <1> QED BY <1>3, <1>4, <1>7, <1>8, QuietInv

LEMMA ProbeInv ==
    ASSUME IInv, NEW c \in Command, Probe(c)
    PROVE  IInv'
  <1> DEFINE r == run[c]
  <1>0. PICK verdict \in [Path -> {"existing", "fast", "full", "doubt"}] :
          LET fast(p) == p \in Jobs(c, {"new"}) /\ verdict[p] = "fast"
              twin(p) == \E q \in Path : /\ fast(p) /\ fast(q) /\ Earlier(q, p)
                                         /\ Article[disk[q].sha] = Article[disk[p].sha] IN
          /\ \A p \in Path : verdict[p] \in Verdicts(disk[p].sha)
          /\ Go(c, [run[c] EXCEPT !.pc = "hash",
                                  !.job = [p \in Path |-> IF run[c].job[p] = "none" THEN "none"
                                                          ELSE IF twin(p) THEN "done" ELSE verdict[p]]])
    BY DEF Probe
  <1> DEFINE fast(p) == p \in Jobs(c, {"new"}) /\ verdict[p] = "fast"
             twin(p) == \E q \in Path : /\ fast(p) /\ fast(q) /\ Earlier(q, p)
                                         /\ Article[disk[q].sha] = Article[disk[p].sha]
             jobs == [p \in Path |-> IF r.job[p] = "none" THEN "none"
                                     ELSE IF twin(p) THEN "done" ELSE verdict[p]]
             t == [r EXCEPT !.pc = "hash", !.job = jobs]
  <1>1. r \in RunType /\ PhaseOK(r)
    BY RunOf DEF IInv, CommandsOK
  <1> HIDE DEF twin
  <1>2. jobs \in [Path -> JobState]
    BY DEF JobState
  <1>3. t \in RunType /\ t.pc = "hash" /\ t.job = jobs /\ t.sha = r.sha
    BY <1>1, <1>2 DEF RunType
  <1>4. /\ UNCHANGED <<disk, file, server, wire, edited, faults>>
        /\ r.pc = "probe"
    BY DEF Probe
  <1>10. Go(c, t)
    BY <1>0 DEF twin
  <1>5. \A p \in Path : t.sha[p] = None /\ t.job[p] \in {"none", "done", verdict[p]}
    BY <1>1, <1>3, <1>4 DEF PhaseOK
  <1> HIDE DEF t, jobs, r
  <1>6. \A p \in Path : verdict[p] = "existing" => Stored(server, disk[p].sha)
    BY <1>0 DEF Verdicts, Known, Stored
  <1>7. PhaseOK(t)
    BY <1>3, <1>5 DEF PhaseOK, Allowed, Hashed
  <1>8. ViewOK(t, disk, server, file, edited)
    <2> SUFFICES ASSUME NEW p \in Path PROVE ViewOf(t, disk, server, file, edited, p)
      BY DEF ViewOK
    <2>1. ~Underway(t, p)
      BY <1>5 DEF Underway
    <2>2. Confirming(t, p) => verdict[p] = "existing"
      BY <1>5 DEF Confirming
    <2>3. ~Resolving(t, p)
      BY <1>3 DEF Resolving
    <2> QED BY <1>5, <1>6, <2>1, <2>2, <2>3 DEF ViewOf
  <1>9. edited => run[c].pc # "off"
    BY <1>4 DEF r
  <1> QED BY <1>3, <1>4, <1>7, <1>8, <1>9, <1>10, QuietInv

LEMMA InOrder ==
    ASSUME NEW p \in Path, NEW q \in Path, p # q
    PROVE  Earlier(p, q) \/ Earlier(q, p)
  <1>1. PICK i \in DOMAIN Scan : Scan[i] = p
    BY PathAssumption DEF Range
  <1>2. PICK j \in DOMAIN Scan : Scan[j] = q
    BY PathAssumption DEF Range
  <1>3. i \in Nat /\ j \in Nat /\ i # j
    BY <1>1, <1>2, PathAssumption
  <1>4. i < j \/ j < i
    BY <1>3
  <1> QED BY <1>1, <1>2, <1>4 DEF Earlier

LEMMA HashInv ==
    ASSUME IInv, NEW c \in Command, Hash(c)
    PROVE  IInv'
  <1> DEFINE r == run[c]
             hashed == Jobs(c, {"new", "fast", "full"})
             twin(p) == \E q \in hashed : Earlier(q, p) /\ disk[q].sha = disk[p].sha
             judge(p) == IF p \notin hashed THEN run[c].job[p]
                         ELSE IF twin(p) THEN "done"
                         ELSE IF run[c].job[p] = "fast" THEN "fast"
                         ELSE IF disk[p].sha \in server THEN "existing" ELSE "full"
             shas == [p \in Path |-> IF p \in hashed THEN disk[p].sha ELSE None]
             jobs == [p \in Path |-> judge(p)]
             t == [r EXCEPT !.pc = "prepare", !.sha = shas, !.job = jobs]
  <1>1. r \in RunType /\ PhaseOK(r) /\ r.job \in [Path -> JobState]
    BY RunOf DEF IInv, CommandsOK
  <1>2. /\ UNCHANGED <<disk, file, server, wire, edited, faults>>
        /\ r.pc = "hash" /\ Jobs(c, {"existing", "doubt", "failed"}) = {}
        /\ Go(c, t)
    BY DEF Hash, Hashing
  <1>3. disk \in [Path -> [sig: Nat, sha: Content]]
    BY DEF IInv, TypeOK
  <1> HIDE DEF twin, hashed
  <1>4. shas \in [Path -> Content \cup {None}] /\ jobs \in [Path -> JobState]
    BY <1>1, <1>3 DEF JobState
  <1>5. t \in RunType /\ t.pc = "prepare" /\ t.job = jobs /\ t.sha = shas
    BY <1>1, <1>4 DEF RunType
  <1>6. \A p \in Path : p \notin hashed => r.job[p] \in {"none", "done"}
    BY <1>1, <1>2 DEF PhaseOK, Allowed, Jobs, hashed
  <1>7. \A p \in Path :
           \/ t.job[p] \in {"none", "done"}
           \/ /\ p \in hashed /\ ~twin(p) /\ t.sha[p] = disk[p].sha
              /\ \/ t.job[p] \in {"fast", "full"}
                 \/ t.job[p] = "existing" /\ disk[p].sha \in server
    BY <1>5, <1>6
  <1>8. \A p \in Path : t.sha[p] # None => t.sha[p] = disk[p].sha
    BY <1>5
  <1> HIDE DEF t, jobs, shas, r
  <1>9. \A p \in Path : disk[p].sha # None
    BY <1>3, RowAssumption
  <1>10. ASSUME NEW p \in Path, NEW q \in Path, t.sha[p] = t.sha[q],
                t.job[p] \notin {"none", "done"}, t.job[q] \notin {"none", "done"}
         PROVE  p = q
    <2>1. p \in hashed /\ ~twin(p) /\ q \in hashed /\ ~twin(q) /\ disk[p].sha = disk[q].sha
      BY <1>7, <1>10
    <2>2. ~Earlier(p, q) /\ ~Earlier(q, p)
      BY <2>1 DEF twin
    <2> QED BY <2>2, InOrder
  <1>11. PhaseOK(t)
    <2>1. \A p \in Path : t.job[p] \in Allowed("prepare")
      BY <1>7 DEF Allowed
    <2>2. \A p \in Path : t.job[p] \in Hashed => t.sha[p] # None
      BY <1>7, <1>9 DEF Hashed
    <2> QED BY <1>5, <1>10, <2>1, <2>2 DEF PhaseOK
  <1>12. ViewOK(t, disk, server, file, edited)
    <2> SUFFICES ASSUME NEW p \in Path PROVE ViewOf(t, disk, server, file, edited, p)
      BY DEF ViewOK
    <2>1. ~Underway(t, p)
      BY <1>7 DEF Underway
    <2>2. Confirming(t, p) => Stored(server, disk[p].sha)
      BY <1>7 DEF Confirming, Stored
    <2>3. Resolving(t, p) => disk[p].sha = t.sha[p]
      BY <1>7 DEF Resolving
    <2> QED BY <1>8, <2>1, <2>2, <2>3 DEF ViewOf
  <1>13. edited => run[c].pc # "off"
    BY <1>2 DEF r
  <1> QED BY <1>2, <1>5, <1>11, <1>12, <1>13, QuietInv

-----------------------------------------------------------------------------
LEMMA HashFailsInv ==
    ASSUME IInv, NEW c \in Command, NEW p \in Path, HashFails(c, p)
    PROVE  IInv'
  <1> DEFINE r == run[c]
             t == [r EXCEPT !.job[p] = "failed"]
  <1>1. r \in RunType /\ r.job \in [Path -> JobState] /\ PhaseOK(r)
        /\ ViewOK(r, disk, server, file, edited)
    BY RunOf DEF IInv, CommandsOK
  <1>2. /\ UNCHANGED <<disk, file, server, wire, edited>> /\ Fault
        /\ r.pc = "hash" /\ r.job[p] \in {"new", "fast", "full"} /\ Go(c, t)
    BY DEF HashFails
  <1>3. "failed" \in JobState
    BY DEF JobState
  <1>4. t \in RunType /\ t.pc = r.pc /\ t.sha = r.sha /\ t.job = [r.job EXCEPT ![p] = "failed"]
    BY <1>1, <1>3, JobType
  <1>8. edited => run[c].pc # "off"
    BY <1>2
  <1> HIDE DEF t, r
  <1>5. t.job[p] = "failed"
    BY <1>1, <1>4
  <1>6. PhaseOK(t)
    <2>1. "failed" \in Allowed(r.pc)
      BY <1>2 DEF Allowed
    <2>2. r.job[p] \notin {"none", "done"}
      BY <1>2
    <2> QED BY <1>1, <1>2, <1>4, <2>1, <2>2, JobPhase
  <1>7. ViewOK(t, disk, server, file, edited)
    <2>1. ~Confirming(t, p) /\ ~Resolving(t, p) /\ ~Underway(t, p)
      BY <1>5 DEF Confirming, Resolving, Underway
    <2> QED BY <1>1, <1>4, <2>1, JobView
  <1> QED BY <1>2, <1>4, <1>6, <1>7, <1>8, QuietInv

LEMMA PrepareInv ==
    ASSUME IInv, NEW c \in Command, Prepare(c)
    PROVE  IInv'
  <1> DEFINE r == run[c]
             open == Jobs(c, {"fast", "full"})
  <1>1. PICK resolution \in [Path -> {"ready", "failed", "existing", "done"}] :
          /\ \A p \in open : resolution[p] \in Resolutions(c, p, run[c].sha[p])
          /\ Go(c, [run[c] EXCEPT !.pc = "upload",
                                  !.job = [p \in Path |-> IF p \in open THEN resolution[p]
                                                          ELSE run[c].job[p]]])
    BY DEF Prepare
  <1> DEFINE jobs == [p \in Path |-> IF p \in open THEN resolution[p] ELSE r.job[p]]
             t == [r EXCEPT !.pc = "upload", !.job = jobs]
  <1>2. /\ UNCHANGED <<disk, file, server, wire, edited, faults>>
        /\ r.pc = "prepare" /\ Jobs(c, {"existing", "failed"}) = {} /\ Go(c, t)
    BY <1>1 DEF Prepare
  <1>3. r \in RunType /\ r.job \in [Path -> JobState] /\ PhaseOK(r)
        /\ ViewOK(r, disk, server, file, edited)
    BY RunOf DEF IInv, CommandsOK
  <1>4. \A p \in Path : p \in open <=> r.job[p] \in {"fast", "full"}
    BY DEF Jobs
  <1>5. \A p \in Path : p \notin open => r.job[p] \in {"none", "done"}
    BY <1>2, <1>3, <1>4 DEF PhaseOK, Allowed, Jobs
  <1> HIDE DEF open
  <1>6. jobs \in [Path -> JobState]
    BY <1>3 DEF JobState
  <1>7. t \in RunType /\ t.pc = "upload" /\ t.job = jobs /\ t.sha = r.sha
    BY <1>3, <1>6 DEF RunType
  <1>8. \A p \in Path : /\ p \in open => t.job[p] = resolution[p]
                        /\ p \notin open => t.job[p] \in {"none", "done"}
    BY <1>5, <1>7
  <1>14. edited => run[c].pc # "off"
    BY <1>2
  <1>9. ASSUME NEW p \in open, resolution[p] = "existing"
        PROVE  Stored(server, r.sha[p])
    BY <1>1, <1>9 DEF Resolutions, Stored, Known
  <1> HIDE DEF t, jobs, r
  <1>10. \A p \in open : p \in Path /\ resolution[p] \in {"ready", "failed", "existing", "done"}
    BY DEF open, Jobs
  <1>11. \A p \in Path : t.job[p] \notin {"none", "done"} => p \in open
    BY <1>8
  <1>12. PhaseOK(t)
    <2>1. \A p \in Path : t.job[p] \in Allowed("upload")
      BY <1>8, <1>10 DEF Allowed
    <2>2. \A p \in open : r.sha[p] # None /\ r.job[p] \notin {"none", "done"}
      BY <1>2, <1>3, <1>4, <1>10 DEF PhaseOK, Hashed
    <2>3. \A p \in Path : t.job[p] \in Hashed => t.job[p] \notin {"none", "done"}
      BY DEF Hashed
    <2> QED BY <1>2, <1>3, <1>7, <1>11, <2>1, <2>2, <2>3 DEF PhaseOK
  <1>13. ViewOK(t, disk, server, file, edited)
    <2> SUFFICES ASSUME NEW p \in Path PROVE ViewOf(t, disk, server, file, edited, p)
      BY DEF ViewOK
    <2>1. ViewOf(r, disk, server, file, edited, p)
      BY <1>3 DEF ViewOK
    <2>2. ~Underway(t, p) /\ ~Resolving(t, p)
      BY <1>7, <1>8, <1>10 DEF Underway, Resolving
    <2>3. Confirming(t, p) => Stored(server, disk[p].sha) \/ Stale(disk, file, edited, p)
      <3> SUFFICES ASSUME Confirming(t, p)
                   PROVE  Stored(server, disk[p].sha) \/ Stale(disk, file, edited, p)
        OBVIOUS
      <3>1. p \in open /\ resolution[p] = "existing"
        BY <1>8, <1>10 DEF Confirming
      <3>2. Resolving(r, p)
        BY <1>2, <1>4, <3>1 DEF Resolving
      <3> QED BY <1>9, <2>1, <3>1, <3>2 DEF ViewOf
    <2> QED BY <1>7, <2>1, <2>2, <2>3 DEF ViewOf
  <1> QED BY <1>2, <1>7, <1>12, <1>13, <1>14, QuietInv

(* What a command that is sending a file knows of it.                      *)
LEMMA SendingIs ==
    ASSUME IInv, NEW c \in Command, NEW p \in Path, Sending(c, p)
    PROVE  /\ run[c].pc \in {"upload", "aborted"} /\ run[c].sha[p] \in Content
           /\ Request(c, p) \in [bytes: Content, expected: Content]
  <1>1. run[c].job[p] = "sending" /\ PhaseOK(run[c])
    BY DEF Sending, IInv, CommandsOK
  <1>2. run[c] \in RunType /\ disk \in [Path -> [sig: Nat, sha: Content]]
    BY DEF IInv, TypeOK
  <1>3. run[c].pc \in {"upload", "aborted"}
    BY <1>1, <1>2 DEF PhaseOK, Allowed, RunType
  <1>4. run[c].sha[p] \in Content
    BY <1>1, <1>2, <1>3 DEF PhaseOK, Hashed, RunType
  <1> QED BY <1>2, <1>3, <1>4 DEF Request

LEMMA SubmitInv ==
    ASSUME IInv, NEW c \in Command, NEW p \in Path, Submit(c, p)
    PROVE  IInv'
  <1> DEFINE r == run[c]
             t == [r EXCEPT !.job[p] = "sending"]
  <1>1. r \in RunType /\ r.job \in [Path -> JobState] /\ PhaseOK(r)
        /\ ViewOK(r, disk, server, file, edited)
    BY RunOf DEF IInv, CommandsOK
  <1>2. /\ UNCHANGED <<disk, file, server, wire, edited, faults>>
        /\ r.pc = "upload" /\ r.job[p] = "announced" /\ Go(c, t)
    BY DEF Submit
  <1>3. "sending" \in JobState
    BY DEF JobState
  <1>4. t \in RunType /\ t.pc = r.pc /\ t.sha = r.sha /\ t.job = [r.job EXCEPT ![p] = "sending"]
    BY <1>1, <1>3, JobType
  <1>8. edited => run[c].pc # "off"
    BY <1>2
  <1> HIDE DEF t, r
  <1>5. t.job[p] = "sending"
    BY <1>1, <1>4
  <1>6. PhaseOK(t)
    <2>1. "sending" \in Allowed(r.pc)
      BY <1>2 DEF Allowed
    <2>2. r.job[p] \notin {"none", "done"}
      BY <1>2
    <2>3. r.sha[p] # None
      BY <1>1, <1>2 DEF PhaseOK, Hashed
    <2> QED BY <1>1, <1>2, <1>4, <2>1, <2>2, <2>3, JobPhase
  <1>7. ViewOK(t, disk, server, file, edited)
    <2>1. ~Confirming(t, p) /\ ~Resolving(t, p) /\ Underway(r, p)
      BY <1>2, <1>5 DEF Confirming, Resolving, Underway
    <2>2. ~edited /\ Underway(t, p) =>
             Stored(server, r.sha[p]) \/ (IsOpen(Latest(file, p)) /\ IsOpen(Final(file, p)))
      BY <1>1, <2>1 DEF ViewOK, ViewOf
    <2> QED BY <1>1, <1>4, <2>1, <2>2, JobView
  <1> QED BY <1>2, <1>4, <1>6, <1>7, <1>8, QuietInv
-----------------------------------------------------------------------------
(* What the server makes of a request: it knows its bytes.                 *)
LEMMA ApplyIs ==
    ASSUME IInv, NEW request \in [bytes: Content, expected: Content], Apply(request)
    PROVE  /\ server \subseteq server' /\ server' \subseteq Content
           /\ Accepts(request) => request.bytes \in server'
  BY DEF IInv, TypeOK, Apply

(* A request that reaches the server.                                      *)
LEMMA ServedInv ==
    ASSUME IInv, NEW c \in Command, NEW t \in RunType, Go(c, t),
           UNCHANGED <<disk, file, wire, edited>>, UNCHANGED faults \/ Fault,
           NEW request \in [bytes: Content, expected: Content], Apply(request),
           PhaseOK(t), ViewOK(t, disk, server', file, edited),
           run[c].pc # "off"
    PROVE  IInv'
  <1>0. TypeOK
    BY DEF IInv
  <1>1. server \subseteq server' /\ server' \subseteq Content
    BY ApplyIs
  <1>2. run' \in [Command -> RunType]
    BY <1>0, GoIs
  <1>3. TypeOK'
    <2>1. faults' \in Nat
      BY <1>0 DEF TypeOK, Fault
    <2> QED BY <1>0, <1>1, <1>2, <2>1 DEF TypeOK
  <1>4. UNCHANGED <<disk, file, edited>>
    OBVIOUS
  <1>5. JournalOK(disk, server, file)' /\ CommandsOK' /\ Alone'
    BY <1>1, <1>4, QuietStep
  <1> QED BY <1>1, <1>3, <1>5 DEF IInv

LEMMA AnswerInv ==
    ASSUME IInv, NEW c \in Command, NEW p \in Path, Answer(c, p)
    PROVE  IInv'
  <1> DEFINE r == run[c]
             request == Request(c, p)
             outcome == IF Accepts(request) THEN "ok"
                        ELSE IF request.bytes # request.expected THEN "failed" ELSE "review"
             t == [r EXCEPT !.job[p] = outcome]
  <1>1. r \in RunType /\ r.job \in [Path -> JobState] /\ PhaseOK(r)
        /\ ViewOK(r, disk, server, file, edited)
    BY RunOf DEF IInv, CommandsOK
  <1>2. /\ UNCHANGED <<disk, file, wire, edited, faults>>
        /\ Sending(c, p) /\ r.job[p] = "sending" /\ Apply(request) /\ Go(c, t)
    BY DEF Answer, Sending
  <1>3. /\ r.pc \in {"upload", "aborted"} /\ r.sha[p] \in Content
        /\ request \in [bytes: Content, expected: Content] /\ request.bytes = disk[p].sha
    BY <1>2, SendingIs DEF Request
  <1>4. server \subseteq server' /\ (Accepts(request) => request.bytes \in server')
    BY <1>2, <1>3, ApplyIs
  <1> HIDE DEF request
  <1>5. outcome \in JobState /\ outcome \in {"ok", "failed", "review"}
    BY DEF JobState
  <1>6. outcome = "ok" => Stored(server', disk[p].sha)
    BY <1>3, <1>4 DEF Stored
  <1> HIDE DEF outcome
  <1>7. t \in RunType /\ t.pc = r.pc /\ t.sha = r.sha /\ t.job = [r.job EXCEPT ![p] = outcome]
    BY <1>1, <1>5, JobType
  <1>8. run[c].pc # "off"
    BY <1>3
  <1> HIDE DEF t, r
  <1>9. t.job[p] = outcome
    BY <1>1, <1>7
  <1>10. PhaseOK(t)
    <2>1. outcome \in Allowed(r.pc)
      BY <1>3, <1>5 DEF Allowed
    <2>2. r.job[p] \notin {"none", "done"} /\ r.sha[p] # None
      BY <1>2, <1>3, RowAssumption
    <2> QED BY <1>1, <1>7, <2>1, <2>2, JobPhase
  <1>11. ViewOK(t, disk, server', file, edited)
    <2>1. ViewOK(r, disk, server', file, edited)
      BY <1>1, <1>4, ViewGrows
    <2>2. Confirming(t, p) => Stored(server', disk[p].sha)
      BY <1>5, <1>6, <1>9 DEF Confirming
    <2>3. ~Resolving(t, p) /\ Underway(r, p)
      BY <1>2, <1>5, <1>9 DEF Resolving, Underway
    <2>4. ~edited /\ Underway(t, p) =>
             Stored(server', r.sha[p]) \/ (IsOpen(Latest(file, p)) /\ IsOpen(Final(file, p)))
      BY <2>1, <2>3 DEF ViewOK, ViewOf
    <2> QED BY <1>1, <1>7, <2>1, <2>2, <2>3, <2>4, JobView
  <1> QED BY <1>2, <1>3, <1>7, <1>8, <1>10, <1>11, ServedInv

(* Another attempt, or the last one was in vain.                           *)
LEMMA TryAgainIs ==
    ASSUME IInv, NEW c \in Command, NEW p \in Path, Sending(c, p), TryAgain(c, p)
    PROVE  \E t \in RunType :
              /\ Go(c, t) /\ PhaseOK(t)
              /\ \A S : server \subseteq S => ViewOK(t, disk, S, file, edited)
  <1> DEFINE r == run[c]
             last == r.tries[p] + 1 = Attempts
             tried == IF last THEN 0 ELSE r.tries[p] + 1
             j == IF last THEN "failed" ELSE "sending"
             t == [r EXCEPT !.tries[p] = tried, !.job[p] = j]
  <1>1. r \in RunType /\ r.job \in [Path -> JobState] /\ PhaseOK(r)
        /\ ViewOK(r, disk, server, file, edited)
        /\ r.tries \in [Path -> 0 .. Attempts - 1]
    BY RunOf DEF IInv, CommandsOK
  <1>2. r.job[p] = "sending" /\ Go(c, t) /\ r.pc \in {"upload", "aborted"} /\ r.sha[p] # None
    BY SendingIs, RowAssumption DEF Sending, TryAgain
  <1>3. tried \in 0 .. Attempts - 1
    BY <1>1, CommandAssumption
  <1>4. j \in JobState /\ j \in {"failed", "sending"}
    BY DEF JobState
  <1> HIDE DEF tried, j
  <1>5. /\ [r.job EXCEPT ![p] = j] \in [Path -> JobState]
        /\ [r.tries EXCEPT ![p] = tried] \in [Path -> 0 .. Attempts - 1]
    BY <1>1, <1>3, <1>4
  <1>6. t \in RunType /\ t.pc = r.pc /\ t.sha = r.sha /\ t.job = [r.job EXCEPT ![p] = j]
    BY <1>1, <1>5 DEF RunType
  <1> HIDE DEF t, r
  <1>7. t.job[p] = j
    BY <1>1, <1>6
  <1>8. PhaseOK(t)
    <2>1. j \in Allowed(r.pc)
      BY <1>2, <1>4 DEF Allowed
    <2>2. r.job[p] \notin {"none", "done"}
      BY <1>2
    <2> QED BY <1>1, <1>2, <1>6, <2>1, <2>2, JobPhase
  <1>9. ASSUME NEW S, server \subseteq S PROVE ViewOK(t, disk, S, file, edited)
    <2>1. ViewOK(r, disk, S, file, edited)
      BY <1>1, <1>9, ViewGrows
    <2>2. ~Confirming(t, p) /\ ~Resolving(t, p) /\ Underway(r, p)
      BY <1>2, <1>4, <1>7 DEF Confirming, Resolving, Underway
    <2>3. ~edited /\ Underway(t, p) =>
             Stored(S, r.sha[p]) \/ (IsOpen(Latest(file, p)) /\ IsOpen(Final(file, p)))
      BY <2>1, <2>2 DEF ViewOK, ViewOf
    <2> QED BY <1>1, <1>6, <2>1, <2>2, <2>3, JobView
  <1> QED BY <1>2, <1>6, <1>8, <1>9

LEMMA LoseAnswerInv ==
    ASSUME IInv, NEW c \in Command, NEW p \in Path, LoseAnswer(c, p)
    PROVE  IInv'
  <1> DEFINE request == Request(c, p)
  <1>1. /\ UNCHANGED <<disk, file, wire, edited>> /\ Fault /\ Sending(c, p)
        /\ Apply(request) /\ TryAgain(c, p)
    BY DEF LoseAnswer
  <1>2. run[c].pc # "off" /\ request \in [bytes: Content, expected: Content]
    BY <1>1, SendingIs
  <1> HIDE DEF request
  <1>3. server \subseteq server'
    BY <1>1, <1>2, ApplyIs
  <1>4. PICK t \in RunType : /\ Go(c, t) /\ PhaseOK(t)
                             /\ ViewOK(t, disk, server', file, edited)
    BY <1>1, <1>3, TryAgainIs
  <1> QED BY <1>1, <1>2, <1>4, ServedInv

LEMMA LoseRequestInv ==
    ASSUME IInv, NEW c \in Command, NEW p \in Path, LoseRequest(c, p)
    PROVE  IInv'
  <1>1. /\ UNCHANGED <<disk, file, server, edited>> /\ Fault /\ Sending(c, p)
        /\ TryAgain(c, p) /\ wire' = wire \cup {Request(c, p)}
    BY DEF LoseRequest
  <1>2. run[c].pc # "off" /\ Request(c, p) \in [bytes: Content, expected: Content]
    BY <1>1, SendingIs
  <1>3. wire' \subseteq [bytes: Content, expected: Content]
    BY <1>1, <1>2 DEF IInv, TypeOK
  <1>4. PICK t \in RunType : /\ Go(c, t) /\ PhaseOK(t)
                             /\ ViewOK(t, disk, server, file, edited)
    BY <1>1, TryAgainIs
  <1> QED BY <1>1, <1>2, <1>3, <1>4, QuietInv

LEMMA ArriveInv ==
    ASSUME IInv, NEW request \in wire, Arrive(request)
    PROVE  IInv'
  <1>1. /\ UNCHANGED <<disk, file, run, edited, faults>> /\ Apply(request)
        /\ wire' = wire \ {request}
    BY DEF Arrive
  <1>2. request \in [bytes: Content, expected: Content]
    BY DEF IInv, TypeOK
  <1>3. server \subseteq server' /\ server' \subseteq Content
    BY <1>1, <1>2, ApplyIs
  <1>4. TypeOK'
    BY <1>1, <1>3 DEF IInv, TypeOK
  <1>5. JournalOK(disk, server', file)
    BY <1>3, JournalGrows DEF IInv
  <1>6. ASSUME NEW d \in Command
        PROVE  PhaseOK(run[d]) /\ ViewOK(run[d], disk, server', file, edited)
    BY <1>3, ViewGrows DEF IInv, CommandsOK
  <1>7. CommandsOK'
    BY <1>1, <1>6 DEF CommandsOK
  <1>8. Alone'
    BY <1>1 DEF IInv, Alone, Running
  <1>9. JournalOK(disk, server, file)'
    BY <1>1, <1>5
  <1> QED BY <1>3, <1>4, <1>7, <1>8, <1>9 DEF IInv

-----------------------------------------------------------------------------
LEMMA AbortedIs ==
    ASSUME IInv, NEW c \in Command, Aborted(c), run[c].pc \notin {"off", "aborted"}
    PROVE  \E t \in RunType :
              /\ Go(c, t) /\ t.pc = "aborted" /\ t.sha = run[c].sha /\ PhaseOK(t)
              /\ \A p \in Path : t.job[p] = IF run[c].job[p] = "sending" THEN "sending" ELSE "none"
  <1> DEFINE r == run[c]
             jobs == [p \in Path |-> IF Sending(c, p) THEN "sending" ELSE "none"]
             t == [r EXCEPT !.pc = "aborted", !.active = None, !.job = jobs]
  <1>1. r \in RunType /\ PhaseOK(r)
    BY RunOf DEF IInv, CommandsOK
  <1>2. jobs \in [Path -> JobState]
    BY DEF JobState
  <1>3. t \in RunType /\ t.pc = "aborted" /\ t.sha = r.sha /\ t.job = jobs
    BY <1>1, <1>2 DEF RunType
  <1>4. Go(c, t)
    BY DEF Aborted
  <1>5. \A p \in Path : t.job[p] = IF r.job[p] = "sending" THEN "sending" ELSE "none"
    BY <1>3 DEF Sending
  <1>6. ASSUME NEW p \in Path, t.job[p] = "sending" PROVE t.sha[p] # None
    <2>1. Sending(c, p)
      BY <1>5, <1>6 DEF Sending
    <2> QED BY <1>3, <2>1, SendingIs, RowAssumption
  <1> HIDE DEF t, jobs
  <1>7. PhaseOK(t)
    BY <1>3, <1>5, <1>6 DEF PhaseOK, Allowed, Hashed
  <1> QED BY <1>3, <1>4, <1>5, <1>7

(* What is left of a command's view: the files it is still sending.        *)
LEMMA AbortedView ==
    ASSUME NEW D, NEW S, NEW F, NEW G, NEW e, NEW r, NEW t, PhaseOK(r), ViewOK(r, D, S, F, e),
           t.pc = "aborted", t.sha = r.sha,
           \A p \in Path : t.job[p] = IF r.job[p] = "sending" THEN "sending" ELSE "none",
           \A p \in Path : IsOpen(Latest(F, p)) /\ IsOpen(Final(F, p)) =>
              (IsOpen(Latest(G, p)) /\ IsOpen(Final(G, p))) \/ Stored(S, D[p].sha) \/ e
    PROVE  ViewOK(t, D, S, G, e)
  <1> SUFFICES ASSUME NEW p \in Path PROVE ViewOf(t, D, S, G, e, p)
    BY DEF ViewOK
  <1>1. ViewOf(r, D, S, F, e, p)
    BY DEF ViewOK
  <1>2. ~Confirming(t, p) /\ ~Resolving(t, p)
    BY DEF Confirming, Resolving
  <1>3. Underway(t, p) => Underway(r, p) /\ r.sha[p] # None
    <2>1. r.job[p] = "sending" => r.pc # "hash"
      BY DEF PhaseOK, Allowed
    <2> QED BY <2>1 DEF Underway, PhaseOK, Hashed
  <1> QED BY <1>1, <1>2, <1>3 DEF ViewOf

(* A command that is over, and one that another writes the journal under.  *)
LEMMA OffView ==
    ASSUME NEW D, NEW S, NEW F, NEW e, NEW r, PhaseOK(r), r.pc = "off"
    PROVE  ViewOK(r, D, S, F, e)
  BY DEF PhaseOK, Allowed, ViewOK, ViewOf, Confirming, Resolving, Underway

LEMMA OtherView ==
    ASSUME NEW D, NEW S, NEW F, NEW G, NEW r, PhaseOK(r), ViewOK(r, D, S, F, FALSE),
           \A p \in Path : IsOpen(Latest(F, p)) /\ IsOpen(Final(F, p)) =>
              (IsOpen(Latest(G, p)) /\ IsOpen(Final(G, p))) \/ Stored(S, D[p].sha)
    PROVE  ViewOK(r, D, S, G, FALSE)
  <1> SUFFICES ASSUME NEW p \in Path PROVE ViewOf(r, D, S, G, FALSE, p)
    BY DEF ViewOK
  <1>1. ViewOf(r, D, S, F, FALSE, p)
    BY DEF ViewOK
  <1>2. Underway(r, p) => r.sha[p] # None
    <2>1. Underway(r, p) => r.pc # "hash"
      BY DEF Underway, PhaseOK, Allowed
    <2> QED BY <2>1 DEF Underway, PhaseOK, Hashed
  <1> QED BY <1>1, <1>2 DEF ViewOf, Stale

LEMMA FileStep ==
    ASSUME IInv, NEW c \in Command, NEW t \in RunType, Go(c, t),
           UNCHANGED <<disk, server, wire, edited>>, UNCHANGED faults \/ Fault,
           run[c].pc # "off", PhaseOK(t), ViewOK(t, disk, server, file', edited),
           file' \in JournalType, JournalOK(disk, server, file'),
           \A p \in Path : IsOpen(Latest(file, p)) /\ IsOpen(Final(file, p)) =>
              \/ IsOpen(Latest(file', p)) /\ IsOpen(Final(file', p))
              \/ Stored(server, disk[p].sha) \/ edited
    PROVE  IInv'
  <1>0. TypeOK
    BY DEF IInv
  <1>1. run' \in [Command -> RunType] /\ run'[c] = t /\ \A d \in Command \ {c} : run'[d] = run[d]
    BY <1>0, GoIs
  <1>2. TypeOK'
    <2>1. faults' \in Nat
      BY <1>0 DEF TypeOK, Fault
    <2> QED BY <1>0, <1>1, <2>1 DEF TypeOK, JournalType, Line
  <1>3. JournalOK(disk, server, file)'
    OBVIOUS
  <1>4. ASSUME NEW d \in Command
        PROVE  PhaseOK(run'[d]) /\ ViewOK(run'[d], disk', server', file', edited')
    <2>1. CASE d = c
      BY <1>1, <2>1
    <2>2. CASE d # c
      <3>1. run'[d] = run[d] /\ PhaseOK(run[d]) /\ ViewOK(run[d], disk, server, file, edited)
        BY <1>1, <2>2 DEF IInv, CommandsOK
      <3>2. CASE edited
        <4>1. run[d].pc = "off"
          BY <2>2, <3>2 DEF IInv, Alone, Running
        <4>2. ViewOK(run[d], disk, server, file', edited)
          BY <3>1, <4>1, OffView
        <4> QED BY <3>1, <4>2
      <3>3. CASE ~edited
        <4>1. edited = FALSE
          BY <3>3, <1>0 DEF TypeOK
        <4>2. ViewOK(run[d], disk, server, file', FALSE)
          BY <3>1, <4>1, OtherView
        <4> QED BY <3>1, <4>1, <4>2
      <3> QED BY <3>2, <3>3
    <2> QED BY <2>1, <2>2
  <1>5. CommandsOK'
    BY <1>4 DEF CommandsOK
  <1>6. Alone'
    <2> SUFFICES ASSUME edited' PROVE Running' \subseteq Running
      BY DEF Alone, IInv
    <2> QED BY <1>1 DEF Running
  <1> QED BY <1>2, <1>3, <1>5, <1>6 DEF IInv

LEMMA AbortInv ==
    ASSUME IInv, NEW c \in Command, Aborted(c), run[c].pc \notin {"off", "aborted"},
           UNCHANGED <<disk, file, server, wire, edited>>,
           UNCHANGED faults \/ Fault
    PROVE  IInv'
  <1>1. PICK t \in RunType :
              /\ Go(c, t) /\ t.pc = "aborted" /\ t.sha = run[c].sha /\ PhaseOK(t)
              /\ \A p \in Path : t.job[p] = IF run[c].job[p] = "sending" THEN "sending" ELSE "none"
    BY AbortedIs
  <1>2. PhaseOK(run[c]) /\ ViewOK(run[c], disk, server, file, edited)
    BY DEF IInv, CommandsOK
  <1>3. \A p \in Path : ViewOf(run[c], disk, server, file, edited, p)
    BY <1>2 DEF ViewOK
  <1>4. ViewOK(t, disk, server, file, edited)
    BY <1>1, <1>3 DEF ViewOK, ViewOf, Confirming, Resolving, Underway
  <1> QED BY <1>1, <1>4, QuietInv

LEMMA InterruptInv ==
    ASSUME IInv, NEW c \in Command, Interrupt(c)
    PROVE  IInv'
  <1>1. /\ Aborted(c) /\ run[c].pc \notin {"off", "aborted"} /\ Fault
        /\ UNCHANGED <<disk, file, server, wire, edited>>
    BY DEF Interrupt
  <1> QED BY <1>1, AbortInv

LEMMA UnreadableInv ==
    ASSUME IInv, NEW c \in Command, Unreadable(c)
    PROVE  IInv'
  <1>1. /\ Aborted(c) /\ run[c].pc \notin {"off", "aborted"} /\ UNCHANGED faults
        /\ UNCHANGED <<disk, file, server, wire, edited>>
    BY DEF Unreadable
  <1> QED BY <1>1, AbortInv

-----------------------------------------------------------------------------
LEMMA FileIs ==
    ASSUME IInv
    PROVE  file \in JournalType /\ Signed(disk) /\ JournalOK(disk, server, file)
  <1>1. disk \in [Path -> [sig: Nat, sha: Content]] /\ TypeOK
    BY DEF IInv, TypeOK
  <1> QED BY <1>1, FileType DEF IInv, Signed

(* An entry to be recorded, and the rows that do it.                       *)
LEMMA RecordableIs ==
    ASSUME IInv, NEW c \in Command, NEW p \in Path, p \in Recordable(c)
    PROVE  /\ run[c].job[p] \in {"existing", "doubt", "ok", "failed", "review"}
           /\ run[c].pc # "off"
  <1>1. run[c].job[p] \in {"existing", "doubt", "ok", "failed", "review"}
    BY DEF Recordable, Jobs
  <1>2. PhaseOK(run[c])
    BY DEF IInv, CommandsOK
  <1> QED BY <1>1, <1>2 DEF PhaseOK, Allowed

LEMMA RowsSound ==
    ASSUME IInv, NEW c \in Command, NEW p \in Path, p \in Recordable(c),
           run[c].pc # "aborted", Rows(c, p) # <<>>
    PROVE  Sound(Rows(c, p), disk, server, file, edited)
  <1> DEFINE rows == Rows(c, p)
  <1>0. TypeOK /\ ViewOf(run[c], disk, server, file, edited, p)
    BY DEF IInv, CommandsOK, ViewOK
  <1>1. /\ rows \in Seq(RowType)
        /\ \A k \in DOMAIN rows : rows[k].sig = disk[rows[k].path].sig
        /\ \/ /\ ~Confirmation(c, p) /\ rows # <<>>
              /\ \A k \in DOMAIN rows :
                    /\ rows[k].op \in {"failed", "review"}
                    /\ \/ rows[k].path = p
                       \/ /\ run[c].sha[p] # None
                          /\ run[c].sha[rows[k].path] = run[c].sha[p]
           \/ Confirmation(c, p) /\ rows = <<>>
           \/ /\ Confirmation(c, p) /\ Len(rows) = 1 /\ rows = <<rows[1]>>
              /\ rows[1].path = p /\ rows[1].op = "clear"
    BY <1>0, RowsAre
  <1> HIDE DEF rows
  <1>2. CASE /\ ~Confirmation(c, p) /\ rows # <<>>
             /\ \A k \in DOMAIN rows : rows[k].op \in {"failed", "review"}
    <2>1. \A k \in DOMAIN rows : IsOpen(rows[k])
      BY <1>1, <1>2, RowIsRow DEF IsOpen
    <2> QED BY <1>1, <1>2, <2>1 DEF Sound, rows
  <1>3. CASE /\ Confirmation(c, p) /\ Len(rows) = 1 /\ rows = <<rows[1]>>
             /\ rows[1].path = p
    <2>1. Confirming(run[c], p)
      BY <1>3 DEF Confirmation, Confirming
    <2>2. Stored(server, disk[p].sha) \/ Stale(disk, file, edited, p)
      BY <1>0, <2>1 DEF ViewOf
    <2>3. \A k \in DOMAIN rows : k = 1
      BY <1>1, <1>3
    <2>4. rows # <<>>
      BY <1>3
    <2> QED BY <1>1, <1>3, <2>2, <2>3, <2>4 DEF Sound, rows
  <1>4. rows # <<>>
    BY DEF rows
  <1> QED BY <1>1, <1>2, <1>3, <1>4

(* An entry is opened for no other path that the command still decides.    *)
LEMMA RowsOpen ==
    ASSUME IInv, NEW c \in Command, NEW p \in Path, p \in Recordable(c),
           run[c].pc # "aborted", NEW q \in Path, q # p, OpenedBy(Rows(c, p), q)
    PROVE  ~Confirming(run[c], q) /\ ~Resolving(run[c], q)
  <1> DEFINE rows == Rows(c, p)
             r == run[c]
  <1>0. TypeOK /\ PhaseOK(r) /\ r \in RunType
    BY DEF IInv, CommandsOK, TypeOK
  <1>1. /\ \/ /\ \A k \in DOMAIN rows :
                    /\ rows[k].op \in {"failed", "review"}
                    /\ \/ rows[k].path = p
                       \/ /\ run[c].sha[p] # None
                          /\ run[c].sha[rows[k].path] = run[c].sha[p]
           \/ rows = <<>>
           \/ Len(rows) = 1 /\ rows = <<rows[1]>> /\ rows[1].path = p
        /\ rows \in Seq(RowType)
    BY <1>0, RowsAre
  <1>2. PICK k \in DOMAIN rows : rows[k].path = q
    BY DEF OpenedBy
  <1> HIDE DEF rows
  <1>3. r.sha[p] # None /\ r.sha[q] = r.sha[p]
    BY <1>1, <1>2
  <1>4. r.job[p] \notin {"none", "done"} /\ r.pc # "off" /\ r.pc # "aborted"
    BY RecordableIs
  <1> HIDE DEF r
  <1>5. r.pc \in {"prepare", "upload"}
    BY <1>0, <1>3, <1>4 DEF PhaseOK, RunType
  <1>6. r.job[q] \in {"none", "done"}
    BY <1>0, <1>3, <1>4, <1>5 DEF PhaseOK
  <1>7. ~Confirming(r, q) /\ ~Resolving(r, q)
    BY <1>6 DEF Confirming, Resolving
  <1> QED BY <1>7 DEF r

(* A write for one path, as the command that wrote it sees the others.     *)
LEMMA RecordedView ==
    ASSUME NEW D, NEW S, NEW F, NEW G, NEW e, NEW r, NEW t, NEW p \in Path, NEW rows, NEW j,
           PhaseOK(r), ViewOK(r, D, S, F, e), r.job \in [Path -> JobState],
           t.pc = r.pc, t.sha = r.sha, t.job = [r.job EXCEPT ![p] = j],
           Kept(D, S, F, G, e, rows), ViewOf(t, D, S, G, e, p),
           \A q \in Path : q # p /\ OpenedBy(rows, q) => ~Confirming(r, q) /\ ~Resolving(r, q)
    PROVE  ViewOK(t, D, S, G, e)
  <1>1. \A q \in Path : t.job[q] = IF q = p THEN j ELSE r.job[q]
    OBVIOUS
  <1> SUFFICES ASSUME NEW q \in Path PROVE ViewOf(t, D, S, G, e, q)
    BY DEF ViewOK
  <1>2. ViewOf(r, D, S, F, e, q)
    BY DEF ViewOK
  <1>3. CASE q = p
    BY <1>3
  <1>4. CASE q # p
    <2>1. t.job[q] = r.job[q]
      BY <1>1, <1>4
    <2>2. /\ Confirming(t, q) <=> Confirming(r, q)
          /\ Resolving(t, q) <=> Resolving(r, q)
          /\ Underway(t, q) <=> Underway(r, q)
      BY <2>1 DEF Confirming, Resolving, Underway
    <2>3. Underway(r, q) => r.sha[q] # None
      <3>1. Underway(r, q) => r.pc # "hash"
        BY DEF Underway, PhaseOK, Allowed
      <3> QED BY <3>1 DEF Underway, PhaseOK, Hashed
    <2>4. /\ IsOpen(Latest(F, q)) /\ IsOpen(Final(F, q)) =>
             \/ IsOpen(Latest(G, q)) /\ IsOpen(Final(G, q))
             \/ Stored(S, D[q].sha) \/ e
          /\ Stale(D, F, e, q) => Stale(D, G, e, q) \/ OpenedBy(rows, q)
      BY DEF Kept
    <2>5. Confirming(t, q) => Stored(S, D[q].sha) \/ Stale(D, G, e, q)
      BY <1>2, <1>4, <2>2, <2>4 DEF ViewOf
    <2>6. Resolving(t, q) => D[q].sha = t.sha[q] \/ Stale(D, G, e, q)
      BY <1>2, <1>4, <2>2, <2>4 DEF ViewOf
    <2>7. ~e /\ Underway(t, q) =>
             Stored(S, t.sha[q]) \/ (IsOpen(Latest(G, q)) /\ IsOpen(Final(G, q)))
      BY <1>2, <2>2, <2>3, <2>4 DEF ViewOf
    <2> QED BY <1>2, <2>5, <2>6, <2>7 DEF ViewOf
  <1> QED BY <1>3, <1>4

LEMMA RecordInv ==
    ASSUME IInv, NEW c \in Command, NEW p \in Path, Record(c, p)
    PROVE  IInv'
  <1> DEFINE r == run[c]
             rows == Rows(c, p)
             known == IF Confirmation(c, p) THEN Active(c) \ {p} ELSE Active(c) \cup {p}
             t == [r EXCEPT !.job[p] = "done", !.tries[p] = 0, !.active = known]
  <1>1. r \in RunType /\ r.job \in [Path -> JobState] /\ PhaseOK(r)
        /\ ViewOK(r, disk, server, file, edited)
        /\ r.tries \in [Path -> 0 .. Attempts - 1]
    BY RunOf DEF IInv, CommandsOK
  <1>2. /\ UNCHANGED <<disk, server, wire, edited, faults>>
        /\ file' = Write(file, rows) /\ Go(c, t)
        /\ r.pc # "aborted" /\ p \in Recordable(c)
    BY DEF Record
  <1>3. /\ r.job[p] \in {"existing", "doubt", "ok", "failed", "review"}
        /\ run[c].pc # "off"
    BY <1>2, RecordableIs
  <1>4. known \in SUBSET Path
    BY ActiveType DEF IInv
  <1>5. /\ [r.job EXCEPT ![p] = "done"] \in [Path -> JobState]
        /\ [r.tries EXCEPT ![p] = 0] \in [Path -> 0 .. Attempts - 1]
    <2>1. 0 \in 0 .. Attempts - 1 /\ "done" \in JobState
      BY CommandAssumption DEF JobState
    <2> QED BY <1>1, <2>1
  <1> HIDE DEF known
  <1>6. /\ t \in RunType /\ t.pc = r.pc /\ t.sha = r.sha
        /\ t.job = [r.job EXCEPT ![p] = "done"]
    BY <1>1, <1>4, <1>5 DEF RunType
  <1>7. /\ rows # <<>> => Sound(rows, disk, server, file, edited)
        /\ \A q \in Path : q # p /\ OpenedBy(rows, q) => ~Confirming(r, q) /\ ~Resolving(r, q)
    BY <1>2, RowsSound, RowsOpen
  <1> HIDE DEF t, r, rows
  <1>8. PhaseOK(t)
    <2>1. "done" \in Allowed(r.pc)
      <3>1. r.job[p] \in Allowed(r.pc)
        BY <1>1 DEF PhaseOK
      <3>2. r.pc \in {"off", "probe", "hash", "prepare", "upload", "aborted"}
        BY <1>1 DEF RunType
      <3> QED BY <1>2, <1>3, <3>1, <3>2 DEF Allowed
    <2>2. "done" \notin Hashed
      BY DEF Hashed
    <2> QED BY <1>1, <1>6, <2>1, <2>2, JobPhase
  <1>9. CASE rows = <<>>
    <2>1. UNCHANGED file
      BY <1>2, <1>9 DEF Write
    <2>2. /\ ~Confirming(t, p) /\ ~Resolving(t, p) /\ ~Underway(t, p)
      <3>1. t.job[p] = "done"
        BY <1>1, <1>6
      <3> QED BY <3>1 DEF Confirming, Resolving, Underway
    <2>3. ViewOK(t, disk, server, file, edited)
      BY <1>1, <1>6, <2>2, JobView
    <2> QED BY <1>2, <1>3, <1>6, <1>8, <2>1, <2>3, QuietInv
  <1>10. CASE rows # <<>>
    <2>1. Sound(rows, disk, server, file, edited)
      BY <1>7, <1>10
    <2>2. /\ file' \in JournalType /\ JournalOK(disk, server, file')
          /\ Kept(disk, server, file, file', edited, rows)
      BY <1>2, <2>1, FileIs, WriteJournal
    <2>5. ViewOf(t, disk, server, file', edited, p)
      <3>1. t.job[p] = "done"
        BY <1>1, <1>6
      <3>2. ViewOf(r, disk, server, file, edited, p)
        BY <1>1 DEF ViewOK
      <3> QED BY <1>6, <3>1, <3>2 DEF ViewOf, Confirming, Resolving, Underway
    <2>3. ViewOK(t, disk, server, file', edited)
      <3> DEFINE j == "done"
      <3>1. t.job = [r.job EXCEPT ![p] = j] /\ t.pc = r.pc /\ t.sha = r.sha
        BY <1>6
      <3> HIDE DEF j
      <3> QED BY <1>1, <1>7, <2>2, <2>5, <3>1, RecordedView
    <2>4. \A q \in Path : IsOpen(Latest(file, q)) /\ IsOpen(Final(file, q)) =>
              \/ IsOpen(Latest(file', q)) /\ IsOpen(Final(file', q))
              \/ Stored(server, disk[q].sha) \/ edited
      BY <2>2 DEF Kept
    <2> QED BY <1>2, <1>3, <1>6, <1>8, <2>2, <2>3, <2>4, FileStep
  <1> QED BY <1>9, <1>10

-----------------------------------------------------------------------------
LEMMA AnnouncedSound ==
    ASSUME IInv, NEW c \in Command, NEW p \in Path
    PROVE  /\ Sound(Announced(c, p), disk, server, file, edited)
           /\ \A q : OpenedBy(Announced(c, p), q) => q = p
           /\ Newest(Announced(c, p), p) # None /\ IsOpen(Newest(Announced(c, p), p))
  <1> DEFINE rows == Announced(c, p)
  <1>0. TypeOK
    BY DEF IInv
  <1>1. /\ rows \in Seq(RowType) /\ rows # <<>> /\ DOMAIN rows = {1}
        /\ rows[1].path = p /\ rows[1].op = "pending" /\ rows[1].sig = disk[p].sig
        /\ rows = <<rows[1]>>
    BY <1>0, AnnouncedIs
  <1> HIDE DEF rows
  <1>2. rows[1] \in RowType /\ IsOpen(rows[1])
    BY <1>1, RowIsRow DEF IsOpen
  <1>3. Newest(rows, p) = rows[1]
    <2> DEFINE l == rows[1]
    <2>1. l \in Line /\ IsRow(l) /\ l.path = p /\ rows = <<l>>
      BY <1>1, <1>2, RowIsRow DEF Line
    <2> HIDE DEF l
    <2>2. Newest(rows, p) = l
      BY <2>1, NewestOne
    <2> QED BY <2>2 DEF l
  <1>4. Sound(rows, disk, server, file, edited)
    BY <1>1, <1>2 DEF Sound
  <1>5. \A q : OpenedBy(rows, q) => q = p
    BY <1>1 DEF OpenedBy
  <1>6. rows[1] # None
    BY <1>2, RowIsRow
  <1> QED BY <1>2, <1>3, <1>4, <1>5, <1>6 DEF rows

LEMMA AnnounceInv ==
    ASSUME IInv, NEW c \in Command, NEW p \in Path, Announce(c, p)
    PROVE  IInv'
  <1> DEFINE r == run[c]
             rows == Announced(c, p)
             known == Active(c) \cup {p}
             t == [r EXCEPT !.job[p] = "announced", !.active = known]
  <1>1. r \in RunType /\ r.job \in [Path -> JobState] /\ PhaseOK(r)
        /\ ViewOK(r, disk, server, file, edited)
    BY RunOf DEF IInv, CommandsOK
  <1>2. /\ UNCHANGED <<disk, server, wire, edited, faults>>
        /\ file' = Write(file, rows) /\ Go(c, t)
        /\ r.pc = "upload" /\ r.job[p] = "ready"
    BY DEF Announce, NextUp
  <1>3. run[c].pc # "off"
    BY <1>2
  <1>4. known \in SUBSET Path
    BY ActiveType DEF IInv
  <1>5. [r.job EXCEPT ![p] = "announced"] \in [Path -> JobState]
    BY <1>1 DEF JobState
  <1> HIDE DEF known
  <1>6. /\ t \in RunType /\ t.pc = r.pc /\ t.sha = r.sha
        /\ t.job = [r.job EXCEPT ![p] = "announced"]
    BY <1>1, <1>4, <1>5 DEF RunType
  <1>7. /\ Sound(rows, disk, server, file, edited)
        /\ \A q : OpenedBy(rows, q) => q = p
        /\ Newest(rows, p) # None /\ IsOpen(Newest(rows, p))
    BY AnnouncedSound
  <1> HIDE DEF t, r, rows
  <1>8. PhaseOK(t)
    <2>1. "announced" \in Allowed(r.pc)
      BY <1>2 DEF Allowed
    <2>2. r.sha[p] # None /\ r.job[p] \notin {"none", "done"}
      BY <1>1, <1>2 DEF PhaseOK, Hashed
    <2> QED BY <1>1, <1>6, <2>1, <2>2, JobPhase
  <1>9. /\ file' \in JournalType /\ JournalOK(disk, server, file')
        /\ Kept(disk, server, file, file', edited, rows)
    BY <1>2, <1>7, FileIs, WriteJournal
  <1>10. IsOpen(Latest(file', p)) /\ IsOpen(Final(file', p))
    <2>1. rows \in Seq(RowType) /\ rows # <<>> /\ file \in JournalType
      BY <1>7, FileIs DEF Sound
    <2>2. /\ Latest(Write(file, rows), p) = Newest(rows, p)
          /\ Newest(Write(file, rows).lines, p) = Newest(rows, p)
      BY <1>7, <2>1, WriteView
    <2> QED BY <1>2, <1>7, <2>2 DEF Final
  <1>11. ViewOf(t, disk, server, file', edited, p)
    <2>1. t.job[p] = "announced"
      BY <1>1, <1>6
    <2>2. ViewOf(r, disk, server, file, edited, p)
      BY <1>1 DEF ViewOK
    <2> QED BY <1>6, <1>10, <2>1, <2>2 DEF ViewOf, Confirming, Resolving, Underway
  <1>12. ViewOK(t, disk, server, file', edited)
    BY <1>1, <1>6, <1>7, <1>9, <1>11, RecordedView
  <1>13. \A q \in Path : IsOpen(Latest(file, q)) /\ IsOpen(Final(file, q)) =>
              \/ IsOpen(Latest(file', q)) /\ IsOpen(Final(file', q))
              \/ Stored(server, disk[q].sha) \/ edited
    BY <1>9 DEF Kept
  <1> QED BY <1>2, <1>3, <1>6, <1>8, <1>9, <1>12, <1>13, FileStep

LEMMA ShortWriteInv ==
    ASSUME IInv, NEW c \in Command, NEW p \in Path, NEW cut \in Cuts, ShortWrite(c, p, cut)
    PROVE  IInv' /\ Settles(disk, server, file, file')
  <1> DEFINE rows == IF p \in Recordable(c) THEN Rows(c, p) ELSE Announced(c, p)
  <1>1. /\ UNCHANGED <<disk, server, wire, edited>> /\ Fault /\ Aborted(c)
        /\ \/ run[c].pc # "aborted" /\ p \in Recordable(c)
           \/ NextUp(c, p)
        /\ \E k \in DOMAIN rows : file' = Interrupted(file, rows, k, cut)
    BY DEF ShortWrite
  <1>2. run[c].pc \notin {"off", "aborted"}
    BY <1>1, RecordableIs DEF NextUp
  <1>3. PICK k \in DOMAIN rows : file' = Interrupted(file, rows, k, cut)
    BY <1>1
  <1>4. Sound(rows, disk, server, file, edited)
    <2>1. CASE p \in Recordable(c)
      <3>1. TypeOK /\ Rows(c, p) \in Seq(RowType)
        BY RowsAre DEF IInv
      <3>2. Rows(c, p) # <<>>
        BY <1>3, <2>1
      <3> QED BY <1>2, <2>1, <3>2, RowsSound
    <2>2. CASE p \notin Recordable(c)
      BY <2>2, AnnouncedSound
    <2> QED BY <2>1, <2>2
  <1> HIDE DEF rows
  <1>5. cut \in {"torn", "whole", "split"}
    BY CommandAssumption
  <1>6. /\ file' \in JournalType /\ JournalOK(disk, server, file')
        /\ Kept(disk, server, file, file', edited, rows)
        /\ Settles(disk, server, file, file')
    BY <1>3, <1>4, <1>5, FileIs, CutJournal
  <1>7. \A q \in Path : IsOpen(Latest(file, q)) /\ IsOpen(Final(file, q)) =>
              \/ IsOpen(Latest(file', q)) /\ IsOpen(Final(file', q))
              \/ Stored(server, disk[q].sha) \/ edited
    BY <1>6 DEF Kept
  <1>8. PICK t \in RunType :
              /\ Go(c, t) /\ t.pc = "aborted" /\ t.sha = run[c].sha /\ PhaseOK(t)
              /\ \A q \in Path : t.job[q] = IF run[c].job[q] = "sending" THEN "sending" ELSE "none"
    BY <1>1, <1>2, AbortedIs
  <1>9. PhaseOK(run[c]) /\ ViewOK(run[c], disk, server, file, edited)
    BY DEF IInv, CommandsOK
  <1>10. ViewOK(t, disk, server, file', edited)
    BY <1>7, <1>8, <1>9, AbortedView
  <1>11. IInv'
    BY <1>1, <1>2, <1>6, <1>7, <1>8, <1>10, FileStep
  <1> QED BY <1>6, <1>11
-----------------------------------------------------------------------------
(* A command that ends: what was edited meanwhile concerns nobody else.    *)
LEMMA EndsInv ==
    ASSUME IInv, NEW c \in Command, run[c].pc # "off", Ends(c),
           UNCHANGED <<disk, server>>, UNCHANGED faults \/ Fault,
           wire' \subseteq [bytes: Content, expected: Content],
           file' \in JournalType, JournalOK(disk, server, file'),
           \A p \in Path : IsOpen(Latest(file, p)) /\ IsOpen(Final(file, p)) =>
              IsOpen(Latest(file', p)) /\ IsOpen(Final(file', p))
    PROVE  IInv'
  <1>0. TypeOK
    BY DEF IInv
  <1>1. /\ run' \in [Command -> RunType] /\ run'[c] = Idle
        /\ \A d \in Command \ {c} : run'[d] = run[d]
    BY <1>0, IdleType, GoIs DEF Ends
  <1>2. c \in Running
    BY DEF Running
  <1>3. edited' = FALSE
    <2>1. edited => Running = {c}
      BY <1>2 DEF IInv, Alone, Running
    <2> QED BY <1>0, <2>1 DEF Ends, TypeOK
  <1>4. TypeOK'
    <2>1. faults' \in Nat
      BY <1>0 DEF TypeOK, Fault
    <2> QED BY <1>0, <1>1, <1>3, <2>1 DEF TypeOK, JournalType, Line
  <1>5. ASSUME NEW d \in Command
        PROVE  PhaseOK(run'[d]) /\ ViewOK(run'[d], disk', server', file', edited')
    <2>1. CASE d = c
      BY <1>1, <2>1, IdleOK
    <2>2. CASE d # c
      <3>1. run'[d] = run[d] /\ PhaseOK(run[d]) /\ ViewOK(run[d], disk, server, file, edited)
        BY <1>1, <2>2 DEF IInv, CommandsOK
      <3>2. CASE edited
        <4>1. run[d].pc = "off"
          BY <1>2, <2>2, <3>2 DEF IInv, Alone, Running
        <4>2. ViewOK(run[d], disk, server, file', FALSE)
          BY <3>1, <4>1, OffView
        <4> QED BY <1>3, <3>1, <4>2
      <3>3. CASE ~edited
        <4>1. edited = FALSE
          BY <3>3, <1>0 DEF TypeOK
        <4>2. ViewOK(run[d], disk, server, file', FALSE)
          BY <3>1, <4>1, OtherView
        <4> QED BY <1>3, <3>1, <4>2
      <3> QED BY <3>2, <3>3
    <2> QED BY <2>1, <2>2
  <1>6. CommandsOK'
    BY <1>5 DEF CommandsOK
  <1>7. Alone' /\ JournalOK(disk, server, file)'
    BY <1>3 DEF Alone
  <1> QED BY <1>4, <1>6, <1>7 DEF IInv

LEMMA FinishInv ==
    ASSUME IInv, NEW c \in Command, Finish(c)
    PROVE  IInv'
  <1>1. /\ run[c].pc # "off" /\ Ends(c) /\ file' = Compacted(file)
        /\ UNCHANGED <<disk, server>> /\ UNCHANGED faults /\ UNCHANGED wire
    BY DEF Finish, Settled
  <1>2. wire' \subseteq [bytes: Content, expected: Content]
    BY <1>1 DEF IInv, TypeOK
  <1>3. /\ file' \in JournalType /\ JournalOK(disk, server, file')
        /\ \A p \in Path : IsOpen(Latest(file, p)) /\ IsOpen(Final(file, p)) =>
              IsOpen(Latest(file', p)) /\ IsOpen(Final(file', p))
    BY <1>1, FileIs, CompactJournal
  <1> QED BY <1>1, <1>2, <1>3, EndsInv

(* A command that ends without a last look at the journal.                 *)
LEMMA StopsInv ==
    ASSUME IInv, NEW c \in Command, run[c].pc # "off", Ends(c),
           UNCHANGED <<disk, file, server>>, UNCHANGED faults \/ Fault,
           wire' \subseteq [bytes: Content, expected: Content]
    PROVE  IInv'
  <1>1. UNCHANGED <<disk, server>>
    OBVIOUS
  <1>2. /\ file' \in JournalType /\ JournalOK(disk, server, file')
        /\ \A p \in Path : IsOpen(Latest(file, p)) /\ IsOpen(Final(file, p)) =>
              IsOpen(Latest(file', p)) /\ IsOpen(Final(file', p))
    BY FileIs
  <1> QED BY <1>1, <1>2, EndsInv

LEMMA OutageInv ==
    ASSUME IInv, NEW c \in Command, Outage(c)
    PROVE  IInv'
  <1>1. /\ run[c].pc # "off" /\ Ends(c) /\ Fault
        /\ UNCHANGED <<disk, file, server>> /\ UNCHANGED wire
    BY DEF Outage, Settled
  <1>2. wire' \subseteq [bytes: Content, expected: Content]
    BY <1>1 DEF IInv, TypeOK
  <1> QED BY <1>1, <1>2, StopsInv

LEMMA AbandonInv ==
    ASSUME IInv, NEW c \in Command, Abandon(c)
    PROVE  IInv'
  <1>1. /\ run[c].pc # "off" /\ Ends(c) /\ UNCHANGED faults
        /\ UNCHANGED <<disk, file, server>> /\ UNCHANGED wire
    BY DEF Abandon
  <1>2. wire' \subseteq [bytes: Content, expected: Content]
    BY <1>1 DEF IInv, TypeOK
  <1> QED BY <1>1, <1>2, StopsInv

LEMMA CrashInv ==
    ASSUME IInv, NEW c \in Command, Crash(c)
    PROVE  IInv'
  <1>1. /\ run[c].pc # "off" /\ Ends(c) /\ Fault
        /\ UNCHANGED <<disk, file, server>>
        /\ wire' = wire \cup {Request(c, p) : p \in Jobs(c, {"sending"})}
    BY DEF Crash
  <1>2. ASSUME NEW p \in Jobs(c, {"sending"})
        PROVE  Request(c, p) \in [bytes: Content, expected: Content]
    BY SendingIs DEF Jobs, Sending
  <1>3. wire' \subseteq [bytes: Content, expected: Content]
    BY <1>1, <1>2 DEF IInv, TypeOK
  <1> QED BY <1>1, <1>3, StopsInv

LEMMA EditInv ==
    ASSUME IInv, NEW p \in Path, NEW s \in Revisions, Edit(p, s)
    PROVE  IInv'
  <1>0. TypeOK /\ s \in Content
    BY FileAssumption DEF IInv
  <1>1. /\ UNCHANGED <<file, server, wire, run>> /\ Fault
        /\ Cardinality(Running) <= 1 /\ edited' = (Running # {})
        /\ disk' = [disk EXCEPT ![p] = [sig |-> disk[p].sig + 1, sha |-> s]]
    BY DEF Edit
  <1>2. disk \in [Path -> [sig: Nat, sha: Content]] /\ disk[p].sig \in Nat
    BY <1>0 DEF TypeOK
  <1>3. /\ disk' \in [Path -> [sig: Nat, sha: Content]]
        /\ disk'[p].sig = disk[p].sig + 1 /\ \A q \in Path \ {p} : disk'[q] = disk[q]
    BY <1>0, <1>1, <1>2
  <1>4. TypeOK'
    <2>1. faults' \in Nat
      BY <1>0, <1>1 DEF TypeOK, Fault
    <2> QED BY <1>0, <1>1, <1>3, <2>1 DEF TypeOK
  <1>5. /\ file \in JournalType /\ (~file.ended => file.lines # <<>>)
        /\ Visible(file) \in Seq(Line)
    BY FileIs, VisibleType DEF JournalOK
  <1>6. \A q \in Path : /\ Latest(file, q) # None => Latest(file, q).sig \in Nat
                        /\ Final(file, q) # None => Final(file, q).sig \in Nat
    <2>1. ASSUME NEW lines \in Seq(Line), NEW q, Newest(lines, q) # None
          PROVE  Newest(lines, q).sig \in Nat
      BY <2>1, NewestType DEF RowType
    <2>2. file.lines \in Seq(Line)
      BY <1>5 DEF JournalType
    <2> QED BY <1>5, <2>1, <2>2 DEF Latest, Final
  <1>7. /\ Outdated(Latest(file, p), disk', p) /\ Outdated(Final(file, p), disk', p)
        /\ Latest(file, p) # None => Latest(file, p).sig <= disk'[p].sig
        /\ Final(file, p) # None => Final(file, p).sig <= disk'[p].sig
    BY <1>2, <1>3, <1>6 DEF IInv, JournalOK, Outdated, IsOpen
  <1>8. JournalOK(disk', server, file)
    <2>1. ASSUME NEW q \in Path
          PROVE  /\ Latest(file, q) # None => Latest(file, q).sig <= disk'[q].sig
                 /\ Final(file, q) # None => Final(file, q).sig <= disk'[q].sig
                 /\ \/ IsOpen(Final(file, q)) \/ Outdated(Latest(file, q), disk', q)
                    \/ Stored(server, disk'[q].sha)
      <3>1. CASE q = p
        BY <1>7, <3>1
      <3>2. CASE q # p
        BY <1>3, <3>2 DEF IInv, JournalOK, Outdated
      <3> QED BY <3>1, <3>2
    <2> QED BY <1>5, <2>1 DEF JournalOK
  <1>9. ASSUME NEW d \in Command
        PROVE  PhaseOK(run[d]) /\ ViewOK(run[d], disk', server, file, edited')
    <2>1. PhaseOK(run[d]) /\ ViewOK(run[d], disk, server, file, edited)
      BY DEF IInv, CommandsOK
    <2>2. CASE run[d].pc = "off"
      BY <2>1, <2>2, OffView
    <2>3. CASE run[d].pc # "off"
      <3>1. edited' = TRUE
        BY <1>1, <2>3 DEF Running
      <3>2. ASSUME NEW q \in Path PROVE ViewOf(run[d], disk', server, file, edited', q)
        <4>1. CASE q = p
          <5>1. Stale(disk', file, edited', p)
            BY <1>7, <3>1 DEF Stale
          <5> QED BY <3>1, <4>1, <5>1 DEF ViewOf
        <4>2. CASE q # p
          <5>1. ViewOf(run[d], disk, server, file, edited, q) /\ disk'[q] = disk[q]
            BY <1>3, <2>1, <4>2 DEF ViewOK
          <5>2. Stale(disk, file, edited, q) => Stale(disk', file, edited', q)
            BY <3>1, <5>1 DEF Stale, Outdated
          <5> QED BY <3>1, <5>1, <5>2 DEF ViewOf
        <4> QED BY <4>1, <4>2
      <3> QED BY <2>1, <3>2 DEF ViewOK
    <2> QED BY <2>2, <2>3
  <1>10. CommandsOK'
    BY <1>1, <1>9 DEF CommandsOK
  <1>11. Alone'
    <2>1. Running' = Running
      BY <1>1 DEF Running
    <2>2. Running \subseteq Command /\ IsFiniteSet(Running)
      BY CommandAssumption, FS_Subset DEF Running
    <2>3. Cardinality(Running) \in Nat
      BY <2>2, FS_CardinalityType
    <2>4. Cardinality(Running) = 0 \/ Cardinality(Running) = 1
      BY <1>1, <2>3
    <2>5. Running = {} \/ \E x : Running = {x}
      BY <2>2, <2>4, FS_EmptySet, FS_Singleton
    <2> QED BY <2>1, <2>5 DEF Alone
  <1>12. JournalOK(disk, server, file)'
    BY <1>1, <1>8 DEF IInv
  <1> QED BY <1>4, <1>10, <1>11, <1>12 DEF IInv

-----------------------------------------------------------------------------
LEMMA InitInv == Init => IInv
  <1> SUFFICES ASSUME Init PROVE IInv
    OBVIOUS
  <1>1. /\ file = EmptyFile /\ server = {}
        /\ wire = {} /\ run = [c \in Command |-> Idle] /\ edited = FALSE
    BY DEF Init
  <1>2. PICK layout \in Layouts :
           /\ disk = [p \in Path |-> [sig |-> 0, sha |-> layout.files[p]]]
           /\ faults = layout.faults
    BY DEF Init
  <1>3. layout.files \in [Path -> Content] /\ layout.faults \in Nat
    BY FileAssumption
  <1>4. disk \in [Path -> [sig: Nat, sha: Content]] /\ faults \in Nat
    BY <1>2, <1>3
  <1>5. file.lines = <<>> /\ file.ended = TRUE
        /\ file \in [lines: Seq(RowType \cup {Torn, Split}), ended: BOOLEAN]
    BY <1>1 DEF EmptyFile
  <1>6. TypeOK
    BY <1>1, <1>4, <1>5, IdleType DEF TypeOK
  <1>7. \A p \in Path : Latest(file, p) = None /\ Final(file, p) = None
    BY <1>5, NewestEmpty DEF Latest, Visible, Final
  <1>8. JournalOK(disk, server, file)
    BY <1>5, <1>7 DEF JournalOK, Outdated, IsOpen
  <1>9. CommandsOK
    BY <1>1, IdleOK DEF CommandsOK
  <1>10. Alone
    BY <1>1 DEF Alone
  <1> QED BY <1>6, <1>8, <1>9, <1>10 DEF IInv

LEMMA StepInv == IInv /\ [Next]_vars => IInv'
  <1> SUFFICES ASSUME IInv, [Next]_vars PROVE IInv'
    OBVIOUS
  <1>1. CASE UNCHANGED vars
    BY <1>1 DEF vars, IInv, TypeOK, CommandsOK, Alone, Running
  <1>2. CASE \E c \in Command : Start(c) \/ MainThread(c) \/ \E p \in Path : Answer(c, p)
    <2>1. PICK c \in Command : Start(c) \/ MainThread(c) \/ \E p \in Path : Answer(c, p)
      BY <1>2
    <2>2. CASE Start(c)
      BY <2>2, StartInv
    <2>3. CASE Probe(c) \/ Hash(c) \/ Prepare(c)
      BY <2>3, ProbeInv, HashInv, PrepareInv
    <2>4. CASE Finish(c) \/ Unreadable(c) \/ Abandon(c)
      BY <2>4, FinishInv, UnreadableInv, AbandonInv
    <2>5. CASE \E p \in Path : Record(c, p) \/ Announce(c, p) \/ Submit(c, p)
      BY <2>5, RecordInv, AnnounceInv, SubmitInv
    <2>6. CASE \E p \in Path : Answer(c, p)
      BY <2>6, AnswerInv
    <2> QED BY <2>1, <2>2, <2>3, <2>4, <2>5, <2>6 DEF MainThread
  <1>3. CASE \E request \in wire : Arrive(request)
    BY <1>3, ArriveInv
  <1>4. CASE \E p \in Path, s \in Revisions : Edit(p, s)
    BY <1>4, EditInv
  <1>5. CASE \E c \in Command : Outage(c) \/ Interrupt(c) \/ Crash(c)
    BY <1>5, OutageInv, InterruptInv, CrashInv
  <1>6. CASE \E c \in Command, p \in Path :
                HashFails(c, p) \/ LoseAnswer(c, p) \/ LoseRequest(c, p)
    BY <1>6, HashFailsInv, LoseAnswerInv, LoseRequestInv
  <1>7. CASE \E c \in Command, p \in Path, cut \in Cuts : ShortWrite(c, p, cut)
    BY <1>7, ShortWriteInv
  <1>8. Disturbance => \/ \E p \in Path, s \in Revisions : Edit(p, s)
                       \/ \E c \in Command : Outage(c) \/ Interrupt(c) \/ Crash(c)
                       \/ \E c \in Command, p \in Path :
                             HashFails(c, p) \/ LoseAnswer(c, p) \/ LoseRequest(c, p)
                       \/ \E c \in Command, p \in Path, cut \in Cuts : ShortWrite(c, p, cut)
    BY DEF Disturbance
  <1> QED BY <1>1, <1>2, <1>3, <1>4, <1>5, <1>6, <1>7, <1>8 DEF Next

LEMMA Inductive == Spec => []IInv
  BY InitInv, StepInv, PTL DEF Spec

(* The state of the files, the journal, the server and the commands is     *)
(* what UploadClient says it is, whatever the interleaving and the faults. *)
THEOREM TypeCorrect == Spec => []TypeOK
  <1>1. IInv => TypeOK
    BY DEF IInv
  <1> QED BY <1>1, Inductive, PTL

(* What a reader of the journal makes of a path.                           *)
LEMMA LatestIs ==
    ASSUME IInv, NEW p \in Path, IsOpen(Latest(file, p))
    PROVE  /\ Latest(file, p) \in RowType
           /\ Latest(file, p).op \in {"pending", "failed", "review"}
  <1>1. Visible(file) \in Seq(Line)
    BY FileIs, VisibleType DEF JournalOK
  <1>2. Latest(file, p) \in RowType
    BY <1>1, NewestType DEF Latest, IsOpen
  <1> QED BY <1>2 DEF RowType, Status, IsOpen

(* record_pending comes first: what is sent, or was answered and not yet   *)
(* recorded, is in the queue or on the server, while no file is edited.    *)
THEOREM SentStaysQueued == Spec => []SentIsQueued
  <1>1. ASSUME IInv PROVE SentIsQueued
    <2> SUFFICES ASSUME NEW c \in Command, NEW p \in Path, ~edited,
                        run[c].job[p] \in {"sending", "ok", "review"}
                 PROVE  QueueStatus(p) # None \/ Known(Article[run[c].sha[p]])
      BY DEF SentIsQueued
    <2>1. ViewOf(run[c], disk, server, file, edited, p)
      BY <1>1 DEF IInv, CommandsOK, ViewOK
    <2>2. Stored(server, run[c].sha[p]) \/ IsOpen(Latest(file, p))
      BY <2>1 DEF ViewOf, Underway
    <2>3. CASE Stored(server, run[c].sha[p])
      BY <2>3 DEF Stored, Known
    <2>4. CASE IsOpen(Latest(file, p))
      <3>1. Latest(file, p).op # None /\ "pending" # None
        BY <1>1, <2>4, LatestIs, RowAssumption DEF Status
      <3>2. Latest(file, p) # None
        BY <2>4 DEF IsOpen
      <3>3. QueueStatus(p) \in {"pending", Latest(file, p).op}
        BY <2>4, <3>2 DEF QueueStatus
      <3> QED BY <3>1, <3>3
    <2> QED BY <2>2, <2>3, <2>4
  <1> QED BY <1>1, Inductive, PTL
-----------------------------------------------------------------------------
LEMMA StepSettles ==
    ASSUME IInv, [Next]_vars
    PROVE  Settles(disk, server, file, file')
  <1>1. CASE UNCHANGED file
    BY <1>1 DEF Settles
  <1>2. ASSUME NEW c \in Command, NEW p \in Path, Record(c, p)
        PROVE  Settles(disk, server, file, file')
    <2>1. /\ file' = Write(file, Rows(c, p)) /\ run[c].pc # "aborted"
          /\ p \in Recordable(c)
      BY <1>2 DEF Record
    <2>2. CASE Rows(c, p) = <<>>
      BY <1>1, <2>1, <2>2 DEF Write
    <2>3. CASE Rows(c, p) # <<>>
      <3>1. Sound(Rows(c, p), disk, server, file, edited)
        BY <2>1, <2>3, RowsSound
      <3> QED BY <2>1, <3>1, FileIs, WriteJournal
    <2> QED BY <2>2, <2>3
  <1>3. ASSUME NEW c \in Command, NEW p \in Path, Announce(c, p)
        PROVE  Settles(disk, server, file, file')
    <2>1. file' = Write(file, Announced(c, p))
      BY <1>3 DEF Announce
    <2>2. Sound(Announced(c, p), disk, server, file, edited)
      BY AnnouncedSound
    <2> QED BY <2>1, <2>2, FileIs, WriteJournal
  <1>4. ASSUME NEW c \in Command, NEW p \in Path, NEW cut \in Cuts, ShortWrite(c, p, cut)
        PROVE  Settles(disk, server, file, file')
    BY <1>4, ShortWriteInv
  <1>5. ASSUME NEW c \in Command, Finish(c)
        PROVE  Settles(disk, server, file, file')
    BY <1>5, FileIs, CompactJournal DEF Finish
  <1>6. \/ UNCHANGED file
        \/ \E c \in Command, p \in Path : Record(c, p) \/ Announce(c, p)
        \/ \E c \in Command, p \in Path, cut \in Cuts : ShortWrite(c, p, cut)
        \/ \E c \in Command : Finish(c)
    <2>1. CASE UNCHANGED vars
      BY <2>1 DEF vars
    <2>2. CASE \E c \in Command : Start(c) \/ MainThread(c) \/ \E p \in Path : Answer(c, p)
      BY <2>2 DEF MainThread, Start, Probe, Hash, Prepare, Unreadable, Abandon, Submit, Answer
    <2>3. CASE \E request \in wire : Arrive(request)
      BY <2>3 DEF Arrive
    <2>4. CASE Disturbance
      BY <2>4 DEF Disturbance, Edit, Outage, Interrupt, Crash, HashFails, LoseAnswer, LoseRequest
    <2> QED BY <2>1, <2>2, <2>3, <2>4 DEF Next
  <1> QED BY <1>1, <1>2, <1>3, <1>4, <1>5, <1>6

(* The entry a step leaves a path with.                                    *)
LEMMA EntryStep ==
    ASSUME IInv, IInv', [Next]_vars, NEW p \in Path
    PROVE  \/ Entry(p)' = Entry(p)
           \/ Entry(p)' \in Queue!Entry
           \/ /\ Entry(p) # None /\ Entry(p)' = None
              /\ disk[p].sig # Entry(p).sig \/ Stored(server, disk[p].sha)
  <1>1. CASE IsOpen(Latest(file', p))
    <2>1. /\ Latest(file', p) \in RowType
          /\ Latest(file', p).op \in {"pending", "failed", "review"}
      <3>1. file' \in JournalType /\ Visible(file') \in Seq(Line)
        BY FileType, VisibleType DEF IInv, JournalOK, TypeOK, JournalType, Line
      <3>2. Latest(file', p) \in RowType
        BY <1>1, <3>1, NewestType DEF Latest, IsOpen
      <3> QED BY <1>1, <3>2 DEF RowType, Status, IsOpen
    <2>2. Entry(p)' = [status |-> Latest(file', p).op, sig |-> Latest(file', p).sig]
      BY <1>1 DEF Entry
    <2> QED BY <2>1, <2>2 DEF Queue!Entry, RowType
  <1>2. CASE ~IsOpen(Latest(file', p))
    <2>1. Entry(p)' = None
      BY <1>2 DEF Entry
    <2>2. CASE ~IsOpen(Latest(file, p))
      BY <2>1, <2>2 DEF Entry
    <2>3. CASE IsOpen(Latest(file, p))
      <3>1. Outdated(Latest(file, p), disk, p) \/ Stored(server, disk[p].sha)
        BY <1>2, <2>3, StepSettles DEF Settles
      <3>2. Entry(p).sig = Latest(file, p).sig
        BY <2>3 DEF Entry
      <3> QED BY <2>1, <2>3, <3>1, <3>2 DEF Outdated
    <2> QED BY <2>2, <2>3
  <1> QED BY <1>1, <1>2

(* Appends, interrupted appends that a later one completes, compactions    *)
(* and crashes of several commands are steps of a queue from which an entry *)
(* goes only when the server has the article or the file is another one.   *)
THEOREM JournalImplementsQueue == Spec => JournalIsQueue
  <1>1. Init => Queue!Init
    <2> SUFFICES ASSUME Init, NEW p \in Path PROVE Entry(p) = None
      BY DEF Queue!Init
    <2>1. Visible(file) = <<>>
      BY DEF Init, EmptyFile, Visible
    <2> QED BY <2>1, NewestEmpty DEF Latest, Entry, IsOpen
  <1>2. IInv /\ IInv' /\ [Next]_vars => [Queue!Next]_([p \in Path |-> Entry(p)])
    <2> SUFFICES ASSUME IInv, IInv', [Next]_vars PROVE Queue!Next
      OBVIOUS
    <2> SUFFICES ASSUME NEW p \in Path
                 PROVE  \/ Entry(p)' = Entry(p)
                        \/ Entry(p)' \in Queue!Entry
                        \/ /\ Entry(p) # None /\ Entry(p)' = None
                           /\ \/ disk[p].sig # Entry(p).sig
                              \/ \E s \in server : Article[s] = Article[disk[p].sha]
      BY DEF Queue!Next, Queue!Enters, Queue!Leaves, Queue!Gone, Queue!Confirmed
    <2> QED BY EntryStep DEF Stored
  <1> QED BY <1>1, <1>2, Inductive, PTL DEF Spec, JournalIsQueue, Queue!Spec
=============================================================================

--------------------------- MODULE WritebackProofs ---------------------------
(***************************************************************************)
(* Proofs about module Writeback: what --write-doi writes into a file is    *)
(* the one DOI that is the article's own, the original bytes are kept and   *)
(* the new ones stored under that DOI, for any papers, registries, files    *)
(* and number of commands.                                                  *)
(*                                                                          *)
(* The invariant IInv says of every request what it still knows at each     *)
(* point about the DOI it works on, of every command what it knows about    *)
(* the bytes it read, and ties both to the table.  Choices among candidates *)
(* rest on the least number: a finite set is not needed.                    *)
(***************************************************************************)
EXTENDS Writeback, FiniteSetTheorems, WellFoundedInduction, TLAPS
(* The least-number principle.                                             *)
LEMMA Least ==
    ASSUME NEW T \in SUBSET Nat, T # {}
    PROVE  \E x \in T : \A y \in T : x <= y
  <1> DEFINE R == {ss \in Nat \X Nat : ss[1] < ss[2]}
  <1>1. IsWellFoundedOn(R, Nat)
    BY NatLessThanWellFounded DEF OpToRel
  <1>2. ASSUME NEW a \in Nat, NEW b \in Nat, a < b PROVE <<a, b>> \in R
    <2> DEFINE ss == <<a, b>>
    <2>1. ss \in Nat \X Nat /\ ss[1] = a /\ ss[2] = b
      OBVIOUS
    <2> QED BY <1>2, <2>1
  <1> HIDE DEF R
  <1>3. PICK x \in T : \A y \in T : ~ (<<y, x>> \in R)
    BY <1>1, WFMin
  <1>4. \A y \in T : ~ (y < x)
    BY <1>2, <1>3
  <1> QED BY <1>4

LEMMA LeastBy ==
    ASSUME NEW S, S # {}, NEW f, \A x \in S : f[x] \in Nat
    PROVE  \E m \in S : \A x \in S : f[m] <= f[x]
  <1> DEFINE T == {f[x] : x \in S}
  <1>1. T \in SUBSET Nat /\ T # {}
    OBVIOUS
  <1>2. PICK v \in T : \A y \in T : v <= y
    BY <1>1, Least
  <1>3. PICK m \in S : v = f[m]
    BY <1>2
  <1> QED BY <1>2, <1>3

LEMMA MostBy ==
    ASSUME NEW S, S # {}, NEW f, NEW n \in Nat, \A x \in S : f[x] \in 0..n
    PROVE  \E m \in S : \A x \in S : f[x] <= f[m]
  <1> DEFINE g == [x \in S |-> n - f[x]]
  <1>1. \A x \in S : g[x] = n - f[x] /\ g[x] \in Nat
    OBVIOUS
  <1> HIDE DEF g
  <1>2. PICK m \in S : \A x \in S : g[m] <= g[x]
    BY <1>1, LeastBy
  <1>3. ASSUME NEW x \in S PROVE f[x] <= f[m]
    BY <1>1, <1>2
  <1> QED BY <1>3

LexLeq(s, t) == Before(s, t) \/ \A i \in 1..6 : s[i] = t[i]

LEMMA BeforeIs ==
    ASSUME NEW s, NEW t,
           \/ s[1] < t[1]
           \/ s[1] = t[1] /\ s[2] < t[2]
           \/ s[1] = t[1] /\ s[2] = t[2] /\ s[3] < t[3]
           \/ s[1] = t[1] /\ s[2] = t[2] /\ s[3] = t[3] /\ s[4] < t[4]
           \/ s[1] = t[1] /\ s[2] = t[2] /\ s[3] = t[3] /\ s[4] = t[4] /\ s[5] < t[5]
           \/ s[1] = t[1] /\ s[2] = t[2] /\ s[3] = t[3] /\ s[4] = t[4] /\ s[5] = t[5] /\ s[6] < t[6]
    PROVE  Before(s, t)
  <1>1. 1..5 = {1, 2, 3, 4, 5} /\ 1..4 = {1, 2, 3, 4} /\ 1..3 = {1, 2, 3} /\ 1..2 = {1, 2}
        /\ 1..1 = {1} /\ 1..0 = {} /\ 1..6 = {1, 2, 3, 4, 5, 6}
    OBVIOUS
  <1> DEFINE At(i) == s[i] < t[i] /\ \A j \in 1..(i - 1) : s[j] = t[j]
  <1>2. At(1) \/ At(2) \/ At(3) \/ At(4) \/ At(5) \/ At(6)
    BY <1>1
  <1>3. \E i \in 1..6 : At(i)
    BY <1>1, <1>2
  <1> QED BY <1>3 DEF Before

(* A lexicographic minimum of keys of six numbers.                         *)
LEMMA ColumnLeast ==
    ASSUME NEW T, T # {}, NEW key, NEW i, \A x \in T : key[x][i] \in Nat
    PROVE  \E m \in T : \A x \in T : key[m][i] <= key[x][i]
  <1> DEFINE g == [x \in T |-> key[x][i]]
  <1>1. \A x \in T : g[x] = key[x][i] /\ g[x] \in Nat
    OBVIOUS
  <1> HIDE DEF g
  <1>2. PICK m \in T : \A x \in T : g[m] <= g[x]
    BY <1>1, LeastBy
  <1> QED BY <1>1, <1>2

LEMMA LexLeast ==
    ASSUME NEW S, S # {}, NEW key, \A x \in S, i \in 1..6 : key[x][i] \in Nat
    PROVE  \E m \in S : \A x \in S : LexLeq(key[m], key[x])
  <1>0. \A x \in S : /\ key[x][1] \in Nat /\ key[x][2] \in Nat /\ key[x][3] \in Nat
                     /\ key[x][4] \in Nat /\ key[x][5] \in Nat /\ key[x][6] \in Nat
    OBVIOUS
  <1>1. PICK m1 \in S : \A x \in S : key[m1][1] <= key[x][1]
    BY <1>0, ColumnLeast
  <1> DEFINE S1 == {x \in S : key[x][1] = key[m1][1]}
  <1>2. PICK m2 \in S1 : \A x \in S1 : key[m2][2] <= key[x][2]
    BY <1>0, m1 \in S1, ColumnLeast
  <1> DEFINE S2 == {x \in S1 : key[x][2] = key[m2][2]}
  <1>3. PICK m3 \in S2 : \A x \in S2 : key[m3][3] <= key[x][3]
    BY <1>0, m2 \in S2, ColumnLeast
  <1> DEFINE S3 == {x \in S2 : key[x][3] = key[m3][3]}
  <1>4. PICK m4 \in S3 : \A x \in S3 : key[m4][4] <= key[x][4]
    BY <1>0, m3 \in S3, ColumnLeast
  <1> DEFINE S4 == {x \in S3 : key[x][4] = key[m4][4]}
  <1>5. PICK m5 \in S4 : \A x \in S4 : key[m5][5] <= key[x][5]
    BY <1>0, m4 \in S4, ColumnLeast
  <1> DEFINE S5 == {x \in S4 : key[x][5] = key[m5][5]}
  <1>6. PICK m \in S5 : \A x \in S5 : key[m][6] <= key[x][6]
    BY <1>0, m5 \in S5, ColumnLeast
  <1>7. ASSUME NEW x \in S PROVE LexLeq(key[m], key[x])
    <2>1. \A i \in {1, 2, 3, 4, 5, 6} : key[m][i] \in Nat /\ key[x][i] \in Nat
      OBVIOUS
    <2>2. /\ key[m][1] = key[m1][1] /\ key[m][2] = key[m2][2] /\ key[m][3] = key[m3][3]
          /\ key[m][4] = key[m4][4] /\ key[m][5] = key[m5][5]
      OBVIOUS
    <2>3. /\ key[m][1] <= key[x][1]
          /\ key[m][1] = key[x][1] => key[m][2] <= key[x][2]
      BY <1>1, <1>2, <2>2
    <2>4. /\ key[m][1] = key[x][1] /\ key[m][2] = key[x][2] => key[m][3] <= key[x][3]
          /\ key[m][1] = key[x][1] /\ key[m][2] = key[x][2] /\ key[m][3] = key[x][3]
                => key[m][4] <= key[x][4]
      BY <1>3, <1>4, <2>2
    <2>5. /\ key[m][1] = key[x][1] /\ key[m][2] = key[x][2] /\ key[m][3] = key[x][3]
             /\ key[m][4] = key[x][4] => key[m][5] <= key[x][5]
          /\ key[m][1] = key[x][1] /\ key[m][2] = key[x][2] /\ key[m][3] = key[x][3]
             /\ key[m][4] = key[x][4] /\ key[m][5] = key[x][5] => key[m][6] <= key[x][6]
      BY <1>5, <1>6, <2>2
    <2>6. CASE \A i \in 1..6 : key[m][i] = key[x][i]
      BY <2>6 DEF LexLeq
    <2>7. CASE ~ \A i \in 1..6 : key[m][i] = key[x][i]
      <3>1. 1..6 = {1, 2, 3, 4, 5, 6}
        OBVIOUS
      <3>2. \/ key[m][1] # key[x][1] \/ key[m][2] # key[x][2] \/ key[m][3] # key[x][3]
            \/ key[m][4] # key[x][4] \/ key[m][5] # key[x][5] \/ key[m][6] # key[x][6]
        BY <2>7, <3>1
      <3> DEFINE s == key[m]  t == key[x]
      <3>3. \A i \in {1, 2, 3, 4, 5, 6} : s[i] \in Nat /\ t[i] \in Nat
        BY <2>1
      <3> HIDE DEF s, t
      <3>4. Before(s, t)
        BY <2>3, <2>4, <2>5, <3>2, <3>3, BeforeIs, Z3 DEF s, t
      <3> QED BY <3>4 DEF LexLeq, s, t
    <2> QED BY <2>6, <2>7
  <1> QED BY <1>7
-----------------------------------------------------------------------------
(* What can be read off a file.                                            *)
Sources == {"filename", "pdf-content", "pdf-metadata"}

FileCandidate ==
    {x \in [doi: Doi, source: Sources, score: 0..100, url: BOOLEAN, first: BOOLEAN] :
        x.source # "pdf-content" => ~x.first}

LEMMA NotEmpty ==
    ASSUME NEW S, Cardinality(S) = 1 \/ Cardinality(S) > 1
    PROVE  S # {}
  BY FS_EmptySet

LEMMA FactsOf ==
    ASSUME NEW k \in Content
    PROVE  Of(k) \in FactsType /\ Info(k) \in SUBSET Doi /\ IsFiniteSet(Info(k))
  <1>1. Of(k) \in FactsType
    BY IdentityAssumption DEF Content, Of
  <1>2. Info(k) \in SUBSET Doi
    BY <1>1 DEF Info, FactsType, Content
  <1>3. IsFiniteSet(Doi)
    BY IdentityAssumption, FS_Interval DEF Doi
  <1> QED BY <1>1, <1>2, <1>3, FS_Subset

(* A file has no DOI in its Document Info, one, or several.                *)
LEMMA InfoCases ==
    ASSUME NEW k \in Content
    PROVE  Info(k) = {} \/ Cardinality(Info(k)) = 1 \/ Cardinality(Info(k)) > 1
  <1>1. IsFiniteSet(Info(k))
    BY FactsOf
  <1>2. Cardinality(Info(k)) \in Nat
    BY <1>1, FS_CardinalityType
  <1>3. Cardinality(Info(k)) = 0 <=> Info(k) = {}
    BY <1>1, FS_EmptySet
  <1> QED BY <1>2, <1>3

LEMMA ScoreType ==
    ASSUME NEW o \in Occurrence
    PROVE  TextScore(o) \in 0..100
  <1>1. \A s \in Int : Clamp(s) \in 0..100
    BY DEF Clamp
  <1> DEFINE s == 54 + (CASE o.page = 1 -> 18 [] o.page = 2 -> 8 [] OTHER -> 0)
                     + (IF o.label THEN 18 ELSE 0)
                     - (IF o.url THEN 40 ELSE 0)
                     - (IF o.part = "refs" THEN 38 ELSE 0)
  <1>2. s \in Int
    <2>1. (CASE o.page = 1 -> 18 [] o.page = 2 -> 8 [] OTHER -> 0) \in Int
      BY DEF Occurrence
    <2> QED BY <2>1
  <1> HIDE DEF s
  <1>3. TextScore(o) = Clamp(s)
    BY DEF TextScore, s
  <1> QED BY <1>1, <1>2, <1>3

LEMMA CandidateType ==
    ASSUME NEW k \in Content
    PROVE  Candidates(k) \subseteq FileCandidate /\ InInfo(k) \subseteq FileCandidate
  <1>1. Of(k) \in FactsType /\ Info(k) \in SUBSET Doi
    BY FactsOf
  <1>2. InText(Of(k)) \subseteq FileCandidate
    <2> SUFFICES ASSUME NEW o \in Of(k).text
                 PROVE  [Candidate(o.doi, "pdf-content", TextScore(o)) EXCEPT
                            !.url = o.url, !.first = o.page = 1] \in FileCandidate
      BY DEF InText
    <2>1. o \in Occurrence
      BY <1>1 DEF FactsType
    <2>2. TextScore(o) \in 0..100
      BY <2>1, ScoreType
    <2> QED BY <2>1, <2>2 DEF Candidate, FileCandidate, Sources, Occurrence
  <1>3. ASSUME NEW d \in Doi, NEW source \in Sources, NEW score \in 0..100
        PROVE  Candidate(d, source, score) \in FileCandidate
    BY DEF Candidate, FileCandidate
  <1>4. {"filename", "pdf-content", "pdf-metadata"} = Sources /\ {90, 94, 96} \subseteq 0..100
    BY DEF Sources
  <1>5. InBytes(Of(k)) \subseteq FileCandidate
    <2> SUFFICES ASSUME NEW r \in Of(k).raw
                 PROVE  Candidate(r.doi, "pdf-content", RawScore(r.at)) \in FileCandidate
      BY DEF InBytes
    <2>1. r.doi \in Doi
      BY <1>1 DEF FactsType
    <2>2. RawScore(r.at) \in 0..100
      BY DEF RawScore
    <2> QED BY <1>3, <1>4, <2>1, <2>2
  <1>6. InLinks(Of(k)) \subseteq FileCandidate
    BY <1>1, <1>3, <1>4 DEF InLinks, FactsType
  <1>7. InName(Of(k)) \subseteq FileCandidate
    BY <1>1, <1>3, <1>4 DEF InName, FactsType
  <1>8. InInfo(k) \subseteq FileCandidate
    BY <1>1, <1>3, <1>4 DEF InInfo
  <1> QED BY <1>2, <1>5, <1>6, <1>7, <1>8 DEF Candidates, Merged

LEMMA SourceFound ==
    ASSUME NEW S \in SUBSET FileCandidate, NEW d \in {c.doi : c \in S}
    PROVE  ChooseSource(S, d) \in Sources
  <1> DEFINE T == {x \in S : x.doi = d}
             value == [x \in T |-> 10 * x.score + SourceRank(x.source)]
             Best(b) == /\ b.doi = d
                        /\ \A x \in S : x.doi = d =>
                              10 * x.score + SourceRank(x.source)
                                 <= 10 * b.score + SourceRank(b.source)
  <1>1. T # {}
    OBVIOUS
  <1>2. \A x \in T : /\ value[x] = 10 * x.score + SourceRank(x.source)
                     /\ value[x] \in 0..1005
    <2> SUFFICES ASSUME NEW x \in T
                 PROVE  10 * x.score + SourceRank(x.source) \in 0..1005
      OBVIOUS
    <2>1. x.score \in 0..100 /\ SourceRank(x.source) \in 0..5
      BY DEF FileCandidate, SourceRank, Sources
    <2> QED BY <2>1
  <1>3. PICK b \in T : \A x \in T : value[x] <= value[b]
    <2> DEFINE n == 1005
    <2>1. n \in Nat
      OBVIOUS
    <2> HIDE DEF value, T
    <2>2. \A x \in T : value[x] \in 0..n
      BY <1>2
    <2> HIDE DEF n
    <2> QED BY <1>1, <2>1, <2>2, MostBy
  <1>4. Best(b)
    <2> HIDE DEF value
    <2> QED BY <1>2, <1>3
  <1>5. (CHOOSE x \in S : Best(x)) \in S
    BY <1>4
  <1> QED BY <1>5 DEF ChooseSource, FileCandidate

VerdictOK(e) ==
    /\ e.candidates \subseteq FileCandidate
    /\ \/ e.status = "ok" /\ e.doi \in Doi /\ e.source \in Sources
       \/ e.status \in {"no-doi", "conflict"} /\ e.doi = NoDoi /\ e.source = "none"
    /\ e.status = "conflict" => e.candidates # {}

LEMMA FoundOK ==
    ASSUME NEW S \in SUBSET FileCandidate, NEW d \in {c.doi : c \in S}
    PROVE  VerdictOK(Found(S, d))
  <1>1. d \in Doi
    BY DEF FileCandidate
  <1> QED BY <1>1, SourceFound DEF Found, Verdict, VerdictOK

LEMMA ByNameOK ==
    ASSUME NEW S \in SUBSET FileCandidate, NEW name \in Doi
    PROVE  VerdictOK(ByName(S, name))
  <1> DEFINE meta == Dois(S, "pdf-metadata")
             strong == CHOOSE c \in Strong(S) : TRUE
  <1>1. CASE name \in meta \cup Dois(S, "pdf-content")
    <2>1. name \in {c.doi : c \in S}
      BY <1>1 DEF Dois
    <2> QED BY <1>1, <2>1, FoundOK DEF ByName
  <1>2. CASE name \notin meta \cup Dois(S, "pdf-content") /\ Cardinality(meta) = 1
    <2>1. (CHOOSE d \in meta : TRUE) \in meta
      BY <1>2, NotEmpty
    <2>2. (CHOOSE d \in meta : TRUE) \in {c.doi : c \in S}
      BY <2>1 DEF Dois
    <2> QED BY <1>2, <2>2, FoundOK DEF ByName
  <1>3. CASE /\ name \notin meta \cup Dois(S, "pdf-content") /\ Cardinality(meta) # 1
             /\ Cardinality(Strong(S)) = 1
    <2>1. strong \in Strong(S)
      BY <1>3, NotEmpty
    <2>2. strong.doi \in Doi
      BY <2>1 DEF Strong, FileCandidate
    <2> HIDE DEF strong
    <2>3. ByName(S, name) = Verdict("ok", strong.doi, "pdf-content", S)
      BY <1>3 DEF ByName, strong
    <2> QED BY <2>2, <2>3 DEF Verdict, VerdictOK, Sources
  <1>4. CASE /\ name \notin meta \cup Dois(S, "pdf-content") /\ Cardinality(meta) # 1
             /\ Cardinality(Strong(S)) # 1
    BY <1>4 DEF ByName, Verdict, VerdictOK, Sources
  <1> QED BY <1>1, <1>2, <1>3, <1>4

LEMMA ByContentOK ==
    ASSUME NEW S \in SUBSET FileCandidate, S # {}
    PROVE  VerdictOK(ByContent(S))
  <1> DEFINE clear == CHOOSE c \in Clear(S) : TRUE
  <1>1. CASE Clear(S) = {}
    BY <1>1 DEF ByContent, Verdict, VerdictOK
  <1>2. CASE Clear(S) # {}
    <2>1. clear \in S
      BY <1>2 DEF Clear
    <2>2. clear.doi \in {c.doi : c \in S}
      BY <2>1
    <2> QED BY <1>2, <2>2, FoundOK DEF ByContent
  <1> QED BY <1>1, <1>2

LEMMA EvidenceOK ==
    ASSUME NEW k \in Content
    PROVE  /\ VerdictOK(Evidence[k])
           /\ Info(k) # {} => Evidence[k].source \in {"pdf-metadata", "none"}
  <1> DEFINE S == Candidates(k)
             meta == Dois(S, "pdf-metadata")
             e == Evidence[k]
             own == CHOOSE d \in Info(k) : TRUE
  <1>0. Cardinality(Info(k)) \in Nat
    BY FactsOf, FS_CardinalityType
  <1>1. /\ S \in SUBSET FileCandidate /\ InInfo(k) \in SUBSET FileCandidate
        /\ Info(k) \in SUBSET Doi /\ Of(k).name \in Doi \cup {NoDoi}
    BY CandidateType, FactsOf DEF FactsType
  <1>2. CASE Cardinality(Info(k)) > 1
    <2>1. e = Verdict("conflict", NoDoi, "none", InInfo(k))
      BY <1>0, <1>2, NotEmpty DEF Evidence
    <2>2. InInfo(k) # {}
      BY <1>2, NotEmpty DEF InInfo
    <2> QED BY <1>1, <2>1, <2>2 DEF Verdict, VerdictOK
  <1>3. CASE Cardinality(Info(k)) = 1
    <2>1. e = Verdict("ok", own, "pdf-metadata", InInfo(k))
      BY <1>0, <1>3, NotEmpty DEF Evidence
    <2>2. own \in Doi
      BY <1>1, <1>3, NotEmpty
    <2> HIDE DEF own
    <2> QED BY <1>1, <2>1, <2>2 DEF Verdict, VerdictOK, Sources
  <1>4. CASE Info(k) = {} /\ Of(k).name # NoDoi
    <2>1. ~(Cardinality(Info(k)) > 1) /\ ~(Cardinality(Info(k)) = 1)
      BY <1>4, NotEmpty
    <2>2. e = ByName(S, Of(k).name)
      BY <1>4, <2>1 DEF Evidence
    <2> QED BY <1>1, <1>4, <2>2, ByNameOK
  <1>5. CASE Info(k) = {} /\ Of(k).name = NoDoi
    <2>1. ~(Cardinality(Info(k)) > 1) /\ ~(Cardinality(Info(k)) = 1)
      BY <1>5, NotEmpty
    <2>2. CASE Cardinality(meta) > 1
      <3>1. e = Verdict("conflict", NoDoi, "none", S)
        BY <1>5, <2>1, <2>2 DEF Evidence
      <3>2. S # {}
        BY <2>2, NotEmpty DEF Dois
      <3> QED BY <1>1, <1>5, <3>1, <3>2 DEF Verdict, VerdictOK
    <2>3. CASE ~(Cardinality(meta) > 1) /\ Cardinality(meta) = 1
      <3>1. e = Found(S, CHOOSE d \in meta : TRUE)
        BY <1>5, <2>1, <2>3 DEF Evidence
      <3>2. (CHOOSE d \in meta : TRUE) \in meta
        BY <2>3, NotEmpty
      <3>3. (CHOOSE d \in meta : TRUE) \in {c.doi : c \in S}
        BY <3>2 DEF Dois
      <3> QED BY <1>1, <1>5, <3>1, <3>3, FoundOK
    <2>4. CASE ~(Cardinality(meta) > 1) /\ ~(Cardinality(meta) = 1)
      <3>1. e = IF S = {} THEN Verdict("no-doi", NoDoi, "none", S) ELSE ByContent(S)
        BY <1>5, <2>1, <2>4 DEF Evidence
      <3>2. CASE S = {}
        BY <1>1, <1>5, <3>1, <3>2 DEF Verdict, VerdictOK
      <3>3. CASE S # {}
        BY <1>1, <1>5, <3>1, <3>3, ByContentOK
      <3> QED BY <3>2, <3>3
    <2> QED BY <2>2, <2>3, <2>4
  <1> QED BY <1>2, <1>3, <1>4, <1>5, InfoCases

LEMMA QuickOK ==
    ASSUME NEW k \in Content
    PROVE  \/ Quick[k].status = "ok" /\ Quick[k].doi \in Doi /\ Quick[k].source \in Sources
           \/ Quick[k].status \in {"no-doi", "conflict"}
  <1> DEFINE p == Of(k)
             all == {o.doi : o \in Article(p)}
             front == {o.doi : o \in {x \in Article(p) : x.page = 1}}
             hit(d, source) == Verdict("ok", d, source, {})
             q == Quick[k]
  <1>0. Cardinality(Info(k)) \in Nat
    BY FactsOf, FS_CardinalityType
  <1>1. p \in FactsType /\ Info(k) \in SUBSET Doi
    BY FactsOf
  <1>2. all \in SUBSET Doi /\ front \in SUBSET Doi /\ p.name \in Doi \cup {NoDoi}
    BY <1>1 DEF Article, FactsType, Occurrence
  <1>3. \A T \in SUBSET Doi : Cardinality(T) = 1 => (CHOOSE d \in T : TRUE) \in Doi
    BY NotEmpty
  <1>4. \A d \in Doi, s \in Sources : hit(d, s).status = "ok" /\ hit(d, s).doi \in Doi
                                        /\ hit(d, s).source \in Sources
    BY DEF Verdict
  <1>5. {"filename", "pdf-content", "pdf-metadata"} = Sources
    BY DEF Sources
  <1>6. CASE Cardinality(Info(k)) > 1
    BY <1>0, <1>6, NotEmpty DEF Quick, Verdict
  <1>7. CASE ~(Cardinality(Info(k)) > 1) /\ Cardinality(Info(k)) = 1
    <2>1. q = hit(CHOOSE d \in Info(k) : TRUE, "pdf-metadata")
      BY <1>0, <1>7, NotEmpty DEF Quick
    <2> QED BY <1>1, <1>3, <1>4, <1>5, <1>7, <2>1
  <1> DEFINE a == Cardinality(Info(k)) > 1
             b == Cardinality(Info(k)) = 1
             c == Info(k) = {} /\ p.readable /\ Cardinality(all) = 1
             d0 == Info(k) = {} /\ p.readable /\ Cardinality(all) # 1 /\ Cardinality(front) = 1
             e == Info(k) = {} /\ p.readable /\ all = {} /\ p.name # NoDoi
  <1>8. CASE Info(k) = {}
    <2>1. ~a /\ ~b
      BY <1>8, NotEmpty
    <2>2. CASE c
      <3>1. q = hit(CHOOSE d \in all : TRUE, "pdf-content")
        BY <2>1, <2>2, <1>8, NotEmpty DEF Quick
      <3> QED BY <1>2, <1>3, <1>4, <1>5, <2>2, <3>1
    <2>3. CASE d0
      <3>1. all # {}
        BY <2>3, NotEmpty
      <3>2. q = hit(CHOOSE d \in front : TRUE, "pdf-content")
        BY <2>1, <2>3, <3>1, <1>8 DEF Quick
      <3> QED BY <1>2, <1>3, <1>4, <1>5, <2>3, <3>2
    <2>4. CASE e
      <3>1. ~c /\ ~d0
        <4>1. front = {}
          BY <2>4
        <4> QED BY <2>4, <4>1, NotEmpty
      <3>2. q = hit(p.name, "filename")
        BY <2>1, <2>4, <3>1, <1>8 DEF Quick
      <3> QED BY <1>2, <1>4, <1>5, <2>4, <3>2
    <2>5. CASE ~c /\ ~d0 /\ ~e
      <3>1. q = Verdict("no-doi", NoDoi, "none", {})
        BY <2>1, <2>5, <1>8 DEF Quick
      <3> QED BY <3>1 DEF Verdict
    <2> QED BY <2>2, <2>3, <2>4, <2>5
  <1> QED BY <1>6, <1>7, <1>8, InfoCases
-----------------------------------------------------------------------------
(* The client's guess among several candidates of equal standing.          *)
LEMMA GuessOK ==
    ASSUME NEW e, VerdictOK(e), e.status = "conflict"
    PROVE  Guess(e) \in e.candidates /\ Guess(e) \in FileCandidate
  <1> DEFINE S  == e.candidates
             f1 == [x \in S |-> x.score]
             f2 == [x \in S |-> SourceOrder(x.source)]
             f3 == [x \in S |-> x.doi]
             n1 == 100
             n2 == 3
             Best(x) == \A y \in S :
               \/ y.score < x.score
               \/ y.score = x.score /\ SourceOrder(y.source) < SourceOrder(x.source)
               \/ y.score = x.score /\ y.source = x.source /\ y.doi <= x.doi
  <1>1. S # {} /\ S \subseteq FileCandidate
    BY DEF VerdictOK
  <1>2. \A x \in S : x.score \in 0..n1 /\ x.doi \in 0..LastDoi /\ SourceOrder(x.source) \in 0..n2
    <2> SUFFICES ASSUME NEW x \in S
                 PROVE  x.score \in 0..n1 /\ x.doi \in 0..LastDoi /\ SourceOrder(x.source) \in 0..n2
      OBVIOUS
    <2>1. x.score \in 0..100 /\ x.doi \in Doi /\ x.source \in Sources
      BY <1>1 DEF FileCandidate
    <2>2. SourceOrder(x.source) \in 0..3
      BY <2>1 DEF SourceOrder
    <2> QED BY <2>1, <2>2, IdentityAssumption DEF Doi
  <1>3. \A x, y \in S : SourceOrder(x.source) = SourceOrder(y.source) => x.source = y.source
    BY <1>1 DEF FileCandidate, Sources, SourceOrder
  <1>4. \A x \in S : f1[x] = x.score /\ f2[x] = SourceOrder(x.source) /\ f3[x] = x.doi
    OBVIOUS
  <1>5. n1 \in Nat /\ n2 \in Nat /\ LastDoi \in Nat
    BY IdentityAssumption
  <1> HIDE DEF f1, f2, f3, n1, n2
  <1>6. PICK x1 \in S : \A y \in S : f1[y] <= f1[x1]
    <2> HIDE DEF S
    <2> QED BY <1>1, <1>2, <1>4, <1>5, MostBy
  <1> DEFINE S1 == {y \in S : y.score = x1.score}
  <1>7. PICK x2 \in S1 : \A y \in S1 : f2[y] <= f2[x2]
    <2>1. S1 # {} /\ \A y \in S1 : f2[y] \in 0..n2
      BY <1>2, <1>4
    <2> HIDE DEF S1
    <2> QED BY <2>1, <1>5, MostBy
  <1> DEFINE S2 == {y \in S1 : SourceOrder(y.source) = SourceOrder(x2.source)}
  <1>8. PICK x \in S2 : \A y \in S2 : f3[y] <= f3[x]
    <2>1. S2 # {} /\ \A y \in S2 : f3[y] \in 0..LastDoi
      BY <1>2, <1>4
    <2> HIDE DEF S2
    <2> QED BY <2>1, <1>5, MostBy
  <1>9. Best(x)
    <2> SUFFICES ASSUME NEW y \in S
                 PROVE  \/ y.score < x.score
                        \/ /\ y.score = x.score
                           /\ SourceOrder(y.source) < SourceOrder(x.source)
                        \/ y.score = x.score /\ y.source = x.source /\ y.doi <= x.doi
      OBVIOUS
    <2> DEFINE oy == SourceOrder(y.source)
               ox == SourceOrder(x.source)
    <2>1. x \in S /\ x.score = x1.score /\ ox = SourceOrder(x2.source)
      OBVIOUS
    <2>2. /\ y.score \in Nat /\ x.score \in Nat /\ oy \in Nat /\ ox \in Nat
          /\ y.doi \in Nat /\ x.doi \in Nat
      BY <1>2, <1>5, <2>1 DEF n1, n2
    <2>3. y.score <= x.score
      BY <1>4, <1>6, <2>1
    <2>4. y.score = x.score => oy <= ox
      BY <1>4, <1>7, <2>1
    <2>5. y.score = x.score /\ oy = ox => y.source = x.source /\ y.doi <= x.doi
      BY <1>3, <1>4, <1>8, <2>1
    <2> HIDE DEF oy, ox
    <2>6. y.score < x.score \/ (y.score = x.score /\ (oy < ox \/ oy = ox))
      BY <2>2, <2>3, <2>4
    <2> QED BY <2>5, <2>6 DEF oy, ox
  <1>10. (CHOOSE b \in S : Best(b)) \in S
    BY <1>9
  <1> QED BY <1>1, <1>10 DEF Guess
-----------------------------------------------------------------------------
(* What the server looks up.                                               *)
Lookup ==
    {x \in [doi: Doi, source: Automatic \cup {"explicit"}, score: 0..100,
            url: BOOLEAN, first: BOOLEAN] : x.source # "pdf-content" => ~x.first}

OnePerDoi(S) == \A x, y \in S : x.doi = y.doi => x = y

LEMMA FileLookup == FileCandidate \subseteq Lookup
  BY DEF FileCandidate, Lookup, Sources, Automatic

LEMMA KeyType ==
    ASSUME NEW x \in Lookup, NEW hint
    PROVE  \A i \in 1..6 : Key(x, hint)[i] \in Nat
  <1>1. Tier(x) \in Nat
    BY DEF Lookup, Automatic, Tier
  <1>2. 100 - x.score \in Nat /\ x.doi \in Nat
    <2>1. x.score \in 0..100 /\ x.doi \in Doi
      BY DEF Lookup
    <2>2. 100 - x.score \in Nat
      BY <2>1
    <2>3. x.doi \in Nat
      BY <2>1, IdentityAssumption DEF Doi
    <2> QED BY <2>2, <2>3
  <1> DEFINE t == Tier(x)
             s == 100 - x.score
  <1>3. Key(x, hint) = <<t, IF x.url THEN 1 ELSE 0,
                         IF x.source = "pdf-content" /\ ~x.first THEN 1 ELSE 0,
                         s, IF x.doi = hint THEN 0 ELSE 1, x.doi>>
    BY DEF Key
  <1> HIDE DEF t, s
  <1>4. t \in Nat /\ s \in Nat
    BY <1>1, <1>2 DEF t, s
  <1> DEFINE key == Key(x, hint)
  <1>5. /\ key[1] \in Nat /\ key[2] \in Nat /\ key[3] \in Nat
        /\ key[4] \in Nat /\ key[5] \in Nat /\ key[6] \in Nat
    BY <1>2, <1>3, <1>4
  <1>6. \A i \in 1..6 : i = 1 \/ i = 2 \/ i = 3 \/ i = 4 \/ i = 5 \/ i = 6
    OBVIOUS
  <1> HIDE DEF key
  <1>7. \A i \in 1..6 : key[i] \in Nat
    BY <1>5, <1>6
  <1> QED BY <1>7 DEF key

(* Candidates of one DOI that no key tells apart are one.                  *)
LEMMA KeyTells ==
    ASSUME NEW x \in Lookup, NEW y \in Lookup, NEW hint, x.doi = y.doi,
           \A i \in 1..6 : Key(x, hint)[i] = Key(y, hint)[i]
    PROVE  x = y
  <1> DEFINE kx == Key(x, hint)
             ky == Key(y, hint)
  <1>1. kx[1] = ky[1] /\ kx[2] = ky[2] /\ kx[3] = ky[3] /\ kx[4] = ky[4]
    OBVIOUS
  <1>2. /\ Tier(x) = Tier(y)
        /\ (IF x.url THEN 1 ELSE 0) = (IF y.url THEN 1 ELSE 0)
        /\ (IF x.source = "pdf-content" /\ ~x.first THEN 1 ELSE 0)
              = (IF y.source = "pdf-content" /\ ~y.first THEN 1 ELSE 0)
        /\ 100 - x.score = 100 - y.score
    BY <1>1 DEF Key
  <1>3. x.source = y.source
    BY <1>2 DEF Tier, Lookup, Automatic
  <1>4. x.url = y.url /\ x.first = y.first /\ x.score = y.score
    BY <1>2, <1>3 DEF Lookup
  <1> QED BY <1>3, <1>4 DEF Lookup

LEMMA BeforeTotal ==
    ASSUME NEW x \in Lookup, NEW y \in Lookup, NEW hint
    PROVE  \/ Before(Key(x, hint), Key(y, hint))
           \/ Before(Key(y, hint), Key(x, hint))
           \/ \A i \in 1..6 : Key(x, hint)[i] = Key(y, hint)[i]
  <1> DEFINE S == {x, y}
             key == [z \in S |-> Key(z, hint)]
  <1>1. \A z \in S : key[z] = Key(z, hint)
    OBVIOUS
  <1>2. \A z \in S, i \in 1..6 : key[z][i] \in Nat
    BY <1>1, KeyType
  <1>3. S # {}
    OBVIOUS
  <1> HIDE DEF key
  <1>4. PICK m \in S : \A z \in S : LexLeq(key[m], key[z])
    <2> HIDE DEF S
    <2> QED BY <1>2, <1>3, LexLeast
  <1> QED BY <1>1, <1>4 DEF LexLeq

LEMMA FirstIn ==
    ASSUME NEW S \in SUBSET Lookup, S # {}, OnePerDoi(S), NEW hint
    PROVE  First(S, hint) \in S
  <1> DEFINE key == [z \in S |-> Key(z, hint)]
             Best(m) == \A z \in S \ {m} : Before(Key(m, hint), Key(z, hint))
  <1>1. \A z \in S : key[z] = Key(z, hint)
    OBVIOUS
  <1>2. \A z \in S, i \in 1..6 : key[z][i] \in Nat
    BY <1>1, KeyType
  <1> HIDE DEF key
  <1>3. PICK m \in S : \A z \in S : LexLeq(key[m], key[z])
    BY <1>2, LexLeast
  <1>4. ASSUME NEW z \in S \ {m} PROVE Before(Key(m, hint), Key(z, hint))
    <2>1. LexLeq(Key(m, hint), Key(z, hint))
      BY <1>1, <1>3
    <2>2. ASSUME \A i \in 1..6 : Key(m, hint)[i] = Key(z, hint)[i] PROVE FALSE
      <3>1. Key(m, hint)[6] = Key(z, hint)[6]
        BY <2>2
      <3>2. m.doi = z.doi
        BY <3>1 DEF Key
      <3> QED BY <3>2 DEF OnePerDoi
    <2> QED BY <2>1, <2>2 DEF LexLeq
  <1>5. (CHOOSE b \in S : Best(b)) \in S
    BY <1>4
  <1> QED BY <1>5 DEF First

LEMMA OrderedOK ==
    ASSUME NEW all \in SUBSET Lookup, NEW hint
    PROVE  Ordered(all, hint) \subseteq all /\ OnePerDoi(Ordered(all, hint))
  <1>1. Ordered(all, hint) \subseteq all
    BY DEF Ordered
  <1>2. ASSUME NEW x \in Ordered(all, hint), NEW y \in Ordered(all, hint), x.doi = y.doi
        PROVE  x = y
    <2>1. /\ ~Before(Key(x, hint), Key(y, hint))
          /\ ~Before(Key(y, hint), Key(x, hint))
      BY <1>1, <1>2 DEF Ordered
    <2>2. x \in Lookup /\ y \in Lookup
      BY <1>1
    <2> QED BY <1>2, <2>1, <2>2, BeforeTotal, KeyTells
  <1> QED BY <1>1, <1>2 DEF OnePerDoi

LEMMA WithHintOK ==
    ASSUME NEW S \in SUBSET Lookup, NEW hint \in Doi \cup {NoDoi}, NEW by
    PROVE  /\ WithHint(S, hint, by) \subseteq Lookup
           /\ \A x \in WithHint(S, hint, by) : x.source = "explicit" => x \in S
  <1> DEFINE source == IF by \in Automatic THEN by ELSE "pdf-content"
             more == Candidate(hint, source, 80)
  <1>1. WithHint(S, hint, by) \subseteq S \cup {more} /\ (hint = NoDoi => WithHint(S, hint, by) = S)
    BY DEF WithHint
  <1>2. source \in Automatic /\ source # "explicit"
    BY DEF Automatic
  <1>3. hint \in Doi => more \in Lookup /\ more.source # "explicit"
    <2> HIDE DEF source
    <2> QED BY <1>2 DEF Candidate, Lookup
  <1> HIDE DEF more
  <1> QED BY <1>1, <1>3
-----------------------------------------------------------------------------
(* The types.                                                              *)
Whys  == {"none", "candidate", "printed", "search", "trusted", "embedded", "refresh"}
Hows  == Whys \cup {"verified", "pending", "unchecked", "known", "ok"}
Bys   == Automatic \cup {"user", "csv-trusted"} \cup Hows
Metas == {"ok", "pending", "not_found", "unavailable", "skipped"}

CandidateSet ==
    [doi: Doi \cup {NoDoi}, source: Automatic \cup {"explicit", "csv-trusted", "none"},
     score: 0..100, url: BOOLEAN, first: BOOLEAN]

AnswerType == [status: {"none", "stored", "verified", "review", "unavailable", "conflict"},
               doi: Doi \cup {NoDoi}, how: Hows]

Asking == {"wait", "asleep", "asked"}
Going  == {"next"} \cup Asking

ReqType ==
    [pc: {"idle", "parse", "store", "answered"} \cup Going, kind: {"none", "upload", "verify"},
     body: Content, sha: Content, hint: Doi \cup {NoDoi}, by: Bys, skip: BOOLEAN,
     left: SUBSET Lookup, now: CandidateSet,
     at: {"none", "crossref", "doi.org", "semantic-scholar"}, why: Whys,
     down: BOOLEAN, known: BOOLEAN, lost: SUBSET Doi, fits: SUBSET Doi,
     doi: Doi \cup {NoDoi}, how: Hows, meta: Metas \cup {"none"}, answer: AnswerType]

RowType == [title: Work \cup {NoWork}, status: Metas \cup {"none"}, of: Content]

Writing == {"lock", "backup", "copy", "assert", "replace"}
Early   == {"hash", "inspect", "verify", "receipt", "rehash"} \cup Writing

CmdType ==
    [pc: Early \cup {"idle", "probe", "check", "prepare", "send", "sent", "done"},
     mode: Modes, file: File, sha: Content, doi: Doi \cup {NoDoi}, by: Bys,
     fast: BOOLEAN, wrote: BOOLEAN, tries: Nat,
     outcome: {"none", "existing", "stored", "review", "failed"}]

Types ==
    /\ req \in [Cmd -> ReqType] /\ cmd \in [Cmd -> CmdType]
    /\ row \in [Doi -> RowType]
    /\ bound \subseteq [body: Content, doi: Doi]
    /\ file \in [File -> Content] /\ lock \in [File -> Cmd \cup {Free}]
    /\ active = Cardinality({c \in Cmd : req[c].pc = "asked"})

(* The DOIs that --write-doi may write into a file: it must be one.        *)
Own(p) == {d \in Printed(p) : Confirms(p, d)}

UserSaid(k, d) == k.paper \in File /\ d = Said[k.paper]

(* Before the intake a request knows only what its command said.           *)
ReqOK(r, B) ==
    /\ r.pc # "idle" => r.kind \in {"upload", "verify"}
    /\ r.pc # "answered" => r.answer = NoAnswer
    /\ r.pc = "parse" => r.left = {} /\ r.fits = {} /\ ~r.down
    /\ r.pc = "parse" /\ r.by = "user" => UserSaid(r.sha, r.hint)
    /\ r.pc = "parse" /\ Trusted(r) => r.hint \in Doi

(* Whom it asks, and for which DOI; each DOI is looked up once.             *)
AskOK(r) ==
    /\ r.pc \in Asking =>
          /\ r.why # "none" /\ (r.why = "printed" <=> r.kind = "verify")
          /\ r.why = "search" => Searchable(PaperOf(r))
          /\ r.why # "search" => r.now.doi \in Doi
          /\ r.why = "candidate" =>
                r.now \in Lookup /\ (r.now.source = "explicit" => UserSaid(r.body, r.now.doi))
    /\ OnePerDoi(r.left)
    /\ \A x \in r.left : x.source = "explicit" => UserSaid(r.body, x.doi)

(* A verification: every DOI of its own that was printed has fitted, or is  *)
(* still to be asked for, unless an answer was lost.                        *)
VerifyOK(r) ==
    r.kind = "verify" /\ r.pc \in Going =>
       /\ Info(r.body) = {}
       /\ r.left \subseteq {Candidate(d, "pdf-content", 0) : d \in Printed(PaperOf(r))}
       /\ r.fits \subseteq Own(PaperOf(r))
       /\ r.pc \in Asking => r.at = "crossref" /\ r.now.doi \in Printed(PaperOf(r))
       /\ \/ r.down
          \/ \A d \in Own(PaperOf(r)) :
                \/ d \in r.fits
                \/ \E x \in r.left : x.doi = d
                \/ r.pc \in Asking /\ r.now.doi = d

(* What is about to be stored, and the rows that are only refreshed.        *)
StoreOK(r, B) ==
    /\ r.pc = "store" =>
          /\ r.kind = "upload" /\ r.doi \in Doi /\ r.meta \in Metas
    /\ r.why = "refresh" =>
          LET d == IF r.pc = "store" THEN r.doi ELSE r.now.doi
          IN  /\ r.pc \in Asking \cup {"store"}
              /\ [body |-> r.body, doi |-> d] \in B
              /\ Info(r.body) \subseteq {d} \/ Trusted(r)

(* What an answer promises.                                                *)
AnswerOK(r, B) ==
    /\ r.answer.status = "stored" =>
          /\ [body |-> r.body, doi |-> r.answer.doi] \in B
          /\ Info(r.body) \subseteq {r.answer.doi} \/ Trusted(r)
    /\ r.answer.status = "verified" =>
          Own(PaperOf(r)) = {r.answer.doi} /\ Info(r.body) = {}

RequestOK(r, B) == ReqOK(r, B) /\ AskOK(r) /\ VerifyOK(r) /\ StoreOK(r, B) /\ AnswerOK(r, B)

(* A command and the request it has made.                                  *)
LinkOK(k, r) ==
    /\ k.pc \in {"receipt", "sent"} <=> r.pc # "idle"
    /\ k.pc = "receipt" => r.kind = "verify"
    /\ k.pc = "sent" => r.kind = "upload" /\ r.by = k.by
    /\ r.pc = "parse" => r.sha = k.sha
    /\ r.pc \notin {"idle", "parse"} /\ r.answer.status # "conflict" => r.body = k.sha

CmdOK(k, B, kept) ==
    /\ k.pc \in Writing => Own(Of(k.sha)) = {k.doi} /\ k.sha.tag = NoDoi
    /\ k.pc \in {"assert", "replace"} => [file |-> k.file, of |-> k.sha, whole |-> TRUE] \in kept
    /\ k.wrote => /\ k.mode = "write" /\ k.sha.tag \in Doi
                  /\ k.pc \in {"rehash", "prepare", "send", "sent", "done"}
    /\ k.pc \in Writing \cup {"inspect", "verify", "receipt", "rehash"} => k.mode = "write"
    /\ k.mode = "write" => ~k.fast
    /\ k.by = "csv-trusted" => k.doi \in Doi
    /\ k.pc \notin {"idle", "done"} => (k.by = "csv-trusted" <=> k.mode = "trusted")
    /\ k.pc \in Early /\ ~k.fast => k.by \in {"none", "csv-trusted"}
    /\ k.pc = "probe" => k.by = "none" /\ k.mode \in {"upload", "user"}
    /\ k.pc = "check" => k.doi \in Doi /\ k.mode # "write"
    /\ k.by = "user" => k.pc \in {"send", "sent", "done"}
    /\ k.pc \in {"send", "sent"} /\ k.by = "user" => k.sha.paper = k.file /\ k.doi = Said[k.file]
    /\ k.pc # "done" => k.outcome = "none"
    /\ k.outcome = "stored" /\ k.wrote => [body |-> k.sha, doi |-> k.sha.tag] \in B

(* The rows.                                                               *)
RowsOK ==
    /\ \A d \in Doi : row[d] = NoRow <=> d \notin {b.doi : b \in bound}
    /\ \A d \in Doi : row[d].status = "none" => row[d] = NoRow

IInv ==
    /\ Types
    /\ \A c \in Cmd : /\ RequestOK(req[c], bound)
                      /\ LinkOK(cmd[c], req[c])
                      /\ CmdOK(cmd[c], bound, backup)
    /\ RowsOK
    /\ WrittenIsSole /\ OriginalKept
-----------------------------------------------------------------------------
(* What the operators make of a request.                                   *)
LEMMA NoBodyType == NoBody \in Content
  <1>1. \E p \in Paper : TRUE
    BY WritebackAssumption
  <1>2. (CHOOSE p \in Paper : TRUE) \in Paper
    BY <1>1
  <1> QED BY <1>2 DEF NoBody, Content

LEMMA NoneType == None \in CandidateSet
  BY DEF None, Candidate, CandidateSet

LEMMA NoRequestType == NoRequest \in ReqType
  <1> DEFINE none == None
             body == NoBody
  <1>1. none \in CandidateSet /\ body \in Content
    BY NoneType, NoBodyType
  <1>2. NoRequest = [pc |-> "idle", kind |-> "none", body |-> body, sha |-> body,
              hint |-> NoDoi, by |-> "none", skip |-> FALSE,
              left |-> {}, now |-> none, at |-> "none", why |-> "none",
              down |-> FALSE, known |-> FALSE, lost |-> {}, fits |-> {},
              doi |-> NoDoi, how |-> "none", meta |-> "none", answer |-> NoAnswer]
    BY DEF NoRequest
  <1>3. NoAnswer \in AnswerType
    BY DEF NoAnswer, AnswerType, Hows, Whys
  <1> HIDE DEF none, body
  <1>4. "none" \in Bys /\ "none" \in Whys /\ "none" \in Hows
    BY DEF Bys, Whys, Hows
  <1> QED BY <1>1, <1>2, <1>3, <1>4 DEF ReqType

LEMMA DoneIs ==
    ASSUME NEW r \in ReqType, NEW a \in AnswerType
    PROVE  LET r2 == Done(r, a.status, a.doi, a.how)
           IN  /\ r2 \in ReqType
               /\ r2.pc = "answered" /\ r2.kind = r.kind /\ r2.body = r.body /\ r2.by = r.by
               /\ r2.left = {} /\ r2.fits = {} /\ r2.why = "none" /\ r2.answer = a
  <1> DEFINE r2 == [NoRequest EXCEPT !.pc = "answered", !.kind = r.kind, !.body = r.body, !.by = r.by, !.answer = a]
  <1>1. r2 \in ReqType
    BY NoRequestType DEF ReqType
  <1>2. /\ r2.pc = "answered" /\ r2.kind = r.kind /\ r2.body = r.body /\ r2.by = r.by
        /\ r2.answer = a
    BY NoRequestType DEF ReqType
  <1>3. r2.left = {} /\ r2.fits = {} /\ r2.why = "none"
    BY NoRequestType DEF ReqType, NoRequest
  <1>4. [status |-> a.status, doi |-> a.doi, how |-> a.how] = a
    BY DEF AnswerType
  <1> HIDE DEF r2
  <1>5. Done(r, a.status, a.doi, a.how) = r2
    BY <1>4 DEF Done, r2
  <1> QED BY <1>1, <1>2, <1>3, <1>5

LEMMA AskIs ==
    ASSUME NEW r \in ReqType, NEW x \in CandidateSet, NEW why \in Whys
    PROVE  LET r2 == Ask(r, x, why)
           IN  /\ r2 \in ReqType
               /\ r2.pc = "wait" /\ r2.now = x /\ r2.at = "crossref" /\ r2.why = why
               /\ r2.kind = r.kind /\ r2.body = r.body /\ r2.by = r.by /\ r2.left = r.left
               /\ r2.fits = r.fits /\ r2.down = r.down /\ r2.answer = r.answer
  BY DEF Ask, ReqType, Going, Asking

LEMMA AcceptedIs ==
    ASSUME NEW r \in ReqType, NEW d \in Doi, NEW how \in Hows, NEW meta \in Metas
    PROVE  LET r2 == Accepted(r, d, how, meta)
           IN  /\ r2 \in ReqType
               /\ r2.pc = "store" /\ r2.doi = d /\ r2.how = how /\ r2.meta = meta
               /\ r2.kind = r.kind /\ r2.body = r.body /\ r2.by = r.by /\ r2.left = r.left
               /\ r2.why = r.why /\ r2.answer = r.answer
  BY DEF Accepted, ReqType
-----------------------------------------------------------------------------
(* What a step of the server makes of a request.                           *)
Follows(r, r2) ==
    /\ r2 \in ReqType /\ r2.pc \notin {"idle", "parse"}
    /\ r2.kind = r.kind /\ r2.by = r.by
    /\ r2.answer.status # "conflict" => r2.body = r.body /\ (r.pc = "parse" => r.body = r.sha)

LEMMA FollowsLink ==
    ASSUME NEW k, NEW r, NEW r2, NEW B, LinkOK(k, r), RequestOK(r, B), Follows(r, r2),
           r.pc \notin {"idle", "answered"}
    PROVE  LinkOK(k, r2)
  <1>1. r.answer.status # "conflict"
    BY DEF RequestOK, ReqOK, NoAnswer
  <1> QED BY <1>1 DEF LinkOK, Follows

LEMMA RequestMono ==
    ASSUME NEW r, NEW B, NEW B2, B \subseteq B2, RequestOK(r, B)
    PROVE  RequestOK(r, B2)
  BY DEF RequestOK, ReqOK, StoreOK, AnswerOK

LEMMA CmdMono ==
    ASSUME NEW k \in CmdType, NEW B, NEW B2, NEW K, NEW K2,
           CmdOK(k, B, K), B \subseteq B2, \A x \in K : x.whole => x \in K2
    PROVE  CmdOK(k, B2, K2)
  <1>1. k.sha \in Content
    BY DEF CmdType
  <1>2. k.pc \in {"assert", "replace"} => [file |-> k.file, of |-> k.sha, whole |-> TRUE] \in K2
    BY DEF CmdOK
  <1> QED BY <1>1, <1>2 DEF CmdOK

LEMMA DoneOK ==
    ASSUME NEW r \in ReqType, r.kind \in {"upload", "verify"}, NEW a \in AnswerType, NEW B,
           a.status # "conflict" /\ r.pc = "parse" => r.body = r.sha,
           a.status = "stored" => /\ [body |-> r.body, doi |-> a.doi] \in B
                                  /\ Info(r.body) \subseteq {a.doi} \/ Trusted(r),
           a.status = "verified" => Own(PaperOf(r)) = {a.doi} /\ Info(r.body) = {}
    PROVE  LET r2 == Done(r, a.status, a.doi, a.how) IN Follows(r, r2) /\ RequestOK(r2, B)
  <1> DEFINE r2 == Done(r, a.status, a.doi, a.how)
  <1>1. /\ r2 \in ReqType
        /\ r2.pc = "answered" /\ r2.kind = r.kind /\ r2.body = r.body /\ r2.by = r.by
        /\ r2.left = {} /\ r2.fits = {} /\ r2.why = "none" /\ r2.answer = a
    BY DoneIs
  <1> HIDE DEF r2
  <1>2. Follows(r, r2)
    BY <1>1 DEF Follows
  <1>3. ReqOK(r2, B) /\ AskOK(r2) /\ VerifyOK(r2) /\ StoreOK(r2, B)
    BY <1>1 DEF ReqOK, AskOK, VerifyOK, StoreOK, Asking, Going, OnePerDoi
  <1>4. AnswerOK(r2, B)
    BY <1>1 DEF AnswerOK, Trusted, PaperOf
  <1> QED BY <1>2, <1>3, <1>4 DEF RequestOK, r2

(* An answer that says nothing of a DOI.                                   *)
LEMMA PlainDone ==
    ASSUME NEW r \in ReqType, r.kind \in {"upload", "verify"}, NEW B,
           NEW status \in {"review", "unavailable", "conflict"},
           status # "conflict" /\ r.pc = "parse" => r.body = r.sha
    PROVE  LET r2 == Done(r, status, NoDoi, "none") IN Follows(r, r2) /\ RequestOK(r2, B)
  <1> DEFINE a == [status |-> status, doi |-> NoDoi, how |-> "none"]
  <1>1. a \in AnswerType /\ a.status = status /\ a.doi = NoDoi /\ a.how = "none"
    BY DEF AnswerType, Hows, Whys
  <1> HIDE DEF a
  <1> QED BY <1>1, DoneOK

LEMMA RefusedOK ==
    ASSUME NEW r \in ReqType, r.kind \in {"upload", "verify"}, NEW B,
           r.pc = "parse" => r.body = r.sha
    PROVE  Follows(r, Refused(r)) /\ RequestOK(Refused(r), B)
  BY PlainDone DEF Refused

LEMMA UploadAsks ==
    ASSUME NEW r \in ReqType, NEW B, RequestOK(r, B), r.kind = "upload", r.pc \in {"parse", "next"},
           r.pc = "parse" => r.body = r.sha,
           NEW x \in CandidateSet, NEW why \in Whys \ {"none", "printed"},
           why = "search" => Searchable(PaperOf(r)),
           why # "search" => x.doi \in Doi,
           why = "candidate" => x \in Lookup /\ (x.source = "explicit" => UserSaid(r.body, x.doi)),
           why = "refresh" => /\ [body |-> r.body, doi |-> x.doi] \in B
                              /\ Info(r.body) \subseteq {x.doi} \/ Trusted(r)
    PROVE  Follows(r, Ask(r, x, why)) /\ RequestOK(Ask(r, x, why), B)
  <1> DEFINE r2 == Ask(r, x, why)
  <1>1. /\ r2 \in ReqType
        /\ r2.pc = "wait" /\ r2.now = x /\ r2.at = "crossref" /\ r2.why = why
        /\ r2.kind = r.kind /\ r2.body = r.body /\ r2.by = r.by /\ r2.left = r.left
        /\ r2.fits = r.fits /\ r2.down = r.down /\ r2.answer = r.answer
    BY AskIs
  <1> HIDE DEF r2
  <1>2. r.answer = NoAnswer
    BY DEF RequestOK, ReqOK
  <1>3. Follows(r, r2)
    BY <1>1, <1>2 DEF Follows, NoAnswer
  <1>4. ReqOK(r2, B) /\ VerifyOK(r2)
    BY <1>1, <1>2 DEF ReqOK, VerifyOK
  <1>5. AskOK(r2)
    BY <1>1 DEF RequestOK, AskOK, Asking, PaperOf
  <1>6. StoreOK(r2, B)
    BY <1>1 DEF StoreOK, Asking, Trusted
  <1>7. AnswerOK(r2, B)
    BY <1>1, <1>2 DEF AnswerOK, NoAnswer
  <1> QED BY <1>3, <1>4, <1>5, <1>6, <1>7 DEF RequestOK, r2

LEMMA Accepts ==
    ASSUME NEW r \in ReqType, NEW B, RequestOK(r, B), r.kind = "upload",
           r.pc \in {"parse"} \cup Going, r.pc = "parse" => r.body = r.sha,
           NEW d \in Doi, NEW how \in Hows, NEW meta \in Metas,
           r.why = "refresh" => /\ [body |-> r.body, doi |-> d] \in B
                                /\ Info(r.body) \subseteq {d} \/ Trusted(r)
    PROVE  LET r2 == Accepted(r, d, how, meta) IN Follows(r, r2) /\ RequestOK(r2, B)
  <1> DEFINE r2 == Accepted(r, d, how, meta)
  <1>1. /\ r2 \in ReqType
        /\ r2.pc = "store" /\ r2.doi = d /\ r2.how = how /\ r2.meta = meta
        /\ r2.kind = r.kind /\ r2.body = r.body /\ r2.by = r.by /\ r2.left = r.left
        /\ r2.why = r.why /\ r2.answer = r.answer
    BY AcceptedIs
  <1> HIDE DEF r2
  <1>2. r.answer = NoAnswer
    BY DEF RequestOK, ReqOK, Going, Asking
  <1>3. Follows(r, r2)
    BY <1>1, <1>2 DEF Follows, NoAnswer
  <1>4. ReqOK(r2, B) /\ VerifyOK(r2)
    BY <1>1, <1>2 DEF ReqOK, VerifyOK
  <1>5. AskOK(r2)
    BY <1>1 DEF RequestOK, AskOK, Asking, PaperOf
  <1>6. StoreOK(r2, B)
    BY <1>1 DEF StoreOK, Asking, Trusted, PaperOf
  <1>7. AnswerOK(r2, B)
    BY <1>1, <1>2 DEF AnswerOK, NoAnswer
  <1> QED BY <1>3, <1>4, <1>5, <1>6, <1>7 DEF RequestOK, r2
-----------------------------------------------------------------------------
(* What a step of the server leaves alone.                                 *)
LEMMA ServerFrame ==
    ASSUME IInv, UNCHANGED <<cmd, file, lock, backup>>,
           req' \in [Cmd -> ReqType],
           \A x \in Cmd : RequestOK(req'[x], bound') /\ LinkOK(cmd[x], req'[x]),
           active' = Cardinality({x \in Cmd : req'[x].pc = "asked"}),
           row' \in [Doi -> RowType], bound \subseteq bound',
           bound' \subseteq [body: Content, doi: Doi], RowsOK'
    PROVE  IInv'
  <1>1. Types'
    BY DEF IInv, Types
  <1>2. ASSUME NEW x \in Cmd PROVE CmdOK(cmd[x], bound', backup)
    <2>1. cmd[x] \in CmdType /\ CmdOK(cmd[x], bound, backup)
      BY DEF IInv, Types
    <2> QED BY <2>1, CmdMono
  <1>3. WrittenIsSole' /\ OriginalKept'
    BY DEF IInv, WrittenIsSole, OriginalKept
  <1> QED BY <1>1, <1>2, <1>3 DEF IInv

(* A step that changes one request, and asks nobody.                       *)
LEMMA OneRequest ==
    ASSUME IInv, UNCHANGED <<cmd, file, lock, backup, active, row, bound>>,
           NEW c \in Cmd, NEW r2, req' = [req EXCEPT ![c] = r2],
           req[c].pc \notin {"idle", "answered", "asked"}, r2.pc # "asked",
           Follows(req[c], r2), RequestOK(r2, bound)
    PROVE  IInv'
  <1>1. req' \in [Cmd -> ReqType] /\ \A x \in Cmd : req'[x] = IF x = c THEN r2 ELSE req[x]
    BY DEF IInv, Types, Follows
  <1>2. \A x \in Cmd : RequestOK(req'[x], bound') /\ LinkOK(cmd[x], req'[x])
    BY <1>1, FollowsLink DEF IInv
  <1>3. {x \in Cmd : req'[x].pc = "asked"} = {x \in Cmd : req[x].pc = "asked"}
    BY <1>1
  <1>4. active' = Cardinality({x \in Cmd : req'[x].pc = "asked"})
    BY <1>3 DEF IInv, Types
  <1>5. row' \in [Doi -> RowType] /\ bound' \subseteq [body: Content, doi: Doi]
    BY DEF IInv, Types
  <1>6. RowsOK'
    BY DEF IInv, RowsOK
  <1> QED BY <1>1, <1>2, <1>4, <1>5, <1>6, ServerFrame

LEMMA NextCandidateKeeps ==
    ASSUME IInv, NEW c \in Cmd, NextCandidate(c), UNCHANGED <<cmd, file, lock, backup>>
    PROVE  IInv'
  <1> DEFINE r == req[c]
             best == First(r.left, r.hint)
             why == IF r.kind = "verify" THEN "printed" ELSE "candidate"
             less == [r EXCEPT !.left = @ \ {best}]
             r2 == Ask(less, best, why)
  <1>0. req \in [Cmd -> ReqType]
    BY DEF IInv, Types
  <1>1. /\ r \in ReqType /\ RequestOK(r, bound) /\ r.pc = "next" /\ r.left # {}
        /\ req' = [req EXCEPT ![c] = r2] /\ UNCHANGED <<active, row, bound>>
    <2>1. r \in ReqType /\ RequestOK(r, bound)
      BY <1>0 DEF IInv
    <2>2. r.pc = "next" /\ r.left # {} /\ UNCHANGED <<active, row, bound>>
      BY DEF NextCandidate
    <2>3. req' = [req EXCEPT ![c] = r2]
      BY DEF NextCandidate
    <2> QED BY <2>1, <2>2, <2>3
  <1>2. best \in r.left /\ best \in Lookup
    BY <1>1, FirstIn DEF RequestOK, AskOK, ReqType
  <1>3. best \in CandidateSet /\ best.doi \in Doi
    BY <1>2 DEF Lookup, CandidateSet
  <1> HIDE DEF best
  <1>4. /\ less \in ReqType /\ less.pc = "next" /\ less.left = r.left \ {best}
        /\ less.kind = r.kind /\ less.body = r.body /\ less.by = r.by /\ less.fits = r.fits
        /\ less.down = r.down /\ less.answer = r.answer /\ less.why = r.why
    BY <1>1 DEF ReqType
  <1> HIDE DEF less
  <1>5. r.kind \in {"upload", "verify"} /\ r.answer = NoAnswer
    BY <1>1 DEF RequestOK, ReqOK
  <1>6. OnePerDoi(less.left) /\ \A x \in less.left : x.source = "explicit" => UserSaid(less.body, x.doi)
    BY <1>1, <1>4 DEF RequestOK, AskOK, OnePerDoi
  <1>7. CASE r.kind = "upload"
    <2>1. RequestOK(less, bound)
      BY <1>1, <1>4, <1>5, <1>6, <1>7
         DEF RequestOK, ReqOK, AskOK, VerifyOK, StoreOK, AnswerOK, Asking, NoAnswer
    <2>2. best.source = "explicit" => UserSaid(less.body, best.doi)
      BY <1>1, <1>2, <1>4 DEF RequestOK, AskOK
    <2>3. why = "candidate" /\ "candidate" \in Whys \ {"none", "printed"}
      BY <1>7 DEF Whys
    <2> HIDE DEF why
    <2>4. Follows(less, r2) /\ RequestOK(r2, bound)
      BY <1>1, <1>2, <1>3, <1>4, <1>7, <2>1, <2>2, <2>3, UploadAsks
    <2>5. r2.pc = "wait"
      BY <1>3, <1>4, <2>3, AskIs
    <2> HIDE DEF r2
    <2>6. Follows(r, r2)
      BY <1>1, <1>4, <2>4 DEF Follows
    <2> QED BY <1>1, <2>4, <2>5, <2>6, OneRequest
  <1>8. CASE r.kind = "verify"
    <2>1. why = "printed" /\ why \in Whys
      BY <1>8 DEF Whys
    <2>2. /\ r2 \in ReqType
          /\ r2.pc = "wait" /\ r2.now = best /\ r2.at = "crossref" /\ r2.why = "printed"
          /\ r2.kind = r.kind /\ r2.body = r.body /\ r2.by = r.by /\ r2.left = less.left
          /\ r2.fits = r.fits /\ r2.down = r.down /\ r2.answer = r.answer
      BY <1>3, <1>4, <2>1, AskIs
    <2> HIDE DEF r2, why
    <2>3. Follows(r, r2)
      BY <1>1, <1>5, <2>2 DEF Follows, NoAnswer
    <2>4. ReqOK(r2, bound) /\ AskOK(r2)
      BY <1>3, <1>5, <1>6, <1>8, <1>4, <2>2 DEF ReqOK, AskOK, Asking
    <2>5. /\ Info(r.body) = {} /\ r.fits \subseteq Own(PaperOf(r))
          /\ r.left \subseteq {Candidate(d, "pdf-content", 0) : d \in Printed(PaperOf(r))}
          /\ r.down \/ \A d \in Own(PaperOf(r)) : d \in r.fits \/ \E x \in r.left : x.doi = d
      BY <1>1, <1>8 DEF RequestOK, VerifyOK, Going, Asking
    <2>6. best.doi \in Printed(PaperOf(r))
      BY <1>2, <2>5 DEF Candidate
    <2>7. VerifyOK(r2)
      BY <1>4, <2>2, <2>5, <2>6 DEF VerifyOK, PaperOf, Asking, Going
    <2>8. StoreOK(r2, bound) /\ AnswerOK(r2, bound)
      BY <1>5, <2>2 DEF StoreOK, AnswerOK, NoAnswer
    <2>9. RequestOK(r2, bound)
      BY <2>4, <2>7, <2>8 DEF RequestOK
    <2> QED BY <1>1, <2>2, <2>3, <2>9, OneRequest
  <1> QED BY <1>5, <1>7, <1>8

LEMMA SettleKeeps ==
    ASSUME IInv, NEW c \in Cmd, Settle(c), UNCHANGED <<cmd, file, lock, backup>>
    PROVE  IInv'
  <1> DEFINE r == req[c]
             p == PaperOf(r)
  <1>1. /\ r \in ReqType /\ RequestOK(r, bound) /\ r.pc = "next" /\ r.kind = "upload"
        /\ UNCHANGED <<active, row, bound>>
    BY DEF IInv, Types, Settle
  <1>2. r.body \in Content /\ r.lost \subseteq Doi /\ r.why \in Whys
    BY <1>1 DEF ReqType
  <1>3. CASE \E d \in PendingDois(p, r.lost) :
                req' = [req EXCEPT ![c] = Accepted(@, d, "pending", "pending")]
    <2> PICK d \in PendingDois(p, r.lost) :
                req' = [req EXCEPT ![c] = Accepted(@, d, "pending", "pending")]
      BY <1>3
    <2>1. d \in PendingDois(p, Doi) /\ d \in Doi
      BY <1>2 DEF PendingDois
    <2>2. r.why # "refresh"
      BY <1>1 DEF RequestOK, StoreOK, Asking
    <2> DEFINE r2 == Accepted(r, d, "pending", "pending")
    <2>3. Follows(r, r2) /\ RequestOK(r2, bound)
      BY <1>1, <2>1, <2>2, Accepts DEF Going, Hows, Metas
    <2>4. r2.pc = "store"
      BY <1>1, <2>1, AcceptedIs DEF Hows, Metas
    <2> QED BY <1>1, <2>3, <2>4, OneRequest
  <1>4. CASE /\ Searchable(p) /\ ~Explicit(r) /\ r.why # "search"
             /\ req' = [req EXCEPT ![c] = Ask(@, None, "search")]
    <2> DEFINE r2 == Ask(r, None, "search")
    <2>1. "search" \in Whys \ {"none", "printed"} /\ "search" \in Whys
      BY DEF Whys
    <2>2. Follows(r, r2) /\ RequestOK(r2, bound)
      BY <1>1, <1>4, <2>1, NoneType, UploadAsks
    <2>3. r2.pc = "wait"
      BY <1>1, <2>1, NoneType, AskIs
    <2> QED BY <1>1, <1>4, <2>2, <2>3, OneRequest
  <1>5. CASE \/ req' = [req EXCEPT ![c] = Done(@, "unavailable", NoDoi, "none")]
             \/ req' = [req EXCEPT ![c] = Refused(@)]
    <2> DEFINE r2 == Done(r, "unavailable", NoDoi, "none")
               r3 == Refused(r)
    <2>1. Follows(r, r2) /\ RequestOK(r2, bound) /\ r2.pc # "asked"
      BY <1>1, PlainDone, NoRequestType DEF Done, ReqType
    <2>2. Follows(r, r3) /\ RequestOK(r3, bound) /\ r3.pc # "asked"
      BY <1>1, RefusedOK, NoRequestType DEF Done, Refused, ReqType
    <2> QED BY <1>1, <1>5, <2>1, <2>2, OneRequest
  <1> QED BY <1>3, <1>4, <1>5 DEF Settle

LEMMA ReceiptKeeps ==
    ASSUME IInv, NEW c \in Cmd, Receipt(c), UNCHANGED <<cmd, file, lock, backup>>
    PROVE  IInv'
  <1> DEFINE r == req[c]
             p == PaperOf(r)
             own == CHOOSE d \in r.fits : TRUE
  <1>1. /\ r \in ReqType /\ RequestOK(r, bound) /\ r.pc = "next" /\ r.kind = "verify"
        /\ r.left = {} /\ UNCHANGED <<active, row, bound>>
    BY DEF IInv, Types, Receipt
  <1>2. CASE /\ Certified(r)
             /\ req' = [req EXCEPT ![c] = Done(@, "verified", own, "ok")]
    <2>1. r.fits \in SUBSET Doi /\ Cardinality(r.fits) = 1 /\ ~r.down
      BY <1>1, <1>2 DEF ReqType, Certified
    <2>2. IsFiniteSet(r.fits)
      <3>1. IsFiniteSet(Doi)
        BY IdentityAssumption, FS_Interval DEF Doi
      <3> QED BY <2>1, <3>1, FS_Subset
    <2>3. PICK d : r.fits = {d}
      BY <2>1, <2>2, FS_Singleton
    <2>4. own = d /\ d \in Doi
      BY <2>1, <2>3
    <2>5. r.fits \subseteq Own(p) /\ Info(r.body) = {}
          /\ (r.down \/ \A x \in Own(p) : x \in r.fits)
      BY <1>1 DEF RequestOK, VerifyOK, Going, Asking
    <2>6. Own(p) = {d}
      BY <2>1, <2>3, <2>5
    <2> DEFINE a == [status |-> "verified", doi |-> d, how |-> "ok"]
    <2>7. a \in AnswerType /\ a.status = "verified" /\ a.doi = d /\ a.how = "ok"
      BY <2>4 DEF AnswerType, Hows
    <2> HIDE DEF a
    <2> DEFINE r2 == Done(r, "verified", d, "ok")
    <2>8. Follows(r, r2) /\ RequestOK(r2, bound)
      BY <1>1, <2>5, <2>6, <2>7, DoneOK
    <2>9. r2.pc # "asked"
      BY NoRequestType DEF Done, ReqType
    <2> QED BY <1>1, <1>2, <2>4, <2>8, <2>9, OneRequest
  <1>3. CASE \/ req' = [req EXCEPT ![c] = Done(@, "unavailable", NoDoi, "none")]
             \/ req' = [req EXCEPT ![c] = Refused(@)]
    <2> DEFINE r2 == Done(r, "unavailable", NoDoi, "none")
               r3 == Refused(r)
    <2>1. Follows(r, r2) /\ RequestOK(r2, bound) /\ r2.pc # "asked"
      BY <1>1, PlainDone, NoRequestType DEF Done, ReqType
    <2>2. Follows(r, r3) /\ RequestOK(r3, bound) /\ r3.pc # "asked"
      BY <1>1, RefusedOK, NoRequestType DEF Done, Refused, ReqType
    <2> QED BY <1>1, <1>3, <2>1, <2>2, OneRequest
  <1> QED BY <1>2, <1>3 DEF Receipt
-----------------------------------------------------------------------------
(* Slots.                                                                  *)
LEMMA PcChange ==
    ASSUME NEW r \in ReqType, NEW B, RequestOK(r, B), r.pc \in Asking, NEW pc \in Asking
    PROVE  LET r2 == [r EXCEPT !.pc = pc]
           IN  RequestOK(r2, B) /\ Follows(r, r2) /\ r2.pc = pc
  <1> DEFINE r2 == [r EXCEPT !.pc = pc]
  <1>1. /\ r2 \in ReqType /\ r2.pc = pc
        /\ r2.now = r.now /\ r2.at = r.at /\ r2.why = r.why /\ r2.doi = r.doi
        /\ r2.kind = r.kind /\ r2.body = r.body /\ r2.by = r.by /\ r2.left = r.left
        /\ r2.fits = r.fits /\ r2.down = r.down /\ r2.answer = r.answer
    BY DEF ReqType, Going, Asking
  <1> HIDE DEF r2
  <1>2. r.answer = NoAnswer
    BY DEF RequestOK, ReqOK, Asking
  <1>3. ReqOK(r2, B) /\ AskOK(r2) /\ VerifyOK(r2)
    BY <1>1 DEF RequestOK, ReqOK, AskOK, VerifyOK, PaperOf, Going, Asking
  <1>4. StoreOK(r2, B) /\ AnswerOK(r2, B)
    BY <1>1, <1>2 DEF RequestOK, StoreOK, AnswerOK, NoAnswer, Trusted, Asking
  <1>5. Follows(r, r2)
    BY <1>1, <1>2 DEF Follows, NoAnswer, Asking
  <1> QED BY <1>1, <1>3, <1>4, <1>5 DEF RequestOK, r2

LEMMA TakeSlotKeeps ==
    ASSUME IInv, NEW c \in Cmd, TakeSlot(c), UNCHANGED <<cmd, file, lock, backup>>
    PROVE  IInv'
  <1> DEFINE r == req[c]
             r2 == [r EXCEPT !.pc = "asked"]
             asked == {x \in Cmd : req[x].pc = "asked"}
  <1>1. /\ r \in ReqType /\ RequestOK(r, bound) /\ r.pc = "wait"
        /\ req' = [req EXCEPT ![c] = r2]
        /\ active' = active + 1 /\ UNCHANGED <<row, bound>>
    BY DEF IInv, Types, TakeSlot
  <1>2. RequestOK(r2, bound) /\ Follows(r, r2) /\ r2.pc = "asked"
    BY <1>1, PcChange DEF Asking
  <1> HIDE DEF r2
  <1>3. req' \in [Cmd -> ReqType] /\ \A x \in Cmd : req'[x] = IF x = c THEN r2 ELSE req[x]
    BY <1>1, <1>2 DEF IInv, Types, Follows
  <1>4. \A x \in Cmd : RequestOK(req'[x], bound') /\ LinkOK(cmd[x], req'[x])
    BY <1>1, <1>2, <1>3, FollowsLink DEF IInv
  <1>5. {x \in Cmd : req'[x].pc = "asked"} = asked \cup {c} /\ c \notin asked
    BY <1>1, <1>2, <1>3
  <1>6. IsFiniteSet(asked) /\ active = Cardinality(asked)
    BY ResolverAssumption, FS_Subset DEF IInv, Types
  <1>7. active' = Cardinality({x \in Cmd : req'[x].pc = "asked"})
    <2> HIDE DEF asked
    <2> QED BY <1>1, <1>5, <1>6, FS_AddElement
  <1>8. row' \in [Doi -> RowType] /\ bound' \subseteq [body: Content, doi: Doi] /\ RowsOK'
    BY <1>1 DEF IInv, Types, RowsOK
  <1> QED BY <1>1, <1>3, <1>4, <1>7, <1>8, ServerFrame

LEMMA SleepKeeps ==
    ASSUME IInv, NEW c \in Cmd, Sleep(c), UNCHANGED <<cmd, file, lock, backup>>
    PROVE  IInv'
  <1> DEFINE r == req[c]
             r2 == [r EXCEPT !.pc = "asleep"]
  <1>1. /\ r \in ReqType /\ RequestOK(r, bound) /\ r.pc = "wait"
        /\ req' = [req EXCEPT ![c] = r2] /\ UNCHANGED <<active, row, bound>>
    BY DEF IInv, Types, Sleep
  <1>2. RequestOK(r2, bound) /\ Follows(r, r2) /\ r2.pc = "asleep"
    BY <1>1, PcChange DEF Asking
  <1> HIDE DEF r2
  <1> QED BY <1>1, <1>2, OneRequest
-----------------------------------------------------------------------------
(* What a provider says.                                                   *)
LEMMA AnswerStep ==
    ASSUME IInv, NEW c \in Cmd, req[c].pc = "asked", NEW r2,
           Follows(req[c], r2), RequestOK(r2, bound), r2.pc # "asked",
           req' = Woken([req EXCEPT ![c] = r2]), active' = active - 1,
           UNCHANGED <<row, bound, cmd, file, lock, backup>>
    PROVE  IInv'
  <1> DEFINE R == [req EXCEPT ![c] = r2]
             asked == {x \in Cmd : req[x].pc = "asked"}
  <1>1. R \in [Cmd -> ReqType] /\ \A x \in Cmd : R[x] = IF x = c THEN r2 ELSE req[x]
    BY DEF IInv, Types, Follows
  <1>2. \A x \in Cmd : R[x] \in ReqType /\ RequestOK(R[x], bound) /\ LinkOK(cmd[x], R[x])
    <2>1. LinkOK(cmd[c], r2)
      BY FollowsLink DEF IInv
    <2> QED BY <1>1, <2>1 DEF IInv
  <1>3. req' = [x \in Cmd |-> IF R[x].pc = "asleep" THEN [R[x] EXCEPT !.pc = "wait"] ELSE R[x]]
    BY DEF Woken
  <1> HIDE DEF R
  <1>4. ASSUME NEW x \in Cmd
        PROVE  /\ req'[x] \in ReqType /\ RequestOK(req'[x], bound) /\ LinkOK(cmd[x], req'[x])
               /\ req'[x].pc = "asked" <=> R[x].pc = "asked"
    <2>1. CASE R[x].pc # "asleep"
      BY <1>2, <1>3, <2>1
    <2>2. CASE R[x].pc = "asleep"
      <3> DEFINE r3 == [R[x] EXCEPT !.pc = "wait"]
      <3>1. req'[x] = r3
        BY <1>3, <2>2
      <3>2. RequestOK(r3, bound) /\ Follows(R[x], r3) /\ r3.pc = "wait"
        BY <1>2, <2>2, PcChange DEF Asking
      <3> HIDE DEF r3
      <3>3. LinkOK(cmd[x], r3)
        BY <1>2, <2>2, <3>2, FollowsLink
      <3> QED BY <2>2, <3>1, <3>2, <3>3 DEF Follows
    <2> QED BY <2>1, <2>2
  <1>5. req' \in [Cmd -> ReqType]
    <2>1. DOMAIN req' = Cmd /\ req' = [x \in Cmd |-> req'[x]]
      BY <1>3
    <2> QED BY <1>4, <2>1
  <1>6. {x \in Cmd : req'[x].pc = "asked"} = asked \ {c} /\ c \in asked
    BY <1>1, <1>4
  <1>7. IsFiniteSet(asked) /\ active = Cardinality(asked)
    BY ResolverAssumption, FS_Subset DEF IInv, Types
  <1>8. active' = Cardinality({x \in Cmd : req'[x].pc = "asked"})
    <2> HIDE DEF asked
    <2> QED BY <1>6, <1>7, FS_RemoveElement
  <1>9. row' \in [Doi -> RowType] /\ bound' \subseteq [body: Content, doi: Doi] /\ RowsOK'
    BY DEF IInv, Types, RowsOK
  <1> QED BY <1>4, <1>5, <1>8, <1>9, ServerFrame

LEMMA Resumes ==
    ASSUME NEW r \in ReqType, NEW B, RequestOK(r, B), r.kind = "upload", r.why # "refresh",
           r.pc \in Asking, NEW r2 \in ReqType, r2.pc = "next", r2.kind = r.kind,
           r2.body = r.body, r2.by = r.by, r2.left = r.left, r2.why = r.why, r2.answer = r.answer
    PROVE  Follows(r, r2) /\ RequestOK(r2, B)
  <1>1. r.answer = NoAnswer
    BY DEF RequestOK, ReqOK, Asking
  <1>2. Follows(r, r2)
    BY <1>1 DEF Follows, NoAnswer, Asking
  <1>3. ReqOK(r2, B) /\ AskOK(r2) /\ VerifyOK(r2) /\ StoreOK(r2, B) /\ AnswerOK(r2, B)
    BY <1>1 DEF RequestOK, ReqOK, AskOK, VerifyOK, StoreOK, AnswerOK, NoAnswer, Asking
  <1> QED BY <1>2, <1>3 DEF RequestOK

LEMMA LearnedOK ==
    ASSUME NEW r \in ReqType, NEW B, RequestOK(r, B), r.pc = "asked", r.why # "search",
           NEW status \in {"ok", "not_found", "unavailable"},
           status = "not_found" => Registry[r.now.doi].at # r.at
    PROVE  LET r2 == Learned(r, status)
           IN  Follows(r, r2) /\ RequestOK(r2, B) /\ r2.pc # "asked"
  <1> DEFINE p == PaperOf(r)
             d == r.now.doi
             canonical == Registry[d].canonical
             on == [r EXCEPT !.pc = "next"]
             r2 == Learned(r, status)
  <1>1. /\ r.kind \in {"upload", "verify"} /\ r.answer = NoAnswer /\ d \in Doi
        /\ r.why # "none" /\ (r.why = "printed" <=> r.kind = "verify")
        /\ r.pc \in Asking
    BY DEF RequestOK, ReqOK, AskOK, Asking
  <1>2. canonical \in Doi /\ r.body \in Content
    BY <1>1, IdentityAssumption DEF RecordType, ReqType
  <1>3. CASE r.why = "candidate"
    <2>1. r.kind = "upload" /\ r.why # "refresh"
      BY <1>1, <1>3
    <2>2. CASE status = "unavailable"
      <3> DEFINE r3 == [on EXCEPT !.down = TRUE, !.lost = @ \cup {d}]
      <3>1. r2 = r3
        BY <1>3, <2>2 DEF Learned
      <3>2. /\ r3 \in ReqType /\ r3.pc = "next" /\ r3.kind = r.kind /\ r3.body = r.body
            /\ r3.by = r.by /\ r3.left = r.left /\ r3.why = r.why /\ r3.answer = r.answer
        BY <1>1 DEF ReqType, Going
      <3> HIDE DEF r2, r3
      <3> QED BY <1>1, <2>1, <3>1, <3>2, Resumes DEF r2
    <2>3. CASE status = "not_found"
      <3> DEFINE r3 == [on EXCEPT !.known = TRUE, !.lost = @ \cup {d}]
      <3>1. r2 = r3
        BY <1>3, <2>3 DEF Learned
      <3>2. /\ r3 \in ReqType /\ r3.pc = "next" /\ r3.kind = r.kind /\ r3.body = r.body
            /\ r3.by = r.by /\ r3.left = r.left /\ r3.why = r.why /\ r3.answer = r.answer
        BY <1>1 DEF ReqType, Going
      <3> HIDE DEF r2, r3
      <3> QED BY <1>1, <2>1, <3>1, <3>2, Resumes DEF r2
    <2>4. CASE status = "ok" /\ ~Fits(p, r.now)
      <3> DEFINE r3 == [on EXCEPT !.known = TRUE]
      <3>1. r2 = r3
        BY <1>3, <2>4 DEF Learned
      <3>2. /\ r3 \in ReqType /\ r3.pc = "next" /\ r3.kind = r.kind /\ r3.body = r.body
            /\ r3.by = r.by /\ r3.left = r.left /\ r3.why = r.why /\ r3.answer = r.answer
        BY <1>1 DEF ReqType, Going
      <3> HIDE DEF r2, r3
      <3> QED BY <1>1, <2>1, <3>1, <3>2, Resumes DEF r2
    <2>5. CASE status = "ok" /\ Fits(p, r.now)
      <3>1. r2 = Accepted(r, canonical, "verified", "ok")
        BY <1>3, <2>5 DEF Learned
      <3>2. "verified" \in Hows /\ "ok" \in Metas
        BY DEF Hows, Metas
      <3>3. Follows(r, r2) /\ RequestOK(r2, B)
        BY <1>1, <1>2, <2>1, <3>1, <3>2, Accepts DEF Going, Asking
      <3>4. r2.pc = "store"
        BY <1>2, <3>1, <3>2, AcceptedIs
      <3> QED BY <3>3, <3>4
    <2> QED BY <2>2, <2>3, <2>4, <2>5
  <1>4. CASE r.why = "printed"
    <2> DEFINE yes == {x \in {d} : status = "ok" /\ Confirms(p, x)}
               r3 == [on EXCEPT !.down = @ \/ status = "unavailable", !.fits = @ \cup yes]
    <2>1. r2 = r3
      BY <1>4 DEF Learned
    <2>2. yes \subseteq {d}
      OBVIOUS
    <2> HIDE DEF yes
    <2>3. /\ r3 \in ReqType /\ r3.pc = "next" /\ r3.kind = r.kind /\ r3.body = r.body
          /\ r3.by = r.by /\ r3.left = r.left /\ r3.why = r.why /\ r3.answer = r.answer
          /\ r3.fits = r.fits \cup yes /\ r3.down = (r.down \/ status = "unavailable")
      BY <1>1, <2>2 DEF ReqType, Going
    <2> HIDE DEF r2, r3
    <2>4. /\ Info(r.body) = {} /\ r.fits \subseteq Own(p) /\ r.at = "crossref" /\ d \in Printed(p)
          /\ r.left \subseteq {Candidate(x, "pdf-content", 0) : x \in Printed(p)}
          /\ \/ r.down
             \/ \A x \in Own(p) : x \in r.fits \/ (\E y \in r.left : y.doi = x) \/ d = x
      BY <1>1, <1>4 DEF RequestOK, VerifyOK, Going
    <2>5. yes \subseteq Own(p)
      BY <2>4 DEF yes, Own
    <2>6. d \in Own(p) => d \in yes \/ status = "unavailable"
      BY <2>4 DEF Own, Confirms, yes
    <2>7. VerifyOK(r3)
      BY <2>3, <2>4, <2>5, <2>6 DEF VerifyOK, PaperOf, Asking
    <2>8. ReqOK(r3, B) /\ AskOK(r3) /\ StoreOK(r3, B) /\ AnswerOK(r3, B)
      BY <1>1, <1>4, <2>3 DEF RequestOK, ReqOK, AskOK, StoreOK, AnswerOK, NoAnswer, Asking
    <2>9. Follows(r, r3)
      BY <1>1, <2>3 DEF Follows, NoAnswer, Asking
    <2> QED BY <2>1, <2>3, <2>7, <2>8, <2>9 DEF RequestOK, r2
  <1>5. CASE r.why \notin {"candidate", "printed"}
    <2> DEFINE meta == IF status = "ok" /\ canonical # d /\ Info(r.body) # {} /\ ~Trusted(r)
                       THEN "unavailable" ELSE status
    <2>1. r2 = Accepted(r, d, r.why, meta)
      BY <1>5 DEF Learned
    <2>2. meta \in Metas /\ meta # "pending"
      BY DEF Metas
    <2> HIDE DEF meta
    <2>3. r.why \in Hows /\ r.why # "verified" /\ r.kind = "upload"
      BY <1>1, <1>5 DEF ReqType, Hows, Whys
    <2>4. r.why = "refresh" => /\ [body |-> r.body, doi |-> d] \in B
                               /\ Info(r.body) \subseteq {d} \/ Trusted(r)
      BY <1>1 DEF RequestOK, StoreOK, Asking
    <2>5. Follows(r, r2) /\ RequestOK(r2, B)
      BY <1>1, <2>1, <2>2, <2>3, <2>4, Accepts DEF Going, Asking
    <2>6. r2.pc = "store"
      BY <1>1, <2>1, <2>2, <2>3, AcceptedIs
    <2> QED BY <2>5, <2>6
  <1> QED BY <1>3, <1>4, <1>5

LEMMA FruitlessOK ==
    ASSUME NEW r \in ReqType, NEW B, RequestOK(r, B), r.pc = "asked", r.why = "search",
           NEW failed \in BOOLEAN
    PROVE  LET r2 == Fruitless(r, failed)
           IN  Follows(r, r2) /\ RequestOK(r2, B) /\ r2.pc # "asked"
  <1> DEFINE r2 == Fruitless(r, failed)
  <1>1. /\ r2 \in ReqType /\ r2.pc = "next" /\ r2.kind = r.kind /\ r2.body = r.body
        /\ r2.by = r.by /\ r2.left = r.left /\ r2.why = r.why /\ r2.answer = r.answer
    BY DEF Fruitless, ReqType, Going
  <1> HIDE DEF r2
  <1>2. r.kind = "upload" /\ r.pc \in Asking
    BY DEF RequestOK, ReqOK, AskOK, Asking
  <1>3. Follows(r, r2) /\ RequestOK(r2, B)
    BY <1>1, <1>2, Resumes
  <1> QED BY <1>1, <1>3 DEF r2

LEMMA AnswerKeeps ==
    ASSUME IInv, NEW c \in Cmd, Answer(c), UNCHANGED <<cmd, file, lock, backup>>
    PROVE  IInv'
  <1> DEFINE r == req[c]
             p == PaperOf(r)
  <1>1. /\ r \in ReqType /\ RequestOK(r, bound) /\ r.pc = "asked" /\ UNCHANGED <<row, bound>>
    BY DEF IInv, Types, Answer
  <1>2. active' = active - 1
    BY DEF Answer, GiveBack
  <1>3. /\ r.answer = NoAnswer /\ r.body \in Content /\ r.kind \in {"upload", "verify"}
        /\ (r.why = "printed" <=> r.kind = "verify") /\ r.pc \in Asking
        /\ (r.why = "search" => Searchable(p))
    BY <1>1 DEF RequestOK, ReqOK, AskOK, Asking, ReqType
  <1>4. ASSUME NEW status \in {"ok", "not_found", "unavailable"}, Reply(c, status)
        PROVE  IInv'
    <2>1. /\ r.why # "search"
          /\ req' = Woken([req EXCEPT ![c] =
                 IF status = "not_found" /\ r.at \in DOMAIN Next3 /\ r.why # "printed"
                 THEN Passed(r) ELSE Learned(r, status)])
      BY <1>4 DEF Reply
    <2>2. status = "not_found" => Registry[r.now.doi].at # r.at
      BY <1>4 DEF Reply
    <2>3. CASE status = "not_found" /\ r.at \in DOMAIN Next3 /\ r.why # "printed"
      <3> DEFINE r2 == Passed(r)
      <3>1. r.at \in {"crossref", "doi.org"} /\ Next3[r.at] \in {"doi.org", "semantic-scholar"}
        BY <2>3 DEF Next3
      <3>2. /\ r2 \in ReqType /\ r2.pc = "wait" /\ r2.now = r.now /\ r2.why = r.why
            /\ r2.doi = r.doi
            /\ r2.kind = r.kind /\ r2.body = r.body /\ r2.by = r.by /\ r2.left = r.left
            /\ r2.answer = r.answer
        BY <1>1, <3>1 DEF Passed, ReqType, Going, Asking
      <3> HIDE DEF r2
      <3>3. ReqOK(r2, bound) /\ AskOK(r2) /\ VerifyOK(r2) /\ StoreOK(r2, bound) /\ AnswerOK(r2, bound)
        BY <1>1, <1>3, <2>3, <3>2
           DEF RequestOK, ReqOK, AskOK, VerifyOK, StoreOK, AnswerOK, NoAnswer, Asking, PaperOf, Trusted
      <3>4. Follows(r, r2)
        BY <1>1, <1>3, <3>2 DEF Follows, NoAnswer
      <3>5. req' = Woken([req EXCEPT ![c] = r2])
        BY <2>1, <2>3 DEF r2
      <3> QED BY <1>1, <1>2, <3>2, <3>3, <3>4, <3>5, AnswerStep DEF RequestOK
    <2>4. CASE ~(status = "not_found" /\ r.at \in DOMAIN Next3 /\ r.why # "printed")
      <3> DEFINE r2 == Learned(r, status)
      <3>1. Follows(r, r2) /\ RequestOK(r2, bound) /\ r2.pc # "asked"
        BY <1>1, <2>1, <2>2, LearnedOK
      <3>2. req' = Woken([req EXCEPT ![c] = r2])
        BY <2>1, <2>4
      <3> HIDE DEF r2
      <3> QED BY <1>1, <1>2, <3>1, <3>2, AnswerStep
    <2> QED BY <2>3, <2>4
  <1>5. CASE SearchHits(c)
    <2>1. r.why = "search" /\ r.kind = "upload"
      BY <1>3, <1>5 DEF SearchHits
    <2>2. PICK hits \in SUBSET Corroborated(p) :
             req' = Woken([req EXCEPT ![c] =
                      IF Cardinality({Registry[d].canonical : d \in hits}) = 1
                      THEN Accepted(r, CHOOSE d \in {Registry[x].canonical : x \in hits} : TRUE,
                                    "verified", "ok")
                      ELSE Fruitless(r, FALSE)])
      BY <1>5 DEF SearchHits
    <2> DEFINE found == {Registry[d].canonical : d \in hits}
               one == CHOOSE d \in found : TRUE
    <2>3. CASE Cardinality(found) = 1
      <3>1. one \in found
        BY <2>3, NotEmpty
      <3>2. PICK d \in hits : one = Registry[d].canonical
        BY <3>1
      <3>3. d \in Doi /\ one \in Doi
        BY <3>2, IdentityAssumption DEF Corroborated, RecordType
      <3> HIDE DEF one
      <3> DEFINE r2 == Accepted(r, one, "verified", "ok")
      <3>4. "verified" \in Hows /\ "ok" \in Metas
        BY DEF Hows, Metas
      <3>5. Follows(r, r2) /\ RequestOK(r2, bound)
        BY <1>1, <1>3, <2>1, <3>3, <3>4, Accepts DEF Going, Asking
      <3>6. r2.pc = "store"
        BY <1>1, <3>3, <3>4, AcceptedIs
      <3>7. req' = Woken([req EXCEPT ![c] = r2])
        BY <2>2, <2>3 DEF one
      <3> HIDE DEF r2
      <3> QED BY <1>1, <1>2, <3>5, <3>6, <3>7, AnswerStep
    <2>4. CASE Cardinality(found) # 1
      <3> DEFINE r2 == Fruitless(r, FALSE)
      <3>1. Follows(r, r2) /\ RequestOK(r2, bound) /\ r2.pc # "asked"
        BY <1>1, <2>1, FruitlessOK
      <3>2. req' = Woken([req EXCEPT ![c] = r2])
        BY <2>2, <2>4
      <3> HIDE DEF r2
      <3> QED BY <1>1, <1>2, <3>1, <3>2, AnswerStep
    <2> QED BY <2>3, <2>4
  <1>6. CASE SearchFails(c)
    <2> DEFINE r2 == Fruitless(r, TRUE)
    <2>1. r.why = "search" /\ req' = Woken([req EXCEPT ![c] = r2])
      BY <1>6 DEF SearchFails
    <2>2. Follows(r, r2) /\ RequestOK(r2, bound) /\ r2.pc # "asked"
      BY <1>1, <2>1, FruitlessOK
    <2> HIDE DEF r2
    <2> QED BY <1>1, <1>2, <2>1, <2>2, AnswerStep
  <1> QED BY <1>4, <1>5, <1>6 DEF Answer
-----------------------------------------------------------------------------
(* Rows.                                                                   *)
LEMMA FilledOK ==
    ASSUME NEW w \in RowType, NEW r \in ReqType, r.doi \in Doi, r.meta \in Metas
    PROVE  Filled(w, r) \in RowType /\ Filled(w, r).status # "none"
  <1>1. Registry[r.doi].work \in Work /\ PaperOf(r).work \in Work
    BY IdentityAssumption, FactsOf DEF RecordType, ReqType, PaperOf, FactsType
  <1>2. CASE r.meta = "ok"
    <2>1. Filled(w, r) = [w EXCEPT !.title = Registry[r.doi].work, !.status = "ok"]
      BY <1>2 DEF Filled
    <2> QED BY <1>1, <2>1 DEF RowType, Metas
  <1>3. CASE r.meta = "pending"
    <2>1. Filled(w, r) = [w EXCEPT !.title = PaperOf(r).work, !.status = "pending"]
      BY <1>3 DEF Filled
    <2> QED BY <1>1, <1>3, <2>1 DEF RowType, Metas
  <1>4. CASE r.meta \notin {"ok", "pending"}
    <2> DEFINE status == IF w.status = "pending" /\ r.meta # "skipped" THEN w.status ELSE r.meta
    <2>1. Filled(w, r) = [w EXCEPT !.status = status]
      BY <1>4 DEF Filled
    <2>2. status \in Metas
      BY DEF Metas
    <2> HIDE DEF status
    <2> QED BY <2>1, <2>2 DEF RowType, Metas
  <1> QED BY <1>2, <1>3, <1>4

(* One row is written, and the bytes of the request are bound to it.       *)
LEMMA StoreStep ==
    ASSUME IInv, NEW c \in Cmd, req[c].pc = "store", NEW d \in Doi, NEW w \in RowType,
           NEW r2, Follows(req[c], r2), RequestOK(r2, bound'), r2.pc # "asked",
           req' = [req EXCEPT ![c] = r2], row' = [row EXCEPT ![d] = w],
           w.status # "none",
           bound' = bound \cup {[body |-> req[c].body, doi |-> d]},
           UNCHANGED <<active, cmd, file, lock, backup>>
    PROVE  IInv'
  <1>1. req' \in [Cmd -> ReqType] /\ \A x \in Cmd : req'[x] = IF x = c THEN r2 ELSE req[x]
    BY DEF IInv, Types, Follows
  <1>2. bound \subseteq bound' /\ bound' \subseteq [body: Content, doi: Doi]
    BY DEF IInv, Types, ReqType
  <1>3. \A x \in Cmd : RequestOK(req'[x], bound') /\ LinkOK(cmd[x], req'[x])
    <2>1. LinkOK(cmd[c], r2)
      BY FollowsLink DEF IInv
    <2>2. \A x \in Cmd : RequestOK(req[x], bound')
      BY <1>2, RequestMono DEF IInv
    <2> QED BY <1>1, <2>1, <2>2 DEF IInv
  <1>4. {x \in Cmd : req'[x].pc = "asked"} = {x \in Cmd : req[x].pc = "asked"}
    BY <1>1
  <1>5. active' = Cardinality({x \in Cmd : req'[x].pc = "asked"})
    BY <1>4 DEF IInv, Types
  <1>6. row' \in [Doi -> RowType] /\ \A x \in Doi : row'[x] = IF x = d THEN w ELSE row[x]
    BY DEF IInv, Types
  <1>7. RowsOK'
    <2>1. w # NoRow
      BY DEF NoRow
    <2>2. ASSUME NEW x \in Doi
          PROVE  x \in {b.doi : b \in bound'} <=> (x = d \/ x \in {b.doi : b \in bound})
      <3>1. x = d => x \in {b.doi : b \in bound'}
        <4> DEFINE b == [body |-> req[c].body, doi |-> d]
        <4>1. b \in bound' /\ b.doi = d
          OBVIOUS
        <4> HIDE DEF b
        <4> QED BY <4>1
      <3>2. \A b \in bound' : b \in bound \/ b.doi = d
        OBVIOUS
      <3> QED BY <1>2, <3>1, <3>2
    <2>3. \A x \in Doi : row'[x] = NoRow <=> x \notin {b.doi : b \in bound'}
      BY <1>6, <2>1, <2>2 DEF IInv, RowsOK
    <2>4. \A x \in Doi : row'[x].status = "none" => row'[x] = NoRow
      BY <1>6 DEF IInv, RowsOK
    <2> QED BY <2>3, <2>4 DEF RowsOK
  <1> QED BY <1>1, <1>2, <1>3, <1>5, <1>6, <1>7, ServerFrame

LEMMA RefreshKeeps ==
    ASSUME IInv, NEW c \in Cmd, Refresh(c), UNCHANGED <<cmd, file, lock, backup>>
    PROVE  IInv'
  <1> DEFINE r == req[c]
             d == r.doi
             w == Filled(row[d], r)
  <1>1. /\ r \in ReqType /\ RequestOK(r, bound) /\ r.pc = "store" /\ r.why = "refresh"
        /\ req' = [req EXCEPT ![c] = Done(r, "stored", d, "known")]
        /\ UNCHANGED <<active, bound>>
    BY DEF IInv, Types, Refresh
  <1>2. row' = [row EXCEPT ![d] = w]
    BY DEF Refresh
  <1>3. /\ r.kind = "upload" /\ d \in Doi /\ r.meta \in Metas
        /\ [body |-> r.body, doi |-> d] \in bound
        /\ Info(r.body) \subseteq {d} \/ Trusted(r)
    BY <1>1 DEF RequestOK, StoreOK
  <1>4. row[d] \in RowType
    BY <1>3 DEF IInv, Types
  <1>5. w \in RowType /\ w.status # "none"
    BY <1>1, <1>3, <1>4, FilledOK
  <1> HIDE DEF w
  <1> DEFINE a == [status |-> "stored", doi |-> d, how |-> "known"]
             r2 == Done(r, "stored", d, "known")
  <1>6. a \in AnswerType /\ a.status = "stored" /\ a.doi = d /\ a.how = "known"
    BY <1>3 DEF AnswerType, Hows
  <1> HIDE DEF a
  <1>7. Follows(r, r2) /\ RequestOK(r2, bound)
    BY <1>1, <1>3, <1>6, DoneOK
  <1>8. r2.pc # "asked"
    BY NoRequestType DEF Done, ReqType
  <1>9. bound' = bound \cup {[body |-> r.body, doi |-> d]} /\ RequestOK(r2, bound')
    BY <1>1, <1>3, <1>7
  <1> HIDE DEF r2
  <1>10. req' = [req EXCEPT ![c] = r2]
    BY <1>1 DEF r2
  <1> QED BY <1>1, <1>2, <1>3, <1>5, <1>7, <1>8, <1>9, <1>10, StoreStep

LEMMA StoreKeeps ==
    ASSUME IInv, NEW c \in Cmd, Store(c), UNCHANGED <<cmd, file, lock, backup>>
    PROVE  IInv'
  <1> DEFINE r == req[c]
             d == r.doi
             old == row[d]
             new == [old EXCEPT !.of = r.body]
             w == CASE old = NoRow -> Filled(new, r)
                    [] old # NoRow /\ ~OtherBytes(r) /\ (r.skip \/ Incomplete(old)) -> Filled(old, r)
                    [] OTHER -> old
  <1>1. /\ r \in ReqType /\ RequestOK(r, bound) /\ r.pc = "store" /\ Storable(r)
        /\ req' = [req EXCEPT ![c] = Done(r, "stored", d, r.how)]
        /\ bound' = bound \cup {[body |-> r.body, doi |-> d]}
        /\ UNCHANGED active
    BY DEF IInv, Types, Store
  <1>2. row' = [row EXCEPT ![d] = w]
    BY DEF Store
  <1>3. /\ r.kind = "upload" /\ d \in Doi /\ r.meta \in Metas
        /\ Info(r.body) \subseteq {d} \/ Trusted(r)
        /\ r.body \in Content /\ r.how \in Hows
    BY <1>1 DEF RequestOK, StoreOK, Storable, Stampable, ReqType
  <1>4. old \in RowType /\ (old # NoRow => old.status # "none")
    BY <1>3 DEF IInv, Types, RowsOK
  <1>5. new \in RowType /\ new.title = old.title
    BY <1>3, <1>4 DEF RowType
  <1> HIDE DEF new, old
  <1>6. w \in RowType /\ w.status # "none"
    <2>1. CASE old = NoRow
      <3>1. w = Filled(new, r)
        BY <2>1
      <3> HIDE DEF w
      <3> QED BY <1>1, <1>3, <1>4, <1>5, <3>1, FilledOK
    <2>2. CASE old # NoRow /\ ~OtherBytes(r) /\ (r.skip \/ Incomplete(old))
      <3>1. w = Filled(old, r)
        BY <2>2
      <3> HIDE DEF w
      <3> QED BY <1>1, <1>3, <1>4, <3>1, FilledOK
    <2>3. CASE old # NoRow /\ ~(~OtherBytes(r) /\ (r.skip \/ Incomplete(old)))
      <3>1. w = old
        BY <2>3
      <3> HIDE DEF w
      <3> QED BY <1>4, <2>3, <3>1
    <2> QED BY <2>1, <2>2, <2>3
  <1> HIDE DEF w
  <1> DEFINE a == [status |-> "stored", doi |-> d, how |-> r.how]
             r2 == Done(r, "stored", d, r.how)
  <1>7. a \in AnswerType /\ a.status = "stored" /\ a.doi = d /\ a.how = r.how
    BY <1>3 DEF AnswerType
  <1>8. [body |-> r.body, doi |-> d] \in bound'
    BY <1>1
  <1> HIDE DEF a
  <1>9. Follows(r, r2) /\ RequestOK(r2, bound')
    BY <1>1, <1>3, <1>7, <1>8, DoneOK
  <1>10. r2.pc # "asked"
    BY NoRequestType DEF Done, ReqType
  <1> HIDE DEF r2
  <1>11. req' = [req EXCEPT ![c] = r2]
    BY <1>1 DEF r2
  <1> QED BY <1>1, <1>2, <1>3, <1>6, <1>9, <1>10, <1>11, StoreStep DEF old

LEMMA RejectKeeps ==
    ASSUME IInv, NEW c \in Cmd, Reject(c), UNCHANGED <<cmd, file, lock, backup>>
    PROVE  IInv'
  <1> DEFINE r == req[c]
             r2 == Refused(r)
  <1>1. /\ r \in ReqType /\ RequestOK(r, bound) /\ r.pc = "store"
        /\ req' = [req EXCEPT ![c] = r2] /\ UNCHANGED <<active, row, bound>>
    BY DEF IInv, Types, Reject
  <1>2. r.kind = "upload"
    BY <1>1 DEF RequestOK, StoreOK
  <1>3. Follows(r, r2) /\ RequestOK(r2, bound) /\ r2.pc # "asked"
    BY <1>1, <1>2, RefusedOK, NoRequestType DEF Done, Refused, ReqType
  <1> QED BY <1>1, <1>3, OneRequest
-----------------------------------------------------------------------------
(* The intake.                                                             *)
LEMMA EmbeddedOK ==
    ASSUME NEW k \in Content, Cardinality(Info(k)) = 1
    PROVE  Evidence[k].status = "ok"
  <1>1. ~(Cardinality(Info(k)) > 1)
    OBVIOUS
  <1>2. Info(k) # {}
    BY NotEmpty
  <1> QED BY <1>1, <1>2 DEF Evidence, Verdict

LEMMA EvidenceOfOK ==
    ASSUME NEW r \in ReqType, Explicit(r) => UserSaid(r.body, r.hint)
    PROVE  LET e == EvidenceOf(r)
           IN  /\ e.candidates \in SUBSET Lookup
               /\ \A x \in e.candidates : x.source = "explicit" => UserSaid(r.body, x.doi)
               /\ e.status = "ok" => e.doi \in Doi
               /\ Cardinality(Info(r.body)) = 1 => e.status = "ok"
  <1> DEFINE e == EvidenceOf(r)
  <1>1. r.body \in Content
    BY DEF ReqType
  <1>2. CASE Explicit(r) /\ Info(r.body) = {}
    <2> DEFINE x == Candidate(r.hint, "explicit", 0)
    <2>1. e.status = "ok" /\ e.doi = r.hint /\ e.candidates = {x}
      BY <1>2 DEF EvidenceOf, Verdict
    <2>2. r.hint \in Doi
      BY <1>2, WritebackAssumption DEF UserSaid
    <2>3. x \in Lookup /\ x.doi = r.hint
      BY <2>2 DEF Lookup, Candidate
    <2> HIDE DEF e, x
    <2> QED BY <1>2, <2>1, <2>2, <2>3 DEF e
  <1>3. CASE ~(Explicit(r) /\ Info(r.body) = {})
    <2>1. e = Evidence[r.body]
      BY <1>3 DEF EvidenceOf
    <2>2. VerdictOK(e)
      BY <1>1, <2>1, EvidenceOK
    <2>3. Cardinality(Info(r.body)) = 1 => e.status = "ok"
      BY <1>1, <2>1, EmbeddedOK
    <2> HIDE DEF e
    <2>4. e.candidates \subseteq Lookup /\ \A x \in e.candidates : x.source # "explicit"
      BY <2>2, FileLookup DEF VerdictOK, FileCandidate, Sources
    <2>5. e.status = "ok" => e.doi \in Doi
      BY <2>2 DEF VerdictOK
    <2> QED BY <2>3, <2>4, <2>5 DEF e
  <1> QED BY <1>2, <1>3

(* A request sets out to look candidates up.                               *)
LEMMA SetsOut ==
    ASSUME NEW r \in ReqType, NEW B, RequestOK(r, B), r.pc = "parse", r.body = r.sha,
           NEW L \in SUBSET Lookup, OnePerDoi(L),
           \A x \in L : x.source = "explicit" => UserSaid(r.body, x.doi),
           r.kind = "verify" =>
              /\ Info(r.body) = {}
              /\ L = {Candidate(d, "pdf-content", 0) : d \in Printed(PaperOf(r))}
    PROVE  LET r2 == [r EXCEPT !.pc = "next", !.left = L]
           IN  Follows(r, r2) /\ RequestOK(r2, B) /\ r2.pc = "next"
  <1> DEFINE r2 == [r EXCEPT !.pc = "next", !.left = L]
  <1>1. /\ r2 \in ReqType /\ r2.pc = "next" /\ r2.left = L
        /\ r2.kind = r.kind /\ r2.body = r.body /\ r2.by = r.by /\ r2.why = r.why
        /\ r2.fits = r.fits /\ r2.down = r.down /\ r2.answer = r.answer
    BY DEF ReqType, Going
  <1> HIDE DEF r2
  <1>2. r.answer = NoAnswer /\ r.fits = {} /\ r.why # "refresh" /\ r.kind \in {"upload", "verify"}
    BY DEF RequestOK, ReqOK, StoreOK, Asking
  <1>3. Follows(r, r2)
    BY <1>1, <1>2 DEF Follows
  <1>4. ReqOK(r2, B) /\ AskOK(r2) /\ StoreOK(r2, B) /\ AnswerOK(r2, B)
    BY <1>1, <1>2 DEF ReqOK, AskOK, StoreOK, AnswerOK, NoAnswer, Asking
  <1>5. r.kind = "verify" => \A d \in Own(PaperOf(r)) : \E x \in L : x.doi = d
    <2> SUFFICES ASSUME r.kind = "verify", NEW d \in Own(PaperOf(r))
                 PROVE  \E x \in L : x.doi = d
      OBVIOUS
    <2>1. Candidate(d, "pdf-content", 0) \in L
      BY DEF Own
    <2>2. Candidate(d, "pdf-content", 0).doi = d
      BY DEF Candidate
    <2> QED BY <2>1, <2>2
  <1>6. VerifyOK(r2)
    BY <1>1, <1>2, <1>5 DEF VerifyOK, PaperOf, Asking
  <1> QED BY <1>1, <1>3, <1>4, <1>6 DEF RequestOK, r2

LEMMA BeginVerificationOK ==
    ASSUME NEW r \in ReqType, NEW B, RequestOK(r, B), r.pc = "parse", r.body = r.sha,
           r.kind = "verify"
    PROVE  LET r2 == BeginVerification(r)
           IN  Follows(r, r2) /\ RequestOK(r2, B) /\ r2.pc # "asked"
  <1> DEFINE L == {Candidate(d, "pdf-content", 0) : d \in Printed(PaperOf(r))}
  <1>1. CASE ~Verifiable(r)
    <2>1. BeginVerification(r) = Refused(r)
      BY <1>1 DEF BeginVerification
    <2>2. Refused(r).pc = "answered"
      BY NoRequestType DEF Done, Refused, ReqType
    <2> QED BY <2>1, <2>2, RefusedOK
  <1>2. CASE Verifiable(r)
    <2>1. BeginVerification(r) = [r EXCEPT !.pc = "next", !.left = L]
      BY <1>2 DEF BeginVerification
    <2>2. Info(r.body) = {}
      BY <1>2 DEF Verifiable
    <2>3. Printed(PaperOf(r)) \subseteq Doi
      <3>1. PaperOf(r) \in FactsType
        BY FactsOf DEF PaperOf, ReqType
      <3> QED BY <3>1 DEF Printed, FactsType, Occurrence
    <2>4. \A d \in Doi : LET x == Candidate(d, "pdf-content", 0)
                         IN  x \in Lookup /\ x.doi = d /\ x.source # "explicit"
      BY DEF Candidate, Lookup, Automatic
    <2>5. L \subseteq Lookup /\ OnePerDoi(L) /\ \A x \in L : x.source # "explicit"
      BY <2>3, <2>4 DEF OnePerDoi
    <2>6. L = {Candidate(d, "pdf-content", 0) : d \in Printed(PaperOf(r))}
      OBVIOUS
    <2> HIDE DEF L
    <2>7. Follows(r, [r EXCEPT !.pc = "next", !.left = L])
          /\ RequestOK([r EXCEPT !.pc = "next", !.left = L], B)
          /\ [r EXCEPT !.pc = "next", !.left = L].pc = "next"
      BY <2>2, <2>5, <2>6, SetsOut
    <2> QED BY <2>1, <2>7
  <1> QED BY <1>1, <1>2

LEMMA BeginKnownOK ==
    ASSUME IInv, NEW c \in Cmd, req[c].pc = "parse", req[c].body = req[c].sha,
           req[c].kind = "upload", NEW d \in RowOf(req[c].body)
    PROVE  LET r2 == BeginKnown(req[c], d)
           IN  Follows(req[c], r2) /\ RequestOK(r2, bound) /\ r2.pc # "asked"
  <1> DEFINE r == req[c]
  <1>1. r \in ReqType /\ RequestOK(r, bound)
    BY DEF IInv, Types
  <1>2. [body |-> r.body, doi |-> d] \in bound /\ d \in Doi
    <2>1. PICK b \in bound : b.body = r.body /\ b.doi = d
      BY DEF RowOf
    <2> QED BY <2>1 DEF IInv, Types
  <1> DEFINE several == ~Trusted(r) /\ Cardinality(Info(r.body)) > 1
             other   == Asserted(r) # {} /\ Asserted(r) # {d}
             x       == Candidate(d, "none", 0)
  <1>3. CASE several \/ other
    <2>1. BeginKnown(r, d) = Refused(r)
      BY <1>3 DEF BeginKnown
    <2>2. Refused(r).pc = "answered"
      BY NoRequestType DEF Done, Refused, ReqType
    <2> QED BY <1>1, <2>1, <2>2, RefusedOK
  <1>4. CASE ~several /\ ~other
    <2>1. Info(r.body) \subseteq {d} \/ Trusted(r)
      BY <1>4 DEF Asserted
    <2>2. CASE ~r.skip /\ Incomplete(row[d])
      <3>1. BeginKnown(r, d) = Ask(r, x, "refresh")
        BY <1>4, <2>2 DEF BeginKnown
      <3>2. x \in CandidateSet /\ x.doi = d
        BY <1>2 DEF Candidate, CandidateSet
      <3>3. "refresh" \in Whys \ {"none", "printed"}
        BY DEF Whys
      <3> HIDE DEF x
      <3>4. Follows(r, Ask(r, x, "refresh")) /\ RequestOK(Ask(r, x, "refresh"), bound)
        BY <1>1, <1>2, <2>1, <3>2, <3>3, UploadAsks
      <3>5. Ask(r, x, "refresh").pc = "wait"
        BY <1>1, <3>2, <3>3, AskIs
      <3> QED BY <3>1, <3>4, <3>5
    <2>3. CASE ~(~r.skip /\ Incomplete(row[d]))
      <3> DEFINE a  == [status |-> "stored", doi |-> d, how |-> "known"]
                 r2 == Done(r, "stored", d, "known")
      <3>1. BeginKnown(r, d) = r2
        BY <1>4, <2>3 DEF BeginKnown
      <3>2. a \in AnswerType /\ a.status = "stored" /\ a.doi = d /\ a.how = "known"
        BY <1>2 DEF AnswerType, Hows
      <3> HIDE DEF a
      <3>3. Follows(r, r2) /\ RequestOK(r2, bound)
        BY <1>1, <1>2, <2>1, <3>2, DoneOK
      <3>4. r2.pc # "asked"
        BY NoRequestType DEF Done, ReqType
      <3> QED BY <3>1, <3>3, <3>4
    <2> QED BY <2>2, <2>3
  <1> QED BY <1>3, <1>4

LEMMA BeginUnknownOK ==
    ASSUME NEW r \in ReqType, NEW B, RequestOK(r, B), r.pc = "parse", r.body = r.sha,
           r.kind = "upload", NEW e, e = EvidenceOf(r),
           NEW all, all = WithHint(e.candidates, HintOf(r), r.by)
    PROVE  LET r2 == BeginUnknown(r, e, all)
           IN  Follows(r, r2) /\ RequestOK(r2, B) /\ r2.pc # "asked"
  <1> DEFINE hopeless == /\ e.candidates = {} /\ r.hint = NoDoi
                         /\ r.skip \/ PaperOf(r).title = NoWork
             n == Cardinality(Info(r.body))
             A(x, why) == Ask(r, x, why)
             sure  == Candidate(r.hint, "csv-trusted", 100)
             given == Candidate(e.doi, "pdf-metadata", 96)
             r2 == BeginUnknown(r, e, all)
  <1>1. /\ Explicit(r) => UserSaid(r.body, r.hint)
        /\ Trusted(r) => r.hint \in Doi
        /\ r.why # "refresh"
    BY DEF RequestOK, ReqOK, StoreOK, Explicit, Asking
  <1>2. /\ e.candidates \in SUBSET Lookup
        /\ \A x \in e.candidates : x.source = "explicit" => UserSaid(r.body, x.doi)
        /\ e.status = "ok" => e.doi \in Doi
        /\ n = 1 => e.status = "ok"
    BY <1>1, EvidenceOfOK
  <1>3. ASSUME NEW x \in CandidateSet, NEW why \in {"trusted", "embedded"}, x.doi \in Doi
        PROVE  Follows(r, A(x, why)) /\ RequestOK(A(x, why), B) /\ A(x, why).pc # "asked"
    <2>1. why \in Whys \ {"none", "printed"} /\ why \notin {"search", "candidate", "refresh"}
      BY DEF Whys
    <2>2. Follows(r, A(x, why)) /\ RequestOK(A(x, why), B)
      BY <1>3, <2>1, UploadAsks
    <2>3. A(x, why).pc = "wait"
      BY <1>3, <2>1, AskIs
    <2> QED BY <2>2, <2>3
  <1>4. ASSUME NEW d \in Doi, NEW how \in {"embedded", "unchecked"}
        PROVE  LET s == Accepted(r, d, how, "skipped")
               IN  Follows(r, s) /\ RequestOK(s, B) /\ s.pc # "asked"
    <2>1. how \in Hows /\ how # "verified" /\ "skipped" \in Metas
      BY DEF Hows, Whys, Metas
    <2>2. Follows(r, Accepted(r, d, how, "skipped")) /\ RequestOK(Accepted(r, d, how, "skipped"), B)
      BY <1>1, <2>1, Accepts
    <2>3. Accepted(r, d, how, "skipped").pc = "store"
      BY <2>1, AcceptedIs
    <2> QED BY <2>2, <2>3
  <1>5. Follows(r, Refused(r)) /\ RequestOK(Refused(r), B) /\ Refused(r).pc # "asked"
    BY RefusedOK, NoRequestType DEF Done, Refused, ReqType
  <1>6. Info(r.body) = {} \/ n = 1 \/ n > 1
    BY InfoCases DEF ReqType
  <1>7. CASE Trusted(r)
    <2>1. r2 = A(sure, "trusted")
      BY <1>7 DEF BeginUnknown
    <2>2. sure \in CandidateSet /\ sure.doi \in Doi
      BY <1>1, <1>7 DEF Candidate, CandidateSet
    <2> HIDE DEF sure
    <2> QED BY <1>3, <2>1, <2>2
  <1>8. CASE ~Trusted(r) /\ (hopeless \/ n > 1)
    <2>1. n > 1 => Info(r.body) # {} /\ ~(n = 1)
      BY NotEmpty
    <2>2. hopeless => r2 = Refused(r)
      BY <1>8 DEF BeginUnknown
    <2>3. ~hopeless /\ n > 1 => r2 = Refused(r)
      BY <1>8, <2>1 DEF BeginUnknown
    <2>4. r2 = Refused(r)
      BY <1>8, <2>2, <2>3
    <2> QED BY <1>5, <2>4
  <1>9. CASE ~Trusted(r) /\ ~hopeless /\ ~(n > 1) /\ n = 1
    <2>1. r2 = IF r.skip THEN Accepted(r, e.doi, "embedded", "skipped") ELSE A(given, "embedded")
      BY <1>9, NotEmpty DEF BeginUnknown
    <2>2. e.doi \in Doi
      BY <1>2, <1>9
    <2>3. given \in CandidateSet /\ given.doi = e.doi
      BY <2>2 DEF Candidate, CandidateSet, Automatic
    <2> HIDE DEF given
    <2> QED BY <1>3, <1>4, <2>1, <2>2, <2>3
  <1>10. CASE ~Trusted(r) /\ ~hopeless /\ ~(n > 1) /\ ~(n = 1) /\ Info(r.body) = {} /\ r.skip
    <2>1. r2 = IF e.status = "ok" THEN Accepted(r, e.doi, "unchecked", "skipped") ELSE Refused(r)
      BY <1>10 DEF BeginUnknown
    <2> QED BY <1>2, <1>4, <1>5, <2>1
  <1>11. CASE ~Trusted(r) /\ ~hopeless /\ ~(n > 1) /\ ~(n = 1) /\ Info(r.body) = {} /\ ~r.skip
    <2> DEFINE L == Ordered(all, HintOf(r))
    <2>1. r2 = [r EXCEPT !.pc = "next", !.left = L]
      BY <1>11 DEF BeginUnknown
    <2>2. HintOf(r) \in Doi \cup {NoDoi}
      BY DEF HintOf, ReqType
    <2>3. /\ all \in SUBSET Lookup
          /\ \A x \in all : x.source = "explicit" => UserSaid(r.body, x.doi)
      BY <1>2, <2>2, WithHintOK
    <2>4. L \in SUBSET Lookup /\ OnePerDoi(L) /\ L \subseteq all
      BY <2>3, OrderedOK
    <2> HIDE DEF L, r2
    <2>5. r.kind # "verify"
      OBVIOUS
    <2>6. Follows(r, [r EXCEPT !.pc = "next", !.left = L])
          /\ RequestOK([r EXCEPT !.pc = "next", !.left = L], B)
          /\ [r EXCEPT !.pc = "next", !.left = L].pc = "next"
      BY <2>3, <2>4, <2>5, SetsOut
    <2> QED BY <2>1, <2>6 DEF r2
  <1>12. Info(r.body) = {} => ~(n > 1) /\ ~(n = 1)
    BY NotEmpty
  <1>13. n = 1 => ~(n > 1)
    OBVIOUS
  <1> HIDE DEF hopeless, n, r2
  <1> QED BY <1>6, <1>7, <1>8, <1>9, <1>10, <1>11, <1>12, <1>13 DEF r2

LEMMA ParseKeeps ==
    ASSUME IInv, NEW c \in Cmd, Parse(c), UNCHANGED <<cmd, file, lock, backup>>
    PROVE  IInv'
  <1> DEFINE r == req[c]
  <1>1. /\ r \in ReqType /\ RequestOK(r, bound) /\ r.pc = "parse" /\ UNCHANGED <<active, row, bound>>
    BY DEF IInv, Types, Parse
  <1>2. r.kind \in {"upload", "verify"}
    BY <1>1 DEF RequestOK, ReqOK
  <1>3. ASSUME NEW r2, req' = [req EXCEPT ![c] = r2], Follows(r, r2), RequestOK(r2, bound), r2.pc # "asked"
        PROVE  IInv'
    BY <1>1, <1>3, OneRequest
  <1>4. CASE req' = [req EXCEPT ![c] = Done(r, "conflict", NoDoi, "none")]
    <2> DEFINE r2 == Done(r, "conflict", NoDoi, "none")
    <2>1. Follows(r, r2) /\ RequestOK(r2, bound) /\ r2.pc # "asked"
      BY <1>1, <1>2, PlainDone, NoRequestType DEF Done, ReqType
    <2> HIDE DEF r2
    <2>2. req' = [req EXCEPT ![c] = r2]
      BY <1>4 DEF r2
    <2> QED BY <1>3, <2>1, <2>2
  <1>5. CASE Matches(r) /\ r.kind = "verify" /\ req' = [req EXCEPT ![c] = BeginVerification(r)]
    <2>1. r.body = r.sha
      BY <1>5 DEF Matches
    <2> DEFINE r2 == BeginVerification(r)
    <2>2. Follows(r, r2) /\ RequestOK(r2, bound) /\ r2.pc # "asked"
      BY <1>1, <1>5, <2>1, BeginVerificationOK
    <2> HIDE DEF r2
    <2>3. req' = [req EXCEPT ![c] = r2]
      BY <1>5 DEF r2
    <2> QED BY <1>3, <2>2, <2>3
  <1>6. CASE /\ Matches(r) /\ r.kind = "upload"
             /\ \E d \in RowOf(r.body) : req' = [req EXCEPT ![c] = BeginKnown(r, d)]
    <2>1. r.body = r.sha
      BY <1>6 DEF Matches
    <2> PICK d \in RowOf(r.body) : req' = [req EXCEPT ![c] = BeginKnown(r, d)]
      BY <1>6
    <2> DEFINE r2 == BeginKnown(r, d)
    <2>2. Follows(r, r2) /\ RequestOK(r2, bound) /\ r2.pc # "asked"
      BY <1>1, <1>6, <2>1, BeginKnownOK
    <2> HIDE DEF r2
    <2>3. req' = [req EXCEPT ![c] = r2]
      BY DEF r2
    <2> QED BY <1>3, <2>2, <2>3
  <1>7. CASE /\ Matches(r) /\ r.kind = "upload" /\ RowOf(r.body) = {}
             /\ \E e \in {EvidenceOf(r)} : \E all \in {WithHint(e.candidates, HintOf(r), r.by)} :
                    req' = [req EXCEPT ![c] = BeginUnknown(r, e, all)]
    <2>1. r.body = r.sha
      BY <1>7 DEF Matches
    <2> PICK e \in {EvidenceOf(r)} : \E all \in {WithHint(e.candidates, HintOf(r), r.by)} :
                    req' = [req EXCEPT ![c] = BeginUnknown(r, e, all)]
      BY <1>7
    <2> PICK all \in {WithHint(e.candidates, HintOf(r), r.by)} :
                    req' = [req EXCEPT ![c] = BeginUnknown(r, e, all)]
      OBVIOUS
    <2> DEFINE r2 == BeginUnknown(r, e, all)
    <2>2. Follows(r, r2) /\ RequestOK(r2, bound) /\ r2.pc # "asked"
      BY <1>1, <1>7, <2>1, BeginUnknownOK
    <2> HIDE DEF r2
    <2>3. req' = [req EXCEPT ![c] = r2]
      BY DEF r2
    <2> QED BY <1>3, <2>2, <2>3
  <1> QED BY <1>4, <1>5, <1>6, <1>7 DEF Parse
-----------------------------------------------------------------------------
(* The steps of a command.                                                 *)
LEMMA NoRequestOK ==
    ASSUME NEW B
    PROVE  RequestOK(NoRequest, B) /\ NoRequest.pc = "idle"
  BY NoRequestType DEF NoRequest, RequestOK, ReqOK, AskOK, VerifyOK, StoreOK, AnswerOK,
     Asking, Going, NoAnswer, OnePerDoi

LEMMA NoCmdType == NoCmd \in CmdType
  <1>1. (CHOOSE f \in File : TRUE) \in File
    BY WritebackAssumption
  <1>2. NoBody \in Content /\ "none" \in Bys /\ "upload" \in Modes
    BY NoBodyType DEF Bys, Hows, Whys, Modes
  <1> DEFINE f == CHOOSE x \in File : TRUE
             body == NoBody
  <1> HIDE DEF f, body
  <1>3. NoCmd = [pc |-> "idle", mode |-> "upload", file |-> f,
                 sha |-> body, doi |-> NoDoi, by |-> "none", fast |-> FALSE,
                 wrote |-> FALSE, tries |-> 0, outcome |-> "none"]
    BY DEF NoCmd, f, body
  <1> QED BY <1>1, <1>2, <1>3 DEF CmdType, f, body

LEMMA CommandStep ==
    ASSUME IInv, NEW c \in Cmd, NEW k2 \in CmdType, cmd' = [cmd EXCEPT ![c] = k2],
           NEW r2 \in ReqType, req' = [req EXCEPT ![c] = r2],
           req[c].pc # "asked", r2.pc # "asked",
           RequestOK(r2, bound), LinkOK(k2, r2), CmdOK(k2, bound, backup'),
           UNCHANGED <<active, row, bound>>,
           file' \in [File -> Content], lock' \in [File -> Cmd \cup {Free}],
           \A x \in backup : x.whole => x \in backup',
           WrittenIsSole', OriginalKept'
    PROVE  IInv'
  <1>1. /\ req' \in [Cmd -> ReqType] /\ \A x \in Cmd : req'[x] = IF x = c THEN r2 ELSE req[x]
        /\ cmd' \in [Cmd -> CmdType] /\ \A x \in Cmd : cmd'[x] = IF x = c THEN k2 ELSE cmd[x]
    BY DEF IInv, Types
  <1>2. {x \in Cmd : req'[x].pc = "asked"} = {x \in Cmd : req[x].pc = "asked"}
    BY <1>1
  <1>3. Types'
    BY <1>1, <1>2 DEF IInv, Types
  <1>4. ASSUME NEW x \in Cmd
        PROVE  /\ RequestOK(req'[x], bound') /\ LinkOK(cmd'[x], req'[x])
               /\ CmdOK(cmd'[x], bound', backup')
    <2>1. CASE x = c
      BY <1>1, <2>1
    <2>2. CASE x # c
      <3>1. /\ cmd[x] \in CmdType /\ CmdOK(cmd[x], bound, backup)
            /\ RequestOK(req[x], bound) /\ LinkOK(cmd[x], req[x])
        BY DEF IInv, Types
      <3>2. CmdOK(cmd[x], bound, backup')
        BY <3>1, CmdMono
      <3> QED BY <1>1, <2>2, <3>1, <3>2
    <2> QED BY <2>1, <2>2
  <1>5. RowsOK'
    BY DEF IInv, RowsOK
  <1> QED BY <1>3, <1>4, <1>5 DEF IInv

(* A step that no request takes part in, and that leaves the files alone.  *)
LEMMA QuietStep ==
    ASSUME IInv, NEW c \in Cmd, cmd[c].pc \notin {"receipt", "sent"},
           NEW k2 \in CmdType, k2.pc \notin {"receipt", "sent"},
           cmd' = [cmd EXCEPT ![c] = k2], CmdOK(k2, bound, backup'),
           UNCHANGED <<req, active, row, bound, file>>,
           lock' \in [File -> Cmd \cup {Free}],
           \A x \in backup : x.whole => x \in backup'
    PROVE  IInv'
  <1>1. req[c] \in ReqType /\ req' = [req EXCEPT ![c] = req[c]] /\ RequestOK(req[c], bound)
    BY DEF IInv, Types
  <1>2. LinkOK(cmd[c], req[c])
    BY DEF IInv
  <1>3. req[c].pc = "idle"
    BY <1>2 DEF LinkOK
  <1>4. LinkOK(k2, req[c])
    BY <1>3 DEF LinkOK
  <1>5. file' \in [File -> Content]
    BY DEF IInv, Types
  <1>6. WrittenIsSole' /\ OriginalKept'
    BY DEF IInv, WrittenIsSole, OriginalKept
  <1> DEFINE r2 == req[c]
  <1>7. /\ r2 \in ReqType /\ req' = [req EXCEPT ![c] = r2] /\ RequestOK(r2, bound)
        /\ LinkOK(k2, r2) /\ r2.pc = "idle"
    BY <1>1, <1>3, <1>4
  <1> HIDE DEF r2
  <1> QED BY <1>3, <1>5, <1>6, <1>7, CommandStep

EndOf(k, outcome) ==
    [NoCmd EXCEPT !.pc = "done", !.mode = k.mode, !.file = k.file, !.sha = k.sha,
                  !.doi = k.doi, !.by = k.by, !.wrote = k.wrote, !.outcome = outcome]

LEMMA EndOK ==
    ASSUME NEW k \in CmdType, NEW B, NEW K, NEW K2, CmdOK(k, B, K),
           NEW outcome \in {"existing", "review", "failed"}
    PROVE  EndOf(k, outcome) \in CmdType /\ EndOf(k, outcome).pc = "done"
           /\ CmdOK(EndOf(k, outcome), B, K2)
  <1> DEFINE k2 == EndOf(k, outcome)
  <1>1. k2 \in CmdType
    BY NoCmdType DEF EndOf, CmdType
  <1>2. /\ k2.pc = "done" /\ k2.mode = k.mode /\ k2.file = k.file /\ k2.sha = k.sha
        /\ k2.doi = k.doi /\ k2.by = k.by /\ k2.wrote = k.wrote /\ k2.outcome = outcome
    BY NoCmdType DEF EndOf, CmdType
  <1>3. k2.fast = FALSE
    BY NoCmdType DEF EndOf, CmdType, NoCmd
  <1> HIDE DEF k2
  <1>4. CmdOK(k2, B, K2)
    BY <1>2, <1>3 DEF CmdOK, Writing, Early
  <1> QED BY <1>1, <1>2, <1>4 DEF k2

(* The end of a command that is making no request.                         *)
LEMMA EndKeeps ==
    ASSUME IInv, NEW c \in Cmd, cmd[c].pc \notin {"receipt", "sent"},
           NEW outcome \in {"existing", "review", "failed"}, End(c, outcome),
           UNCHANGED <<req, active, row, bound, file>>,
           lock' \in [File -> Cmd \cup {Free}],
           \A x \in backup : x.whole => x \in backup'
    PROVE  IInv'
  <1> DEFINE k2 == EndOf(cmd[c], outcome)
  <1>1. cmd[c] \in CmdType /\ CmdOK(cmd[c], bound, backup)
    BY DEF IInv, Types
  <1>2. k2 \in CmdType /\ k2.pc = "done" /\ CmdOK(k2, bound, backup')
    BY <1>1, EndOK
  <1>3. cmd' = [cmd EXCEPT ![c] = k2]
    BY DEF End, Go, EndOf
  <1> HIDE DEF k2
  <1> QED BY <1>2, <1>3, QuietStep

LEMMA LockType ==
    ASSUME IInv, NEW c \in Cmd
    PROVE  /\ cmd[c] \in CmdType /\ CmdOK(cmd[c], bound, backup)
           /\ LinkOK(cmd[c], req[c])
           /\ lock \in [File -> Cmd \cup {Free}] /\ file \in [File -> Content]
           /\ Bytes(c) \in Content /\ cmd[c].file \in File
           /\ Unlock(c) => lock' \in [File -> Cmd \cup {Free}]
           /\ \A d \in Doi : row[d] \in RowType
           /\ backup' = backup => \A x \in backup : x.whole => x \in backup'
  BY DEF IInv, Types, Unlock, Bytes, CmdType

LEMMA StartKeeps ==
    ASSUME IInv, NEW c \in Cmd, Start(c)
    PROVE  IInv'
  <1>1. PICK j \in Jobs[c] :
          Go(c, [NoCmd EXCEPT !.mode = j.mode, !.file = j.file,
                              !.doi = IF j.mode = "trusted" THEN Said[j.file] ELSE NoDoi,
                              !.by  = IF j.mode = "trusted" THEN "csv-trusted" ELSE "none",
                              !.pc  = CASE j.mode \in {"upload", "user"} -> "probe"
                                        [] j.mode = "trusted" -> "check"
                                        [] OTHER -> "hash"])
    BY DEF Start
  <1>2. j.mode \in Modes /\ j.file \in File
    BY JobAssumption
  <1> DEFINE doi == IF j.mode = "trusted" THEN Said[j.file] ELSE NoDoi
             by  == IF j.mode = "trusted" THEN "csv-trusted" ELSE "none"
             pc  == CASE j.mode \in {"upload", "user"} -> "probe"
                      [] j.mode = "trusted" -> "check"
                      [] OTHER -> "hash"
             k2  == [NoCmd EXCEPT !.mode = j.mode, !.file = j.file, !.doi = doi, !.by = by, !.pc = pc]
  <1>3. cmd' = [cmd EXCEPT ![c] = k2]
    BY <1>1 DEF Go
  <1>4. /\ doi \in Doi \cup {NoDoi} /\ by \in {"csv-trusted", "none"}
        /\ pc \in {"probe", "check", "hash"}
        /\ (pc = "check" \/ by = "csv-trusted") <=> j.mode = "trusted"
        /\ pc = "probe" <=> j.mode \in {"upload", "user"}
        /\ by = "csv-trusted" => doi \in Doi /\ j.mode = "trusted"
        /\ j.mode = "trusted" => by = "csv-trusted" /\ doi \in Doi
    BY <1>2, WritebackAssumption DEF Modes
  <1> HIDE DEF doi, by, pc
  <1>5. k2 \in CmdType
    BY <1>2, <1>4, NoCmdType DEF CmdType, Bys, Hows, Whys, Early
  <1>6. /\ k2.mode = j.mode /\ k2.doi = doi /\ k2.by = by /\ k2.pc = pc
        /\ ~k2.wrote /\ ~k2.fast /\ k2.outcome = "none"
    BY NoCmdType DEF CmdType, NoCmd
  <1> HIDE DEF k2
  <1>7. CmdOK(k2, bound, backup')
    BY <1>4, <1>6 DEF CmdOK, Writing, Early
  <1>8. cmd[c].pc \notin {"receipt", "sent"} /\ UNCHANGED <<req, active, row, bound, file, lock, backup>>
    BY DEF Start, server, local
  <1> QED BY <1>3, <1>4, <1>5, <1>6, <1>7, <1>8, LockType, QuietStep

LEMMA ProbeKeeps ==
    ASSUME IInv, NEW c \in Cmd, Probe(c)
    PROVE  IInv'
  <1> DEFINE k == cmd[c]
             quick == Quick[Bytes(c)]
  <1>1. /\ k.pc = "probe" /\ UNCHANGED <<req, active, row, bound, file, lock, backup>>
        /\ \/ quick.status = "conflict" /\ End(c, "review")
           \/ quick.status = "no-doi" /\ Go(c, [k EXCEPT !.pc = "hash"])
           \/ /\ quick.status = "ok"
              /\ Go(c, [k EXCEPT !.pc = "check", !.sha = Bytes(c),
                                 !.doi = quick.doi, !.by = quick.source])
    BY DEF Probe, server, local
  <1>2. k \in CmdType /\ CmdOK(k, bound, backup) /\ Bytes(c) \in Content
    BY LockType
  <1>3. CASE End(c, "review")
    BY <1>1, <1>3, LockType, EndKeeps
  <1>4. CASE Go(c, [k EXCEPT !.pc = "hash"])
    <2> DEFINE k2 == [k EXCEPT !.pc = "hash"]
    <2>1. cmd' = [cmd EXCEPT ![c] = k2]
      BY <1>4 DEF Go
    <2>2. /\ k2 \in CmdType /\ k2.pc = "hash" /\ k2.mode = k.mode /\ k2.by = k.by
          /\ k2.wrote = k.wrote /\ k2.fast = k.fast /\ k2.outcome = k.outcome /\ k2.doi = k.doi
      BY <1>2 DEF CmdType, Early
    <2> HIDE DEF k2
    <2>3. CmdOK(k2, bound, backup')
      BY <1>1, <1>2, <2>2 DEF CmdOK, Writing, Early
    <2> QED BY <1>1, <2>1, <2>2, <2>3, LockType, QuietStep
  <1>5. CASE /\ quick.status = "ok"
             /\ Go(c, [k EXCEPT !.pc = "check", !.sha = Bytes(c),
                                !.doi = quick.doi, !.by = quick.source])
    <2>1. quick.doi \in Doi /\ quick.source \in Sources
      BY <1>2, <1>5, QuickOK
    <2> HIDE DEF quick
    <2> DEFINE k2 == [k EXCEPT !.pc = "check", !.sha = Bytes(c), !.doi = quick.doi, !.by = quick.source]
    <2>2. cmd' = [cmd EXCEPT ![c] = k2]
      BY <1>5 DEF Go
    <2>3. /\ k2 \in CmdType /\ k2.pc = "check" /\ k2.mode = k.mode /\ k2.by = quick.source
          /\ k2.wrote = k.wrote /\ k2.fast = k.fast /\ k2.outcome = k.outcome /\ k2.doi = quick.doi
      BY <1>2, <2>1 DEF CmdType, Bys, Sources, Automatic
    <2> HIDE DEF k2
    <2>4. CmdOK(k2, bound, backup')
      BY <1>1, <1>2, <2>1, <2>3 DEF CmdOK, Writing, Early, Sources
    <2> QED BY <1>1, <2>2, <2>3, <2>4, LockType, QuietStep
  <1> QED BY <1>1, <1>3, <1>4, <1>5

LEMMA CheckKeeps ==
    ASSUME IInv, NEW c \in Cmd, Check(c)
    PROVE  IInv'
  <1> DEFINE k == cmd[c]
             stored == row[k.doi]
             fast   == [k EXCEPT !.pc = "hash", !.fast = TRUE]
             legacy == [k EXCEPT !.pc = "hash", !.doi = NoDoi, !.by = "none"]
  <1>1. k.pc = "check" /\ UNCHANGED <<req, active, row, bound, file, lock, backup>>
    BY DEF Check, server, local
  <1>2. k \in CmdType /\ CmdOK(k, bound, backup) /\ k.doi \in Doi /\ k.sha \in Content
    BY <1>1, LockType DEF CmdOK, CmdType
  <1>3. CASE /\ Certain(c) \/ ConfirmsRow(Text(c), k.doi, stored.title)
             /\ End(c, "existing")
    BY <1>1, <1>3, LockType, EndKeeps
  <1>4. CASE ~Certain(c) /\ Go(c, legacy)
    <2>1. cmd' = [cmd EXCEPT ![c] = legacy]
      BY <1>4 DEF Go
    <2>2. /\ legacy \in CmdType /\ legacy.pc = "hash" /\ legacy.mode = k.mode /\ legacy.by = "none"
          /\ legacy.wrote = k.wrote /\ legacy.fast = k.fast /\ legacy.outcome = k.outcome
      BY <1>2 DEF CmdType, Early, Bys, Hows, Whys
    <2>3. k.by # "csv-trusted"
      BY <1>4 DEF Certain
    <2> HIDE DEF legacy
    <2>4. CmdOK(legacy, bound, backup')
      BY <1>1, <1>2, <2>2, <2>3 DEF CmdOK, Writing, Early
    <2> QED BY <1>1, <2>1, <2>2, <2>4, LockType, QuietStep
  <1>5. CASE Go(c, fast)
    <2>1. cmd' = [cmd EXCEPT ![c] = fast]
      BY <1>5 DEF Go
    <2>2. /\ fast \in CmdType /\ fast.pc = "hash" /\ fast.mode = k.mode /\ fast.by = k.by
          /\ fast.wrote = k.wrote /\ fast.fast /\ fast.outcome = k.outcome /\ fast.doi = k.doi
      BY <1>2 DEF CmdType, Early
    <2> HIDE DEF fast
    <2>3. CmdOK(fast, bound, backup')
      BY <1>1, <1>2, <2>2 DEF CmdOK, Writing, Early
    <2> QED BY <1>1, <2>1, <2>2, <2>3, LockType, QuietStep
  <1>6. CASE End(c, "review")
    BY <1>1, <1>6, LockType, EndKeeps
  <1> QED BY <1>3, <1>4, <1>5, <1>6 DEF Check

LEMMA HashKeeps ==
    ASSUME IInv, NEW c \in Cmd, Hash(c)
    PROVE  IInv'
  <1> DEFINE k == cmd[c]
             next(pc) == [[k EXCEPT !.sha = Bytes(c)] EXCEPT !.pc = pc]
  <1>1. k.pc = "hash" /\ UNCHANGED <<req, active, row, bound, file, lock, backup>>
    BY DEF Hash, server, local
  <1>2. k \in CmdType /\ CmdOK(k, bound, backup) /\ Bytes(c) \in Content
    BY LockType
  <1>3. ASSUME NEW pc \in {"inspect", "prepare"}, pc = "inspect" <=> k.mode = "write",
               Go(c, next(pc))
        PROVE  IInv'
    <2> DEFINE k2 == next(pc)
    <2>1. cmd' = [cmd EXCEPT ![c] = k2]
      BY <1>3 DEF Go
    <2>2. /\ k2 \in CmdType /\ k2.pc = pc /\ k2.mode = k.mode /\ k2.by = k.by
          /\ k2.wrote = k.wrote /\ k2.fast = k.fast /\ k2.outcome = k.outcome /\ k2.doi = k.doi
      BY <1>2 DEF CmdType, Early
    <2> HIDE DEF k2
    <2>3. CmdOK(k2, bound, backup')
      BY <1>1, <1>2, <1>3, <2>2 DEF CmdOK, Writing, Early
    <2> QED BY <1>1, <2>1, <2>2, <2>3, LockType, QuietStep
  <1>4. CASE \E outcome \in {"failed", "existing"} : Known(c, Bytes(c)) /\ End(c, outcome)
    <2> PICK outcome \in {"failed", "existing"} : Known(c, Bytes(c)) /\ End(c, outcome)
      BY <1>4
    <2>1. k.by \notin {"pdf-content", "filename"}
      BY <1>1, <1>2 DEF CmdOK, Early, Known
    <2> QED BY <1>1, <2>1, LockType, EndKeeps
  <1>5. \/ k.mode = "write" /\ Go(c, next("inspect"))
        \/ k.mode # "write" /\ Go(c, next("prepare"))
        \/ \E outcome \in {"failed", "existing"} : Known(c, Bytes(c)) /\ End(c, outcome)
    BY DEF Hash
  <1> QED BY <1>3, <1>4, <1>5
-----------------------------------------------------------------------------
(* --write-doi.                                                            *)
PcTo(k, pc) == [k EXCEPT !.pc = pc]

LEMMA PcToIs ==
    ASSUME NEW k \in CmdType, NEW pc \in Early \cup {"prepare", "send"}
    PROVE  LET k2 == PcTo(k, pc)
           IN  /\ k2 \in CmdType /\ k2.pc = pc /\ k2.mode = k.mode /\ k2.file = k.file
               /\ k2.sha = k.sha /\ k2.doi = k.doi /\ k2.by = k.by /\ k2.fast = k.fast
               /\ k2.wrote = k.wrote /\ k2.outcome = k.outcome
  BY DEF PcTo, CmdType

LEMMA PcToKeeps ==
    ASSUME IInv, NEW c \in Cmd, cmd[c].pc \in Early \ {"receipt"},
           NEW pc \in (Early \ {"receipt"}) \cup {"prepare"},
           cmd' = [cmd EXCEPT ![c] = PcTo(cmd[c], pc)],
           CmdOK(PcTo(cmd[c], pc), bound, backup'),
           UNCHANGED <<req, active, row, bound, file>>,
           lock' \in [File -> Cmd \cup {Free}],
           \A x \in backup : x.whole => x \in backup'
    PROVE  IInv'
  <1> DEFINE k2 == PcTo(cmd[c], pc)
  <1>1. k2 \in CmdType /\ k2.pc = pc
    BY LockType, PcToIs
  <1>2. k2.pc \notin {"receipt", "sent"} /\ cmd[c].pc \notin {"receipt", "sent"}
    BY <1>1 DEF Early, Writing
  <1> HIDE DEF k2
  <1>3. cmd' = [cmd EXCEPT ![c] = k2] /\ CmdOK(k2, bound, backup')
    BY DEF k2
  <1> QED BY <1>1, <1>2, <1>3, QuietStep

LEMMA InspectKeeps ==
    ASSUME IInv, NEW c \in Cmd, Inspect(c)
    PROVE  IInv'
  <1> DEFINE k == cmd[c]
  <1>1. k.pc = "inspect" /\ UNCHANGED <<req, active, row, bound, file, lock, backup>>
    BY DEF Inspect, server, local
  <1>2. k \in CmdType /\ CmdOK(k, bound, backup)
    BY LockType
  <1>3. CASE End(c, "review")
    BY <1>1, <1>3, LockType, EndKeeps
  <1>4. ASSUME NEW pc \in {"rehash", "verify"}, Go(c, [k EXCEPT !.pc = pc])
        PROVE  IInv'
    <2> DEFINE k2 == PcTo(k, pc)
    <2>1. cmd' = [cmd EXCEPT ![c] = k2]
      BY <1>4 DEF Go, PcTo
    <2>2. /\ k2.pc = pc /\ k2.mode = k.mode /\ k2.file = k.file
          /\ k2.sha = k.sha /\ k2.doi = k.doi /\ k2.by = k.by /\ k2.fast = k.fast
          /\ k2.wrote = k.wrote /\ k2.outcome = k.outcome
      BY <1>2, PcToIs DEF Early
    <2>3. CmdOK(k2, bound, backup')
      BY <1>1, <1>2, <2>2 DEF CmdOK, Writing, Early
    <2>4. k.pc \in Early \ {"receipt"} /\ pc \in (Early \ {"receipt"}) \cup {"prepare"}
      BY <1>1 DEF Early
    <2> QED BY <1>1, <2>1, <2>3, <2>4, LockType, PcToKeeps
  <1> QED BY <1>3, <1>4 DEF Inspect

LEMMA RequestIs ==
    ASSUME IInv, NEW c \in Cmd, NEW kind \in {"upload", "verify"}
    PROVE  LET r == Request(c, kind)
           IN  /\ r \in ReqType /\ r.pc = "parse" /\ r.kind = kind /\ r.body = Bytes(c)
               /\ r.sha = cmd[c].sha /\ r.left = {} /\ r.fits = {} /\ r.down = FALSE
               /\ r.why = "none" /\ r.by = "none" /\ r.answer = NoAnswer
  <1>1. Bytes(c) \in Content /\ cmd[c].sha \in Content
    BY LockType DEF CmdType
  <1> DEFINE r == Request(c, kind)
  <1>2. r \in ReqType
    BY <1>1, NoRequestType DEF Request, ReqType
  <1>3. r.pc = "parse" /\ r.kind = kind /\ r.body = Bytes(c) /\ r.sha = cmd[c].sha
    BY NoRequestType DEF Request, ReqType
  <1>4. /\ r.left = {} /\ r.fits = {} /\ r.down = FALSE
        /\ r.why = "none" /\ r.by = "none" /\ r.answer = NoAnswer
    BY NoRequestType DEF Request, ReqType, NoRequest
  <1> QED BY <1>2, <1>3, <1>4

LEMMA AskReceiptKeeps ==
    ASSUME IInv, NEW c \in Cmd, AskReceipt(c)
    PROVE  IInv'
  <1> DEFINE k == cmd[c]
             k2 == PcTo(k, "receipt")
             r2 == Request(c, "verify")
  <1>1. /\ k.pc = "verify" /\ UNCHANGED <<active, row, bound, file, lock, backup>>
        /\ req' = [req EXCEPT ![c] = r2]
    BY DEF AskReceipt, local
  <1>2. k \in CmdType /\ CmdOK(k, bound, backup) /\ LinkOK(k, req[c])
    BY LockType
  <1>3. cmd' = [cmd EXCEPT ![c] = k2]
    BY DEF AskReceipt, Go, PcTo
  <1>4. /\ k2 \in CmdType /\ k2.pc = "receipt" /\ k2.mode = k.mode /\ k2.file = k.file
        /\ k2.sha = k.sha /\ k2.doi = k.doi /\ k2.by = k.by /\ k2.fast = k.fast
        /\ k2.wrote = k.wrote /\ k2.outcome = k.outcome
    BY <1>2, PcToIs DEF Early
  <1>5. /\ r2 \in ReqType /\ r2.pc = "parse" /\ r2.kind = "verify" /\ r2.body = Bytes(c)
        /\ r2.sha = k.sha /\ r2.left = {} /\ r2.fits = {} /\ r2.down = FALSE
        /\ r2.why = "none" /\ r2.by = "none" /\ r2.answer = NoAnswer
    BY RequestIs
  <1> HIDE DEF k2, r2
  <1>6. RequestOK(r2, bound)
    BY <1>5 DEF RequestOK, ReqOK, AskOK, VerifyOK, StoreOK, AnswerOK, Asking, Going,
                NoAnswer, OnePerDoi, Trusted
  <1>7. LinkOK(k2, r2) /\ req[c].pc = "idle"
    BY <1>1, <1>2, <1>4, <1>5 DEF LinkOK
  <1>8. CmdOK(k2, bound, backup')
    BY <1>1, <1>2, <1>4 DEF CmdOK, Writing, Early
  <1>9. WrittenIsSole' /\ OriginalKept' /\ file' \in [File -> Content]
        /\ lock' \in [File -> Cmd \cup {Free}] /\ \A x \in backup : x.whole => x \in backup'
    BY <1>1, LockType DEF IInv, WrittenIsSole, OriginalKept
  <1> QED BY <1>1, <1>3, <1>4, <1>5, <1>6, <1>7, <1>8, <1>9, CommandStep

(* A command takes the answer.                                             *)
LEMMA Answered ==
    ASSUME IInv, NEW c \in Cmd, req[c].pc = "answered", req' = [req EXCEPT ![c] = NoRequest],
           NEW k2 \in CmdType, k2.pc \notin {"receipt", "sent"}, cmd' = [cmd EXCEPT ![c] = k2],
           CmdOK(k2, bound, backup),
           UNCHANGED <<active, row, bound, file, lock, backup>>
    PROVE  IInv'
  <1> DEFINE r2 == NoRequest
  <1>1. r2 \in ReqType /\ RequestOK(r2, bound) /\ r2.pc = "idle" /\ req' = [req EXCEPT ![c] = r2]
    BY NoRequestType, NoRequestOK
  <1> HIDE DEF r2
  <1>2. LinkOK(k2, r2)
    BY <1>1 DEF LinkOK
  <1>3. WrittenIsSole' /\ OriginalKept' /\ file' \in [File -> Content]
        /\ lock' \in [File -> Cmd \cup {Free}] /\ \A x \in backup : x.whole => x \in backup'
        /\ CmdOK(k2, bound, backup')
    BY LockType DEF IInv, WrittenIsSole, OriginalKept
  <1> QED BY <1>1, <1>2, <1>3, CommandStep

LEMMA AnsweredEnd ==
    ASSUME IInv, NEW c \in Cmd, req[c].pc = "answered", req' = [req EXCEPT ![c] = NoRequest],
           NEW outcome \in {"review", "failed"}, End(c, outcome),
           UNCHANGED <<active, row, bound, file, lock, backup>>
    PROVE  IInv'
  <1> DEFINE k2 == EndOf(cmd[c], outcome)
  <1>1. k2 \in CmdType /\ k2.pc = "done" /\ CmdOK(k2, bound, backup)
    BY LockType, EndOK
  <1>2. cmd' = [cmd EXCEPT ![c] = k2]
    BY DEF End, Go, EndOf
  <1> HIDE DEF k2
  <1> QED BY <1>1, <1>2, Answered

LEMMA TakeReceiptKeeps ==
    ASSUME IInv, NEW c \in Cmd, TakeReceipt(c)
    PROVE  IInv'
  <1> DEFINE k == cmd[c]
             r == req[c]
  <1>1. /\ k.pc = "receipt" /\ r.pc = "answered" /\ req' = [req EXCEPT ![c] = NoRequest]
        /\ UNCHANGED <<active, row, bound, file, lock, backup>>
    BY DEF TakeReceipt, local
  <1>2. /\ k \in CmdType /\ CmdOK(k, bound, backup) /\ LinkOK(k, r)
        /\ r \in ReqType /\ RequestOK(r, bound)
    BY DEF IInv, Types
  <1>3. CASE \E outcome \in {"review", "failed"} : End(c, outcome)
    BY <1>1, <1>3, AnsweredEnd
  <1>4. CASE /\ r.answer.status = "verified"
             /\ Go(c, [k EXCEPT !.pc = "lock", !.doi = r.answer.doi])
    <2> DEFINE k2 == [k EXCEPT !.pc = "lock", !.doi = r.answer.doi]
    <2>1. cmd' = [cmd EXCEPT ![c] = k2]
      BY <1>4 DEF Go
    <2>2. r.body = k.sha
      BY <1>1, <1>2, <1>4 DEF LinkOK
    <2>3. Own(Of(k.sha)) = {r.answer.doi} /\ Info(k.sha) = {}
      BY <1>2, <1>4, <2>2 DEF RequestOK, AnswerOK, PaperOf
    <2>4. k.sha.tag = NoDoi
      BY <2>3 DEF Info
    <2>5. r.answer.doi \in Doi \cup {NoDoi}
      BY <1>2 DEF ReqType, AnswerType
    <2>6. r.answer.doi \in Doi
      <3>1. Of(k.sha) \in FactsType
        BY <1>2, FactsOf DEF CmdType
      <3>2. r.answer.doi \in Printed(Of(k.sha))
        BY <2>3 DEF Own
      <3> QED BY <3>1, <3>2 DEF Printed, FactsType, Occurrence
    <2>7. /\ k2 \in CmdType /\ k2.pc = "lock" /\ k2.mode = k.mode /\ k2.file = k.file
          /\ k2.sha = k.sha /\ k2.doi = r.answer.doi /\ k2.by = k.by /\ k2.fast = k.fast
          /\ k2.wrote = k.wrote /\ k2.outcome = k.outcome
      BY <1>2, <2>5 DEF CmdType, Early, Writing
    <2> HIDE DEF k2
    <2>8. CmdOK(k2, bound, backup)
      BY <1>1, <1>2, <2>3, <2>4, <2>6, <2>7 DEF CmdOK, Writing, Early
    <2> QED BY <1>1, <2>1, <2>7, <2>8, Answered
  <1> QED BY <1>3, <1>4 DEF TakeReceipt

LEMMA LockKeeps ==
    ASSUME IInv, NEW c \in Cmd, Lock(c)
    PROVE  IInv'
  <1> DEFINE k == cmd[c]
             k2 == PcTo(k, "backup")
  <1>1. k.pc = "lock" /\ UNCHANGED <<req, active, row, bound, file, backup>>
    BY DEF Lock, server
  <1>2. k \in CmdType /\ CmdOK(k, bound, backup)
    BY LockType
  <1>3. CASE End(c, "failed") /\ UNCHANGED lock
    BY <1>1, <1>3, LockType, EndKeeps
  <1>4. CASE lock' = [lock EXCEPT ![k.file] = c] /\ Go(c, [k EXCEPT !.pc = "backup"])
    <2>1. cmd' = [cmd EXCEPT ![c] = k2]
      BY <1>4 DEF Go, PcTo
    <2>2. /\ k2.pc = "backup" /\ k2.mode = k.mode /\ k2.file = k.file
          /\ k2.sha = k.sha /\ k2.doi = k.doi /\ k2.by = k.by /\ k2.fast = k.fast
          /\ k2.wrote = k.wrote /\ k2.outcome = k.outcome
      BY <1>2, PcToIs DEF Early, Writing
    <2>3. CmdOK(k2, bound, backup')
      BY <1>1, <1>2, <2>2 DEF CmdOK, Writing, Early
    <2>4. lock' \in [File -> Cmd \cup {Free}]
      BY <1>4, LockType
    <2>5. k.pc \in Early \ {"receipt"} /\ "backup" \in (Early \ {"receipt"}) \cup {"prepare"}
      BY <1>1 DEF Early, Writing
    <2> QED BY <1>1, <2>1, <2>3, <2>4, <2>5, LockType, PcToKeeps
  <1> QED BY <1>3, <1>4 DEF Lock

(* From one step of the writing to the next.                               *)
LEMMA WritesOn ==
    ASSUME IInv, NEW c \in Cmd, cmd[c].pc \in Writing, NEW pc \in Writing,
           Go(c, [cmd[c] EXCEPT !.pc = pc]),
           pc \in {"assert", "replace"} => Backup(c, TRUE) \in backup',
           UNCHANGED <<req, active, row, bound, file>>,
           lock' \in [File -> Cmd \cup {Free}],
           \A x \in backup : x.whole => x \in backup'
    PROVE  IInv'
  <1> DEFINE k == cmd[c]
             k2 == PcTo(k, pc)
  <1>1. k \in CmdType /\ CmdOK(k, bound, backup)
    BY LockType
  <1>2. cmd' = [cmd EXCEPT ![c] = k2]
    BY DEF Go, PcTo
  <1>3. /\ k2.pc = pc /\ k2.mode = k.mode /\ k2.file = k.file
        /\ k2.sha = k.sha /\ k2.doi = k.doi /\ k2.by = k.by /\ k2.fast = k.fast
        /\ k2.wrote = k.wrote /\ k2.outcome = k.outcome
    BY <1>1, PcToIs DEF Early
  <1>4. CmdOK(k2, bound, backup')
    BY <1>1, <1>3 DEF CmdOK, Writing, Early, Backup
  <1>5. k.pc \in Early \ {"receipt"} /\ pc \in (Early \ {"receipt"}) \cup {"prepare"}
    BY DEF Early, Writing
  <1> QED BY <1>2, <1>4, <1>5, PcToKeeps

LEMMA BackupKeeps ==
    ASSUME IInv, NEW c \in Cmd, OpenBackup(c) \/ Copy(c) \/ CopyFails(c) \/ AssertUnchanged(c)
    PROVE  IInv'
  <1>1. UNCHANGED <<req, active, row, bound, file>> /\ cmd[c].pc \in Writing
    BY DEF OpenBackup, Copy, CopyFails, AssertUnchanged, server, Writing
  <1>2. cmd[c].pc \notin {"receipt", "sent"}
    BY <1>1 DEF Writing
  <1>3. CASE OpenBackup(c)
    <2>1. CASE backup' = backup \cup {Backup(c, FALSE)} /\ Go(c, [cmd[c] EXCEPT !.pc = "copy"])
               /\ UNCHANGED lock
      <3>1. \A x \in backup : x.whole => x \in backup'
        BY <2>1
      <3>2. lock' \in [File -> Cmd \cup {Free}]
        BY <2>1, LockType
      <3> QED BY <1>1, <2>1, <3>1, <3>2, WritesOn DEF Writing
    <2>2. CASE Reusable(c) /\ Go(c, [cmd[c] EXCEPT !.pc = "assert"]) /\ UNCHANGED <<backup, lock>>
      <3>1. \A x \in backup : x.whole => x \in backup'
        BY <2>2
      <3>2. lock' \in [File -> Cmd \cup {Free}] /\ Backup(c, TRUE) \in backup'
        BY <2>2, LockType DEF Reusable
      <3> QED BY <1>1, <2>2, <3>1, <3>2, WritesOn DEF Writing
    <2>3. CASE End(c, "failed") /\ Unlock(c) /\ UNCHANGED backup
      BY <1>1, <1>2, <2>3, LockType, EndKeeps
    <2> QED BY <1>3, <2>1, <2>2, <2>3 DEF OpenBackup
  <1>4. CASE Copy(c)
    <2>1. /\ Backup(c, TRUE) \in backup' /\ UNCHANGED lock
          /\ Go(c, [cmd[c] EXCEPT !.pc = "assert"])
      BY <1>4 DEF Copy
    <2>2. \A x \in backup : x.whole => x \in backup'
      BY <1>4 DEF Copy, Backup
    <2>3. lock' \in [File -> Cmd \cup {Free}]
      BY <2>1, LockType
    <2> QED BY <1>1, <2>1, <2>2, <2>3, WritesOn DEF Writing
  <1>5. CASE CopyFails(c)
    <2>1. \A x \in backup : x.whole => x \in backup'
      BY <1>5 DEF CopyFails, Backup
    <2>2. End(c, "failed") /\ Unlock(c)
      BY <1>5 DEF CopyFails
    <2> QED BY <1>1, <1>2, <2>1, <2>2, LockType, EndKeeps
  <1>6. CASE AssertUnchanged(c)
    <2>1. cmd[c].pc = "assert" /\ UNCHANGED backup
      BY <1>6 DEF AssertUnchanged
    <2>2. CASE Go(c, [cmd[c] EXCEPT !.pc = "replace"]) /\ UNCHANGED lock
      <3>1. Backup(c, TRUE) \in backup'
        BY <2>1, LockType DEF CmdOK, Backup
      <3>2. \A x \in backup : x.whole => x \in backup'
        BY <2>1
      <3>3. lock' \in [File -> Cmd \cup {Free}]
        BY <2>2, LockType
      <3> QED BY <1>1, <2>2, <3>1, <3>2, <3>3, WritesOn DEF Writing
    <2>3. CASE End(c, "failed") /\ Unlock(c)
      BY <1>1, <1>2, <2>1, <2>3, LockType, EndKeeps
    <2> QED BY <1>6, <2>2, <2>3 DEF AssertUnchanged
  <1> QED BY <1>3, <1>4, <1>5, <1>6

LEMMA ReplaceKeeps ==
    ASSUME IInv, NEW c \in Cmd, Replace(c)
    PROVE  IInv'
  <1> DEFINE k == cmd[c]
             r2 == req[c]
             tagged == [k.sha EXCEPT !.tag = k.doi]
             k2 == [k EXCEPT !.pc = "rehash", !.sha = tagged, !.wrote = TRUE]
  <1>1. /\ k.pc = "replace" /\ UNCHANGED <<req, active, row, bound, backup>>
        /\ file' = [file EXCEPT ![k.file] = tagged] /\ Unlock(c)
    BY DEF Replace, server
  <1>2. k \in CmdType /\ CmdOK(k, bound, backup) /\ LinkOK(k, r2)
        /\ r2 \in ReqType /\ RequestOK(r2, bound) /\ req' = [req EXCEPT ![c] = r2]
    BY <1>1 DEF IInv, Types
  <1>3. cmd' = [cmd EXCEPT ![c] = k2]
    BY DEF Replace, Go
  <1>4. k.sha \in Content /\ k.file \in File /\ Own(Of(k.sha)) = {k.doi} /\ k.sha.tag = NoDoi
        /\ [file |-> k.file, of |-> k.sha, whole |-> TRUE] \in backup /\ k.mode = "write"
    BY <1>1, <1>2 DEF CmdOK, Writing, CmdType
  <1>5. k.doi \in Doi
    <2>1. Of(k.sha) \in FactsType /\ k.doi \in Printed(Of(k.sha))
      BY <1>4, FactsOf DEF Own
    <2> QED BY <2>1 DEF Printed, FactsType, Occurrence
  <1>6. /\ tagged \in Content /\ tagged.tag = k.doi /\ Of(tagged) = Of(k.sha)
        /\ [tagged EXCEPT !.tag = NoDoi] = k.sha
    BY <1>4, <1>5 DEF Content, Of
  <1> HIDE DEF tagged, r2
  <1>7. /\ k2 \in CmdType /\ k2.pc = "rehash" /\ k2.mode = k.mode /\ k2.file = k.file
        /\ k2.sha = tagged /\ k2.doi = k.doi /\ k2.by = k.by /\ k2.fast = k.fast
        /\ k2.wrote /\ k2.outcome = k.outcome
    BY <1>2, <1>6 DEF CmdType, Early
  <1> HIDE DEF k2
  <1>8. CmdOK(k2, bound, backup')
    BY <1>1, <1>2, <1>4, <1>5, <1>6, <1>7 DEF CmdOK, Writing, Early
  <1>9. file' \in [File -> Content] /\ \A f \in File : file'[f] = IF f = k.file THEN tagged ELSE file[f]
    BY <1>1, <1>4, <1>6, LockType
  <1>10. WrittenIsSole'
    BY <1>4, <1>6, <1>9 DEF IInv, WrittenIsSole, Own
  <1>11. OriginalKept'
    BY <1>1, <1>4, <1>6, <1>9 DEF IInv, OriginalKept
  <1>12. r2.pc = "idle" /\ LinkOK(k2, r2) /\ req[c].pc # "asked"
    BY <1>1, <1>2, <1>7 DEF LinkOK, r2
  <1>13. lock' \in [File -> Cmd \cup {Free}] /\ \A x \in backup : x.whole => x \in backup'
    BY <1>1, LockType
  <1> QED BY <1>1, <1>2, <1>3, <1>7, <1>8, <1>9, <1>10, <1>11, <1>12, <1>13, CommandStep

LEMMA RehashKeeps ==
    ASSUME IInv, NEW c \in Cmd, Rehash(c)
    PROVE  IInv'
  <1> DEFINE k == cmd[c]
             k2 == PcTo(k, "prepare")
  <1>1. k.pc = "rehash" /\ UNCHANGED <<req, active, row, bound, file, lock, backup>>
    BY DEF Rehash, server, local
  <1>2. k \in CmdType /\ CmdOK(k, bound, backup)
    BY LockType
  <1>3. k.by \notin {"pdf-content", "filename"}
    BY <1>1, <1>2 DEF CmdOK, Early
  <1>4. CASE End(c, "failed") \/ End(c, "existing")
    BY <1>1, <1>3, <1>4, LockType, EndKeeps
  <1>5. CASE Go(c, [k EXCEPT !.pc = "prepare"])
    <2>1. cmd' = [cmd EXCEPT ![c] = k2]
      BY <1>5 DEF Go, PcTo
    <2>2. /\ k2.pc = "prepare" /\ k2.mode = k.mode /\ k2.file = k.file
          /\ k2.sha = k.sha /\ k2.doi = k.doi /\ k2.by = k.by /\ k2.fast = k.fast
          /\ k2.wrote = k.wrote /\ k2.outcome = k.outcome
      BY <1>2, PcToIs
    <2>3. CmdOK(k2, bound, backup')
      BY <1>1, <1>2, <2>2 DEF CmdOK, Writing, Early
    <2>4. k.pc \in Early \ {"receipt"}
      BY <1>1 DEF Early
    <2> QED BY <1>1, <2>1, <2>3, <2>4, LockType, PcToKeeps
  <1> QED BY <1>4, <1>5 DEF Rehash
-----------------------------------------------------------------------------
(* The upload itself.                                                      *)
(* What is sent with the file rests on the file, its user or the command.   *)
LEMMA HintOK ==
    ASSUME IInv, NEW c \in Cmd, cmd[c].pc = "prepare", NEW e, e = Evidence[Bytes(c)],
           NEW hint, hint = Hint(c, e), hint.status = "ok"
    PROVE  /\ hint.doi \in Doi \cup {NoDoi} /\ hint.by \in Bys
           /\ hint.by = "csv-trusted" <=> cmd[c].mode = "trusted"
           /\ hint.by = "csv-trusted" => hint.doi \in Doi
           /\ hint.by = "user" => UserSays(c) /\ hint.doi = Said[cmd[c].file]
           /\ hint.by = "pdf-content" /\ ~cmd[c].fast => Info(Bytes(c)) = {}
  <1> DEFINE k == cmd[c]
             info == Info(Bytes(c))
             guess == Guess(e)
             H(d, by) == [status |-> "ok", doi |-> d, by |-> by]
             own == [status |-> e.status, doi |-> e.doi, by |-> e.source]
  <1>1. /\ k \in CmdType /\ CmdOK(k, bound, backup) /\ Bytes(c) \in Content
        /\ k.doi \in Doi \cup {NoDoi} /\ k.by \in Bys /\ k.file \in File
    BY LockType DEF CmdType
  <1>2. /\ k.by = "csv-trusted" <=> k.mode = "trusted"
        /\ k.by = "csv-trusted" => k.doi \in Doi
        /\ k.by # "user"
    BY <1>1 DEF CmdOK
  <1>3. /\ VerdictOK(e) /\ (info # {} => e.source \in {"pdf-metadata", "none"})
    BY <1>1, EvidenceOK
  <1>4. Said[k.file] \in Doi
    BY <1>1, WritebackAssumption
  <1>5. Sources \cup {"none", "user", "csv-trusted"} \subseteq Bys
    BY DEF Sources, Bys, Automatic, Hows, Whys
  <1>6. \A s \in Sources \cup {"none"} : s # "user" /\ s # "csv-trusted"
    BY DEF Sources
  <1>7. CASE k.mode = "trusted"
    <2>1. hint = H(k.doi, k.by)
      BY <1>7 DEF Hint
    <2> QED BY <1>1, <1>2, <1>7, <2>1
  <1>8. e.status = "ok" => e.doi \in Doi /\ e.source \in Sources
    BY <1>3 DEF VerdictOK
  <1>9. CASE k.mode # "trusted" /\ info # {}
    <2>1. hint = own
      BY <1>9 DEF Hint
    <2>2. e.status = "ok" /\ hint.doi = e.doi /\ hint.by = e.source
      BY <2>1
    <2> HIDE DEF own, info
    <2> QED BY <1>3, <1>5, <1>6, <1>8, <1>9, <2>2
  <1>10. CASE k.mode # "trusted" /\ info = {} /\ UserSays(c)
    <2>1. hint = H(Said[k.file], "user")
      BY <1>10 DEF Hint
    <2> QED BY <1>4, <1>5, <1>10, <2>1
  <1>11. CASE k.mode # "trusted" /\ info = {} /\ ~UserSays(c) /\ k.fast
    <2>1. hint = H(k.doi, k.by)
      BY <1>11 DEF Hint
    <2> QED BY <1>1, <1>2, <1>11, <2>1
  <1>12. CASE k.mode # "trusted" /\ info = {} /\ ~UserSays(c) /\ ~k.fast
    <2>1. hint = CASE e.status = "conflict" /\ k.mode # "offline" -> H(guess.doi, guess.source)
                   [] e.status = "no-doi" -> H(NoDoi, "none")
                   [] OTHER -> own
      BY <1>12 DEF Hint
    <2>2. CASE e.status = "conflict" /\ k.mode # "offline"
      <3>1. guess.doi \in Doi /\ guess.source \in Sources
        BY <1>3, <2>2, GuessOK DEF FileCandidate
      <3>2. hint = H(guess.doi, guess.source)
        BY <2>1, <2>2
      <3> HIDE DEF guess
      <3> QED BY <1>5, <1>6, <1>12, <3>1, <3>2
    <2>3. CASE e.status = "no-doi"
      <3>1. hint = H(NoDoi, "none")
        BY <2>1, <2>3
      <3> QED BY <1>5, <1>12, <3>1
    <2>4. CASE ~(e.status = "conflict" /\ k.mode # "offline") /\ e.status # "no-doi"
      <3>1. hint = own
        BY <2>1, <2>4
      <3>2. e.status = "ok" /\ hint.doi = e.doi /\ hint.by = e.source
        BY <3>1
      <3> HIDE DEF own, info
      <3> QED BY <1>5, <1>6, <1>8, <1>12, <3>2 DEF info
    <2> QED BY <2>2, <2>3, <2>4
  <1> QED BY <1>7, <1>9, <1>10, <1>11, <1>12

LEMMA PrepareKeeps ==
    ASSUME IInv, NEW c \in Cmd, Prepare(c)
    PROVE  IInv'
  <1> DEFINE k == cmd[c]
             e == Evidence[Bytes(c)]
             hint == Hint(c, e)
  <1>1. /\ k.pc = "prepare" /\ UNCHANGED <<req, active, row, bound, file, lock, backup>>
        /\ \/ End(c, "review")
           \/ /\ hint.status = "ok" /\ AlreadyStored(c, hint)
              /\ Go(c, [NoCmd EXCEPT !.pc = "done", !.mode = k.mode, !.file = k.file,
                                     !.sha = Bytes(c), !.doi = hint.doi, !.by = hint.by,
                                     !.outcome = "existing"])
           \/ hint.status = "ok" /\ Go(c, [k EXCEPT !.pc = "send", !.doi = hint.doi, !.by = hint.by])
    BY DEF Prepare, server, local
  <1>2. k \in CmdType /\ CmdOK(k, bound, backup) /\ Bytes(c) \in Content
    BY LockType
  <1>3. hint.status = "ok" =>
           /\ hint.doi \in Doi \cup {NoDoi} /\ hint.by \in Bys
           /\ hint.by = "csv-trusted" <=> k.mode = "trusted"
           /\ hint.by = "csv-trusted" => hint.doi \in Doi
           /\ hint.by = "user" => UserSays(c) /\ hint.doi = Said[k.file]
           /\ hint.by = "pdf-content" /\ ~k.fast => Info(Bytes(c)) = {}
    BY <1>1, HintOK
  <1> HIDE DEF hint
  <1>4. CASE End(c, "review")
    BY <1>1, <1>4, LockType, EndKeeps
  <1>5. CASE /\ hint.status = "ok" /\ AlreadyStored(c, hint)
             /\ Go(c, [NoCmd EXCEPT !.pc = "done", !.mode = k.mode, !.file = k.file,
                                    !.sha = Bytes(c), !.doi = hint.doi, !.by = hint.by,
                                    !.outcome = "existing"])
    <2> DEFINE k2 == [NoCmd EXCEPT !.pc = "done", !.mode = k.mode, !.file = k.file,
                                   !.sha = Bytes(c), !.doi = hint.doi, !.by = hint.by,
                                   !.outcome = "existing"]
    <2>1. cmd' = [cmd EXCEPT ![c] = k2]
      BY <1>5 DEF Go
    <2>2. k2 \in CmdType
      BY <1>2, <1>3, <1>5, NoCmdType DEF CmdType
    <2>3. /\ k2.pc = "done" /\ k2.mode = k.mode /\ k2.file = k.file /\ k2.sha = Bytes(c)
          /\ k2.doi = hint.doi /\ k2.by = hint.by /\ k2.outcome = "existing"
      BY NoCmdType DEF CmdType
    <2>4. k2.wrote = FALSE /\ k2.fast = FALSE
      BY NoCmdType DEF CmdType, NoCmd
    <2> HIDE DEF k2
    <2>5. hint.doi \in Doi /\ hint.by # "filename" /\ ~k.fast
      BY <1>3, <1>5 DEF AlreadyStored
    <2>6. CmdOK(k2, bound, backup')
      BY <1>3, <1>5, <2>3, <2>4, <2>5 DEF CmdOK, Writing, Early
    <2> QED BY <1>1, <2>1, <2>2, <2>3, <2>6, LockType, QuietStep
  <1>6. CASE hint.status = "ok" /\ Go(c, [k EXCEPT !.pc = "send", !.doi = hint.doi, !.by = hint.by])
    <2> DEFINE k2 == [k EXCEPT !.pc = "send", !.doi = hint.doi, !.by = hint.by]
    <2>1. cmd' = [cmd EXCEPT ![c] = k2]
      BY <1>6 DEF Go
    <2>2. /\ k2 \in CmdType /\ k2.pc = "send" /\ k2.mode = k.mode /\ k2.file = k.file
          /\ k2.sha = k.sha /\ k2.doi = hint.doi /\ k2.by = hint.by /\ k2.fast = k.fast
          /\ k2.wrote = k.wrote /\ k2.outcome = k.outcome
      BY <1>2, <1>3, <1>6 DEF CmdType
    <2> HIDE DEF k2
    <2>3. CmdOK(k2, bound, backup')
      BY <1>1, <1>2, <1>3, <1>6, <2>2 DEF CmdOK, Writing, Early, UserSays
    <2> QED BY <1>1, <2>1, <2>2, <2>3, LockType, QuietStep
  <1> QED BY <1>1, <1>4, <1>5, <1>6

LEMMA SendKeeps ==
    ASSUME IInv, NEW c \in Cmd, Send(c)
    PROVE  IInv'
  <1> DEFINE k == cmd[c]
             tries == k.tries + 1
             k2 == [k EXCEPT !.pc = "sent", !.tries = tries]
             r == Request(c, "upload")
             offline == k.mode = "offline"
             r2 == [r EXCEPT !.hint = k.doi, !.by = k.by, !.skip = offline]
  <1>1. /\ k.pc = "send" /\ UNCHANGED <<active, row, bound, file, lock, backup>>
        /\ req' = [req EXCEPT ![c] = r2]
    BY DEF Send, local
  <1>2. k \in CmdType /\ CmdOK(k, bound, backup) /\ LinkOK(k, req[c])
    BY LockType
  <1>3. cmd' = [cmd EXCEPT ![c] = k2]
    BY DEF Send, Go
  <1>4. tries \in Nat
    BY <1>2 DEF CmdType
  <1> HIDE DEF tries
  <1>5. /\ k2 \in CmdType /\ k2.pc = "sent" /\ k2.mode = k.mode /\ k2.file = k.file
        /\ k2.sha = k.sha /\ k2.doi = k.doi /\ k2.by = k.by /\ k2.fast = k.fast
        /\ k2.wrote = k.wrote /\ k2.outcome = k.outcome
    BY <1>2, <1>4 DEF CmdType
  <1>6. /\ r \in ReqType /\ r.pc = "parse" /\ r.kind = "upload" /\ r.body = Bytes(c)
        /\ r.sha = k.sha /\ r.left = {} /\ r.fits = {} /\ r.down = FALSE
        /\ r.why = "none" /\ r.answer = NoAnswer
    BY RequestIs
  <1>7. k.doi \in Doi \cup {NoDoi} /\ k.by \in Bys /\ k.file \in File /\ offline \in BOOLEAN
    BY <1>2 DEF CmdType
  <1> HIDE DEF k2, r, offline
  <1>8. /\ r2 \in ReqType /\ r2.pc = "parse" /\ r2.kind = "upload" /\ r2.body = Bytes(c)
        /\ r2.sha = k.sha /\ r2.left = {} /\ r2.fits = {} /\ r2.down = FALSE
        /\ r2.why = "none" /\ r2.answer = NoAnswer /\ r2.hint = k.doi /\ r2.by = k.by
    BY <1>6, <1>7 DEF ReqType
  <1> HIDE DEF r2
  <1>9. /\ r2.by = "user" => UserSaid(r2.sha, r2.hint)
        /\ Trusted(r2) => r2.hint \in Doi
    BY <1>1, <1>2, <1>7, <1>8 DEF CmdOK, UserSaid, Trusted
  <1>10. RequestOK(r2, bound)
    BY <1>8, <1>9 DEF RequestOK, ReqOK, AskOK, VerifyOK, StoreOK, AnswerOK, Asking, Going,
                NoAnswer, OnePerDoi
  <1>11. LinkOK(k2, r2) /\ req[c].pc = "idle"
    BY <1>1, <1>2, <1>5, <1>8 DEF LinkOK
  <1>12. CmdOK(k2, bound, backup')
    BY <1>1, <1>2, <1>5 DEF CmdOK, Writing, Early
  <1>13. WrittenIsSole' /\ OriginalKept' /\ file' \in [File -> Content]
        /\ lock' \in [File -> Cmd \cup {Free}] /\ \A x \in backup : x.whole => x \in backup'
    BY <1>1, LockType DEF IInv, WrittenIsSole, OriginalKept
  <1> QED BY <1>1, <1>3, <1>5, <1>8, <1>10, <1>11, <1>12, <1>13, CommandStep

LEMMA ReceiveKeeps ==
    ASSUME IInv, NEW c \in Cmd, Receive(c)
    PROVE  IInv'
  <1> DEFINE k == cmd[c]
             r == req[c]
  <1>1. /\ k.pc = "sent" /\ r.pc = "answered" /\ req' = [req EXCEPT ![c] = NoRequest]
        /\ UNCHANGED <<active, row, bound, file, lock, backup>>
    BY DEF Receive, local
  <1>2. /\ k \in CmdType /\ CmdOK(k, bound, backup) /\ LinkOK(k, r)
        /\ r \in ReqType /\ RequestOK(r, bound)
    BY DEF IInv, Types
  <1>3. CASE \E outcome \in {"review", "failed"} : End(c, outcome)
    BY <1>1, <1>3, AnsweredEnd
  <1>4. CASE Go(c, [k EXCEPT !.pc = "send"])
    <2> DEFINE k2 == PcTo(k, "send")
    <2>1. cmd' = [cmd EXCEPT ![c] = k2]
      BY <1>4 DEF Go, PcTo
    <2>2. /\ k2 \in CmdType /\ k2.pc = "send" /\ k2.mode = k.mode /\ k2.file = k.file
          /\ k2.sha = k.sha /\ k2.doi = k.doi /\ k2.by = k.by /\ k2.fast = k.fast
          /\ k2.wrote = k.wrote /\ k2.outcome = k.outcome
      BY <1>2, PcToIs
    <2> HIDE DEF k2
    <2>3. CmdOK(k2, bound, backup)
      BY <1>1, <1>2, <2>2 DEF CmdOK, Writing, Early
    <2> QED BY <1>1, <2>1, <2>2, <2>3, Answered
  <1>5. CASE /\ r.answer.status = "stored"
             /\ Go(c, [NoCmd EXCEPT !.pc = "done", !.mode = k.mode, !.file = k.file,
                                    !.sha = k.sha, !.doi = r.answer.doi, !.by = r.answer.how,
                                    !.wrote = k.wrote, !.outcome = "stored"])
    <2> DEFINE k2 == [NoCmd EXCEPT !.pc = "done", !.mode = k.mode, !.file = k.file,
                                    !.sha = k.sha, !.doi = r.answer.doi, !.by = r.answer.how,
                                    !.wrote = k.wrote, !.outcome = "stored"]
    <2>1. cmd' = [cmd EXCEPT ![c] = k2]
      BY <1>5 DEF Go
    <2>2. r.answer.doi \in Doi \cup {NoDoi} /\ r.answer.how \in Hows
      BY <1>2 DEF ReqType, AnswerType
    <2>3. r.answer.how \in Bys /\ r.answer.how # "csv-trusted" /\ r.answer.how # "user"
      BY <2>2 DEF Bys, Hows, Whys
    <2>4. k2 \in CmdType
      BY <1>2, <2>2, <2>3, NoCmdType DEF CmdType
    <2>5. /\ k2.pc = "done" /\ k2.mode = k.mode /\ k2.file = k.file /\ k2.sha = k.sha
          /\ k2.doi = r.answer.doi /\ k2.by = r.answer.how /\ k2.wrote = k.wrote
          /\ k2.outcome = "stored"
      BY NoCmdType DEF CmdType
    <2>6. k2.fast = FALSE
      BY NoCmdType DEF CmdType, NoCmd
    <2> HIDE DEF k2
    <2>7. r.body = k.sha /\ r.by = k.by
      BY <1>1, <1>2, <1>5 DEF LinkOK
    <2>8. k.wrote => [body |-> k.sha, doi |-> k.sha.tag] \in bound
      <3> SUFFICES ASSUME k.wrote
                   PROVE  [body |-> k.sha, doi |-> k.sha.tag] \in bound
        OBVIOUS
      <3>1. k.mode = "write" /\ k.sha.tag \in Doi /\ k.by # "csv-trusted"
        BY <1>1, <1>2 DEF CmdOK
      <3>2. /\ [body |-> k.sha, doi |-> r.answer.doi] \in bound
            /\ Info(k.sha) \subseteq {r.answer.doi}
        BY <1>2, <1>5, <2>7, <3>1 DEF RequestOK, AnswerOK, Trusted
      <3>3. Info(k.sha) = {k.sha.tag}
        BY <3>1, IdentityAssumption DEF Info, Doi, NoDoi
      <3> QED BY <3>2, <3>3
    <2>9. CmdOK(k2, bound, backup)
      BY <1>1, <1>2, <2>3, <2>5, <2>6, <2>8 DEF CmdOK, Writing, Early
    <2> QED BY <1>1, <2>1, <2>4, <2>5, <2>9, Answered
  <1> QED BY <1>3, <1>4, <1>5 DEF Receive
-----------------------------------------------------------------------------
(* The user and the death of a command.                                    *)
LEMMA EditKeeps ==
    ASSUME IInv, NEW f \in DOMAIN Edited, Edit(f)
    PROVE  IInv'
  <1> DEFINE new == [paper |-> Edited[f], tag |-> NoDoi]
  <1>1. /\ UNCHANGED <<req, active, row, bound, cmd, lock, backup>>
        /\ file' = [file EXCEPT ![f] = new]
    BY DEF Edit, server
  <1>2. new \in Content /\ new.tag = NoDoi /\ f \in File
    BY WritebackAssumption DEF Content
  <1> HIDE DEF new
  <1>3. file' \in [File -> Content] /\ \A x \in File : file'[x] = IF x = f THEN new ELSE file[x]
    BY <1>1, <1>2 DEF IInv, Types
  <1>4. Types'
    BY <1>1, <1>3 DEF IInv, Types
  <1>5. WrittenIsSole' /\ OriginalKept'
    BY <1>1, <1>2, <1>3 DEF IInv, WrittenIsSole, OriginalKept
  <1>6. RowsOK'
    BY <1>1 DEF IInv, RowsOK
  <1>7. \A c \in Cmd : /\ RequestOK(req'[c], bound') /\ LinkOK(cmd'[c], req'[c])
                       /\ CmdOK(cmd'[c], bound', backup')
    BY <1>1 DEF IInv
  <1> QED BY <1>4, <1>5, <1>6, <1>7 DEF IInv

LEMMA CrashKeeps ==
    ASSUME IInv, NEW c \in Cmd, Crash(c)
    PROVE  IInv'
  <1> DEFINE k == cmd[c]
             k2 == [NoCmd EXCEPT !.pc = "hash", !.mode = k.mode, !.file = k.file]
  <1>1. /\ k.pc \in {"backup", "copy", "assert", "replace", "rehash"}
        /\ UNCHANGED <<req, active, row, bound, file, backup>>
        /\ cmd' = [cmd EXCEPT ![c] = k2]
        /\ lock' = [f \in File |-> IF lock[f] = c THEN Free ELSE lock[f]]
    BY DEF Crash, server, Go
  <1>2. k \in CmdType /\ CmdOK(k, bound, backup)
    BY LockType
  <1>3. k2 \in CmdType
    BY <1>2, NoCmdType DEF CmdType, Early
  <1>4. k2.pc = "hash" /\ k2.mode = k.mode /\ k2.file = k.file
    BY NoCmdType DEF CmdType
  <1>5. k2.by = "none" /\ ~k2.fast /\ ~k2.wrote /\ k2.outcome = "none"
    BY NoCmdType DEF CmdType, NoCmd
  <1> HIDE DEF k2
  <1>6. k.mode = "write"
    BY <1>1, <1>2 DEF CmdOK, Writing
  <1>7. CmdOK(k2, bound, backup')
    BY <1>4, <1>5, <1>6 DEF CmdOK, Writing, Early
  <1>8. lock' \in [File -> Cmd \cup {Free}] /\ \A x \in backup : x.whole => x \in backup'
    BY <1>1, LockType
  <1> QED BY <1>1, <1>3, <1>4, <1>7, <1>8, QuietStep

(* The invariant is inductive.                                             *)
LEMMA InitHolds == Init => IInv
  <1> SUFFICES ASSUME Init PROVE IInv
    OBVIOUS
  <1>1. NoRow \in RowType
    BY NoBodyType DEF NoRow, RowType
  <1>2. \A f \in File : [paper |-> f, tag |-> NoDoi] \in Content
    BY WritebackAssumption DEF Content
  <1>3. {c \in Cmd : req[c].pc = "asked"} = {}
    BY NoRequestOK DEF Init
  <1>4. Types
    <2>1. req \in [Cmd -> ReqType] /\ cmd \in [Cmd -> CmdType]
      BY NoRequestType, NoCmdType DEF Init
    <2>2. row \in [Doi -> RowType] /\ bound \subseteq [body: Content, doi: Doi]
      BY <1>1 DEF Init
    <2>3. file \in [File -> Content] /\ lock \in [File -> Cmd \cup {Free}]
      BY <1>2 DEF Init
    <2>4. active = Cardinality({c \in Cmd : req[c].pc = "asked"})
      BY <1>3, FS_EmptySet DEF Init
    <2> QED BY <2>1, <2>2, <2>3, <2>4 DEF Types
  <1>5. ASSUME NEW c \in Cmd
        PROVE  /\ RequestOK(req[c], bound) /\ LinkOK(cmd[c], req[c])
               /\ CmdOK(cmd[c], bound, backup)
    <2>1. req[c] = NoRequest /\ cmd[c] = NoCmd
      BY DEF Init
    <2>2. /\ NoCmd.pc = "idle" /\ ~NoCmd.wrote /\ NoCmd.mode = "upload" /\ NoCmd.by = "none"
          /\ NoCmd.outcome = "none" /\ ~NoCmd.fast
      BY DEF NoCmd
    <2>3. LinkOK(NoCmd, NoRequest)
      BY <2>2, NoRequestOK DEF LinkOK
    <2>4. CmdOK(NoCmd, bound, backup)
      BY <2>2 DEF CmdOK, Writing, Early
    <2> QED BY <2>1, <2>3, <2>4, NoRequestOK
  <1>6. RowsOK
    <2>1. \A d \in Doi : row[d] = NoRow /\ NoRow.title = NoWork
      BY DEF Init, NoRow
    <2>2. bound = {}
      BY DEF Init
    <2> QED BY <2>1, <2>2 DEF RowsOK
  <1>7. WrittenIsSole /\ OriginalKept
    <2>1. \A f \in File : file[f].tag = NoDoi
      BY DEF Init
    <2> QED BY <2>1 DEF WrittenIsSole, OriginalKept
  <1> QED BY <1>4, <1>5, <1>6, <1>7 DEF IInv

LEMMA ServerKeeps ==
    ASSUME IInv, NEW c \in Cmd, Provider(c)
    PROVE  IInv'
  <1>1. ServerStep(c) /\ UNCHANGED <<cmd, file, lock, backup>>
    BY DEF Provider
  <1>2. CASE Parse(c)
    BY <1>1, <1>2, ParseKeeps
  <1>3. CASE NextCandidate(c)
    BY <1>1, <1>3, NextCandidateKeeps
  <1>4. CASE Settle(c)
    BY <1>1, <1>4, SettleKeeps
  <1>5. CASE Receipt(c)
    BY <1>1, <1>5, ReceiptKeeps
  <1>6. CASE TakeSlot(c)
    BY <1>1, <1>6, TakeSlotKeeps
  <1>7. CASE Sleep(c)
    BY <1>1, <1>7, SleepKeeps
  <1>8. CASE Answer(c)
    BY <1>1, <1>8, AnswerKeeps
  <1>9. CASE Refresh(c)
    BY <1>1, <1>9, RefreshKeeps
  <1>10. CASE Store(c)
    BY <1>1, <1>10, StoreKeeps
  <1>11. CASE Reject(c)
    BY <1>1, <1>11, RejectKeeps
  <1> QED BY <1>1, <1>2, <1>3, <1>4, <1>5, <1>6, <1>7, <1>8, <1>9, <1>10, <1>11 DEF ServerStep

LEMMA ClientKeeps ==
    ASSUME IInv, NEW c \in Cmd, ClientStep(c)
    PROVE  IInv'
  <1>1. CASE Probe(c)
    BY <1>1, ProbeKeeps
  <1>2. CASE Check(c)
    BY <1>2, CheckKeeps
  <1>3. CASE Hash(c)
    BY <1>3, HashKeeps
  <1>4. CASE Inspect(c)
    BY <1>4, InspectKeeps
  <1>5. CASE AskReceipt(c)
    BY <1>5, AskReceiptKeeps
  <1>6. CASE TakeReceipt(c)
    BY <1>6, TakeReceiptKeeps
  <1>7. CASE Lock(c)
    BY <1>7, LockKeeps
  <1>8. CASE OpenBackup(c) \/ Copy(c) \/ CopyFails(c) \/ AssertUnchanged(c)
    BY <1>8, BackupKeeps
  <1>9. CASE Replace(c)
    BY <1>9, ReplaceKeeps
  <1>10. CASE Rehash(c)
    BY <1>10, RehashKeeps
  <1>11. CASE Prepare(c)
    BY <1>11, PrepareKeeps
  <1>12. CASE Send(c)
    BY <1>12, SendKeeps
  <1>13. CASE Receive(c)
    BY <1>13, ReceiveKeeps
  <1> QED BY <1>1, <1>2, <1>3, <1>4, <1>5, <1>6, <1>7, <1>8, <1>9, <1>10, <1>11, <1>12, <1>13
          DEF ClientStep

LEMMA NextKeeps == IInv /\ [Next]_vars => IInv'
  <1> SUFFICES ASSUME IInv, [Next]_vars PROVE IInv'
    OBVIOUS
  <1>1. CASE \E c \in Cmd : Start(c)
    BY <1>1, StartKeeps
  <1>2. CASE \E c \in Cmd : ClientStep(c)
    BY <1>2, ClientKeeps
  <1>3. CASE \E c \in Cmd : Provider(c)
    BY <1>3, ServerKeeps
  <1>4. CASE \E c \in Cmd : Crash(c)
    BY <1>4, CrashKeeps
  <1>5. CASE \E f \in DOMAIN Edited : Edit(f)
    BY <1>5, EditKeeps
  <1>6. CASE UNCHANGED vars
    BY <1>6 DEF vars, IInv, Types, RowsOK, WrittenIsSole, OriginalKept
  <1> QED BY <1>1, <1>2, <1>3, <1>4, <1>5, <1>6 DEF Next

LEMMA Inductive == Spec => []IInv
  <1> QED BY InitHolds, NextKeeps, PTL DEF Spec
-----------------------------------------------------------------------------
(* Every request and command has its type, the count of slots in use is the *)
(* number of requests under way, and a row exists for a DOI exactly if      *)
(* bytes are bound to it.  (crossref.py:23-47, main_helpers.py:203-441)     *)
THEOREM TypeCorrect == Spec => []TypeOK
  <1>1. IInv => TypeOK
    <2> SUFFICES ASSUME IInv PROVE TypeOK
      OBVIOUS
    <2>1. ASSUME NEW c \in Cmd
          PROVE  /\ DOMAIN req[c] = DOMAIN NoRequest /\ DOMAIN cmd[c] = DOMAIN NoCmd
                 /\ req[c].body \in Content /\ req[c].lost \subseteq Doi
                 /\ cmd[c].sha \in Content
                 /\ cmd[c].pc \in {"receipt", "sent"} <=> req[c].pc # "idle"
      <3>1. req[c] \in ReqType /\ cmd[c] \in CmdType /\ LinkOK(cmd[c], req[c])
        BY DEF IInv, Types
      <3>2. DOMAIN req[c] = DOMAIN NoRequest
        BY <3>1, NoRequestType DEF ReqType
      <3>3. DOMAIN cmd[c] = DOMAIN NoCmd
        BY <3>1, NoCmdType DEF CmdType
      <3> QED BY <3>1, <3>2, <3>3 DEF ReqType, CmdType, LinkOK
    <2>2. \A b \in bound : b.body \in Content
      BY DEF IInv, Types
    <2> QED BY <2>1, <2>2 DEF TypeOK, IInv, Types, RowsOK
  <1> QED BY <1>1, Inductive, PTL

(* --write-doi writes the one DOI on the first page that is the article's,  *)
(* whichever lookups fail.  (doi_writeback.py:194-269)                      *)
THEOREM SoleWritten == Spec => []WrittenIsSole
  <1>1. IInv => WrittenIsSole
    BY DEF IInv
  <1> QED BY <1>1, Inductive, PTL

(* The bytes that --write-doi read, and into which it wrote the DOI, are in *)
(* a complete backup, also after a crash and with any number of commands at *)
(* work.  (pdf_meta.py:350-470)                                             *)
THEOREM BytesKept == Spec => []OriginalKept
  <1>1. IInv => OriginalKept
    BY DEF IInv
  <1> QED BY <1>1, Inductive, PTL

(* A command that reports a DOI as written and the file as stored has       *)
(* stored these very bytes under that DOI.  (user.py:1735-1747)             *)
THEOREM WrittenStored == Spec => []WrittenIsBound
  <1>1. IInv => WrittenIsBound
    BY DEF IInv, CmdOK, WrittenIsBound
  <1> QED BY <1>1, Inductive, PTL
=============================================================================

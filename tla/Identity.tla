------------------------------- MODULE Identity -------------------------------
(***************************************************************************)
(* Which article is a PDF?  The rules by which server and client find DOIs  *)
(* in a file, rate them and compare the file with what a registry says of   *)
(* a DOI (doi.py, identity_shared.py, article_title.py, and the decisions   *)
(* of main_helpers.py and doi_writeback.py).                                *)
(*                                                                          *)
(* A file is its facts: the occurrences of DOIs in its text, its raw bytes, *)
(* links, Document Info and name, and the titles that stand on it.  How     *)
(* text is parsed and titles are compared glyph by glyph is left out.       *)
(***************************************************************************)
EXTENDS Integers, FiniteSets

CONSTANTS Work,       \* articles: title, authors and year
          NoWork,
          LastDoi,    \* DOIs are 1..LastDoi, in the order of the strings
          Registry,   \* what the providers say of a DOI
          Paper,      \* PDFs as their authors and users made them
          Facts,      \* what can be read off each of them
          MaxTried    \* candidates looked up at most (12)

Doi   == 1..LastDoi
NoDoi == 0

Occurrence == [doi: Doi, page: 1..3, part: {"head", "body", "refs"},
               label: BOOLEAN,       \* behind "doi:" or a doi.org address
               url: BOOLEAN]         \* within the address of a publisher
RecordType == [at: {"crossref", "doi.org", "semantic-scholar", "none"},
               kind: {"article", "other", "container"},
               work: Work, canonical: Doi]
FactsType  == [work: Work,           \* the article that it is
               readable: BOOLEAN,    \* its pages have text
               text: SUBSET Occurrence,
               raw: SUBSET [doi: Doi, at: {"top", "body", "refs"}],
               links: SUBSET Doi, info: SUBSET Doi, name: Doi \cup {NoDoi},
               heads: SUBSET Work,   \* titles that stand as heading lines
               mentions: SUBSET [work: Work, page: 1..2],   \* in prose, too
               title: Work \cup {NoWork},  \* the title that the layout suggests
               byline: BOOLEAN,      \* author and year stand at the title
               masthead: BOOLEAN,    \* ISSN, history, contact, large heading
               notice: BOOLEAN,      \* a correction, comment or manuscript
               sealed: BOOLEAN]      \* signed or certified

ASSUME IdentityAssumption ==
    /\ NoWork \notin Work
    /\ LastDoi \in Nat \ {0} /\ MaxTried \in Nat \ {0}
    /\ Registry \in [Doi -> RecordType]
    /\ Facts \in [Paper -> FactsType]
    /\ \A p \in Paper : ~Facts[p].readable => Facts[p].text = {}

(* Bytes: a paper as it was made, or with a DOI written into its Info.      *)
Content == [paper: Paper, tag: Doi \cup {NoDoi}]
Of(k)   == Facts[k.paper]
Info(k) == IF k.tag = NoDoi THEN Of(k).info ELSE {k.tag}
-----------------------------------------------------------------------------
(* Candidates and their scores.                                             *)
Clamp(s) == IF s < 5 THEN 5 ELSE IF s > 88 THEN 88 ELSE s

TextScore(o) ==
    Clamp(54 + (CASE o.page = 1 -> 18 [] o.page = 2 -> 8 [] OTHER -> 0)
             + (IF o.label THEN 18 ELSE 0)
             - (IF o.url THEN 40 ELSE 0)
             - (IF o.part = "refs" THEN 38 ELSE 0))

RawScore(at) == CASE at = "refs" -> 20 [] at = "top" -> 88 [] OTHER -> 25

Candidate(d, source, score) ==
    [doi |-> d, source |-> source, score |-> score, url |-> FALSE, first |-> FALSE]

InText(p)   == {[Candidate(o.doi, "pdf-content", TextScore(o)) EXCEPT
                    !.url = o.url, !.first = o.page = 1] : o \in p.text}
InBytes(p)  == {Candidate(r.doi, "pdf-content", RawScore(r.at)) : r \in p.raw}
InLinks(p)  == {Candidate(d, "pdf-metadata", 94) : d \in p.links}
InInfo(k)   == {Candidate(d, "pdf-metadata", 96) : d \in Info(k)}
InName(p)   == {Candidate(d, "filename", 90) : d \in {p.name} \ {NoDoi}}

(* One candidate for a DOI and a source: the best, at a tie the one that is *)
(* read first.                                                              *)
Weight(c) == 4 * c.score + (IF c.first THEN 2 ELSE 0) + (IF c.url THEN 0 ELSE 1)

Merged(S) == {c \in S : \A x \in S : x.doi = c.doi /\ x.source = c.source
                                        => Weight(x) <= Weight(c)}

Candidates(k) == Merged(InText(Of(k)) \cup InBytes(Of(k)) \cup InLinks(Of(k)) \cup InName(Of(k)))

Dois(S, source) == {c.doi : c \in {x \in S : x.source = source}}

SourceRank(s) == CASE s = "filename" -> 2 [] s = "pdf-content" -> 3
                   [] s = "pdf-metadata" -> 5 [] OTHER -> 6

ChooseSource(S, d) ==
    (CHOOSE c \in S : /\ c.doi = d
                      /\ \A x \in S : x.doi = d =>
                            10 * x.score + SourceRank(x.source)
                                <= 10 * c.score + SourceRank(c.source)).source
-----------------------------------------------------------------------------
(* extract_doi_evidence: the DOI that the file itself suggests.             *)
Verdict(status, d, source, S) ==
    [status |-> status, doi |-> d, source |-> source, candidates |-> S]

Found(S, d)  == Verdict("ok", d, ChooseSource(S, d), S)
Strong(S)    == {c \in S : c.source = "pdf-content" /\ c.score >= 80}
Clear(S)     == {c \in S : \A x \in S \ {c} : c.score - x.score >= 18}

(* The name of the file is the last resort, unless the file confirms it.    *)
ByName(S, name) ==
    LET meta == Dois(S, "pdf-metadata")
    IN  IF name \in meta \cup Dois(S, "pdf-content") THEN Found(S, name)
        ELSE IF Cardinality(meta) = 1 THEN Found(S, CHOOSE d \in meta : TRUE)
        ELSE IF Cardinality(Strong(S)) = 1
             THEN Verdict("ok", (CHOOSE c \in Strong(S) : TRUE).doi, "pdf-content", S)
        ELSE Verdict("ok", name, "filename", S)

ByContent(S) ==
    IF Clear(S) = {} THEN Verdict("conflict", NoDoi, "none", S)
    ELSE Found(S, (CHOOSE c \in Clear(S) : TRUE).doi)

Evidence[k \in Content] ==
    LET S    == Candidates(k)
        meta == Dois(S, "pdf-metadata")
    IN  CASE Cardinality(Info(k)) > 1 -> Verdict("conflict", NoDoi, "none", InInfo(k))
          [] Cardinality(Info(k)) = 1 ->
                Verdict("ok", CHOOSE d \in Info(k) : TRUE, "pdf-metadata", InInfo(k))
          [] Info(k) = {} /\ Of(k).name # NoDoi  -> ByName(S, Of(k).name)
          [] Info(k) = {} /\ Of(k).name = NoDoi /\ Cardinality(meta) > 1 ->
                Verdict("conflict", NoDoi, "none", S)
          [] Info(k) = {} /\ Of(k).name = NoDoi /\ Cardinality(meta) = 1 ->
                Found(S, CHOOSE d \in meta : TRUE)
          [] OTHER -> IF S = {} THEN Verdict("no-doi", NoDoi, "none", S) ELSE ByContent(S)
-----------------------------------------------------------------------------
(* _ordered_automatic_candidates: what the server looks up, and when.       *)
Automatic == {"filename", "pdf-content", "pdf-metadata", "download-record"}

Tier(c) == CASE c.source = "explicit"     -> 0
             [] c.source = "download-record" -> 1
             [] c.source = "pdf-metadata" -> 2
             [] c.source = "pdf-content"  -> IF c.score < 50 THEN 5 ELSE 3
             [] c.source = "filename"     -> 4

Key(c, hint) == <<Tier(c), IF c.url THEN 1 ELSE 0,
                  IF c.source = "pdf-content" /\ ~c.first THEN 1 ELSE 0,
                  100 - c.score, IF c.doi = hint THEN 0 ELSE 1, c.doi>>

Before(s, t) == \E i \in 1..6 : s[i] < t[i] /\ \A j \in 1..(i - 1) : s[j] = t[j]

WithHint(S, hint, by) ==
    IF hint = NoDoi \/ hint \in {c.doi : c \in S} THEN S
    ELSE S \cup {Candidate(hint, IF by \in Automatic THEN by ELSE "pdf-content", 80)}

Ordered(all, hint) ==
    LET ahead(c) == {x.doi : x \in {y \in all : Before(Key(y, hint), Key(c, hint))}}
    IN  {c \in all : c.doi \notin ahead(c) /\ Cardinality(ahead(c)) < MaxTried}

First_Popped(S, hint) ==   \* slip: the list is popped from its end
    CHOOSE c \in S : \A x \in S \ {c} : Before(Key(x, hint), Key(c, hint))

First(S, hint) == CHOOSE c \in S : \A x \in S \ {c} : Before(Key(c, hint), Key(x, hint))
-----------------------------------------------------------------------------
(* heading_match_score: the title is a heading, is not, or nobody can tell. *)
TitleStands(p, w)    == p.readable /\ w \in p.heads
TitleUnknown(p)      == ~p.readable

(* A record is taken for the article in the file if the title agrees; that  *)
(* of an index only with author and year; an unreadable file goes by what   *)
(* its user said.                                                           *)
Fits(p, c) ==
    LET r == Registry[c.doi]
    IN  /\ r.kind # "container"
        /\ r.at = "semantic-scholar" => TitleStands(p, r.work) /\ p.byline
        /\ TitleStands(p, r.work) \/ (TitleUnknown(p) /\ c.source = "explicit")

(* pending_pdf_identity: no registry knows or answers for the one DOI that  *)
(* stands labelled in the masthead of the article.                          *)
InHead(p) == {o \in p.text : o.part = "head"}

PendingDois(p, lost) ==
    LET printed == {o.doi : o \in InHead(p)}
    IN  {d \in printed \cap lost :
            /\ p.masthead
            /\ printed = {d}
            /\ \E o \in InHead(p) : o.label /\ ~o.url}

(* The search for the title, once no DOI helped.                            *)
Searchable(p) == p.title # NoWork /\ TitleStands(p, p.title)

Corroborated(p) == {d \in Doi : /\ Registry[d].at = "crossref"
                                /\ Registry[d].kind = "article"
                                /\ Registry[d].work = p.title
                                /\ p.byline}

(* doi_writeback.py: DOIs printed on the first page as the article's own,   *)
(* and those that Crossref, title, author and year confirm.                 *)
Printed(p) == {o.doi : o \in {x \in p.text : /\ x.page = 1 /\ x.part # "refs"
                                             /\ x.label /\ ~x.url}}

Confirms(p, d) ==
    LET r == Registry[d]
    IN  /\ r.at = "crossref" /\ r.canonical = d
        /\ r.kind = "article"
        /\ TitleStands(p, r.work) /\ p.byline
-----------------------------------------------------------------------------
(* upload_fast.py: the client's quick look at pages 1 and 2.                *)
Article(p) == {o \in p.text : o.page <= 2 /\ o.part # "refs"}

Quick[k \in Content] ==
    LET p     == Of(k)
        all   == {o.doi : o \in Article(p)}
        front == {o.doi : o \in {x \in Article(p) : x.page = 1}}
        hit(d, source) == Verdict("ok", d, source, {})
    IN  CASE Cardinality(Info(k)) > 1 -> Verdict("conflict", NoDoi, "none", {})
          [] Cardinality(Info(k)) = 1 -> hit(CHOOSE d \in Info(k) : TRUE, "pdf-metadata")
          [] Info(k) = {} /\ p.readable /\ Cardinality(all) = 1 ->
                hit(CHOOSE d \in all : TRUE, "pdf-content")
          [] Info(k) = {} /\ p.readable /\ Cardinality(all) # 1 /\ Cardinality(front) = 1 ->
                hit(CHOOSE d \in front : TRUE, "pdf-content")
          [] Info(k) = {} /\ p.readable /\ all = {} /\ p.name # NoDoi ->
                hit(p.name, "filename")
          [] OTHER -> Verdict("no-doi", NoDoi, "none", {})

(* confirms_existing and verified_first_page_doi_and_title: the row of the  *)
(* DOI, with this title, is the article in the file.                        *)
OnFirstPage(p) == {o.doi : o \in {x \in Article(p) : x.page = 1}}

Mentions(p, w)            == w \in {x.work : x \in p.mentions}
ConfirmsRow(p, d, title)  == d \in OnFirstPage(p) /\ [work |-> title, page |-> 1] \in p.mentions
HeadConfirms(p, d, title) == OnFirstPage(p) = {d} /\ title \in p.heads
=============================================================================

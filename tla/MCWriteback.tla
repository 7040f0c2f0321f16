---------------------------- MODULE MCWriteback ----------------------------
(***************************************************************************)
(* Values of the constants of Writeback for TLC: articles w1 to w4, DOIs    *)
(* that different providers know, and PDFs that print their own DOI, cite   *)
(* others, or show nothing.                                                 *)
(***************************************************************************)
EXTENDS Writeback, TLC

CONSTANTS c1, c2

Record(at, kind, work, canonical) ==
    [at |-> at, kind |-> kind, work |-> work, canonical |-> canonical]

MCRegistry ==
    1 :> Record("crossref", "article", "w1", 1) @@ 2 :> Record("crossref", "article", "w2", 2) @@
    3 :> Record("crossref", "container", "w1", 3) @@ 4 :> Record("doi.org", "other", "w1", 1) @@
    5 :> Record("semantic-scholar", "article", "w3", 5) @@ 6 :> Record("none", "other", "w4", 6) @@
    7 :> Record("crossref", "article", "w4", 7) @@
    8 :> Record("crossref", "article", "w1", 8)

Own(d)   == [doi |-> d, page |-> 1, part |-> "head", label |-> TRUE, url |-> FALSE]
Cited(d) == [doi |-> d, page |-> 3, part |-> "refs", label |-> FALSE, url |-> FALSE]

Plain == [work |-> "w1", readable |-> TRUE, text |-> {Own(1), Cited(2)}, raw |-> {},
          links |-> {}, info |-> {}, name |-> NoDoi, heads |-> {"w1"},
          mentions |-> {[work |-> "w1", page |-> 1]}, title |-> "w1", byline |-> TRUE,
          masthead |-> FALSE, notice |-> FALSE, sealed |-> FALSE]

About(w) == [Plain EXCEPT !.work = w, !.heads = {w}, !.title = w,
                          !.mentions = {[work |-> w, page |-> 1]}]

MCFacts ==
    "plain"   :> Plain @@
    "related" :> [Plain EXCEPT !.text = {Own(1), [Own(8) EXCEPT !.part = "body"]}] @@
    "scan"    :> [Plain EXCEPT !.readable = FALSE, !.text = {}, !.heads = {}, !.mentions = {},
                               !.title = NoWork, !.name = 2] @@
    "download" :> [Plain EXCEPT !.text = {[Own(3) EXCEPT !.url = TRUE]}, !.links = {4},
                                !.raw = {[doi |-> 2, at |-> "refs"]}] @@
    "index"   :> [About("w3") EXCEPT !.text = {Own(5)}] @@
    "local"   :> [About("w4") EXCEPT !.text = {Own(6), [Own(2) EXCEPT !.part = "body"]},
                               !.masthead = TRUE] @@
    "cites"   :> [About("w4") EXCEPT !.text = {[Own(2) EXCEPT !.page = 2, !.part = "body"]},
                     !.mentions = {[work |-> "w4", page |-> 1], [work |-> "w2", page |-> 2]}] @@
    "tagged"  :> [About("w2") EXCEPT !.info = {2}] @@
    "both"    :> [Plain EXCEPT !.info = {1, 2}] @@
    "sealed"  :> [Plain EXCEPT !.sealed = TRUE]

MCPaper  == DOMAIN MCFacts
MCFile   == MCPaper \ {"tagged"}
MCEdited == "plain" :> "tagged"
MCSaid   == [f \in MCFile |-> IF f \in {"scan", "related"} THEN 1 ELSE 2]

Job(modes, files) == [mode: modes, file: files]

(* What the file suggests is always one of its candidates.                  *)
ASSUME EvidenceIsCandidate ==
    /\ Evidence \in [Content -> [status: {"ok", "conflict", "no-doi"}, doi: Doi \cup {NoDoi},
                                source: Automatic \cup {"none"}, candidates: SUBSET UNION
                                {Evidence[k].candidates : k \in Content}]]
    /\ \A k \in Content : Evidence[k].status = "ok" =>
          \E x \in Evidence[k].candidates : x.doi = Evidence[k].doi /\ x.source = Evidence[k].source

MCJobs ==
    c1 :> Job({"upload"}, MCFile) \cup Job({"offline"}, {"plain", "cites"})
          \cup Job({"user", "trusted"}, {"scan"})
          \cup Job({"write"}, {"plain", "related", "local", "sealed", "both"}) @@
    c2 :> Job({"write", "upload"}, {"plain"})
=============================================================================

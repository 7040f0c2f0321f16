------------------------------- MODULE Resolver -------------------------------
(***************************************************************************)
(* The server's side of an upload and of a DOI verification: what evidence  *)
(* a request rests on, which providers it asks, and what it decides         *)
(* (verify_automatic_doi of main_helpers.py, crossref.py, doi_writeback.py, *)
(* pdf_metadata.py).  All threads of the server share one limit of requests *)
(* under way and sleep until a slot is free.                                *)
(*                                                                          *)
(* Locks, objects and transactions of an upload are in module Upload: here  *)
(* Store is one step.  The pauses between two requests of a provider, and   *)
(* the HTTP adapter's own retries, are left out.                            *)
(***************************************************************************)
EXTENDS Identity

CONSTANTS Cmd,         \* clients; each has one request at a time
          Polite,      \* crossref_mailto is configured
          MaxOutages   \* bound on failed requests to providers

ASSUME ResolverAssumption == IsFiniteSet(Cmd) /\ Polite \in BOOLEAN /\ MaxOutages \in Nat

VARIABLES req,       \* the request of each client
          active,    \* _active_requests
          row,       \* table pdfs by DOI: title, crossref_status, first bytes
          bound,     \* bytes that belong to a row (pdfs.sha256, pdf_file_aliases)
          outages

server == <<req, active, row, bound, outages>>

None   == Candidate(NoDoi, "none", 0)
NoBody == [paper |-> CHOOSE p \in Paper : TRUE, tag |-> NoDoi]
NoRow  == [title |-> NoWork, status |-> "none", of |-> NoBody]
NoAnswer == [status |-> "none", doi |-> NoDoi, how |-> "none"]
NoRequest == [pc |-> "idle", kind |-> "none", body |-> NoBody, sha |-> NoBody,
              hint |-> NoDoi, by |-> "none", skip |-> FALSE,
              left |-> {}, now |-> None, at |-> "none", why |-> "none",
              down |-> FALSE, known |-> FALSE, lost |-> {}, fits |-> {},
              doi |-> NoDoi, how |-> "none", meta |-> "none", answer |-> NoAnswer]

Trusted(r)  == r.by = "csv-trusted"
Explicit(r) == r.by = "user"
PaperOf(r)  == Of(r.body)
RowOf(k)    == {b.doi : b \in {x \in bound : x.body = k}}
-----------------------------------------------------------------------------
(* What becomes of a request.                                               *)
Done(r, status, d, how) ==
    [NoRequest EXCEPT !.pc = "answered", !.kind = r.kind, !.body = r.body, !.by = r.by,
                      !.answer = [status |-> status, doi |-> d, how |-> how]]

Refused(r) == Done(r, "review", NoDoi, "none")

Ask(r, candidate, why) ==
    [r EXCEPT !.pc = "wait", !.now = candidate, !.at = "crossref", !.why = why]

(* how: on what the DOI rests; meta: the status of its metadata.            *)
Accepted(r, d, how, meta) ==
    [r EXCEPT !.pc = "store", !.doi = d, !.how = how, !.meta = meta]
-----------------------------------------------------------------------------
(* What the thread does next: it asks for the best DOI that is left.        *)
NextCandidate(c) ==
    LET r    == req[c]
        best == First(r.left, r.hint)
        less == [r EXCEPT !.left = r.left \ {best}]
    IN  /\ r.pc = "next" /\ r.left # {}
        /\ req' = [req EXCEPT ![c] =
                     Ask(less, best, IF r.kind = "verify" THEN "printed" ELSE "candidate")]
        /\ UNCHANGED <<active, row, bound, outages>>

(* No DOI was accepted.  Only if no registry has answered for any of them   *)
(* is the request to be repeated.                                           *)
Settle(c) ==
    LET r       == req[c]
        p       == PaperOf(r)
        pending == PendingDois(p, r.lost)
        search  == Searchable(p) /\ ~Explicit(r) /\ r.why # "search"
    IN  /\ r.pc = "next" /\ r.left = {} /\ r.kind = "upload"
        /\ \/ \E d \in pending :
                 req' = [req EXCEPT ![c] = Accepted(@, d, "pending", "pending")]
           \/ pending = {} /\ search
              /\ req' = [req EXCEPT ![c] = Ask(@, None, "search")]
           \/ pending = {} /\ ~search /\ r.down /\ ~r.known
              /\ req' = [req EXCEPT ![c] = Done(@, "unavailable", NoDoi, "none")]
           \/ pending = {} /\ ~search /\ (r.down => r.known)
              /\ req' = [req EXCEPT ![c] = Refused(@)]
        /\ UNCHANGED <<active, row, bound, outages>>

(* verify_pdf_doi_writeback: exactly one printed DOI is confirmed, and all  *)
(* the others have been compared.                                           *)
Certified_Partial(r) == Cardinality(r.fits) = 1   \* slip: a lost answer does not matter

Certified(r) == Cardinality(r.fits) = 1 /\ ~r.down

Receipt(c) ==
    LET r == req[c]
    IN  /\ r.pc = "next" /\ r.left = {} /\ r.kind = "verify"
        /\ \/ Certified(r)
              /\ req' = [req EXCEPT ![c] =
                           Done(@, "verified", CHOOSE d \in r.fits : TRUE, "ok")]
           \/ ~Certified(r) /\ r.down /\ Cardinality(r.fits) <= 1
              /\ req' = [req EXCEPT ![c] = Done(@, "unavailable", NoDoi, "none")]
           \/ ~Certified(r) /\ (r.down => Cardinality(r.fits) > 1)
              /\ req' = [req EXCEPT ![c] = Refused(@)]
        /\ UNCHANGED <<active, row, bound, outages>>
-----------------------------------------------------------------------------
(* The intake of a request.                                                 *)
Matches_Any(r) == TRUE   \* slip: the hash the client expects is not compared

Matches(r) == r.body = r.sha

Verifiable(r) ==
    LET p == PaperOf(r)
    IN  /\ Info(r.body) = {} /\ ~p.sealed /\ ~p.notice
        /\ Printed(p) # {} /\ Cardinality(Printed(p)) <= 4

BeginVerification(r) ==
    IF ~Verifiable(r) THEN Refused(r)
    ELSE [r EXCEPT !.pc = "next",
                   !.left = {Candidate(d, "pdf-content", 0) : d \in Printed(PaperOf(r))}]

(* The bytes are known: only an assertion may object, and a row that lacks  *)
(* its metadata is completed.                                               *)
Asserted(r) == IF ~Trusted(r) /\ Info(r.body) # {} THEN Info(r.body)
               ELSE IF Trusted(r) \/ Explicit(r) THEN {r.hint} ELSE {}

Incomplete(w) == w.title = NoWork \/ w.status \in {"pending", "unavailable", "skipped"}

BeginKnown(r, d) ==
    CASE ~Trusted(r) /\ Cardinality(Info(r.body)) > 1 -> Refused(r)
      [] Asserted(r) # {} /\ Asserted(r) # {d} -> Refused(r)
      [] OTHER -> IF ~r.skip /\ Incomplete(row[d])
                  THEN Ask(r, Candidate(d, "none", 0), "refresh")
                  ELSE Done(r, "stored", d, "known")

EvidenceOf(r) ==
    IF Explicit(r) /\ Info(r.body) = {}
    THEN Verdict("ok", r.hint, "explicit", {Candidate(r.hint, "explicit", 0)})
    ELSE Evidence[r.body]

HintOf(r) == IF Explicit(r) THEN NoDoi ELSE r.hint

BeginUnknown(r, e, all) ==
    LET hopeless == /\ e.candidates = {} /\ r.hint = NoDoi
                    /\ r.skip \/ PaperOf(r).title = NoWork
    IN  CASE Trusted(r) -> Ask(r, Candidate(r.hint, "csv-trusted", 100), "trusted")
          [] ~Trusted(r) /\ (hopeless \/ Cardinality(Info(r.body)) > 1) -> Refused(r)
          [] ~Trusted(r) /\ ~hopeless /\ Cardinality(Info(r.body)) = 1 ->
                IF r.skip THEN Accepted(r, e.doi, "embedded", "skipped")
                ELSE Ask(r, Candidate(e.doi, "pdf-metadata", 96), "embedded")
          [] ~Trusted(r) /\ ~hopeless /\ Info(r.body) = {} /\ r.skip ->
                IF e.status = "ok" THEN Accepted(r, e.doi, "unchecked", "skipped") ELSE Refused(r)
          [] OTHER -> [r EXCEPT !.pc = "next", !.left = Ordered(all, HintOf(r))]

Parse(c) ==
    LET r == req[c]
        To(next) == req' = [req EXCEPT ![c] = next]
    IN  /\ r.pc = "parse"
        /\ \/ ~Matches(r) /\ To(Done(r, "conflict", NoDoi, "none"))
           \/ Matches(r) /\ r.kind = "verify" /\ To(BeginVerification(r))
           \/ /\ Matches(r) /\ r.kind = "upload"
              /\ \E d \in RowOf(r.body) : To(BeginKnown(r, d))
           \/ /\ Matches(r) /\ r.kind = "upload" /\ RowOf(r.body) = {}
              /\ \E e \in {EvidenceOf(r)} : \E all \in {WithHint(e.candidates, HintOf(r), r.by)} :
                    To(BeginUnknown(r, e, all))
        /\ UNCHANGED <<active, row, bound, outages>>
-----------------------------------------------------------------------------
(* _request_slot                                                            *)
Limit(at) == IF at = "semantic-scholar" THEN 1 ELSE IF Polite THEN 3 ELSE 1

TakeSlot(c) ==
    /\ req[c].pc = "wait"
    /\ active < Limit(req[c].at)
    /\ active' = active + 1
    /\ req' = [req EXCEPT ![c].pc = "asked"]
    /\ UNCHANGED <<row, bound, outages>>

Sleep(c) ==
    /\ req[c].pc = "wait"
    /\ active >= Limit(req[c].at)
    /\ req' = [req EXCEPT ![c].pc = "asleep"]
    /\ UNCHANGED <<active, row, bound, outages>>

(* notify_all                                                               *)
Woken_None(R) == R   \* slip: a slot is given back in silence

Woken(R) == [x \in Cmd |-> IF R[x].pc = "asleep" THEN [R[x] EXCEPT !.pc = "wait"] ELSE R[x]]
-----------------------------------------------------------------------------
(* A provider answers.  Only a DOI that is unknown is asked of the next one.*)
Next3 == [at \in {"crossref", "doi.org"} |-> IF at = "crossref" THEN "doi.org"
                                                             ELSE "semantic-scholar"]

Learned(r, status) ==
    LET p == PaperOf(r)
        d == r.now.doi
        canonical == Registry[d].canonical
        on == [r EXCEPT !.pc = "next"]
    IN  CASE r.why = "candidate" /\ status = "unavailable" ->
                [on EXCEPT !.down = TRUE, !.lost = @ \cup {d}]
          [] r.why = "candidate" /\ status = "not_found" ->
                [on EXCEPT !.known = TRUE, !.lost = @ \cup {d}]
          [] r.why = "candidate" /\ status = "ok" ->
                IF Fits(p, r.now) THEN Accepted(r, canonical, "verified", "ok")
                ELSE [on EXCEPT !.known = TRUE]
          [] r.why = "printed" ->
                [on EXCEPT !.down = @ \/ status = "unavailable",
                           !.fits = @ \cup {x \in {d} : status = "ok" /\ Confirms(p, x)}]
          [] OTHER -> Accepted(r, d, r.why,
                         IF status = "ok" /\ canonical # d /\ Info(r.body) # {} /\ ~Trusted(r)
                         THEN "unavailable" ELSE status)

Passed(r) == [r EXCEPT !.pc = "wait", !.at = Next3[r.at]]

Reply(c, status) ==
    /\ req[c].why # "search"
    /\ \/ status = "unavailable" /\ outages < MaxOutages /\ outages' = outages + 1
       \/ status = "ok" /\ Registry[req[c].now.doi].at = req[c].at /\ UNCHANGED outages
       \/ status = "not_found" /\ Registry[req[c].now.doi].at # req[c].at /\ UNCHANGED outages
    /\ req' = Woken([req EXCEPT ![c] =
                 IF status = "not_found" /\ @.at \in DOMAIN Next3 /\ @.why # "printed"
                 THEN Passed(@) ELSE Learned(@, status)])

Fruitless(r, failed) == [r EXCEPT !.pc = "next", !.down = r.down \/ failed]

(* The search returns some of the records with this title; only one DOI may *)
(* be left after author, year and journal are compared.                     *)
SearchHits(c) ==
    /\ req[c].why = "search"
    /\ \E hits \in SUBSET Corroborated(PaperOf(req[c])) :
          LET found == {Registry[d].canonical : d \in hits}
          IN  req' = Woken([req EXCEPT ![c] =
                        IF Cardinality(found) = 1
                        THEN Accepted(@, CHOOSE d \in found : TRUE, "verified", "ok")
                        ELSE Fruitless(@, FALSE)])
    /\ UNCHANGED outages

SearchFails(c) ==
    /\ req[c].why = "search"
    /\ outages < MaxOutages /\ outages' = outages + 1
    /\ req' = Woken([req EXCEPT ![c] = Fruitless(@, TRUE)])

GiveBack == active' = active - 1

Answer(c) ==
    /\ req[c].pc = "asked"
    /\ \/ \E status \in {"ok", "not_found", "unavailable"} : Reply(c, status)
       \/ SearchHits(c)
       \/ SearchFails(c)
    /\ GiveBack
    /\ UNCHANGED <<row, bound>>
-----------------------------------------------------------------------------
(* stamp_uploaded_doi refuses other DOIs and signed files; a row of other   *)
(* bytes is joined only by an identity that was verified or is trusted.     *)
Stampable(r) ==
    /\ Info(r.body) \ {r.doi} = {} \/ Trusted(r)
    /\ PaperOf(r).sealed => Info(r.body) = {r.doi}

OtherBytes(r) == row[r.doi] # NoRow /\ row[r.doi].of # r.body

Storable(r) ==
    /\ Stampable(r)
    /\ RowOf(r.body) \subseteq {r.doi}
    /\ OtherBytes(r) => Trusted(r) \/ r.meta = "ok"

(* apply_crossref_metadata: a failed lookup does not touch a local title.   *)
Filled(w, r) ==
    CASE r.meta = "ok"      -> [w EXCEPT !.title = Registry[r.doi].work, !.status = "ok"]
      [] r.meta = "pending" -> [w EXCEPT !.title = PaperOf(r).work, !.status = "pending"]
      [] OTHER -> [w EXCEPT !.status = IF @ = "pending" /\ r.meta # "skipped" THEN @ ELSE r.meta]

Refresh(c) ==
    /\ req[c].pc = "store" /\ req[c].why = "refresh"
    /\ row' = [row EXCEPT ![req[c].doi] = Filled(@, req[c])]
    /\ req' = [req EXCEPT ![c] = Done(@, "stored", @.doi, "known")]
    /\ UNCHANGED <<active, bound, outages>>

(* Bytes of the row itself complete its metadata; other bytes are bound to  *)
(* the row and leave it as it is.                                           *)
Store(c) ==
    LET r == req[c]
    IN  /\ r.pc = "store" /\ r.why # "refresh"
        /\ Storable(r)
        /\ row' = [row EXCEPT ![r.doi] =
                     CASE @ = NoRow -> Filled([@ EXCEPT !.of = r.body], r)
                       [] @ # NoRow /\ ~OtherBytes(r) /\ (r.skip \/ Incomplete(@)) -> Filled(@, r)
                       [] OTHER -> @]
        /\ bound' = bound \cup {[body |-> r.body, doi |-> r.doi]}
        /\ req' = [req EXCEPT ![c] = Done(r, "stored", r.doi, r.how)]
        /\ UNCHANGED <<active, outages>>

Reject(c) ==
    /\ req[c].pc = "store" /\ req[c].why # "refresh"
    /\ ~Storable(req[c])
    /\ req' = [req EXCEPT ![c] = Refused(@)]
    /\ UNCHANGED <<active, row, bound, outages>>

ServerStep(c) == \/ Parse(c) \/ NextCandidate(c) \/ Settle(c) \/ Receipt(c) \/ TakeSlot(c) \/ Sleep(c) \/ Answer(c)
                 \/ Refresh(c) \/ Store(c) \/ Reject(c)
=============================================================================

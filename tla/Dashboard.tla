------------------------------- MODULE Dashboard -------------------------------
(***************************************************************************)
(* The dashboard: statistics of the library kept in the memory of the       *)
(* server for 30 seconds (stats.py), shared by the threads that answer      *)
(* requests, dropped by those that change the library and edited in place   *)
(* when a user changes a journal list (journal_filters.py, web.py); scripts *)
(* of the host change the library and cannot drop them.  An open page asks  *)
(* for the revision now and then and reloads its numbers (static/app.js).   *)
(*                                                                          *)
(* The library and each user's list are version numbers; numbers on a page  *)
(* are the version they were counted from.  The names of the lists, which   *)
(* an open page keeps until it is opened anew, are left out.                *)
(***************************************************************************)
EXTENDS Naturals

CONSTANTS User, Request,
          TTL,         \* STATS_CACHE_TTL_SECONDS, in ticks
          Bare,        \* versions of the library without journals to show
          MaxEdits     \* bound on changes of the library and of lists

ASSUME TTLAssumption == TTL \in Nat \ {0} /\ MaxEdits \in Nat /\ Bare \subseteq Nat

Filters == {"all", "own"}   \* the whole library, and the user's own list
Key     == User \X Filters
Old     == 2 * TTL - 1      \* ages from here on are not told apart

VARIABLES lib,       \* version of the library
          list,      \* version of each user's list
          gone,      \* users who deleted it
          cache,     \* _dashboard_cache
          req,       \* the local state of each request
          page,      \* the dashboard open in each user's browser
          edits

statsVars == <<lib, list, gone, cache, req, page, edits>>

VersionNo == 0 .. MaxEdits
Count   == [lib: VersionNo, age: 0 .. Old]      \* numbers counted at one moment

(* A stats dictionary: seconds left as a cache entry, the filter's summary  *)
(* and from which list, its journals by year and from which list, the       *)
(* summary of the vault.                                                    *)
StatsType == [left: 0 .. TTL, own: Count, list: VersionNo,
              rows: VersionNo, listed: VersionNo, vault: Count]
Never     == [lib |-> 0, age |-> 0]
NoStats   == [left |-> 0, own |-> Never, list |-> 0, rows |-> 0, listed |-> 0,
              vault |-> Never]

(* An expired entry stays in the dictionary; its contents are not read.     *)
EntryType == [in: BOOLEAN, stats: StatsType]
NoEntry   == [in |-> FALSE, stats |-> NoStats]
Live(k)   == cache[k].stats.left > 0

(* What a page shows, and whether its revision is still the server's.  Its  *)
(* user may be away: the page is hidden, shows a dialog, or has the focus   *)
(* in its heatmap.                                                          *)
PageType == [filter: Filters,     \* that of its address
             away: BOOLEAN,
             shows: Filters, own: VersionNo, list: VersionNo, rows: VersionNo,
             listed: VersionNo, vault: VersionNo, current: BOOLEAN]

Viewing == {"lookup", "count", "journals", "vault", "store", "render"}

ReqType == [pc: {"idle", "changed", "commit", "items", "refresh"} \cup Viewing,
            key: Key, filter: Filters, stats: StatsType,
            reload: BOOLEAN,      \* for an open page with a heatmap
            shared: BOOLEAN,      \* all_shared was found
            had: BOOLEAN]         \* the copy of the items holds the changed list's entry

FreeRequest ==
    [pc |-> "idle", key |-> CHOOSE k \in Key : TRUE, filter |-> "all", stats |-> NoStats,
     reload |-> FALSE, shared |-> FALSE, had |-> FALSE]

Idle(r) == req[r].pc = "idle"

StatsInit ==
    /\ lib = 0
    /\ list = [u \in User |-> 0]
    /\ gone = {}
    /\ cache = [k \in Key |-> NoEntry]
    /\ req = [r \in Request |-> FreeRequest]
    /\ page = [u \in User |-> [filter |-> "all", away |-> FALSE, shows |-> "all", own |-> 0,
                               list |-> 0, rows |-> 0, listed |-> 0, vault |-> 0,
                               current |-> TRUE]]
    /\ edits = 0

Change == edits < MaxEdits /\ edits' = edits + 1

(* What remains of a dictionary that is only shown.                         *)
Shown(s) == [s EXCEPT !.left = 0, !.own.age = 0, !.vault.age = 0]

NewRevision == page' = [u \in User |-> [page[u] EXCEPT !.current = FALSE]]
-----------------------------------------------------------------------------
(* A user, in one window of the browser, opens a page, or it reloads:       *)
(* because the revision is another one, or because ten minutes have passed. *)
(* A list that is gone is replaced by the whole library.                    *)
Available(u, f) == IF f = "own" /\ u \in gone THEN "all" ELSE f

View(r, u, f, reload) ==
    req' = [req EXCEPT ![r] = [FreeRequest EXCEPT !.pc = "lookup", !.filter = f,
                                           !.reload = reload, !.key = <<u, Available(u, f)>>]]

NoneUnderWay(u) == \A r \in Request : req[r].pc \in Viewing => req[r].key[1] # u

Open(r, u, f) ==
    /\ Idle(r) /\ NoneUnderWay(u) /\ ~page[u].away
    /\ View(r, u, f, FALSE)
    /\ UNCHANGED <<lib, list, gone, cache, page, edits>>

(* Its user goes and comes back, which matters only when it would ask.      *)
Look(u) ==
    /\ NoneUnderWay(u)
    /\ page' = [page EXCEPT ![u].away = ~@]
    /\ UNCHANGED <<lib, list, gone, cache, req, edits>>

Poll(r, u) ==
    /\ Idle(r) /\ NoneUnderWay(u) /\ ~page[u].away
    /\ ~page[u].current
    /\ View(r, u, page[u].filter, page[u].rows \notin Bare)
    /\ UNCHANGED <<lib, list, gone, cache, page, edits>>


FallbackDue(u) == NoneUnderWay(u) /\ ~page[u].away

Fallback(r, u) ==
    /\ Idle(r)
    /\ FallbackDue(u)
    /\ View(r, u, page[u].filter, page[u].rows \notin Bare)
    /\ UNCHANGED <<lib, list, gone, cache, page, edits>>

(* get_dashboard_stats: the clock is read first, then the cache: a live     *)
(* entry is the answer; a live one of the whole library gives the vault's   *)
(* numbers to any other filter.                                             *)
Lookup(r) ==
    LET k      == req[r].key
        all    == <<k[1], "all">>
        shared == k[2] # "all" /\ Live(all)
    IN  /\ req[r].pc = "lookup"
        /\ req' = [req EXCEPT ![r] =
              IF Live(k)
              THEN [@ EXCEPT !.pc = "render", !.stats = Shown(cache[k].stats)]
              ELSE [@ EXCEPT !.pc = "count", !.shared = shared,
                             !.stats = [NoStats EXCEPT
                                 !.left = TTL,
                                 !.vault = IF shared THEN cache[all].stats.own ELSE @]]]
        /\ UNCHANGED <<lib, list, gone, cache, page, edits>>

Now   == [lib |-> lib, age |-> 0]
Whole(r)  == req[r].key[2] = "all"
Listed(r) == list[req[r].key[1]]

(* One scan counts everything about the whole library.                      *)
CountAll(r) ==
    /\ req[r].pc = "count" /\ Whole(r)
    /\ req' = [req EXCEPT ![r].pc = "store", ![r].stats.own = Now,
                          ![r].stats.rows = lib, ![r].stats.vault = Now]
    /\ UNCHANGED <<lib, list, gone, cache, page, edits>>

(* A list takes one query for its summary and one for its journals, and     *)
(* each reads the list.                                                     *)
CountSummary(r) ==
    /\ req[r].pc = "count" /\ ~Whole(r)
    /\ req' = [req EXCEPT ![r].pc = "journals",
                          ![r].stats.own = Now, ![r].stats.list = Listed(r)]
    /\ UNCHANGED <<lib, list, gone, cache, page, edits>>

CountJournals(r) ==
    /\ req[r].pc = "journals"
    /\ req' = [req EXCEPT ![r].pc = IF req[r].shared THEN "store" ELSE "vault",
                          ![r].stats.rows = lib, ![r].stats.listed = Listed(r)]
    /\ UNCHANGED <<lib, list, gone, cache, page, edits>>

CountVault(r) ==
    /\ req[r].pc = "vault"
    /\ req' = [req EXCEPT ![r].pc = "store", ![r].stats.vault = Now]
    /\ UNCHANGED <<lib, list, gone, cache, page, edits>>

Expired == [in |-> TRUE, stats |-> NoStats]

(* The entry expires 30 seconds after the first line of the function.       *)
Remaining_Late(r) == TTL   \* slip: 30 seconds from now

Remaining(r) == req[r].stats.left

Store(r) ==
    /\ req[r].pc = "store"
    /\ cache' = [cache EXCEPT ![req[r].key] =
                    IF Remaining(r) = 0 THEN Expired
                    ELSE [in |-> TRUE, stats |-> [req[r].stats EXCEPT !.left = Remaining(r)]]]
    /\ req' = [req EXCEPT ![r].pc = "render", ![r].shared = FALSE, ![r].stats = Shown(@)]
    /\ UNCHANGED <<lib, list, gone, page, edits>>

(* The revision on the page is that of the moment it is rendered.  A page   *)
(* that is open takes its new numbers over with the new heatmap; if there   *)
(* is none, because no journal is left, it stays as it is.                  *)
Kept(r) == req[r].reload /\ req[r].stats.rows \in Bare

Render(r) ==
    LET s == req[r].stats
        u == req[r].key[1]
    IN  /\ req[r].pc = "render"
        /\ page' = IF Kept(r) THEN page
                   ELSE [page EXCEPT ![u] =
                      [filter |-> req[r].filter, away |-> @.away, shows |-> req[r].key[2],
                       own |-> s.own.lib, list |-> s.list, rows |-> s.rows,
                       listed |-> s.listed, vault |-> s.vault.lib, current |-> TRUE]]
        /\ req' = [req EXCEPT ![r] = FreeRequest]
        /\ UNCHANGED <<lib, list, gone, cache, edits>>
-----------------------------------------------------------------------------
(* An upload, delete or DOI correction: COMMIT, then invalidate_stats_cache. *)
ChangeLibrary(r) ==
    /\ Idle(r)
    /\ lib' = lib + 1 /\ Change
    /\ req' = [req EXCEPT ![r] = [FreeRequest EXCEPT !.pc = "changed"]]
    /\ UNCHANGED <<list, gone, cache, page>>

Invalidate(r) ==
    /\ req[r].pc = "changed"
    /\ cache' = [k \in Key |-> NoEntry]
    /\ NewRevision
    /\ req' = [req EXCEPT ![r] = FreeRequest]
    /\ UNCHANGED <<lib, list, gone, edits>>

HostChange ==
    /\ lib' = lib + 1 /\ Change
    /\ UNCHANGED <<list, gone, cache, req, page>>
-----------------------------------------------------------------------------
(* A journal list is created, saved or deleted.                             *)
Turn(r, u, pc) == req' = [req EXCEPT ![r] = [FreeRequest EXCEPT !.pc = pc, !.key = <<u, "own">>]]

(* Another list has a key of its own: no entry is deleted for it.           *)
CreateList(r, u) ==
    /\ Idle(r)
    /\ Change
    /\ Turn(r, u, "refresh")
    /\ UNCHANGED <<lib, list, gone, cache, page>>

(* A session whose revision of the list is not the stored one is refused    *)
(* and changes nothing; between that check and the COMMIT others may save   *)
(* it too, or delete it, which makes the UPDATE fail.                       *)
CheckRevision(r, u) ==
    /\ Idle(r)
    /\ u \notin gone
    /\ Change
    /\ Turn(r, u, "commit")
    /\ UNCHANGED <<lib, list, gone, cache, page>>

CommitList(r) ==
    LET u == req[r].key[1] IN
    /\ req[r].pc = "commit"
    /\ \/ u \notin gone /\ list' = [list EXCEPT ![u] = @ + 1] /\ Turn(r, u, "items")
       \/ u \in gone /\ req' = [req EXCEPT ![r] = FreeRequest] /\ UNCHANGED list
    /\ UNCHANGED <<lib, gone, cache, page, edits>>

DeleteList(r, u) ==
    /\ Idle(r)
    /\ u \notin gone
    /\ Change
    /\ gone' = gone \cup {u}
    /\ list' = [list EXCEPT ![u] = @ + 1]
    /\ Turn(r, u, "items")
    /\ UNCHANGED <<lib, cache, page>>

(* refresh_user_journal_filter_cache: take a copy of the items and go       *)
(* through those of this user.                                              *)
CopyItems(r) ==
    /\ req[r].pc = "items"
    /\ req' = [req EXCEPT ![r].pc = "refresh", ![r].had = cache[req[r].key].in]
    /\ UNCHANGED <<lib, list, gone, cache, page, edits>>

(* The entry of the changed list is deleted by key: a KeyError when it is   *)
(* not there any more, after which nothing else is done.                    *)
RefreshFails(r) ==
    /\ req[r].pc = "refresh"
    /\ req[r].had /\ ~cache[req[r].key].in
    /\ req' = [req EXCEPT ![r] = FreeRequest]
    /\ UNCHANGED <<lib, list, gone, cache, page, edits>>

Refresh(r) ==
    /\ req[r].pc = "refresh"
    /\ req[r].had => cache[req[r].key].in
    /\ cache' = IF req[r].had THEN [cache EXCEPT ![req[r].key] = NoEntry] ELSE cache
    /\ NewRevision
    /\ req' = [req EXCEPT ![r] = FreeRequest]
    /\ UNCHANGED <<lib, list, gone, edits>>
-----------------------------------------------------------------------------
(* A tick of the clock: entries near their end, numbers grow old.  Ages are *)
(* of no interest any more once the time of the entry is over.              *)
Older(c) == IF c.age < Old THEN [c EXCEPT !.age = @ + 1] ELSE c
Aged(s)  == IF s.left <= 1 THEN Shown(s)
            ELSE [s EXCEPT !.left = @ - 1, !.own = Older(@), !.vault = Older(@)]

Tick ==
    /\ cache' = [k \in Key |-> IF cache[k].stats.left = 1 THEN Expired
                               ELSE IF Live(k) THEN [cache[k] EXCEPT !.stats = Aged(@)]
                               ELSE cache[k]]
    /\ req' = [r \in Request |->
                 IF req[r].pc \in Viewing \ {"lookup", "render"}
                 THEN [req[r] EXCEPT !.stats = Aged(@)] ELSE req[r]]
    /\ UNCHANGED <<lib, list, gone, page, edits>>

Step(r) ==
    \/ Lookup(r) \/ CountAll(r) \/ CountSummary(r) \/ CountJournals(r) \/ CountVault(r)
    \/ Store(r) \/ Render(r)
    \/ Invalidate(r)
    \/ CommitList(r) \/ CopyItems(r) \/ RefreshFails(r) \/ Refresh(r)

StatsNext ==
    \/ \E r \in Request, u \in User :
          \/ \E f \in Filters : Open(r, u, f)
          \/ Poll(r, u) \/ Fallback(r, u)
          \/ CreateList(r, u) \/ CheckRevision(r, u) \/ DeleteList(r, u)
    \/ \E r \in Request : ChangeLibrary(r) \/ Step(r)
    \/ \E u \in User : Look(u)
    \/ HostChange
    \/ Tick

StatsSpec == StatsInit /\ [][StatsNext]_statsVars

(* Threads of the server get on, time passes, and open pages ask again as   *)
(* long as their users are there now and then.                              *)
FairStatsSpec ==
    /\ StatsSpec
    /\ \A r \in Request : WF_statsVars(Step(r))
    /\ WF_statsVars(Tick)
    /\ \A u \in User : SF_statsVars(\E r \in Request : Poll(r, u))
                       /\ SF_statsVars(\E r \in Request : Fallback(r, u))
-----------------------------------------------------------------------------
StatsTypeOK ==
    /\ lib \in VersionNo /\ edits \in VersionNo
    /\ list \in [User -> VersionNo] /\ gone \subseteq User
    /\ cache \in [Key -> EntryType]
    /\ req \in [Request -> ReqType]
    /\ page \in [User -> PageType]

(* What the cache answers with was counted less than 30 seconds ago, and    *)
(* the vault's numbers, which may come from another entry, less than 60:    *)
(* however long the queries took, and although scripts of the host change   *)
(* the library without a word to the server.                                *)
BoundedStaleness ==
    \A k \in Key : Live(k) => /\ cache[k].stats.own.age < TTL
                              /\ cache[k].stats.vault.age < 2 * TTL - 1

(* An open page shows the library and the list as they are in the end, all  *)
(* of its numbers the same ones and no list that is gone, although an entry *)
(* counted before an invalidation may be stored after it, a list may be     *)
(* deleted while it is counted, a page may carry a newer revision than its  *)
(* numbers, and the refresh of the cache may fail; unless its user stays    *)
(* away, or the library has no journal left to show.                        *)
Settled(u) ==
    LET p == page[u]
    IN  /\ p.shows = Available(u, p.filter)
        /\ {p.own, p.rows, p.vault} = {lib}
        /\ p.shows = "own" => {p.list, p.listed} = {list[u]}

=============================================================================

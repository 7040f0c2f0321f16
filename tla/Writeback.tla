------------------------------ MODULE Writeback ------------------------------
(***************************************************************************)
(* nv upload over one file, as far as the identity of the article goes:     *)
(* the quick look at pages 1 and 2, the legacy resolver, an identity that   *)
(* the user gave, --no-crossref, and --write-doi, which has the server      *)
(* verify the file and writes the DOI into it before the upload             *)
(* (cli/user.py, upload_fast.py, pdf_meta.py).  Two commands may work on    *)
(* one file, its user may replace it at any time, and a command may die     *)
(* while it writes.                                                         *)
(*                                                                          *)
(* Queues, retries and lost answers are in module UploadClient.             *)
(***************************************************************************)
EXTENDS Resolver

CONSTANTS File,        \* files, named after the papers they are at first
          Edited,      \* what a user may replace some of the files with
          Said,        \* the DOI that a user gives for a file
          Jobs,        \* what each command may be started with
          MaxTries,    \* attempts of an upload (3)
          MaxEdits, MaxCrashes   \* bounds on edits and crashes

ASSUME WritebackAssumption ==
    /\ File \subseteq Paper /\ File # {}
    /\ DOMAIN Edited \subseteq File /\ \A f \in DOMAIN Edited : Edited[f] \in Paper
    /\ Said \in [File -> Doi]
    /\ {MaxTries, MaxEdits, MaxCrashes} \subseteq Nat

Modes == {"upload", "trusted", "user", "offline", "write"}

ASSUME JobAssumption == Jobs \in [Cmd -> SUBSET [mode: Modes, file: File]]

VARIABLES cmd,      \* the command of each client
          file,     \* the bytes of each file
          lock,     \* .<name>.nv-doi.lock: who holds it
          backup,   \* <name>.nv-doi-<hash>.bak files
          edits, crashes

local == <<file, lock, backup>>
vars  == <<req, active, row, bound, outages, cmd, file, lock, backup, edits, crashes>>

NoCmd == [pc |-> "idle", mode |-> "upload", file |-> CHOOSE f \in File : TRUE,
          sha |-> NoBody, doi |-> NoDoi, by |-> "none", fast |-> FALSE,
          wrote |-> FALSE, tries |-> 0, outcome |-> "none"]
Free  == "free"

Init ==
    /\ req = [c \in Cmd |-> NoRequest]
    /\ active = 0
    /\ row = [d \in Doi |-> NoRow]
    /\ bound = {} /\ outages = 0
    /\ cmd = [c \in Cmd |-> NoCmd]
    /\ file = [f \in File |-> [paper |-> f, tag |-> NoDoi]]
    /\ lock = [f \in File |-> Free]
    /\ backup = {}
    /\ edits = 0 /\ crashes = 0

Bytes(c)    == file[cmd[c].file]
Go(c, next) == cmd' = [cmd EXCEPT ![c] = next]
End(c, outcome) ==
    Go(c, [NoCmd EXCEPT !.pc = "done", !.mode = cmd[c].mode, !.file = cmd[c].file,
                        !.sha = cmd[c].sha, !.doi = cmd[c].doi, !.by = cmd[c].by,
                        !.wrote = cmd[c].wrote, !.outcome = outcome])
-----------------------------------------------------------------------------
(* Only an ordinary upload takes the quick look; --doi needs none.          *)
Start(c) ==
    /\ cmd[c].pc = "idle"
    /\ \E j \in Jobs[c] :
          Go(c, [NoCmd EXCEPT !.mode = j.mode, !.file = j.file,
                              !.doi = IF j.mode = "trusted" THEN Said[j.file] ELSE NoDoi,
                              !.by  = IF j.mode = "trusted" THEN "csv-trusted" ELSE "none",
                              !.pc  = CASE j.mode \in {"upload", "user"} -> "probe"
                                        [] j.mode = "trusted" -> "check"
                                        [] OTHER -> "hash"])
    /\ UNCHANGED <<server, local, edits, crashes>>

Probe(c) ==
    /\ cmd[c].pc = "probe"
    /\ \E quick \in {Quick[Bytes(c)]} :
           \/ quick.status = "conflict" /\ End(c, "review")
           \/ quick.status = "no-doi" /\ Go(c, [cmd[c] EXCEPT !.pc = "hash"])
           \/ quick.status = "ok"
              /\ Go(c, [cmd[c] EXCEPT !.pc = "check", !.sha = Bytes(c),   \* the text is kept
                                      !.doi = quick.doi, !.by = quick.source])
    /\ UNCHANGED <<server, local, edits, crashes>>

(* A DOI that is stored is skipped if the file is that article; a new one   *)
(* must have its title in the file, unless it stands in Document Info.      *)
Certain(c) == cmd[c].by \in {"csv-trusted", "pdf-metadata"}

Text(c) == Of(cmd[c].sha)

Check(c) ==
    /\ cmd[c].pc = "check"
    /\ LET stored == row[cmd[c].doi]
           fast   == [cmd[c] EXCEPT !.pc = "hash", !.fast = TRUE]
           legacy == [cmd[c] EXCEPT !.pc = "hash", !.doi = NoDoi, !.by = "none"]
       IN  \/ stored # NoRow /\ (Certain(c) \/ ConfirmsRow(Text(c), cmd[c].doi, stored.title))
              /\ End(c, "existing")
           \/ stored # NoRow /\ ~(Certain(c) \/ ConfirmsRow(Text(c), cmd[c].doi, stored.title))
              /\ Go(c, legacy)
           \/ stored = NoRow /\ Certain(c) /\ Go(c, fast)
           \/ stored = NoRow /\ ~Certain(c)
              /\ Registry[cmd[c].doi].at \in {"crossref", "doi.org"}
              /\ Mentions(Text(c), Registry[cmd[c].doi].work)
              /\ Go(c, fast)
           \/ stored = NoRow /\ ~Certain(c)      \* no title, or not to be had
              /\ End(c, "review")
    /\ UNCHANGED <<server, local, edits, crashes>>

(* file_sha256; without --write-doi and a quick identity, known bytes are   *)
(* skipped unless the user gave another DOI.                                *)
UserSays(c) == cmd[c].mode = "user" /\ cmd[c].sha.paper = cmd[c].file

Known(c, k) == ~cmd[c].fast /\ RowOf(k) # {}

Hash(c) ==
    /\ cmd[c].pc = "hash"
    /\ LET next == [cmd[c] EXCEPT !.sha = Bytes(c)]
       IN  \/ cmd[c].mode = "write" /\ Go(c, [next EXCEPT !.pc = "inspect"])
           \/ cmd[c].mode # "write" /\ ~Known(c, Bytes(c)) /\ Go(c, [next EXCEPT !.pc = "prepare"])
           \/ cmd[c].mode # "write" /\ Known(c, Bytes(c))
              /\ End(c, IF cmd[c].mode = "user" /\ Bytes(c).paper = cmd[c].file
                           /\ RowOf(Bytes(c)) # {Said[cmd[c].file]}
                        THEN "failed" ELSE "existing")
    /\ UNCHANGED <<server, local, edits, crashes>>
-----------------------------------------------------------------------------
(* --write-doi                                                              *)
Inspect(c) ==
    /\ cmd[c].pc = "inspect"
    /\ LET info == Info(Bytes(c))
       IN  \/ Cardinality(info) > 1 /\ End(c, "review")
           \/ Cardinality(info) = 1 /\ Go(c, [cmd[c] EXCEPT !.pc = "rehash"])
           \/ info = {} /\ Of(Bytes(c)).sealed /\ End(c, "review")
           \/ info = {} /\ ~Of(Bytes(c)).sealed /\ Go(c, [cmd[c] EXCEPT !.pc = "verify"])
    /\ UNCHANGED <<server, local, edits, crashes>>

Request(c, kind) ==
    [NoRequest EXCEPT !.pc = "parse", !.kind = kind, !.body = Bytes(c), !.sha = cmd[c].sha]

AskReceipt(c) ==
    /\ cmd[c].pc = "verify"
    /\ req' = [req EXCEPT ![c] = Request(c, "verify")]
    /\ Go(c, [cmd[c] EXCEPT !.pc = "receipt"])
    /\ UNCHANGED <<active, row, bound, outages, local, edits, crashes>>

TakeReceipt(c) ==
    /\ cmd[c].pc = "receipt" /\ req[c].pc = "answered"
    /\ LET answer == req[c].answer
       IN  \/ answer.status = "verified" /\ Go(c, [cmd[c] EXCEPT !.pc = "lock", !.doi = answer.doi])
           \/ answer.status = "review" /\ End(c, "review")
           \/ answer.status \in {"unavailable", "conflict"} /\ End(c, "failed")
    /\ req' = [req EXCEPT ![c] = NoRequest]
    /\ UNCHANGED <<active, row, bound, outages, local, edits, crashes>>

Unlock(c) == lock' = [lock EXCEPT ![cmd[c].file] = Free]

(* flock, then the snapshot: the bytes must be those of the receipt.        *)
Lock(c) ==
    /\ cmd[c].pc = "lock"
    /\ lock[cmd[c].file] = Free
    /\ \/ Bytes(c) = cmd[c].sha
          /\ lock' = [lock EXCEPT ![cmd[c].file] = c]
          /\ Go(c, [cmd[c] EXCEPT !.pc = "backup"])
       \/ Bytes(c) # cmd[c].sha
          /\ End(c, "failed")
          /\ UNCHANGED lock
    /\ UNCHANGED <<server, file, backup, edits, crashes>>

Backup(c, whole) == [file |-> cmd[c].file, of |-> cmd[c].sha, whole |-> whole]
NoBackup(c)      == {Backup(c, TRUE), Backup(c, FALSE)} \cap backup = {}

Reusable_Any(c) == Backup(c, FALSE) \in backup \/ Backup(c, TRUE) \in backup
                         \* slip: a backup that exists is taken as it is

Reusable(c) == Backup(c, TRUE) \in backup

(* _assert_pdf_unchanged, then the backup is created exclusively, or one    *)
(* of the same bytes is used.                                               *)
OpenBackup(c) ==
    /\ cmd[c].pc = "backup"
    /\ \/ Bytes(c) = cmd[c].sha /\ NoBackup(c)
          /\ backup' = backup \cup {Backup(c, FALSE)}
          /\ Go(c, [cmd[c] EXCEPT !.pc = "copy"])
          /\ UNCHANGED lock
       \/ Bytes(c) = cmd[c].sha /\ ~NoBackup(c) /\ Reusable(c)
          /\ Go(c, [cmd[c] EXCEPT !.pc = "assert"])
          /\ UNCHANGED <<backup, lock>>
       \/ (Bytes(c) = cmd[c].sha => ~NoBackup(c) /\ ~Reusable(c))
          /\ End(c, "failed") /\ Unlock(c)
          /\ UNCHANGED backup
    /\ UNCHANGED <<server, file, edits, crashes>>

Copy(c) ==
    /\ cmd[c].pc = "copy"
    /\ backup' = (backup \ {Backup(c, FALSE)}) \cup {Backup(c, TRUE)}
    /\ Go(c, [cmd[c] EXCEPT !.pc = "assert"])
    /\ UNCHANGED <<server, file, lock, edits, crashes>>

CopyFails(c) ==      \* a full disk: the backup is removed again
    /\ cmd[c].pc = "copy"
    /\ backup' = backup \ {Backup(c, FALSE)}
    /\ End(c, "failed") /\ Unlock(c)
    /\ UNCHANGED <<server, file, edits, crashes>>

AssertUnchanged(c) ==
    /\ cmd[c].pc = "assert"
    /\ \/ Bytes(c) = cmd[c].sha
          /\ Go(c, [cmd[c] EXCEPT !.pc = "replace"])
          /\ UNCHANGED lock
       \/ Bytes(c) # cmd[c].sha
          /\ End(c, "failed") /\ Unlock(c)
    /\ UNCHANGED <<server, file, backup, edits, crashes>>

(* os.replace, at which the lock is given back.  The hash to upload is that *)
(* of the new bytes.                                                        *)
Replace(c) ==
    /\ cmd[c].pc = "replace"
    /\ LET tagged == [cmd[c].sha EXCEPT !.tag = cmd[c].doi]
       IN  /\ file' = [file EXCEPT ![cmd[c].file] = tagged]
           /\ Go(c, [cmd[c] EXCEPT !.pc = "rehash", !.sha = tagged, !.wrote = TRUE])
    /\ Unlock(c)
    /\ UNCHANGED <<server, backup, edits, crashes>>

Rehash(c) ==
    /\ cmd[c].pc = "rehash"
    /\ \/ Bytes(c) # cmd[c].sha /\ End(c, "failed")
       \/ Bytes(c) = cmd[c].sha /\ Known(c, Bytes(c)) /\ End(c, "existing")
       \/ Bytes(c) = cmd[c].sha /\ ~Known(c, Bytes(c)) /\ Go(c, [cmd[c] EXCEPT !.pc = "prepare"])
    /\ UNCHANGED <<server, local, edits, crashes>>
-----------------------------------------------------------------------------
(* The DOI that is sent with the file.  The file is read again.             *)
SourceOrder(s) == CASE s = "filename" -> 1 [] s = "pdf-content" -> 2 [] OTHER -> 3

Guess(e) == CHOOSE x \in e.candidates : \A y \in e.candidates :
               \/ y.score < x.score
               \/ y.score = x.score /\ SourceOrder(y.source) < SourceOrder(x.source)
               \/ y.score = x.score /\ y.source = x.source /\ y.doi <= x.doi

Hint(c, e) ==
    LET guess == Guess(e)
        hint(d, by) == [status |-> "ok", doi |-> d, by |-> by]
    IN  CASE cmd[c].mode = "trusted"   -> hint(cmd[c].doi, cmd[c].by)
          [] cmd[c].mode # "trusted" /\ Info(Bytes(c)) # {} ->
                [status |-> e.status, doi |-> e.doi, by |-> e.source]
          [] cmd[c].mode # "trusted" /\ Info(Bytes(c)) = {} /\ UserSays(c) ->
                hint(Said[cmd[c].file], "user")
          [] cmd[c].mode # "trusted" /\ Info(Bytes(c)) = {} /\ ~UserSays(c) /\ cmd[c].fast ->
                hint(cmd[c].doi, cmd[c].by)
          [] OTHER -> CASE e.status = "conflict" /\ cmd[c].mode # "offline" ->
                              hint(guess.doi, guess.source)
                        [] e.status = "no-doi" -> hint(NoDoi, "none")
                        [] OTHER -> [status |-> e.status, doi |-> e.doi, by |-> e.source]

(* What is stored already is not sent again (not with --write-doi, nor      *)
(* after the quick look).                                                   *)
AlreadyStored(c, hint) ==
    /\ ~cmd[c].fast /\ cmd[c].mode # "write"
    /\ hint.doi # NoDoi /\ hint.by # "filename"
    /\ row[hint.doi] # NoRow
    /\ \/ hint.by = "user" \/ Info(Bytes(c)) # {}
       \/ HeadConfirms(Of(Bytes(c)), hint.doi, row[hint.doi].title)

Prepare(c) ==
    /\ cmd[c].pc = "prepare"
    /\ \E e \in {Evidence[Bytes(c)]} : \E hint \in {Hint(c, e)} :
           \/ hint.status = "conflict" /\ End(c, "review")
           \/ hint.status = "ok" /\ AlreadyStored(c, hint)
              /\ Go(c, [NoCmd EXCEPT !.pc = "done", !.mode = cmd[c].mode, !.file = cmd[c].file,
                                     !.sha = Bytes(c), !.doi = hint.doi, !.by = hint.by,
                                     !.outcome = "existing"])
           \/ hint.status = "ok" /\ ~AlreadyStored(c, hint) /\ Go(c, [cmd[c] EXCEPT !.pc = "send", !.doi = hint.doi, !.by = hint.by])
    /\ UNCHANGED <<server, local, edits, crashes>>

Send(c) ==
    /\ cmd[c].pc = "send"
    /\ req' = [req EXCEPT ![c] = [Request(c, "upload") EXCEPT
                   !.hint = cmd[c].doi, !.by = cmd[c].by, !.skip = cmd[c].mode = "offline"]]
    /\ Go(c, [cmd[c] EXCEPT !.pc = "sent", !.tries = cmd[c].tries + 1])
    /\ UNCHANGED <<active, row, bound, outages, local, edits, crashes>>

Receive(c) ==
    /\ cmd[c].pc = "sent" /\ req[c].pc = "answered"
    /\ LET answer == req[c].answer
       IN  \/ answer.status = "unavailable" /\ cmd[c].tries < MaxTries
              /\ Go(c, [cmd[c] EXCEPT !.pc = "send"])
           \/ answer.status = "stored"
              /\ Go(c, [NoCmd EXCEPT !.pc = "done", !.mode = cmd[c].mode, !.file = cmd[c].file,
                                     !.sha = cmd[c].sha, !.doi = answer.doi, !.by = answer.how,
                                     !.wrote = cmd[c].wrote, !.outcome = "stored"])
           \/ answer.status = "review" /\ End(c, "review")
           \/ answer.status = "unavailable" /\ cmd[c].tries = MaxTries /\ End(c, "failed")
           \/ answer.status = "conflict" /\ End(c, "failed")
    /\ req' = [req EXCEPT ![c] = NoRequest]
    /\ UNCHANGED <<active, row, bound, outages, local, edits, crashes>>
-----------------------------------------------------------------------------
(* The user replaces a file, by a rename.                                   *)
Edit(f) ==
    /\ edits < MaxEdits /\ edits' = edits + 1
    /\ file' = [file EXCEPT ![f] = [paper |-> Edited[f], tag |-> NoDoi]]
    /\ UNCHANGED <<server, cmd, lock, backup, crashes>>

(* The death of a command that writes gives its lock back and leaves the    *)
(* rest; the user starts it again, sooner or later.                         *)
Crash(c) ==
    /\ cmd[c].pc \in {"backup", "copy", "assert", "replace", "rehash"}
    /\ crashes < MaxCrashes /\ crashes' = crashes + 1
    /\ Go(c, [NoCmd EXCEPT !.pc = "hash", !.mode = cmd[c].mode, !.file = cmd[c].file])
    /\ lock' = [f \in File |-> IF lock[f] = c THEN Free ELSE lock[f]]
    /\ UNCHANGED <<server, file, backup, edits>>

ClientStep(c) ==
    \/ Probe(c) \/ Check(c) \/ Hash(c)
    \/ Inspect(c) \/ AskReceipt(c) \/ TakeReceipt(c)
    \/ Lock(c) \/ OpenBackup(c) \/ Copy(c) \/ CopyFails(c) \/ AssertUnchanged(c) \/ Replace(c)
    \/ Rehash(c) \/ Prepare(c) \/ Send(c) \/ Receive(c)

Provider(c) == ServerStep(c) /\ UNCHANGED <<cmd, file, lock, backup, edits, crashes>>

Next == \/ \E c \in Cmd : Start(c) \/ ClientStep(c) \/ Provider(c) \/ Crash(c)
        \/ \E f \in DOMAIN Edited : Edit(f)

Fairness == \A c \in Cmd : WF_vars(ClientStep(c)) /\ WF_vars(Provider(c))

Spec == Init /\ [][Next]_vars /\ Fairness
-----------------------------------------------------------------------------
(* What an upload has to look up, and what of it lies behind it.            *)
Ranked(r) ==
    LET e == EvidenceOf(r)
    IN  Ordered(WithHint(e.candidates, HintOf(r), r.by), HintOf(r))

Behind(r, x) ==
    \/ r.why = "search" \/ r.how = "pending"
    \/ Before(Key(x, HintOf(r)), Key(r.now, HintOf(r)))
    \/ r.pc = "next" /\ x = r.now

TypeOK ==
    /\ \A c \in Cmd : /\ DOMAIN req[c] = DOMAIN NoRequest /\ DOMAIN cmd[c] = DOMAIN NoCmd
                      /\ req[c].body \in Content /\ req[c].lost \subseteq Doi
                      /\ cmd[c].sha \in Content
                      /\ cmd[c].pc \in {"receipt", "sent"} <=> req[c].pc # "idle"
    /\ active = Cardinality({c \in Cmd : req[c].pc = "asked"})
    /\ \A d \in Doi : row[d] = NoRow <=> d \notin {b.doi : b \in bound}
    /\ \A b \in bound : b.body \in Content
    /\ file \in [File -> Content] /\ lock \in [File -> Cmd \cup {Free}]

(* While an upload looks for its DOI, every DOI that it has passed over      *)
(* and whose record is that of the article in the file had its lookups      *)
(* lost: whatever order the candidates were found in, whatever the client   *)
(* suggests and whichever request fails, a weaker DOI is accepted, the      *)
(* title searched or the file refused only if no better one was to be had.  *)
(* (main_helpers.py:160-187 and 233-420)                                    *)
NoFitPassedOver ==
    \A c \in Cmd : req[c].why \in {"candidate", "search"} =>
       \A x \in Ranked(req[c]) :
          Behind(req[c], x) /\ Fits(PaperOf(req[c]), x) => x.doi \in req[c].lost

(* --write-doi writes the one DOI on the first page that is the article's,  *)
(* whichever lookups fail.  (doi_writeback.py:194-269)                      *)
WrittenIsSole ==
    \A f \in File : file[f].tag # NoDoi =>
       {d \in Printed(Of(file[f])) : Confirms(Of(file[f]), d)} = {file[f].tag}

(* The bytes that --write-doi read, and into which it wrote the DOI, are in *)
(* a complete backup, also after a crash and with two commands at work.     *)
(* Bytes that take their place between the last comparison and os.replace   *)
(* (pdf_meta.py:448-453) are overwritten and kept nowhere: of those nothing *)
(* is said.  (pdf_meta.py:350-470)                                          *)
OriginalKept ==
    \A f \in File : file[f].tag # NoDoi =>
       [file |-> f, of |-> [file[f] EXCEPT !.tag = NoDoi], whole |-> TRUE] \in backup

(* A command that reports a DOI as written and the file as stored has       *)
(* stored these very bytes under that DOI.  (user.py:1735-1747)             *)
WrittenIsBound ==
    \A c \in Cmd : cmd[c].wrote /\ cmd[c].outcome = "stored" =>
       [body |-> cmd[c].sha, doi |-> cmd[c].sha.tag] \in bound

(* Every command that was started ends: no request waits for a slot, and no *)
(* writer for a lock, forever.  (crossref.py:23-47, cache.py:38-62)         *)
EveryCommandEnds == []<>(\A c \in Cmd : cmd[c].pc \in {"idle", "done"})
=============================================================================

------------------------------ MODULE RetryQueue ------------------------------
(***************************************************************************)
(* What the upload history promises (docs/single-history.md): a queue of   *)
(* files to retry, one entry per path, made for the bytes the path had.    *)
(* "Server-confirmed success clears pending/error entries": no append, no  *)
(* compaction, no crash and no concurrent command does it otherwise.       *)
(***************************************************************************)
EXTENDS Naturals

CONSTANTS Path, Content, Article, None

VARIABLES disk,     \* the signature and the contents of the files
          server,   \* contents the server knows
          queue     \* the entry of a path: its status and signature

Confirmed(c) == \E s \in server : Article[s] = Article[c]

Gone(p) == disk[p].sig # queue[p].sig

Init == queue = [p \in Path |-> None]

Entry == [status: {"pending", "failed", "review"}, sig: Nat]

(* Every path has its own rule, and one step may bring several to light:   *)
(* closing a torn line may complete the row it was.                        *)
Enters(p) == queue'[p] \in Entry

Leaves(p) ==
    /\ queue[p] # None /\ queue'[p] = None
    /\ Gone(p) \/ Confirmed(disk[p].sha)

Next == \A p \in Path : queue'[p] = queue[p] \/ Enters(p) \/ Leaves(p)

Spec == Init /\ [][Next]_queue
=============================================================================

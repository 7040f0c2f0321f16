------------------------------- MODULE History -------------------------------
(***************************************************************************)
(* The journal .netvault/history.jsonl of the command line (history.py).   *)
(*                                                                         *)
(* A file is the sequence of its lines and whether the last one ends in a  *)
(* newline.  A line is a row of the upload queue or what an interrupted    *)
(* write left of one: Torn, which does not parse, or Split, cut within a   *)
(* multibyte character, which does not even decode.  Rows of other         *)
(* commands and run summaries are left out: no reader of the queue sees    *)
(* them, and compaction keeps them.                                        *)
(***************************************************************************)
EXTENDS Naturals, Sequences, SequencesExt

CONSTANTS Path,
          Torn, Split, None

Status == {"pending", "failed", "review", "clear"}

IsRow(line) == line \notin {Torn, Split}

EmptyFile == [lines |-> <<>>, ended |-> TRUE]

(* Handles decode strictly: one line that does not decode stops every reader. *)
Readable(file) == Split \notin Range(file.lines)

(* History.records: an unterminated tail ends the file, other garbage is    *)
(* skipped.                                                                 *)
Visible(file) == IF file.ended THEN file.lines ELSE Front(file.lines)

Records(lines) == {i \in DOMAIN lines : IsRow(lines[i])}

(* History.write, under cache_lock, once per row: what an interrupted write  *)
(* left is closed with a newline, then the row follows.  Closing may        *)
(* complete it.                                                             *)
Write(file, rows) ==
    IF rows = <<>> THEN file
    ELSE [lines |-> file.lines \o rows, ended |-> TRUE]

(* The k-th of the rows is interrupted: a part of it is there, or all but   *)
(* its newline.                                                             *)
Interrupted(file, rows, k, cut) ==
    [lines |-> file.lines \o SubSeq(rows, 1, k - 1)
                  \o <<CASE cut = "whole" -> rows[k]
                        [] cut = "split" -> Split
                        [] cut = "torn"  -> Torn>>,
     ended |-> FALSE]

(* latest_uploads: the newest row of a path decides.                        *)
Newest(lines, p) ==
    LET own == {i \in Records(lines) : lines[i].path = p} IN
    IF own = {} THEN None
    ELSE lines[CHOOSE i \in own : \A j \in own : j <= i]

Latest(file, p) == Newest(Visible(file), p)

IsOpen(row) == row # None /\ row.op # "clear"

Open(file) == {p \in Path : IsOpen(Latest(file, p))}

(* compact_uploads, under the same lock: one new file, put in place by a    *)
(* rename; only the newest row of a path stays, and none that is settled.   *)
Stays_Failed(row) ==   \* slip: an attempt that is only pending is settled
    row.op \notin {"clear", "pending"}

Stays(row) == row.op # "clear"

Superseded(lines, i) ==
    \E j \in Records(lines) : j > i /\ lines[j].path = lines[i].path

(* What a sequence has at the places in S, in its order.                    *)
Rank(S, i) == Cardinality({j \in S : j <= i})

Part(s, S) ==
    [k \in 1 .. Cardinality(S) |-> s[CHOOSE i \in S : Rank(S, i) = k]]

Compacted(file) ==
    LET lines == Visible(file)
        kept  == {i \in Records(lines) : Stays(lines[i]) /\ ~Superseded(lines, i)} IN
    IF kept = Records(lines) THEN file
    ELSE [lines |-> Part(lines, kept), ended |-> TRUE]
=============================================================================

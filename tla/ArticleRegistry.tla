--------------------------- MODULE ArticleRegistry ---------------------------
(***************************************************************************)
(* What the vault's database promises its users: articles, each with one   *)
(* DOI and one retained object, and a table that says which article a hash *)
(* belongs to.  Every operation happens in one step, on a state in which   *)
(* it is allowed.  Module Upload is checked to implement this one: its     *)
(* locks, re-reads and constraint checks must make each COMMIT look like   *)
(* one of these steps.                                                     *)
(***************************************************************************)
CONSTANTS PdfId, Hash, Doi, None, SeedDoi, SeedSha

(* What is proved of this module, in UploadProofs, assumes this of the     *)
(* constants; see the assumptions of Upload.                               *)
NoneOutside == None \notin PdfId \cup Hash \cup Doi

(* The initial rows satisfy the constraints of table pdfs: doi and sha256  *)
(* are NOT NULL and UNIQUE.                                                *)
SeedUnique ==
    /\ SeedDoi \in [PdfId -> Doi \cup {None}]
    /\ SeedSha \in [PdfId -> Hash \cup {None}]
    /\ \A p \in PdfId : SeedDoi[p] = None <=> SeedSha[p] = None
    /\ \A p, q \in PdfId :
          p # q /\ SeedDoi[p] # None => /\ SeedDoi[p] # SeedDoi[q]
                                        /\ SeedSha[p] # SeedSha[q]

VARIABLES doiOf, shaOf, deleted, alias

registry == <<doiOf, shaOf, deleted, alias>>

Article == {p \in PdfId : shaOf[p] # None}

(* No article other than p has a claim on the bytes h.                     *)
FreeFor(h, p) ==
    /\ alias[h] \in {None, p}
    /\ \A q \in PdfId \ {p} : shaOf[q] # h

UnusedDoi(d) == \A p \in PdfId : doiOf[p] # d

Init ==
    /\ doiOf = SeedDoi
    /\ shaOf = SeedSha
    /\ deleted \in SUBSET {p \in PdfId : SeedSha[p] # None}
    /\ alias = [h \in Hash |-> None]

(* A new article d with object h; S are the other bytes it was sent as.    *)
Create(p, d, h, S) ==
    /\ p \notin Article
    /\ UnusedDoi(d)
    /\ \A x \in S \cup {h} : FreeFor(x, p)
    /\ doiOf' = [doiOf EXCEPT ![p] = d]
    /\ shaOf' = [shaOf EXCEPT ![p] = h]
    /\ deleted' = deleted \ {p}
    /\ alias' = [x \in Hash |-> IF x \in S THEN p ELSE alias[x]]

(* More bytes of an existing article, which becomes visible again.         *)
Join(p, S) ==
    /\ p \in Article
    /\ \A x \in S : FreeFor(x, p)
    /\ deleted' = deleted \ {p}
    /\ alias' = [x \in Hash |-> IF x \in S THEN p ELSE alias[x]]
    /\ UNCHANGED <<doiOf, shaOf>>

(* Another object for an existing article, which forgets its aliases.      *)
Replace(p, h, S) ==
    /\ p \in Article
    /\ \A x \in S \cup {h} : FreeFor(x, p)
    /\ shaOf' = [shaOf EXCEPT ![p] = h]
    /\ deleted' = deleted \ {p}
    /\ alias' = [x \in Hash |-> IF x \in S THEN p
                                ELSE IF alias[x] = p THEN None ELSE alias[x]]
    /\ UNCHANGED doiOf

Hide(p) ==
    /\ p \in Article
    /\ deleted' = deleted \cup {p}
    /\ UNCHANGED <<doiOf, shaOf, alias>>

Correct(p, d) ==
    /\ p \in Article \ deleted
    /\ UnusedDoi(d)
    /\ doiOf' = [doiOf EXCEPT ![p] = d]
    /\ UNCHANGED <<shaOf, deleted, alias>>

(* An upload names at most the bytes received and the bytes stored.        *)
Sent == {{}} \cup {{x, y} : x, y \in Hash}

(* h is stored, x was received: x is an alias exactly when it differs.     *)
Next ==
    \E p \in PdfId :
        \/ \E d \in Doi, h, x \in Hash : Create(p, d, h, {x} \ {h})
        \/ \E S \in Sent : Join(p, S)
        \/ \E h, x \in Hash : Replace(p, h, {x} \ {h})
        \/ Hide(p)
        \/ \E d \in Doi : Correct(p, d)

Spec == Init /\ [][Next]_registry

(* A smaller object for a visible article, next to compression workers: it *)
(* may have been sent as other bytes of that article before.  What else    *)
(* the article was sent as it keeps, the old object it forgets.            *)
Compact(p, h) ==
    /\ p \in Article \ deleted
    /\ FreeFor(h, p)
    /\ shaOf' = [shaOf EXCEPT ![p] = h]
    /\ alias' = [alias EXCEPT ![h] = None]
    /\ UNCHANGED <<doiOf, deleted>>

CompactingNext == Next \/ \E p \in PdfId, h \in Hash : Compact(p, h)

CompactingSpec == Init /\ [][CompactingNext]_registry
-----------------------------------------------------------------------------
RegistryType ==
    /\ doiOf \in [PdfId -> Doi \cup {None}]
    /\ shaOf \in [PdfId -> Hash \cup {None}]
    /\ deleted \subseteq PdfId
    /\ alias \in [Hash -> PdfId \cup {None}]

(* Table pdfs keeps doi and sha256 unique, both are set together, and no   *)
(* hash is the object of one article and an alias of another: looking a    *)
(* hash up in either table names the same article.                         *)
Consistent ==
    /\ \A p \in PdfId : doiOf[p] = None <=> shaOf[p] = None
    /\ \A p, q \in Article : p # q => doiOf[p] # doiOf[q] /\ shaOf[p] # shaOf[q]
    /\ \A h \in Hash : alias[h] # None =>
          /\ alias[h] \in Article
          /\ \A p \in Article : shaOf[p] = h => p = alias[h]
-----------------------------------------------------------------------------
RegistryInv == RegistryType /\ Consistent
=============================================================================

--------------------------- MODULE DocumentStore ----------------------------
(***************************************************************************)
(* The documents of the language server's index (server-index.ts): opened, *)
(* changed and closed by the editor, looked up by requests, and retired by *)
(* age.  Each request advances requestEpoch; every WARM_TTL requests a     *)
(* sweep turns old warm documents cold and drops old cold ones.  A hot     *)
(* document is one the editor has open; no sweep touches it.               *)
(***************************************************************************)
EXTENDS Naturals

CONSTANTS
  Uris,     \* documents
  Texts,    \* what a document may say
  NoDoc,    \* of a document the store does not hold
  WarmTtl,  \* WARM_TTL
  ColdTtl,  \* COLD_TTL
  MaxEpoch  \* bound on the number of requests

ASSUME StoreConstants ==
  /\ WarmTtl \in Nat \ {0}
  /\ ColdTtl \in Nat /\ ColdTtl >= 2 * WarmTtl
  /\ MaxEpoch \in Nat

Tiers == {"hot", "warm", "cold"}
Docs == [tier : Tiers, access : Nat, text : Texts]

ASSUME NoDocIsNoDocument == NoDoc \notin Docs \cup Texts

VARIABLES
  open,   \* documents open in the editor
  doc,    \* documents, by uri
  epoch   \* requestEpoch

vars == <<open, doc, epoch>>

TypeOK ==
  /\ open \subseteq Uris
  /\ doc \in [Uris -> Docs \cup {NoDoc}]
  /\ epoch \in Nat

Init ==
  /\ open = {}
  /\ doc = [u \in Uris |-> NoDoc]
  /\ epoch = 0

Held == {u \in Uris : doc[u] # NoDoc}
Age(u) == epoch - doc[u].access

-----------------------------------------------------------------------------
(* openDocument, by way of ensureDocument. *)
OpenDocument(u, t) ==
  /\ u \notin open
  /\ open' = open \cup {u}
  /\ doc' = [doc EXCEPT ![u] = [tier |-> "hot", access |-> epoch, text |-> t]]
  /\ UNCHANGED epoch

(* A change of a document that is not held is ignored. *)
UpdateDocument(u, t) ==
  /\ u \in open
  /\ doc' = IF u \in Held
            THEN [doc EXCEPT ![u].text = t, ![u].access = epoch]
            ELSE doc
  /\ UNCHANGED <<open, epoch>>

(* Mutant: closing gives a tier no sweep knows. *)
CloseParks(u) ==
  /\ u \in open
  /\ open' = open \ {u}
  /\ doc' = [doc EXCEPT ![u].tier = "parked", ![u].access = epoch]
  /\ UNCHANGED epoch

(* A closed document is warm, and keeps its text. *)
CloseDocument(u) ==
  /\ u \in open
  /\ open' = open \ {u}
  /\ doc' = IF u \in Held
            THEN [doc EXCEPT ![u].tier = "warm", ![u].access = epoch]
            ELSE doc
  /\ UNCHANGED epoch

(* A lookup makes a document young again; its tier stays what it was. *)
GetDocument(u) ==
  /\ u \in Held
  /\ doc' = [doc EXCEPT ![u].access = epoch]
  /\ UNCHANGED <<open, epoch>>

Colder(d) == [tier |-> "cold", access |-> d.access, text |-> d.text]

(* Mutants: a sweep that ages every document alike, and one that leaves    *)
(* cold documents alone.                                                   *)
RetiredWhateverTier(u, now) ==
  LET tier == doc[u].tier
      age == now - doc[u].access
  IN IF u \in Held /\ tier # "cold" /\ age > WarmTtl
     THEN Colder(doc[u])
     ELSE IF u \in Held /\ tier = "cold" /\ age > ColdTtl THEN NoDoc
     ELSE doc[u]

RetiredNever(u, now) ==
  IF u \in Held /\ doc[u].tier = "warm" /\ now - doc[u].access > WarmTtl
  THEN Colder(doc[u])
  ELSE doc[u]

(* evictStale, for one document: a sweep takes it one tier down at most.   *)
Retired(u, now) ==
  LET tier == doc[u].tier
      age == now - doc[u].access
  IN IF u \in Held /\ tier = "warm" /\ age > WarmTtl
     THEN Colder(doc[u])
     ELSE IF u \in Held /\ tier = "cold" /\ age > ColdTtl THEN NoDoc
     ELSE doc[u]

(* tick: every request begins with it. *)
Tick ==
  /\ epoch < MaxEpoch
  /\ epoch' = epoch + 1
  /\ doc' = IF epoch' % WarmTtl = 0
            THEN [u \in Uris |-> Retired(u, epoch')]
            ELSE doc
  /\ UNCHANGED open

-----------------------------------------------------------------------------
Next ==
  \/ \E u \in Uris, t \in Texts : OpenDocument(u, t) \/ UpdateDocument(u, t)
  \/ \E u \in Uris : CloseDocument(u) \/ GetDocument(u)
  \/ Tick

Spec == Init /\ [][Next]_vars

-----------------------------------------------------------------------------
(* Hot and open are the same thing: a document stays hot across any number *)
(* of requests while the editor has it open, and stops being hot when      *)
(* closed, so that it does not outlive its session for ever.               *)
OpenIsHot == \A u \in Uris : u \in open <=> u \in Held /\ doc[u].tier = "hot"

(* A closed document nobody asks about is gone before ColdTtl + WarmTtl    *)
(* requests have passed since its last use, however uses and sweeps fall.  *)
RetentionIsBounded == \A u \in Held \ open : Age(u) < ColdTtl + WarmTtl

(* The store keeps the promises of HeldDocuments. *)
Promise == INSTANCE HeldDocuments WITH
  NoText <- NoDoc,
  held <- [u \in Uris |-> IF doc[u] = NoDoc THEN NoDoc ELSE doc[u].text]

KeepsPromise == Promise!Spec
=============================================================================

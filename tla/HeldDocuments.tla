--------------------------- MODULE HeldDocuments ----------------------------
(***************************************************************************)
(* What the rest of the server relies on of its documents: the store holds *)
(* every document the editor has open, with the editor's latest text; once *)
(* closed, a document is held for as long as the store pleases, unchanged, *)
(* and dropping it is the only other thing that may happen to it.          *)
(***************************************************************************)
CONSTANTS
  Uris,   \* documents
  Texts,  \* what a document may say
  NoText  \* of a document that is not held

VARIABLES
  open,   \* documents open in the editor
  held    \* text of each held document

vars == <<open, held>>

Init ==
  /\ open = {}
  /\ held = [u \in Uris |-> NoText]

Open(u, t) ==
  /\ u \notin open
  /\ open' = open \cup {u}
  /\ held' = [held EXCEPT ![u] = t]

Change(u, t) ==
  /\ u \in open
  /\ held' = [held EXCEPT ![u] = t]
  /\ UNCHANGED open

Close(u) ==
  /\ u \in open
  /\ open' = open \ {u}
  /\ UNCHANGED held

(* One sweep may drop several closed documents. *)
Drop(S) ==
  /\ S \cap open = {}
  /\ held' = [u \in Uris |-> IF u \in S THEN NoText ELSE held[u]]
  /\ UNCHANGED open

Next ==
  \/ \E u \in Uris, t \in Texts : Open(u, t) \/ Change(u, t)
  \/ \E u \in Uris : Close(u)
  \/ \E S \in SUBSET Uris : Drop(S)

Spec == Init /\ [][Next]_vars
=============================================================================

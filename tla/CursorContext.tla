----------------------------- MODULE CursorContext -----------------------------
(* The VS Code extension shows where the cursor is: in the status bar          *)
(* (context-strip.ts) and in the atlas (views/workspace-tree.ts), from one     *)
(* answer of the server that both remember (context.ts).                       *)
(*                                                                             *)
(* Each text a document has had is a number, and what the server says of a     *)
(* line is the text and the line.  The server answers requests in the order    *)
(* asked, about the text as it was when asked, or refuses them.  VS Code       *)
(* counts a document's versions from one again when it is opened again.  One   *)
(* surface is open in one editor; anything else may be active instead.         *)
EXTENDS Naturals, Sequences

CONSTANTS
  Positions,      \* lines the cursor can be on
  MaxMoves        \* bound of the model: what the user does

VARIABLES
  active,         \* the surface's editor is the active one
  marked,         \* something is selected in it
  pos,            \* the cursor
  text,           \* what the surface says
  edition,        \* and the editor's version of it
  stripTimer,     \* of the strip
  atlasTimer,     \* of the atlas, which is visible
  requestVersion,
  awaited,        \* requests to the server, in order
  refused,        \* the last request of the strip that was refused while its newest
  snapshot,       \* cursorContextSnapshot
  strip,          \* what the status bar shows
  atlas,          \* and the atlas
  orderly,        \* neither was an answer pending when the strip was hidden,
                  \* nor did a version come to mean another text
  moves

cursorVars == <<active, marked, pos, text, edition, stripTimer, atlasTimer, requestVersion,
                awaited, refused, snapshot, strip, atlas, orderly, moves>>

Hidden == [text |-> 0, pos |-> 0]
Here == [text |-> text, pos |-> pos]
NoSnapshot == [edition |-> 0, pos |-> 0, value |-> Hidden]

CursorInit ==
  /\ active = TRUE /\ marked = FALSE
  /\ pos \in Positions
  /\ text = 1 /\ edition = 1
  /\ stripTimer = TRUE /\ atlasTimer = FALSE
  /\ requestVersion = 0
  /\ awaited = <<>> /\ refused = 0 /\ snapshot = NoSnapshot
  /\ strip = Hidden /\ atlas = Hidden
  /\ orderly = TRUE
  /\ moves = 0

-----------------------------------------------------------------------------
Did ==
  /\ moves < MaxMoves
  /\ moves' = moves + 1
  /\ UNCHANGED <<requestVersion, awaited, refused, snapshot, strip>>

(* Selecting nothing is placing the cursor. *)
MoveCursor(p, m) ==
  /\ Did
  /\ active /\ <<p, m>> # <<pos, marked>>
  /\ pos' = p /\ marked' = m
  /\ stripTimer' = TRUE /\ atlasTimer' = TRUE
  /\ UNCHANGED <<active, text, edition, atlas, orderly>>

Type ==
  /\ Did
  /\ active
  /\ text' = text + 1 /\ edition' = edition + 1
  /\ stripTimer' = TRUE
  /\ UNCHANGED <<active, marked, pos, atlasTimer, atlas, orderly>>

SwitchEditor ==
  /\ Did
  /\ active' = ~active
  /\ stripTimer' = TRUE
  /\ atlas' = IF active THEN Hidden ELSE atlas
  /\ UNCHANGED <<marked, pos, text, edition, atlasTimer, orderly>>

(* The surface was closed, changed on disk, and is opened again. *)
Reopen ==
  /\ Did
  /\ ~active
  /\ active' = TRUE /\ marked' = FALSE
  /\ text' = text + 1 /\ edition' = 1
  /\ stripTimer' = TRUE
  /\ orderly' = FALSE
  /\ UNCHANGED <<pos, atlasTimer, atlas>>

-----------------------------------------------------------------------------
Fresh == snapshot.edition = edition /\ snapshot.pos = pos

Ask(who, v) ==
  awaited' = Append(awaited, [who |-> who, request |-> v, edition |-> edition,
                              pos |-> pos, value |-> Here])

(* Mutant: the strip shows what it gets, newest request or not. *)
StripShowsAny(v, value) == strip' = value

StripShows(v, value) == strip' = IF v = requestVersion' THEN value ELSE strip

(* refreshContext: hide, or show what is remembered, or ask. *)
RefreshContext ==
  /\ stripTimer
  /\ stripTimer' = FALSE
  /\ IF ~active \/ marked
       THEN /\ strip' = Hidden
            /\ orderly' = (orderly /\ \A i \in DOMAIN awaited : awaited[i].who # "strip")
            /\ UNCHANGED <<requestVersion, awaited>>
       ELSE /\ requestVersion' = requestVersion + 1
            /\ orderly' = orderly
            /\ IF Fresh THEN StripShows(requestVersion', snapshot.value) /\ UNCHANGED awaited
                        ELSE Ask("strip", requestVersion') /\ UNCHANGED strip
  /\ UNCHANGED <<active, marked, pos, text, edition, atlasTimer, refused, snapshot, atlas,
                 moves>>

(* refreshCursorContext of the atlas, for the editor the event was about. *)
RefreshAtlas ==
  /\ atlasTimer
  /\ atlasTimer' = FALSE
  /\ IF Fresh THEN atlas' = snapshot.value /\ UNCHANGED awaited
              ELSE Ask("atlas", 0) /\ UNCHANGED atlas
  /\ UNCHANGED <<active, marked, pos, text, edition, stripTimer, requestVersion, refused,
                 snapshot, strip, orderly, moves>>

Remember(a) == [edition |-> a.edition, pos |-> a.pos, value |-> a.value]

Answered ==
  /\ awaited # <<>>
  /\ awaited' = Tail(awaited)
  /\ snapshot' = Remember(Head(awaited))
  /\ UNCHANGED <<requestVersion, refused>>
  /\ IF Head(awaited).who = "strip"
       THEN StripShows(Head(awaited).request, Head(awaited).value) /\ UNCHANGED atlas
       ELSE atlas' = Head(awaited).value /\ UNCHANGED strip
  /\ UNCHANGED <<active, marked, pos, text, edition, stripTimer, atlasTimer, orderly, moves>>

(* The strip leaves what it shows; the atlas catches the error and is empty. *)
Refused ==
  /\ awaited # <<>>
  /\ awaited' = Tail(awaited)
  /\ refused' = IF Head(awaited).who = "strip" /\ Head(awaited).request = requestVersion
                  THEN requestVersion ELSE refused
  /\ atlas' = IF Head(awaited).who = "atlas" THEN Hidden ELSE atlas
  /\ UNCHANGED <<active, marked, pos, text, edition, stripTimer, atlasTimer, requestVersion,
                 snapshot, strip, orderly, moves>>

CursorNext ==
  \/ \E p \in Positions, m \in BOOLEAN : MoveCursor(p, m)
  \/ Type \/ SwitchEditor \/ Reopen
  \/ RefreshContext \/ RefreshAtlas \/ Answered \/ Refused

CursorSpec == CursorInit /\ [][CursorNext]_cursorVars

-----------------------------------------------------------------------------
CursorTypeOK ==
  /\ active \in BOOLEAN /\ marked \in BOOLEAN
  /\ pos \in Positions
  /\ edition \in 1 .. text
  /\ requestVersion \in Nat /\ refused \in 0 .. requestVersion
  /\ \A i \in DOMAIN awaited : awaited[i].who \in {"strip", "atlas"}

(* When nothing is pending the strip says where the cursor is in the text as   *)
(* it is, or nothing where the active editor holds no surface or something is  *)
(* selected, in whatever order answers, memory and requests of the atlas came; *)
(* only where the last answer it asked for was refused it may not.             *)
StripIsCurrent ==
  orderly /\ ~stripTimer /\ awaited = <<>> =>
    IF active /\ ~marked THEN strip = Here \/ refused = requestVersion ELSE strip = Hidden
=============================================================================

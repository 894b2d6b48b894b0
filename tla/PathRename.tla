----------------------------- MODULE PathRename ------------------------------
(* Files and directories move and the citations of them follow                 *)
(* (spw-seed canonical/path-rename.ts; spw refactor --rename path:from=to,     *)
(* spw-cli refactor.ts and refactor-path.ts; workspace/willRenameFiles,        *)
(* spw-lsp handlers/rename-files.ts; what a citation lands on,                 *)
(* spw-cli citation-candidates.ts).                                            *)
(*                                                                             *)
(* A path is the sequence of its segments.  A surface holds at most one        *)
(* citation: the rule looks at each citation by itself.  Fragments, quotes,    *)
(* the slash at the end of a directory and what is no path (links, globs) go   *)
(* through unchanged and are left out.                                         *)
EXTENDS Naturals, FiniteSets, SequencesExt

CONSTANTS
  Surfaces,       \* .spw files, wherever they sit
  Citing,         \* those with a citation
  Root,           \* the consumer root
  Places,         \* where surfaces may sit at first
  Cited,          \* texts of citations at first
  Plans,          \* sequences of moves one may ask for
  NoCitation,     \* of a surface that cites nothing
  NoPlace,        \* instead of a target: the citation dangles
  MaxPlans,       \* bounds of the model: plans one after the other,
  MaxRuns         \* and rewritings for one plan

Segments == STRING \ {".", ".."}
PathParts == Segments \cup {".", ".."}

(* Normalised paths, and what may be written of one. *)
Paths == Seq(Segments)
Citations == {t \in [route : BOOLEAN, segs : Seq(PathParts)] : t.route \/ t.segs # <<>>}

ASSUME CitingAssumption == Citing \subseteq Surfaces
ASSUME PlacesAssumption ==
  Root \in Paths /\ \A p \in Places : p \in Paths /\ IsStrictPrefix(Root, p)
ASSUME CitedAssumption ==
  Cited \subseteq Citations /\ NoCitation \notin Citations /\ NoPlace \notin Paths
ASSUME PlansAssumption ==        \* the root stays where it is
  \A ms \in Plans : /\ ms \in Seq([from : Paths, to : Paths])
                    /\ \A i \in DOMAIN ms : ~IsPrefix(ms[i].from, Root)
ASSUME RunsAssumption == MaxPlans \in Nat /\ MaxRuns \in Nat

VARIABLES
  place,          \* where each surface sits
  folders,        \* the directories there are
  cites,          \* the citation of each surface
  moves,          \* the moves asked for
  made,           \* how many of them were made
  todo,           \* surfaces the command has yet to come to
  done,           \* surfaces it came to before the first move
  again,          \* those of them it came to again before the last move
  meant,          \* where each citation landed when the moves were asked for
  plans,          \* plans so far
  runs            \* rewritings for the present one

renameVars == <<place, folders, cites, moves, made, todo, done, again, meant, plans, runs>>

-----------------------------------------------------------------------------
(* Path arithmetic. *)

(* One segment further. *)
Walk(out, part) ==
  CASE part = "."                -> out
    [] part = ".." /\ out = <<>> -> out
    [] part = ".." /\ out # <<>> -> Front(out)
    [] OTHER                     -> Append(out, part)

NormalizePath(p) ==
  LET out[n \in 0 .. Len(p)] == IF n = 0 THEN <<>> ELSE Walk(out[n - 1], p[n])
  IN  out[Len(p)]

JoinPath(dir, rel) == NormalizePath(dir \o rel)

DirnameOf(p) == IF p = <<>> THEN p ELSE Front(p)

RelativePath(dir, to) ==
  LET shared == Len(LongestCommonPrefix({dir, to}))
  IN  [i \in 1 .. Len(dir) - shared |-> ".."] \o SubSeq(to, shared + 1, Len(to))

IsAtOrUnder(p, dir) == IsPrefix(dir, p)

Carry(p, m) == IF IsAtOrUnder(p, m.from)
                 THEN m.to \o SubSeq(p, Len(m.from) + 1, Len(p)) ELSE p

(* The first move that takes a path decides. *)
MapThroughMoves(p, ms) ==
  LET takes == {i \in DOMAIN ms : IsAtOrUnder(p, ms[i].from)}
  IN  IF takes = {} THEN p ELSE Carry(p, ms[Min(takes)])

Exists(p) == p \in folders \/ \E s \in Surfaces : place[s] = p

-----------------------------------------------------------------------------
(* The rule for one citation. *)

Form(text) ==
  CASE text.route                                       -> "route"
    [] ~text.route /\ Head(text.segs) \in {".", ".."} -> "relative"
    [] OTHER                                            -> "bare"

(* Where a citation may land, in the order tried. *)
Candidates(text, dir) ==
  LET file == [basis |-> "file", target |-> JoinPath(dir, text.segs)]
      root == [basis |-> "root", target |-> JoinPath(Root, text.segs)]
  IN  CASE Form(text) = "route"                                    -> <<root>>
        [] Form(text) # "route" /\ file.target # root.target     -> <<file, root>>
        [] Form(text) = "bare" /\ file.target = root.target      -> <<root>>
        [] OTHER                                                  -> <<file>>

ThereIn(now) == SelectInSeq(now, LAMBDA c : Exists(c.target))

GoneFrom(now) ==
  SelectInSeq(now, LAMBDA c : \E i \in DOMAIN moves : IsAtOrUnder(c.target, moves[i].from))

(* Mutant: a name that moves away is taken before one that is there. *)
ResolveGoneFirst(now) == IF GoneFrom(now) # 0 THEN GoneFrom(now) ELSE ThereIn(now)

(* Which candidate is meant, 0 if none: the first that is there, else the     *)
(* first that names a place moved away.                                       *)
Resolve(now) == IF ThereIn(now) # 0 THEN ThereIn(now) ELSE GoneFrom(now)

Express(target, form, base) ==
  LET rel == RelativePath(base, target)
  IN  CASE form = "route" -> [route |-> TRUE, segs |-> rel]
        [] form # "route" /\ rel = <<>> -> [route |-> FALSE, segs |-> <<".">>]
        [] form = "relative" /\ rel # <<>> /\ Head(rel) # ".."
             -> [route |-> FALSE, segs |-> <<".">> \o rel]
        [] OTHER -> [route |-> FALSE, segs |-> rel]

(* Mutant: a citation is rewritten for where its surface sits now. *)
AimFromWhereItSits(text, file, found) ==
  LET next == MapThroughMoves(found.target, moves)
      base == IF found.basis = "root" THEN Root ELSE DirnameOf(file)
  IN  IF JoinPath(base, text.segs) = next THEN text ELSE Express(next, Form(text), base)

(* The text that reaches where the candidate will be from where the surface    *)
(* will sit: the present one if it does.                                       *)
Aim(text, file, found) ==
  LET next == MapThroughMoves(found.target, moves)
      base == IF found.basis = "root" THEN Root
                ELSE DirnameOf(MapThroughMoves(file, moves))
  IN  IF JoinPath(base, text.segs) = next THEN text ELSE Express(next, Form(text), base)

(* The citation `text' of a surface at `file', rewritten for the moves. *)
RewriteCitation(text, file) ==
  LET now == Candidates(text, DirnameOf(file))
  IN  IF Resolve(now) = 0 THEN text ELSE Aim(text, file, now[Resolve(now)])

(* Mutant: the gate asks for the text alone. *)
GateOfText(text, file) ==
  \E i \in DOMAIN moves : Contains(text.segs, Last(moves[i].from))

(* The gate before the parse: the surface moves, or its text spells the last   *)
(* segment of what moves.                                                      *)
MayCitePathMoves(text, file) ==
  \E i \in DOMAIN moves : \/ IsAtOrUnder(file, moves[i].from)
                          \/ Contains(text.segs, Last(moves[i].from))

Planned(s) ==
  IF cites[s] = NoCitation \/ ~MayCitePathMoves(cites[s], place[s]) THEN cites[s]
    ELSE RewriteCitation(cites[s], place[s])

-----------------------------------------------------------------------------
(* What a reader finds: the citing directory first, then the root. *)

CitationCandidates(text, file) ==
  LET root == JoinPath(Root, text.segs)
  IN  IF text.route THEN <<root>> ELSE <<JoinPath(DirnameOf(file), text.segs), root>>

FoundAt(s) == {p \in ToSet(CitationCandidates(cites[s], place[s])) : Exists(p)}

Lands(s) ==
  LET now   == CitationCandidates(cites[s], place[s])
      first == SelectInSeq(now, Exists)
  IN  IF first = 0 THEN NoPlace ELSE now[first]

-----------------------------------------------------------------------------
Parents(p) == {SubSeq(p, 1, n) : n \in 0 .. Len(p) - 1}

RenameInit ==
  /\ place \in {p \in [Surfaces -> Places] :
                  /\ IsInjective(p)
                  /\ \A s, t \in Surfaces : ~IsStrictPrefix(p[s], p[t])}
  /\ folders = UNION {Parents(place[s]) : s \in Surfaces}
  /\ cites \in {c \in [Surfaces -> Cited \cup {NoCitation}] :
                  \A s \in Surfaces : c[s] = NoCitation <=> s \notin Citing}
  /\ moves = <<>>
  /\ made = 0
  /\ todo = {}
  /\ done = {}
  /\ again = {}
  /\ meant = [s \in Surfaces |-> NoPlace]
  /\ plans = 0
  /\ runs = 0

(* Nothing is at p, and no file is in the way of the directories above it. *)
Free(p) == ~Exists(p) /\ \A s \in Surfaces : ~IsPrefix(place[s], p)

(* Somebody wants moves made, of what is there to where something can be. *)
Ask(ms) ==
  /\ plans < MaxPlans
  /\ made = Len(moves) /\ todo = {}
  /\ \A i \in DOMAIN ms : Exists(ms[i].from) /\ Free(ms[i].to)
  /\ moves' = ms
  /\ made' = 0
  /\ done' = {}
  /\ again' = {}
  /\ meant' = [s \in Surfaces |-> IF s \in Citing THEN Lands(s) ELSE NoPlace]
  /\ plans' = plans + 1
  /\ runs' = 0
  /\ UNCHANGED <<place, folders, cites, todo>>

(* The plan is refused where both ends or neither are there, and where a       *)
(* directory would move into itself.                                           *)
ResolvePathMoves ==
  \A i \in DOMAIN moves : /\ Exists(moves[i].from) # Exists(moves[i].to)
                          /\ ~IsAtOrUnder(moves[i].to, moves[i].from)

(* spw refactor --write over the whole root; it may be run any number of       *)
(* times, before the moves, between them and after.                            *)
RefactorBegins ==
  /\ moves # <<>> /\ todo = {} /\ runs < MaxRuns
  /\ ResolvePathMoves
  /\ runs' = runs + 1
  /\ todo' = Citing
  /\ UNCHANGED <<place, folders, cites, moves, made, done, again, meant, plans>>

(* What the properties remember of the runs until the moves are made. *)
CameTo(S) ==
  /\ done' = IF made = 0 THEN done \cup S ELSE done
  /\ again' = IF made < Len(moves) THEN again \cup (done \cap S) ELSE again

RefactorWrites(s) ==
  /\ s \in todo
  /\ cites' = [cites EXCEPT ![s] = Planned(s)]
  /\ todo' = todo \ {s}
  /\ CameTo({s})
  /\ UNCHANGED <<place, folders, moves, made, meant, plans, runs>>

RefactorDies ==
  /\ todo # {}
  /\ todo' = {}
  /\ UNCHANGED <<place, folders, cites, moves, made, done, again, meant, plans, runs>>

Carried(m) ==
  /\ place' = [s \in Surfaces |-> Carry(place[s], m)]
  /\ folders' = {Carry(p, m) : p \in folders} \cup Parents(m.to)

(* mkdir -p and mv, as the plan prints them, or the editor: one move after the *)
(* other, each of them unless there is nothing to move or nowhere to.          *)
MoveMade ==
  /\ made < Len(moves) /\ todo = {}
  /\ made' = made + 1
  /\ LET m == moves[made + 1] IN
     IF Exists(m.from) /\ Free(m.to) /\ ~IsAtOrUnder(m.to, m.from)
       THEN Carried(m) ELSE UNCHANGED <<place, folders>>
  /\ UNCHANGED <<cites, moves, todo, done, again, meant, plans, runs>>

(* The editor asks for the edits before it moves files, and applies them. *)
WillRenameFiles ==
  /\ moves # <<>> /\ made = 0 /\ todo = {} /\ runs < MaxRuns
  /\ runs' = runs + 1
  /\ cites' = [s \in Surfaces |-> Planned(s)]
  /\ CameTo(Citing)
  /\ UNCHANGED <<place, folders, moves, made, todo, meant, plans>>

RenameNext ==
  \/ \E ms \in Plans : Ask(ms)
  \/ RefactorBegins
  \/ \E s \in Surfaces : RefactorWrites(s)
  \/ RefactorDies
  \/ MoveMade
  \/ WillRenameFiles

RenameSpec == RenameInit /\ [][RenameNext]_renameVars

-----------------------------------------------------------------------------
(* Surfaces keep apart and lie in directories that are there. *)
RenameTypeOK ==
  /\ DOMAIN place = Surfaces /\ IsInjective(place)
  /\ \A s \in Surfaces : Parents(place[s]) \subseteq folders
  /\ \A s \in Surfaces : cites[s] = NoCitation <=> s \notin Citing
  /\ moves \in Plans \cup {<<>>} /\ made \in 0 .. Len(moves)
  /\ todo \subseteq Citing /\ again \subseteq done /\ done \subseteq Citing
  /\ plans \in 0 .. MaxPlans /\ runs \in 0 .. MaxRuns

(* The moves of a plan keep out of each other's way: none goes to where a      *)
(* later one leaves from or goes to.  One may go to where an earlier one left. *)
(* refactor-path.ts:60 looks at each move by itself and asks for none of this. *)
InOrder(ms) ==
  \A i \in DOMAIN ms :
    /\ ~IsPrefix(ms[i].from, ms[i].to)
    /\ \A j \in DOMAIN ms : i < j =>
         /\ ~IsPrefix(ms[j].from, ms[i].to)
         /\ ~IsPrefix(ms[i].to, ms[j].to) /\ ~IsPrefix(ms[j].to, ms[i].to)

(* Once the moves are made, a citation that was rewritten for them once leads  *)
(* to where its target went, whichever of target, surface and the directories  *)
(* of both moved, whether the command or the editor rewrote it, and whether    *)
(* the command died on another surface, came to others between the moves, or   *)
(* ran again after them.  (A reader may find something else first that the     *)
(* moves put in the way, and moves out of order lead it astray: README, 6.)    *)
CitationsFollowTheirTargets ==
  made = Len(moves) /\ InOrder(moves) =>
    \A s \in done \ again : meant[s] # NoPlace =>
      MapThroughMoves(meant[s], moves) \in FoundAt(s)

(* path-rename.ts:249 says of the gate that every citation that reaches into a *)
(* moved path from outside it has to spell that segment: whatever moves are    *)
(* asked for, it turns away nothing the rule would rewrite.                    *)
GateHidesNothing ==
  moves # <<>> =>
    \A s \in Citing :
      RewriteCitation(cites[s], place[s]) # cites[s] => MayCitePathMoves(cites[s], place[s])

OwesNothing(s) == s \in done \cap done' => cites'[s] = cites[s]

(* The test of path-rename says of a second run over written text that it      *)
(* finds nothing, before and after the move.                                   *)
SecondRunOwesNothing == [][\A s \in Citing : OwesNothing(s)]_renameVars

(* After the moves it does find nothing, of citations that led somewhere.      *)
RunAfterMovesOwesNothing ==
  [][\A s \in Citing \ again :
       made = Len(moves) /\ InOrder(moves) /\ meant[s] # NoPlace => OwesNothing(s)]_renameVars
=============================================================================

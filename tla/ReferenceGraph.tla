--------------------------- MODULE ReferenceGraph ---------------------------
(***************************************************************************)
(* The language server's reference graph: who cites which surface.         *)
(* handlers/reference-graph.ts keeps one cached graph, one build in        *)
(* flight, a stale flag and a generation that every announced edit bumps.  *)
(* A code lens reads the cache at once and warms it in the background; a   *)
(* report awaits a build.  The build reads through the file listing memo   *)
(* of helpers.ts and lets a document the server holds override the disk.   *)
(*                                                                         *)
(* A surface's citations are abstracted to the text they are parsed from.  *)
(* The disk, the editor and its file watcher are the environment.          *)
(***************************************************************************)
EXTENDS Naturals

CONSTANTS
  Files,      \* paths of .spw surfaces inside the index scope
  Texts,      \* what a surface may say
  Absent,     \* a surface that is not on disk
  NoBuffer,   \* a surface the server holds no document for
  GraphTtl,   \* GRAPH_TTL, beats a report may be answered from the cache
  Requests,   \* spw/referenceGraph requests
  MaxEdits,   \* bound on what the editor and the disk do
  MaxLenses   \* bound on code lens requests the user causes

ASSUME ConstantsAreApart ==
  /\ Absent \notin Texts
  /\ NoBuffer \notin Texts
  /\ GraphTtl \in Nat /\ MaxEdits \in Nat /\ MaxLenses \in Nat

DiskText == Texts \cup {Absent}
Phases == {"idle", "settling", "listing", "reading"}

Graphs == [landed : BOOLEAN, startedAt : Nat, age : 0..GraphTtl,
           surfaces : SUBSET Files, cited : [Files -> DiskText]]

Builds == [phase : Phases, startedAt : Nat, age : 0..GraphTtl,
           surfaces : SUBSET Files, todo : SUBSET Files,
           cited : [Files -> DiskText]]

VARIABLES
  disk,         \* text of each surface on disk
  buffer,       \* text of each document the server holds, open or closed
  open,         \* surfaces open in the editor
  saving,       \* surfaces written by the editor whose didSave is on its way
  watched,      \* surfaces changed on disk whose file event is on its way
  scanning,     \* the first workspace scan is running
  listing,      \* workspaceFilesCache
  cache, stale, generation, build, onLanding,
  refreshAsked, \* workspace/codeLens/refresh sent, client not back yet
  report,       \* each request: its state; the generation owed and served
  edits, lenses,
  unannounced   \* history: sources that moved since the last invalidation

environment == <<disk, buffer, open, saving, watched, edits>>
graphVars == <<cache, stale, generation, build, onLanding>>
clientVars == <<refreshAsked, report, lenses>>
vars == <<disk, buffer, open, saving, watched, scanning, listing, cache, stale,
          generation, build, onLanding, refreshAsked, report, edits, lenses,
          unannounced>>

NoReport == [state |-> "idle", owed |-> 0, from |-> 0]
Reports == [state : {"idle", "waiting", "answered", "failed"},
            owed : Nat, from : Nat]

(* No graph has landed, and no listing is memoized. *)
NoCache == [landed |-> FALSE, startedAt |-> 0, age |-> 0, surfaces |-> {},
            cited |-> [f \in Files |-> Absent]]
NoListing == [known |-> FALSE, files |-> {}]

Idle == [phase |-> "idle", startedAt |-> 0, age |-> 0, surfaces |-> {},
         todo |-> {}, cited |-> [f \in Files |-> Absent]]

TypeOK ==
  /\ disk \in [Files -> DiskText]
  /\ buffer \in [Files -> Texts \cup {NoBuffer}]
  /\ open \subseteq Files /\ saving \subseteq Files /\ watched \subseteq Files
  /\ \A f \in open : buffer[f] \in Texts
  /\ scanning \in BOOLEAN
  /\ listing \in [known : BOOLEAN, files : SUBSET Files]
  /\ cache \in Graphs
  /\ stale \in BOOLEAN /\ generation \in Nat
  /\ build \in Builds
  /\ onLanding \in BOOLEAN /\ refreshAsked \in BOOLEAN
  /\ report \in [Requests -> Reports]
  /\ edits \in Nat /\ lenses \in Nat
  /\ unannounced \subseteq Files

Init ==
  /\ disk \in [Files -> DiskText]
  /\ buffer = [f \in Files |-> NoBuffer]
  /\ open = {} /\ saving = {} /\ watched = {}
  /\ scanning = TRUE
  /\ listing = NoListing
  /\ cache = NoCache /\ stale = FALSE /\ generation = 0
  /\ build = Idle /\ onLanding = FALSE
  /\ refreshAsked = FALSE
  /\ report = [r \in Requests |-> NoReport]
  /\ edits = 0 /\ lenses = 0
  /\ unannounced = {}

-----------------------------------------------------------------------------
(* What readCitations would find for a surface now: a held document wins.  *)
SourceIn(d, b, f) == IF b[f] # NoBuffer THEN b[f] ELSE d[f]
Source(f) == SourceIn(disk, buffer, f)

OnDisk == {f \in Files : disk[f] # Absent}
InFlight == build.phase # "idle"

(* Surfaces whose source this step moves join the history variable.        *)
NoteMoves ==
  unannounced' = unannounced \cup
    {f \in Files : SourceIn(disk', buffer', f) # Source(f)}

Edit ==
  /\ edits < MaxEdits
  /\ edits' = edits + 1
  /\ NoteMoves
  /\ UNCHANGED <<scanning, listing, graphVars, clientVars>>

(* Mutant: an edit marks the cache stale and forgets the generation.       *)
InvalidateWithoutGeneration ==
  /\ stale' = TRUE
  /\ unannounced' = {}
  /\ UNCHANGED generation

(* invalidateReferenceGraph *)
Invalidate ==
  /\ stale' = TRUE
  /\ generation' = generation + 1
  /\ unannounced' = {}

-----------------------------------------------------------------------------
(* The editor and the disk.                                                *)

(* didOpen carries the editor's text, which may be a restored unsaved one. *)
DidOpen(f, t) ==
  /\ f \notin open
  /\ open' = open \cup {f}
  /\ buffer' = [buffer EXCEPT ![f] = t]
  /\ UNCHANGED <<disk, saving, watched>>
  /\ Edit

(* didChange updates the document and nothing else.                        *)
DidChange(f, t) ==
  /\ f \in open \ saving
  /\ buffer' = [buffer EXCEPT ![f] = t]
  /\ UNCHANGED <<disk, open, saving, watched>>
  /\ Edit

(* didClose demotes the document but keeps its text.                       *)
DidClose(f) ==
  /\ f \in open \ saving
  /\ open' = open \ {f}
  /\ UNCHANGED <<disk, buffer, saving, watched>>
  /\ Edit

(* Mutant: the sweep drops open documents too.                             *)
EvictAnyDocument(f) ==
  /\ buffer[f] # NoBuffer
  /\ buffer' = [buffer EXCEPT ![f] = NoBuffer]
  /\ UNCHANGED <<disk, open, saving, watched>>
  /\ Edit

(* A closed document that was not asked about for long is dropped.         *)
EvictDocument(f) ==
  /\ f \notin open
  /\ buffer[f] # NoBuffer
  /\ buffer' = [buffer EXCEPT ![f] = NoBuffer]
  /\ UNCHANGED <<disk, open, saving, watched>>
  /\ Edit

EditorWrites(f) ==
  /\ f \in open \ saving
  /\ disk' = [disk EXCEPT ![f] = buffer[f]]
  /\ saving' = saving \cup {f}
  /\ watched' = watched \cup {f}
  /\ UNCHANGED <<buffer, open>>
  /\ Edit

(* Another program creates, rewrites or deletes a surface.                 *)
DiskChanges(f, t) ==
  /\ t # disk[f]
  /\ disk' = [disk EXCEPT ![f] = t]
  /\ watched' = watched \cup {f}
  /\ UNCHANGED <<buffer, open, saving>>
  /\ Edit

DidSave(f) ==
  /\ f \in saving
  /\ saving' = saving \ {f}
  /\ Invalidate
  /\ UNCHANGED <<disk, buffer, open, watched, edits, scanning, listing, cache,
                 build, onLanding, clientVars>>

(* One didChangeWatchedFiles notification carries a batch of changes.      *)
DidChangeWatchedFiles(batch) ==
  /\ batch # {}
  /\ watched' = watched \ batch
  /\ Invalidate
  /\ UNCHANGED <<disk, buffer, open, saving, edits, scanning, listing, cache,
                 build, onLanding, clientVars>>

-----------------------------------------------------------------------------
(* The listing memo, shared with every handler that walks the workspace.   *)

Listed == IF listing.known THEN listing.files ELSE OnDisk
Memoized(files) == [known |-> TRUE, files |-> files]

ListForAnotherHandler ==
  /\ ~listing.known
  /\ listing' = Memoized(OnDisk)
  /\ UNCHANGED <<environment, scanning, graphVars, clientVars, unannounced>>

ListingExpires ==
  /\ listing.known
  /\ listing' = NoListing
  /\ UNCHANGED <<environment, scanning, graphVars, clientVars, unannounced>>

-----------------------------------------------------------------------------
(* One build at a time.                                                    *)

Saturate(n) == IF n < GraphTtl THEN n + 1 ELSE GraphTtl

(* A request ticks the beat: a landed graph, and one whose builtAtBeat is  *)
(* taken already, are one beat older.  Ages past the TTL are all alike.    *)
Older(g) == [g EXCEPT !.age = Saturate(@)]
CacheAfterTick == IF cache.landed THEN Older(cache) ELSE cache
BuildAfterTick ==
  IF build.phase \in {"listing", "reading"} THEN Older(build) ELSE build

(* build(): join the build in flight, or start one.                        *)
JoinOrStart ==
  build' = IF InFlight THEN BuildAfterTick
           ELSE [Idle EXCEPT !.phase = "settling", !.startedAt = generation]

ScanSettles ==
  /\ scanning
  /\ scanning' = FALSE
  /\ UNCHANGED <<environment, listing, graphVars, clientVars, unannounced>>

BuildTakesBeat ==
  /\ build.phase = "settling"
  /\ ~scanning
  /\ build' = [build EXCEPT !.phase = "listing"]
  /\ UNCHANGED <<environment, scanning, listing, cache, stale, generation,
                 onLanding, clientVars, unannounced>>

BuildLists ==
  /\ build.phase = "listing"
  /\ listing' = Memoized(Listed)
  /\ build' = [build EXCEPT !.phase = "reading", !.surfaces = Listed, !.todo = Listed]
  /\ UNCHANGED <<environment, scanning, cache, stale, generation, onLanding,
                 clientVars, unannounced>>

BuildReads(f) ==
  /\ build.phase = "reading"
  /\ f \in build.todo
  /\ build' = [build EXCEPT !.todo = @ \ {f}, !.cited[f] = Source(f)]
  /\ UNCHANGED <<environment, scanning, listing, cache, stale, generation,
                 onLanding, clientVars, unannounced>>

(* Requests that joined the build are resumed when it settles.             *)
Resume(state) ==
  report' = [r \in Requests |->
               IF report[r].state = "waiting"
               THEN [state |-> state, owed |-> report[r].owed,
                     from |-> build.startedAt]
               ELSE report[r]]

(* Mutant: every landing marks the cache fresh.                            *)
BuildLandsAlwaysFresh ==
  /\ build.phase = "reading"
  /\ build.todo = {}
  /\ build' = Idle
  /\ cache' = [landed |-> TRUE, startedAt |-> build.startedAt,
               age |-> build.age, surfaces |-> build.surfaces,
               cited |-> build.cited]
  /\ stale' = FALSE
  /\ onLanding' = FALSE
  /\ refreshAsked' = (refreshAsked \/ onLanding)
  /\ Resume("answered")
  /\ UNCHANGED <<environment, scanning, listing, generation, lenses, unannounced>>

(* The graph replaces the cache and settle(true) asks the client for fresh *)
(* lenses.  Both run as one chain of microtasks, which no message enters.  *)
BuildLands ==
  /\ build.phase = "reading"
  /\ build.todo = {}
  /\ build' = Idle
  /\ cache' = [landed |-> TRUE, startedAt |-> build.startedAt,
               age |-> build.age, surfaces |-> build.surfaces,
               cited |-> build.cited]
  /\ stale' = IF generation = build.startedAt THEN FALSE ELSE stale
  /\ onLanding' = FALSE
  /\ refreshAsked' = (refreshAsked \/ onLanding)
  /\ Resume("answered")
  /\ UNCHANGED <<environment, scanning, listing, generation, lenses, unannounced>>

(* Mutants: a failed build keeps the callback, or leaves its waiters.      *)
BuildFailsKeepingCallback ==
  /\ InFlight
  /\ build' = Idle
  /\ Resume("failed")
  /\ UNCHANGED <<environment, scanning, listing, cache, stale, generation,
                 onLanding, refreshAsked, lenses, unannounced>>

BuildFailsSilently ==
  /\ InFlight
  /\ build' = Idle
  /\ onLanding' = FALSE
  /\ UNCHANGED <<environment, scanning, listing, cache, stale, generation,
                 clientVars, unannounced>>

(* settle(false): a failed build tells its waiters and asks for nothing.   *)
BuildFails ==
  /\ InFlight
  /\ build' = Idle
  /\ onLanding' = FALSE
  /\ Resume("failed")
  /\ UNCHANGED <<environment, scanning, listing, cache, stale, generation,
                 refreshAsked, lenses, unannounced>>

-----------------------------------------------------------------------------
(* Mutant: a lens warms the index even when it is fresh.                   *)
WarmAlways ==
  /\ cache' = CacheAfterTick
  /\ onLanding' = TRUE
  /\ JoinOrStart

(* codeLens reads the cache, then warmCitationIndex starts a build when    *)
(* the cache is cold or stale; the beat TTL does not apply to it.          *)
WarmCitationIndex ==
  /\ cache' = CacheAfterTick
  /\ IF cache.landed /\ ~stale
     THEN /\ build' = BuildAfterTick
          /\ UNCHANGED onLanding
     ELSE /\ onLanding' = TRUE
          /\ JoinOrStart

CodeLens ==
  /\ open # {}
  /\ lenses < MaxLenses
  /\ lenses' = lenses + 1
  /\ WarmCitationIndex
  /\ UNCHANGED <<environment, scanning, listing, stale, generation,
                 refreshAsked, report, unannounced>>

(* The client answers a refresh by asking for the lenses it shows.         *)
CodeLensAfterRefresh ==
  /\ refreshAsked
  /\ refreshAsked' = FALSE
  /\ IF open # {} THEN WarmCitationIndex
     ELSE UNCHANGED <<cache, build, onLanding>>
  /\ UNCHANGED <<environment, scanning, listing, stale, generation, report,
                 lenses, unannounced>>

(* Mutant: the TTL alone decides.                                          *)
ReportFromStaleCache ==
  /\ cache.landed
  /\ CacheAfterTick.age < GraphTtl

ReportFromCache ==
  /\ cache.landed
  /\ ~stale
  /\ CacheAfterTick.age < GraphTtl

(* buildReferenceGraph: a fresh cache answers, else the request waits.     *)
BuildReferenceGraph(r) ==
  /\ report[r].state = "idle"
  /\ cache' = CacheAfterTick
  /\ IF ReportFromCache
     THEN /\ report' = [report EXCEPT ![r] =
                 [state |-> "answered", owed |-> generation, from |-> cache.startedAt]]
          /\ build' = BuildAfterTick
     ELSE /\ JoinOrStart
          /\ report' = [report EXCEPT ![r] =
                 [state |-> "waiting", owed |-> build'.startedAt, from |-> 0]]
  /\ UNCHANGED <<environment, scanning, listing, stale, generation, onLanding,
                 refreshAsked, lenses, unannounced>>

-----------------------------------------------------------------------------
Environment ==
  \/ \E f \in Files, t \in Texts : DidOpen(f, t) \/ DidChange(f, t)
  \/ \E f \in Files : DidClose(f) \/ EvictDocument(f) \/ EditorWrites(f)
  \/ \E f \in Files, t \in DiskText : DiskChanges(f, t)

Announce ==
  \/ \E f \in Files : DidSave(f)
  \/ \E batch \in SUBSET watched : DidChangeWatchedFiles(batch)

BuildStep ==
  \/ BuildTakesBeat \/ BuildLists
  \/ \E f \in Files : BuildReads(f)
  \/ BuildLands \/ BuildFails

Next ==
  \/ Environment
  \/ Announce
  \/ ListForAnotherHandler \/ ListingExpires
  \/ ScanSettles
  \/ BuildStep
  \/ CodeLens \/ CodeLensAfterRefresh
  \/ \E r \in Requests : BuildReferenceGraph(r)

Spec == Init /\ [][Next]_vars

(* Promises the server itself keeps: its scan ends, its build goes on, and *)
(* a client that was asked to refresh does.  Nobody has to edit or ask.    *)
Fairness ==
  /\ WF_vars(ScanSettles)
  /\ WF_vars(BuildStep)
  /\ WF_vars(CodeLensAfterRefresh)

FairSpec == Spec /\ Fairness

-----------------------------------------------------------------------------
(* A cache not marked stale comes from a build begun after the last edit   *)
(* that was announced: build() may clear the flag only for such a build.   *)
FreshCacheSawEveryEdit ==
  cache.landed /\ ~stale => cache.startedAt = generation

(* For each surface it listed, a cache not marked stale holds what a       *)
(* reader would find now, but for sources that moved without an            *)
(* announcement since: an unsaved change, an evicted document, or a disk   *)
(* change whose event has not arrived.                                     *)
FreshCacheIsCurrent ==
  cache.landed /\ ~stale =>
    \A f \in cache.surfaces \ unannounced : cache.cited[f] = Source(f)

(* The client is told to come back for lenses only when there is a graph   *)
(* to count from: a failed build asks for nothing.                         *)
RefreshFindsAGraph == refreshAsked => cache.landed

(* A lens that found the cache cold or stale is told to come back, or its  *)
(* build failed: the callback is never left behind with no build to call   *)
(* it.                                                                     *)
LensIsNotForgotten == onLanding ~> ~onLanding

(* An answer given from the cache, or by a build started for it, knows     *)
(* every edit announced before the question; one that joined the build in  *)
(* flight knows those announced before that build began.                   *)
ReportSeesWhatItIsOwed ==
  \A r \in Requests :
    report[r].state = "answered" => report[r].from >= report[r].owed

(* Every report request is answered or failed.                             *)
ReportIsAnswered ==
  \A r \in Requests : report[r].state = "waiting" ~> report[r].state # "waiting"

(* Refreshes and builds do not feed each other for ever: once nobody edits *)
(* and nobody asks, the server falls quiet, even when builds keep failing. *)
ServerFallsQuiet == <>[](~InFlight /\ ~refreshAsked)

-----------------------------------------------------------------------------
(* What the comments of reference-graph.ts say of the graph.               *)

(* "an index nobody edited is still true" (line 357): when every event has *)
(* arrived and nothing moved since, a fresh graph lists each surface.      *)
FreshGraphListsEverySurface ==
  cache.landed /\ ~stale /\ watched = {} /\ saving = {} /\ unannounced = {}
    => OnDisk \subseteq cache.surfaces

(* "The open buffer wins ... and a closed file's citations come from the   *)
(* index's scan memo" (line 137): what a build reads of a closed surface   *)
(* is what is on disk, not the text of a document closed without saving.   *)
ClosedSurfaceReadsAsSaved ==
  [][\A f \in (build.todo \ build'.todo) \ open :
        build'.phase = "reading" => build'.cited[f] = disk[f]]_vars
=============================================================================

------------------------ MODULE ReferenceGraphProofs ------------------------
(***************************************************************************)
(* What ReferenceGraph promises of a cache not marked stale, for every set *)
(* of surfaces, texts and requests and every bound.                        *)
(***************************************************************************)
EXTENDS ReferenceGraph, TLAPS

(* A build an edit overtook leaves the cache stale until another one.      *)
OvertakenBuildIsStale ==
  /\ InFlight => build.startedAt <= generation
  /\ InFlight /\ build.startedAt # generation => stale

(* What a build that is not overtaken has read is still what it would read *)
(* now, but for sources that moved unannounced.                            *)
BuildReadsAreCurrent ==
  build.phase = "reading" /\ build.startedAt = generation =>
    \A f \in build.surfaces \ (build.todo \cup unannounced) :
      build.cited[f] = Source(f)

(* A request that waits, waits for a build that has seen what it is owed.  *)
WaitersHaveABuild ==
  \A r \in Requests : report[r].state = "waiting" =>
    InFlight /\ build.startedAt >= report[r].owed

Protocol == FreshCacheSawEveryEdit /\ OvertakenBuildIsStale
Promises == WaitersHaveABuild /\ ReportSeesWhatItIsOwed
Contents == BuildReadsAreCurrent /\ FreshCacheIsCurrent

-----------------------------------------------------------------------------
(* Ages stay within the TTL. *)
LEMMA SaturateBounded ==
  ASSUME NEW n \in 0..GraphTtl PROVE Saturate(n) \in 0..GraphTtl
BY ConstantsAreApart DEF Saturate

(* The idle build is a build record.                                       *)
LEMMA IdleIsABuild == Idle \in Builds
BY ConstantsAreApart DEF Idle, Builds, Phases, DiskText

(* The empty cache is a graph record.                                      *)
LEMMA NoCacheIsAGraph == NoCache \in Graphs
BY ConstantsAreApart DEF NoCache, Graphs, DiskText

(* A tick changes the age of a graph or a build and nothing else of it.    *)
LEMMA TickKeepsCache ==
  ASSUME TypeOK
  PROVE  /\ CacheAfterTick \in Graphs
         /\ CacheAfterTick.landed = cache.landed
         /\ CacheAfterTick.startedAt = cache.startedAt
         /\ CacheAfterTick.surfaces = cache.surfaces
         /\ CacheAfterTick.cited = cache.cited
BY SaturateBounded DEF TypeOK, CacheAfterTick, Older, Graphs

(* The same, of the build in flight.                                       *)
LEMMA TickKeepsBuild ==
  ASSUME TypeOK
  PROVE  /\ BuildAfterTick \in Builds
         /\ BuildAfterTick.phase = build.phase
         /\ BuildAfterTick.startedAt = build.startedAt
         /\ BuildAfterTick.surfaces = build.surfaces
         /\ BuildAfterTick.todo = build.todo
         /\ BuildAfterTick.cited = build.cited
BY SaturateBounded DEF TypeOK, BuildAfterTick, Older, Builds

(* A build that is joined is only ticked; one that is started has read     *)
(* nothing and belongs to the present generation.                          *)
LEMMA JoinOrStartEffect ==
  ASSUME TypeOK, JoinOrStart
  PROVE  /\ build' \in Builds
         /\ build'.phase # "idle"
         /\ \/ build' = BuildAfterTick /\ InFlight
            \/ build'.phase = "settling" /\ build'.startedAt = generation
<1>1. CASE InFlight
  BY <1>1, TickKeepsBuild DEF JoinOrStart, InFlight
<1>2. CASE ~InFlight
  <2>1. build' = [Idle EXCEPT !.phase = "settling", !.startedAt = generation]
    BY <1>2 DEF JoinOrStart
  <2>2. build' \in Builds
    BY <2>1, IdleIsABuild DEF Builds, Phases, TypeOK
  <2>3. build'.phase = "settling" /\ build'.startedAt = generation
    BY <2>1, IdleIsABuild DEF Builds
  <2> QED BY <2>2, <2>3
<1> QED BY <1>1, <1>2

(* What the editor and the disk do leaves the graph alone, and a source    *)
(* that moves is noted.                                                    *)
LEMMA EnvironmentEffect ==
  ASSUME TypeOK, Environment
  PROVE  /\ UNCHANGED <<scanning, listing, graphVars, clientVars>>
         /\ unannounced' \subseteq Files
         /\ unannounced \subseteq unannounced'
         /\ \A f \in Files \ unannounced' : Source(f)' = Source(f)
<1>1. Edit
  BY DEF Environment, DidOpen, DidChange, DidClose, EvictDocument, EditorWrites,
     DiskChanges
<1>2. UNCHANGED <<scanning, listing, graphVars, clientVars>>
  BY <1>1 DEF Edit
<1>3. unannounced' = unannounced \cup
        {f \in Files : SourceIn(disk', buffer', f) # Source(f)}
  BY <1>1 DEF Edit, NoteMoves
<1>4. \A f \in Files : Source(f)' = SourceIn(disk', buffer', f)
  BY DEF Source
<1> QED BY <1>2, <1>3, <1>4 DEF TypeOK

(* An announcement marks the cache stale and opens a new generation.       *)
LEMMA AnnounceEffect ==
  ASSUME Announce
  PROVE  /\ stale' = TRUE /\ generation' = generation + 1 /\ unannounced' = {}
         /\ UNCHANGED <<disk, buffer, open, edits, scanning, listing, cache, build,
                        onLanding, clientVars>>
BY DEF Announce, DidSave, DidChangeWatchedFiles, Invalidate

(* A lens, however it was caused, only ticks the cache, and joins or       *)
(* starts a build.                                                         *)
Lens == CodeLens \/ CodeLensAfterRefresh

(* A lens ticks the cache, joins or starts a build, and leaves the rest.   *)
LEMMA LensEffect ==
  ASSUME TypeOK, Lens
  PROVE  /\ cache' = CacheAfterTick \/ cache' = cache
         /\ build' = BuildAfterTick \/ build' = build \/ JoinOrStart
         /\ onLanding' \in BOOLEAN
         /\ UNCHANGED <<environment, scanning, listing, stale, generation, report,
                        unannounced>>
<1>1. WarmCitationIndex => /\ cache' = CacheAfterTick
                           /\ build' = BuildAfterTick \/ JoinOrStart
                           /\ onLanding' \in BOOLEAN
  BY DEF WarmCitationIndex, TypeOK
<1> QED BY <1>1 DEF Lens, CodeLens, CodeLensAfterRefresh, TypeOK

-----------------------------------------------------------------------------
(* Type correctness.                                                       *)

(* The initial state is typed.                                             *)
LEMMA InitTypes == Init => TypeOK
<1> SUFFICES ASSUME Init PROVE TypeOK
  OBVIOUS
<1>1. NoReport \in Reports
  BY DEF NoReport, Reports
<1>2. NoListing \in [known : BOOLEAN, files : SUBSET Files]
  BY DEF NoListing
<1> QED BY <1>1, <1>2, IdleIsABuild, NoCacheIsAGraph DEF Init, TypeOK

(* Resuming the waiting requests keeps reports reports.                    *)
LEMMA ResumeTypes ==
  ASSUME TypeOK, NEW state \in {"answered", "failed"}, Resume(state)
  PROVE  report' \in [Requests -> Reports]
BY DEF Resume, TypeOK, Reports, Builds

(* The part of TypeOK the editor and the disk can disturb. *)
EditorTypes ==
  /\ disk \in [Files -> DiskText]
  /\ buffer \in [Files -> Texts \cup {NoBuffer}]
  /\ open \subseteq Files /\ saving \subseteq Files /\ watched \subseteq Files
  /\ \A f \in open : buffer[f] \in Texts

(* What editor and disk do keeps every variable in its type.               *)
LEMMA EnvironmentTypes ==
  ASSUME TypeOK, Environment
  PROVE  EditorTypes' /\ edits' \in Nat
<1> USE DEF TypeOK, EditorTypes, DiskText
<1>1. edits' \in Nat
  BY DEF Environment, DidOpen, DidChange, DidClose, EvictDocument, EditorWrites,
     DiskChanges, Edit
<1>2. ASSUME NEW f \in Files, NEW t \in Texts, DidOpen(f, t) \/ DidChange(f, t)
      PROVE  EditorTypes'
  BY <1>2 DEF DidOpen, DidChange
<1>3. ASSUME NEW f \in Files, DidClose(f) \/ EvictDocument(f)
      PROVE  EditorTypes'
  BY <1>3 DEF DidClose, EvictDocument
<1>4. ASSUME NEW f \in Files, EditorWrites(f)
      PROVE  EditorTypes'
  BY <1>4 DEF EditorWrites
<1>5. ASSUME NEW f \in Files, NEW t \in DiskText, DiskChanges(f, t)
      PROVE  EditorTypes'
  BY <1>5 DEF DiskChanges
<1> QED BY <1>1, <1>2, <1>3, <1>4, <1>5 DEF Environment

(* One step keeps every variable in its type. *)
LEMMA StepTypes == TypeOK /\ [Next]_vars => TypeOK'
<1> SUFFICES ASSUME TypeOK, [Next]_vars PROVE TypeOK'
  OBVIOUS
<1>1. CASE Environment
  BY <1>1, EnvironmentTypes, EnvironmentEffect
     DEF TypeOK, EditorTypes, graphVars, clientVars
<1>2. CASE Announce
  <2>1. saving' \subseteq Files /\ watched' \subseteq Files
    BY <1>2 DEF Announce, DidSave, DidChangeWatchedFiles, TypeOK
  <2> QED BY <1>2, <2>1, AnnounceEffect DEF TypeOK, clientVars
<1>3. CASE ListForAnotherHandler \/ ListingExpires \/ ScanSettles
  <2>1. UNCHANGED <<environment, graphVars, clientVars, unannounced>>
    BY <1>3 DEF ListForAnotherHandler, ListingExpires, ScanSettles
  <2>2. scanning' \in BOOLEAN
    <3>1. scanning' = scanning \/ scanning' = FALSE
      BY <1>3 DEF ListForAnotherHandler, ListingExpires, ScanSettles
    <3> QED BY <3>1 DEF TypeOK
  <2>3. listing' \in [known : BOOLEAN, files : SUBSET Files]
    <3>1. listing' \in {Memoized(OnDisk), NoListing, listing}
      BY <1>3 DEF ListForAnotherHandler, ListingExpires, ScanSettles
    <3>2. \A S \in SUBSET Files : Memoized(S) \in [known : BOOLEAN, files : SUBSET Files]
      BY DEF Memoized
    <3>3. NoListing \in [known : BOOLEAN, files : SUBSET Files]
      BY DEF NoListing
    <3> QED BY <3>1, <3>2, <3>3 DEF TypeOK, OnDisk
  <2> QED BY <2>1, <2>2, <2>3 DEF TypeOK, environment, graphVars, clientVars
<1>4. CASE BuildTakesBeat
  BY <1>4 DEF BuildTakesBeat, TypeOK, Builds, Phases, environment, clientVars
<1>5. CASE BuildLists
  <2>1. Listed \in SUBSET Files
    BY DEF Listed, OnDisk, TypeOK
  <2> QED BY <1>5, <2>1 DEF BuildLists, Memoized, TypeOK, Builds, Phases,
          environment, clientVars
<1>6. ASSUME NEW f \in Files, BuildReads(f) PROVE TypeOK'
  <2>1. Source(f) \in DiskText
    BY DEF Source, SourceIn, DiskText, TypeOK
  <2> QED BY <1>6, <2>1 DEF BuildReads, TypeOK, Builds, environment, clientVars
<1>7. CASE BuildLands
  <2>1. report' \in [Requests -> Reports]
    BY <1>7, ResumeTypes DEF BuildLands
  <2>2. cache' \in Graphs
    BY <1>7 DEF BuildLands, Graphs, Builds, TypeOK
  <2> QED BY <1>7, <2>1, <2>2, IdleIsABuild DEF BuildLands, TypeOK, environment
<1>8. CASE BuildFails
  <2>1. report' \in [Requests -> Reports]
    BY <1>8, ResumeTypes DEF BuildFails
  <2> QED BY <1>8, <2>1, IdleIsABuild DEF BuildFails, TypeOK, environment
<1>9. CASE Lens
  <2>1. refreshAsked' \in BOOLEAN /\ lenses' \in Nat
    <3>1. CASE CodeLens
      BY <3>1 DEF CodeLens, TypeOK
    <3>2. CASE CodeLensAfterRefresh
      BY <3>2 DEF CodeLensAfterRefresh, TypeOK
    <3> QED BY <1>9, <3>1, <3>2 DEF Lens
  <2>2. cache' \in Graphs /\ build' \in Builds
    BY <1>9, LensEffect, TickKeepsCache, TickKeepsBuild, JoinOrStartEffect DEF TypeOK
  <2> QED BY <1>9, <2>1, <2>2, LensEffect DEF TypeOK, environment
<1>10. ASSUME NEW r \in Requests, BuildReferenceGraph(r) PROVE TypeOK'
  <2>1. build' \in Builds /\ cache' \in Graphs
    BY <1>10, TickKeepsCache, TickKeepsBuild, JoinOrStartEffect
       DEF BuildReferenceGraph
  <2>2. report' \in [Requests -> Reports]
    <3>1. build'.startedAt \in Nat /\ cache.startedAt \in Nat
      BY <2>1 DEF TypeOK, Builds, Graphs
    <3> QED BY <1>10, <3>1 DEF BuildReferenceGraph, TypeOK, Reports
  <2> QED BY <1>10, <2>1, <2>2 DEF BuildReferenceGraph, TypeOK, environment
<1>11. CASE UNCHANGED vars
  BY <1>11 DEF vars, TypeOK
<1> QED BY <1>1, <1>2, <1>3, <1>4, <1>5, <1>6, <1>7, <1>8, <1>9, <1>10, <1>11
        DEF Next, BuildStep, Lens

(* The state of the graph, its build and its clients keep their types: an  *)
(* age never passes the TTL and an open document is held.                  *)
THEOREM TypeCorrect == Spec => []TypeOK
BY InitTypes, StepTypes, PTL DEF Spec

-----------------------------------------------------------------------------
(* The protocol of stale flag and generation.                              *)

(* The generations agree initially.                                        *)
LEMMA InitProtocol == Init => Protocol
BY DEF Init, Protocol, FreshCacheSawEveryEdit, OvertakenBuildIsStale, NoCache,
   Idle, InFlight

(* One step keeps them in agreement: only a landing clears the stale flag, *)
(* and only for the generation it began in.                                *)
LEMMA StepProtocol == TypeOK /\ Protocol /\ [Next]_vars => Protocol'
<1> SUFFICES ASSUME TypeOK, Protocol, [Next]_vars PROVE Protocol'
  OBVIOUS
<1> USE DEF Protocol, FreshCacheSawEveryEdit, OvertakenBuildIsStale, InFlight
<1>1. CASE UNCHANGED graphVars
  BY <1>1 DEF graphVars
<1>2. CASE Announce
  BY <1>2, AnnounceEffect DEF TypeOK, Builds
<1>3. CASE BuildTakesBeat \/ BuildLists \/ \E f \in Files : BuildReads(f)
  <2>1. /\ build'.startedAt = build.startedAt /\ build.phase # "idle"
        /\ UNCHANGED <<cache, stale, generation>>
    BY <1>3 DEF BuildTakesBeat, BuildLists, BuildReads, TypeOK, Builds
  <2> QED BY <2>1
<1>4. CASE BuildLands
  BY <1>4 DEF BuildLands, Idle
<1>5. CASE BuildFails
  BY <1>5 DEF BuildFails, Idle
<1>6. CASE Lens
  BY <1>6, LensEffect, TickKeepsCache, TickKeepsBuild, JoinOrStartEffect DEF TypeOK
<1>7. ASSUME NEW r \in Requests, BuildReferenceGraph(r) PROVE Protocol'
  BY <1>7, TickKeepsCache, TickKeepsBuild, JoinOrStartEffect
     DEF BuildReferenceGraph, TypeOK
<1> QED BY <1>1, <1>2, <1>3, <1>4, <1>5, <1>6, <1>7, EnvironmentEffect
        DEF Next, BuildStep, Lens, ListForAnotherHandler, ListingExpires,
            ScanSettles, vars, graphVars

(* A cache not marked stale comes from a build begun after the last edit   *)
(* that was announced.                                                     *)
THEOREM FreshCacheFollowsEdits == Spec => []FreshCacheSawEveryEdit
<1>1. Init => TypeOK /\ Protocol
  BY InitTypes, InitProtocol
<1>2. TypeOK /\ Protocol /\ [Next]_vars => (TypeOK /\ Protocol)'
  BY StepTypes, StepProtocol
<1>3. Protocol => FreshCacheSawEveryEdit
  BY DEF Protocol
<1> QED BY <1>1, <1>2, <1>3, PTL DEF Spec

-----------------------------------------------------------------------------
(* What a fresh cache holds.                                               *)

(* No graph has contents initially.                                        *)
LEMMA InitContents == Init => Contents
BY DEF Init, Contents, BuildReadsAreCurrent, FreshCacheIsCurrent, NoCache, Idle

(* Contents hold on while graph and build stand still and nothing moves    *)
(* unnoticed.                                                              *)
LEMMA ContentsStandStill ==
  ASSUME TypeOK, Contents,
         /\ build'.phase = build.phase /\ build'.startedAt = build.startedAt
         /\ build'.surfaces = build.surfaces /\ build'.todo = build.todo
         /\ build'.cited = build.cited,
         /\ cache'.landed = cache.landed /\ cache'.surfaces = cache.surfaces
         /\ cache'.cited = cache.cited,
         UNCHANGED <<stale, generation>>,
         unannounced \subseteq unannounced',
         \A f \in Files \ unannounced' : Source(f)' = Source(f)
  PROVE  Contents'
<1>1. build.surfaces \subseteq Files /\ cache.surfaces \subseteq Files
  BY DEF TypeOK, Builds, Graphs
<1>2. BuildReadsAreCurrent'
  BY <1>1 DEF Contents, BuildReadsAreCurrent
<1>3. FreshCacheIsCurrent'
  BY <1>1 DEF Contents, FreshCacheIsCurrent
<1> QED BY <1>2, <1>3 DEF Contents

(* One step keeps what a build has read, and what a fresh cache holds,     *)
(* equal to the sources that have not moved unannounced.                   *)
LEMMA StepContents == TypeOK /\ Protocol /\ Contents /\ [Next]_vars => Contents'
<1> SUFFICES ASSUME TypeOK, Protocol, Contents, [Next]_vars PROVE Contents'
  OBVIOUS
<1>a. UNCHANGED <<disk, buffer>> => \A f \in Files : Source(f)' = Source(f)
  BY DEF Source, SourceIn
<1>1. CASE Environment
  BY <1>1, EnvironmentEffect, ContentsStandStill DEF graphVars
<1>2. CASE Announce
  <2>1. stale' /\ build' = build /\ cache' = cache /\ generation' = generation + 1
    BY <1>2, AnnounceEffect
  <2>2. FreshCacheIsCurrent'
    BY <2>1 DEF FreshCacheIsCurrent
  <2>3. BuildReadsAreCurrent'
    BY <2>1 DEF BuildReadsAreCurrent, Protocol, OvertakenBuildIsStale, InFlight,
       TypeOK, Builds
  <2> QED BY <2>2, <2>3 DEF Contents
<1>3. CASE ListForAnotherHandler \/ ListingExpires \/ ScanSettles \/ UNCHANGED vars
  <2>1. UNCHANGED <<disk, buffer, cache, build, stale, generation, unannounced>>
    BY <1>3 DEF ListForAnotherHandler, ListingExpires, ScanSettles, vars,
       environment, graphVars
  <2> QED BY <2>1, <1>a, ContentsStandStill
<1>4. CASE BuildTakesBeat \/ BuildLists
  <2>1. /\ UNCHANGED <<disk, buffer, cache, stale, unannounced>>
        /\ build'.phase # "reading" \/ build'.todo = build'.surfaces
    BY <1>4 DEF BuildTakesBeat, BuildLists, TypeOK, Builds, environment
  <2>2. FreshCacheIsCurrent'
    <3>1. cache.surfaces \subseteq Files
      BY DEF TypeOK, Graphs
    <3> QED BY <2>1, <1>a, <3>1 DEF Contents, FreshCacheIsCurrent
  <2>3. BuildReadsAreCurrent'
    BY <2>1 DEF BuildReadsAreCurrent
  <2> QED BY <2>2, <2>3 DEF Contents
<1>5. ASSUME NEW f \in Files, BuildReads(f) PROVE Contents'
  <2>1. /\ UNCHANGED <<disk, buffer, cache, stale, generation, unannounced>>
        /\ build.phase = "reading"
        /\ build'.startedAt = build.startedAt /\ build'.surfaces = build.surfaces
        /\ build'.todo = build.todo \ {f}
        /\ build'.cited = [build.cited EXCEPT ![f] = Source(f)]
    BY <1>5 DEF BuildReads, TypeOK, Builds, environment
  <2>2. build.cited \in [Files -> DiskText] /\ build.surfaces \subseteq Files
        /\ cache.surfaces \subseteq Files
    BY DEF TypeOK, Builds, Graphs
  <2>3. FreshCacheIsCurrent'
    BY <2>1, <2>2, <1>a DEF Contents, FreshCacheIsCurrent
  <2>4. BuildReadsAreCurrent'
    BY <2>1, <2>2, <1>a DEF Contents, BuildReadsAreCurrent
  <2> QED BY <2>3, <2>4 DEF Contents
<1>6. CASE BuildLands
  <2>1. /\ UNCHANGED <<disk, buffer, unannounced>>
        /\ build.phase = "reading" /\ build.todo = {}
        /\ build'.phase = "idle"
        /\ cache'.surfaces = build.surfaces /\ cache'.cited = build.cited
        /\ stale' = IF generation = build.startedAt THEN FALSE ELSE stale
    BY <1>6 DEF BuildLands, environment, Idle
  <2>2. ~stale' => build.startedAt = generation
    BY <2>1 DEF Protocol, OvertakenBuildIsStale, InFlight
  <2>3. build.surfaces \subseteq Files
    BY DEF TypeOK, Builds
  <2>4. FreshCacheIsCurrent'
    BY <2>1, <2>2, <2>3, <1>a DEF Contents, BuildReadsAreCurrent, FreshCacheIsCurrent
  <2>5. BuildReadsAreCurrent'
    BY <2>1 DEF BuildReadsAreCurrent
  <2> QED BY <2>4, <2>5 DEF Contents
<1>7. CASE BuildFails
  <2>1. /\ UNCHANGED <<disk, buffer, cache, stale, unannounced>>
        /\ build'.phase = "idle"
    BY <1>7 DEF BuildFails, environment, Idle
  <2>2. cache.surfaces \subseteq Files
    BY DEF TypeOK, Graphs
  <2> QED BY <2>1, <2>2, <1>a
          DEF Contents, BuildReadsAreCurrent, FreshCacheIsCurrent
<1>8. ASSUME cache' = CacheAfterTick \/ cache' = cache,
             build' = BuildAfterTick \/ build' = build \/ JoinOrStart,
             UNCHANGED <<disk, buffer, stale, generation, unannounced>>
      PROVE  Contents'
  <2>1. /\ cache'.landed = cache.landed /\ cache'.surfaces = cache.surfaces
        /\ cache'.cited = cache.cited
    BY <1>8, TickKeepsCache
  <2>2. CASE build' = BuildAfterTick \/ build' = build
    <3>1. /\ build'.phase = build.phase /\ build'.startedAt = build.startedAt
          /\ build'.surfaces = build.surfaces /\ build'.todo = build.todo
          /\ build'.cited = build.cited
      BY <2>2, TickKeepsBuild
    <3> QED BY <1>8, <2>1, <3>1, <1>a, ContentsStandStill
  <2>3. CASE build'.phase = "settling"
    <3>1. cache.surfaces \subseteq Files
      BY DEF TypeOK, Graphs
    <3> QED BY <1>8, <2>1, <2>3, <3>1, <1>a
            DEF Contents, BuildReadsAreCurrent, FreshCacheIsCurrent
  <2> QED BY <1>8, <2>2, <2>3, JoinOrStartEffect
<1>9. CASE Lens
  BY <1>9, LensEffect, <1>8 DEF environment
<1>10. ASSUME NEW r \in Requests, BuildReferenceGraph(r) PROVE Contents'
  BY <1>10, <1>8 DEF BuildReferenceGraph, environment
<1> QED BY <1>1, <1>2, <1>3, <1>4, <1>5, <1>6, <1>7, <1>9, <1>10
        DEF Next, BuildStep, Lens

(* For each surface it listed, a cache not marked stale holds what a       *)
(* reader would find now, but for sources that moved unannounced.          *)
THEOREM FreshCacheHoldsSources == Spec => []FreshCacheIsCurrent
<1>1. Init => TypeOK /\ Protocol /\ Contents
  BY InitTypes, InitProtocol, InitContents
<1>2. TypeOK /\ Protocol /\ Contents /\ [Next]_vars
        => (TypeOK /\ Protocol /\ Contents)'
  BY StepTypes, StepProtocol, StepContents
<1>3. Contents => FreshCacheIsCurrent
  BY DEF Contents
<1> QED BY <1>1, <1>2, <1>3, PTL DEF Spec

-----------------------------------------------------------------------------
(* A graph, once landed, stays: whoever is told to come back finds one.    *)
LEMMA StepRefresh ==
  TypeOK /\ RefreshFindsAGraph /\ [Next]_vars => RefreshFindsAGraph'
<1> SUFFICES ASSUME TypeOK, RefreshFindsAGraph, [Next]_vars
             PROVE  RefreshFindsAGraph'
  OBVIOUS
<1> USE DEF RefreshFindsAGraph
<1>1. CASE UNCHANGED <<cache, refreshAsked>>
  BY <1>1
<1>2. CASE BuildLands
  BY <1>2 DEF BuildLands
<1>3. CASE Lens
  <2>1. cache'.landed = cache.landed
    BY <1>3, LensEffect, TickKeepsCache
  <2>2. refreshAsked' => refreshAsked
    BY <1>3 DEF Lens, CodeLens, CodeLensAfterRefresh
  <2> QED BY <2>1, <2>2
<1>4. ASSUME NEW r \in Requests, BuildReferenceGraph(r) PROVE RefreshFindsAGraph'
  <2>1. cache'.landed = cache.landed /\ UNCHANGED refreshAsked
    BY <1>4, TickKeepsCache DEF BuildReferenceGraph
  <2> QED BY <2>1
<1>5. Environment \/ Announce => UNCHANGED <<cache, refreshAsked>>
  BY EnvironmentEffect, AnnounceEffect DEF graphVars, clientVars
<1>6. ListForAnotherHandler \/ ListingExpires \/ ScanSettles \/ UNCHANGED vars
        => UNCHANGED <<cache, refreshAsked>>
  BY DEF ListForAnotherHandler, ListingExpires, ScanSettles, graphVars, clientVars, vars
<1>7. BuildTakesBeat \/ BuildLists \/ BuildFails \/ (\E f \in Files : BuildReads(f))
        => UNCHANGED <<cache, refreshAsked>>
  BY DEF BuildTakesBeat, BuildLists, BuildFails, BuildReads, clientVars
<1> QED BY <1>1, <1>2, <1>3, <1>4, <1>5, <1>6, <1>7 DEF Next, BuildStep, Lens

(* The client is asked to come back for lenses only when there is a graph  *)
(* to count from.                                                          *)
THEOREM RefreshAlwaysFindsAGraph == Spec => []RefreshFindsAGraph
<1>1. Init => RefreshFindsAGraph
  BY DEF Init, RefreshFindsAGraph
<1>2. TypeOK /\ RefreshFindsAGraph /\ [Next]_vars => (TypeOK /\ RefreshFindsAGraph)'
  BY StepTypes, StepRefresh
<1> QED BY <1>1, <1>2, InitTypes, PTL DEF Spec

-----------------------------------------------------------------------------
(* What a report knows.                                                    *)

(* A step that leaves requests alone and keeps the build in flight keeps   *)
(* the promises made to them.                                              *)
LEMMA PromisesStandStill ==
  ASSUME Promises, UNCHANGED report,
         InFlight => InFlight' /\ build'.startedAt = build.startedAt
  PROVE  Promises'
BY DEF Promises, WaitersHaveABuild, ReportSeesWhatItIsOwed

(* Whether joined, started or only ticked, a build in flight goes on.      *)
LEMMA LensKeepsBuild ==
  ASSUME TypeOK, InFlight, build' = BuildAfterTick \/ build' = build \/ JoinOrStart
  PROVE  InFlight' /\ build'.startedAt = build.startedAt
<1>1. build' = BuildAfterTick \/ build' = build
  BY DEF JoinOrStart
<1> QED BY <1>1, TickKeepsBuild DEF InFlight

(* One step of any kind keeps the promises.                                *)
LEMMA StepPromises == TypeOK /\ Protocol /\ Promises /\ [Next]_vars => Promises'
<1> SUFFICES ASSUME TypeOK, Protocol, Promises, [Next]_vars PROVE Promises'
  OBVIOUS
<1>1. CASE UNCHANGED <<build, report>>
  BY <1>1, PromisesStandStill DEF InFlight
<1>2. Environment \/ Announce => UNCHANGED <<build, report>>
  BY EnvironmentEffect, AnnounceEffect DEF graphVars, clientVars
<1>3. ListForAnotherHandler \/ ListingExpires \/ ScanSettles \/ UNCHANGED vars
        => UNCHANGED <<build, report>>
  BY DEF ListForAnotherHandler, ListingExpires, ScanSettles, graphVars, clientVars, vars
<1>4. CASE BuildTakesBeat \/ BuildLists \/ \E f \in Files : BuildReads(f)
  <2>1. /\ build'.startedAt = build.startedAt /\ build'.phase # "idle"
        /\ UNCHANGED report
    BY <1>4 DEF BuildTakesBeat, BuildLists, BuildReads, TypeOK, Builds, clientVars
  <2> QED BY <2>1, PromisesStandStill DEF InFlight
<1>5. ASSUME NEW state \in {"answered", "failed"}, Resume(state), build' = Idle
      PROVE  Promises'
  <2>1. \A r \in Requests :
          report'[r] = IF report[r].state = "waiting"
                       THEN [state |-> state, owed |-> report[r].owed,
                             from |-> build.startedAt]
                       ELSE report[r]
    BY <1>5 DEF Resume
  <2>2. ASSUME NEW r \in Requests
        PROVE  /\ report'[r].state # "waiting"
               /\ report'[r].state = "answered" => report'[r].from >= report'[r].owed
    <3>1. CASE report[r].state = "waiting"
      <4>1. report'[r] = [state |-> state, owed |-> report[r].owed,
                          from |-> build.startedAt]
        BY <2>1, <3>1
      <4>2. /\ report'[r].state = state /\ report'[r].owed = report[r].owed
            /\ report'[r].from = build.startedAt
        BY <4>1
      <4> QED BY <3>1, <4>2, <1>5 DEF Promises, WaitersHaveABuild
    <3>2. CASE report[r].state # "waiting"
      BY <2>1, <3>2 DEF Promises, ReportSeesWhatItIsOwed
    <3> QED BY <3>1, <3>2
  <2> QED BY <2>2 DEF Promises, WaitersHaveABuild, ReportSeesWhatItIsOwed
<1>6. CASE BuildLands
  BY <1>5, <1>6 DEF BuildLands
<1>7. CASE BuildFails
  BY <1>5, <1>7 DEF BuildFails
<1>8. CASE Lens
  BY <1>8, LensEffect, LensKeepsBuild, PromisesStandStill
<1>9. ASSUME NEW r \in Requests, BuildReferenceGraph(r) PROVE Promises'
  <2>1. InFlight => InFlight' /\ build'.startedAt = build.startedAt
    BY <1>9, LensKeepsBuild DEF BuildReferenceGraph
  <2>0. report \in [Requests -> Reports]
    BY DEF TypeOK
  <2>2. CASE ReportFromCache
    <3>1. /\ cache.startedAt = generation
          /\ report' = [report EXCEPT ![r] =
               [state |-> "answered", owed |-> generation, from |-> cache.startedAt]]
      BY <1>9, <2>2 DEF BuildReferenceGraph, ReportFromCache, Protocol,
          FreshCacheSawEveryEdit
    <3>2. \A q \in Requests \ {r} : report'[q] = report[q]
      BY ONLY <2>0, <3>1
    <3>3. report'[r].state = "answered" /\ report'[r].from >= report'[r].owed
      BY ONLY <2>0, <3>1, TypeOK DEF TypeOK
    <3> QED BY <2>1, <3>2, <3>3
            DEF Promises, WaitersHaveABuild, ReportSeesWhatItIsOwed
  <2>3. CASE ~ReportFromCache
    <3>1. /\ JoinOrStart
          /\ report' = [report EXCEPT ![r] =
               [state |-> "waiting", owed |-> build'.startedAt, from |-> 0]]
      BY <1>9, <2>3 DEF BuildReferenceGraph
    <3>2. \A q \in Requests \ {r} : report'[q] = report[q]
      BY ONLY <2>0, <3>1
    <3>3. InFlight' /\ build'.startedAt \in Nat
      BY <3>1, JoinOrStartEffect DEF InFlight, Builds
    <3>4. report'[r].state = "waiting" /\ build'.startedAt >= report'[r].owed
      BY ONLY <2>0, <3>1, <3>3
    <3> QED BY <2>1, <3>2, <3>3, <3>4
            DEF Promises, WaitersHaveABuild, ReportSeesWhatItIsOwed
  <2> QED BY <2>2, <2>3
<1> QED BY <1>1, <1>2, <1>3, <1>4, <1>6, <1>7, <1>8, <1>9 DEF Next, BuildStep, Lens

(* An answer given from the cache, or by a build started for it, knows     *)
(* every edit announced before the question.                               *)
THEOREM ReportsSeeWhatTheyAreOwed == Spec => []ReportSeesWhatItIsOwed
<1>1. Init => Promises
  BY DEF Init, Promises, WaitersHaveABuild, ReportSeesWhatItIsOwed, NoReport
<1>2. Promises => ReportSeesWhatItIsOwed
  BY DEF Promises
<1> QED BY <1>1, <1>2, InitTypes, StepTypes, InitProtocol, StepProtocol,
           StepPromises, PTL DEF Spec
=============================================================================

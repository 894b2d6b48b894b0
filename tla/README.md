# Specifications of the Spw workbench

TLA+ models of the Spw workbench, checked with TLC and, where a result should
hold for every size, proved with TLAPS.  This document says what the system's
parts are, which of them are modelled and how, what every run and theorem
shows, and what is left.

Paths are relative to the repository.  `LSP` stands for
`packages/spw-lsp/src`, `RT` for `packages/spw-runtime/src`, `CLI` for
`packages/spw-cli/src`.

## 1. The system

The workbench reads and maintains corpora of `.spw` surfaces.  A *surface* is a
text with annotations, frames, selector definitions and citations of other
surfaces.  Everything is TypeScript on one thread per process; what interleaves
is what happens between two `await`s of a handler, and, for the command line,
two processes that use the same files.

| Part | State it keeps | Operations | What is hard | What makes it correct |
|---|---|---|---|---|
| **Documents** (`LSP/server-index.ts` 173-350) | `documents` with tier, epoch of last access, text; `requestEpoch` | `openDocument`, `updateDocument`, `closeDocument`, `getDocument`, `tick`/`evictStale` | ages and sweeps that run every 64th request | an open document is always held with the editor's text; a closed one goes after a bounded time |
| **Workspace index** (`LSP/server-index.ts` 575-950) | annotations, frames, citation memo, selector definitions, scan promise | `scan`, `saveDocument`, `refreshFileAnnotations`, `forgetFile`, `forgetFilesUnder`, `citationsFor` | the scan and unawaited refreshes read files while saves, events and deletes arrive | only files in scope; one copy of each entry; what is on disk |
| **Reference graph** (`LSP/handlers/reference-graph.ts`) | one cached graph, `stale`, `generation`, one build in flight, a callback | `buildReferenceGraph`, `warmCitationIndex`, `citationSnapshot`, `invalidateReferenceGraph` | edits overtake a build; builds fail; refreshes cause lenses that cause builds | a graph not marked stale saw every announced edit; nobody is forgotten; no endless loop |
| **Diagnostics** (`LSP/stdio-server.ts` 182-189 and 440-506, `LSP/handlers/analysis.ts` 45-296) | a debounce timer per document; publications in flight | `debounceDiagnostics`, `publishDiagnostics`, `didOpen`/`didChange`/`didSave`/`didClose` | publications overlap; a text is read before and after awaits | what the client shows in the end belongs to the text it has; every text is looked at |
| Listing memo (`LSP/helpers.ts` 253-288) | the workspace listing, for 5 s | `getWorkspaceSpwFiles` | used after a create or delete was announced | (part of the reference graph's model) |
| **Transport, lifecycle** (`LSP/stdio-server.ts`, `LSP/context.ts`) | input buffer, configuration, root, the index | framing, dispatch, `initialize`, `shutdown`, `exit` | chunks end anywhere; `initialize` awaits and then replaces the index | every message once and in order; one answer per request |
| **Path rename** (`packages/spw-seed/src/canonical/path-rename.ts`, `CLI/refactor*.ts`, `LSP/handlers/rename-files.ts`) | none between calls | rewrite the citations of what moves | target, surface and their directories move at once; the command is run again | every citation reaches afterwards what it reached before |
| Read-only handlers (hover, outline, tokens, …) | none | — | — | functions of a document and the index |
| **Memory cache and policy** (`RT/state/memory-cache.ts`, `memory-policy.ts`) | entries with tier, hits, beat | get, set, promote, demote, tick, sweep | promotion, expiry and capacity interact | bounded size; no entry past its TTL; what was just set is there |
| **Register bank** (`RT/state/register-bank.ts`, `liminality-bridge.ts`) | cells with facets and phase, lens index, peers, focus | set, put, couple, tag, mark, focus, delete, enforce a budget | side tables kept beside cells that come and go | the tables name what is there; protected cells stay |
| **Hot session** (`RT/session/hot-session.ts`) | two product planes, handles | evaluate, inspect, cite, follow, collapse, invalidate, tick | keys built in two places, from a text that was prepared | a hit is of a text prepared like the one asked about; handles keep to their text |
| **Pulse writes** (`CLI/pulse.ts`, `pulse-write.ts`) | files | plan, gate, stage, check, rename | the file changes under the pulse; another pulse writes | one change or none; nothing unplanned is replaced |
| **Edit sequences** (`packages/spw-seed/src/canonical/differential.ts`, `operational-transform.ts`) | none between calls | difference, apply, transform, compose, sequence | offsets belong to a stage | the result is all kept edits at once |
| **Session cache** (`CLI/session/workspace-cache.ts`) | files shared by processes | bank, look up, clear | read-modify-write without a lock; crashes | what was banked is found |
| **Memory dumps** (`CLI/mem.ts`) | dump directories, the runtime directory | dump, load, prune | crashes half way, agents that write | a manifest tells the truth; a load restores it |
| **Corpus memo** (`CLI/corpus-memo.ts`, `corpus-scan.ts`) | scans a process remembers, products on disk | scan, remember, reset | files change between their stats and their reading; processes share the memos | a hit is what a scan would give |
| **VS Code extension** (`src/extensions/vscode-spw/src`) | the user's saved settings; the context of the cursor | toggle capture mode; refresh strip and atlas | a toggle cut short; answers out of date | the user's settings come back; what is shown is where the cursor is |
| Seed (`packages/spw-seed`), the rest | none between calls | parse, normalise, query | algorithms on text | functions of their input |
| Other editors, scripts, libraries, docs | — | — | — | clients and content |

How the server's parts interact:

    editor --didOpen/didChange/didClose--> documents
           --didSave--------------------> documents, index, graph (stale), timer
    watcher -didChangeWatchedFiles------> index (refresh, unawaited), graph (stale)
    initialize --> scan ----------------> index
    codeLens ----> graph cache; warm ---> build --> listing memo, documents, disk, index memo
    build lands -> callback ------------> client: workspace/codeLens/refresh --> codeLens
    timer -------> publishDiagnostics --> documents, disk, git --> client

Every request begins with `tick`, which ages documents and the graph's beat.

The parts outside the server meet in files: two `spw` processes, an editor and
agents write the same workspace, and nothing locks it.  The runtime's parts meet
in one process: a hot session fills two beat caches on one clock.

## 2. The modules

| Module | Models | Checked by | Proved in |
|---|---|---|---|
| `ReferenceGraph` | the graph, its build, lenses, reports, the listing memo, documents and disk as far as they matter to it | `MCReferenceGraph` | `ReferenceGraphProofs` |
| `WorkspaceIndex` | scan, saves, refreshes, folder deletes, the citation memo, selector definitions | `MCWorkspaceIndex` | `WorkspaceIndexProofs` |
| `HeldDocuments` | abstract: what the server relies on of its documents | (as a property) | `ServerProofs` |
| `DocumentStore` | documents with tiers, epoch and sweeps | `MCServer` | `ServerProofs` |
| `Diagnostics` | timers, publications, close | `MCServer` | `ServerProofs` |
| `ServerLifecycle` | framing, dispatch, handlers, `initialize` to `exit` | `MCServer` | `ServerProofs` |
| `CaptureMode` | capture mode of the VS Code extension | `MCServer` | `ExtensionProofs` |
| `CursorContext` | the context strip and the atlas | `MCServer` | `ExtensionProofs` |
| `RegisterBank` | the register bank, its memory policy and liminality | `MCRuntime` | `RuntimeProofs` |
| `BeatPlane`, `BeatCache` | operators of one beat cache; the cache by itself | `MCRuntime` | `RuntimeProofs` |
| `HotSession` | evaluate and inspect planes, handles (extends `BeatPlane`) | `MCRuntime` | `RuntimeProofs` |
| `PulseWrite` | plan, gate and guarded replacement | `MCCommands` | `PulseProofs` |
| `EditSequence` | edits, their rebasing and composition | `MCCommands` | `PulseProofs` |
| `CliSessionCache` | the session cache on disk | `MCCommands` | `SavedStateProofs` |
| `MemDump` | memory dumps | `MCCommands` | `SavedStateProofs` |
| `CorpusMemo` | corpus scans and their memos | `MCCommands` | `SavedStateProofs` |
| `PathRename` | citations of what moves | `MCCommands` | `PathRenameProofs` |

`MCServer`, `MCRuntime` and `MCCommands` hold several parts each.  The parts of
one share no state; a behaviour runs one part, chosen at its start.

`PROJECT.json` maps each definition to the lines it stands for.  Definitions
whose comment says *Mutant* are plausible wrong versions of the definition next
to them; no specification uses them, they exist to show that a property can fail.

### 2.1 ReferenceGraph

`cache`, `stale`, `generation`, `build`, `onLanding` are the module variables
of `reference-graph.ts`; `build.phase` is the await the build stands at:
*settling* (`scanSettled`), *listing* (`getWorkspaceSpwFiles`), *reading* (the
surfaces).  The order of reads is any order, which covers the code's concurrent
map.  The cache, the stale flag and the settling of waiters and callback change
in one action: they run in one chain of microtasks that no message can enter.

- What `readCitations` finds is abstracted to the text it is read from: a
  document the server holds, open or closed, else the disk (`Source`).
- `generation` is the code's; `startedAt` is the snapshot a build takes of it.
- Ages count beats up to `GraphTtl`, above which all are alike.
- The environment types, opens, closes, writes, changes the disk from outside,
  and its announcements (`didSave`, `didChangeWatchedFiles`) arrive later, in
  any order and in batches.  A document that is evicted is an environment step
  here, bounded by `DocumentStore`.
- `unannounced` is a history variable: surfaces whose source moved since the
  last announcement.  It states exactly what the code cannot know.
- `report[r].owed` and `.from` are history: the generation an answer owes its
  asker and the generation it was computed for.

### 2.2 WorkspaceIndex

A file's entries are abstracted to the text they were extracted from, and
*counted*, because adding them twice is observable (`workspaceAnnotations` and
`annotationsByName` are lists).  A handler's `readFile` is two actions, the
read and its use (`RefreshReads`/`RefreshApplies`, `ScanReads`/`ScanAdds`,
`CorpusReads`/`CitationsFor`).  One selector name stands for the selector map,
which keeps the last definition of a name.  `Scope` is what `inIndexScope`
accepts, `Folder` a directory that may be deleted whole, which raises one event
for the directory.  `CalmSpec` restricts *deliveries only* (see 3).

Not in the module: configuration files and the projection graph, which the scan
loads once; the document tier map, which is `DocumentStore`; re-initialisation.

### 2.3 DocumentStore and HeldDocuments

`DocumentStore` has `openDocument` (by way of `ensureDocument`),
`updateDocument`, `closeDocument`, `getDocument` and `tick` with its sweep.
`HeldDocuments` is the promise: an open document is held with the text last
sent, a closed one keeps its text until it is dropped, and nothing else is ever
dropped.  The refinement maps `held` to the text of the document or none, and
hides tier and epoch.  Counters of visits and writes are left out.

### 2.4 Diagnostics

Versions stand for texts: `NewText` gives the document one it never had.  A
publication reads twice: at its start (parse errors, broken references) and, in
the step that sends, after its last await (brace physics, the runtime trial).
`shown[u]` is the pair of versions of the two halves of the last list sent.
`DidClose` sends the empty list and leaves timer and publications alone, as
`stdio-server.ts` 480-486 does.  A restarted timer is not told apart from a
running one: time is not modelled, a running timer may fire at any moment.  A
document is not evicted while its timer runs (it would have to stay unused for
over 64 requests within the debounce).  `calm` is a history variable: whether
this document's publications have all ended in order, and it was never closed
while one was pending.

### 2.5 ServerLifecycle

The client's stream is a sequence of pieces: a header, the blank line, and as
many pieces of body as `Size` gives the message.  `DataArrives` takes any number
of them, so chunks end anywhere; `Dispatch` takes one complete message, and
while `reading` no other step of the server comes between, as `processIncoming`
loops without an await.  A notification's handler that throws ends that loop (no
`try` is around `stdio-server.ts` 562; `openDocument` selects references and
analyses the text outside the parser's `try`, `server-index.ts` 405-412):
`Dispatch` may stop `reading` there, `cut` says so, and what is left of the
chunk waits until more data arrives.  The process only logs such an error (573),
and the document was put into the map before. Handlers that await are in
`working`; each ends with its answer.  `initialize` awaits twice (`stage`: the
root, the configuration) and then replaces the index; `serving` is the documents
that the index in use holds. The client keeps to the protocol: it waits for the
answer to `initialize` before it opens anything, and may leave without a
`shutdown`.

### 2.6 CaptureMode and CursorContext

A toggle reads the saved priors, plans, saves them, writes the settings one by
one and, switching off, clears the priors last.  Any write may fail, and the
window may be reloaded between any two; what is left to write is then lost.  The
user edits settings while the mode is off or on.  One window toggles.

`CursorContext` numbers the texts a document has had, since VS Code numbers
versions from one again when it is reopened.  The server answers in the order
asked, or refuses (`Refused`: the strip keeps what it shows, the atlas is empty);
strip and atlas share the one remembered snapshot.  `orderly` is history: no
answer was outstanding when the strip was hidden, and no version was used again
for another text; `refused` is the request of the strip, if any, that was refused
while it was the newest.  `StripIsCurrent` is stated for the one and excepts the
other.

### 2.7 RegisterBank

Cells keep what the control reads: immutability, lenses, facets (their phases),
current phase, liminality, and the coupling density as a pair.  Values,
provenance, timestamps and counters are payload.  A plan under pressure orders
cells by a score and asks whether the estimated cost is over a cap: both are
chosen freely, which covers every score.  The two tests for a protected cell,
the policy's (`IsProtected`) and the deletion's (`Refuses`), are two definitions
because they are two in the code.

### 2.8 BeatPlane, BeatCache, HotSession

`BeatPlane` is a library of operators on one plane, entry by entry; `BeatCache`
makes an action of each, and `HotSession` uses them for both its planes.  The
beat clock is replaced by ages and hits stop at three, which is all the code
compares.  Evicting at the limit takes the coldest and then the oldest entry;
ties, which the code breaks by insertion order, are free.

A session key is the prepared text and the dialect; a product is made of the
text as given as well (`form`), whose phrases, flow and bytecode it carries.
The dialects `l` and `q` collapse newlines, so two texts may be prepared alike
and a text be what another is prepared to: `Prepared` is any function.  The
session's clock adds `floor(2 * volatility)` beats, smaller after a hit
(`HitBeats`, `MissBeats`); volatility is a percentage here, 0 to 1 in the code.
One cap holds for both planes (the code's defaults are 256 and 128).
Evaluation's effect on registers is not in the module.

### 2.9 PulseWrite

A file is a text and an identity (device, inode, mode).  Planning reads the two
in either order, file after file; the gate decides for the batch; a pulse that
has something to write stages a copy, reads the target's text and identity again
and renames.  The comparison and the rename have no await between them that can
change the comparison, but each part of the comparison is as old as its read:
`moved` records what the target has changed since.  What the parser and the
evidence say of a plan (`healthy`) and every I/O error are free.  Other pulses,
and an editor that writes in place or replaces the file, interleave; a pulse may
die anywhere.

### 2.10 EditSequence

A source is a sequence of terminated lines and an offset counts lines, which is
where the planner cuts.  `DifferentialEdits`, `ApplyEdits`, `TransformEdit`,
`TransformEditList` and `Compose` are operators; a parallel sequence takes steps
planned on one base.  The stable sort of the code is `Ordered`, which puts each
edit at its rank.  `Thrown` is the source of a sequence that raised an error.

### 2.11 CliSessionCache, MemDump and CorpusMemo

Opening a file for writing empties it: a product is *none*, *torn* or *whole*,
and the index may be read while it is empty.  Index updates are a read and a
write.  `banked` and `disturbed` are history: what was banked since the last
clear, and whether a clear overlapped a bank or was cut short.

Dumps are numbered in the order of their names and no two share one (the code's
stamp has a resolution of a second, see 6).  Copies run in any order, the
manifest is written last, and agents write the runtime all the while.  A
manifest that is torn cannot be parsed by any load, and counts as none.  A
checksum stands for its content.  Files outside the runtime directory are left
out.  `alone` is history: whether nobody else has written the runtime since the
load began.

A corpus scan lists the files, takes their stats one by one, looks its key up in
memory and on disk, and reads file by file on a miss, or on a hit on disk for
the texts only.  A stamp stands for mtime and size and no two edits share one.
Of a product the model keeps the texts it was made from and the broken targets.
Options and roots are fixed.  `quiet` and `still` are history: whether a file or
a target has changed since the scan began.

### 2.12 PathRename

A path is the sequence of its segments.  A citing surface has one citation; the
rule looks at each by itself.  `Plans` are any sequences of moves that leave the
root where it is; `Ask` takes one if, as `resolvePathMoves` (`refactor-path.ts`
60-91) has it, each of its moves by itself goes from what is there to where
nothing is (`Free`), so a plan may move again what an earlier move brought, or
bring two things to one place.  `InOrder` are the plans whose moves keep out of each other's way;
`NormalizePath`, `RelativePath`, `MapThroughMoves`, `Candidates`, `Resolve`
(`resolveCitation`), `Express` and `RewriteCitation` are the code's functions,
and the actions are the two users of them: the command, which runs any number of
times before, between and after the moves and may die between two surfaces, and
the editor's `willRenameFiles`, whose edits land before the first move.  The
moves are then made one after the other, each unless there is nothing to move or
nowhere to.  What a citation reaches is defined by the other half of the code,
`citation-candidates.ts`.  `meant`, `done` and `again` are history: where a
citation led when the moves were asked for, and which surfaces a run came to
before the first move, and once more before the last.

Paths here are absolute and have no segment that only begins with two dots, which
`express` would take for a way up.

## 3. The runs

| Run | Shows |
|---|---|
| `graph` | `FreshCacheSawEveryEdit`: a cache not marked stale was built after the last announced edit. `FreshCacheIsCurrent`: it then holds the present source of every surface it lists, but for those that moved unannounced. `ReportSeesWhatItIsOwed`: a report knows every edit announced before the question, or, if it joined a build, before that build began. Liveness: `LensIsNotForgotten`, `ReportIsAnswered`, `ServerFallsQuiet` (refresh → lens → build → refresh is no endless loop, even if builds keep failing). |
| `index_calm` | `IndexStaysInScope`: no annotation, frame or selector from a skipped directory, whichever way the file is met. `QuietIndexIsDisk`: when deliveries do not overlap, the index ends with one copy of exactly what is on disk. |
| `server` | Documents: `RetentionIsBounded`: a closed, unused document is gone within `ColdTtl + WarmTtl` requests; `KeepsPromise`: the refinement of `HeldDocuments`. Diagnostics: `QuietListsAreRight`: when nothing is pending, the half of the list read at the send is that of the editor's text, however publications overlap; so is the half read at the start, and a closed document shows nothing, if the document was `calm`. `EditIsDiagnosed`: every text typed is looked at by a publication that is sent. Life: `MessagesOnceInOrder`, also when a handler leaves the loop by throwing; `OneAnswerEach`; `EveryRequestAnswered`, unless a handler threw and nothing arrives any more; `OpenedIsHeld`: replacing the index loses no document. Extension: `CaptureRestores`: wherever a toggle stops, the user's settings are in place or can be put back; `StripIsCurrent`: with no answer outstanding the strip shows where the cursor is, unless its last request was refused. |
| `runtime` | Bank: `SideTablesAreExact`: peers, lens index and densities agree with the cells; the current phase is that of the last facet left; `ProtectedStay`; `EnforcementMeetsTheCap`. Cache: `HeldIsFresh`: no entry has outlived its tier; `SetIsReadable`: what was set is there, unless the cache is full of warmer entries. Session: `HitIsOfAnAlikeText`: what lies under a key was made, under its dialect, of a text prepared to it; `HandlesKeepTheirText`: the source of a handle, its form and its card stay alike, and it is found under its form. |
| `commands` | Pulse: `OnlyPlannedIsReplaced`, `BatchIsAllOrNothing`. Cache: `CacheLeadsToProducts`: what was banked is found whatever became of the index, and the index lists nothing that is gone. Dumps: `ManifestIsHonest`, `LoadRestoresDump`. Edits: `DifferentialLeadsThere`; `RebasedIsMerged`: two steps, or one edit composed with a list, give the base with all kept edits applied at once. Rename: `CitationsFollowTheirTargets` and `RunAfterMovesOwesNothing`, of plans whose moves are in order; `GateHidesNothing`, of any: the gate before the parse turns away nothing the rule would rewrite. Corpus: `QuietScanAnswersTheDisk`: from whichever plane, a scan during which no file changed answers with the files' texts and a product made of them. |
| `graph_listing`, `graph_closed`, `index_scan_race`, `hot_hit`, `memo_hit`, `edits_compose`, `rename_rerun` | one disagreement between code and text each; see 6 |

Each module has one type invariant.  The runs of the server and of the runtime
check those of their parts together; those of the command line's parts are
theorems only.

**Bounds.**  Every action of the environment counts towards a bound; what the
server does by itself is counted only where moves are (`MaxMoves`).

- Graph: two surfaces that are there or not, TTL 2, one report, three edits, one
  lens the user asks for (those a refresh causes are not bounded).  A document
  can be opened, closed and evicted; a build can be overtaken by an announced edit
  while another is unannounced; a second surface lets a listing be half right.
  One text is enough, since a surface that appears, or a buffer over a surface
  that is absent, changes what is read as a new text would.
- Index: two files in scope, of which one is in the folder, and one outside it;
  three edits, so that a file can change, be saved and be deleted.  One refresh
  at a time, as deliveries are calm; that types and scope also hold while any
  number of refreshes and the scan overlap is proved, of `Spec`.
- Server: two documents, TTLs 2 and 8 (the code's ratio, 64 and 256), 22
  requests: two full retirements of one document.  Two documents, three
  publications in flight, five editor steps.  Five client messages, with bodies
  of two pieces, one request the server knows and one it does not.  Two
  settings with two values or unset, two changes by the user.  Two lines, three
  moves of the user.
- Runtime: six registers (two ordinary and interchangeable, one each of the
  protected kinds), one lens, two phases, two liminalities, budgets of three and
  two cells, two facets; TTLs 1, 2 and 4; a cap of two entries; two sources and
  two dialects, one of which prepares both alike, to the second.  A part takes
  four steps, the session five: enough to couple, tag and drop a register and
  make it again; to fill the cache, age it and set again; to cite, evict and
  follow.
- Commands: two pulses, two files, two texts, three identities.  Two commands,
  two ids, a listing of one.  Two jobs, two files, two dumps, of which prune
  keeps one.  Sources of up to three lines of two contents, two steps, a first
  list of one and a second of up to two edits (`edits_compose`: two and one).
  Three surfaces of which one cites, four places, nine spellings, twelve plans,
  some of them out of order, of which two are carried out, with two rewritings
  each by command or editor.  Two scanners, one file with
  two texts, one target, two edits and three scans: one scan leaves a memo, the
  second finds it on disk or meets an edit, the third finds it in memory.

Symmetry is used where values are interchangeable and no liveness is checked:
the two ordinary registers; the two pulses, commands or jobs, and the two
contents that the changing memory file may have.

**Deadlock** is not checked: an environment that has used its bound and a
server with nothing to do is a proper end.  That the server does not stop
early is what the liveness properties say.

**Fairness** is assumed of the program and of its clients' answers only.  The
scan ends (its errors are caught), a build whose step is enabled takes it
(promises of file reads settle), a client that supports refresh comes back,
timers run out, publications end.  In `ServerLifecycle`, what the client has
sent arrives, what a handler awaits comes or fails.  Weak fairness suffices,
since none of these is disabled by others.  Nobody is required to edit, save or
ask.

**Calm** is a condition, not a claim about the code.  In
`WorkspaceIndex!CalmSpec` an announcement is handled only while no scan runs and
no refresh is in flight, a file's `didSave` before its file event, and a
folder's delete before events of files put back in it; in `Diagnostics` it is
the history variable of 2.4.  The code enforces neither.  Run `index_scan_race`
and the notes of 6 show what happens otherwise for the index;
`QuietListsAreRight` shows what remains true of diagnostics without it.

## 4. The proofs

All theorems are about the specifications above for arbitrary constants that
meet the named assumptions of their module.  These say that special values
differ from texts, uris and ids; that bounds, sizes and TTLs are naturals; that
tables (`Ttl`, `Rewritten`, `ContentsOf`, `TargetsOf`) are functions on what they
are looked up with; and, beyond that:

- `StoreConstants`: `ColdTtl >= 2 * WarmTtl` (the code has 256 and 64);
  `TiersAssumption`: a warmer tier of a beat cache lives no longer than a colder
  one (8, 64 and 256 beats in the code);
- `FilesAssumption`, `RegistersAssumption`: the files of a batch and the
  registers are finite sets;
- `IdsAssumption`: a client's ids are its own and each is used for one kind of
  request;
- `PlanesAssumption`: the keys and products of a session are keys and values of
  its planes; `ListedAssumption`: the index lists at least one entry.

No theorem has a hypothesis besides these.
Theorems that no run checks as a property (`RefreshAlwaysFindsAGraph`,
`CopiesNeverGrow`, `OpenStaysHot`, `CacheStaysBounded`, `PlanesHoldProducts`,
`DifferenceLeadsOver`, `ExpressReaches`, `RenameInvariant` and the
types of single parts) carry the others or say something TLC need not repeat.

### ReferenceGraphProofs

`TypeCorrect`.  `FreshCacheFollowsEdits` from the
invariant `Protocol`: besides the property, a build in flight began no later
than the present generation, and if it began earlier the cache is stale
(`OvertakenBuildIsStale`).  Without it the landing of a build that was overtaken
could not be told from one that was not.  `FreshCacheHoldsSources` adds
`Contents`: what a build that is not overtaken has read so far is what it would
read now, but for unannounced moves.  `RefreshAlwaysFindsAGraph` is inductive as
it stands.  `ReportsSeeWhatTheyAreOwed` needs `WaitersHaveABuild`: whoever waits
waits for a build in flight that has seen what it owes.

### WorkspaceIndexProofs

`IndexTypeCorrect` needs `ReadsComplete`: a read that
scan or citation pass holds has come back.  `IndexKeepsScope` needs
`ReadsStayInScope`: the reads in flight are of files in scope, so applying one
late cannot take the index out of it.  `CopiesNeverGrow` is the action property,
from `OnlyWalksRead`: a scan that is over holds no read.

`QuietIndex` is about `CalmSpec`.  Its invariant `CalmInv` accounts for every
file in scope (`Accounted`): until the scan adds it, it has no entries; from then
on its entries are those of the disk, or an announcement or a refresh in flight
will see to it, and what a refresh has read is the disk's text unless a further
announcement is due.  The property alone says nothing of the moments in between,
which is where an index goes wrong.  `folderGone` needs a clause of its own: a
file that comes back before the folder's delete is handled has an event that
comes after it.

### ServerProofs

*Documents.*  `StoreTypeCorrect`; `OpenStaysHot`, inductive with the
types; `StoreKeepsPromise`, the refinement: each step maps to a step of
`HeldDocuments` or a stutter, and a sweep maps to `Drop` of what it drops, which
`OpenStaysHot` keeps apart from what is open.  `RetentionBounded` needs
`SweptInTime`: a closed document is never older than its tier's TTL plus the
requests since the last sweep.  It rests on lemmas about the remainder by
`WarmTtl` (`Division`, `CountOn`, `SweepsComeInTime`): a sweep comes every
`WarmTtl` requests.

*Diagnostics.*  `DiagnosticsTypeCorrect`.  `PhysicsFollowsTheEditor`:
an open document is pending or its second half is current.
`ParseErrorsFollowTheEditor` and `CalmCloseClears` are about calm documents: an
open one's text is awaited by its timer, or was read by the latest publication
in flight, or is shown; a closed one has nothing pending and nothing shown.
`QuietListsStayRight` puts the three together.

*Life.*  `LifeInv` has four parts.  `LifeTypes`.  `StreamInv`: there is a
function that gives each message its end in the stream (`Measures`), the pieces
received and not dispatched, and then those under way, are the rest of the
stream from the end of the last message dispatched, and a server that has
stopped reading holds no whole message.  From it, `Complete` finds exactly the
next message, which is `StreamIsRead`; the property alone would not say where in
a message the reader stands.  `AnswersInv`: no two messages have one id, and an id
that was dispatched is answered or worked at, never both, which gives
`RequestsAnsweredOnce`.  `OpensInv`: nobody says `initialized` or opens anything
before `initialize` is answered, and every document opened is held; so the
moment `initialize` replaces the index there is nothing to lose, which is
`OpenedStaysHeld`.

### ExtensionProofs

`SettingsSurvive`, from `CaptureInv`, whose part
`RestIsOwn` says that what an unfinished switch off has still to write back is
the user's own; with it, a toggle cut short leaves either the settings or the
saved priors complete.

`StripComesRight`, from `CursorInv`: requests in flight are numbered no higher
than the last; while versions are followed, what is remembered and what is on
its way was said of the text and line it was asked about; and with no timer
running the newest request of the strip is on its way, or the strip shows the
place already (`StripIsOnItsWay`), or is off with nothing asked (`StripIsOff`).

`ServerPartsRun` says that a behaviour of `MCServer` is one of each of its five
parts, those that do not run stuttering, so every theorem about a part holds of
the run; `ServerTypesHold` is the first use of it.

### RuntimeProofs

*BeatCache.*  `NothingOutlivesItsTier` is inductive with the types: promotion
shortens a life, and every operation that ages or promotes drops what is then
expired.  `CacheStaysBounded`: a set evicts one entry only, so the bound needs
that nothing else lets the plane grow (`CacheFits`, with the finiteness of the
plane).  `SetsAreReadable` needs both, as the eviction a set begins with may take
any of the coldest and oldest entries (`StoredIsReadable`).

*HotSession.*  For any function `Prepared`.  `PlanesHoldProducts`: what a plane
holds under a key is the product of some text that is prepared to that key, which
is `HitsAreOfAlikeTexts`: a hit may answer with another text's product, but with
no other than one the dialect prepares alike, so what is read off the prepared
text is right.  `hot_hit` shows that the rest need not be (section 6).
`HandlesStayWithTheirText`, from it: a card is read anew for the handle's source
only, in whatever dialect, so card, source and form stay alike though none need be
the other, and all but the pointer keep the card of the citing.

*RegisterBank.*  `BankInv`: cells keep their types and their current phase is
that of the last facet; the edges are symmetric and lead between cells held; the
lens index lists exactly the cells with the lens; densities are those of the
edges; the focus and the default cell are held.  `SideTablesStayExact`,
`BankTypes` and `ProtectedCellsStay` follow from it.  `BudgetsAreMet`: a plan
stops dropping cells once they fit or none is left it may drop, and what it
counts as dropped is really dropped (`EnforceStep`).

*The run.*  `RuntimePartsRun` and `RuntimeTypesHold` say of `MCRuntime` what
`ServerPartsRun` and `ServerTypesHold` say of `MCServer`.

### PulseProofs

*Edits.*  `DifferenceLeadsOver`, for any two sources: prefix and suffix do not
overlap in either, and what lies between replaces what lies between.
`EditTypesHold` and `WhatWasDoneIsReadOff` from `EditInv`, whose part `Few` says
that a sequence reads at most one edit off its sources and rebases at most one
over at most one.  The folds of the code's loops are over such lists, where they
are one step: `OneIsApplied`, `OneIsRebased`.

`ParallelStepsMerge`, that `RebasedIsMerged` always holds, takes lists of any
length.  Its inductive invariant is `MergeInv`: the lists planned by hand follow
each other and fit the base (`Chained`); after one step what was done is the
edit read off base and source; after two the source is the base with the kept
edits applied.  `AppliedInTurn` takes the fold of `applyEdits` apart, one edit
after the other, and `RanksOrder` says what sorting a list yields when each
edit's place is known.  The argument is `ShiftingCommutes`: two edits that do not
overlap may be made in either order if the one behind is shifted.
`RebasedListMerges` carries the one edit past every edit behind it, from the end
of the list down (`DownToOne`).  That the first list has one edit is needed:
with two, `edits_compose` has the counterexample.

*Batches.*  `BatchesStayWhole` rests on `GateLetsOneThrough`: the
gate marks a file ready only if no other would change, since more than one
change closes it (`ChangedAlone` counts them).  `ReplacesOnlyPlanned`, the
action property, rests on `ReadIsThereOrMoved`: what a check has read of its
target is still there, or `moved` says which part is not.  The target is a
`CHOOSE`; that there is always a ready file (`OneIsReady`) makes it one.

### SavedStateProofs

*Dumps.*  `MemTypes`; `ManifestsStayHonest` from `DumpInv`: a job that
copies or signs has the dump it fills to itself, and the sums it will sign are
those of the copies made.  `LoadsRestoreTheDump` from `LoadInv`: a load nobody
disturbs has in the runtime what it has restored so far, and what it has still
to restore is, or was when it was pruned, what the manifest says.

*Session cache.*  `CacheTypesHold` and `CacheLeads` from `CliInv`.  `BankedInv`: a
bank that no clear has overlapped has its product, or is writing it to the file
of that name, from the moment it opened it; and while a clear runs there is no
such bank and nothing banked.  `ListedInv`: unless a clear and a bank overlapped,
the two never run together, a clear that has come to the index has it empty, and
outside a clear the index, and what a bank has read of it to write back, list
products that are there.  A read of the index that is old when it is written back
is what the property itself cannot see.  `EntriesBut` is a recursive function;
what it keeps is shown by taking the least index at which it would fail.

*Corpus.*  `CorpusTypes_OK`.  `QuietScans` from `CorpusInv`: a key is
older than the texts read under it, so wherever it still names a file's present
stamp the text read is the present one (`Followed`).  That holds of every scan
under way, of every result remembered and of every memo on disk, whoever wrote
it.  An edit keeps it, since the new stamp is in no key (`StampsAreUsed` and the
bound on keys).  A quiet scan's key names the present stamps of all files, so
what is found under it has the texts on disk.

### PathRenameProofs

*Arithmetic.*  Normalising walks over the segments; `JoinWalks` takes a walk
apart where directory and citation meet, and `UpAndDown`, over the length of the
walk, says that `..` as often as needed and plain segments after it lead up and
down.  Hence the round trip `ExpressReaches`: what is written for a target from
a directory, in whichever form, is a citation of that form and is read back to
the target.

*Gate.*  `GateHides`, for any plan.  A walk that ends at or under a place and did
not begin there has appended the place's last segment, so the citation spells it;
if the walk did begin there, the surface sits under the place and moves itself.

*Moves.*  `RenameInv` is the inductive invariant, for any plans.  `Closed`: what
is there lies in directories that are there.  `Onward` and `Underway`: what
leaves was not where a move goes to, and a run goes on only while each move has
been made or can be, as `resolvePathMoves` asks.  `Owed`: until a first run
comes, a citation leads where it led.  The rest is asked of moves that are in
order.  `Ahead`, `Waiting` and `Brought`: a move still to be made finds its
place free and, unless it was taken along, what it moves, and one that was made
brought it there.  Without these a `mv` would not happen though it was planned,
and a citation rewritten for it would lead nowhere.  `Sits`: what a citation led
to is somewhere from where the moves to come carry it to where `mapThroughMoves`
put it in the first place; `MapFrom` is that function for the moves that are
left.  `Paid`: once one run came, and no second, the citation is written for
where its surface will sit.  A run between two moves is the case that needs the
two apart.

`CitationsFollow`, `RunsAfterMoves` and `RenameTyped` are read off `RenameInv`.
The runs' histories `done` and `again` are needed to state the first two:
`rename_rerun` is the case they leave out.  `InOrder` is in the properties
because the code is wrong without it (section 6).

### Model-checked only

All liveness properties (the prover has no fairness).  Of the safety properties
that passing runs check none is only model-checked.

## 5. Abstractions to keep in mind

- A text is a model value; what is extracted from it is a function of it.
- A hash of a text stands for the text: collisions are not modelled.
- File reads of the server return the disk's present text or fail because the
  file is absent; a torn read is modelled only where files are shared between
  processes (`CliSessionCache`).
- In the graph, the index and diagnostics the configuration and root stay those
  of one `initialize`; `ServerLifecycle` is where they change.
- One citation pass at a time is in flight in the index.
- Parts that share no state in one MC module are not composed: the server's
  documents, for instance, are an environment of the graph in `ReferenceGraph`,
  which assumes of them no more than `HeldDocuments` promises.

## 6. Where code and text disagree

Seven runs are expected to find a violation.  Each checks one sentence of a
comment, a test or a document of the repository.

- `graph_listing`.  `getWorkspaceSpwFiles` answers from a listing up to 5 s old.
  A file is created, its event marks the graph stale, the build reads the old
  listing, lands, and clears the flag: the graph lacks the file and stays
  cached until the next announcement.  *"an index nobody edited is still true"*.
- `graph_closed`.  A document closed without saving keeps its text, and a build
  reads it before the disk.  *"a closed file's citations come from the index's
  scan memo"*.
- `index_scan_race`.  A save or refresh of a file during the scan is indexed,
  and the scan then adds the same file's entries; they are held twice until the
  file is saved or changed again.
- `hot_hit` (`hot-session.ts` 162, 238).  A plane is keyed by the hash of the
  prepared text, a record also carries the text as given, its phrases and, on the
  inspect plane, its flow, resonance, bytecode and probes (205-210, 273-305).
  `l` and `q` collapse newlines: of two texts that differ in them only, the
  second is answered with the first one's record.  *"A hit must return the same
  answer as a cold recompute; key bugs are correctness bugs"*
  (`docs/theory/spw/cache-field.spw` 30).
- `memo_hit` (`corpus-scan.ts` 138).  The key of a scan lists the stats of the
  files scanned, its product says which cited paths are missing, wherever they
  lie.  A cited file outside the scan is added, the next scan hits the memo and
  goes on reporting it broken, until a scanned file changes or `--recompute`.
  *"A hit must return the same answer as a cold recompute"*
  (`docs/theory/spw/cache-field.spw` 30).
- `edits_compose` (`operational-transform.ts` 110-113).  An edit rebased over a
  list is shifted by the list's first edit and then compared with the second,
  which still counts in the base; the composition changes other lines than
  meant, or throws, with no conflict.  *"apply A, then rebase B against A"* (210).
- `rename_rerun` (`path-rename.ts` 124-145, 206).  A second run before the moves
  are made reads a citation the first has rewritten from where its surface still
  sits.  It is rewritten again if it happens to reach something from there, or
  if it dangles under a directory that moves with nested moves, in which case it
  grows with every run.  *"a second run owes nothing"* (127; the test at
  `path-rename.test.ts` 82 says the same).

Seen while modelling, with no run of their own:

- Index: an older refresh that comes back last overwrites a newer one
  (`server-index.ts` 717); a deleted file's selector definition stays (732);
  "find references" memoizes citations of files out of scope (`navigation.ts`
  256); a folder deleted while the scan holds a read of one of its files leaves
  that file indexed.
- Graph: a report that joins a build lacks the edits announced since the build
  began, which is why `ReportSeesWhatItIsOwed` is stated with that exception.
- Edits: two identical insertions are both applied where the comment calls
  identical edits a no-op; a `second` list that is not sorted is not rebased
  right; three or more parallel steps whose edits cancel out can hide an overlap
  (530).  The model's lists are sorted and the properties take two steps.
- Dumps: prune counts dumps without a manifest among those it keeps, and may
  delete the only one that can be loaded (`mem.ts` 543); `load --wipe` may fail
  after wiping (441); two dumps in one second share a directory (324).
- Session: because of the same key, `cite` files a text's handle under the
  bytecode hash of another text prepared alike (414-444).  `invalidateContentHash`
  (570) drops the planes' keys of the given hash and the handles whose ref or name
  has it: given the hash of the text as written it leaves the products of its
  prepared form, and a handle that was followed keeps a card of another form.
- Lifecycle: what a chunk still holds after the message whose handler threw is
  taken up only when more data arrives; a request among it stays unanswered as
  long as the client waits for the answer before it says anything else.
- Corpus: an index given as a configuration is keyed as `standard` whatever it
  says (`corpus-scan.ts` 95); a file that vanishes before its stat and is back
  before it is read leaves its text under a key that says it is missing.
- Bank: the eviction plan counts protected cells towards the cap although
  `memory-policy.ts` 22 reads as if it did not.
- Rename: one plan may move `x` to `d/z` and then `d` to `f`; `resolvePathMoves`
  (`refactor-path.ts` 60-91) looks at each move by itself and accepts it.  Made
  one after the other, as printed, `x` ends at `f/z`, but `mapThroughMoves`
  (`path-rename.ts` 87) stops at the first move that takes a path and says
  `d/z`, for which citations are then written, where its comment (86) says
  *"Where `p` sits once every move has happened"*.  Citations of `x` then
  dangle: without `InOrder`, `CitationsFollowTheirTargets` fails in `commands`
  by this plan.
- Rename: a citation found from the root is left alone although after the move
  something else sits where the surface's own directory, which is tried first,
  leads.  `CitationsFollowTheirTargets` therefore asks that the target is among
  what a reader finds, not that it comes first.
- Extension: hiding the strip does not count as a request, so a late answer
  shows it again (`context-strip.ts` 23-26); a reopened document's versions
  start at one, so a remembered snapshot answers for another text (`context.ts`
  191-199); the atlas does not look at versions (`workspace-tree.ts` 267); a
  request that is refused leaves the strip showing the place of before, with an
  unhandled rejection (`context-strip.ts` 20, 31); two windows that toggle capture
  mode at once save captured values as the user's.

## 7. Not modelled, and the plan

Not modelled because there is nothing for these tools to find: the seed's lexer,
parser and queries, its forms and mathematics (sequential functions of a text,
most of the repository's lines), read-only handlers and commands, the views of
the editors, scripts, libraries, documentation.  `PROJECT.json` lists each part.

Left, in this order:

1. The evaluation of a hot session over shared registers: a hit returns what an
   evaluation gave over registers that have changed since.
2. Range transforms and patches as operators checked against a reference
   definition over bounded inputs; the upstream bridge; which directory is the
   workspace (`LSP/workspace-authority.ts`).
3. Documents, index and graph in one specification, with `initialize` replacing
   the index under a build.

------------------------------- MODULE MemDump -------------------------------
(* spw mem dump, load and prune (mem.ts): snapshots of the runtime directory,  *)
(* which agents go on writing.  A dump is a directory that is filled file by   *)
(* file and ends with its manifest; a load may wipe the runtime first; a prune *)
(* removes all but the newest dumps.  Commands fail and crash between steps.   *)
(*                                                                             *)
(* Dumps are named in the order of their timestamps, 1, 2, ...  A checksum     *)
(* stands for the content it is taken of.                                      *)
EXTENDS Integers, FiniteSets

CONSTANTS
  Jobs,           \* running mem commands
  MemFiles,       \* names of runtime files
  Contents,
  ContentsOf,     \* file -> the contents agents write to it
  Missing,        \* of a file that is not there
  MaxKeep,        \* bound of the model: dumps a prune is asked to keep
  MaxDumps        \* bound of the model: dumps taken

ASSUME MissingAssumption == Missing \notin Contents
ASSUME ContentsAssumption == ContentsOf \in [MemFiles -> SUBSET Contents]
ASSUME BoundsAssumption == MaxKeep \in Nat /\ MaxDumps \in Nat

Maybe == Contents \cup {Missing}
Empty == [f \in MemFiles |-> Missing]
Names == 1 .. MaxDumps
NoName == 0

VARIABLES
  runtime,        \* runtime file -> its content
  dumps,          \* name -> its files, its manifest, and whether it is there
  lastName,       \* name of the newest dump begun
  pruned,         \* names a prune has begun to remove
  jobs            \* job -> its state

memVars == <<runtime, dumps, lastName, pruned, jobs>>

(* A manifest maps the files it lists to their checksums. *)
NoDump == [there |-> FALSE, files |-> Empty, manifest |-> Empty, signed |-> FALSE]

(* at      what the job does next                                              *)
(* name    the dump it fills or loads                                          *)
(* names   the files it copies, and todo, those still to copy or to wipe       *)
(* sums    the checksums it will write in the manifest, or has read there      *)
(* wipes   whether it is a load with --wipe                                    *)
(* alone   nobody else has written the runtime since its load began            *)
(* doomed  the dumps it prunes and has not removed yet                         *)
Waiting == [at |-> "idle", name |-> NoName, names |-> {}, todo |-> {},
            sums |-> Empty, wipes |-> FALSE, alone |-> FALSE, doomed |-> {}]

MemInit ==
  /\ runtime \in {r \in [MemFiles -> Maybe] :
                     \A f \in MemFiles : r[f] \in ContentsOf[f] \cup {Missing}}
  /\ dumps = [n \in Names |-> NoDump]
  /\ lastName = 0 /\ pruned = {}
  /\ jobs = [j \in Jobs |-> Waiting]

Doing(j, what) == jobs[j].at = what
Present == {n \in Names : dumps[n].there}
Listed(content) == {f \in MemFiles : content[f] # Missing}

-----------------------------------------------------------------------------
(* dumpMemory: list the runtime, copy file by file, take the checksums of the  *)
(* copies, write the manifest.                                                 *)

DumpBegins(j) ==
  /\ Doing(j, "idle")
  /\ lastName < MaxDumps
  /\ lastName' = lastName + 1
  /\ dumps' = [dumps EXCEPT ![lastName'].there = TRUE]
  /\ jobs' = [jobs EXCEPT ![j] = [Waiting EXCEPT !.at = "copy", !.name = lastName',
                                    !.names = Listed(runtime), !.todo = Listed(runtime)]]
  /\ UNCHANGED <<runtime, pruned>>

(* A file gone meanwhile fails the dump; a directory gone is made again. *)
DumpCopies(j, f) ==
  /\ Doing(j, "copy")
  /\ f \in jobs[j].todo
  /\ runtime[f] # Missing
  /\ dumps' = [dumps EXCEPT ![jobs[j].name].there = TRUE,
                            ![jobs[j].name].files[f] = runtime[f]]
  /\ jobs' = [jobs EXCEPT ![j].todo = @ \ {f}]
  /\ UNCHANGED <<runtime, lastName, pruned>>

(* Mutant: the checksums are those of the runtime's files. *)
SummedLive(n) == [f \in MemFiles |-> IF dumps[n].files[f] = Missing THEN Missing ELSE runtime[f]]

(* buildDumpEntries reads the copies. *)
Summed(n) == dumps[n].files

DumpSums(j) ==
  LET n == jobs[j].name IN
  /\ Doing(j, "copy")
  /\ jobs[j].todo = {}
  /\ jobs[j].names \subseteq Listed(dumps[n].files)
  /\ jobs' = [jobs EXCEPT ![j].at = "sign", ![j].sums = Summed(n)]
  /\ UNCHANGED <<runtime, dumps, lastName, pruned>>

(* Cut short, the write leaves a manifest no load can parse: the same as none, *)
(* which is how it stands when the job fails before this step.                 *)
DumpSigns(j) ==
  LET n == jobs[j].name IN
  /\ Doing(j, "sign")
  /\ dumps[n].there
  /\ dumps' = [dumps EXCEPT ![n].manifest = jobs[j].sums, ![n].signed = TRUE]
  /\ jobs' = [jobs EXCEPT ![j] = Waiting]
  /\ UNCHANGED <<runtime, lastName, pruned>>

-----------------------------------------------------------------------------
(* loadMemory: the newest dump, or the one named, if it has a manifest.  The   *)
(* checksums are not looked at.                                                *)

(* Job j has dealt with f; everybody else finds the runtime written. *)
DoneWith(j, f) ==
  [i \in Jobs |-> IF i = j THEN [jobs[j] EXCEPT !.todo = @ \ {f}]
                  ELSE [jobs[i] EXCEPT !.alone = FALSE]]

LoadBegins(j, n, wipes) ==
  /\ Doing(j, "idle")
  /\ n \in Present /\ dumps[n].signed
  /\ jobs' = [jobs EXCEPT ![j] =
       [Waiting EXCEPT !.name = n, !.wipes = wipes, !.alone = TRUE,
          !.names = Listed(dumps[n].manifest), !.sums = dumps[n].manifest,
          !.at = IF wipes THEN "wipe" ELSE "restore",
          !.todo = IF wipes THEN Listed(runtime) ELSE Listed(dumps[n].manifest)]]
  /\ UNCHANGED <<runtime, dumps, lastName, pruned>>

LoadWipes(j, f) ==
  /\ Doing(j, "wipe")
  /\ f \in jobs[j].todo
  /\ runtime' = [runtime EXCEPT ![f] = Missing]
  /\ jobs' = DoneWith(j, f)
  /\ UNCHANGED <<dumps, lastName, pruned>>

(* Mutant: the restore begins before the wipe has ended. *)
LoadWipedEarly(j) ==
  /\ Doing(j, "wipe")
  /\ jobs' = [jobs EXCEPT ![j].at = "restore", ![j].todo = jobs[j].names]
  /\ UNCHANGED <<runtime, dumps, lastName, pruned>>

LoadWiped(j) ==
  /\ Doing(j, "wipe")
  /\ jobs[j].todo = {}
  /\ jobs' = [jobs EXCEPT ![j].at = "restore", ![j].todo = jobs[j].names]
  /\ UNCHANGED <<runtime, dumps, lastName, pruned>>

(* A copy that has gone from the dump fails the load. *)
LoadRestores(j, f) ==
  /\ Doing(j, "restore")
  /\ f \in jobs[j].todo
  /\ dumps[jobs[j].name].files[f] # Missing
  /\ runtime' = [runtime EXCEPT ![f] = dumps[jobs[j].name].files[f]]
  /\ jobs' = DoneWith(j, f)
  /\ UNCHANGED <<dumps, lastName, pruned>>

Restored(j) == Doing(j, "restore") /\ jobs[j].todo = {}

LoadEnds(j) ==
  /\ Restored(j)
  /\ jobs' = [jobs EXCEPT ![j] = Waiting]
  /\ UNCHANGED <<runtime, dumps, lastName, pruned>>

-----------------------------------------------------------------------------
(* pruneDumps: every directory counts, with or without a manifest.  A          *)
(* directory is removed piece by piece.                                        *)

PruneBegins(j, keep) ==
  LET newer(n) == {m \in Present : m > n}
      doomed   == {n \in Present : Cardinality(newer(n)) >= keep}
  IN  /\ Doing(j, "idle")
      /\ doomed # {}
      /\ jobs' = [jobs EXCEPT ![j].at = "prune", ![j].doomed = doomed]
      /\ pruned' = pruned \cup doomed
      /\ UNCHANGED <<runtime, dumps, lastName>>

PruneTakesFile(j, n, f) ==
  /\ n \in jobs[j].doomed
  /\ dumps[n].files[f] # Missing
  /\ dumps' = [dumps EXCEPT ![n].files[f] = Missing]
  /\ UNCHANGED <<runtime, lastName, pruned, jobs>>

PruneTakesManifest(j, n) ==
  /\ n \in jobs[j].doomed
  /\ dumps[n].signed
  /\ dumps' = [dumps EXCEPT ![n].manifest = Empty, ![n].signed = FALSE]
  /\ UNCHANGED <<runtime, lastName, pruned, jobs>>

PruneTakesDirectory(j, n) ==
  LET left == jobs[j].doomed \ {n} IN
  /\ n \in jobs[j].doomed
  /\ dumps[n].files = Empty /\ ~dumps[n].signed
  /\ dumps' = [dumps EXCEPT ![n].there = FALSE]
  /\ jobs' = [jobs EXCEPT ![j].doomed = left, ![j].at = IF left = {} THEN "idle" ELSE "prune"]
  /\ UNCHANGED <<runtime, lastName, pruned>>

-----------------------------------------------------------------------------
(* An I/O error or a crash ends a job where it is. *)
JobFails(j) ==
  /\ ~Doing(j, "idle")
  /\ jobs' = [jobs EXCEPT ![j] = Waiting]
  /\ UNCHANGED <<runtime, dumps, lastName, pruned>>

AgentWrites(f, content) ==
  /\ runtime' = [runtime EXCEPT ![f] = content]
  /\ jobs' = [j \in Jobs |-> [jobs[j] EXCEPT !.alone = FALSE]]
  /\ UNCHANGED <<dumps, lastName, pruned>>

MemNext ==
  \/ \E j \in Jobs : \/ DumpBegins(j) \/ DumpSums(j) \/ DumpSigns(j)
                     \/ LoadWiped(j) \/ LoadEnds(j) \/ JobFails(j)
  \/ \E j \in Jobs, f \in MemFiles : DumpCopies(j, f) \/ LoadWipes(j, f) \/ LoadRestores(j, f)
  \/ \E j \in Jobs, n \in Names, wipes \in BOOLEAN : LoadBegins(j, n, wipes)
  \/ \E j \in Jobs, keep \in 1 .. MaxKeep : PruneBegins(j, keep)
  \/ \E j \in Jobs, n \in Names : PruneTakesManifest(j, n) \/ PruneTakesDirectory(j, n)
  \/ \E j \in Jobs, n \in Names, f \in MemFiles : PruneTakesFile(j, n, f)
  \/ \E f \in MemFiles : \E content \in ContentsOf[f] \cup {Missing} : AgentWrites(f, content)

MemSpec == MemInit /\ [][MemNext]_memVars

-----------------------------------------------------------------------------
(* Properties. *)

(* Directories, dumps and jobs are ones the program has. *)
Dump == [there : BOOLEAN, files : [MemFiles -> Maybe],
         manifest : [MemFiles -> Maybe], signed : BOOLEAN]
Job == [at : {"idle", "copy", "sign", "wipe", "restore", "prune"}, name : 0 .. MaxDumps,
        names : SUBSET MemFiles, todo : SUBSET MemFiles, sums : [MemFiles -> Maybe],
        wipes : BOOLEAN, alone : BOOLEAN, doomed : SUBSET Names]

MemTypeOK ==
  /\ runtime \in [MemFiles -> Maybe]
  /\ dumps \in [Names -> Dump]
  /\ lastName \in 0 .. MaxDumps
  /\ pruned \subseteq Names
  /\ jobs \in [Jobs -> Job]

(* A dump with a manifest holds what the manifest lists, with those checksums, *)
(* though the runtime was written while it was copied and dumps were cut       *)
(* short; only a prune can have taken files of it away.                        *)
ManifestIsHonest ==
  \A n \in Names : dumps[n].signed =>
    \A f \in MemFiles :
      \/ dumps[n].files[f] = dumps[n].manifest[f]
      \/ n \in pruned /\ dumps[n].files[f] = Missing

(* A load that comes to its end alone has restored what the manifest's         *)
(* checksums say, and after a wipe nothing else is left, although it verifies  *)
(* no checksum and the dump may be pruned under it.                            *)
LoadRestoresDump ==
  \A j \in Jobs : Restored(j) /\ jobs[j].alone =>
    \A f \in MemFiles :
      IF f \in jobs[j].names THEN runtime[f] = jobs[j].sums[f]
      ELSE jobs[j].wipes => runtime[f] = Missing
=============================================================================

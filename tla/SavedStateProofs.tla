-------------------------- MODULE SavedStateProofs ---------------------------
(* Proofs about what the command line keeps on disk between commands:      *)
(* dumps of the runtime directory (MemDump), the session cache             *)
(* (CliSessionCache) and the memo of a corpus scan (CorpusMemo), for any   *)
(* number of commands, files, dumps, products and edits.                   *)
EXTENDS MemDump, CliSessionCache, CorpusMemo, SequenceTheorems, WellFoundedInduction, TLAPS

-----------------------------------------------------------------------------
(* What a dump, a load and a prune promise one another.  The argument has  *)
(* two halves.  DumpInv: a dump is filled by the one job its name was      *)
(* given to, the checksums that job took are those of the copies, and only *)
(* a prune takes anything away again; so a manifest, once written, stays   *)
(* true of the files beside it.  LoadInv: nobody fills a dump that has its *)
(* manifest, so what a load finds there is what was signed, or gone; and   *)
(* while it is alone, what it has wiped and restored stays as it left it.  *)

(* ------------------------------------------------------------------------ *)
(* Dumps.                                                                    *)

Filling(j) == jobs[j].at \in {"copy", "sign"}
Loading(j) == jobs[j].at \in {"wipe", "restore"}

(* A dump is filled by one job, has a name that was given out, and no        *)
(* manifest yet.                                                             *)
FilledByOne ==
  \A j \in Jobs : Filling(j) =>
    /\ jobs[j].name \in 1 .. lastName
    /\ ~dumps[jobs[j].name].signed
    /\ \A i \in Jobs \ {j} : Filling(i) => jobs[i].name # jobs[j].name

SignedWereBegun == \A n \in Names : dumps[n].signed => n <= lastName

DoomedArePruned == \A j \in Jobs : jobs[j].doomed \subseteq pruned

(* What is on disk of dump n agrees with sums, or a prune took it.           *)
Honest(n, sums) ==
  \A f \in MemFiles : \/ dumps[n].files[f] = sums[f]
                      \/ n \in pruned /\ dumps[n].files[f] = Missing

SumsAreHonest ==
  \A j \in Jobs : jobs[j].at = "sign" => Honest(jobs[j].name, jobs[j].sums)

ManifestsAreHonest == \A n \in Names : dumps[n].signed => Honest(n, dumps[n].manifest)

DumpInv == FilledByOne /\ SignedWereBegun /\ DoomedArePruned /\ SumsAreHonest
             /\ ManifestsAreHonest

(* A job that fills or loads a dump has a name that was given out.           *)
NamesWereGiven ==
  \A j \in Jobs : Filling(j) \/ Loading(j) => jobs[j].name \in 1 .. lastName

LEMMA JobStepTypes ==
  ASSUME MemTypeOK, NEW j \in Jobs, NEW s \in Job, jobs' = [jobs EXCEPT ![j] = s]
  PROVE  jobs' \in [Jobs -> Job]
BY DEF MemTypeOK

LEMMA DumpStepTypes ==
  ASSUME MemTypeOK, NEW n \in Names, NEW d \in Dump, dumps' = [dumps EXCEPT ![n] = d]
  PROVE  dumps' \in [Names -> Dump]
BY DEF MemTypeOK

(* A job that has dealt with a file goes on with the others; nothing else    *)
(* changes but who is alone.                                                 *)
LEMMA DoneWithOne ==
  ASSUME MemTypeOK, NEW j \in Jobs, NEW f \in MemFiles
  PROVE  /\ DoneWith(j, f) \in [Jobs -> Job]
         /\ \A i \in Jobs \ {j} : DoneWith(j, f)[i] = [jobs[i] EXCEPT !.alone = FALSE]
         /\ DoneWith(j, f)[j] = [jobs[j] EXCEPT !.todo = @ \ {f}]
<1>1. \A i \in Jobs : jobs[i] \in Job
  BY DEF MemTypeOK
<1>2. \A i \in Jobs \ {j} : DoneWith(j, f)[i] = [jobs[i] EXCEPT !.alone = FALSE]
  BY DEF DoneWith
<1>3. DoneWith(j, f)[j] = [jobs[j] EXCEPT !.todo = @ \ {f}]
  BY DEF DoneWith
<1>4. \A i \in Jobs : [jobs[i] EXCEPT !.alone = FALSE] \in Job
  BY <1>1 DEF Job
<1>5. [jobs[j] EXCEPT !.todo = @ \ {f}] \in Job
  BY <1>1 DEF Job
<1>6. DoneWith(j, f) \in [Jobs -> Job]
  BY <1>4, <1>5 DEF DoneWith
<1> QED
  BY <1>2, <1>3, <1>6

LEMMA DoneWithKeeps ==
  ASSUME MemTypeOK, NEW j \in Jobs, NEW f \in MemFiles, jobs' = DoneWith(j, f), NEW i \in Jobs
  PROVE  /\ jobs'[i].at = jobs[i].at /\ jobs'[i].name = jobs[i].name
         /\ jobs'[i].doomed = jobs[i].doomed /\ jobs'[i].sums = jobs[i].sums
         /\ jobs'[i].names = jobs[i].names /\ jobs'[i].wipes = jobs[i].wipes
<1>1. jobs[i] \in Job
  BY DEF MemTypeOK
<1>2. CASE i = j
  <2>1. jobs'[i] = [jobs[i] EXCEPT !.todo = @ \ {f}]
    BY <1>2 DEF DoneWith
  <2> QED
    BY <1>1, <2>1 DEF Job
<1>3. CASE i # j
  <2>1. jobs'[i] = [jobs[i] EXCEPT !.alone = FALSE]
    BY <1>3 DEF DoneWith
  <2> QED
    BY <1>1, <2>1 DEF Job
<1> QED
  BY <1>2, <1>3

LEMMA DoneWithRest ==
  ASSUME MemTypeOK, NEW j \in Jobs, NEW f \in MemFiles, jobs' = DoneWith(j, f)
  PROVE  /\ jobs'[j].todo = jobs[j].todo \ {f} /\ jobs'[j].alone = jobs[j].alone
         /\ \A i \in Jobs \ {j} : ~jobs'[i].alone
<1>1. \A s \in Job : ~[s EXCEPT !.alone = FALSE].alone
  BY DEF Job
<1>2. \A s \in Job : /\ [s EXCEPT !.todo = @ \ {f}].todo = s.todo \ {f}
                     /\ [s EXCEPT !.todo = @ \ {f}].alone = s.alone
  BY DEF Job
<1>3. \A i \in Jobs : jobs[i] \in Job
  BY DEF MemTypeOK
<1>4. jobs'[j] = [jobs[j] EXCEPT !.todo = @ \ {f}]
  BY DEF DoneWith
<1>5. \A i \in Jobs \ {j} : jobs'[i] = [jobs[i] EXCEPT !.alone = FALSE]
  BY DEF DoneWith
<1>6. \A i \in Jobs \ {j} : ~jobs'[i].alone
  BY <1>1, <1>3, <1>5
<1> QED
  BY <1>2, <1>3, <1>4, <1>6

LEMMA MemTypesStep ==
  ASSUME MemTypeOK, NamesWereGiven, SignedWereBegun, [MemNext]_memVars
  PROVE  MemTypeOK' /\ NamesWereGiven'
<1> USE MissingAssumption, ContentsAssumption, BoundsAssumption
<1>a. Empty \in [MemFiles -> Maybe] /\ Waiting \in Job
  BY DEF Empty, Maybe, Waiting, Job, NoName, Names
<1>b. \A n \in Names : n \in 0 .. MaxDumps
  BY DEF Names
<1>c. \A n \in Names : dumps[n] \in Dump /\ dumps[n].files \in [MemFiles -> Maybe]
                     /\ dumps[n].manifest \in [MemFiles -> Maybe]
  BY DEF MemTypeOK, Dump
<1>d. \A j \in Jobs : jobs[j] \in Job
  BY DEF MemTypeOK
<1>e. \A j \in Jobs : Filling(j) \/ Loading(j) => jobs[j].name \in Names
  BY DEF NamesWereGiven, MemTypeOK, Names
<1>f. \A r \in [MemFiles -> Maybe] : Listed(r) \in SUBSET MemFiles
  BY DEF Listed
<1>1. ASSUME NEW j \in Jobs, DumpBegins(j) PROVE MemTypeOK' /\ NamesWereGiven'
  <2>1. lastName' \in Names /\ lastName' = lastName + 1 /\ lastName \in Nat
    BY <1>1 DEF DumpBegins, MemTypeOK, Names
  <2>2. [dumps[lastName'] EXCEPT !.there = TRUE] \in Dump
    BY <2>1, <1>c DEF Dump
  <2> DEFINE s == [Waiting EXCEPT !.at = "copy", !.name = lastName',
                                  !.names = Listed(runtime), !.todo = Listed(runtime)]
  <2>3. s \in Job
    BY <1>a, <1>b, <1>f, <2>1 DEF Job, Waiting, MemTypeOK
  <2>4. jobs' = [jobs EXCEPT ![j] = s]
    BY <1>1 DEF DumpBegins
  <2>5. jobs' \in [Jobs -> Job]
    BY <2>3, <2>4, JobStepTypes
  <2>6. dumps' \in [Names -> Dump]
    BY <1>1, <2>1, <2>2, DumpStepTypes DEF DumpBegins
  <2>7. MemTypeOK'
    BY <1>1, <1>b, <2>1, <2>5, <2>6 DEF DumpBegins, MemTypeOK
  <2>8. NamesWereGiven'
    BY <2>1, <2>4, <1>d DEF NamesWereGiven, MemTypeOK, Filling, Loading
  <2> QED
    BY <2>7, <2>8
<1>2. ASSUME NEW j \in Jobs, DumpSums(j) PROVE MemTypeOK' /\ NamesWereGiven'
  <2> DEFINE s == [jobs[j] EXCEPT !.at = "sign", !.sums = Summed(jobs[j].name)]
  <2>1. jobs[j].name \in Names
    BY <1>2, <1>e DEF DumpSums, Doing, Filling
  <2>2. s \in Job
    BY <2>1, <1>c, <1>d DEF Job, Summed
  <2>3. jobs' = [jobs EXCEPT ![j] = s]
    BY <1>2, <1>d DEF DumpSums, Job, MemTypeOK
  <2>4. jobs' \in [Jobs -> Job]
    BY <2>2, <2>3, JobStepTypes
  <2>5. NamesWereGiven'
    BY <1>2, <2>3, <1>d DEF NamesWereGiven, MemTypeOK, Filling, Loading, DumpSums, Doing, Job
  <2> QED
    BY <1>2, <2>4, <2>5 DEF DumpSums, MemTypeOK
<1>3. ASSUME NEW j \in Jobs, DumpSigns(j) PROVE MemTypeOK' /\ NamesWereGiven'
  <2> DEFINE s == Waiting
  <2>2. s \in Job
    BY <1>3, <1>a, <1>c, <1>d, <1>f DEF Job, MemTypeOK, DumpSigns, Waiting
  <2>3. jobs' = [jobs EXCEPT ![j] = s]
    BY <1>3, <1>d DEF Job, MemTypeOK, DumpSigns, Waiting
  <2>4. jobs' \in [Jobs -> Job]
    BY <2>2, <2>3, JobStepTypes
  <2>5. NamesWereGiven'
    BY <1>3, <2>3, <1>a, <1>d DEF NamesWereGiven, MemTypeOK, Filling, Loading, Job, Doing, DumpSigns, Waiting
  <2>1. jobs[j].name \in Names
    BY <1>3, <1>e DEF DumpSigns, Doing, Filling
  <2>6. dumps' \in [Names -> Dump]
    <3> DEFINE d == [dumps[jobs[j].name] EXCEPT !.manifest = jobs[j].sums, !.signed = TRUE]
    <3>1. d \in Dump
      BY <2>1, <1>c, <1>d DEF Dump, Job
    <3>2. dumps' = [dumps EXCEPT ![jobs[j].name] = d]
      BY <1>3, <2>1, <1>c DEF DumpSigns, Dump, MemTypeOK
    <3> QED
      BY <2>1, <3>1, <3>2, DumpStepTypes
  <2> QED
    BY <1>3, <2>4, <2>5, <2>6 DEF MemTypeOK, DumpSigns, Waiting
<1>4. ASSUME NEW j \in Jobs, LoadWiped(j) PROVE MemTypeOK' /\ NamesWereGiven'
  <2> DEFINE s == [jobs[j] EXCEPT !.at = "restore", !.todo = jobs[j].names]
  <2>2. s \in Job
    BY <1>4, <1>a, <1>c, <1>d, <1>f DEF Job, MemTypeOK, LoadWiped, Doing
  <2>3. jobs' = [jobs EXCEPT ![j] = s]
    BY <1>4, <1>d DEF Job, MemTypeOK, LoadWiped, Doing
  <2>4. jobs' \in [Jobs -> Job]
    BY <2>2, <2>3, JobStepTypes
  <2>5. NamesWereGiven'
    BY <1>4, <2>3, <1>a, <1>d DEF NamesWereGiven, MemTypeOK, Filling, Loading, Job, Doing, LoadWiped, Doing
  <2> QED
    BY <1>4, <2>4, <2>5 DEF MemTypeOK, LoadWiped, Doing
<1>5. ASSUME NEW j \in Jobs, LoadEnds(j) PROVE MemTypeOK' /\ NamesWereGiven'
  <2> DEFINE s == Waiting
  <2>2. s \in Job
    BY <1>5, <1>a, <1>c, <1>d, <1>f DEF Job, MemTypeOK, LoadEnds, Waiting
  <2>3. jobs' = [jobs EXCEPT ![j] = s]
    BY <1>5, <1>d DEF Job, MemTypeOK, LoadEnds, Waiting
  <2>4. jobs' \in [Jobs -> Job]
    BY <2>2, <2>3, JobStepTypes
  <2>5. NamesWereGiven'
    BY <1>5, <2>3, <1>a, <1>d DEF NamesWereGiven, MemTypeOK, Filling, Loading, Job, Doing, LoadEnds, Waiting
  <2> QED
    BY <1>5, <2>4, <2>5 DEF MemTypeOK, LoadEnds, Waiting
<1>6. ASSUME NEW j \in Jobs, JobFails(j) PROVE MemTypeOK' /\ NamesWereGiven'
  <2> DEFINE s == Waiting
  <2>2. s \in Job
    BY <1>6, <1>a, <1>c, <1>d, <1>f DEF Job, MemTypeOK, JobFails, Waiting
  <2>3. jobs' = [jobs EXCEPT ![j] = s]
    BY <1>6, <1>d DEF Job, MemTypeOK, JobFails, Waiting
  <2>4. jobs' \in [Jobs -> Job]
    BY <2>2, <2>3, JobStepTypes
  <2>5. NamesWereGiven'
    BY <1>6, <2>3, <1>a, <1>d DEF NamesWereGiven, MemTypeOK, Filling, Loading, Job, Doing, JobFails, Waiting
  <2> QED
    BY <1>6, <2>4, <2>5 DEF MemTypeOK, JobFails, Waiting
<1>7. ASSUME NEW j \in Jobs, NEW f \in MemFiles, DumpCopies(j, f) PROVE MemTypeOK' /\ NamesWereGiven'
  <2> DEFINE s == [jobs[j] EXCEPT !.todo = @ \ {f}]
  <2>2. s \in Job
    BY <1>7, <1>a, <1>c, <1>d, <1>f DEF Job, MemTypeOK, DumpCopies, Doing
  <2>3. jobs' = [jobs EXCEPT ![j] = s]
    BY <1>7, <1>d DEF Job, MemTypeOK, DumpCopies, Doing
  <2>4. jobs' \in [Jobs -> Job]
    BY <2>2, <2>3, JobStepTypes
  <2>5. NamesWereGiven'
    BY <1>7, <2>3, <1>a, <1>d DEF NamesWereGiven, MemTypeOK, Filling, Loading, Job, Doing, DumpCopies, Doing
  <2>1. jobs[j].name \in Names
    BY <1>7, <1>e DEF DumpCopies, Doing, Filling
  <2>6. dumps' \in [Names -> Dump]
    <3> DEFINE d == [dumps[jobs[j].name] EXCEPT !.there = TRUE, !.files[f] = runtime[f]]
    <3>1. d \in Dump
      BY <2>1, <1>c DEF Dump, MemTypeOK
    <3>2. dumps' = [dumps EXCEPT ![jobs[j].name] = d]
      BY <1>7, <2>1, <1>c DEF DumpCopies, Dump, MemTypeOK
    <3> QED
      BY <2>1, <3>1, <3>2, DumpStepTypes
  <2> QED
    BY <1>7, <2>4, <2>5, <2>6 DEF MemTypeOK, DumpCopies, Doing
<1>8. ASSUME NEW j \in Jobs, NEW f \in MemFiles, LoadWipes(j, f) PROVE MemTypeOK' /\ NamesWereGiven'
  <2>1. jobs[j].name \in Names
    BY <1>8, <1>e DEF LoadWipes, Doing, Loading
  <2>2. jobs' = DoneWith(j, f)
    BY <1>8 DEF LoadWipes
  <2>4. runtime' \in [MemFiles -> Maybe]
    BY <1>8, <2>1, <1>c DEF LoadWipes, MemTypeOK, Maybe
  <2>5. jobs' \in [Jobs -> Job]
    BY <2>2, DoneWithOne
  <2>6. NamesWereGiven'
    <3>1. lastName' = lastName
      BY <1>8 DEF LoadWipes
    <3>2. \A i \in Jobs : jobs'[i].at = jobs[i].at /\ jobs'[i].name = jobs[i].name
      BY <2>2, DoneWithKeeps
    <3> QED
      BY <3>1, <3>2 DEF NamesWereGiven, Filling, Loading
  <2> QED
    BY <1>8, <2>4, <2>5, <2>6 DEF LoadWipes, MemTypeOK
<1>9. ASSUME NEW j \in Jobs, NEW f \in MemFiles, LoadRestores(j, f) PROVE MemTypeOK' /\ NamesWereGiven'
  <2>1. jobs[j].name \in Names
    BY <1>9, <1>e DEF LoadRestores, Doing, Loading
  <2>2. jobs' = DoneWith(j, f)
    BY <1>9 DEF LoadRestores
  <2>4. runtime' \in [MemFiles -> Maybe]
    BY <1>9, <2>1, <1>c DEF LoadRestores, MemTypeOK, Maybe
  <2>5. jobs' \in [Jobs -> Job]
    BY <2>2, DoneWithOne
  <2>6. NamesWereGiven'
    <3>1. lastName' = lastName
      BY <1>9 DEF LoadRestores
    <3>2. \A i \in Jobs : jobs'[i].at = jobs[i].at /\ jobs'[i].name = jobs[i].name
      BY <2>2, DoneWithKeeps
    <3> QED
      BY <3>1, <3>2 DEF NamesWereGiven, Filling, Loading
  <2> QED
    BY <1>9, <2>4, <2>5, <2>6 DEF LoadRestores, MemTypeOK
<1>10. ASSUME NEW j \in Jobs, NEW n \in Names, NEW wipes \in BOOLEAN, LoadBegins(j, n, wipes)
       PROVE  MemTypeOK' /\ NamesWereGiven'
  <2> DEFINE s == [Waiting EXCEPT !.name = n, !.wipes = wipes, !.alone = TRUE,
                     !.names = Listed(dumps[n].manifest), !.sums = dumps[n].manifest,
                     !.at = IF wipes THEN "wipe" ELSE "restore",
                     !.todo = IF wipes THEN Listed(runtime) ELSE Listed(dumps[n].manifest)]
  <2>1. Listed(dumps[n].manifest) \in SUBSET MemFiles /\ Listed(runtime) \in SUBSET MemFiles
    BY <1>c, <1>f DEF MemTypeOK
  <2>2. s \in Job
    BY <2>1, <1>a, <1>b, <1>c DEF Job, Waiting
  <2>3. jobs' = [jobs EXCEPT ![j] = s]
    BY <1>10 DEF LoadBegins
  <2>4. jobs' \in [Jobs -> Job]
    BY <2>2, <2>3, JobStepTypes
  <2>5. s.name \in 1 .. lastName
    BY <1>10 DEF LoadBegins, SignedWereBegun, Names, MemTypeOK, Waiting
  <2>6. NamesWereGiven'
    BY <1>10, <2>3, <2>5, <1>d DEF NamesWereGiven, Filling, Loading, LoadBegins, MemTypeOK
  <2> QED
    BY <1>10, <2>4, <2>6 DEF LoadBegins, MemTypeOK
<1>11. ASSUME NEW j \in Jobs, NEW keep \in 1 .. MaxKeep, PruneBegins(j, keep)
       PROVE  MemTypeOK' /\ NamesWereGiven'
  <2> DEFINE doomed == {n \in Present : Cardinality({m \in Present : m > n}) >= keep}
             s == [jobs[j] EXCEPT !.at = "prune", !.doomed = doomed]
  <2>1. doomed \in SUBSET Names
    BY DEF Present
  <2>2. s \in Job
    BY <2>1, <1>d DEF Job
  <2>3. jobs' = [jobs EXCEPT ![j] = s]
    <3>1. jobs' = [jobs EXCEPT ![j].at = "prune", ![j].doomed = doomed]
      BY <1>11 DEF PruneBegins
    <3> HIDE DEF doomed
    <3> QED
      BY <3>1, <1>d DEF MemTypeOK
  <2>7. pruned' = pruned \cup doomed
    BY <1>11 DEF PruneBegins
  <2>4. jobs' \in [Jobs -> Job]
    BY <2>2, <2>3, JobStepTypes
  <2>5. NamesWereGiven'
    <3>1. s.at = "prune" /\ lastName' = lastName /\ jobs \in [Jobs -> Job]
      BY <1>11, <1>d DEF PruneBegins, MemTypeOK, Job
    <3> HIDE DEF s
    <3> QED
      BY <2>3, <3>1 DEF NamesWereGiven, Filling, Loading
  <2> QED
    BY <1>11, <2>1, <2>4, <2>5, <2>7 DEF PruneBegins, MemTypeOK
<1>12. ASSUME NEW j \in Jobs, NEW n \in Names, PruneTakesManifest(j, n)
       PROVE  MemTypeOK' /\ NamesWereGiven'
  <2>1. [dumps[n] EXCEPT !.manifest = Empty, !.signed = FALSE] \in Dump
    BY <1>a, <1>c DEF Dump
  <2>2. dumps' = [dumps EXCEPT ![n] = [dumps[n] EXCEPT !.manifest = Empty, !.signed = FALSE]]
    BY <1>12, <1>c DEF PruneTakesManifest, Dump, MemTypeOK
  <2>3. dumps' \in [Names -> Dump]
    BY <2>1, <2>2, DumpStepTypes
  <2> QED
    BY <1>12, <2>3 DEF PruneTakesManifest, MemTypeOK, NamesWereGiven, Filling, Loading
<1>13. ASSUME NEW j \in Jobs, NEW n \in Names, PruneTakesDirectory(j, n)
       PROVE  MemTypeOK' /\ NamesWereGiven'
  <2> DEFINE left == jobs[j].doomed \ {n}
             s == [jobs[j] EXCEPT !.doomed = left, !.at = IF left = {} THEN "idle" ELSE "prune"]
  <2>1. [dumps[n] EXCEPT !.there = FALSE] \in Dump
    BY <1>c DEF Dump
  <2>2. dumps' = [dumps EXCEPT ![n] = [dumps[n] EXCEPT !.there = FALSE]]
    BY <1>13, <1>c DEF PruneTakesDirectory, Dump, MemTypeOK
  <2>3. dumps' \in [Names -> Dump]
    BY <2>1, <2>2, DumpStepTypes
  <2>4. s \in Job
    BY <1>d DEF Job
  <2>5. jobs' = [jobs EXCEPT ![j] = s]
    BY <1>13, <1>d DEF PruneTakesDirectory, Job, MemTypeOK
  <2>6. jobs' \in [Jobs -> Job]
    BY <2>4, <2>5, JobStepTypes
  <2>7. NamesWereGiven'
    <3>1. s.name = jobs[j].name /\ s.at \in {"idle", "prune"}
      BY <1>d DEF Job
    <3> HIDE DEF s
    <3>2. \A i \in Jobs : jobs'[i] = IF i = j THEN s ELSE jobs[i]
      BY <2>5 DEF MemTypeOK
    <3> QED
      BY <1>13, <3>1, <3>2 DEF NamesWereGiven, Filling, Loading, PruneTakesDirectory
  <2> QED
    BY <1>13, <2>3, <2>6, <2>7 DEF PruneTakesDirectory, MemTypeOK
<1>14. ASSUME NEW j \in Jobs, NEW n \in Names, NEW f \in MemFiles, PruneTakesFile(j, n, f)
       PROVE  MemTypeOK' /\ NamesWereGiven'
  <2>1. [dumps[n] EXCEPT !.files[f] = Missing] \in Dump
    BY <1>c DEF Dump, Maybe
  <2>2. dumps' = [dumps EXCEPT ![n] = [dumps[n] EXCEPT !.files[f] = Missing]]
    BY <1>14, <1>c DEF PruneTakesFile, Dump, MemTypeOK
  <2>3. dumps' \in [Names -> Dump]
    BY <2>1, <2>2, DumpStepTypes
  <2> QED
    BY <1>14, <2>3 DEF PruneTakesFile, MemTypeOK, NamesWereGiven, Filling, Loading
<1>15. ASSUME NEW f \in MemFiles, NEW content \in ContentsOf[f] \cup {Missing}, AgentWrites(f, content)
       PROVE  MemTypeOK' /\ NamesWereGiven'
  <2>1. \A i \in Jobs : jobs'[i] \in Job /\ jobs'[i].name = jobs[i].name /\ jobs'[i].at = jobs[i].at
    <3>1. ASSUME NEW i \in Jobs
          PROVE  jobs'[i] \in Job /\ jobs'[i].name = jobs[i].name /\ jobs'[i].at = jobs[i].at
      <4>1. jobs[i] \in Job
        BY <1>d
      <4>2. jobs'[i] = [jobs[i] EXCEPT !.alone = FALSE]
        BY <1>15 DEF AgentWrites
      <4>. QED
        BY <4>1, <4>2 DEF Job
    <3>. QED
      BY <3>1
  <2>2. jobs' = [i \in Jobs |-> jobs'[i]]
    BY <1>15 DEF AgentWrites
  <2>3. jobs' \in [Jobs -> Job]
    BY <2>1, <2>2
  <2>4. content \in Maybe
    BY DEF Maybe
  <2>5. runtime' \in [MemFiles -> Maybe]
    BY <1>15, <2>4 DEF AgentWrites, MemTypeOK
  <2> QED
    BY <1>15, <2>1, <2>3, <2>5 DEF AgentWrites, MemTypeOK, NamesWereGiven, Filling, Loading
<1>16. CASE UNCHANGED memVars
  BY <1>16 DEF memVars, MemTypeOK, NamesWereGiven, Filling, Loading
<1> QED
  BY <1>1, <1>2, <1>3, <1>4, <1>5, <1>6, <1>7, <1>8, <1>9, <1>10, <1>11, <1>12, <1>13, <1>14,
     <1>15, <1>16 DEF MemNext

(* A step that leaves the dumps alone, and begins no filling.                *)
LEMMA DumpsAlone ==
  ASSUME MemTypeOK, DumpInv, UNCHANGED <<dumps, lastName, pruned>>,
         \A i \in Jobs : /\ jobs'[i].doomed \subseteq jobs[i].doomed
                         /\ jobs'[i].at \in {"copy", "sign"} =>
                              /\ jobs'[i].at = jobs[i].at
                              /\ jobs'[i].name = jobs[i].name
                              /\ jobs'[i].sums = jobs[i].sums
  PROVE  DumpInv'
<1>1. FilledByOne' /\ SumsAreHonest'
  BY DEF DumpInv, FilledByOne, SumsAreHonest, Filling, Honest
<1>2. DoomedArePruned'
  BY DEF DumpInv, DoomedArePruned
<1>3. SignedWereBegun' /\ ManifestsAreHonest'
  BY DEF DumpInv, SignedWereBegun, ManifestsAreHonest, Honest
<1> QED
  BY <1>1, <1>2, <1>3 DEF DumpInv

LEMMA DumpInvStep ==
  ASSUME MemTypeOK, NamesWereGiven, DumpInv, [MemNext]_memVars
  PROVE  DumpInv'
<1>a. \A i \in Jobs : jobs[i] \in Job
  BY DEF MemTypeOK
<1>b. \A n \in Names : dumps[n] \in Dump
  BY DEF MemTypeOK
<1>c. lastName \in Nat /\ \A n \in Names : n \in Nat
  BY BoundsAssumption DEF MemTypeOK, Names
<1>d. \A i \in Jobs : Filling(i) => jobs[i].name \in Names
  BY BoundsAssumption DEF NamesWereGiven, MemTypeOK, Names
<1>e. Waiting.doomed = {} /\ Waiting.at = "idle"
  BY DEF Waiting
<1>1. ASSUME NEW j \in Jobs, DumpBegins(j) PROVE DumpInv'
  <2>1. lastName' = lastName + 1 /\ lastName' \in Names /\ pruned' = pruned
    BY <1>1, <1>c, BoundsAssumption DEF DumpBegins, Names, MemTypeOK
  <2>2. /\ jobs'[j].at = "copy" /\ jobs'[j].name = lastName' /\ jobs'[j].doomed = {}
        /\ \A i \in Jobs \ {j} : jobs'[i] = jobs[i]
    BY <1>1 DEF DumpBegins, MemTypeOK, Waiting
  <2>3. \A n \in Names : /\ dumps'[n].signed = dumps[n].signed
                         /\ dumps'[n].files = dumps[n].files
                         /\ dumps'[n].manifest = dumps[n].manifest
    BY <1>1, <1>b DEF DumpBegins, MemTypeOK, Dump
  <2>4. ~dumps[lastName'].signed
    BY <2>1, <1>c DEF DumpInv, SignedWereBegun
  <2>5. FilledByOne'
    BY <2>1, <2>2, <2>3, <2>4, <1>c, <1>d DEF DumpInv, FilledByOne, Filling
  <2>6. DoomedArePruned'
    BY <2>1, <2>2 DEF DumpInv, DoomedArePruned
  <2>7. SignedWereBegun' /\ ManifestsAreHonest'
    <3>1. SignedWereBegun'
      BY <2>1, <2>3, <1>c DEF DumpInv, SignedWereBegun
    <3>2. ManifestsAreHonest'
      BY <2>1, <2>3 DEF DumpInv, ManifestsAreHonest, Honest
    <3> QED
      BY <3>1, <3>2
  <2>8. SumsAreHonest'
    <3> SUFFICES ASSUME NEW i \in Jobs, jobs'[i].at = "sign"
                 PROVE  Honest(jobs[i].name, jobs[i].sums)'
      BY DEF SumsAreHonest
    <3>1. jobs'[i] = jobs[i] /\ jobs[i].name \in Names
      BY <2>2, <1>d DEF Filling
    <3>2. Honest(jobs[i].name, jobs[i].sums)
      BY <3>1 DEF DumpInv, SumsAreHonest
    <3> QED
      BY <2>1, <2>3, <3>1, <3>2 DEF Honest
  <2> QED
    BY <2>5, <2>6, <2>7, <2>8 DEF DumpInv
<1>2. ASSUME NEW j \in Jobs, DumpSums(j) PROVE DumpInv'
  <2>1. UNCHANGED <<dumps, lastName, pruned>> /\ jobs[j].name \in Names
    BY <1>2, <1>d DEF DumpSums, Filling, Doing
  <2>2. /\ jobs'[j].at = "sign" /\ jobs'[j].name = jobs[j].name
        /\ jobs'[j].doomed = jobs[j].doomed /\ jobs'[j].sums = dumps[jobs[j].name].files
        /\ \A i \in Jobs \ {j} : jobs'[i] = jobs[i]
    BY <1>2, <1>a DEF DumpSums, MemTypeOK, Summed, Job
  <2>3. FilledByOne'
    <3>1. \A i \in Jobs : jobs'[i].at \in {"copy", "sign"} =>
             Filling(i) /\ jobs'[i].name = jobs[i].name
      BY <1>2, <2>2 DEF Filling, DumpSums, Doing
    <3>2. \A i \in Jobs : Filling(i) => ~dumps'[jobs[i].name].signed
      BY <2>1 DEF DumpInv, FilledByOne
    <3> QED
      BY <2>1, <3>1, <3>2 DEF DumpInv, FilledByOne, Filling
  <2>4. SumsAreHonest'
    BY <2>1, <2>2 DEF DumpInv, SumsAreHonest, Honest
  <2>5. DoomedArePruned'
    BY <2>1, <2>2 DEF DumpInv, DoomedArePruned
  <2> QED
    BY <2>1, <2>3, <2>4, <2>5 DEF DumpInv, SignedWereBegun, ManifestsAreHonest, Honest
<1>3. ASSUME NEW j \in Jobs, DumpSigns(j) PROVE DumpInv'
  <2> DEFINE n == jobs[j].name
  <2>1. UNCHANGED <<lastName, pruned>> /\ n \in Names /\ n <= lastName
    BY <1>3, <1>d DEF DumpSigns, Filling, Doing, NamesWereGiven
  <2>2. /\ jobs'[j].at = "idle" /\ jobs'[j].doomed = {}
        /\ \A i \in Jobs \ {j} : jobs'[i] = jobs[i]
    BY <1>3, <1>e DEF DumpSigns, MemTypeOK
  <2>3. /\ dumps'[n].signed /\ dumps'[n].files = dumps[n].files /\ dumps'[n].manifest = jobs[j].sums
        /\ \A m \in Names \ {n} : dumps'[m] = dumps[m]
    BY <1>3, <2>1, <1>b DEF DumpSigns, MemTypeOK, Dump
  <2>4. \A i \in Jobs \ {j} : Filling(i) => jobs[i].name \in Names \ {n}
    BY <1>3, <1>d DEF DumpInv, FilledByOne, DumpSigns, Doing, Filling
  <2>5. FilledByOne'
    BY <2>1, <2>2, <2>3, <2>4 DEF DumpInv, FilledByOne, Filling
  <2>6. SumsAreHonest'
    BY <2>1, <2>2, <2>3, <2>4 DEF DumpInv, SumsAreHonest, Honest, Filling
  <2>7. Honest(n, jobs[j].sums)
    BY <1>3 DEF DumpInv, SumsAreHonest, DumpSigns, Doing
  <2>8. ManifestsAreHonest'
    BY <2>1, <2>3, <2>7 DEF DumpInv, ManifestsAreHonest, Honest
  <2>9. SignedWereBegun' /\ DoomedArePruned'
    BY <2>1, <2>2, <2>3 DEF DumpInv, SignedWereBegun, DoomedArePruned
  <2> QED
    BY <2>5, <2>6, <2>8, <2>9 DEF DumpInv
<1>4. ASSUME NEW j \in Jobs, LoadWiped(j) PROVE DumpInv'
  BY <1>4, <1>a, DumpsAlone DEF LoadWiped, MemTypeOK, Job
<1>5. ASSUME NEW j \in Jobs, LoadEnds(j) PROVE DumpInv'
  BY <1>5, <1>a, <1>e, DumpsAlone DEF LoadEnds, MemTypeOK
<1>6. ASSUME NEW j \in Jobs, JobFails(j) PROVE DumpInv'
  BY <1>6, <1>a, <1>e, DumpsAlone DEF JobFails, MemTypeOK
<1>7. ASSUME NEW j \in Jobs, NEW f \in MemFiles, DumpCopies(j, f) PROVE DumpInv'
  <2> DEFINE n == jobs[j].name
  <2>1. UNCHANGED <<lastName, pruned>> /\ n \in Names /\ ~dumps[n].signed
    BY <1>7, <1>d DEF DumpCopies, Filling, Doing, DumpInv, FilledByOne
  <2>2. /\ jobs'[j].at = "copy" /\ jobs'[j].name = n /\ jobs'[j].doomed = jobs[j].doomed
        /\ \A i \in Jobs \ {j} : jobs'[i] = jobs[i]
    BY <1>7, <1>a DEF DumpCopies, MemTypeOK, Job, Doing
  <2>3. /\ dumps'[n].signed = dumps[n].signed
        /\ \A m \in Names \ {n} : dumps'[m] = dumps[m]
    BY <1>7, <2>1, <1>b DEF DumpCopies, MemTypeOK, Dump
  <2>4. \A i \in Jobs \ {j} : Filling(i) => jobs[i].name \in Names \ {n}
    BY <1>7, <1>d DEF DumpInv, FilledByOne, DumpCopies, Doing, Filling
  <2>5. FilledByOne'
    <3>1. \A i \in Jobs : jobs'[i].at \in {"copy", "sign"} =>
             Filling(i) /\ jobs'[i].name = jobs[i].name
      BY <1>7, <2>2 DEF Filling, DumpCopies, Doing
    <3>2. \A i \in Jobs : Filling(i) => ~dumps'[jobs[i].name].signed
      BY <2>1, <2>3, <1>d DEF DumpInv, FilledByOne
    <3> QED
      BY <2>1, <3>1, <3>2 DEF DumpInv, FilledByOne, Filling
  <2>6. SumsAreHonest'
    BY <2>1, <2>2, <2>3, <2>4 DEF DumpInv, SumsAreHonest, Honest, Filling
  <2>7. ManifestsAreHonest'
    BY <2>1, <2>3 DEF DumpInv, ManifestsAreHonest, Honest
  <2>8. SignedWereBegun' /\ DoomedArePruned'
    BY <2>1, <2>2, <2>3 DEF DumpInv, SignedWereBegun, DoomedArePruned
  <2> QED
    BY <2>5, <2>6, <2>7, <2>8 DEF DumpInv
<1>8. ASSUME NEW j \in Jobs, NEW f \in MemFiles, LoadWipes(j, f) PROVE DumpInv'
  BY <1>8, DumpsAlone, DoneWithKeeps DEF LoadWipes
<1>9. ASSUME NEW j \in Jobs, NEW f \in MemFiles, LoadRestores(j, f) PROVE DumpInv'
  BY <1>9, DumpsAlone, DoneWithKeeps DEF LoadRestores
<1>10. ASSUME NEW j \in Jobs, NEW n \in Names, NEW wipes \in BOOLEAN, LoadBegins(j, n, wipes)
       PROVE  DumpInv'
  <2>1. /\ jobs'[j].at \in {"wipe", "restore"} /\ jobs'[j].doomed = {}
        /\ \A i \in Jobs \ {j} : jobs'[i] = jobs[i]
    BY <1>10 DEF LoadBegins, MemTypeOK, Waiting
  <2> QED
    BY <1>10, <2>1, DumpsAlone DEF LoadBegins
<1>11. ASSUME NEW j \in Jobs, NEW keep \in 1 .. MaxKeep, PruneBegins(j, keep) PROVE DumpInv'
  <2> DEFINE doomed == {n \in Present : Cardinality({m \in Present : m > n}) >= keep}
  <2>0. UNCHANGED <<dumps, lastName>> /\ pruned' = pruned \cup doomed
          /\ jobs' = [jobs EXCEPT ![j] = [jobs[j] EXCEPT !.at = "prune", !.doomed = doomed]]
    BY <1>11, <1>a DEF PruneBegins, MemTypeOK, Job
  <2> HIDE DEF doomed
  <2>1. /\ UNCHANGED <<dumps, lastName>> /\ pruned' = pruned \cup doomed
        /\ jobs'[j].at = "prune" /\ jobs'[j].doomed = doomed
        /\ \A i \in Jobs \ {j} : jobs'[i] = jobs[i]
    BY <2>0, <1>a DEF MemTypeOK, Job
  <2>2. FilledByOne'
    BY <2>1 DEF DumpInv, FilledByOne, Filling
  <2>3. SumsAreHonest' /\ ManifestsAreHonest'
    BY <2>1 DEF DumpInv, SumsAreHonest, ManifestsAreHonest, Honest
  <2>4. DoomedArePruned' /\ SignedWereBegun'
    BY <2>1 DEF DumpInv, DoomedArePruned, SignedWereBegun
  <2> QED
    BY <2>2, <2>3, <2>4 DEF DumpInv
<1>12. ASSUME NEW j \in Jobs, NEW n \in Names, PruneTakesManifest(j, n) PROVE DumpInv'
  <2>1. /\ UNCHANGED <<jobs, lastName, pruned>>
        /\ ~dumps'[n].signed /\ dumps'[n].files = dumps[n].files
        /\ \A m \in Names \ {n} : dumps'[m] = dumps[m]
    BY <1>12, <1>b DEF PruneTakesManifest, MemTypeOK, Dump
  <2>2. FilledByOne' /\ SumsAreHonest'
    BY <2>1, <1>d DEF DumpInv, FilledByOne, SumsAreHonest, Honest, Filling
  <2> QED
    BY <2>1, <2>2 DEF DumpInv, DoomedArePruned, SignedWereBegun, ManifestsAreHonest, Honest
<1>13. ASSUME NEW j \in Jobs, NEW n \in Names, PruneTakesDirectory(j, n) PROVE DumpInv'
  <2>1. UNCHANGED <<lastName, pruned>>
    BY <1>13 DEF PruneTakesDirectory
  <2>2. \A m \in Names : /\ dumps'[m].signed = dumps[m].signed
                         /\ dumps'[m].files = dumps[m].files
                         /\ dumps'[m].manifest = dumps[m].manifest
    BY <1>13, <1>b DEF PruneTakesDirectory, MemTypeOK, Dump
  <2>3. /\ jobs'[j].at \in {"idle", "prune"} /\ jobs'[j].doomed \subseteq jobs[j].doomed
        /\ \A i \in Jobs \ {j} : jobs'[i] = jobs[i]
    BY <1>13, <1>a DEF PruneTakesDirectory, MemTypeOK, Job
  <2>4. FilledByOne' /\ SumsAreHonest'
    BY <2>1, <2>2, <2>3, <1>d DEF DumpInv, FilledByOne, SumsAreHonest, Honest, Filling
  <2>5. SignedWereBegun' /\ ManifestsAreHonest'
    BY <2>1, <2>2 DEF DumpInv, SignedWereBegun, ManifestsAreHonest, Honest
  <2>6. DoomedArePruned'
    BY <2>1, <2>3 DEF DumpInv, DoomedArePruned
  <2> QED
    BY <2>4, <2>5, <2>6 DEF DumpInv
<1>14. ASSUME NEW j \in Jobs, NEW n \in Names, NEW f \in MemFiles, PruneTakesFile(j, n, f)
       PROVE  DumpInv'
  <2>1. UNCHANGED <<jobs, lastName, pruned>> /\ n \in pruned
    BY <1>14 DEF PruneTakesFile, DumpInv, DoomedArePruned
  <2>2. /\ dumps'[n].signed = dumps[n].signed /\ dumps'[n].manifest = dumps[n].manifest
        /\ \A g \in MemFiles : dumps'[n].files[g] = dumps[n].files[g] \/ dumps'[n].files[g] = Missing
        /\ \A m \in Names \ {n} : dumps'[m] = dumps[m]
    BY <1>14, <1>b DEF PruneTakesFile, MemTypeOK, Dump
  <2>3. FilledByOne'
    BY <2>1, <2>2, <1>d DEF DumpInv, FilledByOne, Filling
  <2>4. SumsAreHonest'
    BY <2>1, <2>2, <1>d DEF DumpInv, SumsAreHonest, Honest, Filling
  <2>5. ManifestsAreHonest'
    BY <2>1, <2>2 DEF DumpInv, ManifestsAreHonest, Honest
  <2> QED
    BY <2>1, <2>2, <2>3, <2>4, <2>5 DEF DumpInv, DoomedArePruned, SignedWereBegun
<1>15. ASSUME NEW f \in MemFiles, NEW content \in ContentsOf[f] \cup {Missing}, AgentWrites(f, content)
       PROVE  DumpInv'
  <2>1. \A i \in Jobs : /\ jobs'[i].at = jobs[i].at /\ jobs'[i].name = jobs[i].name
                        /\ jobs'[i].sums = jobs[i].sums /\ jobs'[i].doomed = jobs[i].doomed
    BY <1>15, <1>a DEF AgentWrites, Job
  <2> QED
    BY <1>15, <2>1, DumpsAlone DEF AgentWrites
<1>16. CASE UNCHANGED memVars
  BY <1>16, DumpsAlone DEF memVars
<1> QED
  BY <1>1, <1>2, <1>3, <1>4, <1>5, <1>6, <1>7, <1>8, <1>9, <1>10, <1>11, <1>12, <1>13, <1>14,
     <1>15, <1>16 DEF MemNext

LEMMA MemInitTypes ==
  ASSUME MemInit
  PROVE  MemTypeOK /\ NamesWereGiven /\ DumpInv
<1>1. Empty \in [MemFiles -> Maybe] /\ NoName \in 0 .. MaxDumps
  BY BoundsAssumption DEF Empty, Maybe, NoName
<1>2. Waiting \in Job /\ NoDump \in Dump
  BY <1>1 DEF Waiting, Job, NoDump, Dump
<1>3. runtime \in [MemFiles -> Maybe]
  BY DEF MemInit
<1>4. MemTypeOK
  BY <1>2, <1>3, BoundsAssumption DEF MemInit, MemTypeOK
<1>5. \A i \in Jobs : jobs[i].at = "idle" /\ jobs[i].doomed = {}
  BY DEF MemInit, Waiting
<1>6. \A n \in Names : ~dumps[n].signed
  BY DEF MemInit, NoDump
<1> QED
  BY <1>4, <1>5, <1>6 DEF NamesWereGiven, Filling, Loading, DumpInv, FilledByOne, SignedWereBegun,
     DoomedArePruned, SumsAreHonest, ManifestsAreHonest

(* mem.ts: whatever jobs run, fail or crash, and whatever agents write to the *)
(* runtime meanwhile, directories, dumps and jobs are ones the program has.   *)
THEOREM MemTypes == MemSpec => []MemTypeOK
<1> DEFINE Inv == MemTypeOK /\ NamesWereGiven /\ DumpInv
<1>1. MemInit => Inv
  BY MemInitTypes
<1>2. Inv /\ [MemNext]_memVars => Inv'
  BY MemTypesStep, DumpInvStep DEF DumpInv
<1> QED
  BY <1>1, <1>2, PTL DEF MemSpec

(* dumpMemory and pruneDumps: a dump that has its manifest holds every file   *)
(* the manifest lists with the checksum written there, but for what a prune   *)
(* has removed, for any number of commands, files and dumps.                  *)
THEOREM ManifestsStayHonest == MemSpec => []ManifestIsHonest
<1> DEFINE Inv == MemTypeOK /\ NamesWereGiven /\ DumpInv
<1>1. MemInit => Inv
  BY MemInitTypes
<1>2. Inv /\ [MemNext]_memVars => Inv'
  BY MemTypesStep, DumpInvStep DEF DumpInv
<1>3. Inv => ManifestIsHonest
  BY DEF DumpInv, ManifestsAreHonest, Honest, ManifestIsHonest
<1> QED
  BY <1>1, <1>2, <1>3, PTL DEF MemSpec

(* ------------------------------------------------------------------------ *)
(* Loads.                                                                    *)

(* A load knows what its dump was signed for, and nobody fills that dump     *)
(* again: what it finds there is what was signed, or gone.                   *)
ReadsSigned(j) ==
  /\ jobs[j].names = Listed(jobs[j].sums)
  /\ \A f \in MemFiles : dumps[jobs[j].name].files[f] \in {jobs[j].sums[f], Missing}
  /\ \A i \in Jobs : Filling(i) => jobs[i].name # jobs[j].name

(* What a load that is alone has dealt with is as it left it.                *)
WipedSoFar(j) ==
  \A f \in MemFiles \ jobs[j].todo : runtime[f] = Missing
RestoredSoFar(j) ==
  /\ \A f \in jobs[j].names \ jobs[j].todo : runtime[f] = jobs[j].sums[f]
  /\ jobs[j].wipes => \A f \in MemFiles \ jobs[j].names : runtime[f] = Missing

LoadInv ==
  \A j \in Jobs : Loading(j) =>
    /\ ReadsSigned(j)
    /\ jobs[j].alone /\ jobs[j].at = "wipe" => WipedSoFar(j)
    /\ jobs[j].alone /\ jobs[j].at = "restore" => RestoredSoFar(j)

(* A step that leaves the runtime and every load alone.                      *)
LEMMA LoadsAlone ==
  ASSUME LoadInv, runtime' = runtime,
         \A i \in Jobs : jobs'[i].at \in {"wipe", "restore"} => jobs'[i] = jobs[i],
         \A i, j \in Jobs :
            jobs'[i].at \in {"copy", "sign"} /\ Loading(j) => jobs'[i].name # jobs[j].name,
         \A j \in Jobs, f \in MemFiles :
            Loading(j) => dumps'[jobs[j].name].files[f] \in {dumps[jobs[j].name].files[f], Missing}
  PROVE  LoadInv'
<1> SUFFICES ASSUME NEW j \in Jobs, Loading(j)'
             PROVE  /\ ReadsSigned(j)'
                    /\ (jobs[j].alone /\ jobs[j].at = "wipe" => WipedSoFar(j))'
                    /\ (jobs[j].alone /\ jobs[j].at = "restore" => RestoredSoFar(j))'
  BY DEF LoadInv
<1>1. jobs'[j] = jobs[j] /\ Loading(j)
  BY DEF Loading
<1>2. ReadsSigned(j)'
  BY <1>1 DEF LoadInv, ReadsSigned, Filling, Listed
<1> QED
  BY <1>1, <1>2 DEF LoadInv, WipedSoFar, RestoredSoFar

LEMMA LoadInvStep ==
  ASSUME MemTypeOK, NamesWereGiven, DumpInv, LoadInv, [MemNext]_memVars
  PROVE  LoadInv'
<1>a. \A i \in Jobs : jobs[i] \in Job
  BY DEF MemTypeOK
<1>b. \A n \in Names : dumps[n] \in Dump
  BY DEF MemTypeOK
<1>c. lastName \in Nat /\ \A i \in Jobs : jobs[i].name \in Nat
  BY <1>a, BoundsAssumption DEF MemTypeOK, Job
<1>d. \A i \in Jobs : Filling(i) \/ Loading(i) => jobs[i].name \in Names
  BY BoundsAssumption DEF NamesWereGiven, MemTypeOK, Names
<1>e. Waiting.at = "idle"
  BY DEF Waiting
<1>f. \A i, j \in Jobs : Filling(i) /\ Loading(j) => jobs[i].name # jobs[j].name
  BY DEF LoadInv, ReadsSigned
<1>1. ASSUME NEW j \in Jobs, DumpBegins(j) PROVE LoadInv'
  <2>1. lastName' = lastName + 1 /\ lastName' \in Names /\ runtime' = runtime
    BY <1>1, <1>c, BoundsAssumption DEF DumpBegins, Names, MemTypeOK
  <2>2. /\ jobs'[j].at = "copy" /\ jobs'[j].name = lastName'
        /\ \A i \in Jobs \ {j} : jobs'[i] = jobs[i]
    BY <1>1 DEF DumpBegins, MemTypeOK, Waiting
  <2>3. \A n \in Names : dumps'[n].files = dumps[n].files
    BY <1>1, <1>b DEF DumpBegins, MemTypeOK, Dump
  <2>4. \A i \in Jobs : Loading(i) => jobs[i].name # lastName'
    BY <2>1, <1>c DEF NamesWereGiven
  <2> QED
    BY <2>1, <2>2, <2>3, <2>4, <1>d, <1>f, LoadsAlone DEF Filling
<1>2. ASSUME NEW j \in Jobs, DumpSums(j) PROVE LoadInv'
  <2>1. UNCHANGED <<runtime, dumps>> /\ Filling(j)
    BY <1>2 DEF DumpSums, Doing, Filling
  <2>2. /\ jobs'[j].at = "sign" /\ jobs'[j].name = jobs[j].name
        /\ \A i \in Jobs \ {j} : jobs'[i] = jobs[i]
    BY <1>2, <1>a DEF DumpSums, MemTypeOK, Job
  <2> QED
    BY <2>1, <2>2, <1>f, LoadsAlone DEF Filling
<1>3. ASSUME NEW j \in Jobs, DumpSigns(j) PROVE LoadInv'
  <2>1. /\ runtime' = runtime /\ jobs'[j].at = "idle"
        /\ \A i \in Jobs \ {j} : jobs'[i] = jobs[i]
    BY <1>3, <1>e DEF DumpSigns, MemTypeOK
  <2>2. \A n \in Names : dumps'[n].files = dumps[n].files
    BY <1>3, <1>b DEF DumpSigns, MemTypeOK, Dump
  <2> QED
    BY <2>1, <2>2, <1>d, <1>f, LoadsAlone DEF Filling
<1>4. ASSUME NEW j \in Jobs, LoadWiped(j) PROVE LoadInv'
  <2>1. /\ UNCHANGED <<runtime, dumps>> /\ Loading(j) /\ jobs[j].at = "wipe" /\ jobs[j].todo = {}
        /\ jobs'[j].at = "restore" /\ jobs'[j].todo = jobs[j].names
        /\ jobs'[j].name = jobs[j].name /\ jobs'[j].names = jobs[j].names
        /\ jobs'[j].sums = jobs[j].sums /\ jobs'[j].alone = jobs[j].alone
        /\ \A i \in Jobs \ {j} : jobs'[i] = jobs[i]
    BY <1>4, <1>a DEF LoadWiped, MemTypeOK, Job, Doing, Loading
  <2>2. \A i \in Jobs : Loading(i)' => Loading(i) /\ ReadsSigned(i)'
    BY <2>1 DEF LoadInv, ReadsSigned, Loading, Filling, Listed
  <2>3. jobs'[j].alone => RestoredSoFar(j)'
    <3>1. jobs[j].alone => \A f \in MemFiles : runtime[f] = Missing
      BY <2>1 DEF LoadInv, WipedSoFar
    <3> QED
      BY <2>1, <3>1 DEF RestoredSoFar
  <2> QED
    BY <2>1, <2>2, <2>3 DEF LoadInv, WipedSoFar, RestoredSoFar
<1>5. ASSUME NEW j \in Jobs, LoadEnds(j) PROVE LoadInv'
  BY <1>5, <1>a, <1>e, <1>f, LoadsAlone DEF LoadEnds, MemTypeOK, Filling
<1>6. ASSUME NEW j \in Jobs, JobFails(j) PROVE LoadInv'
  BY <1>6, <1>a, <1>e, <1>f, LoadsAlone DEF JobFails, MemTypeOK, Filling
<1>7. ASSUME NEW j \in Jobs, NEW f \in MemFiles, DumpCopies(j, f) PROVE LoadInv'
  <2>1. runtime' = runtime /\ Filling(j) /\ jobs[j].name \in Names
    BY <1>7, <1>d DEF DumpCopies, Doing, Filling
  <2>2. /\ jobs'[j].at = "copy" /\ jobs'[j].name = jobs[j].name
        /\ \A i \in Jobs \ {j} : jobs'[i] = jobs[i]
    BY <1>7, <1>a DEF DumpCopies, MemTypeOK, Job, Doing
  <2>3. \A n \in Names \ {jobs[j].name} : dumps'[n] = dumps[n]
    BY <1>7, <2>1 DEF DumpCopies, MemTypeOK
  <2> QED
    BY <2>1, <2>2, <2>3, <1>d, <1>f, LoadsAlone DEF Filling
<1>8. ASSUME NEW j \in Jobs, NEW f \in MemFiles, LoadWipes(j, f) PROVE LoadInv'
  <2>1. /\ dumps' = dumps /\ jobs[j].at = "wipe" /\ runtime' = [runtime EXCEPT ![f] = Missing]
        /\ jobs' = DoneWith(j, f)
    BY <1>8 DEF LoadWipes, Doing
  <2>2. /\ jobs'[j].todo = jobs[j].todo \ {f} /\ jobs'[j].alone = jobs[j].alone
        /\ \A i \in Jobs \ {j} : ~jobs'[i].alone
    BY <2>1, DoneWithRest
  <2>3. \A i \in Jobs : Loading(i)' => Loading(i) /\ ReadsSigned(i)'
    BY <2>1, DoneWithKeeps DEF LoadInv, ReadsSigned, Loading, Filling, Listed
  <2>4. jobs'[j].at = "wipe"
    BY <2>1, DoneWithKeeps
  <2>5. jobs'[j].alone => WipedSoFar(j)'
    BY <2>1, <2>2 DEF LoadInv, WipedSoFar, MemTypeOK, Loading
  <2> QED
    BY <2>2, <2>3, <2>4, <2>5 DEF LoadInv
<1>9. ASSUME NEW j \in Jobs, NEW f \in MemFiles, LoadRestores(j, f) PROVE LoadInv'
  <2>1. /\ dumps' = dumps /\ jobs[j].at = "restore" /\ f \in jobs[j].todo
        /\ dumps[jobs[j].name].files[f] # Missing
        /\ runtime' = [runtime EXCEPT ![f] = dumps[jobs[j].name].files[f]]
        /\ jobs' = DoneWith(j, f)
    BY <1>9 DEF LoadRestores, Doing
  <2>2. /\ jobs'[j].todo = jobs[j].todo \ {f} /\ jobs'[j].alone = jobs[j].alone
        /\ \A i \in Jobs \ {j} : ~jobs'[i].alone
    BY <2>1, DoneWithRest
  <2>3. \A i \in Jobs : Loading(i)' => Loading(i) /\ ReadsSigned(i)'
    BY <2>1, DoneWithKeeps DEF LoadInv, ReadsSigned, Loading, Filling, Listed
  <2>4. /\ jobs'[j].at = "restore" /\ jobs'[j].names = jobs[j].names
        /\ jobs'[j].sums = jobs[j].sums /\ jobs'[j].wipes = jobs[j].wipes
    BY <2>1, DoneWithKeeps
  <2>5. runtime'[f] = jobs[j].sums[f] /\ \A g \in MemFiles \ {f} : runtime'[g] = runtime[g]
    BY <2>1 DEF LoadInv, ReadsSigned, MemTypeOK, Loading
  <2>6. f \in jobs[j].names /\ jobs[j].names \subseteq MemFiles
    <3>1. jobs[j].names = Listed(jobs[j].sums) /\ jobs[j].sums[f] # Missing
      BY <2>1 DEF LoadInv, ReadsSigned, Loading
    <3> QED
      BY <3>1 DEF Listed
  <2>7. jobs'[j].alone => RestoredSoFar(j)'
    <3>1. jobs'[j].alone => RestoredSoFar(j)
      BY <2>1, <2>2 DEF LoadInv, Loading
    <3>2. RestoredSoFar(j) => \A g \in jobs'[j].names \ jobs'[j].todo : runtime'[g] = jobs'[j].sums[g]
      BY <2>2, <2>4, <2>5, <2>6 DEF RestoredSoFar
    <3>3. RestoredSoFar(j) /\ jobs'[j].wipes => \A g \in MemFiles \ jobs'[j].names : runtime'[g] = Missing
      BY <2>4, <2>5, <2>6 DEF RestoredSoFar
    <3> QED
      BY <3>1, <3>2, <3>3 DEF RestoredSoFar
  <2> QED
    BY <2>2, <2>3, <2>4, <2>7 DEF LoadInv
<1>10. ASSUME NEW j \in Jobs, NEW n \in Names, NEW wipes \in BOOLEAN, LoadBegins(j, n, wipes)
       PROVE  LoadInv'
  <2>1. /\ UNCHANGED <<runtime, dumps>> /\ dumps[n].signed
        /\ jobs'[j].name = n /\ jobs'[j].wipes = wipes
        /\ jobs'[j].names = Listed(dumps[n].manifest) /\ jobs'[j].sums = dumps[n].manifest
        /\ jobs'[j].at = IF wipes THEN "wipe" ELSE "restore"
        /\ jobs'[j].todo = IF wipes THEN Listed(runtime) ELSE Listed(dumps[n].manifest)
        /\ \A i \in Jobs \ {j} : jobs'[i] = jobs[i]
    BY <1>10 DEF LoadBegins, MemTypeOK, Waiting
  <2>2. ReadsSigned(j)'
    <3>1. \A f \in MemFiles : dumps[n].files[f] \in {dumps[n].manifest[f], Missing}
      BY <2>1 DEF DumpInv, ManifestsAreHonest, Honest
    <3>2. \A i \in Jobs : Filling(i)' => i # j /\ Filling(i) /\ jobs'[i] = jobs[i]
      BY <2>1 DEF Filling
    <3>3. \A i \in Jobs : Filling(i) => jobs[i].name # n
      BY <2>1 DEF DumpInv, FilledByOne
    <3> QED
      BY <2>1, <3>1, <3>2, <3>3 DEF ReadsSigned, Listed
  <2>3. \A i \in Jobs \ {j} : Loading(i)' => Loading(i) /\ ReadsSigned(i)'
    BY <2>1 DEF LoadInv, ReadsSigned, Loading, Filling, Listed
  <2>4. jobs'[j].at = "wipe" => WipedSoFar(j)'
    BY <2>1 DEF WipedSoFar, Listed
  <2>5. jobs'[j].at = "restore" => RestoredSoFar(j)'
    BY <2>1 DEF RestoredSoFar
  <2> QED
    BY <2>1, <2>2, <2>3, <2>4, <2>5 DEF LoadInv, WipedSoFar, RestoredSoFar
<1>11. ASSUME NEW j \in Jobs, NEW keep \in 1 .. MaxKeep, PruneBegins(j, keep) PROVE LoadInv'
  <2>1. /\ UNCHANGED <<runtime, dumps>> /\ jobs'[j].at = "prune"
        /\ \A i \in Jobs \ {j} : jobs'[i] = jobs[i]
    BY <1>11, <1>a DEF PruneBegins, MemTypeOK, Job
  <2> QED
    BY <2>1, <1>f, LoadsAlone DEF Filling
<1>12. ASSUME NEW j \in Jobs, NEW n \in Names, PruneTakesManifest(j, n) PROVE LoadInv'
  <2>1. UNCHANGED <<runtime, jobs>> /\ \A m \in Names : dumps'[m].files = dumps[m].files
    BY <1>12, <1>b DEF PruneTakesManifest, MemTypeOK, Dump
  <2> QED
    BY <2>1, <1>d, <1>f, LoadsAlone DEF Filling
<1>13. ASSUME NEW j \in Jobs, NEW n \in Names, PruneTakesDirectory(j, n) PROVE LoadInv'
  <2>1. runtime' = runtime /\ \A m \in Names : dumps'[m].files = dumps[m].files
    BY <1>13, <1>b DEF PruneTakesDirectory, MemTypeOK, Dump
  <2>2. /\ jobs'[j].at \in {"idle", "prune"}
        /\ \A i \in Jobs \ {j} : jobs'[i] = jobs[i]
    BY <1>13, <1>a DEF PruneTakesDirectory, MemTypeOK, Job
  <2> QED
    BY <2>1, <2>2, <1>d, <1>f, LoadsAlone DEF Filling
<1>14. ASSUME NEW j \in Jobs, NEW n \in Names, NEW f \in MemFiles, PruneTakesFile(j, n, f)
       PROVE  LoadInv'
  <2>1. /\ UNCHANGED <<runtime, jobs>>
        /\ \A m \in Names, g \in MemFiles : dumps'[m].files[g] \in {dumps[m].files[g], Missing}
    BY <1>14, <1>b DEF PruneTakesFile, MemTypeOK, Dump
  <2> QED
    BY <2>1, <1>d, <1>f, LoadsAlone DEF Filling
<1>15. ASSUME NEW f \in MemFiles, NEW content \in ContentsOf[f] \cup {Missing}, AgentWrites(f, content)
       PROVE  LoadInv'
  <2>1. \A i \in Jobs : /\ jobs'[i].at = jobs[i].at /\ jobs'[i].name = jobs[i].name
                        /\ jobs'[i].sums = jobs[i].sums /\ jobs'[i].names = jobs[i].names
                        /\ ~jobs'[i].alone
    BY <1>15, <1>a DEF AgentWrites, Job
  <2>2. dumps' = dumps
    BY <1>15 DEF AgentWrites
  <2>3. \A i \in Jobs : Loading(i)' => Loading(i) /\ ReadsSigned(i)'
    BY <2>1, <2>2 DEF LoadInv, ReadsSigned, Loading, Filling, Listed
  <2> QED
    BY <2>1, <2>3 DEF LoadInv
<1>16. CASE UNCHANGED memVars
  BY <1>16, <1>f, LoadsAlone DEF memVars, Filling
<1> QED
  BY <1>1, <1>2, <1>3, <1>4, <1>5, <1>6, <1>7, <1>8, <1>9, <1>10, <1>11, <1>12, <1>13, <1>14,
     <1>15, <1>16 DEF MemNext

(* loadMemory: a load during which nobody else wrote the runtime ends with    *)
(* what the manifest says, and after --wipe with nothing else, although it    *)
(* verifies no checksum and other commands dump, prune and fail meanwhile.    *)
THEOREM LoadsRestoreTheDump == MemSpec => []LoadRestoresDump
<1> DEFINE Inv == MemTypeOK /\ NamesWereGiven /\ DumpInv /\ LoadInv
<1>1. MemInit => Inv
  <2>1. MemInit => \A j \in Jobs : ~Loading(j)
    BY DEF MemInit, Waiting, Loading
  <2> QED
    BY <2>1, MemInitTypes DEF LoadInv
<1>2. Inv /\ [MemNext]_memVars => Inv'
  BY MemTypesStep, DumpInvStep, LoadInvStep DEF DumpInv
<1>3. Inv => LoadRestoresDump
  <2> SUFFICES ASSUME Inv, NEW j \in Jobs, Restored(j), jobs[j].alone, NEW f \in MemFiles
               PROVE  IF f \in jobs[j].names THEN runtime[f] = jobs[j].sums[f]
                      ELSE jobs[j].wipes => runtime[f] = Missing
    BY DEF LoadRestoresDump
  <2>1. RestoredSoFar(j) /\ jobs[j].todo = {}
    BY DEF LoadInv, Restored, Doing, Loading
  <2> QED
    BY <2>1 DEF RestoredSoFar
<1> QED
  BY <1>1, <1>2, <1>3, PTL DEF MemSpec

-----------------------------------------------------------------------------
(* The session cache.  CliInv: a product is whole or being written from    *)
(* when its bank opened it; while no clear and no bank overlapped, what a  *)
(* bank has read of the index, and the index, list products that are       *)
(* there.  EntriesBut, by which a bank lists its product, is a recursive   *)
(* function: that its last value keeps every other entry is shown by the   *)
(* least index at which it would not.                                      *)

(* ------------------------------------------------------------------------ *)
(* Entries of an index without those of an id.                               *)

(* but is the first n + 1 values of the recursion by which EntriesBut goes.   *)
Skims(but, entries, id, n) ==
  but = [i \in 0 .. n |->
           IF i = 0 THEN <<>>
           ELSE IF entries[i] = id THEN but[i - 1] ELSE Append(but[i - 1], entries[i])]

LEMMA SkimExists ==
  ASSUME NEW entries, NEW id, NEW n \in Nat
  PROVE  \E but : Skims(but, entries, id, n)
<1> DEFINE Bad == {k \in Nat : ~(\E but : Skims(but, entries, id, k))}
<1> SUFFICES ASSUME Bad # {} PROVE FALSE
  OBVIOUS
<1>1. PICK m \in Bad : \A k \in Bad : ~(k < m)
  <2>1. PICK m \in Bad : \A k \in Bad : ~(<<k, m>> \in OpToRel(<, Nat))
    <3> HIDE DEF Bad
    <3>1. Bad \subseteq Nat
      BY DEF Bad
    <3> QED
      BY <3>1, NatLessThanWellFounded, WFMin
  <2>2. \A k \in Bad : <<k, m>> \in OpToRel(<, Nat) <=> k < m
    BY DEF OpToRel
  <2> QED
    BY <2>1, <2>2
<1>2. CASE m = 0
  <2> DEFINE but == [i \in 0 .. 0 |-> <<>>]
  <2>1. Skims(but, entries, id, 0)
    BY DEF Skims
  <2> QED
    BY <1>1, <1>2, <2>1
<1>3. CASE m # 0
  <2>1. m - 1 \in Nat /\ m - 1 < m
    BY <1>3
  <2>2. PICK old : Skims(old, entries, id, m - 1)
    BY <1>1, <2>1
  <2> DEFINE last == IF entries[m] = id THEN old[m - 1] ELSE Append(old[m - 1], entries[m])
             but == [i \in 0 .. m |-> IF i = m THEN last ELSE old[i]]
  <2>3. ASSUME NEW i \in 0 .. m
        PROVE  but[i] = IF i = 0 THEN <<>>
                        ELSE IF entries[i] = id THEN but[i - 1] ELSE Append(but[i - 1], entries[i])
    <3>1. CASE i = m
      <4>1. but[i] = last /\ but[i - 1] = old[m - 1]
        BY <2>1, <3>1
      <4> QED
        BY <1>3, <3>1, <4>1
    <3>2. CASE i # m
      <4>1. i \in 0 .. (m - 1) /\ but[i] = old[i]
        BY <3>2
      <4>2. i # 0 => but[i - 1] = old[i - 1]
        BY <3>2
      <4>3. old[i] = IF i = 0 THEN <<>>
                     ELSE IF entries[i] = id THEN old[i - 1] ELSE Append(old[i - 1], entries[i])
        BY <2>2, <4>1 DEF Skims
      <4> HIDE DEF but
      <4> QED
        BY <4>1, <4>2, <4>3
    <3> QED
      BY <3>1, <3>2
  <2>4. Skims(but, entries, id, m)
    <3>1. but = [i \in 0 .. m |-> but[i]]
      OBVIOUS
    <3> HIDE DEF but
    <3> QED
      BY <2>3, <3>1 DEF Skims
  <2> HIDE DEF but
  <2> QED
    BY <1>1, <2>4
<1> QED
  BY <1>2, <1>3

(* A sequence of entries of the index that was given. *)
LEMMA EntriesButKeeps ==
  ASSUME NEW S, NEW entries \in Seq(S), NEW id
  PROVE  EntriesBut(entries, id) \in Seq(S)
<1> DEFINE but == CHOOSE b : Skims(b, entries, id, Len(entries))
           Bad == {k \in 0 .. Len(entries) : but[k] \notin Seq(S)}
<1>1. Len(entries) \in Nat
  OBVIOUS
<1>2. Skims(but, entries, id, Len(entries))
  BY <1>1, SkimExists
<1>3. EntriesBut(entries, id) = but[Len(entries)]
  BY DEF EntriesBut, Skims
<1> HIDE DEF but
<1>4. \A i \in 0 .. Len(entries) :
        but[i] = IF i = 0 THEN <<>>
                 ELSE IF entries[i] = id THEN but[i - 1] ELSE Append(but[i - 1], entries[i])
  BY <1>2 DEF Skims
<1>5. Bad = {}
  <2> SUFFICES ASSUME Bad # {} PROVE FALSE
    OBVIOUS
  <2>1. PICK m \in Bad : \A k \in Bad : ~(<<k, m>> \in OpToRel(<, Nat))
    <3>1. Bad \subseteq Nat
      BY <1>1
    <3> HIDE DEF Bad
    <3> QED
      BY <3>1, NatLessThanWellFounded, WFMin
  <2>2. \A k \in Bad : ~(k < m)
    <3>1. Bad \subseteq Nat
      BY <1>1
    <3> HIDE DEF Bad
    <3>2. \A k \in Bad : <<k, m>> \in OpToRel(<, Nat) <=> k < m
      BY <3>1 DEF OpToRel
    <3> QED
      BY <2>1, <3>2
  <2>3. m # 0
    <3>1. <<>> \in Seq(S)
      BY EmptySeq
    <3> QED
      BY <1>4, <3>1
  <2>4. m - 1 \in 0 .. Len(entries) /\ m - 1 < m /\ m \in 1 .. Len(entries)
    BY <1>1, <2>3
  <2>5. but[m - 1] \in Seq(S)
    BY <2>2, <2>4
  <2>6. entries[m] \in S
    BY <2>4
  <2>7. Append(but[m - 1], entries[m]) \in Seq(S)
    BY <2>5, <2>6, AppendProperties
  <2>8. but[m] \in Seq(S)
    BY <1>4, <2>3, <2>4, <2>5, <2>7
  <2> QED
    BY <2>8
<1> QED
  BY <1>1, <1>3, <1>5
(* ------------------------------------------------------------------------ *)
(* Types.                                                                     *)

Stages == {"idle", "product", "writeProduct", "readIndex", "index", "writeIndex",
           "remove", "emptyIndex"}

CommandState == [at : Stages, id : Ids \cup {NoEntry}, named : BOOLEAN, clean : BOOLEAN,
                 entries : Seq(Ids), doomed : SUBSET FileNames]

CliTypes ==
  /\ cards \subseteq Ids
  /\ product \in [Ids -> {"none", "torn", "whole"}]
  /\ index \in Seq(Ids) /\ Len(index) <= MaxListed
  /\ banked \subseteq Ids
  /\ disturbed \in BOOLEAN
  /\ commands \in [Commands -> CommandState]
  /\ \A c \in Commands : Banking(c) => commands[c].id \in Ids

LEMMA NoEntries == <<>> \in Seq(Ids) /\ Len(<<>>) = 0 /\ Len(<<>>) <= MaxListed
<1>1. <<>> \in Seq(Ids) /\ Len(<<>>) = 0
  BY EmptySeq
<1>2. 0 <= MaxListed
  BY ListedAssumption
<1> QED
  BY <1>1, <1>2

LEMMA RestingState == Resting \in CommandState
<1>1. <<>> \in Seq(Ids)
  BY NoEntries
<1> QED
  BY <1>1 DEF Resting, CommandState, Stages

(* A listing has at most MaxListed entries, each the one banked or one read.  *)
LEMMA ListingFits ==
  ASSUME NEW c \in Commands, NEW S, commands[c].id \in S, commands[c].entries \in Seq(S)
  PROVE  Listing(c) \in Seq(S) /\ Len(Listing(c)) <= MaxListed
<1> DEFINE others == EntriesBut(commands[c].entries, commands[c].id)
           next == <<commands[c].id>> \o others
           n == IF Len(next) > MaxListed THEN MaxListed ELSE Len(next)
<1>1. others \in Seq(S)
  BY EntriesButKeeps
<1> HIDE DEF others
<1>2. next \in Seq(S)
  BY <1>1
<1>3. Listing(c) = SubSeq(next, 1, n)
  BY DEF Listing, others
<1>4. Len(next) \in Nat /\ MaxListed \in Nat
  BY <1>2, ListedAssumption
<1> HIDE DEF next
<1>5. n \in Nat /\ n <= MaxListed /\ n <= Len(next)
  BY <1>4
<1> HIDE DEF n
<1>6. \A i \in 1 .. n : next[i] \in S
  BY <1>2, <1>4, <1>5, ElementOfSeq
<1>7. /\ SubSeq(next, 1, n) \in Seq(S)
      /\ Len(SubSeq(next, 1, n)) = IF 1 <= n THEN n - 1 + 1 ELSE 0
  BY <1>5, <1>6, SubSeqProperties
<1> QED
  BY <1>3, <1>5, <1>7

LEMMA SetsOfEntries ==
  ASSUME NEW S
  PROVE  \A s \in Seq(S) : ToSet(s) \subseteq S
<1> SUFFICES ASSUME NEW s \in Seq(S) PROVE ToSet(s) \subseteq S
  OBVIOUS
<1>1. DOMAIN s = 1 .. Len(s)
  BY LenProperties
<1> QED
  BY <1>1, ElementOfSeq DEF ToSet

LEMMA IndexAfterTypes ==
  ASSUME CliTypes, NEW c \in Commands, NEW entries \in Seq(Ids), Len(entries) <= MaxListed,
         NEW i \in IndexAfter(c, entries)
  PROVE  i \in Seq(Ids) /\ Len(i) <= MaxListed
<1>1. i \in {index, entries, <<>>}
  BY DEF IndexAfter
<1> QED
  BY <1>1, NoEntries DEF CliTypes

(* A step that changes one command. *)
LEMMA OneCommand ==
  ASSUME CliTypes, NEW c \in Commands, NEW r \in CommandState, r.id \in Ids \/ r.at \in {"idle", "remove", "emptyIndex"},
         commands' = [commands EXCEPT ![c] = r]
  PROVE  /\ commands' \in [Commands -> CommandState]
         /\ commands'[c] = r /\ \A d \in Commands \ {c} : commands'[d] = commands[d]
         /\ \A d \in Commands : Banking(d)' => commands'[d].id \in Ids
<1>1. /\ commands' \in [Commands -> CommandState]
      /\ commands'[c] = r /\ \A d \in Commands \ {c} : commands'[d] = commands[d]
  BY DEF CliTypes
<1>2. ASSUME NEW d \in Commands, Banking(d)' PROVE commands'[d].id \in Ids
  <2>1. CASE d = c
    BY <1>1, <1>2, <2>1 DEF Banking
  <2>2. CASE d # c
    BY <1>1, <1>2, <2>2 DEF Banking, CliTypes
  <2> QED
    BY <2>1, <2>2
<1> QED
  BY <1>1, <1>2
LEMMA StateOf ==
  ASSUME CliTypes, NEW c \in Commands
  PROVE  commands[c] \in CommandState
BY DEF CliTypes

LEMMA TypesStep ==
  ASSUME CliTypes, [CliNext]_cliVars
  PROVE  CliTypes'
<1>1. ASSUME NEW c \in Commands, NEW id \in Ids, Bank(c, id) PROVE CliTypes'
  <2> DEFINE r == [commands[c] EXCEPT !.at = "product", !.id = id,
                                      !.clean = \A d \in Commands : ~Clearing(d)]
  <2>1. r \in CommandState /\ r.id \in Ids
    BY StateOf DEF CommandState, Stages
  <2>2. commands' = [commands EXCEPT ![c] = r]
    BY <1>1 DEF Bank
  <2> HIDE DEF r
  <2>3. /\ commands' \in [Commands -> CommandState]
        /\ \A d \in Commands : Banking(d)' => commands'[d].id \in Ids
    BY <2>1, <2>2, OneCommand
  <2>4. disturbed' \in BOOLEAN
    BY <1>1 DEF Bank, CliTypes
  <2> QED
    BY <1>1, <2>3, <2>4 DEF Bank, CliTypes
<1>2. ASSUME NEW c \in Commands, OpenProduct(c) PROVE CliTypes'
  <2> DEFINE r == [commands[c] EXCEPT !.at = "writeProduct", !.named = TRUE]
  <2>1. commands[c].id \in Ids
    BY <1>2 DEF CliTypes, Banking, OpenProduct, At
  <2>2. r \in CommandState /\ r.id \in Ids
    BY <2>1, StateOf DEF CommandState, Stages
  <2>3. commands' = [commands EXCEPT ![c] = r]
    BY <1>2 DEF OpenProduct
  <2> HIDE DEF r
  <2>4. /\ commands' \in [Commands -> CommandState]
        /\ \A d \in Commands : Banking(d)' => commands'[d].id \in Ids
    BY <2>2, <2>3, OneCommand
  <2>5. product' \in [Ids -> {"none", "torn", "whole"}]
    BY <1>2 DEF OpenProduct, CliTypes
  <2> QED
    BY <1>2, <2>4, <2>5 DEF OpenProduct, CliTypes
<1>3. ASSUME NEW c \in Commands, WriteProduct(c) PROVE CliTypes'
  <2> DEFINE r == [commands[c] EXCEPT !.at = "readIndex"]
  <2>1. commands[c].id \in Ids
    BY <1>3 DEF CliTypes, Banking, WriteProduct, At
  <2>2. r \in CommandState /\ r.id \in Ids
    BY <2>1, StateOf DEF CommandState, Stages
  <2>3. commands' = [commands EXCEPT ![c] = r]
    BY <1>3 DEF WriteProduct
  <2> HIDE DEF r
  <2>4. /\ commands' \in [Commands -> CommandState]
        /\ \A d \in Commands : Banking(d)' => commands'[d].id \in Ids
    BY <2>2, <2>3, OneCommand
  <2>5. product' \in [Ids -> {"none", "torn", "whole"}]
    BY <1>3 DEF WriteProduct, CliTypes
  <2> QED
    BY <1>3, <2>4, <2>5 DEF WriteProduct, CliTypes
<1>4. ASSUME NEW c \in Commands, ReadIndex(c) PROVE CliTypes'
  <2> DEFINE r == [commands[c] EXCEPT !.at = "index", !.entries = index]
  <2>1. commands[c].id \in Ids
    BY <1>4 DEF CliTypes, Banking, ReadIndex, At
  <2>2. r \in CommandState /\ r.id \in Ids
    BY <2>1, StateOf DEF CommandState, Stages, CliTypes
  <2>3. commands' = [commands EXCEPT ![c] = r]
    BY <1>4 DEF ReadIndex
  <2> HIDE DEF r
  <2>4. /\ commands' \in [Commands -> CommandState]
        /\ \A d \in Commands : Banking(d)' => commands'[d].id \in Ids
    BY <2>2, <2>3, OneCommand
  <2> QED
    BY <1>4, <2>4 DEF ReadIndex, CliTypes
<1>5. ASSUME NEW c \in Commands, OpenIndex(c) PROVE CliTypes'
  <2> DEFINE r == [commands[c] EXCEPT !.at = "writeIndex", !.named = TRUE]
  <2>1. commands[c].id \in Ids
    BY <1>5 DEF CliTypes, Banking, OpenIndex, At
  <2>2. r \in CommandState /\ r.id \in Ids
    BY <2>1, StateOf DEF CommandState, Stages
  <2>3. commands' = [commands EXCEPT ![c] = r]
    BY <1>5 DEF OpenIndex
  <2> HIDE DEF r
  <2>4. /\ commands' \in [Commands -> CommandState]
        /\ \A d \in Commands : Banking(d)' => commands'[d].id \in Ids
    BY <2>2, <2>3, OneCommand
  <2>5. index' \in Seq(Ids) /\ Len(index') <= MaxListed
    BY <1>5, NoEntries DEF OpenIndex
  <2> QED
    BY <1>5, <2>4, <2>5 DEF OpenIndex, CliTypes
<1>6. ASSUME NEW c \in Commands, WriteIndex(c) PROVE CliTypes'
  <2>1. commands[c].id \in Ids /\ commands[c].entries \in Seq(Ids)
    BY <1>6, StateOf DEF CliTypes, Banking, WriteIndex, At, CommandState
  <2>2. commands' = [commands EXCEPT ![c] = Resting] /\ Resting.at = "idle"
    BY <1>6 DEF WriteIndex, Resting
  <2>3. /\ commands' \in [Commands -> CommandState]
        /\ \A d \in Commands : Banking(d)' => commands'[d].id \in Ids
    BY <2>2, RestingState, OneCommand
  <2>4. Listing(c) \in Seq(Ids) /\ Len(Listing(c)) <= MaxListed
    BY <2>1, ListingFits
  <2>5. index' \in Seq(Ids) /\ Len(index') <= MaxListed
    BY <1>6, <2>4, IndexAfterTypes DEF WriteIndex
  <2> QED
    BY <1>6, <2>1, <2>3, <2>5 DEF WriteIndex, CliTypes
<1>7. ASSUME NEW c \in Commands, Clear(c) PROVE CliTypes'
  <2> DEFINE doomed == cards \X {"card"} \cup {IndexFile}
                         \cup {id \in Ids : product[id] # "none"} \X {"product"}
             r == [commands[c] EXCEPT !.at = "remove", !.entries = index, !.doomed = doomed]
  <2>1. doomed \in SUBSET FileNames
    BY DEF FileNames, CliTypes
  <2>2. commands' = [d \in Commands |-> IF d = c THEN r ELSE [commands[d] EXCEPT !.clean = FALSE]]
    BY <1>7 DEF Clear
  <2> HIDE DEF doomed
  <2>3. r \in CommandState /\ r.at = "remove"
    BY <2>1, StateOf DEF CommandState, Stages, CliTypes
  <2>4. \A d \in Commands : /\ [commands[d] EXCEPT !.clean = FALSE] \in CommandState
                            /\ [commands[d] EXCEPT !.clean = FALSE].at = commands[d].at
                            /\ [commands[d] EXCEPT !.clean = FALSE].id = commands[d].id
    BY StateOf DEF CommandState
  <2> HIDE DEF r
  <2>5. commands' \in [Commands -> CommandState]
    BY <2>2, <2>3, <2>4
  <2>6. \A d \in Commands : Banking(d)' => commands'[d].id \in Ids
    BY <2>2, <2>3, <2>4 DEF Banking, CliTypes
  <2>7. disturbed' \in BOOLEAN /\ banked' = {}
    BY <1>7 DEF Clear, CliTypes
  <2> QED
    BY <1>7, <2>5, <2>6, <2>7 DEF Clear, CliTypes
<1>8. ASSUME NEW c \in Commands, OpenIndexToEmpty(c) PROVE CliTypes'
  <2> DEFINE r == [commands[c] EXCEPT !.at = "emptyIndex", !.named = TRUE]
  <2>1. r \in CommandState /\ r.at = "emptyIndex"
    BY StateOf DEF CommandState, Stages
  <2>2. commands' = [commands EXCEPT ![c] = r]
    BY <1>8 DEF OpenIndexToEmpty
  <2> HIDE DEF r
  <2>3. /\ commands' \in [Commands -> CommandState]
        /\ \A d \in Commands : Banking(d)' => commands'[d].id \in Ids
    BY <2>1, <2>2, OneCommand
  <2>4. index' \in Seq(Ids) /\ Len(index') <= MaxListed
    BY <1>8, NoEntries DEF OpenIndexToEmpty
  <2> QED
    BY <1>8, <2>3, <2>4 DEF OpenIndexToEmpty, CliTypes
<1>9. ASSUME NEW c \in Commands, WriteEmptyIndex(c) PROVE CliTypes'
  <2>1. commands' = [commands EXCEPT ![c] = Resting] /\ Resting.at = "idle"
    BY <1>9 DEF WriteEmptyIndex, Resting
  <2>2. /\ commands' \in [Commands -> CommandState]
        /\ \A d \in Commands : Banking(d)' => commands'[d].id \in Ids
    BY <2>1, RestingState, OneCommand
  <2>3. index' \in Seq(Ids) /\ Len(index') <= MaxListed
    BY <1>9, NoEntries, IndexAfterTypes DEF WriteEmptyIndex
  <2> QED
    BY <1>9, <2>2, <2>3 DEF WriteEmptyIndex, CliTypes
<1>10. ASSUME NEW c \in Commands, Crash(c) PROVE CliTypes'
  <2> DEFINE cut == IF At(c, "writeProduct") THEN {commands[c].id} ELSE {}
             other(d) == [commands[d] EXCEPT !.clean = commands[d].clean /\ commands[d].id \notin cut]
  <2>1. commands' = [d \in Commands |-> IF d = c THEN Resting ELSE other(d)]
        /\ banked' = banked \ cut
    BY <1>10 DEF Crash
  <2>2. \A d \in Commands : /\ other(d) \in CommandState /\ other(d).at = commands[d].at
                            /\ other(d).id = commands[d].id
    BY StateOf DEF CommandState
  <2> HIDE DEF other, cut
  <2>3. commands' \in [Commands -> CommandState]
    BY <2>1, <2>2, RestingState
  <2>4. \A d \in Commands : Banking(d)' => commands'[d].id \in Ids
    BY <2>1, <2>2 DEF Banking, CliTypes, Resting
  <2>5. disturbed' \in BOOLEAN
    BY <1>10 DEF Crash, CliTypes
  <2> QED
    BY <1>10, <2>1, <2>3, <2>4, <2>5 DEF Crash, CliTypes
<1>11. ASSUME NEW c \in Commands, NEW name \in FileNames, RemoveFile(c, name) PROVE CliTypes'
  <2>1. PICK writing \in SUBSET Commands :
          commands' = [d \in Commands |->
            [commands[d] EXCEPT !.doomed = IF d = c THEN @ \ {name} ELSE @,
                                !.named = @ /\ d \notin writing]]
    <3> DEFINE W == {d \in Commands :
                    IF name = IndexFile THEN At(d, "writeIndex") \/ At(d, "emptyIndex")
                    ELSE At(d, "writeProduct") /\ name = <<commands[d].id, "product">>}
    <3>1. W \in SUBSET Commands
      OBVIOUS
    <3> QED
      BY <1>11, <3>1 DEF RemoveFile
  <2>2. ASSUME NEW d \in Commands
        PROVE  commands'[d] \in CommandState /\ commands'[d].at = commands[d].at
               /\ commands'[d].id = commands[d].id
    BY <2>1, StateOf DEF CommandState
  <2>3. commands' \in [Commands -> CommandState]
    BY <2>1, <2>2
  <2>4. \A d \in Commands : Banking(d)' => commands'[d].id \in Ids
    BY <2>2 DEF Banking, CliTypes
  <2>5. product' \in [Ids -> {"none", "torn", "whole"}]
    BY <1>11 DEF RemoveFile, CliTypes
  <2>6. index' \in Seq(Ids) /\ Len(index') <= MaxListed
    BY <1>11, NoEntries DEF RemoveFile, CliTypes
  <2>7. cards' \subseteq Ids
    BY <1>11 DEF RemoveFile, CliTypes
  <2> QED
    BY <1>11, <2>3, <2>4, <2>5, <2>6, <2>7 DEF RemoveFile, CliTypes
<1>12. CASE UNCHANGED cliVars
  BY <1>12 DEF cliVars, CliTypes, Banking
<1> QED
  BY <1>1, <1>2, <1>3, <1>4, <1>5, <1>6, <1>7, <1>8, <1>9, <1>10, <1>11, <1>12 DEF CliNext
(* ------------------------------------------------------------------------ *)
(* What was banked.                                                           *)

(* A product that is whole, or being written to the file of its name.         *)
Writes(command, id) == command.at = "writeProduct" /\ command.id = id /\ command.named
FoundIn(products, all, id) ==
  products[id] = "whole" \/ \E c \in Commands : Writes(all[c], id)
Found(id) == FoundIn(product, commands, id)
Later(id) == FoundIn(product', commands', id)

(* A bank no clear has overlapped has its product from when it opened it, and *)
(* while a clear runs there is neither such a bank nor anything banked.       *)
BankedInv ==
  /\ \A id \in banked : Found(id)
  /\ \A c \in Commands : commands[c].clean =>
       /\ Banking(c)
       /\ At(c, "writeProduct") => commands[c].named
       /\ commands[c].at \in {"readIndex", "index", "writeIndex"} => Found(commands[c].id)
  /\ (\E c \in Commands : Clearing(c)) => banked = {} /\ \A c \in Commands : ~commands[c].clean

(* Banks move on and products stay found.                                     *)
LEMMA BankMoves ==
  ASSUME CliTypes, BankedInv, NEW c \in Commands, NEW r \in CommandState,
         commands' = [commands EXCEPT ![c] = r],
         \A id \in Ids : Found(id) => Later(id),
         \A id \in banked' : id \in banked \/ Later(id),
         r.clean => /\ r.at \in {"product", "writeProduct", "readIndex", "index", "writeIndex"}
                    /\ r.at = "writeProduct" => r.named
                    /\ r.at \in {"readIndex", "index", "writeIndex"} => r.id \in Ids /\ Later(r.id),
         Clearing(c)' => Clearing(c),
         r.clean => commands[c].clean \/ \A d \in Commands : ~Clearing(d),
         banked' # banked => \A d \in Commands : ~Clearing(d)
  PROVE  BankedInv'
<1>1. commands'[c] = r /\ \A d \in Commands \ {c} : commands'[d] = commands[d]
  BY DEF CliTypes
<1>2. \A id \in banked' : Later(id)
  BY DEF BankedInv, CliTypes
<1>3. ASSUME NEW d \in Commands, commands'[d].clean
      PROVE  /\ Banking(d)'
             /\ At(d, "writeProduct")' => commands'[d].named
             /\ commands'[d].at \in {"readIndex", "index", "writeIndex"} => Later(commands'[d].id)
  <2>1. CASE d = c
    BY <1>1, <1>3, <2>1 DEF Banking, At
  <2>2. CASE d # c
    <3>1. commands'[d] = commands[d]
      BY <1>1, <2>2
    <3>2. /\ Banking(d) /\ commands[d].id \in Ids
          /\ At(d, "writeProduct") => commands[d].named
          /\ commands[d].at \in {"readIndex", "index", "writeIndex"} => Found(commands[d].id)
      BY <1>3, <3>1 DEF BankedInv, CliTypes
    <3>3. Found(commands[d].id) => Later(commands'[d].id)
      <4> DEFINE id == commands[d].id
      <4>1. Found(id) => Later(id)
        BY <3>2
      <4> QED
        BY <3>1, <4>1 DEF Found, Later, FoundIn, Writes, At
    <3> QED
      BY <3>1, <3>2, <3>3 DEF Banking, At
  <2> QED
    BY <2>1, <2>2
<1>4. ASSUME NEW d \in Commands, Clearing(d)'
      PROVE  banked' = {} /\ \A e \in Commands : ~commands'[e].clean
  <2>1. Clearing(d)
    BY <1>1, <1>4 DEF Clearing
  <2>2. banked = {} /\ \A e \in Commands : ~commands[e].clean
    BY <2>1 DEF BankedInv
  <2> QED
    BY <1>1, <2>1, <2>2
<1> QED
  BY <1>2, <1>3, <1>4 DEF BankedInv, Found, Later

(* Nothing is clean and nothing banked while a clear runs. *)
LEMMA NothingClean ==
  ASSUME banked' = {}, \A c \in Commands : ~commands'[c].clean
  PROVE  BankedInv'
BY DEF BankedInv

LEMMA BankedStep ==
  ASSUME CliTypes, BankedInv, [CliNext]_cliVars
  PROVE  BankedInv'
<1>1. ASSUME NEW c \in Commands, NEW id \in Ids, Bank(c, id) PROVE BankedInv'
  <2> DEFINE r == [commands[c] EXCEPT !.at = "product", !.id = id,
                                      !.clean = \A d \in Commands : ~Clearing(d)]
  <2>1. r \in CommandState /\ r.at = "product" /\ (r.clean => \A d \in Commands : ~Clearing(d))
    BY StateOf DEF CommandState, Stages
  <2>2. commands' = [commands EXCEPT ![c] = r] /\ UNCHANGED <<product, banked>>
    BY <1>1 DEF Bank
  <2> HIDE DEF r
  <2>3. commands'[c] = r /\ \A d \in Commands \ {c} : commands'[d] = commands[d]
    BY <2>2 DEF CliTypes
  <2>4. \A i \in Ids : Found(i) => Later(i)
    BY <1>1, <2>2, <2>3 DEF Bank, Found, Later, FoundIn, Writes, At
  <2>5. ~Clearing(c)'
    BY <2>1, <2>3 DEF Clearing
  <2> QED
    BY <2>1, <2>2, <2>4, <2>5, BankMoves
<1>2. ASSUME NEW c \in Commands, OpenProduct(c) PROVE BankedInv'
  <2> DEFINE r == [commands[c] EXCEPT !.at = "writeProduct", !.named = TRUE]
  <2>1. /\ r \in CommandState /\ r.at = "writeProduct" /\ r.named /\ r.clean = commands[c].clean
        /\ r.id = commands[c].id
    BY StateOf DEF CommandState, Stages
  <2>2. /\ commands' = [commands EXCEPT ![c] = r] /\ UNCHANGED banked /\ At(c, "product")
        /\ product' = [product EXCEPT ![commands[c].id] = "torn"]
    BY <1>2 DEF OpenProduct
  <2> HIDE DEF r
  <2>3. commands'[c] = r /\ \A d \in Commands \ {c} : commands'[d] = commands[d]
    BY <2>2 DEF CliTypes
  <2>4. ASSUME NEW i \in Ids, Found(i) PROVE Later(i)
    <3>1. CASE i = commands[c].id
      BY <2>1, <2>3, <3>1 DEF Found, Later, FoundIn, Writes, At
    <3>2. CASE i # commands[c].id
      <4>1. product'[i] = product[i]
        BY <2>2, <3>2 DEF CliTypes
      <4> QED
        BY <2>2, <2>3, <2>4, <4>1 DEF Found, Later, FoundIn, Writes, At
    <3> QED
      BY <3>1, <3>2
  <2>5. ~Clearing(c)'
    BY <2>1, <2>3 DEF Clearing
  <2> QED
    BY <2>1, <2>2, <2>4, <2>5, BankMoves
<1>3. ASSUME NEW c \in Commands, WriteProduct(c) PROVE BankedInv'
  <2> DEFINE r == [commands[c] EXCEPT !.at = "readIndex"]
             id == commands[c].id
  <2>1. /\ r \in CommandState /\ r.at = "readIndex" /\ r.clean = commands[c].clean /\ r.id = id
    BY StateOf DEF CommandState, Stages
  <2>2. /\ commands' = [commands EXCEPT ![c] = r] /\ UNCHANGED banked /\ At(c, "writeProduct")
        /\ commands[c].named => product' = [product EXCEPT ![id] = "whole"]
        /\ ~commands[c].named => product' = product
    BY <1>3 DEF WriteProduct
  <2>3. id \in Ids
    BY <2>2 DEF CliTypes, Banking, At
  <2>4. commands'[c] = r /\ \A d \in Commands \ {c} : commands'[d] = commands[d]
    BY <2>2 DEF CliTypes
  <2> HIDE DEF r
  <2>5. commands[c].named => product'[id] = "whole" /\ \A i \in Ids \ {id} : product'[i] = product[i]
    BY <2>2, <2>3 DEF CliTypes
  <2>6. ASSUME NEW i \in Ids, Found(i) PROVE Later(i)
    <3>1. CASE product[i] = "whole"
      BY <2>2, <2>5, <3>1 DEF Found, Later, FoundIn
    <3>2. ASSUME NEW d \in Commands, Writes(commands[d], i) PROVE Later(i)
      <4>1. CASE d = c
        BY <2>5, <3>2, <4>1 DEF Found, Later, FoundIn, Writes
      <4>2. CASE d # c
        BY <2>4, <3>2, <4>2 DEF Found, Later, FoundIn, Writes, At
      <4> QED
        BY <4>1, <4>2
    <3> QED
      BY <2>6, <3>1, <3>2 DEF Found, Later, FoundIn
  <2>7. r.clean => Later(r.id)
    <3>1. r.clean => commands[c].named
      BY <2>1, <2>2 DEF BankedInv
    <3> QED
      BY <2>1, <2>5, <3>1 DEF Found, Later, FoundIn
  <2>8. ~Clearing(c)'
    BY <2>1, <2>4 DEF Clearing
  <2> QED
    BY <2>1, <2>2, <2>3, <2>6, <2>7, <2>8, BankMoves
<1>4. ASSUME NEW c \in Commands, ReadIndex(c) PROVE BankedInv'
  <2> DEFINE r == [commands[c] EXCEPT !.at = "index", !.entries = index]
  <2>1. /\ r \in CommandState /\ r.at = "index" /\ r.clean = commands[c].clean
        /\ r.id = commands[c].id
    BY StateOf DEF CommandState, Stages, CliTypes
  <2>2. commands' = [commands EXCEPT ![c] = r] /\ UNCHANGED <<product, banked>> /\ At(c, "readIndex")
    BY <1>4 DEF ReadIndex
  <2> HIDE DEF r
  <2>3. commands'[c] = r /\ \A d \in Commands \ {c} : commands'[d] = commands[d]
    BY <2>2 DEF CliTypes
  <2>4. \A i \in Ids : Found(i) => Later(i)
    BY <2>2, <2>3 DEF Found, Later, FoundIn, Writes, At
  <2>5. r.clean => r.id \in Ids /\ Later(r.id)
    BY <2>1, <2>2, <2>4 DEF BankedInv, CliTypes, Banking, At
  <2>6. ~Clearing(c)'
    BY <2>1, <2>3 DEF Clearing
  <2> QED
    BY <2>1, <2>2, <2>4, <2>5, <2>6, BankMoves
<1>5. ASSUME NEW c \in Commands, OpenIndex(c) PROVE BankedInv'
  <2> DEFINE r == [commands[c] EXCEPT !.at = "writeIndex", !.named = TRUE]
  <2>1. /\ r \in CommandState /\ r.at = "writeIndex" /\ r.clean = commands[c].clean
        /\ r.id = commands[c].id
    BY StateOf DEF CommandState, Stages
  <2>2. commands' = [commands EXCEPT ![c] = r] /\ UNCHANGED <<product, banked>> /\ At(c, "index")
    BY <1>5 DEF OpenIndex
  <2> HIDE DEF r
  <2>3. commands'[c] = r /\ \A d \in Commands \ {c} : commands'[d] = commands[d]
    BY <2>2 DEF CliTypes
  <2>4. \A i \in Ids : Found(i) => Later(i)
    BY <2>2, <2>3 DEF Found, Later, FoundIn, Writes, At
  <2>5. r.clean => r.id \in Ids /\ Later(r.id)
    BY <2>1, <2>2, <2>4 DEF BankedInv, CliTypes, Banking, At
  <2>6. ~Clearing(c)'
    BY <2>1, <2>3 DEF Clearing
  <2> QED
    BY <2>1, <2>2, <2>4, <2>5, <2>6, BankMoves
<1>6. ASSUME NEW c \in Commands, WriteIndex(c) PROVE BankedInv'
  <2>1. /\ commands' = [commands EXCEPT ![c] = Resting] /\ UNCHANGED product /\ At(c, "writeIndex")
        /\ banked' = IF commands[c].clean THEN banked \cup {commands[c].id} ELSE banked
    BY <1>6 DEF WriteIndex
  <2>2. commands'[c] = Resting /\ \A d \in Commands \ {c} : commands'[d] = commands[d]
    BY <2>1 DEF CliTypes
  <2>3. \A i \in Ids : Found(i) => Later(i)
    BY <2>1, <2>2 DEF Found, Later, FoundIn, Writes, At
  <2>4. commands[c].clean => Found(commands[c].id) /\ commands[c].id \in Ids
    BY <2>1 DEF BankedInv, CliTypes, Banking, At
  <2>5. \A i \in banked' : i \in banked \/ Later(i)
    BY <2>1, <2>3, <2>4
  <2>6. banked' # banked => \A d \in Commands : ~Clearing(d)
    BY <2>1 DEF BankedInv
  <2>7. ~Clearing(c)' /\ ~Resting.clean
    BY <2>2 DEF Clearing, Resting
  <2> QED
    BY <2>1, <2>3, <2>5, <2>6, <2>7, RestingState, BankMoves
<1>7. ASSUME NEW c \in Commands, Clear(c) PROVE BankedInv'
  <2>1. ~commands[c].clean
    BY <1>7 DEF Clear, BankedInv, Banking, At
  <2>2. banked' = {} /\ commands' = [d \in Commands |->
          IF d = c
          THEN [commands[c] EXCEPT !.at = "remove", !.entries = index,
                  !.doomed = cards \X {"card"} \cup {IndexFile}
                             \cup {id \in Ids : product[id] # "none"} \X {"product"}]
          ELSE [commands[d] EXCEPT !.clean = FALSE]]
    BY <1>7 DEF Clear
  <2>3. \A d \in Commands : ~commands'[d].clean
    BY <2>1, <2>2, StateOf DEF CommandState
  <2> QED
    BY <2>2, <2>3, NothingClean
<1>8. ASSUME NEW c \in Commands, OpenIndexToEmpty(c) PROVE BankedInv'
  <2>1. banked = {} /\ \A d \in Commands : ~commands[d].clean
    BY <1>8 DEF OpenIndexToEmpty, At, Clearing, BankedInv
  <2>2. \A d \in Commands : commands'[d].clean = commands[d].clean
    BY <1>8, StateOf DEF OpenIndexToEmpty, CliTypes, CommandState
  <2>3. banked' = banked
    BY <1>8 DEF OpenIndexToEmpty
  <2> QED
    BY <2>1, <2>2, <2>3, NothingClean
<1>9. ASSUME NEW c \in Commands, WriteEmptyIndex(c) PROVE BankedInv'
  <2>1. banked = {} /\ \A d \in Commands : ~commands[d].clean
    BY <1>9 DEF WriteEmptyIndex, At, Clearing, BankedInv
  <2>2. \A d \in Commands : ~commands'[d].clean
    BY <1>9, <2>1 DEF WriteEmptyIndex, CliTypes, Resting
  <2>3. banked' = banked
    BY <1>9 DEF WriteEmptyIndex
  <2> QED
    BY <2>1, <2>2, <2>3, NothingClean
<1>10. ASSUME NEW c \in Commands, Crash(c) PROVE BankedInv'
  <2> DEFINE cut == IF At(c, "writeProduct") THEN {commands[c].id} ELSE {}
             other(d) == [commands[d] EXCEPT !.clean = commands[d].clean /\ commands[d].id \notin cut]
  <2>1. /\ commands' = [d \in Commands |-> IF d = c THEN Resting ELSE other(d)]
        /\ banked' = banked \ cut /\ UNCHANGED product
    BY <1>10 DEF Crash
  <2>2. \A d \in Commands :
          /\ other(d).at = commands[d].at /\ other(d).id = commands[d].id
          /\ other(d).named = commands[d].named
          /\ other(d).clean <=> commands[d].clean /\ commands[d].id \notin cut
    BY StateOf DEF CommandState
  <2>3. \A id : Writes(commands[c], id) => id \in cut
    BY DEF Writes, At
  <2> HIDE DEF other, cut
  <2>4. \A d \in Commands \ {c} :
          /\ commands'[d].at = commands[d].at /\ commands'[d].id = commands[d].id
          /\ commands'[d].named = commands[d].named
          /\ commands'[d].clean <=> commands[d].clean /\ commands[d].id \notin cut
    BY <2>1, <2>2
  <2>5. ASSUME NEW id \in Ids, Found(id), id \notin cut PROVE Later(id)
    <3>1. CASE product[id] = "whole"
      BY <2>1, <3>1 DEF Found, Later, FoundIn
    <3>2. ASSUME NEW d \in Commands, Writes(commands[d], id) PROVE Later(id)
      <4>1. d # c
        BY <2>3, <2>5, <3>2
      <4>2. Writes(commands'[d], id)
        BY <2>4, <3>2, <4>1 DEF Writes, At
      <4> QED
        BY <4>2 DEF Found, Later, FoundIn
    <3> QED
      BY <2>5, <3>1, <3>2 DEF Found, Later, FoundIn
  <2>6. ~commands'[c].clean /\ ~Clearing(c)'
    BY <2>1 DEF Resting, Clearing
  <2>7. \A id \in banked' : Later(id)
    BY <2>1, <2>5 DEF BankedInv, CliTypes
  <2>8. ASSUME NEW d \in Commands, commands'[d].clean
        PROVE  /\ Banking(d)'
               /\ At(d, "writeProduct")' => commands'[d].named
               /\ commands'[d].at \in {"readIndex", "index", "writeIndex"} => Later(commands'[d].id)
    <3>1. d # c
      BY <2>6, <2>8
    <3>2. /\ commands[d].clean /\ commands[d].id \notin cut
          /\ commands'[d].at = commands[d].at /\ commands'[d].id = commands[d].id
          /\ commands'[d].named = commands[d].named
      BY <2>4, <2>8, <3>1
    <3>3. /\ Banking(d) /\ commands[d].id \in Ids
          /\ At(d, "writeProduct") => commands[d].named
          /\ commands[d].at \in {"readIndex", "index", "writeIndex"} => Found(commands[d].id)
      BY <3>2 DEF BankedInv, CliTypes
    <3>4. Found(commands[d].id) => Later(commands'[d].id)
      <4> DEFINE id == commands[d].id
      <4>1. Found(id) => Later(id)
        BY <2>5, <3>2, <3>3
      <4> QED
        BY <3>2, <4>1 DEF Found, Later, FoundIn, Writes, At
    <3> QED
      BY <3>2, <3>3, <3>4 DEF Banking, At
  <2>9. ASSUME NEW d \in Commands, Clearing(d)'
        PROVE  banked' = {} /\ \A e \in Commands : ~commands'[e].clean
    <3>1. d # c /\ Clearing(d)
      BY <2>4, <2>6, <2>9 DEF Clearing
    <3> QED
      BY <2>1, <2>4, <2>6, <3>1 DEF BankedInv
  <2> QED
    BY <2>7, <2>8, <2>9 DEF BankedInv, Found, Later
<1>11. ASSUME NEW c \in Commands, NEW name \in FileNames, RemoveFile(c, name) PROVE BankedInv'
  <2>1. banked = {} /\ \A d \in Commands : ~commands[d].clean
    BY <1>11 DEF RemoveFile, At, Clearing, BankedInv
  <2>2. PICK writing \in SUBSET Commands :
          commands' = [d \in Commands |->
            [commands[d] EXCEPT !.doomed = IF d = c THEN @ \ {name} ELSE @,
                                !.named = @ /\ d \notin writing]]
    <3> DEFINE W == {d \in Commands :
                    IF name = IndexFile THEN At(d, "writeIndex") \/ At(d, "emptyIndex")
                    ELSE At(d, "writeProduct") /\ name = <<commands[d].id, "product">>}
    <3>1. W \in SUBSET Commands
      OBVIOUS
    <3> QED
      BY <1>11, <3>1 DEF RemoveFile
  <2>3. \A d \in Commands : commands'[d].clean = commands[d].clean
    BY <2>2, StateOf DEF CommandState
  <2>4. banked' = banked
    BY <1>11 DEF RemoveFile
  <2> QED
    BY <2>1, <2>3, <2>4, NothingClean
<1>12. CASE UNCHANGED cliVars
  BY <1>12 DEF cliVars, BankedInv, Found, Later, FoundIn, Writes, At, Banking, Clearing
<1> QED
  BY <1>1, <1>2, <1>3, <1>4, <1>5, <1>6, <1>7, <1>8, <1>9, <1>10, <1>11, <1>12 DEF CliNext

-----------------------------------------------------------------------------
(* What the index lists.                                                      *)

BankedIds == {id \in Ids : product[id] # "none"}

(* A bank's product is there once it was opened, and so are those of the      *)
(* entries it has read.                                                       *)
Leads(command, there) ==
  /\ command.at \in {"writeProduct", "readIndex", "index", "writeIndex"} => command.id \in there
  /\ command.at \in {"index", "writeIndex"} => command.entries \in Seq(there)

(* As long as no clear and no bank overlapped: a clear that emptied the index  *)
(* has it empty, and without a clear all that is listed, or read to be listed  *)
(* again, is there.                                                            *)
ListedInv ==
  ~disturbed =>
    /\ \A c, d \in Commands : ~(Banking(c) /\ Clearing(d))
    /\ \A c \in Commands : At(c, "emptyIndex") => index = <<>>
    /\ (\A c \in Commands : ~Clearing(c)) =>
         index \in Seq(BankedIds) /\ \A c \in Commands : Leads(commands[c], BankedIds)

LEMMA LeadsOn ==
  ASSUME NEW command, NEW p, NEW q, p \subseteq q, Leads(command, p)
  PROVE  Leads(command, q)
BY SeqMonotonic DEF Leads

LEMMA ListedMoves ==
  ASSUME CliTypes, ListedInv, NEW c \in Commands, NEW r \in CommandState,
         commands' = [commands EXCEPT ![c] = r], r.at \notin {"remove", "emptyIndex"},
         ~disturbed' => /\ ~disturbed /\ \A d \in Commands : ~Clearing(d)
                        /\ BankedIds \subseteq BankedIds' /\ index' \in Seq(BankedIds')
                        /\ Leads(r, BankedIds')
  PROVE  ListedInv'
<1> SUFFICES ASSUME ~disturbed' PROVE ListedInv'
  BY DEF ListedInv
<1>1. commands'[c] = r /\ \A d \in Commands \ {c} : commands'[d] = commands[d]
  BY DEF CliTypes
<1>2. \A d \in Commands : ~Clearing(d)'
  BY <1>1 DEF Clearing
<1>3. \A d \in Commands : Leads(commands[d], BankedIds)
  BY DEF ListedInv
<1> HIDE DEF BankedIds
<1>4. \A d \in Commands : Leads(commands'[d], BankedIds')
  BY <1>1, <1>3, LeadsOn
<1>5. \A d \in Commands : ~At(d, "emptyIndex")'
  BY <1>2 DEF Clearing, At
<1> QED
  BY <1>2, <1>4, <1>5 DEF ListedInv

LEMMA ListedStep ==
  ASSUME CliTypes, ListedInv, [CliNext]_cliVars
  PROVE  ListedInv'
<1>a. ASSUME NEW c \in Commands, Banking(c), ~disturbed
      PROVE  /\ \A d \in Commands : ~Clearing(d)
             /\ index \in Seq(BankedIds) /\ Leads(commands[c], BankedIds)
  BY <1>a DEF ListedInv
<1>1. ASSUME NEW c \in Commands, NEW id \in Ids, Bank(c, id) PROVE ListedInv'
  <2> DEFINE r == [commands[c] EXCEPT !.at = "product", !.id = id,
                                      !.clean = \A d \in Commands : ~Clearing(d)]
  <2>1. r \in CommandState /\ r.at = "product"
    BY StateOf DEF CommandState, Stages
  <2>2. /\ commands' = [commands EXCEPT ![c] = r] /\ UNCHANGED <<product, index>>
        /\ disturbed' = (disturbed \/ \E d \in Commands : Clearing(d))
    BY <1>1 DEF Bank
  <2> HIDE DEF r
  <2>3. BankedIds' = BankedIds
    BY <2>2 DEF BankedIds
  <2>4. ~disturbed' => ~disturbed /\ \A d \in Commands : ~Clearing(d)
    BY <2>2
  <2>5. ~disturbed' => index \in Seq(BankedIds)
    BY <2>4 DEF ListedInv
  <2>6. Leads(r, BankedIds')
    BY <2>1 DEF Leads
  <2> QED
    BY <2>1, <2>2, <2>3, <2>4, <2>5, <2>6, ListedMoves
<1>2. ASSUME NEW c \in Commands, OpenProduct(c) PROVE ListedInv'
  <2> DEFINE r == [commands[c] EXCEPT !.at = "writeProduct", !.named = TRUE]
  <2>1. r \in CommandState /\ r.at = "writeProduct" /\ r.id = commands[c].id
    BY StateOf DEF CommandState, Stages
  <2>2. /\ commands' = [commands EXCEPT ![c] = r] /\ UNCHANGED <<index, disturbed>> /\ At(c, "product")
        /\ product' = [product EXCEPT ![commands[c].id] = "torn"]
    BY <1>2 DEF OpenProduct
  <2> HIDE DEF r
  <2>3. Banking(c) /\ commands[c].id \in Ids
    BY <2>2 DEF CliTypes, Banking, At
  <2>4. BankedIds \subseteq BankedIds' /\ commands[c].id \in BankedIds'
    BY <2>2, <2>3 DEF BankedIds, CliTypes
  <2>5. ~disturbed => /\ \A d \in Commands : ~Clearing(d)
                      /\ index \in Seq(BankedIds)
    BY <1>a, <2>3
  <2>6. Leads(r, BankedIds')
    BY <2>1, <2>4 DEF Leads
  <2>7. ~disturbed => index' \in Seq(BankedIds')
    BY <2>2, <2>4, <2>5, SeqMonotonic
  <2> QED
    BY <2>1, <2>2, <2>4, <2>5, <2>6, <2>7, ListedMoves
<1>3. ASSUME NEW c \in Commands, WriteProduct(c) PROVE ListedInv'
  <2> DEFINE r == [commands[c] EXCEPT !.at = "readIndex"]
  <2>1. r \in CommandState /\ r.at = "readIndex" /\ r.id = commands[c].id
    BY StateOf DEF CommandState, Stages
  <2>2. /\ commands' = [commands EXCEPT ![c] = r] /\ UNCHANGED <<index, disturbed>>
        /\ At(c, "writeProduct")
        /\ product' = product \/ product' = [product EXCEPT ![commands[c].id] = "whole"]
    BY <1>3 DEF WriteProduct
  <2> HIDE DEF r
  <2>3. Banking(c) /\ commands[c].id \in Ids
    BY <2>2 DEF CliTypes, Banking, At
  <2>4. BankedIds \subseteq BankedIds'
    BY <2>2, <2>3 DEF BankedIds, CliTypes
  <2>5. ~disturbed => /\ \A d \in Commands : ~Clearing(d)
                      /\ index \in Seq(BankedIds) /\ commands[c].id \in BankedIds
    BY <1>a, <2>2, <2>3 DEF Leads, At
  <2>6. ~disturbed => Leads(r, BankedIds')
    BY <2>1, <2>4, <2>5 DEF Leads
  <2>7. ~disturbed => index' \in Seq(BankedIds')
    BY <2>2, <2>4, <2>5, SeqMonotonic
  <2> QED
    BY <2>1, <2>2, <2>4, <2>5, <2>6, <2>7, ListedMoves
<1>4. ASSUME NEW c \in Commands, ReadIndex(c) PROVE ListedInv'
  <2> DEFINE r == [commands[c] EXCEPT !.at = "index", !.entries = index]
  <2>1. r \in CommandState /\ r.at = "index" /\ r.id = commands[c].id /\ r.entries = index
    BY StateOf DEF CommandState, Stages, CliTypes
  <2>2. /\ commands' = [commands EXCEPT ![c] = r] /\ UNCHANGED <<product, index, disturbed>>
        /\ At(c, "readIndex")
    BY <1>4 DEF ReadIndex
  <2> HIDE DEF r
  <2>3. Banking(c) /\ BankedIds' = BankedIds
    BY <2>2 DEF Banking, At, BankedIds
  <2>4. ~disturbed => /\ \A d \in Commands : ~Clearing(d)
                      /\ index \in Seq(BankedIds) /\ commands[c].id \in BankedIds
    BY <1>a, <2>2, <2>3 DEF Leads, At
  <2>5. ~disturbed => Leads(r, BankedIds')
    BY <2>1, <2>3, <2>4 DEF Leads
  <2> QED
    BY <2>1, <2>2, <2>3, <2>4, <2>5, ListedMoves
<1>5. ASSUME NEW c \in Commands, OpenIndex(c) PROVE ListedInv'
  <2> DEFINE r == [commands[c] EXCEPT !.at = "writeIndex", !.named = TRUE]
  <2>1. /\ r \in CommandState /\ r.at = "writeIndex" /\ r.id = commands[c].id
        /\ r.entries = commands[c].entries
    BY StateOf DEF CommandState, Stages
  <2>2. /\ commands' = [commands EXCEPT ![c] = r] /\ UNCHANGED <<product, disturbed>>
        /\ At(c, "index") /\ index' = <<>>
    BY <1>5 DEF OpenIndex
  <2> HIDE DEF r
  <2>3. Banking(c) /\ BankedIds' = BankedIds
    BY <2>2 DEF Banking, At, BankedIds
  <2>4. ~disturbed => /\ \A d \in Commands : ~Clearing(d)
                      /\ commands[c].id \in BankedIds /\ commands[c].entries \in Seq(BankedIds)
    BY <1>a, <2>2, <2>3 DEF Leads, At
  <2>5. ~disturbed => Leads(r, BankedIds')
    BY <2>1, <2>3, <2>4 DEF Leads
  <2>6. index' \in Seq(BankedIds')
    BY <2>2, EmptySeq
  <2> QED
    BY <2>1, <2>2, <2>3, <2>4, <2>5, <2>6, ListedMoves
<1>6. ASSUME NEW c \in Commands, WriteIndex(c) PROVE ListedInv'
  <2>1. /\ commands' = [commands EXCEPT ![c] = Resting] /\ UNCHANGED <<product, disturbed>>
        /\ At(c, "writeIndex") /\ index' \in {index, Listing(c), <<>>}
    BY <1>6 DEF WriteIndex, IndexAfter
  <2>2. Banking(c) /\ BankedIds' = BankedIds /\ Resting.at = "idle"
    BY <2>1 DEF Banking, At, BankedIds, Resting
  <2>3. ~disturbed => /\ \A d \in Commands : ~Clearing(d)
                      /\ index \in Seq(BankedIds)
                      /\ commands[c].id \in BankedIds /\ commands[c].entries \in Seq(BankedIds)
    BY <1>a, <2>1, <2>2 DEF Leads, At
  <2>4. ~disturbed => Listing(c) \in Seq(BankedIds)
    BY <2>3, ListingFits
  <2>5. <<>> \in Seq(BankedIds)
    BY EmptySeq
  <2>6. ~disturbed => index' \in Seq(BankedIds')
    BY <2>1, <2>2, <2>3, <2>4, <2>5
  <2>7. Leads(Resting, BankedIds')
    BY <2>2 DEF Leads
  <2> QED
    BY <2>1, <2>2, <2>3, <2>6, <2>7, RestingState, ListedMoves
<1>7. ASSUME NEW c \in Commands, Clear(c) PROVE ListedInv'
  <2> SUFFICES ASSUME ~disturbed' PROVE ListedInv'
    BY DEF ListedInv
  <2>1. /\ ~disturbed /\ \A d \in Commands : ~Banking(d)
        /\ At(c, "idle") /\ UNCHANGED index
        /\ commands' = [d \in Commands |->
             IF d = c
             THEN [commands[c] EXCEPT !.at = "remove", !.entries = index,
                     !.doomed = cards \X {"card"} \cup {IndexFile}
                                \cup {id \in Ids : product[id] # "none"} \X {"product"}]
             ELSE [commands[d] EXCEPT !.clean = FALSE]]
    BY <1>7 DEF Clear
  <2>2. commands'[c].at = "remove" /\ \A d \in Commands \ {c} : commands'[d].at = commands[d].at
    BY <2>1, StateOf DEF CommandState
  <2>3. \A d \in Commands : ~Banking(d)'
    BY <2>1, <2>2 DEF Banking
  <2>4. \A d \in Commands : At(d, "emptyIndex")' => index' = <<>>
    BY <2>1, <2>2 DEF At, ListedInv
  <2>5. Clearing(c)'
    BY <2>2 DEF Clearing
  <2> QED
    BY <2>3, <2>4, <2>5 DEF ListedInv
<1>8. ASSUME NEW c \in Commands, OpenIndexToEmpty(c) PROVE ListedInv'
  <2>1. /\ At(c, "remove") /\ index' = <<>> /\ UNCHANGED disturbed
        /\ commands' = [commands EXCEPT ![c].at = "emptyIndex", ![c].named = TRUE]
    BY <1>8 DEF OpenIndexToEmpty
  <2>2. commands'[c].at = "emptyIndex" /\ \A d \in Commands \ {c} : commands'[d] = commands[d]
    BY <2>1, StateOf DEF CommandState, CliTypes
  <2>3. Clearing(c) /\ Clearing(c)'
    BY <2>1, <2>2 DEF Clearing, At
  <2>4. ~disturbed => \A d \in Commands : ~Banking(d)'
    BY <2>2, <2>3 DEF Banking, ListedInv
  <2> QED
    BY <2>1, <2>3, <2>4 DEF ListedInv
<1>9. ASSUME NEW c \in Commands, WriteEmptyIndex(c) PROVE ListedInv'
  <2> SUFFICES ASSUME ~disturbed' PROVE ListedInv'
    BY DEF ListedInv
  <2>1. /\ At(c, "emptyIndex") /\ index' \in {index, <<>>} /\ ~disturbed
        /\ commands' = [commands EXCEPT ![c] = Resting]
    BY <1>9 DEF WriteEmptyIndex, IndexAfter
  <2>2. index' = <<>>
    BY <2>1 DEF ListedInv
  <2>3. commands'[c].at = "idle" /\ \A d \in Commands \ {c} : commands'[d] = commands[d]
    BY <2>1 DEF Resting, CliTypes
  <2>4. Clearing(c)
    BY <2>1 DEF Clearing, At
  <2>5. \A d \in Commands : ~Banking(d)'
    BY <2>1, <2>3, <2>4 DEF Banking, ListedInv
  <2>6. \A d \in Commands : Leads(commands'[d], BankedIds')
    BY <2>5 DEF Leads, Banking
  <2>7. index' \in Seq(BankedIds')
    BY <2>2, EmptySeq
  <2> QED
    BY <2>2, <2>5, <2>6, <2>7 DEF ListedInv
<1>10. ASSUME NEW c \in Commands, Crash(c) PROVE ListedInv'
  <2> SUFFICES ASSUME ~disturbed' PROVE ListedInv'
    BY DEF ListedInv
  <2> DEFINE cut == IF At(c, "writeProduct") THEN {commands[c].id} ELSE {}
             other(d) == [commands[d] EXCEPT !.clean = commands[d].clean /\ commands[d].id \notin cut]
  <2>1. /\ ~disturbed /\ ~Clearing(c) /\ ~At(c, "idle")
        /\ commands' = [d \in Commands |-> IF d = c THEN Resting ELSE other(d)]
        /\ UNCHANGED <<product, index>>
    BY <1>10 DEF Crash
  <2>2. \A d \in Commands : /\ other(d).at = commands[d].at /\ other(d).id = commands[d].id
                            /\ other(d).entries = commands[d].entries
    BY StateOf DEF CommandState
  <2> HIDE DEF other, cut
  <2>3. commands'[c].at = "idle"
    BY <2>1 DEF Resting
  <2>4. \A d \in Commands \ {c} :
          /\ commands'[d].at = commands[d].at /\ commands'[d].id = commands[d].id
          /\ commands'[d].entries = commands[d].entries
    BY <2>1, <2>2
  <2>5. Banking(c)
    BY <2>1, StateOf DEF CommandState, Stages, Banking, Clearing, At
  <2>6. /\ \A d \in Commands : ~Clearing(d)
        /\ index \in Seq(BankedIds)
        /\ \A d \in Commands : Leads(commands[d], BankedIds)
    BY <2>1, <2>5 DEF ListedInv
  <2>7. \A d \in Commands : ~Clearing(d)' /\ ~At(d, "emptyIndex")'
    BY <2>3, <2>4, <2>6 DEF Clearing, At
  <2>8. BankedIds' = BankedIds
    BY <2>1 DEF BankedIds
  <2>9. \A d \in Commands : Leads(commands'[d], BankedIds)
    BY <2>3, <2>4, <2>6 DEF Leads
  <2> QED
    BY <2>1, <2>6, <2>7, <2>8, <2>9 DEF ListedInv
<1>11. ASSUME NEW c \in Commands, NEW name \in FileNames, RemoveFile(c, name) PROVE ListedInv'
  <2>1. PICK writing \in SUBSET Commands :
          commands' = [d \in Commands |->
            [commands[d] EXCEPT !.doomed = IF d = c THEN @ \ {name} ELSE @,
                                !.named = @ /\ d \notin writing]]
    <3> DEFINE W == {d \in Commands :
                    IF name = IndexFile THEN At(d, "writeIndex") \/ At(d, "emptyIndex")
                    ELSE At(d, "writeProduct") /\ name = <<commands[d].id, "product">>}
    <3>1. W \in SUBSET Commands
      OBVIOUS
    <3> QED
      BY <1>11, <3>1 DEF RemoveFile
  <2>2. \A d \in Commands : commands'[d].at = commands[d].at
    BY <2>1, StateOf DEF CommandState
  <2>3. At(c, "remove") /\ index' \in {index, <<>>} /\ UNCHANGED disturbed
    BY <1>11 DEF RemoveFile
  <2>4. Clearing(c)'
    BY <2>2, <2>3 DEF At, Clearing
  <2>5. ~disturbed => /\ \A d, e \in Commands : ~(Banking(d)' /\ Clearing(e)')
                      /\ \A d \in Commands : At(d, "emptyIndex")' => index' = <<>>
    BY <2>2, <2>3 DEF Banking, Clearing, At, ListedInv
  <2> QED
    BY <2>3, <2>4, <2>5 DEF ListedInv
<1>12. CASE UNCHANGED cliVars
  BY <1>12 DEF cliVars, ListedInv, Leads, BankedIds, At, Banking, Clearing
<1> QED
  BY <1>1, <1>2, <1>3, <1>4, <1>5, <1>6, <1>7, <1>8, <1>9, <1>10, <1>11, <1>12 DEF CliNext

CliInv == CliTypes /\ BankedInv /\ ListedInv

LEMMA CliStarts == CliInit => CliInv
<1> SUFFICES ASSUME CliInit PROVE CliInv
  OBVIOUS
<1>1. CliTypes
  BY NoEntries, RestingState DEF CliInit, CliTypes, Banking, Resting
<1>2. BankedInv
  BY DEF CliInit, BankedInv, Clearing, Resting
<1>3. \A c \in Commands : commands[c].at = "idle"
  BY DEF CliInit, Resting
<1>4. index \in Seq(BankedIds)
  BY EmptySeq DEF CliInit
<1>5. ListedInv
  BY <1>3, <1>4 DEF ListedInv, Leads, Banking, At, Clearing
<1> QED
  BY <1>1, <1>2, <1>5 DEF CliInv

LEMMA CliInvStep == CliInv /\ [CliNext]_cliVars => CliInv'
BY TypesStep, BankedStep, ListedStep DEF CliInv

(* Files, indexes and commands are ones the program has; the index is never    *)
(* longer than its bound.                                                      *)
THEOREM CacheTypesHold == CliSpec => []CliTypeOK
<1>1. CliInv => CliTypeOK
  <2> SUFFICES ASSUME CliInv PROVE CliTypeOK
    OBVIOUS
  <2>1. ASSUME NEW c \in Commands
        PROVE  /\ commands[c].id \in Ids \cup {NoEntry} /\ commands[c].doomed \subseteq FileNames
               /\ Banking(c) \/ Clearing(c) \/ At(c, "idle")
    <3>1. commands[c] \in CommandState
      BY StateOf DEF CliInv
    <3>2. commands[c].id \in Ids \cup {NoEntry} /\ commands[c].doomed \subseteq FileNames
      BY <3>1 DEF CommandState
    <3>3. Banking(c) \/ Clearing(c) \/ At(c, "idle")
      BY <3>1 DEF CommandState, Stages, Banking, Clearing, At
    <3> QED
      BY <3>2, <3>3
  <2> QED
    BY <2>1 DEF CliInv, CliTypes, CliTypeOK
<1> QED
  BY CliStarts, CliInvStep, <1>1, PTL DEF CliSpec

(* What was banked is found in full until a clear runs, and what the index     *)
(* lists has its product unless a clear and a bank overlapped, for any number  *)
(* of commands and ids, however they interleave, crash or write over each      *)
(* other.                                                                      *)
THEOREM CacheLeads == CliSpec => []CacheLeadsToProducts
<1>1. CliInv => BankedIsFound
  <2> SUFFICES ASSUME CliInv, NEW id \in banked
               PROVE  \/ OnDisk(id) = "full"
                      \/ \E c \in Commands : At(c, "writeProduct") /\ commands[c].id = id
    BY DEF BankedIsFound
  <2>1. Found(id)
    BY DEF CliInv, BankedInv
  <2> QED
    BY <2>1 DEF Found, FoundIn, Writes, OnDisk, At
<1>2. CliInv => ListedIsBanked
  <2> SUFFICES ASSUME CliInv, ~disturbed, \A c \in Commands : ~Clearing(c)
               PROVE  \A id \in ToSet(index) : product[id] # "none"
    BY DEF ListedIsBanked
  <2>1. index \in Seq(BankedIds)
    BY DEF CliInv, ListedInv
  <2>2. ToSet(index) \subseteq BankedIds
    BY <2>1, SetsOfEntries
  <2> QED
    BY <2>2 DEF BankedIds
<1>3. CliInv => CacheLeadsToProducts
  BY <1>1, <1>2 DEF CacheLeadsToProducts
<1> QED
  BY CliStarts, CliInvStep, <1>3, PTL DEF CliSpec

-----------------------------------------------------------------------------
(* What is remembered of a scan is never taken for more than it is, for any    *)
(* number of processes, files and edits.  A key is older than the texts read   *)
(* under it: where it still names the present stamp of a file, the file has    *)
(* not changed since the stat, so the text read after it is the present one.   *)
(* That holds of every scan, of every result a process remembers and of every  *)
(* memo on disk, whoever wrote it; edits keep it, since a new stamp is in no   *)
(* key.  A quiet scan's key names the present stamps of all files.             *)

Disk == [source |-> source, stamp |-> stamp, present |-> present, edits |-> edits]

(* What key k says of file f is old, or t has the text that file has on disk.  *)
Followed(k, t, f, disk) ==
  /\ k[f] <= disk.edits + 1
  /\ k[f] = disk.stamp[f] => t[f] = disk.source[f]
  /\ k[f] = Unlisted => t[f] = NoSource

Agrees(k, t, disk) == \A f \in ScanFiles : Followed(k, t, f, disk)

(* The key of a scan without an edit is that of the files as they are.         *)
KeyIsCurrent(k, disk) ==
  \A f \in ScanFiles :
    IF disk.source[f] = NoSource THEN k[f] = Unlisted ELSE k[f] \in {NotStated, disk.stamp[f]}

(* Whatever a scan has not read is on its list; what it has, it may keep.      *)
Reads(s, disk) ==
  \A f \in ScanFiles :
    IF f \in s.unread THEN s.key[f] # Unlisted ELSE Followed(s.key, s.answer.texts, f, disk)

SoundScan(s, disk) ==
  /\ \A f \in ScanFiles : s.key[f] <= disk.edits + 1
  /\ s.at = "stat" => s.answer = Nothing
  /\ s.at \in {"read", "reread"} => Reads(s, disk)
  /\ s.at = "reread" => Agrees(s.key, s.answer.from, disk) /\ s.answer.plane # "fresh"
  /\ s.at \in {"write", "answered"} =>
       Agrees(s.key, s.answer.texts, disk) /\ Agrees(s.key, s.answer.from, disk)
  /\ s.quiet => KeyIsCurrent(s.key, disk)
  /\ s.at \in {"write", "answered"} /\ s.still /\ s.answer.plane = "fresh" =>
       s.answer.broken = Cites(s.answer.texts) \ disk.present

SoundEntry(e, disk) ==
  Agrees(e.key, e.answer.texts, disk) /\ Agrees(e.key, e.answer.from, disk)

StampsAreUsed == \A f \in ScanFiles : stamp[f] <= edits + 1
ScansAreSound == \A p \in Scanners : SoundScan(scan[p], Disk)
MemoryIsSound ==
  \A p \in Scanners : \A i \in DOMAIN remembered[p] : SoundEntry(remembered[p][i], Disk)
MemosAreSound ==
  \A k \in Keys : memo[k] \notin {NoMemo, TornMemo} => Agrees(k, memo[k].from, Disk)

CorpusInv == StampsAreUsed /\ ScansAreSound /\ MemoryIsSound /\ MemosAreSound

(* ------------------------------------------------------------------------ *)
(* Types.                                                                    *)

LEMMA RecordsFit ==
  /\ Unread \in Readings /\ Nothing \in Answers
  /\ \A k \in Keys : k \in [ScanFiles -> Stamps \cup {Unlisted, Vanished, NotStated}]
  /\ Unstarted \in Scans /\ Unstarted.key \in Keys
<1>1. Unread \in Readings
  BY DEF Unread, Readings
<1>2. Nothing \in Answers
  BY <1>1 DEF Nothing, Answers
<1>3. [f \in ScanFiles |-> Unlisted] \in Keys
  BY DEF Keys
<1>4. \A k \in Keys : k \in [ScanFiles -> Stamps \cup {Unlisted, Vanished, NotStated}]
  BY DEF Keys
<1>5. Unstarted \in Scans /\ Unstarted.key \in Keys
  BY <1>2, <1>3, <1>4 DEF Unstarted, Scans
<1> QED
  BY <1>1, <1>2, <1>4, <1>5

FileTypes ==
  /\ source \in Readings /\ stamp \in [ScanFiles -> Stamps]
  /\ present \subseteq Targets /\ edits \in 0..MaxEdits /\ begun \in 0..MaxScans
MemoTypes == memo \in [Keys -> Products \cup {NoMemo, TornMemo}]
MemoryTypes ==
  /\ remembered \in [Scanners -> Seq(Entries)]
  /\ \A p \in Scanners : Len(remembered[p]) <= MaxRemembered
ScanTypes ==
  /\ scan \in [Scanners -> Scans]
  /\ \A p \in Scanners : scan[p].at # "stat" => scan[p].key \in Keys

LEMMA TypesAreFour == CorpusTypeOK <=> FileTypes /\ MemoTypes /\ MemoryTypes /\ ScanTypes
BY DEF CorpusTypeOK, FileTypes, MemoTypes, MemoryTypes, ScanTypes, Scanning

LEMMA TypesAreFourNext == CorpusTypeOK' <=> FileTypes' /\ MemoTypes' /\ MemoryTypes' /\ ScanTypes'
BY DEF CorpusTypeOK, FileTypes, MemoTypes, MemoryTypes, ScanTypes, Scanning

LEMMA FlagsCleared ==
  ASSUME NEW s \in Scans
  PROVE  /\ [s EXCEPT !.quiet = FALSE] \in Scans
         /\ [s EXCEPT !.still = FALSE] \in Scans
         /\ [s EXCEPT !.named = FALSE] \in Scans
<1>1. [s EXCEPT !.quiet = FALSE] \in Scans
  BY DEF Scans
<1>2. [s EXCEPT !.still = FALSE] \in Scans
  BY DEF Scans
<1>3. [s EXCEPT !.named = FALSE] \in Scans
  BY DEF Scans
<1> QED
  BY <1>1, <1>2, <1>3

LEMMA OneScanTypes ==
  ASSUME ScanTypes, NEW p \in Scanners, NEW s \in Scans, scan' = [scan EXCEPT ![p] = s],
         s.at # "stat" => s.key \in Keys
  PROVE  ScanTypes'
BY DEF ScanTypes

(* A flag of every scan is cleared; at and key stay.                         *)
LEMMA AllScansTypes ==
  ASSUME ScanTypes, scan' \in [Scanners -> Scans],
         \A q \in Scanners : scan'[q].at = scan[q].at /\ scan'[q].key = scan[q].key
  PROVE  ScanTypes'
BY DEF ScanTypes

(* A process appends a result and keeps at most MaxRemembered.               *)
LEMMA RememberingTypes ==
  ASSUME MemoryTypes, NEW p \in Scanners, scan[p].key \in Keys, NEW a \in Answers,
         remembered' = [remembered EXCEPT ![p] = RememberedAfter(p, a)]
  PROVE  MemoryTypes'
<1> DEFINE e == [key |-> MemoKey(p), answer |-> a]
           next == Append(remembered[p], e)
<1>1. e \in Entries
  BY DEF MemoKey, Entries
<1>2. remembered[p] \in Seq(Entries) /\ Len(remembered[p]) <= MaxRemembered
  BY DEF MemoryTypes
<1> HIDE DEF e
<1>3. next \in Seq(Entries) /\ Len(next) = Len(remembered[p]) + 1
  BY <1>1, <1>2
<1>4. Len(remembered[p]) \in Nat /\ MaxRemembered \in Nat
  BY <1>2, RememberedAssumption, LenProperties
<1> HIDE DEF next
<1>5. next # <<>>
  BY <1>3, <1>4
<1>6. Tail(next) \in Seq(Entries) /\ Len(Tail(next)) = Len(remembered[p])
  BY <1>3, <1>4, <1>5, HeadTailProperties
<1>7. RememberedAfter(p, a) = IF Len(next) > MaxRemembered THEN Tail(next) ELSE next
  BY DEF RememberedAfter, e, next
<1>8. RememberedAfter(p, a) \in Seq(Entries) /\ Len(RememberedAfter(p, a)) <= MaxRemembered
  BY <1>2, <1>3, <1>4, <1>6, <1>7
<1> QED
  BY <1>8 DEF MemoryTypes

LEMMA CorpusTypesStep == CorpusTypeOK /\ [CorpusNext]_corpusVars => CorpusTypeOK'
<1> SUFFICES ASSUME FileTypes, MemoTypes, MemoryTypes, ScanTypes, [CorpusNext]_corpusVars
             PROVE  FileTypes' /\ MemoTypes' /\ MemoryTypes' /\ ScanTypes'
  BY TypesAreFour, TypesAreFourNext
<1> DEFINE Goal == FileTypes' /\ MemoTypes' /\ MemoryTypes' /\ ScanTypes'
<1>a. \A q \in Scanners : scan[q] \in Scans /\ (scan[q].at # "stat" => scan[q].key \in Keys)
  BY DEF ScanTypes
<1>b. (UNCHANGED <<source, stamp, present, edits, begun>>) => FileTypes'
  BY DEF FileTypes
<1>c. (UNCHANGED memo) => MemoTypes'
  BY DEF MemoTypes
<1>d. (UNCHANGED remembered) => MemoryTypes'
  BY DEF MemoryTypes
<1>1. ASSUME NEW f \in ScanFiles, NEW text \in ScanTexts \cup {NoSource}, EditSource(f, text)
      PROVE  Goal
  <2>1. source' \in Readings
    BY <1>1 DEF EditSource, FileTypes, Readings
  <2>2. edits + 2 \in Stamps /\ edits' \in 0..MaxEdits
    BY <1>1, CorpusBoundsAssumption DEF EditSource, FileTypes, Stamps
  <2>3. stamp' \in [ScanFiles -> Stamps]
    BY <1>1, <2>2 DEF EditSource, FileTypes
  <2>4. FileTypes'
    BY <1>1, <2>1, <2>2, <2>3 DEF EditSource, FileTypes
  <2>5. \A q \in Scanners : scan'[q] = [scan[q] EXCEPT !.quiet = FALSE]
    BY <1>1 DEF EditSource
  <2>6. \A q \in Scanners : scan'[q] \in Scans /\ scan'[q].at = scan[q].at /\ scan'[q].key = scan[q].key
    <3> TAKE q \in Scanners
    <3>1. scan[q] \in Scans /\ scan'[q] = [scan[q] EXCEPT !.quiet = FALSE]
      BY <1>a, <2>5
    <3>2. scan'[q] \in Scans
      BY <3>1, FlagsCleared
    <3>3. scan'[q].at = scan[q].at /\ scan'[q].key = scan[q].key
      BY <3>1 DEF Scans
    <3> QED
      BY <3>2, <3>3
  <2>7. scan' \in [Scanners -> Scans]
    BY <1>1, <2>6 DEF EditSource
  <2>8. ScanTypes'
    BY <2>6, <2>7, AllScansTypes
  <2> QED
    BY <1>1, <1>c, <1>d, <2>4, <2>8 DEF EditSource
<1>2. ASSUME NEW t \in Targets, ToggleTarget(t) PROVE Goal
  <2>1. FileTypes'
    BY <1>2, CorpusBoundsAssumption DEF ToggleTarget, FileTypes
  <2>2. \A q \in Scanners : scan'[q] = [scan[q] EXCEPT !.still = FALSE]
    BY <1>2 DEF ToggleTarget
  <2>3. \A q \in Scanners : scan'[q] \in Scans /\ scan'[q].at = scan[q].at /\ scan'[q].key = scan[q].key
    <3> TAKE q \in Scanners
    <3>1. scan[q] \in Scans /\ scan'[q] = [scan[q] EXCEPT !.still = FALSE]
      BY <1>a, <2>2
    <3>2. scan'[q] \in Scans
      BY <3>1, FlagsCleared
    <3>3. scan'[q].at = scan[q].at /\ scan'[q].key = scan[q].key
      BY <3>1 DEF Scans
    <3> QED
      BY <3>2, <3>3
  <2>4. scan' \in [Scanners -> Scans]
    BY <1>2, <2>3 DEF ToggleTarget
  <2>5. ScanTypes'
    BY <2>3, <2>4, AllScansTypes
  <2> QED
    BY <1>2, <1>c, <1>d, <2>1, <2>5 DEF ToggleTarget
<1>3. ASSUME NEW p \in Scanners, ListFiles(p) PROVE Goal
  <2> DEFINE k == [f \in ScanFiles |-> IF source[f] = NoSource THEN Unlisted ELSE NotStated]
             s == [Unstarted EXCEPT !.at = "stat", !.quiet = TRUE, !.still = TRUE, !.key = k]
  <2>1. k \in [ScanFiles -> Stamps \cup {Unlisted, Vanished, NotStated}]
    OBVIOUS
  <2> HIDE DEF k
  <2>2. s \in Scans /\ s.at = "stat"
    BY <2>1, RecordsFit DEF Scans
  <2>3. scan' = [scan EXCEPT ![p] = s]
    BY <1>3 DEF ListFiles, k
  <2> HIDE DEF s
  <2>4. FileTypes'
    BY <1>3, CorpusBoundsAssumption DEF ListFiles, FileTypes
  <2>5. ScanTypes'
    BY <2>2, <2>3, OneScanTypes
  <2> QED
    BY <1>3, <1>c, <1>d, <2>4, <2>5 DEF ListFiles
<1>4. ASSUME NEW p \in Scanners, NEW f \in ScanFiles, StatFile(p, f) PROVE Goal
  <2> DEFINE v == IF source[f] = NoSource THEN Vanished ELSE stamp[f]
             k == [scan[p].key EXCEPT ![f] = v]
             s == [scan[p] EXCEPT !.key = k]
  <2>1. v \in Stamps \cup {Unlisted, Vanished, NotStated}
    BY DEF FileTypes
  <2> HIDE DEF v
  <2>2. k \in [ScanFiles -> Stamps \cup {Unlisted, Vanished, NotStated}]
    BY <1>a, <2>1 DEF Scans
  <2>3. scan' = [scan EXCEPT ![p] = s]
    BY <1>4 DEF StatFile, v
  <2> HIDE DEF k
  <2>4. s \in Scans /\ s.at = "stat"
    BY <1>4, <1>a, <2>2 DEF Scans, StatFile, Scanning
  <2> HIDE DEF s
  <2>5. ScanTypes'
    BY <2>3, <2>4, OneScanTypes
  <2> QED
    BY <1>4, <1>b, <1>c, <1>d, <2>5 DEF StatFile
<1>5. ASSUME NEW p \in Scanners, LookUp(p) PROVE Goal
  <2>1. scan[p].key \in Keys /\ UNCHANGED <<source, stamp, present, edits, begun, remembered, memo>>
    <3>1. /\ UNCHANGED <<source, stamp, present, edits, begun, remembered, memo>>
          /\ \A f \in ScanFiles : scan[p].key[f] # NotStated
      BY <1>5 DEF LookUp
    <3>2. scan[p].key \in [ScanFiles -> Stamps \cup {Unlisted, Vanished, NotStated}]
      BY <1>a DEF Scans
    <3> QED
      BY <3>1, <3>2 DEF Keys
  <2> SUFFICES ScanTypes'
    BY <1>b, <1>c, <1>d, <2>1
  <2>2. ASSUME NEW i \in Recalled(p),
               scan' = [scan EXCEPT ![p].at = "answered",
                          ![p].answer = [remembered[p][i].answer EXCEPT !.plane = "memory"]]
        PROVE  ScanTypes'
    <3> DEFINE a == [remembered[p][i].answer EXCEPT !.plane = "memory"]
               s == [scan[p] EXCEPT !.at = "answered", !.answer = a]
    <3>1. i \in DOMAIN remembered[p] /\ remembered[p] \in Seq(Entries)
      BY DEF Recalled, MemoryTypes
    <3>2. remembered[p][i] \in Entries
      BY <3>1, ElementOfSeq
    <3>3. a \in Answers
      BY <3>2 DEF Entries, Answers
    <3>4. scan' = [scan EXCEPT ![p] = s]
      BY <2>2
    <3> HIDE DEF a
    <3>5. s \in Scans /\ s.key \in Keys
      BY <1>a, <2>1, <3>3 DEF Scans
    <3> HIDE DEF s
    <3> QED
      BY <3>4, <3>5, OneScanTypes
  <2>3. CASE \E i \in Recalled(p) :
               scan' = [scan EXCEPT ![p].at = "answered",
                          ![p].answer = [remembered[p][i].answer EXCEPT !.plane = "memory"]]
    <3>1. PICK i \in Recalled(p) :
               scan' = [scan EXCEPT ![p].at = "answered",
                          ![p].answer = [remembered[p][i].answer EXCEPT !.plane = "memory"]]
      BY <2>3
    <3> QED
      BY <3>1, <2>2
  <2> DEFINE hit == memo[MemoKey(p)]
             found == [Nothing EXCEPT !.from = hit.from, !.broken = hit.broken, !.plane = "disk"]
             listed == {f \in ScanFiles : hit.from[f] # NoSource}
  <2>4. CASE /\ hit \notin {NoMemo, TornMemo}
             /\ scan' = [scan EXCEPT ![p].at = "reread", ![p].unread = listed, ![p].answer = found]
    <3>1. hit \in Products
      BY <2>1, <2>4 DEF MemoTypes, MemoKey
    <3>2. found \in Answers
      BY <3>1, RecordsFit DEF Products, Answers
    <3> DEFINE s == [scan[p] EXCEPT !.at = "reread", !.unread = listed, !.answer = found]
    <3>3. scan' = [scan EXCEPT ![p] = s]
      BY <2>4
    <3>4. listed \in SUBSET ScanFiles
      OBVIOUS
    <3> HIDE DEF found, listed
    <3>5. s \in Scans /\ s.key \in Keys
      BY <1>a, <2>1, <3>2, <3>4 DEF Scans
    <3> HIDE DEF s
    <3> QED
      BY <3>3, <3>5, OneScanTypes
  <2> DEFINE known == {f \in ScanFiles : scan[p].key[f] # Unlisted}
             fresh == [scan[p].answer EXCEPT !.plane = "fresh"]
  <2>5. CASE scan' = [scan EXCEPT ![p].at = "read", ![p].unread = known, ![p].answer.plane = "fresh"]
    <3>1. fresh \in Answers
      BY <1>a DEF Scans, Answers
    <3> DEFINE s == [scan[p] EXCEPT !.at = "read", !.unread = known, !.answer = fresh]
    <3>2. scan' = [scan EXCEPT ![p] = s]
      BY <2>5
    <3>3. known \in SUBSET ScanFiles
      OBVIOUS
    <3> HIDE DEF fresh, known
    <3>4. s \in Scans /\ s.key \in Keys
      BY <1>a, <2>1, <3>1, <3>3 DEF Scans
    <3> HIDE DEF s
    <3> QED
      BY <3>2, <3>4, OneScanTypes
  <2> QED
    BY <1>5, <2>3, <2>4, <2>5 DEF LookUp
<1>6. ASSUME NEW p \in Scanners, NEW f \in ScanFiles, ReadSource(p, f) PROVE Goal
  <2> DEFINE t == [scan[p].answer.texts EXCEPT ![f] = source[f]]
             a == [scan[p].answer EXCEPT !.texts = t]
             s == [scan[p] EXCEPT !.unread = @ \ {f}, !.answer = a]
  <2>1. scan[p].answer.texts \in Readings
    BY <1>a DEF Scans, Answers
  <2>2. t \in Readings
    BY <2>1 DEF FileTypes, Readings
  <2>3. scan' = [scan EXCEPT ![p] = s]
    BY <1>6 DEF ReadSource
  <2> HIDE DEF t
  <2>4. a \in Answers
    BY <1>a, <2>2 DEF Scans, Answers
  <2> HIDE DEF a
  <2>5. scan[p].key \in Keys
    BY <1>6, <1>a DEF ReadSource
  <2>6. s \in Scans /\ s.key \in Keys
    BY <1>a, <2>4, <2>5 DEF Scans
  <2> HIDE DEF s
  <2>7. ScanTypes'
    BY <2>3, <2>6, OneScanTypes
  <2> QED
    BY <1>6, <1>b, <1>c, <1>d, <2>7 DEF ReadSource
<1>7. ASSUME NEW p \in Scanners, DiskHitEnds(p) PROVE Goal
  <2>1. scan[p].key \in Keys /\ scan[p].answer \in Answers
    BY <1>7, <1>a DEF DiskHitEnds, Scanning, Scans
  <2> DEFINE s == [scan[p] EXCEPT !.at = "answered"]
  <2>2. s \in Scans /\ s.key \in Keys
    BY <1>a, <2>1 DEF Scans
  <2>3. scan' = [scan EXCEPT ![p] = s]
    BY <1>7 DEF DiskHitEnds
  <2> HIDE DEF s
  <2>4. ScanTypes'
    BY <2>2, <2>3, OneScanTypes
  <2>5. MemoryTypes'
    BY <1>7, <2>1, RememberingTypes DEF DiskHitEnds
  <2> QED
    BY <1>7, <1>b, <1>c, <2>4, <2>5 DEF DiskHitEnds
<1>8. ASSUME NEW p \in Scanners, ScanEnds(p) PROVE Goal
  <2>1. scan[p].key \in Keys /\ scan[p].answer \in Answers
    BY <1>8, <1>a DEF ScanEnds, Scanning, Scans
  <2> DEFINE a == [scan[p].answer EXCEPT !.from = scan[p].answer.texts,
                                         !.broken = Cites(scan[p].answer.texts) \ present]
             s == [scan[p] EXCEPT !.at = "write", !.answer = a, !.named = TRUE]
  <2>2. scan[p].answer.texts \in Readings
    BY <2>1 DEF Answers
  <2>3. Cites(scan[p].answer.texts) \in SUBSET Targets
    BY <2>2, TargetsOfAssumption DEF Cites, Readings
  <2>4. a \in Answers
    BY <2>1, <2>2, <2>3 DEF Answers
  <2>5. /\ scan' = [scan EXCEPT ![p] = s]
        /\ remembered' = [remembered EXCEPT ![p] = RememberedAfter(p, a)]
        /\ memo' = [memo EXCEPT ![MemoKey(p)] = TornMemo]
    BY <1>8 DEF ScanEnds
  <2> HIDE DEF a
  <2>6. s \in Scans /\ s.key \in Keys
    BY <1>a, <2>1, <2>4 DEF Scans
  <2> HIDE DEF s
  <2>7. ScanTypes'
    BY <2>5, <2>6, OneScanTypes
  <2>8. MemoryTypes'
    BY <2>1, <2>4, <2>5, RememberingTypes
  <2>9. MemoTypes'
    BY <2>5 DEF MemoTypes
  <2> QED
    BY <1>8, <1>b, <2>7, <2>8, <2>9 DEF ScanEnds
<1>9. ASSUME NEW p \in Scanners, WriteMemo(p) PROVE Goal
  <2>1. scan[p].key \in Keys /\ scan[p].answer \in Answers
    BY <1>9, <1>a DEF WriteMemo, Scanning, Scans
  <2> DEFINE w == [from |-> scan[p].answer.from, broken |-> scan[p].answer.broken]
             s == [scan[p] EXCEPT !.at = "answered", !.named = FALSE]
  <2>2. w \in Products
    BY <2>1 DEF Answers, Products
  <2>3. \E found \in {memo[scan[p].key], w, TornMemo} : memo' = [memo EXCEPT ![scan[p].key] = found]
    BY <1>9 DEF WriteMemo
  <2> HIDE DEF w
  <2>4. MemoTypes'
    BY <2>1, <2>2, <2>3 DEF MemoTypes
  <2>5. s \in Scans /\ s.key \in Keys
    BY <1>a, <2>1 DEF Scans
  <2>6. scan' = [scan EXCEPT ![p] = s]
    BY <1>9 DEF WriteMemo
  <2> HIDE DEF s
  <2>7. ScanTypes'
    BY <2>5, <2>6, OneScanTypes
  <2> QED
    BY <1>9, <1>b, <1>d, <2>4, <2>7 DEF WriteMemo
<1>10. ASSUME NEW p \in Scanners, ResetCorpusMemo(p) PROVE Goal
  <2>1. \A q \in Scanners : scan'[q] = [scan[q] EXCEPT !.named = FALSE]
    BY <1>10 DEF ResetCorpusMemo
  <2>2. \A q \in Scanners : scan'[q] \in Scans /\ scan'[q].at = scan[q].at /\ scan'[q].key = scan[q].key
    <3> TAKE q \in Scanners
    <3>1. scan[q] \in Scans /\ scan'[q] = [scan[q] EXCEPT !.named = FALSE]
      BY <1>a, <2>1
    <3>2. scan'[q] \in Scans
      BY <3>1, FlagsCleared
    <3>3. scan'[q].at = scan[q].at /\ scan'[q].key = scan[q].key
      BY <3>1 DEF Scans
    <3> QED
      BY <3>2, <3>3
  <2>3. scan' \in [Scanners -> Scans]
    BY <1>10, <2>2 DEF ResetCorpusMemo
  <2>4. ScanTypes'
    BY <2>2, <2>3, AllScansTypes
  <2>5. MemoryTypes'
    BY <1>10, RememberedAssumption, EmptySeq DEF ResetCorpusMemo, MemoryTypes
  <2>6. MemoTypes'
    BY <1>10 DEF ResetCorpusMemo, MemoTypes
  <2> QED
    BY <1>10, <1>b, <2>4, <2>5, <2>6 DEF ResetCorpusMemo
<1>11. ASSUME NEW p \in Scanners, ProcessEnds(p) PROVE Goal
  <2>1. MemoryTypes'
    BY <1>11, RememberedAssumption, EmptySeq DEF ProcessEnds, MemoryTypes
  <2>2. ScanTypes'
    BY <1>11, RecordsFit, OneScanTypes DEF ProcessEnds
  <2> QED
    BY <1>11, <1>b, <1>c, <2>1, <2>2 DEF ProcessEnds
<1>12. CASE UNCHANGED corpusVars
  BY <1>12, <1>b, <1>c, <1>d DEF corpusVars, ScanTypes
<1> QED
  BY <1>1, <1>2, <1>3, <1>4, <1>5, <1>6, <1>7, <1>8, <1>9, <1>10, <1>11, <1>12 DEF CorpusNext

(* ------------------------------------------------------------------------ *)
(* What a step leaves sound.                                                 *)

(* No key has the stamp of an edit yet to come.                              *)
LEMMA EditKeepsFollowing ==
  ASSUME FileTypes, NEW f \in ScanFiles, NEW text, EditSource(f, text),
         NEW k, NEW t, NEW g \in ScanFiles, k[g] \in Int, Followed(k, t, g, Disk)
  PROVE  Followed(k, t, g, Disk')
<1>1. /\ Disk.edits = edits /\ Disk.stamp = stamp /\ Disk.source = source
      /\ Disk'.edits = edits + 1 /\ Disk'.stamp = [stamp EXCEPT ![f] = edits + 2]
      /\ Disk'.source = [source EXCEPT ![f] = text]
  BY DEF Disk, EditSource
<1>2. edits \in Int /\ stamp \in [ScanFiles -> Stamps] /\ DOMAIN source = ScanFiles
  BY CorpusBoundsAssumption DEF FileTypes, Readings
<1>3. /\ k[g] <= edits + 1
      /\ k[g] = stamp[g] => t[g] = source[g]
      /\ k[g] = Unlisted => t[g] = NoSource
  BY <1>1 DEF Followed
<1>4. CASE g = f
  <2>1. k[g] # Disk'.stamp[g] /\ k[g] <= Disk'.edits + 1
    BY <1>1, <1>2, <1>3, <1>4
  <2> QED
    BY <1>3, <2>1 DEF Followed
<1>5. CASE g # f
  <2>1. Disk'.stamp[g] = stamp[g] /\ Disk'.source[g] = source[g] /\ k[g] <= Disk'.edits + 1
    BY <1>1, <1>2, <1>3, <1>5
  <2> QED
    BY <1>3, <2>1 DEF Followed
<1> QED
  BY <1>4, <1>5

LEMMA DiskStays ==
  (UNCHANGED <<source, stamp, present, edits>>) => Disk' = Disk /\ (StampsAreUsed => StampsAreUsed')
BY DEF Disk, StampsAreUsed

LEMMA OneScanSound ==
  ASSUME ScanTypes, ScansAreSound, Disk' = Disk, NEW p \in Scanners, NEW s,
         scan' = [scan EXCEPT ![p] = s], SoundScan(s, Disk)
  PROVE  ScansAreSound'
<1>1. \A q \in Scanners : SoundScan(scan'[q], Disk)
  BY DEF ScanTypes, ScansAreSound
<1> QED
  BY <1>1 DEF ScansAreSound

LEMMA RememberingSound ==
  ASSUME MemoryTypes, MemoryIsSound, Disk' = Disk, NEW p \in Scanners, NEW a,
         Agrees(scan[p].key, a.texts, Disk), Agrees(scan[p].key, a.from, Disk),
         remembered' = [remembered EXCEPT ![p] = RememberedAfter(p, a)]
  PROVE  MemoryIsSound'
<1> DEFINE e == [key |-> MemoKey(p), answer |-> a]
           next == Append(remembered[p], e)
<1>1. SoundEntry(e, Disk)
  BY DEF SoundEntry, MemoKey
<1>2. /\ remembered[p] \in Seq(Entries)
      /\ \A i \in DOMAIN remembered[p] : SoundEntry(remembered[p][i], Disk)
  BY DEF MemoryTypes, MemoryIsSound
<1> DEFINE S == Entries \cup {e}
<1>3. remembered[p] \in Seq(S) /\ e \in S
  BY <1>2, SeqMonotonic
<1> HIDE DEF e, S
<1>4. /\ next \in Seq(S) /\ Len(next) = Len(remembered[p]) + 1 /\ Len(remembered[p]) \in Nat
      /\ \A i \in 1 .. Len(remembered[p]) : next[i] = remembered[p][i]
      /\ next[Len(remembered[p]) + 1] = e
  BY <1>3
<1>5. DOMAIN remembered[p] = 1 .. Len(remembered[p])
  BY <1>2, LenProperties
<1> HIDE DEF next
<1>6. \A i \in 1 .. Len(next) : SoundEntry(next[i], Disk)
  BY <1>1, <1>2, <1>4, <1>5
<1>7. /\ next # <<>> /\ Tail(next) \in Seq(S) /\ Len(Tail(next)) = Len(next) - 1
      /\ \A i \in 1 .. Len(Tail(next)) : Tail(next)[i] = next[i + 1]
  <2>1. next # <<>>
    BY <1>4
  <2> QED
    BY <1>4, <2>1, HeadTailProperties
<1>8. \A i \in 1 .. Len(Tail(next)) : SoundEntry(Tail(next)[i], Disk)
  BY <1>4, <1>6, <1>7
<1>9. DOMAIN next = 1 .. Len(next) /\ DOMAIN Tail(next) = 1 .. Len(Tail(next))
  BY <1>4, <1>7, LenProperties
<1>10. RememberedAfter(p, a) \in {next, Tail(next)}
  BY DEF RememberedAfter, next, e
<1>11. \A i \in DOMAIN RememberedAfter(p, a) : SoundEntry(RememberedAfter(p, a)[i], Disk)
  BY <1>6, <1>8, <1>9, <1>10
<1>12. \A q \in Scanners : \A i \in DOMAIN remembered'[q] : SoundEntry(remembered'[q][i], Disk)
  BY <1>11 DEF MemoryTypes, MemoryIsSound
<1> QED
  BY <1>12 DEF MemoryIsSound

(* A process that forgets everything.                                        *)
LEMMA ForgettingSound ==
  ASSUME MemoryTypes, MemoryIsSound, Disk' = Disk, NEW p \in Scanners,
         remembered' = [remembered EXCEPT ![p] = <<>>]
  PROVE  MemoryIsSound'
<1>1. \A q \in Scanners : \A i \in DOMAIN remembered'[q] : SoundEntry(remembered'[q][i], Disk)
  BY EmptySeq DEF MemoryTypes, MemoryIsSound
<1> QED
  BY <1>1 DEF MemoryIsSound

LEMMA UnstartedIsSound == ASSUME FileTypes PROVE SoundScan(Unstarted, Disk)
<1>1. /\ Unstarted.at = "idle" /\ ~Unstarted.quiet
      /\ \A f \in ScanFiles : Unstarted.key[f] = 0
  BY DEF Unstarted, Unlisted
<1>2. 0 <= Disk.edits + 1
  BY CorpusBoundsAssumption DEF Disk, FileTypes
<1> QED
  BY <1>1, <1>2 DEF SoundScan

(* A scan that does nothing while the disk d becomes e: it stays sound if what *)
(* its key follows stays followed, and no flag outlives what it tells of.      *)
LEMMA ScanStaysSound ==
  ASSUME NEW s, NEW r, NEW d, NEW e, SoundScan(s, d),
         r.at = s.at, r.key = s.key, r.unread = s.unread, r.answer = s.answer,
         \A f \in ScanFiles : s.key[f] <= e.edits + 1,
         \A t : \A f \in ScanFiles : Followed(s.key, t, f, d) => Followed(s.key, t, f, e),
         r.quiet => s.quiet /\ e.source = d.source /\ e.stamp = d.stamp,
         r.still => s.still /\ e.present = d.present
  PROVE  SoundScan(r, e)
<1>1. \A t : Agrees(s.key, t, d) => Agrees(s.key, t, e)
  BY DEF Agrees
<1>2. Reads(s, d) => Reads(r, e)
  BY DEF Reads
<1>3. r.quiet => KeyIsCurrent(r.key, e)
  BY DEF KeyIsCurrent, SoundScan
<1>4. r.at = "reread" => Agrees(r.key, r.answer.from, e) /\ r.answer.plane # "fresh"
  BY <1>1 DEF SoundScan
<1>5. r.at \in {"write", "answered"} =>
        Agrees(r.key, r.answer.texts, e) /\ Agrees(r.key, r.answer.from, e)
  BY <1>1 DEF SoundScan
<1>6. r.at \in {"write", "answered"} /\ r.still /\ r.answer.plane = "fresh" =>
        r.answer.broken = Cites(r.answer.texts) \ e.present
  BY DEF SoundScan
<1>7. r.at = "stat" => r.answer = Nothing
  BY DEF SoundScan
<1>8. r.at \in {"read", "reread"} => Reads(r, e)
  BY <1>2 DEF SoundScan
<1> QED
  BY <1>3, <1>4, <1>5, <1>6, <1>7, <1>8 DEF SoundScan

(* An edit of a file or a target: nothing that was followed is followed less.  *)
LEMMA EditsKeepSound ==
  ASSUME FileTypes, MemoTypes, MemoryTypes, ScanTypes, ScansAreSound, MemoryIsSound, MemosAreSound,
         \A k \in [ScanFiles -> Int] : \A t : \A f \in ScanFiles :
           Followed(k, t, f, Disk) => Followed(k, t, f, Disk'),
         edits' = edits + 1, UNCHANGED <<remembered, memo>>,
         \/ /\ \A q \in Scanners : scan'[q] = [scan[q] EXCEPT !.quiet = FALSE]
            /\ UNCHANGED present
         \/ /\ \A q \in Scanners : scan'[q] = [scan[q] EXCEPT !.still = FALSE]
            /\ UNCHANGED <<source, stamp>>
  PROVE  ScansAreSound' /\ MemoryIsSound' /\ MemosAreSound'
<1>1. \A k \in Keys : k \in [ScanFiles -> Int]
  BY CorpusBoundsAssumption DEF Keys, Stamps, Unlisted, Vanished
<1>2. \A k \in [ScanFiles -> Int] : \A t : Agrees(k, t, Disk) => Agrees(k, t, Disk')
  BY DEF Agrees
<1>3. MemosAreSound'
  <2>1. \A k \in Keys : memo[k] \notin {NoMemo, TornMemo} => Agrees(k, memo[k].from, Disk')
    BY <1>1, <1>2 DEF MemosAreSound
  <2> QED
    BY <2>1 DEF MemosAreSound
<1>4. MemoryIsSound'
  <2>1. ASSUME NEW q \in Scanners, NEW i \in DOMAIN remembered[q]
        PROVE  SoundEntry(remembered[q][i], Disk')
    <3>1. remembered[q][i] \in Entries
      BY ElementOfSeq DEF MemoryTypes
    <3>2. remembered[q][i].key \in [ScanFiles -> Int]
      BY <1>1, <3>1 DEF Entries
    <3>3. SoundEntry(remembered[q][i], Disk)
      BY DEF MemoryIsSound
    <3> QED
      BY <1>2, <3>2, <3>3 DEF SoundEntry
  <2> QED
    BY <2>1 DEF MemoryIsSound
<1>5. ASSUME NEW q \in Scanners PROVE SoundScan(scan'[q], Disk')
  <2>1. scan[q] \in Scans /\ SoundScan(scan[q], Disk)
    BY DEF ScanTypes, ScansAreSound
  <2>2. /\ scan'[q].at = scan[q].at /\ scan'[q].key = scan[q].key
        /\ scan'[q].unread = scan[q].unread /\ scan'[q].answer = scan[q].answer
    BY <2>1 DEF Scans
  <2>3. /\ scan'[q].quiet => scan[q].quiet /\ UNCHANGED <<source, stamp>>
        /\ scan'[q].still => scan[q].still /\ UNCHANGED present
    BY <2>1 DEF Scans
  <2>4. scan[q].key \in [ScanFiles -> Int]
    BY <2>1, CorpusBoundsAssumption DEF Scans, Stamps, Unlisted, Vanished, NotStated
  <2>5. /\ scan'[q].quiet => scan[q].quiet /\ Disk'.source = Disk.source /\ Disk'.stamp = Disk.stamp
        /\ scan'[q].still => scan[q].still /\ Disk'.present = Disk.present
        /\ Disk.edits = edits /\ Disk'.edits = edits + 1
    BY <2>3 DEF Disk
  <2>6. \A f \in ScanFiles : scan[q].key[f] <= Disk'.edits + 1
    <3>1. edits \in Int /\ \A f \in ScanFiles : scan[q].key[f] <= edits + 1 /\ scan[q].key[f] \in Int
      BY <2>1, <2>4, <2>5, CorpusBoundsAssumption DEF SoundScan, FileTypes
    <3> QED
      BY <3>1, <2>5
  <2>7. \A t : \A f \in ScanFiles :
          Followed(scan[q].key, t, f, Disk) => Followed(scan[q].key, t, f, Disk')
    BY <2>4
  <2> DEFINE r == scan'[q]
             e == Disk'
  <2>8. SoundScan(r, e)
    <3> HIDE DEF r, e
    <3>1. /\ r.at = scan[q].at /\ r.key = scan[q].key
          /\ r.unread = scan[q].unread /\ r.answer = scan[q].answer
          /\ r.quiet => scan[q].quiet /\ e.source = Disk.source /\ e.stamp = Disk.stamp
          /\ r.still => scan[q].still /\ e.present = Disk.present
          /\ \A f \in ScanFiles : scan[q].key[f] <= e.edits + 1
      BY <2>2, <2>5, <2>6 DEF r, e
    <3>2. \A t : \A f \in ScanFiles : Followed(scan[q].key, t, f, Disk) => Followed(scan[q].key, t, f, e)
      BY <2>7 DEF e
    <3> QED
      BY <2>1, <3>1, <3>2, ScanStaysSound
  <2> QED
    BY <2>8
<1>6. ScansAreSound'
  BY <1>5 DEF ScansAreSound
<1> QED
  BY <1>3, <1>4, <1>6

LEMMA CorpusInvStep == CorpusTypeOK /\ CorpusInv /\ [CorpusNext]_corpusVars => CorpusInv'
<1> SUFFICES ASSUME FileTypes, MemoTypes, MemoryTypes, ScanTypes,
                    StampsAreUsed, ScansAreSound, MemoryIsSound, MemosAreSound,
                    [CorpusNext]_corpusVars
             PROVE  StampsAreUsed' /\ ScansAreSound' /\ MemoryIsSound' /\ MemosAreSound'
  BY TypesAreFour DEF CorpusInv
<1> DEFINE Goal == StampsAreUsed' /\ ScansAreSound' /\ MemoryIsSound' /\ MemosAreSound'
<1>a. \A q \in Scanners : scan[q] \in Scans /\ SoundScan(scan[q], Disk)
  BY DEF ScanTypes, ScansAreSound
<1>b. (UNCHANGED <<source, stamp, present, edits>>) => Disk' = Disk /\ StampsAreUsed'
  BY DiskStays
<1>c. Disk' = Disk /\ (UNCHANGED memo) => MemosAreSound'
  BY DEF MemosAreSound
<1>d. Disk' = Disk /\ (UNCHANGED remembered) => MemoryIsSound'
  BY DEF MemoryIsSound
<1>e. /\ edits \in Nat
      /\ \A f \in ScanFiles : stamp[f] \in Nat \ {0} /\ stamp[f] <= edits + 1
      /\ Disk.edits = edits /\ Disk.stamp = stamp /\ Disk.source = source /\ Disk.present = present
  BY CorpusBoundsAssumption DEF FileTypes, StampsAreUsed, Disk, Stamps
<1>1. ASSUME NEW f \in ScanFiles, NEW text \in ScanTexts \cup {NoSource}, EditSource(f, text)
      PROVE  Goal
  <2>1. StampsAreUsed'
    BY <1>1, <1>e DEF EditSource, StampsAreUsed, FileTypes
  <2>2. ASSUME NEW k \in [ScanFiles -> Int], NEW t, NEW g \in ScanFiles, Followed(k, t, g, Disk)
        PROVE  Followed(k, t, g, Disk')
    <3>1. k[g] \in Int
      OBVIOUS
    <3> QED
      BY <1>1, <2>2, <3>1, EditKeepsFollowing
  <2>3. \A q \in Scanners : scan'[q] = [scan[q] EXCEPT !.quiet = FALSE]
    BY <1>1 DEF EditSource
  <2> QED
    BY <1>1, <2>1, <2>2, <2>3, EditsKeepSound DEF EditSource
<1>2. ASSUME NEW t \in Targets, ToggleTarget(t) PROVE Goal
  <2>1. StampsAreUsed'
    BY <1>2, <1>e DEF ToggleTarget, StampsAreUsed
  <2>2. ASSUME NEW k \in [ScanFiles -> Int], NEW u, NEW g \in ScanFiles, Followed(k, u, g, Disk)
        PROVE  Followed(k, u, g, Disk')
    <3>1. Disk'.edits = edits + 1 /\ Disk'.stamp = stamp /\ Disk'.source = source
      BY <1>2 DEF ToggleTarget, Disk
    <3> QED
      BY <2>2, <3>1, <1>e DEF Followed
  <2>3. \A q \in Scanners : scan'[q] = [scan[q] EXCEPT !.still = FALSE]
    BY <1>2 DEF ToggleTarget
  <2> QED
    BY <1>2, <2>1, <2>2, <2>3, EditsKeepSound DEF ToggleTarget
<1>3. ASSUME NEW p \in Scanners, ListFiles(p) PROVE Goal
  <2> DEFINE k == [f \in ScanFiles |-> IF source[f] = NoSource THEN Unlisted ELSE NotStated]
             s == [Unstarted EXCEPT !.at = "stat", !.quiet = TRUE, !.still = TRUE, !.key = k]
  <2>1. scan' = [scan EXCEPT ![p] = s] /\ UNCHANGED <<source, stamp, present, edits, remembered, memo>>
    BY <1>3 DEF ListFiles
  <2>2. s.at = "stat" /\ s.key = k /\ s.answer = Nothing
    BY DEF Unstarted
  <2>3. KeyIsCurrent(k, Disk) /\ \A f \in ScanFiles : k[f] <= Disk.edits + 1
    BY <1>e DEF KeyIsCurrent, Unlisted, NotStated
  <2> HIDE DEF s, k
  <2>4. SoundScan(s, Disk)
    BY <2>2, <2>3 DEF SoundScan
  <2> QED
    BY <1>b, <1>c, <1>d, <2>1, <2>4, OneScanSound
<1>4. ASSUME NEW p \in Scanners, NEW f \in ScanFiles, StatFile(p, f) PROVE Goal
  <2> DEFINE k == [scan[p].key EXCEPT ![f] = IF source[f] = NoSource THEN Vanished ELSE stamp[f]]
             s == [scan[p] EXCEPT !.key = k]
  <2>1. scan' = [scan EXCEPT ![p] = s] /\ UNCHANGED <<source, stamp, present, edits, remembered, memo>>
    BY <1>4 DEF StatFile
  <2>2. /\ scan[p].at = "stat" /\ scan[p].key[f] = NotStated /\ DOMAIN scan[p].key = ScanFiles
    BY <1>4, <1>a DEF StatFile, Scanning, Scans
  <2>3. s.at = "stat" /\ s.key = k /\ s.answer = scan[p].answer /\ s.quiet = scan[p].quiet
    BY <1>a, <2>2 DEF Scans
  <2>4. /\ \A g \in ScanFiles : scan[p].key[g] <= edits + 1
        /\ scan[p].answer = Nothing
        /\ scan[p].quiet => KeyIsCurrent(scan[p].key, Disk)
    BY <1>a, <1>e, <2>2 DEF SoundScan
  <2>5. \A g \in ScanFiles : k[g] <= Disk.edits + 1
    BY <1>e, <2>2, <2>4 DEF Vanished
  <2>6. scan[p].quiet => KeyIsCurrent(k, Disk)
    BY <1>e, <2>2, <2>4 DEF KeyIsCurrent, NotStated, Unlisted
  <2> HIDE DEF s, k
  <2>7. SoundScan(s, Disk)
    BY <2>3, <2>4, <2>5, <2>6 DEF SoundScan
  <2> QED
    BY <1>b, <1>c, <1>d, <2>1, <2>7, OneScanSound
<1>5. ASSUME NEW p \in Scanners, LookUp(p) PROVE Goal
  <2>1. /\ UNCHANGED <<source, stamp, present, edits, remembered, memo>>
        /\ \A f \in ScanFiles : scan[p].key[f] # NotStated
        /\ scan[p].at = "stat"
    BY <1>5 DEF LookUp, Scanning
  <2>2. scan[p].key \in Keys
    BY <1>a, <2>1 DEF Scans, Keys
  <2>3. /\ \A f \in ScanFiles : scan[p].key[f] <= Disk.edits + 1
        /\ scan[p].answer = Nothing
        /\ scan[p].quiet => KeyIsCurrent(scan[p].key, Disk)
    BY <1>a, <2>1 DEF SoundScan
  <2> SUFFICES ScansAreSound'
    BY <1>b, <1>c, <1>d, <2>1
  <2>4. CASE \E i \in Recalled(p) :
               scan' = [scan EXCEPT ![p].at = "answered",
                          ![p].answer = [remembered[p][i].answer EXCEPT !.plane = "memory"]]
    <3>1. PICK i \in Recalled(p) :
               scan' = [scan EXCEPT ![p].at = "answered",
                          ![p].answer = [remembered[p][i].answer EXCEPT !.plane = "memory"]]
      BY <2>4
    <3> DEFINE a == [remembered[p][i].answer EXCEPT !.plane = "memory"]
               s == [scan[p] EXCEPT !.at = "answered", !.answer = a]
    <3>2. scan' = [scan EXCEPT ![p] = s]
      BY <3>1
    <3>3. i \in DOMAIN remembered[p] /\ remembered[p][i].key = scan[p].key
      BY DEF Recalled, MemoKey
    <3>4. remembered[p][i] \in Entries /\ SoundEntry(remembered[p][i], Disk)
      BY <3>3, ElementOfSeq DEF MemoryTypes, MemoryIsSound
    <3>5. /\ a.texts = remembered[p][i].answer.texts /\ a.from = remembered[p][i].answer.from
          /\ a.plane = "memory"
      BY <3>4 DEF Entries, Answers
    <3> HIDE DEF a
    <3>6. s.at = "answered" /\ s.answer = a /\ s.key = scan[p].key /\ s.quiet = scan[p].quiet
      BY <1>a DEF Scans
    <3> HIDE DEF s
    <3>7. Agrees(s.key, s.answer.texts, Disk) /\ Agrees(s.key, s.answer.from, Disk)
      BY <3>3, <3>4, <3>5, <3>6 DEF SoundEntry
    <3>8. SoundScan(s, Disk)
      BY <2>3, <3>5, <3>6, <3>7 DEF SoundScan
    <3> QED
      BY <1>b, <2>1, <3>2, <3>8, OneScanSound
  <2> DEFINE hit == memo[MemoKey(p)]
             found == [Nothing EXCEPT !.from = hit.from, !.broken = hit.broken, !.plane = "disk"]
             listed == {f \in ScanFiles : hit.from[f] # NoSource}
  <2>5. CASE /\ hit \notin {NoMemo, TornMemo}
             /\ scan' = [scan EXCEPT ![p].at = "reread", ![p].unread = listed, ![p].answer = found]
    <3> DEFINE s == [scan[p] EXCEPT !.at = "reread", !.unread = listed, !.answer = found]
    <3>1. scan' = [scan EXCEPT ![p] = s]
      BY <2>5
    <3>2. Agrees(scan[p].key, hit.from, Disk)
      BY <2>2, <2>5 DEF MemosAreSound, MemoKey
    <3>3. found.texts = Unread /\ found.from = hit.from /\ found.plane = "disk"
      BY DEF Nothing
    <3>4. \A f \in ScanFiles : f \in listed <=> hit.from[f] # NoSource
      OBVIOUS
    <3> HIDE DEF found, listed
    <3>5. /\ s.at = "reread" /\ s.answer = found /\ s.key = scan[p].key
          /\ s.quiet = scan[p].quiet /\ s.unread = listed
      BY <1>a DEF Scans
    <3> HIDE DEF s, hit
    <3>6. Reads(s, Disk)
      BY <3>2, <3>3, <3>4, <3>5 DEF Reads, Agrees, Followed, Unread
    <3>7. SoundScan(s, Disk)
      BY <2>3, <3>2, <3>3, <3>5, <3>6 DEF SoundScan
    <3> QED
      BY <1>b, <2>1, <3>1, <3>7, OneScanSound
  <2> DEFINE known == {f \in ScanFiles : scan[p].key[f] # Unlisted}
             fresh == [scan[p].answer EXCEPT !.plane = "fresh"]
  <2>6. CASE scan' = [scan EXCEPT ![p].at = "read", ![p].unread = known, ![p].answer.plane = "fresh"]
    <3> DEFINE s == [scan[p] EXCEPT !.at = "read", !.unread = known, !.answer = fresh]
    <3>1. scan' = [scan EXCEPT ![p] = s]
      BY <2>6
    <3>2. fresh.texts = Unread
      BY <2>3 DEF Nothing
    <3>3. \A f \in ScanFiles : f \in known <=> scan[p].key[f] # Unlisted
      OBVIOUS
    <3> HIDE DEF fresh, known
    <3>4. /\ s.at = "read" /\ s.answer = fresh /\ s.key = scan[p].key
          /\ s.quiet = scan[p].quiet /\ s.unread = known
      BY <1>a DEF Scans
    <3> HIDE DEF s
    <3>5. Reads(s, Disk)
      BY <1>e, <2>3, <3>2, <3>3, <3>4 DEF Reads, Followed, Unread, Unlisted
    <3>6. SoundScan(s, Disk)
      BY <2>3, <3>4, <3>5 DEF SoundScan
    <3> QED
      BY <1>b, <2>1, <3>1, <3>6, OneScanSound
  <2> QED
    BY <1>5, <2>4, <2>5, <2>6 DEF LookUp
<1>6. ASSUME NEW p \in Scanners, NEW f \in ScanFiles, ReadSource(p, f) PROVE Goal
  <2> DEFINE t == [scan[p].answer.texts EXCEPT ![f] = source[f]]
             a == [scan[p].answer EXCEPT !.texts = t]
             s == [scan[p] EXCEPT !.unread = @ \ {f}, !.answer = a]
  <2>1. scan' = [scan EXCEPT ![p] = s] /\ UNCHANGED <<source, stamp, present, edits, remembered, memo>>
    BY <1>6 DEF ReadSource
  <2>2. scan[p].at \in {"read", "reread"} /\ f \in scan[p].unread
    BY <1>6 DEF ReadSource
  <2>3. scan[p].answer \in Answers /\ DOMAIN scan[p].answer.texts = ScanFiles
    BY <1>a DEF Scans, Answers, Readings
  <2>4. /\ t[f] = source[f]
        /\ \A g \in ScanFiles \ {f} : t[g] = scan[p].answer.texts[g]
    BY <2>3
  <2> HIDE DEF t
  <2>5. a.texts = t /\ a.from = scan[p].answer.from /\ a.plane = scan[p].answer.plane
    BY <2>3 DEF Answers
  <2> HIDE DEF a
  <2>6. /\ s.at = scan[p].at /\ s.key = scan[p].key /\ s.quiet = scan[p].quiet
        /\ s.answer = a /\ s.unread = scan[p].unread \ {f}
    BY <1>a DEF Scans
  <2> HIDE DEF s
  <2>7. Reads(scan[p], Disk) /\ \A g \in ScanFiles : scan[p].key[g] <= Disk.edits + 1
    BY <1>a, <2>2 DEF SoundScan
  <2>8. Reads(s, Disk)
    <3> SUFFICES ASSUME NEW g \in ScanFiles
                 PROVE  IF g \in s.unread THEN s.key[g] # Unlisted
                        ELSE Followed(s.key, s.answer.texts, g, Disk)
      BY DEF Reads
    <3>1. CASE g = f
      BY <1>e, <2>2, <2>4, <2>5, <2>6, <2>7, <3>1 DEF Reads, Followed
    <3>2. CASE g # f
      BY <2>4, <2>5, <2>6, <2>7, <3>2 DEF Reads, Followed
    <3> QED
      BY <3>1, <3>2
  <2>9. SoundScan(s, Disk)
    BY <1>a, <2>2, <2>5, <2>6, <2>7, <2>8 DEF SoundScan
  <2> QED
    BY <1>b, <1>c, <1>d, <2>1, <2>9, OneScanSound
<1>7. ASSUME NEW p \in Scanners, DiskHitEnds(p) PROVE Goal
  <2> DEFINE a == scan[p].answer
             s == [scan[p] EXCEPT !.at = "answered"]
  <2>1. /\ scan' = [scan EXCEPT ![p] = s] /\ UNCHANGED <<source, stamp, present, edits, memo>>
        /\ remembered' = [remembered EXCEPT ![p] = RememberedAfter(p, a)]
        /\ scan[p].at = "reread" /\ scan[p].unread = {}
    BY <1>7 DEF DiskHitEnds, Scanning
  <2>2. s.at = "answered" /\ s.key = scan[p].key /\ s.quiet = scan[p].quiet /\ s.answer = a
    BY <1>a DEF Scans
  <2>3. /\ Agrees(scan[p].key, a.texts, Disk) /\ Agrees(scan[p].key, a.from, Disk)
        /\ a.plane # "fresh"
    BY <1>a, <2>1 DEF SoundScan, Reads, Agrees
  <2> HIDE DEF s, a
  <2>4. SoundScan(s, Disk)
    BY <1>a, <2>2, <2>3 DEF SoundScan
  <2>5. ScansAreSound'
    BY <1>b, <2>1, <2>4, OneScanSound
  <2>6. MemoryIsSound'
    BY <1>b, <2>1, <2>3, RememberingSound
  <2> QED
    BY <1>b, <1>c, <2>1, <2>5, <2>6
<1>8. ASSUME NEW p \in Scanners, ScanEnds(p) PROVE Goal
  <2> DEFINE a == [scan[p].answer EXCEPT !.from = scan[p].answer.texts,
                                         !.broken = Cites(scan[p].answer.texts) \ present]
             s == [scan[p] EXCEPT !.at = "write", !.answer = a, !.named = TRUE]
  <2>1. /\ scan' = [scan EXCEPT ![p] = s] /\ UNCHANGED <<source, stamp, present, edits>>
        /\ remembered' = [remembered EXCEPT ![p] = RememberedAfter(p, a)]
        /\ memo' = [memo EXCEPT ![MemoKey(p)] = TornMemo]
        /\ scan[p].at = "read" /\ scan[p].unread = {}
    BY <1>8 DEF ScanEnds, Scanning
  <2>2. scan[p].answer \in Answers
    BY <1>a DEF Scans
  <2>3. /\ a.texts = scan[p].answer.texts /\ a.from = scan[p].answer.texts
        /\ a.broken = Cites(scan[p].answer.texts) \ present
    BY <2>2 DEF Answers
  <2> HIDE DEF a
  <2>4. s.at = "write" /\ s.key = scan[p].key /\ s.quiet = scan[p].quiet /\ s.answer = a
    BY <1>a DEF Scans
  <2> HIDE DEF s
  <2>5. Agrees(scan[p].key, a.texts, Disk) /\ Agrees(scan[p].key, a.from, Disk)
    BY <1>a, <2>1, <2>3 DEF SoundScan, Reads, Agrees
  <2>6. SoundScan(s, Disk)
    BY <1>a, <1>e, <2>3, <2>4, <2>5 DEF SoundScan
  <2>7. ScansAreSound'
    BY <1>b, <2>1, <2>6, OneScanSound
  <2>8. MemoryIsSound'
    BY <1>b, <2>1, <2>5, RememberingSound
  <2>9. MemosAreSound'
    <3>1. \A k \in Keys : memo'[k] \notin {NoMemo, TornMemo} => Agrees(k, memo'[k].from, Disk)
      BY <2>1 DEF MemoTypes, MemosAreSound
    <3> QED
      BY <1>b, <2>1, <3>1 DEF MemosAreSound
  <2> QED
    BY <1>b, <2>1, <2>7, <2>8, <2>9
<1>9. ASSUME NEW p \in Scanners, WriteMemo(p) PROVE Goal
  <2> DEFINE w == [from |-> scan[p].answer.from, broken |-> scan[p].answer.broken]
             s == [scan[p] EXCEPT !.at = "answered", !.named = FALSE]
  <2>1. /\ scan' = [scan EXCEPT ![p] = s] /\ UNCHANGED <<source, stamp, present, edits, remembered>>
        /\ scan[p].at = "write"
        /\ \E found \in {memo[scan[p].key], w, TornMemo} : memo' = [memo EXCEPT ![scan[p].key] = found]
    BY <1>9 DEF WriteMemo, Scanning
  <2>2. /\ s.at = "answered" /\ s.key = scan[p].key /\ s.quiet = scan[p].quiet
        /\ s.still = scan[p].still /\ s.answer = scan[p].answer
    BY <1>a DEF Scans
  <2>3. Agrees(scan[p].key, scan[p].answer.texts, Disk) /\ Agrees(scan[p].key, scan[p].answer.from, Disk)
    BY <1>a, <2>1 DEF SoundScan
  <2>4. w.from = scan[p].answer.from
    OBVIOUS
  <2> HIDE DEF s, w
  <2>5. SoundScan(s, Disk)
    BY <1>a, <2>1, <2>2, <2>3 DEF SoundScan
  <2>6. ScansAreSound'
    BY <1>b, <2>1, <2>5, OneScanSound
  <2>7. MemosAreSound'
    <3>1. \A k \in Keys : memo'[k] \notin {NoMemo, TornMemo} => Agrees(k, memo'[k].from, Disk)
      BY <2>1, <2>3, <2>4 DEF MemoTypes, MemosAreSound
    <3> QED
      BY <1>b, <2>1, <3>1 DEF MemosAreSound
  <2> QED
    BY <1>b, <1>d, <2>1, <2>6, <2>7
<1>10. ASSUME NEW p \in Scanners, ResetCorpusMemo(p) PROVE Goal
  <2>1. /\ \A q \in Scanners : scan'[q] = [scan[q] EXCEPT !.named = FALSE]
        /\ remembered' = [remembered EXCEPT ![p] = <<>>]
        /\ \A k \in Keys : memo'[k] = NoMemo
        /\ UNCHANGED <<source, stamp, present, edits>>
    BY <1>10 DEF ResetCorpusMemo
  <2>2. ASSUME NEW q \in Scanners PROVE SoundScan(scan'[q], Disk)
    <3>1. /\ scan'[q].at = scan[q].at /\ scan'[q].key = scan[q].key
          /\ scan'[q].unread = scan[q].unread /\ scan'[q].answer = scan[q].answer
          /\ scan'[q].quiet = scan[q].quiet /\ scan'[q].still = scan[q].still
      <4>1. scan'[q] = [scan[q] EXCEPT !.named = FALSE] /\ scan[q] \in Scans
        BY <1>a, <2>1
      <4> QED
        BY <4>1 DEF Scans
    <3> QED
      BY <1>a, <3>1 DEF SoundScan, Reads
  <2>3. ScansAreSound'
    BY <1>b, <2>1, <2>2 DEF ScansAreSound
  <2>4. MemoryIsSound'
    BY <1>b, <2>1, ForgettingSound
  <2>5. MemosAreSound'
    BY <2>1 DEF MemosAreSound
  <2> QED
    BY <1>b, <2>1, <2>3, <2>4, <2>5
<1>11. ASSUME NEW p \in Scanners, ProcessEnds(p) PROVE Goal
  <2>1. /\ scan' = [scan EXCEPT ![p] = Unstarted]
        /\ remembered' = [remembered EXCEPT ![p] = <<>>]
        /\ UNCHANGED <<source, stamp, present, edits, memo>>
    BY <1>11 DEF ProcessEnds
  <2>2. ScansAreSound'
    BY <1>b, <2>1, UnstartedIsSound, OneScanSound
  <2>3. MemoryIsSound'
    BY <1>b, <2>1, ForgettingSound
  <2> QED
    BY <1>b, <1>c, <2>1, <2>2, <2>3
<1>12. CASE UNCHANGED corpusVars
  BY <1>12, <1>b, <1>c, <1>d DEF corpusVars, ScansAreSound
<1> QED
  BY <1>1, <1>2, <1>3, <1>4, <1>5, <1>6, <1>7, <1>8, <1>9, <1>10, <1>11, <1>12 DEF CorpusNext

LEMMA CorpusStarts == CorpusInit => CorpusTypeOK /\ CorpusInv
<1> SUFFICES ASSUME CorpusInit
             PROVE  CorpusTypeOK /\ CorpusInv
  OBVIOUS
<1>1. FileTypes
  BY CorpusBoundsAssumption DEF CorpusInit, FileTypes, Readings, Stamps
<1>2. MemoTypes /\ MemosAreSound
  BY DEF CorpusInit, MemoTypes, MemosAreSound
<1>3. \A p \in Scanners : remembered[p] = <<>>
  BY DEF CorpusInit
<1>4. ASSUME NEW p \in Scanners
      PROVE  remembered[p] \in Seq(Entries) /\ Len(remembered[p]) <= MaxRemembered
  <2>1. <<>> \in Seq(Entries) /\ Len(<<>>) = 0
    BY EmptySeq
  <2>2. remembered[p] \in Seq(Entries) /\ Len(remembered[p]) = 0
    BY <1>3, <2>1, Zenon
  <2>3. 0 <= MaxRemembered
    BY RememberedAssumption
  <2> QED
    BY <2>2, <2>3
<1>5. MemoryTypes
  BY <1>4 DEF CorpusInit, MemoryTypes
<1>6. \A p \in Scanners : DOMAIN remembered[p] = {}
  BY <1>3, EmptySeq
<1>7. MemoryIsSound
  BY <1>6 DEF MemoryIsSound
<1>8. scan \in [Scanners -> Scans] /\ \A p \in Scanners : scan[p] = Unstarted
  BY RecordsFit DEF CorpusInit
<1>9. ScanTypes /\ ScansAreSound
  BY <1>1, <1>8, RecordsFit, UnstartedIsSound DEF ScanTypes, ScansAreSound
<1>10. StampsAreUsed
  BY DEF CorpusInit, StampsAreUsed
<1> QED
  BY <1>1, <1>2, <1>5, <1>7, <1>9, <1>10, TypesAreFour DEF CorpusInv

(* Files, keys, memos and scans keep their types, for any number of processes, *)
(* files and edits.                                                            *)
THEOREM CorpusTypes_OK == CorpusSpec => []CorpusTypeOK
<1>1. CorpusInit => CorpusTypeOK
  BY CorpusStarts
<1>2. CorpusTypeOK /\ [CorpusNext]_corpusVars => CorpusTypeOK'
  BY CorpusTypesStep
<1> QED
  BY <1>1, <1>2, PTL DEF CorpusSpec

(* A text that follows the key of the files as they are is the text on disk.   *)
LEMMA CurrentKeyCurrentTexts ==
  ASSUME FileTypes, NEW k \in Keys, KeyIsCurrent(k, Disk),
         NEW t \in Readings, Agrees(k, t, Disk)
  PROVE  t = source
<1>1. ASSUME NEW f \in ScanFiles PROVE t[f] = source[f]
  <2>1. Followed(k, t, f, Disk)
    BY DEF Agrees
  <2>2. Disk.source[f] = source[f]
    BY DEF Disk
  <2>3. k[f] # NotStated
    BY CorpusBoundsAssumption DEF Keys, Stamps, Unlisted, Vanished, NotStated
  <2>4. IF Disk.source[f] = NoSource THEN k[f] = Unlisted ELSE k[f] = Disk.stamp[f]
    BY <2>3 DEF KeyIsCurrent
  <2> QED
    BY <2>1, <2>2, <2>4 DEF Followed
<1> QED
  BY <1>1 DEF FileTypes, Readings

LEMMA SoundScansAnswerTheDisk == CorpusTypeOK /\ CorpusInv => QuietScanAnswersTheDisk
<1> SUFFICES ASSUME FileTypes, ScanTypes, ScansAreSound,
                    NEW p \in Scanners, scan[p].at = "answered", scan[p].quiet
             PROVE  /\ scan[p].answer.texts = source
                    /\ scan[p].answer.from = source
                    /\ scan[p].answer.plane = "fresh" /\ scan[p].still =>
                         scan[p].answer.broken = Cites(source) \ present
  BY TypesAreFour DEF CorpusInv, QuietScanAnswersTheDisk, Scanning
<1>1. scan[p] \in Scans /\ scan[p].key \in Keys
  BY DEF ScanTypes
<1>2. scan[p].answer.texts \in Readings /\ scan[p].answer.from \in Readings
  BY <1>1 DEF Scans, Answers
<1>3. SoundScan(scan[p], Disk)
  BY DEF ScansAreSound
<1>4. /\ Agrees(scan[p].key, scan[p].answer.texts, Disk)
      /\ Agrees(scan[p].key, scan[p].answer.from, Disk)
      /\ KeyIsCurrent(scan[p].key, Disk)
      /\ scan[p].still /\ scan[p].answer.plane = "fresh" =>
           scan[p].answer.broken = Cites(scan[p].answer.texts) \ Disk.present
  BY <1>3 DEF SoundScan
<1>5. scan[p].answer.texts = source /\ scan[p].answer.from = source
  BY <1>1, <1>2, <1>4, CurrentKeyCurrentTexts
<1>6. Disk.present = present
  BY DEF Disk
<1> QED
  BY <1>4, <1>5, <1>6

(* A scan during which no file changed answers with the texts on disk and with *)
(* a product made of them, from whichever plane, for any number of processes,  *)
(* files and edits.                                                            *)
THEOREM QuietScans == CorpusSpec => []QuietScanAnswersTheDisk
<1>1. CorpusInit => CorpusTypeOK /\ CorpusInv
  BY CorpusStarts
<1>2. CorpusTypeOK /\ CorpusInv /\ [CorpusNext]_corpusVars => (CorpusTypeOK /\ CorpusInv)'
  BY CorpusTypesStep, CorpusInvStep
<1>3. CorpusTypeOK /\ CorpusInv => QuietScanAnswersTheDisk
  BY SoundScansAnswerTheDisk
<1> QED
  BY <1>1, <1>2, <1>3, PTL DEF CorpusSpec

=============================================================================

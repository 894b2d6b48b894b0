----------------------------- MODULE MCCommands ------------------------------
(* Small instances of the command line's parts for TLC: two processes of one   *)
(* kind, the edits of one sequence, a rename over three surfaces of which one  *)
(* cites, or two scanners of one file.                                         *)
(* The parts share no state, so a behaviour runs one of them, chosen at the    *)
(* start, and the others keep an initial state.                                *)
EXTENDS PulseWrite, CliSessionCache, MemDump, EditSequence, PathRename,
        CorpusMemo, TLC

CONSTANTS plain, neat, p1, p2, note, spec, c1, c2, x, y, s1, s2, s3, Parts

VARIABLE part

mcVars == <<pulseVars, cliVars, memVars, editVars, renameVars, corpusVars, part>>

(* The rules bring either text into one form. *)
MCRewritten == [t \in Texts |-> neat]

(* One file changes its content, the other comes and goes. *)
MCContentsOf == [n \in MemFiles |-> IF n = note THEN {c1, c2} ELSE {x}]

(* All sources of up to three lines of two contents. *)
MCSources == SeqOf({plain, neat}, 3)
MCInsertions == {<<>>, <<plain, neat>>}

(* Surfaces in the root, in a directory and below it; citations that reach     *)
(* them up, down and from the root; files and directories that move away, into *)
(* each other and one after the other.                                         *)
MCRoot == <<"w">>
Path(p) == MCRoot \o p
MCPlaces == {Path(<<"x">>), Path(<<"d", "x">>), Path(<<"d", "y">>), Path(<<"d", "e", "x">>)}
Spelt(segs) == [route |-> FALSE, segs |-> segs]
MCCited ==
  {Spelt(<<"x">>), Spelt(<<".", "x">>), Spelt(<<"d", "x">>), Spelt(<<"e", "x">>),
   Spelt(<<"..", "x">>), Spelt(<<"..", "d", "y">>), Spelt(<<".", "e", "x">>),
   Spelt(<<"..", "..", "x">>), [route |-> TRUE, segs |-> <<"d", "x">>]}
Move(a, b) == [from |-> Path(a), to |-> Path(b)]
MCPlans ==
  {<<Move(<<"x">>, <<"y">>)>>, <<Move(<<"x">>, <<"d", "y">>)>>,
   <<Move(<<"x">>, <<"d", "f", "y">>)>>, <<Move(<<"d">>, <<"e">>)>>,
   <<Move(<<"d", "e">>, <<"f">>)>>, <<Move(<<"d", "x">>, <<"y">>)>>,
   <<Move(<<"x">>, <<"y">>), Move(<<"d">>, <<"f">>)>>,
   <<Move(<<"x">>, <<"y">>), Move(<<"d", "e">>, <<"f">>)>>,
   <<Move(<<"d", "e">>, <<"f">>), Move(<<"d">>, <<"g">>)>>,
   <<Move(<<"x">>, <<"d", "z">>), Move(<<"d">>, <<"f">>)>>,
   <<Move(<<"d">>, <<"f">>), Move(<<"x">>, <<"d", "z">>)>>,
   <<Move(<<"x">>, <<"y">>), Move(<<"d", "x">>, <<"y">>)>>}

(* One file, whose text x cites the one target; it starts with that text, and *)
(* the target starts missing.                                                 *)
MCTargetsOf == [t \in ScanTexts |-> IF t = x THEN Targets ELSE {}]

Symmetry == Permutations({p1, p2}) \cup Permutations({c1, c2})

MCInit ==
  /\ part \in Parts
  /\ PulseInit /\ CliInit /\ MemInit /\ EditInit /\ RenameInit /\ CorpusInit
  /\ part # "pulse" => \A n \in Files : disk[n].text = neat
  /\ part # "mem" => runtime = Empty
  /\ part # "edits" => base = <<>>
  /\ part # "rename" =>
       /\ place = s1 :> Path(<<"x">>) @@ s2 :> Path(<<"d", "x">>) @@ s3 :> Path(<<"d", "y">>)
       /\ cites[s1] = Spelt(<<"x">>)
  /\ present = {} /\ \A f \in ScanFiles : source[f] = x

MCNext ==
  /\ part' = part
  /\ \/ /\ part = "pulse" /\ PulseNext
        /\ UNCHANGED <<cliVars, memVars, editVars, renameVars, corpusVars>>
     \/ /\ part = "cache" /\ CliNext
        /\ UNCHANGED <<pulseVars, memVars, editVars, renameVars, corpusVars>>
     \/ /\ part = "mem" /\ MemNext
        /\ UNCHANGED <<pulseVars, cliVars, editVars, renameVars, corpusVars>>
     \/ /\ part = "edits" /\ EditNext
        /\ UNCHANGED <<pulseVars, cliVars, memVars, renameVars, corpusVars>>
     \/ /\ part = "rename" /\ RenameNext
        /\ UNCHANGED <<pulseVars, cliVars, memVars, editVars, corpusVars>>
     \/ /\ part = "memo" /\ CorpusNext
        /\ UNCHANGED <<pulseVars, cliVars, memVars, editVars, renameVars>>

MCSpec == MCInit /\ [][MCNext]_mcVars

=============================================================================

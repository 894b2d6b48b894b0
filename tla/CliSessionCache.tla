--------------------------- MODULE CliSessionCache ---------------------------
(* The session cache of the command line (session/workspace-cache.ts): cards   *)
(* and products, one pair of files per id, and an index, shared by commands    *)
(* that take no lock.  A file is opened, which empties it, and then written;   *)
(* a command may crash in between, and another may read or remove it there.    *)
(*                                                                             *)
(* An id is a hash of what is banked under it, so a product is the same        *)
(* whoever writes it.  index.spw and the text of cards are for readers only.   *)
(* The entries each process also holds in memory reach no file: left out, and  *)
(* with them the lookups and the listing, which only read.                     *)
EXTENDS Integers, Sequences, SequencesExt

CONSTANTS
  Commands,       \* running processes
  Ids,            \* ids of deltas, patches and stencils
  NoEntry,        \* of a command that banks nothing
  MaxListed       \* entries the index keeps; 64 in the code

ASSUME NoEntryAssumption == NoEntry \notin Ids
ASSUME ListedAssumption == MaxListed \in Nat \ {0}

IndexFile == <<"index", "json">>
FileNames == Ids \X {"card", "product"} \cup {IndexFile}

VARIABLES
  cards,          \* ids with a card on disk
  product,        \* id -> its product on disk: none, torn or whole
  index,          \* what readIndex answers: <<>> for a missing or torn file too
  commands,       \* command -> its state
  banked,         \* ids banked, with no clear since the bank began
  disturbed       \* a clear has overlapped a bank, or was cut short

cliVars == <<cards, product, index, commands, banked, disturbed>>

(* at       what the command does next                                         *)
(* id       what it banks                                                      *)
(* named    the file it has open is still the one of that name                 *)
(* clean    no clear has run since its bank began                              *)
(* entries  the index as it read it                                            *)
(* doomed   files its clear has listed and not removed yet                     *)
Resting == [at |-> "idle", id |-> NoEntry, named |-> FALSE, clean |-> FALSE,
            entries |-> <<>>, doomed |-> {}]

CliInit ==
  /\ cards = {} /\ product = [id \in Ids |-> "none"] /\ index = <<>>
  /\ commands = [c \in Commands |-> Resting]
  /\ banked = {} /\ disturbed = FALSE

At(c, where) == commands[c].at = where
Banking(c) == commands[c].at \in {"product", "writeProduct", "readIndex", "index", "writeIndex"}
Clearing(c) == commands[c].at \in {"remove", "emptyIndex"}

-----------------------------------------------------------------------------
(* persistEntry: the card, the product, then the index, read and rewritten.    *)

Bank(c, id) ==
  /\ At(c, "idle")
  /\ cards' = cards \cup {id}
  /\ commands' = [commands EXCEPT
       ![c] = [@ EXCEPT !.at = "product", !.id = id,
                        !.clean = \A d \in Commands : ~Clearing(d)]]
  /\ disturbed' = (disturbed \/ \E d \in Commands : Clearing(d))
  /\ UNCHANGED <<product, index, banked>>

OpenProduct(c) ==
  /\ At(c, "product")
  /\ product' = [product EXCEPT ![commands[c].id] = "torn"]
  /\ commands' = [commands EXCEPT ![c].at = "writeProduct", ![c].named = TRUE]
  /\ UNCHANGED <<cards, index, banked, disturbed>>

WriteProduct(c) ==
  /\ At(c, "writeProduct")
  /\ product' = IF commands[c].named
                THEN [product EXCEPT ![commands[c].id] = "whole"] ELSE product
  /\ commands' = [commands EXCEPT ![c].at = "readIndex"]
  /\ UNCHANGED <<cards, index, banked, disturbed>>

ReadIndex(c) ==
  /\ At(c, "readIndex")
  /\ commands' = [commands EXCEPT ![c].at = "index", ![c].entries = index]
  /\ UNCHANGED <<cards, product, index, banked, disturbed>>

(* Opening empties the file under everybody who reads it now. *)
OpenIndex(c) ==
  /\ At(c, "index")
  /\ index' = <<>>
  /\ commands' = [commands EXCEPT ![c].at = "writeIndex", ![c].named = TRUE]
  /\ UNCHANGED <<cards, product, banked, disturbed>>

(* The entries of an index without those of id. *)
EntriesBut(entries, id) ==
  LET but[n \in 0 .. Len(entries)] ==
        IF n = 0 THEN <<>>
        ELSE IF entries[n] = id THEN but[n - 1] ELSE Append(but[n - 1], entries[n])
  IN  but[Len(entries)]

(* The entry banked goes first, and the oldest beyond MaxListed go. *)
Listing(c) ==
  LET next == <<commands[c].id>> \o EntriesBut(commands[c].entries, commands[c].id)
  IN  SubSeq(next, 1, IF Len(next) > MaxListed THEN MaxListed ELSE Len(next))

(* What is found after a command wrote entries: over what another has written  *)
(* since the file was opened, the longer text shows its tail and nothing       *)
(* parses; a file removed meanwhile is written for nobody.                     *)
IndexAfter(c, entries) ==
  IF ~commands[c].named THEN {index}
  ELSE IF index = <<>> THEN {entries} ELSE {entries, <<>>}

(* Mutant: products the index no longer lists are removed with their entries. *)
WriteIndexPruning(c) ==
  /\ At(c, "writeIndex")
  /\ index' \in IndexAfter(c, Listing(c))
  /\ product' = [id \in Ids |-> IF id \in ToSet(Listing(c)) THEN product[id] ELSE "none"]
  /\ banked' = IF commands[c].clean THEN banked \cup {commands[c].id} ELSE banked
  /\ commands' = [commands EXCEPT ![c] = Resting]
  /\ UNCHANGED <<cards, disturbed>>

WriteIndex(c) ==
  /\ At(c, "writeIndex")
  /\ index' \in IndexAfter(c, Listing(c))
  /\ banked' = IF commands[c].clean THEN banked \cup {commands[c].id} ELSE banked
  /\ commands' = [commands EXCEPT ![c] = Resting]
  /\ UNCHANGED <<cards, product, disturbed>>

-----------------------------------------------------------------------------
(* clearCliCache: names are listed once, files removed one by one, and an      *)
(* empty index is written.                                                     *)

Clear(c) ==
  /\ At(c, "idle")
  /\ commands' = [d \in Commands |->
       IF d = c
       THEN [commands[c] EXCEPT !.at = "remove", !.entries = index,
               !.doomed = cards \X {"card"} \cup {IndexFile}
                          \cup {id \in Ids : product[id] # "none"} \X {"product"}]
       ELSE [commands[d] EXCEPT !.clean = FALSE]]
  /\ disturbed' = (disturbed \/ \E d \in Commands : Banking(d))
  /\ banked' = {}
  /\ UNCHANGED <<cards, product, index>>

(* Whoever has the file open goes on writing a file without a name. *)
RemoveFile(c, name) ==
  LET writing == {d \in Commands :
                    IF name = IndexFile THEN At(d, "writeIndex") \/ At(d, "emptyIndex")
                    ELSE At(d, "writeProduct") /\ name = <<commands[d].id, "product">>}
  IN  /\ At(c, "remove")
      /\ name \in commands[c].doomed
      /\ cards' = IF name[2] = "card" THEN cards \ {name[1]} ELSE cards
      /\ product' = IF name[2] = "product" THEN [product EXCEPT ![name[1]] = "none"] ELSE product
      /\ index' = IF name = IndexFile THEN <<>> ELSE index
      /\ commands' = [d \in Commands |->
           [commands[d] EXCEPT !.doomed = IF d = c THEN @ \ {name} ELSE @,
                               !.named = @ /\ d \notin writing]]
      /\ UNCHANGED <<banked, disturbed>>

OpenIndexToEmpty(c) ==
  /\ At(c, "remove") /\ commands[c].doomed = {}
  /\ index' = <<>>
  /\ commands' = [commands EXCEPT ![c].at = "emptyIndex", ![c].named = TRUE]
  /\ UNCHANGED <<cards, product, banked, disturbed>>

WriteEmptyIndex(c) ==
  /\ At(c, "emptyIndex")
  /\ index' \in IndexAfter(c, <<>>)
  /\ commands' = [commands EXCEPT ![c] = Resting]
  /\ UNCHANGED <<cards, product, banked, disturbed>>

-----------------------------------------------------------------------------
(* Reading an entry, and the end of a process. *)

(* getCliCacheEntry: a card without a readable product is an entry to look at, *)
(* not to apply.                                                               *)
OnDisk(id) ==
  IF product[id] = "whole" THEN "full" ELSE IF id \in cards THEN "card" ELSE "nothing"

(* A process crashes, and another one takes its place.  A product cut *)
(* short is lost to every bank of that id.                                     *)
Crash(c) ==
  LET cut == IF At(c, "writeProduct") THEN {commands[c].id} ELSE {} IN
  /\ ~At(c, "idle")
  /\ commands' = [d \in Commands |->
       IF d = c THEN Resting
       ELSE [commands[d] EXCEPT !.clean = @ /\ commands[d].id \notin cut]]
  /\ banked' = banked \ cut
  /\ disturbed' = (disturbed \/ Clearing(c))
  /\ UNCHANGED <<cards, product, index>>

CliNext ==
  \E c \in Commands :
    \/ \E id \in Ids : Bank(c, id)
    \/ OpenProduct(c) \/ WriteProduct(c) \/ ReadIndex(c) \/ OpenIndex(c) \/ WriteIndex(c)
    \/ Clear(c) \/ OpenIndexToEmpty(c) \/ WriteEmptyIndex(c) \/ Crash(c)
    \/ \E name \in FileNames : RemoveFile(c, name)

CliSpec == CliInit /\ [][CliNext]_cliVars

-----------------------------------------------------------------------------
(* Properties. *)

(* Files, indexes and commands are ones the program has. *)
CliTypeOK ==
  /\ cards \subseteq Ids
  /\ product \in [Ids -> {"none", "torn", "whole"}]
  /\ index \in Seq(Ids) /\ Len(index) <= MaxListed
  /\ banked \subseteq Ids
  /\ disturbed \in BOOLEAN
  /\ \A c \in Commands :
       /\ commands[c].id \in Ids \cup {NoEntry}
       /\ commands[c].doomed \subseteq FileNames
       /\ Banking(c) \/ Clearing(c) \/ At(c, "idle")

(* A lost entry of the index costs a line of the listing, never a product:     *)
(* what was banked is found by its id, in full, however the index fared, until *)
(* a clear runs.  (A bank of the same id may be rewriting it just now.)        *)
BankedIsFound ==
  \A id \in banked :
    OnDisk(id) = "full" \/ \E c \in Commands : At(c, "writeProduct") /\ commands[c].id = id

(* What the index lists has its product, unless a clear is running, has        *)
(* overlapped a bank, or was cut short.                                        *)
ListedIsBanked ==
  ~disturbed /\ (\A c \in Commands : ~Clearing(c)) =>
    \A id \in ToSet(index) : product[id] # "none"

(* Cards, products and index lead to each other in both ways. *)
CacheLeadsToProducts == BankedIsFound /\ ListedIsBanked
=============================================================================

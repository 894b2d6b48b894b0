----------------------------- MODULE HotSession ------------------------------
(* A hot runtime session (session/hot-session.ts): an evaluate plane and an    *)
(* inspect plane, both beat caches, and the handles of what was cited.         *)
(*                                                                             *)
(* A source text is asked for under a dialect, given or detected, and prepared *)
(* under it; the dialects l and q collapse newlines, so two texts may be       *)
(* prepared alike, and one be what another is prepared to. A content hash      *)
(* names the text it is the hash of. What an option other than the dialect     *)
(* adds to a key (path, profile, scheme) is the same for every request of the  *)
(* model, the tier is the dialect's, and one cap holds for both planes. The    *)
(* effects of an evaluation on the shared registers are not modelled here.     *)
EXTENDS BeatPlane

CONSTANTS
  Sources,        \* texts callers hold
  Dialects,
  Prepared,       \* <<source, dialect>> -> the text after preprocessing
  Remembers,      \* dialect -> whether the inspect plane keeps its cards
  Tier,           \* dialect -> the tier its products are kept in
  Volatility,     \* dialect -> volatility of its grain, in hundredths
  ForgetBeats,    \* beats by which invalidateAll ages both planes
  MaxBeats        \* bound of the model: beats of one tick

Texts == Sources \cup {Prepared[a] : a \in Sources \X Dialects}

(* Products.  A card or an evaluation is made of the text as given (form), the *)
(* text as prepared and the dialect.                                           *)
Product(s, d) == [form |-> s, text |-> Prepared[<<s, d>>], dialect |-> d]

Products == [form : Sources, text : Texts, dialect : Dialects]

(* Mutant: the key leaves the dialect out. *)
ProductKeyWithoutDialect(s, d) ==
  [text |-> Prepared[<<s, d>>], dialect |-> CHOOSE x \in Dialects : TRUE]

(* cacheKey: the hash of the prepared text, and the dialect. *)
ProductKey(s, d) == [text |-> Prepared[<<s, d>>], dialect |-> d]

ASSUME PreparedAssumption == DOMAIN Prepared = Sources \X Dialects
ASSUME DialectsAssumption ==
  /\ Remembers \in [Dialects -> BOOLEAN]
  /\ Tier \in [Dialects -> Tiers]
  /\ Volatility \in [Dialects -> 0 .. 100]
ASSUME PlanesAssumption ==
  \A s \in Sources, d \in Dialects :
    ProductKey(s, d) \in CacheKeys /\ Product(s, d) \in CacheValues
ASSUME ForgetAssumption == ForgetBeats \in Nat

VARIABLES
  cache,          \* the evaluate plane
  inspectCache,   \* the inspect plane
  handles         \* what was cited: name -> handle

sessionVars == <<cache, inspectCache, handles>>

(* A handle is filed under its ref (which has the dialect), under its pointer  *)
(* @bc:<hash> and under the bare hash, the hash being the card's form.         *)
Names == [by : {"ref"}, form : Sources, dialect : Dialects]
           \cup [by : {"pointer", "hash"}, form : Sources]

(* Mutant: the pointer names the text as prepared. *)
PointerToPrepared(h) == [by |-> "pointer", form |-> h.card.text]

RefName(h)     == [by |-> "ref", form |-> h.form, dialect |-> h.dialect]
PointerName(h) == [by |-> "pointer", form |-> h.form]
HashName(h)    == [by |-> "hash", form |-> h.form]

(* source: the text cited; form and dialect: those of the ref; card: the       *)
(* record it was inspected as.                                                 *)
Handle == [source : Sources, form : Sources, dialect : Dialects, card : Products]

-----------------------------------------------------------------------------
(* Both planes run on one clock. *)
ClockTick(n, ev, in) == [cache |-> Ticked(ev, n), inspectCache |-> Ticked(in, n)]

(* tick adds floor(volatility * 2); inspect passes a quarter of the grain's    *)
(* volatility on a hit and half of it on a miss, past a threshold.             *)
HitBeats(d)  == IF Volatility[d] > 50 THEN Volatility[d] \div 200 ELSE 0
MissBeats(d) == IF Volatility[d] > 40 THEN Volatility[d] \div 100 ELSE 0

(* inspect(s) under d: the outcomes, each a card and the planes it leaves. *)
Inspections(s, d, recompute) ==
  LET key    == ProductKey(s, d)
      reads  == Remembers[d] /\ ~recompute
      looked == IF reads THEN Got(inspectCache, key) ELSE inspectCache
      kept   == IF Remembers[d] THEN Stored(looked, key, Product(s, d), Tier[d])
                ELSE {looked}
  IN  IF reads /\ Finds(inspectCache, key)
      THEN {[card |-> inspectCache[key].value,
             planes |-> ClockTick(HitBeats(d), cache, looked)]}
      ELSE {[card |-> Product(s, d), planes |-> ClockTick(MissBeats(d), cache, p)] : p \in kept}

(* evaluate(s) under d: the evaluate planes it may leave, from plane ev. *)
Evaluations(ev, s, d, recompute) ==
  LET key    == ProductKey(s, d)
      looked == IF recompute THEN ev ELSE Got(ev, key)
  IN  IF ~recompute /\ Finds(ev, key) THEN {looked}
      ELSE Stored(looked, key, Product(s, d), Tier[d])

-----------------------------------------------------------------------------
(* Operations. *)

SessionInit ==
  /\ cache = [k \in {} |-> {}]
  /\ inspectCache = [k \in {} |-> {}]
  /\ handles = [n \in {} |-> {}]

SessionTick(n) ==
  /\ cache' = Ticked(cache, n)
  /\ inspectCache' = Ticked(inspectCache, n)
  /\ UNCHANGED handles

Evaluate(s, d, recompute) ==
  /\ cache' \in Evaluations(cache, s, d, recompute)
  /\ UNCHANGED <<inspectCache, handles>>

Inspect(s, d, recompute) ==
  /\ \E r \in Inspections(s, d, recompute) :
       cache' = r.planes.cache /\ inspectCache' = r.planes.inspectCache
  /\ UNCHANGED handles

File(h, names) ==
  handles' = [n \in DOMAIN handles \cup names |-> IF n \in names THEN h ELSE handles[n]]

Cite(s, d, recompute) ==
  \E r \in Inspections(s, d, recompute) :
    LET h == [source |-> s, form |-> r.card.form, dialect |-> r.card.dialect,
              card |-> r.card]
    IN  /\ cache' = r.planes.cache
        /\ inspectCache' = r.planes.inspectCache
        /\ File(h, {RefName(h), PointerName(h), HashName(h)})

(* follow reads its source again, under the dialect the caller of follow gives *)
(* or the one detected, not the one cited; only the pointer names the result.  *)
(* At grain `point` follow only returns the handle; collapse is a follow that  *)
(* runs.                                                                       *)
Follow(name, d, recompute, run) ==
  LET h == handles[name] IN
  \E r \in Inspections(h.source, d, recompute) :
    /\ cache' \in IF run THEN Evaluations(r.planes.cache, h.source, d, recompute)
                  ELSE {r.planes.cache}
    /\ inspectCache' = r.planes.inspectCache
    /\ File([h EXCEPT !.card = r.card], {PointerName(h)})

(* invalidateAll ages both planes past every tier and empties the handles. *)
InvalidateAll ==
  /\ cache' = Ticked(cache, ForgetBeats)
  /\ inspectCache' = Ticked(inspectCache, ForgetBeats)
  /\ handles' = [n \in {} |-> {}]

(* The planes drop the keys of the hash; the handles, those whose ref or name  *)
(* has it.                                                                     *)
InvalidateContentHash(text) ==
  LET keys == {k \in CacheKeys : k.text = text} IN
  /\ cache' = Without(cache, keys)
  /\ inspectCache' = Without(inspectCache, keys)
  /\ handles' = Without(handles, {n \in DOMAIN handles : handles[n].form = text \/ n.form = text})

SessionNext ==
  \/ \E n \in 1 .. MaxBeats : SessionTick(n)
  \/ \E s \in Sources, d \in Dialects, recompute \in BOOLEAN :
       Evaluate(s, d, recompute) \/ Inspect(s, d, recompute) \/ Cite(s, d, recompute)
  \/ \E name \in DOMAIN handles, d \in Dialects, recompute, run \in BOOLEAN :
       Follow(name, d, recompute, run)
  \/ InvalidateAll
  \/ \E text \in Texts : InvalidateContentHash(text)

SessionSpec == SessionInit /\ [][SessionNext]_sessionVars

-----------------------------------------------------------------------------
(* Properties. *)

(* Planes and handles range over keys, names, products and handles. *)
SessionTypeOK ==
  /\ IsPlane(cache)
  /\ IsPlane(inspectCache)
  /\ DOMAIN handles \subseteq Names
  /\ handles \in [DOMAIN handles -> Handle]

(* A hit answers for another text, if at all, only for one that the dialect    *)
(* prepares alike: under its key a plane holds what was made of such a text    *)
(* under that dialect, whichever request filled it.  So what is read off the   *)
(* prepared text (the parse, the evaluation) is as computed afresh, and a      *)
(* product lies under the hash by which invalidateContentHash drops it.        *)
HeldFor(p) ==
  \A k \in DOMAIN p :
    LET v == p[k].value IN
    v.text = k.text /\ v.dialect = k.dialect /\ Prepared[<<v.form, v.dialect>>] = k.text

HitIsOfAnAlikeText == HeldFor(cache) /\ HeldFor(inspectCache)

(* Two texts that a dialect prepares alike. *)
Alike(s, t, d) == Prepared[<<s, d>>] = Prepared[<<t, d>>]

(* A handle is found under the form of its ref, and its source, that form and  *)
(* the form of its card stay alike, each under the dialect it was read in,     *)
(* however often it was followed in other dialects, evicted and read again;    *)
(* under its ref and the bare hash it keeps the card it was cited with.        *)
HandlesKeepTheirText ==
  \A n \in DOMAIN handles :
    LET h == handles[n] IN
    /\ n.form = h.form
    /\ Alike(h.source, h.form, h.dialect)
    /\ Alike(h.source, h.card.form, h.card.dialect)
    /\ n.by # "pointer" => h.card = Product(h.form, h.dialect)

(* What the documentation says of the planes                                   *)
(* (docs/theory/spw/cache-field.spw:30): "A hit must return the same answer as *)
(* a cold recompute; key bugs are correctness bugs."                           *)
HitIsRecomputation ==
  \A s \in Sources, d \in Dialects :
    LET key == ProductKey(s, d) IN
    /\ key \in DOMAIN cache => cache[key].value = Product(s, d)
    /\ key \in DOMAIN inspectCache => inspectCache[key].value = Product(s, d)
=============================================================================

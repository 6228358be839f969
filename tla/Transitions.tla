----------------------------- MODULE Transitions -----------------------------
(***************************************************************************)
(* What an update does to the fields of one entity, and what the tables    *)
(* then say of it: the assignment of each field under its schema           *)
(* (app/schemas/state_schemas.py), TransitionValidator                     *)
(* (app/transitions/transition_validator.py), which is there to be asked   *)
(* before an update and never is, the recorded transitions with their      *)
(* diffs, and get_diff, which reads two rows, one after the other          *)
(* (app/state/postgres_store.py).                                          *)
(*                                                                         *)
(* Updates come one at a time and no store fails: StateManager has them    *)
(* overlap and fail.  What PostgreSQL refuses here is a value.             *)
(***************************************************************************)
EXTENDS Integers

CONSTANTS
    Types,       \* the entity's type is one of these
    Raw,         \* the values that an update may carry
    Diffs,       \* the calls of get_diff, each made once
    Decoding,    \* how a connection returns a JSONB column: "text" or "json"
    MaxVersion,  \* bounds the versions
    None

\* A value stands for a case that the checks tell apart: floats (a NaN is one, and
\* is neither below nor above any bound; json.dumps writes it as the token NaN,
\* which json.loads takes and JSONB does not), true, a text that spells a number,
\* texts ("first" and "second" belong to the enumeration of the field, "nul" holds
\* a NUL character, which JSONB does not take), lists of texts ("[nul]" holds such
\* a text).
Numbers == {"0", "0.5", "1", "2", "nan"}
Unit    == {"0", "0.5", "1"}
Texts   == {"first", "second", "unlisted", "nul", "'0.5'"}
Lists   == {"[]", "[a]", "[nul]"}
Values  == Numbers \union Texts \union Lists \union {"true"}

\* Of the fields, those that the validator looks at.
FieldsOf ==
    [global |-> {"system_status", "active_engines"},
     engine |-> {"health", "load"},
     funnel |-> {"lifecycle_stage", "conversion_rate"}]

Enumerated == {"system_status", "lifecycle_stage"}
Numeric    == {"load", "conversion_rate"}

\* The keys of states and diffs, and what stands under them.
Keys  == (UNION {FieldsOf[t] : t \in DOMAIN FieldsOf}) \union {"version"}
Cells == Values \union Nat

ASSUME TransitionsAssumption ==
    /\ Types \subseteq {"global", "engine", "funnel"}
    /\ Raw \subseteq Values
    /\ Decoding # {} /\ Decoding \subseteq {"text", "json"}
    /\ MaxVersion \in Nat
    /\ \A keys \in SUBSET Keys : None \notin [keys -> [old : Cells, new : Cells]]

VARIABLES
    type,         \* the entity's type
    cache,        \* Redis: the state, or None
    rows,         \* table state
    transitions,  \* table state_transitions
    pc,           \* where the update under way is
    previous,     \* the state it read, or None
    new,          \* the state it computed, or None
    vetted,       \* would the validator have accepted every update so far?
    at,           \* where each get_diff is
    asked,        \* the two versions it was asked for
    fetched,      \* the first row it read, or None
    answer        \* the diff it returned, or None

update == <<pc, previous, new, vetted>>
diffs  == <<at, asked, fetched, answer>>
vars   == <<type, cache, rows, transitions, update, diffs>>

Fields == FieldsOf[type]

-----------------------------------------------------------------------------
(***************************************************************************)
(* The schemas.                                                            *)
(***************************************************************************)

\* pydantic turns a number's text, and true, into the number.
Coerced(f, v) ==
    IF f \notin Numeric THEN v
    ELSE CASE v = "'0.5'" -> "0.5"
           [] v = "true"  -> "1"
           [] OTHER       -> v

\* The values that each field may hold: a rate of a funnel is any float, NaN
\* included, while the bounds of a load refuse a NaN; the health of an engine is
\* any text.
Domain(f) ==
    CASE f \in Enumerated        -> {"first", "second"}
      [] f = "health"            -> Texts
      [] f = "active_engines"    -> Lists
      [] f = "load"              -> Unit
      [] f = "conversion_rate"   -> Numbers

Accepts(u) == \A f \in DOMAIN u \intersect Fields : Coerced(f, u[f]) \in Domain(f)

DefaultOf(f) ==
    CASE f \in Numeric          -> "0"
      [] f = "active_engines"   -> "[]"
      [] OTHER                  -> "first"

\* A state holds its version under the key "version", as its row does.
DefaultState == [k \in Fields \union {"version"} |->
                   IF k = "version" THEN 1 ELSE DefaultOf(k)]

\* Bug: the values are kept as they came.
AppliedRaw(s, u) ==
    [k \in DOMAIN s |-> CASE k = "version"  -> s[k] + 1
                          [] k \in DOMAIN u -> u[k]
                          [] OTHER          -> s[k]]

\* The setattr loop, which skips the keys that are no attribute, then the version.
Applied(s, u) ==
    [k \in DOMAIN s |-> CASE k = "version"  -> s[k] + 1
                          [] k \in DOMAIN u -> Coerced(k, u[k])
                          [] OTHER          -> s[k]]

\* Does JSONB take the state?
Storable(s) == \A f \in Fields : s[f] \notin {"nul", "[nul]", "nan"}

-----------------------------------------------------------------------------
(***************************************************************************)
(* TransitionValidator.                                                    *)
(***************************************************************************)

\* Bug: the bounds of a rating (0 to 5) are used for a rate.
ValidRatedTo5(f, v) ==
    CASE f \in Enumerated \union {"health"} -> v \in {"first", "second"}
      [] f = "active_engines"               -> v \in Lists
      [] f = "load"                         -> v \in Unit \union {"true", "nan"}
      [] f = "conversion_rate"              -> v \in Numbers \union {"true"}

\* isinstance(v, (int, float)) also holds of true, and of no text; a NaN passes,
\* as neither v < 0 nor v > 1 holds of it.
Valid(f, v) ==
    CASE f \in Enumerated \union {"health"} -> v \in {"first", "second"}
      [] f = "active_engines"               -> v \in Lists
      [] f \in Numeric                      -> v \in Unit \union {"true", "nan"}

\* validate
Validates(u) == \A f \in DOMAIN u \intersect Fields : Valid(f, u[f])

-----------------------------------------------------------------------------
(***************************************************************************)
(* The diff of two states, alike in both files.                            *)
(***************************************************************************)

NoDiff == [k \in {} |-> None]

\* What is "modified": the keys and both values.  Two states of an entity have
\* the same keys, so nothing is ever "added" or "removed".
ComputeDiff(old, nu) ==
    [k \in {k \in DOMAIN old \intersect DOMAIN nu : old[k] # nu[k]} |->
        [old |-> old[k], new |-> nu[k]]]

\* Bug: ON CONFLICT (entity_type, entity_id) DO NOTHING.
InsertOnce(saved, s) == IF saved = {} THEN {s} ELSE saved

\* save_state
Upsert(saved, s) == {x \in saved : x["version"] # s["version"]} \union {s}

Latest(saved) ==
    CHOOSE s \in saved : \A x \in saved : x["version"] <= s["version"]

\* get_state with a version: 0 counts as none and asks for the latest row.
RowOf(v) ==
    CASE rows = {}            -> None
      [] rows # {} /\ v = 0   -> Latest(rows)
      [] rows # {} /\ v # 0   ->
            IF \E s \in rows : s["version"] = v
            THEN CHOOSE s \in rows : s["version"] = v
            ELSE None

-----------------------------------------------------------------------------
Init ==
    /\ type \in Types
    /\ cache = None /\ rows = {} /\ transitions = {}
    /\ pc = "idle" /\ previous = None /\ new = None
    /\ vetted = TRUE
    /\ at      = [d \in Diffs |-> "new"]
    /\ asked   = [d \in Diffs |-> None]
    /\ fetched = [d \in Diffs |-> None]
    /\ answer  = [d \in Diffs |-> None]

\* The keys of an update: one field, two, or a key that is no attribute.
KeySets == {{f, g} : f, g \in Fields} \union {{"unknown"}}

\* What get_state finds for the update: a cached state, no row (and so the
\* default), or a row, if the connection decodes it.
Readable ==
    IF cache # None THEN {cache}
    ELSE IF rows = {} THEN {DefaultState}
    ELSE IF "json" \in Decoding THEN {Latest(rows)} ELSE {}

\* update_*_state reads the state, assigns the fields, and writes it to Redis.  An
\* update that the schema rejects, or a row that comes back as text, raises before
\* anything is written.
Update ==
    /\ pc = "idle"
    /\ \E s \in Readable : \E ks \in KeySets : \E u \in [ks -> Raw] :
          /\ s["version"] < MaxVersion
          /\ Accepts(u)
          /\ previous' = s
          /\ new' = Applied(s, u)
          /\ cache' = new'
          /\ vetted' = (vetted /\ Validates(u))
    /\ pc' = "save"
    /\ UNCHANGED <<type, rows, transitions, diffs>>

Finish == pc' = "idle" /\ previous' = None /\ new' = None

\* "Save to PostgreSQL"
Save ==
    /\ pc = "save" /\ Storable(new)
    /\ rows' = Upsert(rows, new)
    /\ pc' = "record"
    /\ UNCHANGED <<type, cache, transitions, previous, new, vetted, diffs>>

\* PostgreSQL refuses the value: the update raises, and Redis keeps its state.
SaveRefused ==
    /\ pc = "save" /\ ~Storable(new)
    /\ Finish
    /\ UNCHANGED <<type, cache, rows, transitions, vetted, diffs>>

\* The transition's diff is computed from the two states and saved, with both of
\* them: JSONB has to take the previous one as well, which may come from Redis.
Record ==
    /\ pc = "record" /\ Storable(previous)
    /\ transitions' = transitions \union
          {[before |-> new["version"] - 1, after |-> new["version"],
            diff |-> ComputeDiff(previous, new)]}
    /\ Finish
    /\ UNCHANGED <<type, cache, rows, vetted, diffs>>

\* An event without a trace parent, with which the transition cannot be built, or
\* a previous state that PostgreSQL refuses: the update raises, and is saved.
Unrecorded ==
    /\ pc = "record"
    /\ Finish
    /\ UNCHANGED <<type, cache, rows, transitions, vetted, diffs>>

\* The TTL runs out, or Redis restarts.
Expire ==
    /\ cache # None
    /\ cache' = None
    /\ UNCHANGED <<type, rows, transitions, update, diffs>>

-----------------------------------------------------------------------------
(***************************************************************************)
(* get_diff                                                                *)
(***************************************************************************)

Ask(d) ==
    /\ at[d] = "new"
    /\ \E from, to \in 0..MaxVersion : asked' = [asked EXCEPT ![d] = <<from, to>>]
    /\ at' = [at EXCEPT ![d] = "first"]
    /\ UNCHANGED <<type, cache, rows, transitions, update, fetched, answer>>

\* from_state = await self.get_state(...)
FetchFrom(d) ==
    /\ at[d] = "first"
    /\ fetched' = [fetched EXCEPT ![d] = RowOf(asked[d][1])]
    /\ at' = [at EXCEPT ![d] = "second"]
    /\ UNCHANGED <<type, cache, rows, transitions, update, asked, answer>>

\* Bug: the two rows are compared the wrong way round.
FetchToReversed(d) ==
    /\ at[d] = "second"
    /\ "json" \in Decoding
    /\ LET row == RowOf(asked[d][2]) IN
          /\ fetched[d] # None /\ row # None
          /\ answer' = [answer EXCEPT ![d] = ComputeDiff(row, fetched[d])]
    /\ at' = [at EXCEPT ![d] = "answered"]
    /\ UNCHANGED <<type, cache, rows, transitions, update, asked, fetched>>

\* to_state = await self.get_state(...), and then the diff of the two.
FetchTo(d) ==
    /\ at[d] = "second"
    /\ "json" \in Decoding
    /\ LET row == RowOf(asked[d][2]) IN
          /\ fetched[d] # None /\ row # None
          /\ answer' = [answer EXCEPT ![d] = ComputeDiff(fetched[d], row)]
    /\ at' = [at EXCEPT ![d] = "answered"]
    /\ UNCHANGED <<type, cache, rows, transitions, update, asked, fetched>>

\* One of the rows is missing: None, and the route answers 404.
Missing(d) ==
    /\ at[d] = "second"
    /\ fetched[d] = None \/ RowOf(asked[d][2]) = None
    /\ at' = [at EXCEPT ![d] = "missing"]
    /\ UNCHANGED <<type, cache, rows, transitions, update, asked, fetched, answer>>

\* Both rows are there, and one is text, which has no keys().
Undecoded(d) ==
    /\ at[d] = "second"
    /\ "text" \in Decoding
    /\ fetched[d] # None /\ RowOf(asked[d][2]) # None
    /\ at' = [at EXCEPT ![d] = "raised"]
    /\ UNCHANGED <<type, cache, rows, transitions, update, asked, fetched, answer>>

Next ==
    \/ Update \/ Save \/ SaveRefused \/ Record \/ Unrecorded \/ Expire
    \/ \E d \in Diffs : Ask(d) \/ FetchFrom(d) \/ FetchTo(d) \/ Missing(d) \/ Undecoded(d)

Spec == Init /\ [][Next]_vars

-----------------------------------------------------------------------------
(***************************************************************************)
(* Properties.                                                             *)
(***************************************************************************)

IsState(s) ==
    /\ DOMAIN s = Fields \union {"version"}
    /\ s["version"] \in 1..MaxVersion
    /\ \A f \in Fields : s[f] \in Domain(f)

TypeOK ==
    /\ type \in Types
    /\ \A s \in rows \union ({cache, previous, new} \ {None}) : IsState(s)
    /\ \A t \in transitions : t.after \in 2..MaxVersion /\ t.before = t.after - 1
    /\ pc \in {"idle", "save", "record"}
    /\ vetted \in BOOLEAN
    /\ \A d \in Diffs :
          /\ at[d] \in {"new", "first", "second", "answered", "missing", "raised"}
          /\ answer[d] # None <=> at[d] = "answered"

\* The recorded transitions that lead from version a to version b, and whether
\* none is missing.
Path(a, b)     == {t \in transitions : a <= t.before /\ t.after <= b}
Complete(a, b) == \A v \in a + 1 .. b : \E t \in Path(a, b) : t.after = v

\* The transitions that changed k, and the diffs of a path put together: the old
\* value of the first and the new value of the last, unless they are the same.
Touching(path, k) == {t \in path : k \in DOMAIN t.diff}
First(ts) == CHOOSE t \in ts : \A x \in ts : t.after <= x.after
Last(ts)  == CHOOSE t \in ts : \A x \in ts : x.after <= t.after

Composed(path) ==
    LET ends == [k \in {k \in Fields \union {"version"} : Touching(path, k) # {}} |->
                    [old |-> First(Touching(path, k)).diff[k].old,
                     new |-> Last(Touching(path, k)).diff[k].new]]
    IN  [k \in {k \in DOMAIN ends : ends[k].old # ends[k].new} |-> ends[k]]

Inverted(diff) == [k \in DOMAIN diff |-> [old |-> diff[k].new, new |-> diff[k].old]]

\* The diff between two versions is the recorded diffs in between put together,
\* or that undone when the versions are asked for backwards, although get_diff
\* reads two rows at two moments and computes them anew.  It compares the versions
\* it was asked for, 0 standing for the latest row.
DiffAgreesWithTransitions ==
    \A d \in Diffs : at[d] = "answered" =>
        LET from == asked[d][1]
            to   == asked[d][2]
            diff == answer[d]
        IN  IF "version" \in DOMAIN diff
            THEN LET a == diff["version"].old
                     b == diff["version"].new
                 IN  /\ from \in {0, a} /\ to \in {0, b}
                     /\ a < b /\ Complete(a, b) => diff = Composed(Path(a, b))
                     /\ b < a /\ Complete(b, a) => diff = Inverted(Composed(Path(b, a)))
            ELSE diff = NoDiff /\ (from = to \/ 0 \in {from, to})

\* The ranges that the states are documented with, and what is left of them in
\* Redis, where the rate of a funnel may also be a NaN.
InRange(s) ==
    \A f \in Fields : /\ f \in Numeric => s[f] \in Unit
                      /\ f \in Enumerated \union {"health"} => s[f] \in {"first", "second"}

InRangeOrNaN(s) ==
    \A f \in Fields :
        /\ f \in Numeric => s[f] \in Unit \/ (f = "conversion_rate" /\ s[f] = "nan")
        /\ f \in Enumerated \union {"health"} => s[f] \in {"first", "second"}

\* What asking the validator before every update would be worth: whatever the
\* schemas turn the values into, the saved rates and loads would be between 0 and
\* 1 and the health of an engine one of the four, and so would the cached ones but
\* for a NaN rate, which neither the validator nor the schema refuses, and which
\* stays in Redis because JSONB does.
VettedStatesAreInRange ==
    vetted => /\ \A s \in rows : InRange(s)
              /\ cache # None => InRangeOrNaN(cache)

\* If no store fails, the cache is ahead of the table between updates only by a
\* value that PostgreSQL refuses, and then until an update replaces the value or
\* the key expires: updates of other fields in between are refused with it.
UnsavedHoldsRefused ==
    pc = "idle" /\ cache # None /\ cache \notin rows => ~Storable(cache)
=============================================================================

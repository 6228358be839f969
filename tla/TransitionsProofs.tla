-------------------------- MODULE TransitionsProofs --------------------------
(***************************************************************************)
(* Theorems about Transitions: for any entity type, any values, any number *)
(* of updates and of calls of get_diff.                                    *)
(***************************************************************************)
EXTENDS Transitions, TLAPS

V(s) == s["version"]

-----------------------------------------------------------------------------
(***************************************************************************)
(* The inductive invariant.                                                *)
(***************************************************************************)

Functional == /\ at = [d \in Diffs |-> at[d]] /\ asked = [d \in Diffs |-> asked[d]]
              /\ fetched = [d \in Diffs |-> fetched[d]] /\ answer = [d \in Diffs |-> answer[d]]

UpdateOK ==
    /\ type \in Types /\ vetted \in BOOLEAN /\ pc \in {"idle", "save", "record"}
    /\ \A s \in rows : IsState(s)
    /\ cache # None => IsState(cache)
    /\ IF pc = "idle" THEN previous = None /\ new = None
       ELSE IsState(previous) /\ IsState(new) /\ V(new) = V(previous) + 1

\* Rows are added in the order of their versions, and a state that was read but
\* is not the row of its version is newer than all rows.
RowsOK ==
    /\ \A x, y \in rows : V(x) = V(y) => x = y
    /\ rows # {} => \E s \in rows : \A x \in rows : V(x) <= V(s)
    /\ cache # None => \A x \in rows : V(x) <= V(cache) /\ (V(x) = V(cache) => x = cache)
    /\ pc # "idle" => /\ cache \in {new, None}
                      /\ \A x \in rows : V(x) = V(previous) => x = previous
    /\ pc = "save" => \A x \in rows : V(x) < V(new)
    /\ pc = "record" => new \in rows /\ \A x \in rows : V(x) <= V(new)

\* A transition belongs to a row, and no two to the same.
TransitionsOK ==
    /\ \A t \in transitions : t.after \in 2..MaxVersion /\ t.before = t.after - 1
    /\ \A t \in transitions : \E x \in rows : V(x) = t.after
    /\ \A t, u \in transitions : t.after = u.after => t = u
    /\ pc = "record" => \A t \in transitions : t.after # V(new)

RangeOK ==
    vetted => /\ \A s \in rows : InRange(s)
              /\ cache # None => InRangeOrNaN(cache)
              /\ pc # "idle" => InRangeOrNaN(new)

\* Along a path without gaps, what no diff mentions has not changed, and what
\* some diffs mention went from the first old value to the last new one.
IsFirst(t, ts) == t \in ts /\ \A x \in ts : t.after <= x.after
IsLast(t, ts)  == t \in ts /\ \A x \in ts : x.after <= t.after

Traced(x, y, k, ts) ==
    \/ ts = {} /\ x[k] = y[k]
    \/ \E t, u \in ts : /\ IsFirst(t, ts) /\ t.diff[k].old = x[k]
                        /\ IsLast(u, ts) /\ u.diff[k].new = y[k]

PathOK ==
    \A x, y \in rows : V(x) <= V(y) /\ Complete(V(x), V(y)) =>
        \A k \in Fields \union {"version"} : Traced(x, y, k, Touching(Path(V(x), V(y)), k))

\* A get_diff has read rows of the versions that it was asked for.
Answers(v, x) == x \in rows /\ v \in {0, V(x)}

DiffOK(d) ==
    /\ at[d] \in {"new", "first", "second", "answered", "missing", "raised"}
    /\ answer[d] # None <=> at[d] = "answered"
    /\ at[d] \in {"first", "second", "answered"} =>
          asked[d] \in (0..MaxVersion) \X (0..MaxVersion)
    /\ at[d] = "second" /\ fetched[d] # None => Answers(asked[d][1], fetched[d])
    /\ at[d] = "answered" =>
          \E x, y \in rows : /\ Answers(asked[d][1], x) /\ Answers(asked[d][2], y)
                             /\ answer[d] = ComputeDiff(x, y)

DiffsOK == \A d \in Diffs : DiffOK(d)

TransInv ==
    /\ Functional /\ UpdateOK /\ RowsOK /\ TransitionsOK /\ RangeOK
    /\ UnsavedHoldsRefused /\ PathOK /\ DiffsOK

-----------------------------------------------------------------------------
(***************************************************************************)
(* Lemmas about states.                                                    *)
(***************************************************************************)

LEMMA FieldsShape ==
    ASSUME type \in Types
    PROVE  Fields \subseteq {"system_status", "active_engines", "health", "load",
                             "lifecycle_stage", "conversion_rate"}
BY TransitionsAssumption DEF Fields, FieldsOf

\* The states of an entity have the same keys, and no field is the version.
LEMMA StateShape ==
    ASSUME type \in Types, NEW s, IsState(s)
    PROVE  /\ "version" \notin Fields
           /\ DOMAIN s = Fields \union {"version"}
           /\ V(s) \in 1..MaxVersion /\ V(s) \in Nat
           /\ \A k \in Fields \union {"version"} : s[k] \in Cells
<1>1. "version" \notin Fields
  BY FieldsShape
<1>2. \A f \in Fields : Domain(f) \subseteq Cells
  BY FieldsShape DEF Domain, Cells, Values, Enumerated, Texts, Lists, Unit, Numbers
<1>3. V(s) \in 1..MaxVersion /\ V(s) \in Nat
  BY TransitionsAssumption DEF IsState, V
<1> QED
  BY <1>1, <1>2, <1>3 DEF IsState, V, Cells

\* The default is a state in range.
LEMMA DefaultOK ==
    ASSUME type \in Types, 1 <= MaxVersion
    PROVE  IsState(DefaultState) /\ V(DefaultState) = 1 /\ InRangeOrNaN(DefaultState)
<1>1. "version" \notin Fields
  BY FieldsShape
<1>2. DOMAIN DefaultState = Fields \union {"version"} /\ V(DefaultState) = 1
      /\ \A f \in Fields : DefaultState[f] = DefaultOf(f)
  BY <1>1 DEF DefaultState, V
<1>3. \A f \in Fields : DefaultOf(f) \in Domain(f)
  BY FieldsShape DEF DefaultOf, Domain, Enumerated, Numeric, Texts, Lists, Unit, Numbers
<1>4. \A f \in Fields : /\ f \in Numeric => DefaultOf(f) \in Unit
                        /\ f \in Enumerated \union {"health"} => DefaultOf(f) \in {"first", "second"}
  BY FieldsShape DEF DefaultOf, Enumerated, Numeric, Unit
<1>5. 1 \in 1..MaxVersion
  BY TransitionsAssumption
<1> QED
  BY <1>2, <1>3, <1>4, <1>5 DEF IsState, V, InRangeOrNaN

\* What the validator accepts is in range, whatever pydantic makes of it, or a NaN
\* that the schema lets through.
LEMMA ValidIsInRange ==
    ASSUME type \in Types, NEW f \in Fields, NEW v, Coerced(f, v) \in Domain(f), Valid(f, v)
    PROVE  /\ f \in Numeric => \/ Coerced(f, v) \in Unit
                               \/ f = "conversion_rate" /\ Coerced(f, v) = "nan"
           /\ f \in Enumerated \union {"health"} => Coerced(f, v) \in {"first", "second"}
<1>1. CASE f \in Numeric
  <2>0. f \notin Enumerated \union {"health"} /\ f # "active_engines"
    BY <1>1 DEF Numeric, Enumerated
  <2>1. v \in Unit \union {"true", "nan"} /\ f \notin Enumerated \union {"health"}
    <3>1. Valid(f, v) = (v \in Unit \union {"true", "nan"})
      BY <1>1, <2>0 DEF Valid
    <3> QED
      BY <3>1, <2>0
  <2>2. Coerced(f, v) \in Unit \union {"nan"}
    BY <1>1, <2>1 DEF Coerced, Unit
  <2>3. f = "load" => Coerced(f, v) \in Unit
    <3>1. f = "load" => Domain(f) = Unit
      BY <2>0 DEF Domain
    <3> QED
      BY <3>1
  <2>4. f \in {"load", "conversion_rate"}
    BY <1>1 DEF Numeric
  <2> QED
    BY <2>1, <2>2, <2>3, <2>4
<1>2. CASE f \in Enumerated \union {"health"}
  <2>1. f \notin Numeric /\ f # "active_engines"
    BY <1>2 DEF Numeric, Enumerated
  <2> QED
    BY <1>2, <2>1 DEF Valid, Coerced
<1> QED
  BY <1>1, <1>2

\* An accepted update makes a state of the next version, in range if it is valid.
LEMMA AppliedOK ==
    ASSUME type \in Types, NEW s, IsState(s), V(s) < MaxVersion,
           NEW ks \in KeySets, NEW u \in [ks -> Raw], Accepts(u)
    PROVE  /\ IsState(Applied(s, u)) /\ V(Applied(s, u)) = V(s) + 1
           /\ InRangeOrNaN(s) /\ Validates(u) => InRangeOrNaN(Applied(s, u))
<1> DEFINE n == Applied(s, u)
<1>0. "version" \notin ks
  BY FieldsShape DEF KeySets
<1>1. /\ DOMAIN n = Fields \union {"version"} /\ V(n) = V(s) + 1
      /\ \A f \in Fields : n[f] = IF f \in DOMAIN u THEN Coerced(f, u[f]) ELSE s[f]
  <2>1. DOMAIN s = Fields \union {"version"} /\ "version" \notin Fields /\ DOMAIN u = ks
    BY StateShape
  <2>2. n = [k \in Fields \union {"version"} |->
                CASE k = "version"  -> s[k] + 1
                  [] k \in ks       -> Coerced(k, u[k])
                  [] OTHER          -> s[k]]
    BY <2>1 DEF Applied
  <2> HIDE DEF n
  <2>3. n["version"] = s["version"] + 1
    <3> DEFINE F(k) == CASE k = "version"  -> s[k] + 1
                         [] k \in ks       -> Coerced(k, u[k])
                         [] OTHER          -> s[k]
    <3>1. F("version") = s["version"] + 1
      BY <1>0
    <3>2. n = [k \in Fields \union {"version"} |-> F(k)]
      BY <2>2
    <3> HIDE DEF F
    <3> QED
      BY <3>1, <3>2
  <2>4. ASSUME NEW f \in Fields
        PROVE  n[f] = IF f \in ks THEN Coerced(f, u[f]) ELSE s[f]
    <3>1. f # "version"
      BY <2>1
    <3> QED
      BY <2>2, <3>1
  <2> QED
    BY <2>1, <2>2, <2>3, <2>4 DEF V
<1>2. V(s) + 1 \in 1..MaxVersion
  BY StateShape, TransitionsAssumption
<1> HIDE DEF n
<1>3. \A f \in Fields : n[f] \in Domain(f)
  BY <1>1 DEF Accepts, IsState
<1>4. IsState(n)
  BY <1>1, <1>2, <1>3 DEF IsState, V
<1>5. ASSUME InRangeOrNaN(s), Validates(u) PROVE InRangeOrNaN(n)
  <2> SUFFICES ASSUME NEW f \in Fields
               PROVE  /\ f \in Numeric => n[f] \in Unit \/ (f = "conversion_rate" /\ n[f] = "nan")
                      /\ f \in Enumerated \union {"health"} => n[f] \in {"first", "second"}
    BY DEF InRangeOrNaN
  <2>1. CASE f \in DOMAIN u
    <3>1. Coerced(f, u[f]) \in Domain(f) /\ Valid(f, u[f]) /\ n[f] = Coerced(f, u[f])
      BY <1>1, <1>5, <2>1 DEF Accepts, Validates
    <3> QED
      BY <3>1, ValidIsInRange
  <2>2. CASE f \notin DOMAIN u
    BY <1>1, <1>5, <2>2 DEF InRangeOrNaN
  <2> QED
    BY <2>1, <2>2
<1> QED
  BY <1>1, <1>4, <1>5 DEF n

\* What PostgreSQL takes holds no NaN.
LEMMA StoredIsInRange ==
    ASSUME NEW s
    PROVE  /\ InRange(s) => InRangeOrNaN(s)
           /\ InRangeOrNaN(s) /\ Storable(s) => InRange(s)
BY DEF InRange, InRangeOrNaN, Storable

\* A diff is not None.
LEMMA DiffIsSomething ==
    ASSUME type \in Types, NEW x, NEW y, IsState(x), IsState(y)
    PROVE  ComputeDiff(x, y) # None
<1> DEFINE keys == {k \in DOMAIN x \intersect DOMAIN y : x[k] # y[k]}
<1>1. keys \subseteq Fields \union {"version"} /\ \A k \in keys : x[k] \in Cells /\ y[k] \in Cells
  BY StateShape
<1>2. Fields \union {"version"} \subseteq Keys
  <2>1. type \in DOMAIN FieldsOf
    BY TransitionsAssumption DEF FieldsOf
  <2> QED
    BY <2>1 DEF Fields, Keys
<1>3. ComputeDiff(x, y) \in [keys -> [old : Cells, new : Cells]]
  <2>1. ComputeDiff(x, y) = [k \in keys |-> [old |-> x[k], new |-> y[k]]]
    BY DEF ComputeDiff
  <2>2. \A k \in keys : [old |-> x[k], new |-> y[k]] \in [old : Cells, new : Cells]
    BY <1>1
  <2> HIDE DEF keys
  <2> QED
    BY <2>1, <2>2
<1> HIDE DEF keys
<1> QED
  BY <1>1, <1>2, <1>3, TransitionsAssumption

\* The latest row is a row, and none is newer.
LEMMA LatestOK ==
    ASSUME RowsOK, rows # {}
    PROVE  Latest(rows) \in rows /\ \A x \in rows : V(x) <= V(Latest(rows))
BY DEF RowsOK, Latest, V

\* get_state returns a row of the version that it is asked for.
LEMMA RowOfOK ==
    ASSUME RowsOK, NEW v, RowOf(v) # None
    PROVE  Answers(v, RowOf(v))
<1>1. rows # {}
  BY DEF RowOf
<1>2. CASE v = 0
  BY <1>1, <1>2, LatestOK DEF RowOf, Answers
<1>3. CASE v # 0
  BY <1>1, <1>3 DEF RowOf, Answers, V
<1> QED
  BY <1>2, <1>3

-----------------------------------------------------------------------------
(***************************************************************************)
(* What a step that does not touch some of the variables keeps.            *)
(***************************************************************************)

LEMMA StatesStay ==
    ASSUME type' = type
    PROVE  \A s : /\ IsState(s) => IsState(s)'
                  /\ InRange(s) => InRange(s)'
                  /\ InRangeOrNaN(s) => InRangeOrNaN(s)'
<1>1. Fields' = Fields
  BY DEF Fields
<1> TAKE s
<1>2. IsState(s) => IsState(s)'
  BY <1>1 DEF IsState
<1>3. InRange(s) => InRange(s)'
  BY <1>1 DEF InRange
<1>4. InRangeOrNaN(s) => InRangeOrNaN(s)'
  BY <1>1 DEF InRangeOrNaN
<1> QED
  BY <1>2, <1>3, <1>4

LEMMA PathsStay ==
    ASSUME PathOK, UNCHANGED <<type, rows, transitions>>
    PROVE  PathOK'
<1>1. /\ Fields' = Fields /\ rows' = rows
      /\ \A a, b : Path(a, b)' = Path(a, b)
  BY DEF Fields, Path
<1>2. \A a, b : Complete(a, b)' = Complete(a, b)
  BY <1>1 DEF Complete
<1> QED
  BY <1>1, <1>2 DEF PathOK, V, Traced, IsFirst, IsLast, Touching

LEMMA TransitionsStay ==
    ASSUME TransitionsOK, UNCHANGED <<rows, transitions>>,
           pc' # "record" \/ UNCHANGED <<pc, new>>
    PROVE  TransitionsOK'
BY DEF TransitionsOK, V

LEMMA DiffStays ==
    ASSUME NEW d, DiffOK(d), rows \subseteq rows',
           at'[d] = at[d], asked'[d] = asked[d], fetched'[d] = fetched[d], answer'[d] = answer[d]
    PROVE  DiffOK(d)'
<1>1. \A v, x : Answers(v, x) => Answers(v, x)'
  BY DEF Answers, V
<1>2. at[d] = "answered" =>
        \E x, y \in rows' : /\ Answers(asked[d][1], x)' /\ Answers(asked[d][2], y)'
                            /\ answer'[d] = ComputeDiff(x, y)
  BY <1>1 DEF DiffOK
<1>3. at[d] = "second" /\ fetched[d] # None => Answers(asked[d][1], fetched[d])'
  BY <1>1 DEF DiffOK
<1> QED
  BY <1>1, <1>2, <1>3 DEF DiffOK

-----------------------------------------------------------------------------
(***************************************************************************)
(* Each action keeps the invariant.                                        *)
(***************************************************************************)

LEMMA InitInv == Init => TransInv
<1> SUFFICES ASSUME Init PROVE TransInv
  OBVIOUS
<1>1. Functional /\ UpdateOK /\ RowsOK /\ TransitionsOK /\ RangeOK /\ UnsavedHoldsRefused
  BY DEF Init, Functional, UpdateOK, RowsOK, TransitionsOK, RangeOK, UnsavedHoldsRefused
<1>2. PathOK /\ DiffsOK
  BY DEF Init, PathOK, DiffsOK, DiffOK
<1> QED
  BY <1>1, <1>2 DEF TransInv

\* What an update reads is no older than any row, and is the row of its version
\* if there is one.
LEMMA ReadableOK ==
    ASSUME TransInv, NEW s \in Readable, V(s) < MaxVersion
    PROVE  /\ IsState(s) /\ (vetted => InRangeOrNaN(s))
           /\ \A x \in rows : V(x) <= V(s) /\ (V(x) = V(s) => x = s)
<1>1. CASE cache # None
  BY <1>1 DEF TransInv, UpdateOK, RowsOK, RangeOK, Readable
<1>2. CASE cache = None /\ rows = {}
  <2>1. s = DefaultState /\ type \in Types /\ MaxVersion \in Nat
    BY <1>2, TransitionsAssumption DEF Readable, TransInv, UpdateOK
  <2>2. DefaultState["version"] = 1
    BY FieldsShape DEF DefaultState
  <2>3. 1 <= MaxVersion
    BY <2>1, <2>2 DEF V
  <2> QED
    BY <1>2, <2>1, <2>3, DefaultOK
<1>3. CASE cache = None /\ rows # {}
  <2>1. s = Latest(rows) /\ s \in rows /\ \A x \in rows : V(x) <= V(s)
    BY <1>3, LatestOK DEF Readable, TransInv
  <2> QED
    BY <2>1, StoredIsInRange DEF TransInv, UpdateOK, RowsOK, RangeOK
<1> QED
  BY <1>1, <1>2, <1>3

LEMMA UpdateStep == TransInv /\ Update => TransInv'
<1> SUFFICES ASSUME TransInv, Update PROVE TransInv'
  OBVIOUS
<1>1. PICK s \in Readable : \E ks \in KeySets : \E u \in [ks -> Raw] :
          /\ s["version"] < MaxVersion /\ Accepts(u)
          /\ previous' = s /\ new' = Applied(s, u) /\ cache' = new'
          /\ vetted' = (vetted /\ Validates(u))
  BY DEF Update
<1>2. PICK ks \in KeySets : \E u \in [ks -> Raw] :
          /\ s["version"] < MaxVersion /\ Accepts(u)
          /\ previous' = s /\ new' = Applied(s, u) /\ cache' = new'
          /\ vetted' = (vetted /\ Validates(u))
  BY <1>1
<1>3. PICK u \in [ks -> Raw] :
          /\ s["version"] < MaxVersion /\ Accepts(u)
          /\ previous' = s /\ new' = Applied(s, u) /\ cache' = new'
          /\ vetted' = (vetted /\ Validates(u))
  BY <1>2
<1>4. /\ pc = "idle" /\ pc' = "save"
      /\ UNCHANGED <<type, rows, transitions, at, asked, fetched, answer>>
  BY DEF Update, diffs
<1>5. /\ IsState(s) /\ (vetted => InRangeOrNaN(s))
      /\ \A x \in rows : V(x) <= V(s) /\ (V(x) = V(s) => x = s)
  BY <1>3, ReadableOK DEF V
<1>6. PICK n : n = Applied(s, u)
  OBVIOUS
<1>7. /\ type \in Types /\ vetted \in BOOLEAN
      /\ \A x \in rows : IsState(x)
  BY DEF TransInv, UpdateOK
<1>8. /\ IsState(n) /\ V(n) = V(s) + 1
      /\ InRangeOrNaN(s) /\ Validates(u) => InRangeOrNaN(n)
  <2>1. V(s) < MaxVersion
    BY <1>3 DEF V
  <2> QED
    BY <2>1, <1>3, <1>5, <1>6, <1>7, AppliedOK
<1>9. V(s) \in Nat /\ \A x \in rows : V(x) \in Nat
  BY <1>5, <1>7, StateShape
<1>10. \A x : /\ IsState(x) => IsState(x)'
              /\ InRange(x) => InRange(x)'
              /\ InRangeOrNaN(x) => InRangeOrNaN(x)'
  BY <1>4, StatesStay
<1>11. previous' = s /\ new' = n /\ cache' = n
  BY <1>3, <1>6
<1>12. Functional' /\ TransitionsOK' /\ PathOK'
  <2>1. Functional'
    BY <1>4 DEF TransInv, Functional
  <2> QED
    BY <2>1, <1>4, TransitionsStay, PathsStay DEF TransInv
<1>13. UpdateOK'
  <2>1. vetted' \in BOOLEAN
    BY <1>3, <1>7
  <2> QED
    BY <2>1, <1>4, <1>5, <1>7, <1>8, <1>10, <1>11 DEF UpdateOK, V
<1>14. RowsOK'
  <2>1. \A x \in rows : V(x) < V(n)
    BY <1>5, <1>8, <1>9
  <2>2. \A x \in rows : V(x) <= V(n) /\ V(x) # V(n)
    BY <2>1, <1>8, <1>9
  <2> QED
    BY <2>1, <2>2, <1>4, <1>5, <1>11 DEF TransInv, RowsOK, V
<1>15. RangeOK'
  <2> SUFFICES ASSUME vetted' PROVE (\A x \in rows : InRange(x)') /\ InRangeOrNaN(n)'
    BY <1>4, <1>11 DEF RangeOK
  <2>1. vetted /\ Validates(u)
    BY <1>3
  <2> QED
    BY <2>1, <1>5, <1>8, <1>10 DEF TransInv, RangeOK
<1>16. UnsavedHoldsRefused'
  BY <1>4 DEF UnsavedHoldsRefused
<1>17. DiffsOK'
  BY <1>4, DiffStays DEF TransInv, DiffsOK
<1> QED
  BY <1>12, <1>13, <1>14, <1>15, <1>16, <1>17 DEF TransInv

\* A path from a version to itself is empty.
LEMMA EmptyPath ==
    ASSUME TransitionsOK, NEW a \in Nat
    PROVE  Path(a, a) = {}
<1> SUFFICES ASSUME NEW t \in transitions, a <= t.before, t.after <= a PROVE FALSE
  BY DEF Path
<1>1. t.after \in Nat /\ t.before = t.after - 1
  BY TransitionsAssumption DEF TransitionsOK
<1> QED
  BY <1>1

\* The row that an update saves is the newest, and no transition leads to it yet.
LEMMA SaveStep == TransInv /\ Save => TransInv'
<1> SUFFICES ASSUME TransInv, Save PROVE TransInv'
  OBVIOUS
<1>1. /\ pc = "save" /\ pc' = "record"
      /\ UNCHANGED <<type, cache, transitions, previous, new, vetted, at, asked, fetched, answer>>
  BY DEF Save, diffs
<1>2. /\ type \in Types /\ IsState(new) /\ IsState(previous) /\ V(new) = V(previous) + 1
      /\ \A x \in rows : IsState(x)
  BY <1>1 DEF TransInv, UpdateOK
<1>3. V(new) \in Nat /\ \A x \in rows : V(x) \in Nat
  BY <1>2, StateShape
<1>4. \A x \in rows : V(x) < V(new) /\ V(x) # V(new)
  BY <1>1, <1>3 DEF TransInv, RowsOK
<1>5. rows' = rows \union {new}
  BY <1>4 DEF Save, Upsert, V
<1>6. \A x : /\ IsState(x) => IsState(x)'
             /\ InRange(x) => InRange(x)'
             /\ InRangeOrNaN(x) => InRangeOrNaN(x)'
  BY <1>1, StatesStay
<1>7. Functional' /\ UpdateOK'
  <2>1. Functional'
    BY <1>1 DEF TransInv, Functional
  <2>2. UpdateOK'
    BY <1>1, <1>2, <1>5, <1>6 DEF TransInv, UpdateOK, V
  <2> QED
    BY <2>1, <2>2
<1>8. RowsOK'
  <2>1. \A x, y \in rows' : V(x) = V(y) => x = y
    BY <1>4, <1>5 DEF TransInv, RowsOK
  <2>2. \A x \in rows' : V(x) <= V(new)
    BY <1>3, <1>4, <1>5
  <2>3. cache \in {new, None}
    BY <1>1 DEF TransInv, RowsOK
  <2>4. \A x \in rows' : V(x) = V(new) => x = new
    BY <2>1, <1>5
  <2>5. \A x \in rows' : V(x) = V(previous) => x = previous
    <3>1. V(previous) \in Nat
      BY <1>2, StateShape
    <3>2. V(new) # V(previous)
      BY <1>2, <3>1
    <3> QED
      BY <1>1, <1>5, <3>2 DEF TransInv, RowsOK
  <2> QED
    BY <2>1, <2>2, <2>3, <2>4, <2>5, <1>1, <1>5 DEF RowsOK, V
<1>9. \A t \in transitions : t.after # V(new)
  BY <1>4 DEF TransInv, TransitionsOK
<1>10. TransitionsOK'
  BY <1>1, <1>5, <1>9 DEF TransInv, TransitionsOK, V
<1>11. RangeOK'
  <2>1. vetted => InRange(new)
    BY <1>1, StoredIsInRange DEF TransInv, RangeOK, Save
  <2> QED
    BY <2>1, <1>1, <1>5, <1>6 DEF TransInv, RangeOK
<1>12. PathOK'
  <2>1. Fields' = Fields /\ \A a, b : Path(a, b)' = Path(a, b)
    BY <1>1 DEF Fields, Path
  <2>2. \A a, b : Complete(a, b)' = Complete(a, b)
    BY <2>1 DEF Complete
  <2> SUFFICES ASSUME NEW x \in rows', NEW y \in rows', V(x) <= V(y), Complete(V(x), V(y)),
                      NEW k \in Fields \union {"version"}
               PROVE  Traced(x, y, k, Touching(Path(V(x), V(y)), k))
    BY <2>1, <2>2 DEF PathOK, V, Traced, IsFirst, IsLast, Touching
  <2>3. CASE x \in rows /\ y \in rows
    BY <2>3 DEF TransInv, PathOK
  <2>4. CASE x \in rows /\ y = new
    <3>1. V(new) \in V(x) + 1 .. V(new)
      BY <1>3, <1>4, <2>4
    <3> QED
      BY <1>9, <2>4, <3>1 DEF Complete, Path
  <2>5. CASE x = new /\ y \in rows
    BY <1>3, <1>4, <2>5
  <2>6. CASE x = new /\ y = new
    <3>1. Path(V(x), V(y)) = {}
      BY <1>3, <2>6, EmptyPath DEF TransInv
    <3> QED
      BY <2>6, <3>1 DEF Traced, Touching
  <2> QED
    BY <1>5, <2>3, <2>4, <2>5, <2>6
<1>13. UnsavedHoldsRefused'
  BY <1>1 DEF UnsavedHoldsRefused
<1>14. DiffsOK'
  BY <1>1, <1>5, DiffStays DEF TransInv, DiffsOK
<1> QED
  BY <1>7, <1>8, <1>10, <1>11, <1>12, <1>13, <1>14 DEF TransInv

LEMMA SaveRefusedStep == TransInv /\ SaveRefused => TransInv'
<1> SUFFICES ASSUME TransInv, SaveRefused PROVE TransInv'
  OBVIOUS
<1>1. /\ pc = "save" /\ ~Storable(new) /\ pc' = "idle" /\ previous' = None /\ new' = None
      /\ UNCHANGED <<type, cache, rows, transitions, vetted, at, asked, fetched, answer>>
  BY DEF SaveRefused, Finish, diffs
<1>2. \A x : /\ IsState(x) => IsState(x)'
             /\ InRange(x) => InRange(x)'
             /\ InRangeOrNaN(x) => InRangeOrNaN(x)'
  BY <1>1, StatesStay
<1>3. Functional' /\ TransitionsOK' /\ PathOK'
  <2>1. Functional'
    BY <1>1 DEF TransInv, Functional
  <2> QED
    BY <2>1, <1>1, TransitionsStay, PathsStay DEF TransInv
<1>4. UpdateOK' /\ RowsOK' /\ RangeOK'
  BY <1>1, <1>2 DEF TransInv, UpdateOK, RowsOK, RangeOK, V
<1>5. UnsavedHoldsRefused'
  <2>1. cache \in {new, None}
    BY <1>1 DEF TransInv, RowsOK
  <2>2. \A s : ~Storable(s) => ~Storable(s)'
    BY <1>1 DEF Storable, Fields
  <2> QED
    BY <1>1, <2>1, <2>2 DEF UnsavedHoldsRefused
<1>6. DiffsOK'
  BY <1>1, DiffStays DEF TransInv, DiffsOK
<1> QED
  BY <1>3, <1>4, <1>5, <1>6 DEF TransInv

LEMMA UnrecordedStep == TransInv /\ Unrecorded => TransInv'
<1> SUFFICES ASSUME TransInv, Unrecorded PROVE TransInv'
  OBVIOUS
<1>1. /\ pc = "record" /\ pc' = "idle" /\ previous' = None /\ new' = None
      /\ UNCHANGED <<type, cache, rows, transitions, vetted, at, asked, fetched, answer>>
  BY DEF Unrecorded, Finish, diffs
<1>2. \A x : /\ IsState(x) => IsState(x)'
             /\ InRange(x) => InRange(x)'
             /\ InRangeOrNaN(x) => InRangeOrNaN(x)'
  BY <1>1, StatesStay
<1>3. Functional' /\ TransitionsOK' /\ PathOK'
  <2>1. Functional'
    BY <1>1 DEF TransInv, Functional
  <2> QED
    BY <2>1, <1>1, TransitionsStay, PathsStay DEF TransInv
<1>4. UpdateOK' /\ RowsOK' /\ RangeOK'
  BY <1>1, <1>2 DEF TransInv, UpdateOK, RowsOK, RangeOK, V
<1>5. UnsavedHoldsRefused'
  BY <1>1 DEF TransInv, RowsOK, UnsavedHoldsRefused
<1>6. DiffsOK'
  BY <1>1, DiffStays DEF TransInv, DiffsOK
<1> QED
  BY <1>3, <1>4, <1>5, <1>6 DEF TransInv

LEMMA ExpireStep == TransInv /\ Expire => TransInv'
<1> SUFFICES ASSUME TransInv, Expire PROVE TransInv'
  OBVIOUS
<1>1. /\ cache' = None
      /\ UNCHANGED <<type, rows, transitions, pc, previous, new, vetted, at, asked, fetched, answer>>
  BY DEF Expire, update, diffs
<1>2. \A x : /\ IsState(x) => IsState(x)'
             /\ InRange(x) => InRange(x)'
             /\ InRangeOrNaN(x) => InRangeOrNaN(x)'
  BY <1>1, StatesStay
<1>3. Functional' /\ TransitionsOK' /\ PathOK'
  <2>1. Functional'
    BY <1>1 DEF TransInv, Functional
  <2> QED
    BY <2>1, <1>1, TransitionsStay, PathsStay DEF TransInv
<1>4. UpdateOK' /\ RowsOK' /\ RangeOK'
  BY <1>1, <1>2 DEF TransInv, UpdateOK, RowsOK, RangeOK, V
<1>5. UnsavedHoldsRefused'
  BY <1>1 DEF UnsavedHoldsRefused
<1>6. DiffsOK'
  BY <1>1, DiffStays DEF TransInv, DiffsOK
<1> QED
  BY <1>3, <1>4, <1>5, <1>6 DEF TransInv

\* One more transition at the end of a path.
LEMMA TracedOneMore ==
    ASSUME NEW x, NEW p, NEW n, NEW k, NEW S, NEW t, Traced(x, p, k, S),
           k \in DOMAIN p, k \in DOMAIN n, t.diff = ComputeDiff(p, n),
           t.after \in Nat, \A u \in S : u.after \in Nat /\ u.after < t.after
    PROVE  Traced(x, n, k, IF k \in DOMAIN t.diff THEN S \union {t} ELSE S)
<1>1. CASE p[k] = n[k]
  <2>1. k \notin DOMAIN t.diff
    BY <1>1 DEF ComputeDiff
  <2> QED
    BY <1>1, <2>1 DEF Traced
<1>2. CASE p[k] # n[k]
  <2>1. k \in DOMAIN t.diff /\ t.diff[k].old = p[k] /\ t.diff[k].new = n[k]
    BY <1>2 DEF ComputeDiff
  <2>2. IsLast(t, S \union {t})
    BY DEF IsLast
  <2>3. CASE S = {}
    <3>1. x[k] = p[k]
      BY <2>3 DEF Traced, IsFirst
    <3>2. IsFirst(t, S \union {t})
      BY <2>3 DEF IsFirst
    <3> QED
      BY <2>1, <2>2, <3>1, <3>2 DEF Traced
  <2>4. CASE S # {}
    <3>1. PICK f \in S : IsFirst(f, S) /\ f.diff[k].old = x[k]
      BY <2>4 DEF Traced, IsFirst
    <3>2. IsFirst(f, S \union {t})
      BY <3>1 DEF IsFirst
    <3> QED
      BY <2>1, <2>2, <3>1, <3>2 DEF Traced
  <2> QED
    BY <2>3, <2>4
<1> QED
  BY <1>1, <1>2

\* The transition that an update records is the newest.  It continues the paths
\* that lead to the row before it, if there is one.
LEMMA RecordStep == TransInv /\ Record => TransInv'
<1> SUFFICES ASSUME TransInv, Record PROVE TransInv'
  OBVIOUS
<1>1. /\ pc = "record" /\ pc' = "idle" /\ previous' = None /\ new' = None
      /\ UNCHANGED <<type, cache, rows, vetted, at, asked, fetched, answer>>
  BY DEF Record, Finish, diffs
<1>2. PICK t : t = [before |-> new["version"] - 1, after |-> new["version"],
                    diff |-> ComputeDiff(previous, new)]
  OBVIOUS
<1>3. transitions' = transitions \union {t}
  BY <1>2 DEF Record
<1>4. /\ type \in Types /\ IsState(new) /\ IsState(previous) /\ V(new) = V(previous) + 1
      /\ \A x \in rows : IsState(x)
  BY <1>1 DEF TransInv, UpdateOK
<1>5. /\ V(new) \in 1..MaxVersion /\ V(previous) \in 1..MaxVersion
      /\ V(new) \in Nat /\ V(previous) \in Nat
      /\ \A x \in rows : V(x) \in Nat
  BY <1>4, StateShape
<1>6. V(new) \in 2..MaxVersion
  BY <1>4, <1>5, TransitionsAssumption
<1>7. t.after = V(new) /\ t.before = V(new) - 1 /\ t.diff = ComputeDiff(previous, new)
  BY <1>2 DEF V
<1>8. \A u \in transitions : /\ u.after \in Nat /\ u.before = u.after - 1
                             /\ u.after < V(new)
  <2> TAKE u \in transitions
  <2>1. u.after \in Nat /\ u.before = u.after - 1 /\ u.after # V(new)
    BY <1>1, TransitionsAssumption DEF TransInv, TransitionsOK
  <2>2. PICK x \in rows : V(x) = u.after
    BY DEF TransInv, TransitionsOK
  <2>3. V(x) <= V(new)
    BY <1>1 DEF TransInv, RowsOK
  <2> QED
    BY <1>5, <2>1, <2>2, <2>3
<1>9. /\ new \in rows /\ \A x \in rows : V(x) <= V(new)
      /\ \A x, y \in rows : V(x) = V(y) => x = y
      /\ \A x \in rows : V(x) = V(previous) => x = previous
  BY <1>1 DEF TransInv, RowsOK
<1>10. \A x : /\ IsState(x) => IsState(x)'
              /\ InRange(x) => InRange(x)'
              /\ InRangeOrNaN(x) => InRangeOrNaN(x)'
  BY <1>1, StatesStay
<1>11. Functional'
  BY <1>1 DEF TransInv, Functional
<1>12. UpdateOK' /\ RowsOK' /\ RangeOK'
  BY <1>1, <1>10 DEF TransInv, UpdateOK, RowsOK, RangeOK, V
<1>13. TransitionsOK'
  <2>1. \A u \in transitions' : u.after \in 2..MaxVersion /\ u.before = u.after - 1
    BY <1>3, <1>6, <1>7 DEF TransInv, TransitionsOK
  <2>2. \A u \in transitions' : \E x \in rows : V(x) = u.after
    BY <1>3, <1>7, <1>9 DEF TransInv, TransitionsOK
  <2>3. \A u, w \in transitions' : u.after = w.after => u = w
    <3>1. \A u \in transitions : u.after # t.after
      BY <1>5, <1>7, <1>8
    <3> QED
      BY <1>3, <3>1 DEF TransInv, TransitionsOK
  <2> QED
    BY <1>1, <2>1, <2>2, <2>3 DEF TransitionsOK, V
<1>14. PathOK'
  <2> SUFFICES ASSUME NEW x \in rows, NEW y \in rows, V(x) <= V(y), Complete(V(x), V(y))',
                      NEW k \in Fields \union {"version"}
               PROVE  Traced(x, y, k, Touching(Path(V(x), V(y))', k))
    <3>1. Fields' = Fields /\ rows' = rows
      BY <1>1 DEF Fields
    <3> QED
      BY <3>1 DEF PathOK, V, Traced, IsFirst, IsLast, Touching
  <2>1. CASE y # new
    <3>1. V(y) < V(new)
      BY <1>5, <1>9, <2>1
    <3>2. Path(V(x), V(y))' = Path(V(x), V(y))
      BY <1>3, <1>5, <1>7, <3>1 DEF Path, V
    <3>3. Complete(V(x), V(y))
      BY <3>2 DEF Complete, V
    <3> QED
      BY <3>2, <3>3 DEF TransInv, PathOK
  <2>2. CASE y = new /\ x = new
    <3>1. Path(V(x), V(y))' = {}
      <4> SUFFICES ASSUME NEW u \in transitions', V(new) <= u.before, u.after <= V(new) PROVE FALSE
        BY <2>2 DEF Path, V
      <4>1. u.after \in Nat /\ u.before = u.after - 1
        BY <1>3, <1>5, <1>7, <1>8
      <4> QED
        BY <1>5, <4>1
    <3> QED
      BY <2>2, <3>1 DEF Traced, Touching
  <2>3. CASE y = new /\ x # new
    <3>1. V(x) < V(new) /\ V(x) <= V(previous)
      <4>1. V(x) # V(new) /\ V(x) <= V(new)
        BY <1>9, <2>3
      <4> QED
        BY <1>4, <1>5, <4>1
    <3>2. Path(V(x), V(y))' = Path(V(x), V(previous)) \union {t}
      <4>1. V(x) <= t.before /\ t.after <= V(new)
        BY <1>4, <1>5, <1>7, <3>1
      <4>2. \A u \in transitions : u.after <= V(previous) /\ u.after <= V(new)
        BY <1>4, <1>5, <1>8
      <4> QED
        BY <1>3, <2>3, <4>1, <4>2 DEF Path, V
    <3>3. Complete(V(x), V(previous))
      <4> SUFFICES ASSUME NEW v \in V(x) + 1 .. V(previous)
                   PROVE  \E u \in Path(V(x), V(previous)) : u.after = v
        BY DEF Complete
      <4>1. v \in V(x) + 1 .. V(y) /\ v # V(new)
        BY <1>4, <1>5, <2>3
      <4>2. PICK u \in Path(V(x), V(y))' : u.after = v
        BY <4>1 DEF Complete, V
      <4> QED
        BY <1>7, <3>2, <4>1, <4>2
    <3>4. previous \in rows
      <4>1. CASE V(x) = V(previous)
        BY <1>9, <4>1
      <4>2. CASE V(x) # V(previous)
        <5>1. V(previous) \in V(x) + 1 .. V(previous)
          BY <1>5, <3>1, <4>2
        <5>2. PICK u \in transitions : u.after = V(previous)
          BY <3>3, <5>1 DEF Complete, Path
        <5>3. PICK z \in rows : V(z) = V(previous)
          BY <5>2 DEF TransInv, TransitionsOK
        <5> QED
          BY <1>9, <5>3
      <4> QED
        BY <4>1, <4>2
    <3> DEFINE S == Touching(Path(V(x), V(previous)), k)
    <3>5. Traced(x, previous, k, S)
      BY <3>1, <3>3, <3>4 DEF TransInv, PathOK
    <3>6. k \in DOMAIN previous /\ k \in DOMAIN new
      BY <1>4 DEF IsState
    <3>7. \A u \in S : u.after \in Nat /\ u.after < t.after
      BY <1>7, <1>8 DEF Touching, Path
    <3>8. Touching(Path(V(x), V(y))', k) = IF k \in DOMAIN t.diff THEN S \union {t} ELSE S
      BY <3>2 DEF Touching
    <3> HIDE DEF S
    <3>9. t.after \in Nat
      BY <1>5, <1>7
    <3>10. Traced(x, new, k, IF k \in DOMAIN t.diff THEN S \union {t} ELSE S)
      BY <1>7, <3>5, <3>6, <3>7, <3>9, TracedOneMore
    <3> QED
      BY <2>3, <3>8, <3>10
  <2> QED
    BY <2>1, <2>2, <2>3
<1>15. UnsavedHoldsRefused'
  <2>1. cache \in {new, None}
    BY <1>1 DEF TransInv, RowsOK
  <2> QED
    BY <1>1, <1>9, <2>1 DEF UnsavedHoldsRefused
<1>16. DiffsOK'
  BY <1>1, DiffStays DEF TransInv, DiffsOK
<1> QED
  BY <1>11, <1>12, <1>13, <1>14, <1>15, <1>16 DEF TransInv

\* A step of a get_diff touches nothing of the update and nothing of the others.
LEMMA DiffStep ==
    ASSUME TransInv, NEW d \in Diffs, DiffOK(d)', Functional',
           UNCHANGED <<type, cache, rows, transitions, update>>,
           \A e \in Diffs \ {d} : /\ at'[e] = at[e] /\ asked'[e] = asked[e]
                                  /\ fetched'[e] = fetched[e] /\ answer'[e] = answer[e]
    PROVE  TransInv'
<1>1. UNCHANGED <<type, cache, rows, transitions, pc, previous, new, vetted>>
  BY DEF update
<1>2. \A x : /\ IsState(x) => IsState(x)'
             /\ InRange(x) => InRange(x)'
             /\ InRangeOrNaN(x) => InRangeOrNaN(x)'
  BY <1>1, StatesStay
<1>3. UpdateOK'
  BY <1>1, <1>2 DEF TransInv, UpdateOK, V
<1>4. RowsOK'
  BY <1>1 DEF TransInv, RowsOK, V
<1>5. RangeOK'
  BY <1>1, <1>2 DEF TransInv, RangeOK
<1>6. TransitionsOK' /\ PathOK'
  BY <1>1, TransitionsStay, PathsStay DEF TransInv
<1>7. UnsavedHoldsRefused'
  <2>1. \A s : ~Storable(s) => ~Storable(s)'
    BY <1>1 DEF Storable, Fields
  <2> QED
    BY <1>1, <2>1 DEF TransInv, UnsavedHoldsRefused
<1>8. DiffsOK'
  <2> SUFFICES ASSUME NEW e \in Diffs PROVE DiffOK(e)'
    BY DEF DiffsOK
  <2>1. CASE e = d
    BY <2>1
  <2>2. CASE e # d
    BY <1>1, <2>2, DiffStays DEF TransInv, DiffsOK
  <2> QED
    BY <2>1, <2>2
<1> QED
  BY <1>3, <1>4, <1>5, <1>6, <1>7, <1>8 DEF TransInv

LEMMA GetDiffStep ==
    ASSUME NEW d \in Diffs
    PROVE  TransInv /\ (Ask(d) \/ FetchFrom(d) \/ FetchTo(d) \/ Missing(d) \/ Undecoded(d))
              => TransInv'
<1> SUFFICES ASSUME TransInv, Ask(d) \/ FetchFrom(d) \/ FetchTo(d) \/ Missing(d) \/ Undecoded(d)
             PROVE  TransInv'
  OBVIOUS
<1>1. /\ DiffOK(d) /\ Functional /\ RowsOK /\ type \in Types
      /\ \A x \in rows : IsState(x)
  BY DEF TransInv, DiffsOK, UpdateOK
<1>2. UNCHANGED <<type, cache, rows, transitions, update>>
  BY DEF Ask, FetchFrom, FetchTo, Missing, Undecoded
<1>3. \A v, x : Answers(v, x) => Answers(v, x)'
  BY <1>2 DEF Answers, V
<1>4. /\ DOMAIN at = Diffs /\ DOMAIN asked = Diffs
      /\ DOMAIN fetched = Diffs /\ DOMAIN answer = Diffs
  BY <1>1 DEF Functional
<1>5. CASE Ask(d)
  <2>1. PICK q \in (0..MaxVersion) \X (0..MaxVersion) :
          /\ at' = [at EXCEPT ![d] = "first"] /\ asked' = [asked EXCEPT ![d] = q]
          /\ UNCHANGED <<fetched, answer>>
    BY <1>5 DEF Ask
  <2>2. Functional'
    BY <1>1, <2>1 DEF Functional
  <2>3. at'[d] = "first" /\ asked'[d] = q /\ answer'[d] = answer[d] /\ at[d] = "new"
    BY <1>4, <1>5, <2>1 DEF Ask
  <2>4. DiffOK(d)'
    BY <1>1, <2>3 DEF DiffOK
  <2>5. \A e \in Diffs \ {d} : /\ at'[e] = at[e] /\ asked'[e] = asked[e]
                               /\ fetched'[e] = fetched[e] /\ answer'[e] = answer[e]
    BY <1>4, <2>1
  <2> QED
    BY <1>2, <2>2, <2>4, <2>5, DiffStep
<1>6. CASE FetchFrom(d)
  <2>1. /\ at[d] = "first" /\ at' = [at EXCEPT ![d] = "second"]
        /\ fetched' = [fetched EXCEPT ![d] = RowOf(asked[d][1])]
        /\ UNCHANGED <<asked, answer>>
    BY <1>6 DEF FetchFrom
  <2>2. Functional'
    BY <1>1, <2>1 DEF Functional
  <2>3. PICK v, w : v = asked[d][1] /\ w = RowOf(v)
    OBVIOUS
  <2>4. w # None => Answers(v, w)
    BY <1>1, <2>3, RowOfOK
  <2>5. /\ at'[d] = "second" /\ fetched'[d] = w /\ asked'[d] = asked[d] /\ answer'[d] = answer[d]
    BY <1>4, <2>1, <2>3
  <2>6. fetched'[d] # None => Answers(asked[d][1], fetched[d])'
    BY <1>3, <2>3, <2>4, <2>5
  <2>7. DiffOK(d)'
    BY <1>1, <2>1, <2>5, <2>6 DEF DiffOK
  <2>8. \A e \in Diffs \ {d} : /\ at'[e] = at[e] /\ asked'[e] = asked[e]
                               /\ fetched'[e] = fetched[e] /\ answer'[e] = answer[e]
    BY <1>4, <2>1
  <2> QED
    BY <1>2, <2>2, <2>7, <2>8, DiffStep
<1>7. CASE FetchTo(d)
  <2>1. PICK v, w : v = asked[d][2] /\ w = RowOf(v)
    OBVIOUS
  <2>2. /\ at[d] = "second" /\ at' = [at EXCEPT ![d] = "answered"]
        /\ fetched[d] # None /\ w # None
        /\ answer' = [answer EXCEPT ![d] = ComputeDiff(fetched[d], w)]
        /\ UNCHANGED <<asked, fetched>>
    BY <1>7, <2>1 DEF FetchTo
  <2>3. Functional'
    BY <1>1, <2>2 DEF Functional
  <2>4. PICK x : x = fetched[d]
    OBVIOUS
  <2>5. Answers(asked[d][1], x) /\ Answers(v, w)
    BY <1>1, <2>1, <2>2, <2>4, RowOfOK DEF DiffOK
  <2>6. x \in rows /\ w \in rows /\ IsState(x) /\ IsState(w)
    BY <1>1, <2>5 DEF Answers
  <2>7. ComputeDiff(x, w) # None
    BY <1>1, <2>6, DiffIsSomething
  <2>8. /\ at'[d] = "answered" /\ asked'[d] = asked[d] /\ fetched'[d] = x
        /\ answer'[d] = ComputeDiff(x, w)
    BY <1>4, <2>2, <2>4
  <2>9. Answers(asked[d][1], x)' /\ Answers(asked[d][2], w)'
    BY <1>3, <2>1, <2>5, <2>8
  <2>10. rows' = rows
    BY <1>2
  <2>11. DiffOK(d)'
    BY <1>1, <2>2, <2>6, <2>7, <2>8, <2>9, <2>10 DEF DiffOK
  <2>12. \A e \in Diffs \ {d} : /\ at'[e] = at[e] /\ asked'[e] = asked[e]
                                /\ fetched'[e] = fetched[e] /\ answer'[e] = answer[e]
    BY <1>4, <2>2
  <2> QED
    BY <1>2, <2>3, <2>11, <2>12, DiffStep
<1>8. CASE Missing(d) \/ Undecoded(d)
  <2>1. /\ at[d] = "second"
        /\ at' = [at EXCEPT ![d] = "missing"] \/ at' = [at EXCEPT ![d] = "raised"]
        /\ UNCHANGED <<asked, fetched, answer>>
    BY <1>8 DEF Missing, Undecoded
  <2>2. Functional'
    BY <1>1, <2>1 DEF Functional
  <2>3. /\ at'[d] \in {"missing", "raised"} /\ answer'[d] = answer[d]
    BY <1>4, <2>1
  <2>4. DiffOK(d)'
    BY <1>1, <2>1, <2>3 DEF DiffOK
  <2>5. \A e \in Diffs \ {d} : /\ at'[e] = at[e] /\ asked'[e] = asked[e]
                               /\ fetched'[e] = fetched[e] /\ answer'[e] = answer[e]
    BY <1>4, <2>1
  <2> QED
    BY <1>2, <2>2, <2>4, <2>5, DiffStep
<1> QED
  BY <1>5, <1>6, <1>7, <1>8

THEOREM Invariant == Spec => []TransInv
<1>1. TransInv /\ UNCHANGED vars => TransInv'
  <2> SUFFICES ASSUME TransInv, UNCHANGED vars PROVE TransInv'
    OBVIOUS
  <2>1. UNCHANGED <<type, cache, rows, transitions, pc, previous, new, vetted,
                    at, asked, fetched, answer>>
    BY DEF vars, update, diffs
  <2>2. \A x : /\ IsState(x) => IsState(x)'
               /\ InRange(x) => InRange(x)'
               /\ InRangeOrNaN(x) => InRangeOrNaN(x)'
    BY <2>1, StatesStay
  <2>3. Functional' /\ UpdateOK' /\ RowsOK' /\ RangeOK'
    BY <2>1, <2>2 DEF TransInv, Functional, UpdateOK, RowsOK, RangeOK, V
  <2>4. TransitionsOK' /\ PathOK'
    BY <2>1, TransitionsStay, PathsStay DEF TransInv
  <2>5. UnsavedHoldsRefused'
    BY <2>1 DEF TransInv, UnsavedHoldsRefused, Storable, Fields
  <2>6. DiffsOK'
    BY <2>1, DiffStays DEF TransInv, DiffsOK
  <2> QED
    BY <2>3, <2>4, <2>5, <2>6 DEF TransInv
<1>2. TransInv /\ [Next]_vars => TransInv'
  BY <1>1, UpdateStep, SaveStep, SaveRefusedStep, RecordStep, UnrecordedStep, ExpireStep,
     GetDiffStep DEF Next
<1> QED
  BY InitInv, <1>2, PTL DEF Spec

-----------------------------------------------------------------------------
(***************************************************************************)
(* The theorems.                                                           *)
(***************************************************************************)

\* The variables keep their types: what is in the cache, in the table and in an
\* update under way is a state of the entity's type, whatever values the updates
\* carried.
THEOREM TransitionsTypeCorrect == Spec => []TypeOK
<1>1. TransInv => TypeOK
  BY DEF TransInv, UpdateOK, TransitionsOK, DiffsOK, DiffOK, TypeOK
<1> QED
  BY <1>1, Invariant, PTL

\* If the validator had been asked before every update, and had accepted, the
\* rows would keep to the documented ranges, and so would the cache but for a NaN
\* as the rate of a funnel.
THEOREM VettedUpdatesKeepRanges == Spec => []VettedStatesAreInRange
<1>1. TransInv => VettedStatesAreInRange
  BY DEF TransInv, RangeOK, VettedStatesAreInRange
<1> QED
  BY <1>1, Invariant, PTL

\* Between updates, only a value that PostgreSQL refuses keeps the cached state
\* out of the table.
THEOREM OnlyRefusedValuesStayUnsaved == Spec => []UnsavedHoldsRefused
<1>1. TransInv => UnsavedHoldsRefused
  BY DEF TransInv
<1> QED
  BY <1>1, Invariant, PTL

\* The transitions of a path without gaps, put together, make the diff of the
\* rows at its ends.
LEMMA ComposedIsDiff ==
    ASSUME TransInv, NEW x \in rows, NEW y \in rows, V(x) <= V(y), Complete(V(x), V(y))
    PROVE  Composed(Path(V(x), V(y))) = ComputeDiff(x, y)
<1> DEFINE K    == Fields \union {"version"}
           P    == Path(V(x), V(y))
           T(k) == Touching(P, k)
<1>1. \A t, u \in transitions : t.after \in Nat /\ (t.after = u.after => t = u)
  BY TransitionsAssumption DEF TransInv, TransitionsOK
<1>2. DOMAIN x = K /\ DOMAIN y = K
  BY DEF TransInv, UpdateOK, IsState
<1>3. ASSUME NEW k \in K
      PROVE  /\ T(k) = {} => x[k] = y[k]
             /\ T(k) # {} => First(T(k)).diff[k].old = x[k] /\ Last(T(k)).diff[k].new = y[k]
  <2>1. Traced(x, y, k, T(k)) /\ T(k) \subseteq transitions
    BY DEF TransInv, PathOK, Touching, Path
  <2> HIDE DEF P, T
  <2>2. ASSUME T(k) = {} PROVE x[k] = y[k]
    BY <2>1, <2>2 DEF Traced, IsFirst
  <2>3. ASSUME T(k) # {}
        PROVE  First(T(k)).diff[k].old = x[k] /\ Last(T(k)).diff[k].new = y[k]
    <3>1. PICK t \in T(k), u \in T(k) : /\ IsFirst(t, T(k)) /\ t.diff[k].old = x[k]
                                        /\ IsLast(u, T(k)) /\ u.diff[k].new = y[k]
      BY <2>1, <2>3 DEF Traced, IsFirst, IsLast
    <3>2. IsFirst(First(T(k)), T(k)) /\ IsLast(Last(T(k)), T(k))
      BY <3>1 DEF First, Last, IsFirst, IsLast
    <3>3. \A a, b \in T(k) : /\ IsFirst(a, T(k)) /\ IsFirst(b, T(k)) => a = b
                             /\ IsLast(a, T(k)) /\ IsLast(b, T(k)) => a = b
      <4>1. \A a, b \in T(k) : /\ a.after \in Nat /\ b.after \in Nat
                               /\ a.after = b.after => a = b
        BY <1>1, <2>1
      <4> QED
        BY <4>1 DEF IsFirst, IsLast
    <3>4. First(T(k)) = t /\ Last(T(k)) = u
      BY <3>1, <3>2, <3>3 DEF IsFirst, IsLast
    <3> QED
      BY <3>1, <3>4
  <2> QED
    BY <2>2, <2>3
<1> DEFINE ends == [k \in {k \in K : T(k) # {}} |->
                       [old |-> First(T(k)).diff[k].old, new |-> Last(T(k)).diff[k].new]]
<1>4. Composed(P) = [k \in {k \in DOMAIN ends : ends[k].old # ends[k].new} |-> ends[k]]
  BY DEF Composed
<1> HIDE DEF T, P
<1>5. ends = [k \in {k \in K : T(k) # {}} |-> [old |-> x[k], new |-> y[k]]]
  BY <1>3
<1> HIDE DEF ends
<1>6. {k \in DOMAIN ends : ends[k].old # ends[k].new} = {k \in K : x[k] # y[k]}
  <2>1. DOMAIN ends = {k \in K : T(k) # {}}
        /\ \A k \in DOMAIN ends : ends[k].old = x[k] /\ ends[k].new = y[k]
    BY <1>5
  <2> QED
    BY <2>1, <1>3
<1>7. \A k \in {k \in K : x[k] # y[k]} : ends[k] = [old |-> x[k], new |-> y[k]]
  BY <1>3, <1>5
<1>8. Composed(P) = [k \in {k \in K : x[k] # y[k]} |-> [old |-> x[k], new |-> y[k]]]
  BY <1>4, <1>6, <1>7
<1>9. ComputeDiff(x, y) = [k \in {k \in K : x[k] # y[k]} |-> [old |-> x[k], new |-> y[k]]]
  BY <1>2 DEF ComputeDiff
<1> QED
  BY <1>8, <1>9 DEF P

\* A diff undone is the diff of the same states the other way round.
LEMMA InvertedDiff ==
    ASSUME NEW x, NEW y
    PROVE  Inverted(ComputeDiff(y, x)) = ComputeDiff(x, y)
<1> DEFINE D == {k \in DOMAIN x \intersect DOMAIN y : x[k] # y[k]}
<1>1. ComputeDiff(x, y) = [k \in D |-> [old |-> x[k], new |-> y[k]]]
  BY DEF ComputeDiff
<1>2. ComputeDiff(y, x) = [k \in D |-> [old |-> y[k], new |-> x[k]]]
  BY DEF ComputeDiff
<1> HIDE DEF D
<1> QED
  BY <1>1, <1>2 DEF Inverted

\* get_diff agrees with the recorded transitions: its answer is the diffs between
\* the two versions put together, or that undone, although it reads two rows at
\* two moments while updates go on.
THEOREM DiffsAgreeWithHistory == Spec => []DiffAgreesWithTransitions
<1>1. TransInv => DiffAgreesWithTransitions
  <2> SUFFICES ASSUME TransInv, NEW d \in Diffs, at[d] = "answered"
               PROVE  LET from == asked[d][1]
                          to   == asked[d][2]
                          diff == answer[d]
                      IN  IF "version" \in DOMAIN diff
                          THEN LET a == diff["version"].old
                                   b == diff["version"].new
                               IN  /\ from \in {0, a} /\ to \in {0, b}
                                   /\ a < b /\ Complete(a, b) => diff = Composed(Path(a, b))
                                   /\ b < a /\ Complete(b, a) => diff = Inverted(Composed(Path(b, a)))
                          ELSE diff = NoDiff /\ (from = to \/ 0 \in {from, to})
    BY DEF DiffAgreesWithTransitions
  <2>1. PICK x \in rows, y \in rows : /\ Answers(asked[d][1], x) /\ Answers(asked[d][2], y)
                                      /\ answer[d] = ComputeDiff(x, y)
    BY DEF TransInv, DiffsOK, DiffOK
  <2>2. "version" \in DOMAIN x /\ "version" \in DOMAIN y /\ V(x) \in Nat /\ V(y) \in Nat
    BY StateShape DEF TransInv, UpdateOK
  <2>3. CASE V(x) = V(y)
    <3>1. x = y
      BY <2>3 DEF TransInv, RowsOK
    <3>2. answer[d] = NoDiff /\ "version" \notin DOMAIN answer[d]
      BY <2>1, <3>1 DEF ComputeDiff, NoDiff
    <3> QED
      BY <2>1, <3>1, <3>2 DEF Answers
  <2>4. CASE V(x) # V(y)
    <3>1. /\ "version" \in DOMAIN answer[d]
          /\ answer[d]["version"].old = V(x) /\ answer[d]["version"].new = V(y)
      BY <2>1, <2>2, <2>4 DEF ComputeDiff, V
    <3>2. asked[d][1] \in {0, V(x)} /\ asked[d][2] \in {0, V(y)}
      BY <2>1 DEF Answers
    <3>3. V(x) < V(y) /\ Complete(V(x), V(y)) => answer[d] = Composed(Path(V(x), V(y)))
      BY <2>1, <2>2, ComposedIsDiff
    <3>4. V(y) < V(x) /\ Complete(V(y), V(x)) => answer[d] = Inverted(Composed(Path(V(y), V(x))))
      <4>1. V(y) < V(x) /\ Complete(V(y), V(x)) =>
                Composed(Path(V(y), V(x))) = ComputeDiff(y, x)
        BY <2>1, <2>2, ComposedIsDiff
      <4> QED
        BY <2>1, <4>1, InvertedDiff
    <3> QED
      BY <3>1, <3>2, <3>3, <3>4
  <2> QED
    BY <2>3, <2>4
<1> QED
  BY <1>1, Invariant, PTL
=============================================================================

--------------------------- MODULE SnapshotProofs ----------------------------
(***************************************************************************)
(* Theorems about Snapshot: for any number of entities, of scans and of    *)
(* snapshots that run at the same time, whichever way a row is decoded.    *)
(***************************************************************************)
EXTENDS Snapshot, TLAPS

Stored == Nat \union {None}

\* TypeOK, with the variables as the functions that they are.
TypeInv ==
    /\ cache \in [Entities -> Stored]
    /\ table \in [Entities -> Stored]
    /\ taken \in [Snapshots -> [Entities -> Stored]]
    /\ moments \in [Snapshots -> SUBSET [Watched -> Stored]]
    /\ TypeOK

-----------------------------------------------------------------------------
(***************************************************************************)
(* The inductive invariant.  A snapshot that runs has lived through what   *)
(* Redis holds now; of each entity that it is done with, it has taken a    *)
(* state that it lived through, or has lived through a moment without one. *)
(***************************************************************************)

Past(s) == Running(s) \/ pc[s] = "done"

\* s has asked for e's state, or has seen that there is none.
DoneWith(s, e) ==
    \/ pc[s] \in {"save", "done"}
    \/ e = Global /\ pc[s] \in {"keys", "get"}
    \/ e \in Scanned /\ pc[s] \in {"keys", "get"} /\ TypeOf[e] < scan[s]
    \/ e \in Scanned /\ pc[s] = "get" /\ TypeOf[e] = scan[s] /\ e \notin todo[s]

Present == \A s \in Snapshots : Running(s) => Seen(cache) \in moments[s]

Accounted(s, e) ==
    /\ Past(s) /\ taken[s][e] # None => taken[s][e] \in Lived(s, e)
    /\ DoneWith(s, e) /\ taken[s][e] = None => None \in Lived(s, e)

TakenOK == \A s \in Snapshots : \A e \in Watched : Accounted(s, e)

TodoOK ==
    \A s \in Snapshots : pc[s] = "get" => \A e \in todo[s] : TypeOf[e] = scan[s]

SavedOK ==
    /\ \A x \in saved : pc[x.snapshot] = "done" /\ x.id = id[x.snapshot]
    /\ \A x, y \in saved : x.id = y.id => x = y
    /\ \A s \in Snapshots : pc[s] = "done" => [snapshot |-> s, id |-> id[s]] \in saved

\* A snapshot starts with nothing taken and the first scan to come.
FreshOK ==
    \A s \in Snapshots :
       /\ pc[s] = "new" => \A e \in Entities : taken[s][e] = None
       /\ pc[s] \in {"new", "check", "global"} => scan[s] = 1

SnapInv == TypeInv /\ Present /\ TakenOK /\ TodoOK /\ SavedOK /\ FreshOK

-----------------------------------------------------------------------------
(***************************************************************************)
(* Lemmas.                                                                 *)
(***************************************************************************)

LEMMA InitSnapInv == Init => SnapInv
<1> SUFFICES ASSUME Init PROVE SnapInv
  OBVIOUS
<1>1. TypeInv
  BY SnapshotAssumption DEF Init, TypeInv, TypeOK, Stored
<1>2. Present /\ TakenOK /\ TodoOK /\ SavedOK /\ FreshOK
  BY DEF Init, Present, TakenOK, Accounted, TodoOK, SavedOK, FreshOK, Past, DoneWith,
         Running, Awaiting
<1> QED
  BY <1>1, <1>2 DEF SnapInv

\* The current state of an entity is a version of it.
LEMMA LatestType ==
    ASSUME TypeInv, NEW e \in Entities
    PROVE  Latest(e) \in Version(e) \union {None} /\ Latest(e) \in Stored
BY DEF TypeInv, TypeOK, Latest

\* Redis changes to c: every snapshot that runs has lived through it.
LEMMA BecomesOK ==
    ASSUME TypeInv, Present, NEW c \in [Entities -> Stored], Becomes(c)
    PROVE  /\ moments' \in [Snapshots -> SUBSET [Watched -> Stored]]
           /\ \A s \in Snapshots : moments[s] \subseteq moments'[s]
           /\ \A s \in Snapshots : Running(s) => Seen(cache)' \in moments'[s]
<1>1. Seen(c) \in [Watched -> Stored]
  BY SnapshotAssumption DEF Seen
<1>2. Seen(cache)' = Seen(c)
  BY DEF Becomes, Seen
<1> QED
  BY <1>1, <1>2 DEF Becomes, TypeInv, Present

\* A snapshot that stays where it is has still accounted for what it has.
LEMMA AccountedKept ==
    ASSUME NEW s \in Snapshots, NEW e, Accounted(s, e), moments[s] \subseteq moments'[s],
           pc'[s] = pc[s], scan'[s] = scan[s], todo'[s] = todo[s], taken'[s] = taken[s]
    PROVE  Accounted(s, e)'
<1>1. Lived(s, e) \subseteq Lived(s, e)'
  BY DEF Lived
<1> QED
  BY <1>1 DEF Accounted, Past, Running, DoneWith

\* What happens around the snapshots leaves them where they are.
LEMMA AroundSnapshots ==
    ASSUME SnapInv, UNCHANGED <<saved, locals>>, TypeInv',
           \A s \in Snapshots : moments[s] \subseteq moments'[s],
           \A s \in Snapshots : Running(s) => Seen(cache)' \in moments'[s]
    PROVE  SnapInv'
<1>1. UNCHANGED <<saved, pc, id, scan, todo, taken>>
  BY DEF locals
<1>2. Present'
  BY <1>1 DEF Present, Running
<1>3. TakenOK'
  BY <1>1, AccountedKept DEF SnapInv, TakenOK
<1>4. TodoOK' /\ SavedOK' /\ FreshOK'
  BY <1>1 DEF SnapInv, TodoOK, SavedOK, FreshOK
<1> QED
  BY <1>2, <1>3, <1>4 DEF SnapInv

\* Snapshot s moves, and neither finishes nor changes its id.
LEMMA SnapshotMoves ==
    ASSUME SnapInv, NEW s \in Snapshots, Running(s), TypeInv',
           \A q \in Snapshots : q # s => /\ pc'[q] = pc[q] /\ scan'[q] = scan[q]
                                        /\ todo'[q] = todo[q] /\ taken'[q] = taken[q],
           UNCHANGED <<saved, id>>, pc'[s] # "done", pc'[s] # "new",
           \A q \in Snapshots : moments[q] \subseteq moments'[q],
           \A q \in Snapshots : Running(q) => Seen(cache)' \in moments'[q],
           \A e \in Watched : Accounted(s, e)',
           pc'[s] = "get" => \A e \in todo'[s] : TypeOf[e] = scan'[s],
           pc'[s] \in {"check", "global"} => scan'[s] = 1
    PROVE  SnapInv'
<1>1. Present'
  BY DEF Present, Running, Awaiting
<1>2. TakenOK'
  BY AccountedKept DEF SnapInv, TakenOK
<1>3. TodoOK'
  BY DEF SnapInv, TodoOK
<1>4. SavedOK'
  <2>1. \A x \in saved : x.snapshot \in Snapshots
    BY DEF SnapInv, TypeInv, TypeOK
  <2>2. pc[s] # "done"
    BY DEF Running, Awaiting
  <2> QED
    BY <2>1, <2>2 DEF SnapInv, SavedOK
<1>5. FreshOK'
  <2>1. ASSUME NEW q \in Snapshots, q # s, pc[q] = "new" PROVE \A e \in Entities : taken'[q][e] = None
    BY <2>1 DEF SnapInv, FreshOK
  <2>2. ASSUME NEW q \in Snapshots, q # s, pc[q] \in {"new", "check", "global"}
        PROVE  scan'[q] = 1
    BY <2>2 DEF SnapInv, FreshOK
  <2> QED
    BY <2>1, <2>2 DEF FreshOK
<1> QED
  BY <1>1, <1>2, <1>3, <1>4, <1>5 DEF SnapInv

\* A scan ends, or all of them do; types that are left behind are done with.
LEMMA EndScanOK ==
    ASSUME TypeInv, NEW s \in Snapshots, EndScan(s)
    PROVE  /\ scan' \in [Snapshots -> 1 .. Types]
           /\ \A q \in Snapshots : q # s => pc'[q] = pc[q] /\ scan'[q] = scan[q]
           /\ \/ scan[s] = Types /\ pc'[s] = "save" /\ scan'[s] = scan[s]
              \/ pc'[s] = "keys" /\ scan'[s] = scan[s] + 1
           /\ pc' \in [Snapshots -> {"new", "done", "failed"} \union Awaiting]
<1>1. CASE scan[s] = Types
  BY <1>1 DEF EndScan, GoTo, TypeInv, TypeOK, Awaiting
<1>2. CASE scan[s] # Types
  <2>1. /\ pc' = [pc EXCEPT ![s] = "keys"] /\ scan' = [scan EXCEPT ![s] = @ + 1]
        /\ pc \in [Snapshots -> {"new", "done", "failed"} \union Awaiting]
        /\ scan \in [Snapshots -> 1..Types]
    BY <1>2 DEF EndScan, GoTo, TypeInv, TypeOK
  <2>2. scan[s] + 1 \in 1..Types
    BY <1>2, <2>1, SnapshotAssumption
  <2> QED
    BY <2>1, <2>2 DEF Awaiting
<1> QED
  BY <1>1, <1>2

-----------------------------------------------------------------------------
\* A snapshot fails: nothing that it took will be shown.
LEMMA SnapshotFails ==
    ASSUME SnapInv, NEW s \in Snapshots, Running(s), GoTo(s, "failed"),
           UNCHANGED <<stores, saved, id, scan, todo, taken, moments>>
    PROVE  SnapInv'
<1>t. TypeInv /\ Present
  BY DEF SnapInv
<1>1. /\ pc' = [pc EXCEPT ![s] = "failed"]
      /\ UNCHANGED <<cache, table, clock, saved, id, scan, todo, taken, moments>>
  BY DEF GoTo, stores
<1>2. pc'[s] = "failed" /\ \A q \in Snapshots : q # s => pc'[q] = pc[q]
  BY <1>t, <1>1 DEF TypeInv, TypeOK
<1>3. TypeInv'
  BY <1>t, <1>1 DEF TypeInv, TypeOK
<1>4. \A q \in Snapshots : Running(q) => Seen(cache)' \in moments'[q]
  BY <1>t, <1>1 DEF Present, Seen
<1>5. \A e \in Watched : Accounted(s, e)'
  BY <1>2 DEF Accounted, Past, Running, Awaiting, DoneWith
<1> QED
  BY <1>1, <1>2, <1>3, <1>4, <1>5, SnapshotMoves

LEMMA NextSnapInv == SnapInv /\ [Next]_vars => SnapInv'
<1> SUFFICES ASSUME SnapInv, [Next]_vars PROVE SnapInv'
  OBVIOUS
<1>t. TypeInv /\ Present
  BY DEF SnapInv
<1>a. None \notin Nat /\ \A e \in Entities : Version(e) \subseteq Stored
  BY SnapshotAssumption DEF Version, Stored
<1>1. ASSUME NEW e \in Entities, UpdateCache(e) PROVE SnapInv'
  <2>1. PICK v \in Version(e) :
           Becomes([cache EXCEPT ![e] = v]) /\ UNCHANGED <<table, clock, saved, locals>>
    BY <1>1 DEF UpdateCache
  <2>2. [cache EXCEPT ![e] = v] \in [Entities -> Stored]
    BY <1>t, <1>a DEF TypeInv
  <2>3. /\ moments' \in [Snapshots -> SUBSET [Watched -> Stored]]
        /\ \A s \in Snapshots : moments[s] \subseteq moments'[s]
        /\ \A s \in Snapshots : Running(s) => Seen(cache)' \in moments'[s]
    BY <1>t, <2>1, <2>2, BecomesOK
  <2>4. TypeInv'
    BY <1>t, <2>1, <2>2, <2>3 DEF TypeInv, TypeOK, Becomes, locals
  <2> QED
    BY <2>1, <2>3, <2>4, AroundSnapshots
<1>2. ASSUME NEW e \in Entities, UpdateTable(e) PROVE SnapInv'
  <2>1. TypeInv'
    BY <1>2, <1>t DEF UpdateTable, TypeInv, TypeOK, locals
  <2> QED
    BY <1>2, <1>t, <2>1, AroundSnapshots DEF UpdateTable, Present, Seen
<1>3. ASSUME NEW e \in Entities, Expire(e) PROVE SnapInv'
  <2>1. [cache EXCEPT ![e] = None] \in [Entities -> Stored]
    BY <1>t DEF TypeInv, Stored
  <2>2. /\ moments' \in [Snapshots -> SUBSET [Watched -> Stored]]
        /\ \A s \in Snapshots : moments[s] \subseteq moments'[s]
        /\ \A s \in Snapshots : Running(s) => Seen(cache)' \in moments'[s]
    BY <1>3, <1>t, <2>1, BecomesOK DEF Expire
  <2>3. TypeInv'
    BY <1>3, <1>t, <2>1, <2>2 DEF Expire, TypeInv, TypeOK, Becomes, locals
  <2> QED
    BY <1>3, <2>2, <2>3, AroundSnapshots DEF Expire
<1>4. CASE Tick
  <2>1. TypeInv'
    BY <1>4, <1>t, SnapshotAssumption DEF Tick, TypeInv, TypeOK, locals
  <2> QED
    BY <1>4, <1>t, <2>1, AroundSnapshots DEF Tick, Present, Seen
<1>5. ASSUME NEW s \in Snapshots, Start(s) PROVE SnapInv'
  <2>1. /\ pc[s] = "new" /\ pc' = [pc EXCEPT ![s] = "check"]
        /\ id' = [id EXCEPT ![s] = clock] /\ moments' = [moments EXCEPT ![s] = {Seen(cache)}]
        /\ UNCHANGED <<cache, table, clock, saved, scan, todo, taken>>
    BY <1>5 DEF Start, GoTo, stores
  <2>2. Seen(cache) \in [Watched -> Stored] /\ Seen(cache)' = Seen(cache)
    BY <1>t, <2>1, SnapshotAssumption DEF Seen, TypeInv
  <2>3. TypeInv'
    BY <1>t, <2>1, <2>2 DEF TypeInv, TypeOK, Awaiting
  <2>4. Present'
    BY <1>t, <2>1, <2>2 DEF Present, TypeInv, TypeOK, Running
  <2>5. ASSUME NEW q \in Snapshots, NEW e \in Watched PROVE Accounted(q, e)'
    <3>1. CASE q # s
      BY <1>t, <2>1, <3>1, AccountedKept DEF SnapInv, TakenOK, TypeInv, TypeOK
    <3>2. CASE q = s
      <4>1. taken[s][e] = None
        BY <2>1, SnapshotAssumption DEF SnapInv, FreshOK, Entities
      <4> QED
        BY <1>t, <2>1, <3>2, <4>1 DEF Accounted, DoneWith, TypeInv, TypeOK
    <3> QED
      BY <3>1, <3>2
  <2>6. TodoOK'
    BY <1>t, <2>1 DEF SnapInv, TodoOK, TypeInv, TypeOK
  <2>7. SavedOK'
    <3>1. \A x \in saved : x.snapshot \in Snapshots /\ x.snapshot # s
      BY <2>1 DEF SnapInv, SavedOK, TypeInv, TypeOK
    <3> QED
      BY <2>1, <3>1, <1>t DEF SnapInv, SavedOK, TypeInv, TypeOK
  <2>8. FreshOK'
    BY <1>t, <2>1 DEF SnapInv, FreshOK, TypeInv, TypeOK
  <2> QED
    BY <2>3, <2>4, <2>5, <2>6, <2>7, <2>8 DEF SnapInv, TakenOK
<1>6. ASSUME NEW s \in Snapshots, GlobalFound(s) PROVE SnapInv'
  <2>1. Running(s) /\ pc[s] \in {"check", "global"} /\ scan[s] = 1
    BY <1>6 DEF GlobalFound, Running, Awaiting, SnapInv, FreshOK
  <2>2. /\ pc' = [pc EXCEPT ![s] = IF pc[s] = "check" THEN "global" ELSE "keys"]
        /\ taken' = IF pc[s] = "check" THEN taken
                    ELSE [taken EXCEPT ![s][Global] = Latest(Global)]
        /\ UNCHANGED <<table, clock, saved, id, scan, todo>>
    BY <1>6 DEF GlobalFound, GoTo
  <2>3. Global \in Entities /\ Latest(Global) \in Version(Global) \union {None}
        /\ Latest(Global) \in Stored /\ table[Global] \in Stored
    BY <1>t, LatestType DEF Entities, TypeInv
  <2>4. /\ cache' \in [Entities -> Stored]
        /\ cache'[Global] = Latest(Global)
        /\ \A e \in Entities : cache'[e] \in Version(e) \union {None}
        /\ moments' \in [Snapshots -> SUBSET [Watched -> Stored]]
        /\ \A q \in Snapshots : moments[q] \subseteq moments'[q]
        /\ \A q \in Snapshots : Running(q) => Seen(cache)' \in moments'[q]
    <3>1. CASE cache[Global] # None
      <4>1. UNCHANGED <<cache, moments>> /\ Latest(Global) = cache[Global]
        BY <1>6, <3>1 DEF GlobalFound, Latest
      <4> QED
        BY <1>t, <4>1 DEF TypeInv, TypeOK, Present, Seen
    <3>2. CASE cache[Global] = None
      <4>1. Becomes([cache EXCEPT ![Global] = table[Global]]) /\ Latest(Global) = table[Global]
        BY <1>6, <3>2 DEF GlobalFound, Latest
      <4>2. [cache EXCEPT ![Global] = table[Global]] \in [Entities -> Stored]
        BY <1>t, <2>3 DEF TypeInv
      <4>3. /\ moments' \in [Snapshots -> SUBSET [Watched -> Stored]]
            /\ \A q \in Snapshots : moments[q] \subseteq moments'[q]
            /\ \A q \in Snapshots : Running(q) => Seen(cache)' \in moments'[q]
        BY <1>t, <4>1, <4>2, BecomesOK
      <4>4. cache' = [cache EXCEPT ![Global] = table[Global]]
        BY <4>1 DEF Becomes
      <4> QED
        BY <1>t, <2>3, <4>1, <4>2, <4>3, <4>4 DEF TypeInv, TypeOK
    <3> QED
      BY <3>1, <3>2
  <2>5. /\ taken' \in [Snapshots -> [Entities -> Stored]]
        /\ \A q \in Snapshots, e \in Entities : taken'[q][e] \in Version(e) \union {None}
    BY <1>t, <2>2, <2>3 DEF TypeInv, TypeOK
  <2>6. TypeInv'
    BY <1>t, <2>2, <2>4, <2>5 DEF TypeInv, TypeOK, Awaiting
  <2>7. ASSUME NEW e \in Watched PROVE Accounted(s, e)'
    <3>1. CASE e = Global
      <4>1. cache'[Global] \in Lived(s, e)'
        <5>1. Seen(cache)' \in moments'[s] /\ Seen(cache)'[e] = cache'[e]
          BY <2>1, <2>4, <3>1 DEF Seen
        <5> QED
          BY <5>1, <3>1 DEF Lived
      <4>2. CASE pc[s] = "check"
        <5>1. pc'[s] = "global" /\ taken'[s] = taken[s]
          BY <1>t, <2>2, <4>2 DEF TypeInv, TypeOK
        <5>2. Lived(s, e) \subseteq Lived(s, e)'
          BY <2>4 DEF Lived
        <5> QED
          BY <2>1, <5>1, <5>2 DEF SnapInv, TakenOK, Accounted, DoneWith, Past
      <4>3. CASE pc[s] = "global"
        <5>1. taken'[s][Global] = cache'[Global]
          BY <1>t, <2>2, <2>3, <2>4, <4>3 DEF TypeInv
        <5> QED
          BY <4>1, <5>1, <3>1 DEF Accounted
      <4> QED
        BY <2>1, <4>2, <4>3
    <3>2. CASE e # Global
      <4>1. e \in Scanned /\ TypeOf[e] \in 1..Types
        BY <3>2, SnapshotAssumption DEF Entities
      <4>2. taken'[s][e] = taken[s][e]
        BY <1>t, <2>2, <3>2, <4>1 DEF TypeInv, Entities
      <4>3. ~ DoneWith(s, e)'
        BY <1>t, <2>1, <2>2, <3>2, <4>1, SnapshotAssumption DEF DoneWith, TypeInv, TypeOK
      <4>4. Lived(s, e) \subseteq Lived(s, e)'
        BY <2>4 DEF Lived
      <4> QED
        BY <2>1, <4>2, <4>3, <4>4 DEF SnapInv, TakenOK, Accounted, Past
    <3> QED
      BY <3>1, <3>2
  <2>8. pc'[s] \in {"global", "keys"} /\ \A q \in Snapshots : q # s => pc'[q] = pc[q]
    BY <1>t, <2>2 DEF TypeInv, TypeOK
  <2>9. \A q \in Snapshots : q # s => taken'[q] = taken[q]
    BY <1>t, <2>2 DEF TypeInv
  <2> QED
    BY <2>1, <2>2, <2>4, <2>6, <2>7, <2>8, <2>9, SnapshotMoves
<1>7. ASSUME NEW s \in Snapshots, GlobalEmpty(s) PROVE SnapInv'
  <2>1. /\ pc[s] = "check" /\ Latest(Global) = None /\ pc' = [pc EXCEPT ![s] = "keys"]
        /\ UNCHANGED <<cache, table, clock, saved, id, scan, todo, taken, moments>>
    BY <1>7 DEF GlobalEmpty, GoTo, stores
  <2>2. Running(s) /\ scan[s] = 1 /\ cache[Global] = None
    BY <2>1 DEF Running, Awaiting, SnapInv, FreshOK, Latest
  <2>3. TypeInv'
    BY <1>t, <2>1 DEF TypeInv, TypeOK, Awaiting
  <2>4. ASSUME NEW e \in Watched PROVE Accounted(s, e)'
    <3>1. pc'[s] = "keys" /\ taken'[s] = taken[s] /\ Lived(s, e)' = Lived(s, e)
      BY <1>t, <2>1 DEF TypeInv, TypeOK, Lived
    <3>2. CASE e = Global
      <4>1. None \in Lived(s, e)
        <5>1. Seen(cache) \in moments[s] /\ Seen(cache)[e] = None
          BY <1>t, <2>2, <3>2 DEF Present, Seen
        <5> QED
          BY <5>1 DEF Lived
      <4> QED
        BY <2>2, <3>1, <4>1 DEF SnapInv, TakenOK, Accounted, Past
    <3>3. CASE e # Global
      <4>1. e \in Scanned /\ TypeOf[e] \in 1..Types
        BY <3>3, SnapshotAssumption DEF Entities
      <4>2. ~ DoneWith(s, e)'
        BY <2>1, <2>2, <3>1, <3>3, <4>1, SnapshotAssumption DEF DoneWith
      <4> QED
        BY <2>2, <3>1, <4>2 DEF SnapInv, TakenOK, Accounted, Past
    <3> QED
      BY <3>2, <3>3
  <2>5. pc'[s] = "keys" /\ \A q \in Snapshots : q # s => pc'[q] = pc[q]
    BY <1>t, <2>1 DEF TypeInv, TypeOK
  <2>6. \A q \in Snapshots : Running(q) => Seen(cache)' \in moments'[q]
    BY <1>t, <2>1 DEF Present, Seen
  <2> QED
    BY <2>1, <2>2, <2>3, <2>4, <2>5, <2>6, SnapshotMoves
<1>8. ASSUME NEW s \in Snapshots, GlobalGone(s) \/ GlobalText(s) PROVE SnapInv'
  <2>1. Running(s) /\ GoTo(s, "failed")
        /\ UNCHANGED <<stores, saved, id, scan, todo, taken, moments>>
    BY <1>8 DEF GlobalGone, GlobalText, Running, Awaiting
  <2> QED
    BY <2>1, SnapshotFails
<1>9. ASSUME NEW s \in Snapshots, ListKeys(s) PROVE SnapInv'
  <2>1. /\ pc[s] = "keys" /\ todo' = [todo EXCEPT ![s] = KeysOf(scan[s])]
        /\ UNCHANGED <<cache, table, clock, saved, id, taken, moments>>
    BY <1>9 DEF ListKeys, stores
  <2>2. Running(s)
    BY <2>1 DEF Running, Awaiting
  <2>3. /\ todo' \in [Snapshots -> SUBSET Scanned] /\ todo'[s] = KeysOf(scan[s])
        /\ \A q \in Snapshots : q # s => todo'[q] = todo[q]
    BY <1>t, <2>1 DEF TypeInv, TypeOK, KeysOf
  <2>4. /\ scan' \in [Snapshots -> 1 .. Types]
        /\ pc' \in [Snapshots -> {"new", "done", "failed"} \union Awaiting]
        /\ \A q \in Snapshots : q # s => pc'[q] = pc[q] /\ scan'[q] = scan[q]
        /\ \/ scan[s] = Types /\ pc'[s] = "save" /\ scan'[s] = scan[s] /\ KeysOf(scan[s]) = {}
           \/ pc'[s] = "keys" /\ scan'[s] = scan[s] + 1 /\ KeysOf(scan[s]) = {}
           \/ pc'[s] = "get" /\ scan'[s] = scan[s]
    <3>1. CASE KeysOf(scan[s]) = {}
      BY <1>9, <1>t, <3>1, EndScanOK DEF ListKeys
    <3>2. CASE KeysOf(scan[s]) # {}
      BY <1>9, <1>t, <3>2 DEF ListKeys, GoTo, TypeInv, TypeOK, Awaiting
    <3> QED
      BY <3>1, <3>2
  <2>5. TypeInv'
    BY <1>t, <2>1, <2>3, <2>4 DEF TypeInv, TypeOK
  <2>6. ASSUME NEW e \in Watched PROVE Accounted(s, e)'
    <3>1. taken'[s] = taken[s] /\ Lived(s, e)' = Lived(s, e)
      BY <2>1 DEF Lived
    <3>2. CASE e = Global
      BY <2>1, <2>2, <3>1, <3>2 DEF SnapInv, TakenOK, Accounted, Past, DoneWith
    <3>3. CASE e # Global
      <4>1. e \in Scanned /\ TypeOf[e] \in 1..Types /\ scan[s] \in 1..Types /\ Types \in Nat
        BY <1>t, <3>3, SnapshotAssumption DEF Entities, TypeInv, TypeOK
      <4>2. CASE TypeOf[e] < scan[s]
        <5>1. DoneWith(s, e)
          BY <2>1, <4>1, <4>2 DEF DoneWith
        <5> QED
          BY <2>2, <3>1, <5>1 DEF SnapInv, TakenOK, Accounted, Past
      <4>3. CASE TypeOf[e] = scan[s] /\ e \notin KeysOf(scan[s])
        <5>1. cache[e] = None
          BY <4>1, <4>3 DEF KeysOf
        <5>2. Seen(cache) \in moments[s] /\ Seen(cache)[e] = None
          BY <1>t, <2>2, <5>1 DEF Present, Seen
        <5>3. None \in Lived(s, e)
          BY <5>2 DEF Lived
        <5> QED
          BY <2>2, <3>1, <5>3 DEF SnapInv, TakenOK, Accounted, Past
      <4>4. CASE TypeOf[e] > scan[s] \/ e \in KeysOf(scan[s])
        <5>1. e \in KeysOf(scan[s]) => TypeOf[e] = scan[s] /\ pc'[s] = "get"
          BY <2>4 DEF KeysOf
        <5>2. ~ DoneWith(s, e)'
          BY <2>3, <2>4, <3>3, <4>1, <4>4, <5>1 DEF DoneWith
        <5> QED
          BY <2>2, <3>1, <5>2 DEF SnapInv, TakenOK, Accounted, Past
      <4> QED
        BY <4>1, <4>2, <4>3, <4>4
    <3> QED
      BY <3>2, <3>3
  <2>7. \A q \in Snapshots : Running(q) => Seen(cache)' \in moments'[q]
    BY <1>t, <2>1 DEF Present, Seen
  <2>8. pc'[s] = "get" => \A e \in todo'[s] : TypeOf[e] = scan'[s]
    BY <2>3, <2>4 DEF KeysOf
  <2>9. UNCHANGED <<saved, id>> /\ \A q \in Snapshots : taken'[q] = taken[q]
    BY <1>9, <2>1 DEF ListKeys
  <2> QED
    BY <2>1, <2>2, <2>3, <2>4, <2>5, <2>6, <2>7, <2>8, <2>9, SnapshotMoves
<1>10. ASSUME NEW s \in Snapshots, ReadKey(s) PROVE SnapInv'
  <2>1. PICK k \in todo[s] : /\ taken' = [taken EXCEPT ![s][k] = cache[k]]
                             /\ todo' = [todo EXCEPT ![s] = @ \ {k}]
    BY <1>10 DEF ReadKey
  <2>2. pc[s] = "get" /\ UNCHANGED <<cache, table, clock, saved, id, moments>>
    BY <1>10 DEF ReadKey, stores
  <2>3. Running(s) /\ k \in Scanned /\ k \in Entities /\ TypeOf[k] = scan[s]
    BY <1>t, <2>2 DEF Running, Awaiting, TypeInv, TypeOK, Entities, SnapInv, TodoOK
  <2>4. /\ todo' \in [Snapshots -> SUBSET Scanned] /\ todo'[s] = todo[s] \ {k}
        /\ \A q \in Snapshots : q # s => todo'[q] = todo[q]
    BY <1>t, <2>1 DEF TypeInv, TypeOK
  <2>5. /\ taken' \in [Snapshots -> [Entities -> Stored]]
        /\ \A q \in Snapshots, e \in Entities : taken'[q][e] \in Version(e) \union {None}
        /\ \A q \in Snapshots : q # s => taken'[q] = taken[q]
        /\ taken'[s][k] = cache[k]
        /\ \A e \in Entities : e # k => taken'[s][e] = taken[s][e]
    BY <1>t, <2>1, <2>3 DEF TypeInv, TypeOK
  <2>6. /\ scan' \in [Snapshots -> 1 .. Types]
        /\ pc' \in [Snapshots -> {"new", "done", "failed"} \union Awaiting]
        /\ \A q \in Snapshots : q # s => pc'[q] = pc[q] /\ scan'[q] = scan[q]
        /\ \/ scan[s] = Types /\ pc'[s] = "save" /\ scan'[s] = scan[s] /\ todo'[s] = {}
           \/ pc'[s] = "keys" /\ scan'[s] = scan[s] + 1 /\ todo'[s] = {}
           \/ pc'[s] = "get" /\ scan'[s] = scan[s]
    <3>1. CASE todo'[s] = {}
      BY <1>10, <1>t, <3>1, EndScanOK DEF ReadKey
    <3>2. CASE todo'[s] # {}
      BY <1>10, <1>t, <2>2, <3>2 DEF ReadKey, TypeInv, TypeOK
    <3> QED
      BY <3>1, <3>2
  <2>7. TypeInv'
    BY <1>t, <2>2, <2>4, <2>5, <2>6 DEF TypeInv, TypeOK
  <2>8. ASSUME NEW e \in Watched PROVE Accounted(s, e)'
    <3>1. Lived(s, e)' = Lived(s, e) /\ e \in Entities
      BY <2>2, SnapshotAssumption DEF Lived
    <3>2. CASE e = k
      <4>1. cache[e] \in Lived(s, e)
        <5>1. Seen(cache) \in moments[s] /\ Seen(cache)[e] = cache[e]
          BY <1>t, <2>3 DEF Present, Seen
        <5> QED
          BY <5>1 DEF Lived
      <4> QED
        BY <2>5, <3>1, <3>2, <4>1 DEF Accounted
    <3>3. CASE e # k
      <4>1. taken'[s][e] = taken[s][e]
        BY <2>5, <3>1, <3>3
      <4>2. DoneWith(s, e)' => DoneWith(s, e)
        <5>1. CASE e = Global
          BY <2>2, <5>1 DEF DoneWith
        <5>2. CASE e # Global
          <6>1. e \in Scanned /\ TypeOf[e] \in 1..Types /\ scan[s] \in 1..Types /\ Types \in Nat
            BY <1>t, <3>1, <5>2, SnapshotAssumption DEF Entities, TypeInv, TypeOK
          <6>2. e \in todo'[s] <=> e \in todo[s]
            BY <2>4, <3>3
          <6>3. e \in todo[s] => TypeOf[e] = scan[s]
            BY <2>2 DEF SnapInv, TodoOK
          <6> QED
            BY <2>2, <2>6, <5>2, <6>1, <6>2, <6>3 DEF DoneWith
        <5> QED
          BY <5>1, <5>2
      <4> QED
        BY <2>3, <3>1, <4>1, <4>2 DEF SnapInv, TakenOK, Accounted, Past
    <3> QED
      BY <3>2, <3>3
  <2>9. \A q \in Snapshots : Running(q) => Seen(cache)' \in moments'[q]
    BY <1>t, <2>2 DEF Present, Seen
  <2>10. pc'[s] = "get" => \A e \in todo'[s] : TypeOf[e] = scan'[s]
    BY <2>2, <2>4, <2>6 DEF SnapInv, TodoOK
  <2> QED
    BY <2>2, <2>3, <2>4, <2>5, <2>6, <2>7, <2>8, <2>9, <2>10, SnapshotMoves
<1>11. ASSUME NEW s \in Snapshots, Save(s) PROVE SnapInv'
  <2>1. /\ pc[s] = "save" /\ \A x \in saved : x.id # id[s]
        /\ saved' = saved \union {[snapshot |-> s, id |-> id[s]]}
        /\ pc' = [pc EXCEPT ![s] = "done"]
        /\ UNCHANGED <<cache, table, clock, id, scan, todo, taken, moments>>
    BY <1>11 DEF Save, GoTo, stores
  <2>2. /\ pc'[s] = "done" /\ \A q \in Snapshots : q # s => pc'[q] = pc[q]
        /\ pc' \in [Snapshots -> {"new", "done", "failed"} \union Awaiting]
    BY <1>t, <2>1 DEF TypeInv, TypeOK
  <2>3. TypeInv'
    BY <1>t, <2>1, <2>2 DEF TypeInv, TypeOK
  <2>4. Running(s) /\ ~ Running(s)'
    BY <2>1, <2>2 DEF Running, Awaiting
  <2>5. Present'
    <3>1. ASSUME NEW q \in Snapshots, Running(q)' PROVE Seen(cache)' \in moments'[q]
      <4>1. Running(q)
        BY <2>2, <2>4, <3>1 DEF Running
      <4> QED
        BY <1>t, <2>1, <4>1 DEF Present, Seen
    <3> QED
      BY <3>1 DEF Present
  <2>6. ASSUME NEW q \in Snapshots, NEW e \in Watched PROVE Accounted(q, e)'
    <3>1. CASE q # s
      BY <2>1, <2>2, <3>1, AccountedKept DEF SnapInv, TakenOK
    <3>2. CASE q = s
      <4>1. DoneWith(s, e) /\ Past(s) /\ Lived(s, e)' = Lived(s, e)
        BY <2>1, <2>4 DEF DoneWith, Past, Lived
      <4> QED
        BY <2>1, <3>2, <4>1 DEF SnapInv, TakenOK, Accounted
    <3> QED
      BY <3>1, <3>2
  <2>7. TodoOK' /\ FreshOK'
    BY <2>1, <2>2 DEF SnapInv, TodoOK, FreshOK
  <2>8. SavedOK'
    <3> DEFINE new == [snapshot |-> s, id |-> id[s]]
    <3>1. new.snapshot = s /\ new.id = id[s] /\ saved' = saved \union {new}
      BY <2>1
    <3>2. \A x \in saved : x.snapshot \in Snapshots /\ x.snapshot # s
      BY <2>1 DEF SnapInv, SavedOK, TypeInv, TypeOK
    <3> HIDE DEF new
    <3>3. \A x \in saved' : pc'[x.snapshot] = "done" /\ x.id = id'[x.snapshot]
      BY <2>1, <2>2, <3>1, <3>2 DEF SnapInv, SavedOK
    <3>4. \A x, y \in saved' : x.id = y.id => x = y
      BY <2>1, <3>1 DEF SnapInv, SavedOK
    <3>5. \A q \in Snapshots : pc'[q] = "done" => [snapshot |-> q, id |-> id'[q]] \in saved'
      BY <2>1, <2>2 DEF SnapInv, SavedOK
    <3> QED
      BY <3>3, <3>4, <3>5 DEF SavedOK
  <2> QED
    BY <2>3, <2>5, <2>6, <2>7, <2>8 DEF SnapInv, TakenOK
<1>12. ASSUME NEW s \in Snapshots, SaveConflict(s) PROVE SnapInv'
  <2>1. Running(s) /\ GoTo(s, "failed")
        /\ UNCHANGED <<stores, saved, id, scan, todo, taken, moments>>
    BY <1>12 DEF SaveConflict, Running, Awaiting
  <2> QED
    BY <2>1, SnapshotFails
<1>13. CASE UNCHANGED vars
  <2>1. UNCHANGED <<saved, locals, cache, table, clock, moments>>
    BY <1>13 DEF vars, stores
  <2>2. TypeInv'
    BY <1>t, <2>1 DEF TypeInv, TypeOK, locals
  <2> QED
    BY <1>t, <2>1, <2>2, AroundSnapshots DEF Present, Seen
<1> QED
  BY <1>1, <1>2, <1>3, <1>4, <1>5, <1>6, <1>7, <1>8, <1>9, <1>10, <1>11, <1>12, <1>13
     DEF Next, Step

LEMMA SnapInvariant == Spec => []SnapInv
<1>1. Init => SnapInv
  BY InitSnapInv
<1>2. SnapInv /\ [Next]_vars => SnapInv'
  BY NextSnapInv
<1> QED
  BY <1>1, <1>2, PTL DEF Spec

-----------------------------------------------------------------------------
(***************************************************************************)
(* The theorems.                                                           *)
(***************************************************************************)

\* The variables keep their types.
THEOREM SnapshotTypeCorrect == Spec => []TypeOK
<1>1. SnapInv => TypeOK
  BY DEF SnapInv, TypeInv
<1> QED
  BY <1>1, SnapInvariant, PTL

\* A saved snapshot holds only states that Redis held while create_snapshot ran,
\* however updates, expiry and other snapshots interleave with its reads.
THEOREM EntriesAreCurrent == Spec => []EntriesWereCurrent
<1>1. SnapInv => EntriesWereCurrent
  BY DEF SnapInv, TakenOK, Accounted, Past, EntriesWereCurrent
<1> QED
  BY <1>1, SnapInvariant, PTL

\* A saved snapshot leaves out only entities that Redis was without at some
\* moment while create_snapshot ran.
THEOREM OmittedAreUncached == Spec => []OmittedWereUncached
<1>1. SnapInv => OmittedWereUncached
  BY DEF SnapInv, TakenOK, Accounted, DoneWith, OmittedWereUncached
<1> QED
  BY <1>1, SnapInvariant, PTL

\* The snapshot_id that create_snapshot returns belongs to that snapshot alone.
THEOREM SnapshotIdsAreUnique == Spec => []IdFindsSnapshot
<1>1. SnapInv => IdFindsSnapshot
  BY DEF SnapInv, SavedOK, IdFindsSnapshot
<1> QED
  BY <1>1, SnapInvariant, PTL
=============================================================================

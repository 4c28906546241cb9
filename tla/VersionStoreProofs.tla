------------------------- MODULE VersionStoreProofs -------------------------
(***************************************************************************)
(* VersionStore: versions are immutable, linear while writers load again   *)
(* after a conflict, and lose nothing but to objects that never saw it,    *)
(* for any number of writers, fields and values.                           *)
(***************************************************************************)
EXTENDS VersionStore, TLAPS

\* An id nobody has saved yet.
LEMMA InitHolds == ASSUME Init PROVE VersionInv
BY VersionAssumption
DEF Init, VersionInv, TypeOK, DraftsDescend, RowsDescend, GapsAreKnown, NoSilentLoss, Saved,
    Versions

\* The object a writer has, and the row it makes.
LEMMA DraftTyped ==
    ASSUME TypeOK, NEW w \in Writers, draft[w] # NoDraft
    PROVE  /\ draft[w] \in Drafts
           /\ draft[w].version \in Versions
           /\ RowOf(draft[w]) \in Rows /\ RowOf(draft[w]) # NoRow
           /\ draft[w].base \in Nat /\ draft[w].version \in Nat /\ draft[w].version >= 1
BY VersionAssumption DEF TypeOK, Drafts, Rows, RowOf, Versions

\* Inserting the object w revised: what was saved stays, and it descends from
\* its base if it is new.
LEMMA InsertKeeps ==
    ASSUME VersionInv, NEW w \in Writers, revised[w], Insert(draft[w])
    PROVE  /\ store' \in [Versions -> Rows \cup {NoRow}]
           /\ \A v \in Versions : Saved(v) => store'[v] = store[v]
           /\ store'[draft[w].version] # NoRow
           /\ ~Saved(draft[w].version) => store'[draft[w].version] = RowOf(draft[w])
           /\ \A v \in Versions \ {draft[w].version} : store'[v] = store[v]
<1> DEFINE d == draft[w]
<1>1. d \in Drafts /\ d.version \in Versions /\ RowOf(d) \in Rows /\ RowOf(d) # NoRow
  BY DraftTyped DEF VersionInv, DraftsDescend
<1>2. store \in [Versions -> Rows \cup {NoRow}]
  BY DEF VersionInv, TypeOK
<1>3. CASE Saved(d.version)
  BY <1>1, <1>2, <1>3 DEF Insert, Saved
<1>4. CASE ~Saved(d.version)
  <2>1. store' = [store EXCEPT ![d.version] = RowOf(d)]
    BY <1>4 DEF Insert
  <2> QED
    BY <1>1, <1>2, <1>4, <2>1 DEF Saved
<1>5. QED
  BY <1>3, <1>4

\* The rows as they were keep descending, and the new one does.
LEMMA RowsKeep ==
    ASSUME VersionInv, NEW w \in Writers, revised[w], Insert(draft[w]), UNCHANGED conditions
    PROVE  RowsDescend'
<1> DEFINE d == draft[w]
<1>1. SUFFICES ASSUME NEW v \in Versions, store'[v] # NoRow
               PROVE  /\ Descends(store[v])'
                      /\ store'[v].base < v
                      /\ ~chains' => store'[v].base = v - 1
  BY DEF RowsDescend, Saved
<1>2. CASE Saved(v)
  <2>1. store'[v] = store[v]
    BY <1>2, InsertKeeps
  <2>2. Descends(store[v])
    BY <1>2 DEF VersionInv, RowsDescend
  <2>3. Descends(store[v])'
    BY <2>1, <2>2, InsertKeeps DEF Descends, Follows, Saved
  <2> QED
    BY <1>2, <2>1, <2>3 DEF VersionInv, RowsDescend, conditions
<1>3. CASE ~Saved(v)
  <2>1. v = d.version /\ store'[v] = RowOf(d)
    BY <1>1, <1>3, InsertKeeps DEF Saved
  <2>2. /\ Descends(d) /\ d.base < d.version
        /\ ~chains => d.base = d.version - 1
    BY DEF VersionInv, DraftsDescend
  <2>3. Descends(store[v])'
    BY <2>1, <2>2, InsertKeeps DEF Descends, Follows, Saved, RowOf
  <2> QED
    BY <2>1, <2>2, <2>3 DEF RowOf, conditions
<1>4. QED
  BY <1>2, <1>3

\* A new row beyond a gap was made from what is older than the gap, or its base,
\* which lies beyond the gap itself, leads to a row that was.
LEMMA GapsKeep ==
    ASSUME VersionInv, NEW w \in Writers, revised[w], Insert(draft[w])
    PROVE  GapsAreKnown'
<1> DEFINE d == draft[w]
<1>1. SUFFICES ASSUME NEW v \in Versions, store'[v] # NoRow,
                      NEW u \in 1 .. v - 1, store'[u] = NoRow
               PROVE  \E x \in u + 1 .. v : store'[x] # NoRow /\ store'[x].base < u
  BY DEF GapsAreKnown, Saved
<1>2. /\ u \in Versions /\ ~Saved(u) /\ u \in Nat /\ v \in Nat
      /\ \A x \in u + 1 .. v : x \in Versions
  BY <1>1, InsertKeeps, VersionAssumption DEF Versions, Saved
<1>3. ASSUME NEW y \in Versions, Saved(y), u < y, y <= v
      PROVE  \E x \in u + 1 .. v : store'[x] # NoRow /\ store'[x].base < u
  <2>1. PICK x \in u + 1 .. y : Saved(x) /\ store[x].base < u
    BY <1>2, <1>3 DEF VersionInv, GapsAreKnown, Versions
  <2>2. x \in u + 1 .. v /\ x \in Versions
    BY <1>2, <1>3, <2>1 DEF Versions
  <2> QED
    BY <2>1, <2>2, InsertKeeps DEF Saved
<1>4. CASE Saved(v)
  BY <1>2, <1>3, <1>4
<1>5. CASE ~Saved(v)
  <2>1. v = d.version /\ store'[v] = RowOf(d) /\ d.base \in Nat
    BY <1>1, <1>5, InsertKeeps, DraftTyped DEF Saved, VersionInv, DraftsDescend
  <2>2. Descends(d) /\ d.base < v
    BY <2>1 DEF VersionInv, DraftsDescend
  <2>3. CASE d.base < u
    <3>1. v \in u + 1 .. v /\ store'[v].base < u
      BY <1>2, <2>1, <2>3 DEF RowOf
    <3> QED
      BY <1>1, <3>1
  <2>4. CASE ~(d.base < u)
    <3>1. d.base \in Versions /\ Saved(d.base) /\ u < d.base
      BY <1>2, <2>1, <2>2, <2>4 DEF Descends
    <3> QED
      BY <1>2, <1>3, <2>2, <3>1 DEF Versions
  <2> QED
    BY <2>3, <2>4
<1>6. QED
  BY <1>4, <1>5

\* What a new row does without, it changed or never saw, or its base does without
\* it.  A row that fills a gap was unknown to some row beyond it.
LEMMA LossKeeps ==
    ASSUME VersionInv, NEW w \in Writers, revised[w], Insert(draft[w])
    PROVE  NoSilentLoss'
<1> DEFINE d == draft[w]
           Excused(u, v, f) == \E x \in u + 1 .. v :
               store'[x] # NoRow /\ (f \in store'[x].changed \/ store'[x].base < u)
<1>1. SUFFICES ASSUME NEW v \in Versions, store'[v] # NoRow,
                      NEW u \in 1 .. v - 1, NEW f \in Fields, store'[u] # NoRow,
                      store'[v].content[f] # store'[u].content[f]
               PROVE  Excused(u, v, f)
  BY DEF NoSilentLoss, Saved
<1>2. /\ u \in Versions /\ u \in Nat /\ v \in Nat
      /\ \A x \in u + 1 .. v : x \in Versions
  BY VersionAssumption DEF Versions
\* A version saved before, with u saved before or only now.
<1>3. ASSUME NEW y \in Versions, Saved(y), u < y, y <= v,
             store[y].content[f] # store'[u].content[f]
      PROVE  Excused(u, v, f)
  <2>1. PICK x \in u + 1 .. y : Saved(x) /\ (f \in store[x].changed \/ store[x].base < u)
    <3>1. CASE Saved(u)
      <4>1. store'[u] = store[u]
        BY <1>2, <3>1, InsertKeeps
      <4>2. u \in 1 .. y - 1
        BY <1>2, <1>3 DEF Versions
      <4> QED
        BY <1>3, <3>1, <4>1, <4>2 DEF VersionInv, NoSilentLoss
    <3>2. CASE ~Saved(u)
      <4>1. u \in 1 .. y - 1
        BY <1>2, <1>3 DEF Versions
      <4> QED
        BY <1>3, <3>2, <4>1 DEF VersionInv, GapsAreKnown
    <3> QED
      BY <3>1, <3>2
  <2>2. x \in u + 1 .. v /\ x \in Versions
    BY <1>2, <1>3, <2>1 DEF Versions
  <2>3. store'[x] = store[x] /\ store'[x] # NoRow
    BY <2>1, <2>2, InsertKeeps DEF Saved
  <2> QED
    BY <2>1, <2>2, <2>3
<1>4. CASE Saved(v)
  <2>1. store'[v] = store[v]
    BY <1>4, InsertKeeps
  <2> QED
    BY <1>1, <1>2, <1>3, <1>4, <2>1
<1>5. CASE ~Saved(v)
  <2>1. v = d.version /\ store'[v] = RowOf(d) /\ d.base \in Nat
    BY <1>1, <1>5, InsertKeeps, DraftTyped DEF Saved, VersionInv, DraftsDescend
  <2>2. Descends(d) /\ d.base < v
    BY <2>1 DEF VersionInv, DraftsDescend
  <2>3. CASE d.base < u \/ f \in d.changed
    <3>1. v \in u + 1 .. v /\ (store'[v].base < u \/ f \in store'[v].changed)
      BY <1>2, <2>1, <2>3 DEF RowOf
    <3> QED
      BY <1>1, <3>1
  <2>4. CASE ~(d.base < u) /\ f \notin d.changed
    <3>1. /\ d.base \in Versions /\ Saved(d.base) /\ u <= d.base
          /\ store[d.base].content[f] = store'[v].content[f]
      BY <1>2, <2>1, <2>2, <2>4 DEF Descends, Follows, RowOf
    <3>2. d.base # u
      BY <1>1, <3>1, InsertKeeps
    <3> QED
      BY <1>1, <1>2, <1>3, <2>2, <3>1, <3>2 DEF Versions
  <2> QED
    BY <2>3, <2>4
<1>6. QED
  BY <1>4, <1>5

\* Whatever the writers have, a step that keeps what is saved keeps their
\* objects as good as they were.
LEMMA DraftsKeep ==
    ASSUME VersionInv, NEW x \in Writers, UNCHANGED conditions,
           \A v \in Versions : Saved(v) => store'[v] = store[v],
           draft'[x] = draft[x], revised'[x] = revised[x],
           draft'[x] # NoDraft
    PROVE  /\ Descends(draft[x])'
           /\ IF revised'[x] THEN draft'[x].base < draft'[x].version
                             ELSE draft'[x].base = draft'[x].version /\ draft'[x].changed = {}
           /\ ~chains' /\ revised'[x] => draft'[x].base = draft'[x].version - 1
<1>1. Descends(draft[x])
  BY DEF VersionInv, DraftsDescend
<1>2. Descends(draft[x])'
  BY <1>1 DEF Descends, Follows, Saved
<1> QED
  BY <1>2 DEF VersionInv, DraftsDescend, conditions

\* A writer takes up what it loaded, created or revised.
LEMMA TakingPreserves ==
    ASSUME VersionInv, NEW w \in Writers, NEW d \in Drafts, NEW toSave \in BOOLEAN,
           Takes(w, d, toSave), UNCHANGED <<store, conditions>>, Descends(d),
           IF toSave THEN d.base < d.version ELSE d.base = d.version /\ d.changed = {},
           ~chains /\ toSave => d.base = d.version - 1
    PROVE  VersionInv'
<1>1. TypeOK'
  BY DEF VersionInv, TypeOK, Takes, conditions
<1>2. /\ draft'[w] = d /\ revised'[w] = toSave /\ d # NoDraft
      /\ \A x \in Writers \ {w} : draft'[x] = draft[x] /\ revised'[x] = revised[x]
  BY VersionAssumption DEF VersionInv, TypeOK, Takes
<1>3. DraftsDescend'
  BY <1>2 DEF VersionInv, DraftsDescend, Descends, Follows, Saved, conditions
<1>4. RowsDescend' /\ GapsAreKnown' /\ NoSilentLoss'
  BY DEF VersionInv, RowsDescend, GapsAreKnown, NoSilentLoss, Descends, Follows, Saved,
         conditions
<1> QED
  BY <1>1, <1>3, <1>4 DEF VersionInv

\* One step of a writer.
LEMMA StepPreserves ==
    ASSUME VersionInv, [Next]_vars
    PROVE  VersionInv'
<1> USE VersionAssumption
<1>1. ASSUME NEW w \in Writers, NEW content \in Contents, Create(w, content)
      PROVE VersionInv'
  <2> DEFINE d == [version |-> 1, content |-> content, base |-> 0, changed |-> Fields]
  <2>1. d \in Drafts /\ Descends(d)
    BY <1>1 DEF Create, Drafts, Descends
  <2>2. d.base < d.version /\ d.base = d.version - 1
    OBVIOUS
  <2>3. Takes(w, d, TRUE) /\ UNCHANGED <<store, conditions>>
    BY <1>1 DEF Create
  <2> HIDE DEF d
  <2> QED
    BY <2>1, <2>2, <2>3, TakingPreserves
<1>2. ASSUME NEW w \in Writers, NEW v \in Versions, Load(w, v)
      PROVE VersionInv'
  <2> DEFINE d == [version |-> v, content |-> store[v].content, base |-> v, changed |-> {}]
  <2>1. d \in Drafts /\ Descends(d)
    BY <1>2 DEF Load, Drafts, Descends, Follows, VersionInv, TypeOK, Saved, Rows
  <2> QED
    BY <1>2, <2>1, TakingPreserves DEF Load
<1>3. ASSUME NEW w \in Writers, NEW content \in Contents,
             NEW fields \in SUBSET Fields \ {{}}, Revise(w, content, fields)
      PROVE VersionInv'
  <2> DEFINE o == draft[w]
             d == [version |-> o.version + 1, content |-> content, base |-> o.base,
                   changed |-> o.changed \cup fields]
  <2>1. /\ o # NoDraft /\ o.version < MaxVersion
        /\ \A f \in Fields \ fields : content[f] = o.content[f]
        /\ revised[w] => chains
        /\ Takes(w, d, TRUE) /\ UNCHANGED <<store, conditions>>
    BY <1>3 DEF Revise
  <2>2. o \in Drafts /\ o.version \in Nat /\ o.version >= 1 /\ o.base \in Nat
    BY <2>1, DraftTyped DEF VersionInv
  <2>3. d \in Drafts
    BY <2>1, <2>2 DEF Drafts, Versions
  <2>4. /\ Descends(o)
        /\ IF revised[w] THEN o.base < o.version ELSE o.base = o.version /\ o.changed = {}
    BY <2>1 DEF VersionInv, DraftsDescend
  <2>5. d.base < d.version /\ (~chains => d.base = d.version - 1)
    BY <2>1, <2>2, <2>4
  <2>6. Descends(d)
    <3>1. CASE o.base = 0 /\ o.changed = Fields
      BY <3>1 DEF Descends
    <3>2. CASE o.base \in Versions /\ Saved(o.base) /\ Follows(o, store[o.base])
      BY <2>1, <3>2 DEF Descends, Follows
    <3> QED
      BY <2>4, <3>1, <3>2 DEF Descends
  <2> QED
    BY <2>1, <2>3, <2>5, <2>6, TakingPreserves
<1>4. ASSUME NEW w \in Writers, SaveVersion(w) \/ SaveErrs(w)
      PROVE VersionInv'
  <2>1. UNCHANGED conditions /\ revised[w] /\ draft[w] # NoDraft
    BY <1>4 DEF SaveVersion, SaveErrs, VersionInv, DraftsDescend
  <2>2. /\ store' \in [Versions -> Rows \cup {NoRow}]
        /\ \A v \in Versions : Saved(v) => store'[v] = store[v]
        /\ RowsDescend' /\ GapsAreKnown' /\ NoSilentLoss'
    <3>1. CASE Insert(draft[w])
      BY <2>1, <3>1, InsertKeeps, RowsKeep, GapsKeep, LossKeeps
    <3>2. CASE UNCHANGED store
      BY <2>1, <3>2 DEF VersionInv, TypeOK, RowsDescend, GapsAreKnown, NoSilentLoss, Descends,
                        Follows, Saved, conditions
    <3>3. QED
      BY <1>4, <3>1, <3>2 DEF SaveVersion, SaveErrs
  <2> DEFINE d == [draft[w] EXCEPT !.base = draft[w].version, !.changed = {}]
  <2>3. \/ SaveVersion(w) /\ ~Saved(draft[w].version) /\ Takes(w, d, FALSE)
        \/ Takes(w, NoDraft, FALSE)
        \/ UNCHANGED <<draft, revised>>
    BY <1>4 DEF SaveVersion, SaveErrs
  <2>4. /\ d \in Drafts /\ d # NoDraft
        /\ d.version = draft[w].version /\ d.base = draft[w].version /\ d.changed = {}
        /\ d.content = draft[w].content /\ d.version \in Versions
    BY <2>1, DraftTyped DEF VersionInv, Drafts
  <2>5. /\ TypeOK'
        /\ \A x \in Writers \ {w} : draft'[x] = draft[x] /\ revised'[x] = revised[x]
    BY <2>1, <2>2, <2>3, <2>4 DEF VersionInv, TypeOK, Takes, conditions
  <2>6. ASSUME NEW x \in Writers, draft'[x] = draft[x], revised'[x] = revised[x],
               draft'[x] # NoDraft
        PROVE  /\ Descends(draft[x])'
               /\ IF revised'[x] THEN draft'[x].base < draft'[x].version
                                 ELSE draft'[x].base = draft'[x].version
                                      /\ draft'[x].changed = {}
               /\ ~chains' /\ revised'[x] => draft'[x].base = draft'[x].version - 1
    BY <2>1, <2>2, <2>6, DraftsKeep
  <2>7. CASE SaveVersion(w) /\ ~Saved(draft[w].version) /\ Takes(w, d, FALSE)
    <3>1. draft'[w] = d /\ revised'[w] = FALSE
      BY <2>7 DEF VersionInv, TypeOK, Takes
    <3>2. store'[d.version] = RowOf(draft[w]) /\ store'[d.version] # NoRow
      BY <2>1, <2>4, <2>7, InsertKeeps DEF SaveVersion
    <3>3. Descends(draft[w])'
      BY <2>4, <3>1, <3>2 DEF Descends, Follows, Saved, RowOf
    <3>4. /\ draft'[w].base = draft'[w].version /\ draft'[w].changed = {}
          /\ draft'[w] # NoDraft
      BY <2>4, <3>1
    <3>5. DraftsDescend'
      BY <2>5, <2>6, <3>1, <3>3, <3>4 DEF DraftsDescend, VersionInv
    <3> QED
      BY <2>2, <2>5, <3>5 DEF VersionInv
  <2>8. CASE Takes(w, NoDraft, FALSE)
    <3>1. draft'[w] = NoDraft /\ revised'[w] = FALSE
      BY <2>8 DEF VersionInv, TypeOK, Takes
    <3>2. DraftsDescend'
      BY <2>5, <2>6, <3>1 DEF DraftsDescend, VersionInv
    <3> QED
      BY <2>2, <2>5, <3>2 DEF VersionInv
  <2>9. CASE UNCHANGED <<draft, revised>>
    <3>1. DraftsDescend'
      BY <2>6, <2>9 DEF DraftsDescend, VersionInv
    <3> QED
      BY <2>2, <2>5, <3>1 DEF VersionInv
  <2> QED
    BY <2>3, <2>7, <2>8, <2>9
<1>5. CASE UNCHANGED vars
  BY <1>5 DEF vars, VersionInv, TypeOK, DraftsDescend, RowsDescend, GapsAreKnown, NoSilentLoss,
              Descends, Follows, Saved
<1>6. QED
  BY <1>1, <1>2, <1>3, <1>4, <1>5 DEF Next

\* The store and its writers fit together in every reachable state.
THEOREM VersionInvariant == Spec => []VersionInv
BY InitHolds, StepPreserves, PTL DEF Spec

\* "Versions are immutable" (persona.ts:34, policy-definition.ts:21): a row is
\* never changed, by whichever writers and after whichever errors.
THEOREM SavedIsForEver == Spec => VersionsImmutable
<1>1. ASSUME VersionInv, [Next]_vars
      PROVE  [\A v \in Versions : Saved(v) => store'[v] = store[v]]_vars
  <2>1. ASSUME NEW w \in Writers, SaveVersion(w) \/ SaveErrs(w),
               NEW v \in Versions, Saved(v)
        PROVE  store'[v] = store[v]
    <3>1. CASE Insert(draft[w])
      BY <1>1, <2>1, <3>1, InsertKeeps DEF SaveVersion, SaveErrs
    <3>2. CASE UNCHANGED store
      BY <3>2
    <3>3. QED
      BY <2>1, <3>1, <3>2 DEF SaveVersion, SaveErrs
  <2>2. QED
    BY <1>1, <2>1 DEF Next, Create, Load, Revise, vars
<1>2. QED
  BY <1>1, VersionInvariant, PTL DEF Spec, VersionsImmutable

\* While writers load again after a conflict, no revision undoes another one's
\* and no version is missing (drizzle-persona-repository.ts:22-26).
THEOREM HistoryIsLinear == Spec => []LinearHistory
<1>1. VersionInv => LinearHistory
  BY VersionAssumption
  DEF VersionInv, RowsDescend, Descends, LinearHistory, Follows, Versions
<1>2. QED
  BY <1>1, VersionInvariant, PTL

\* In chains too: what a version does without, some version up to it changed
\* anew or never saw (persona.ts:104-110).
THEOREM ChangesAreKept == Spec => []NoSilentLoss
<1>1. VersionInv => NoSilentLoss
  BY DEF VersionInv
<1>2. QED
  BY <1>1, VersionInvariant, PTL

\* Every step of the store is one of History, or none.
LEMMA StoreStep == VersionInv /\ [Next]_vars => [Versioning!Next]_Versioning!vars
<1> SUFFICES ASSUME VersionInv, [Next]_vars PROVE [Versioning!Next]_Versioning!vars
  OBVIOUS
<1>1. CASE UNCHANGED vars
  BY <1>1 DEF vars, Versioning!vars
<1>2. ASSUME NEW w \in Writers, SaveVersion(w) \/ SaveErrs(w)
      PROVE  [Versioning!Next]_Versioning!vars
  <2> DEFINE d == draft[w]
  <2>1. revised[w] /\ UNCHANGED conditions /\ (Insert(d) \/ UNCHANGED store)
    BY <1>2 DEF SaveVersion, SaveErrs
  <2>2. CASE Saved(d.version) \/ UNCHANGED store
    BY <2>1, <2>2 DEF Insert, conditions, Versioning!vars
  <2>3. CASE ~Saved(d.version) /\ Insert(d)
    <3>1. d \in Drafts /\ d.version \in Versions /\ RowOf(d) \in Rows
      BY <2>1, DraftTyped DEF VersionInv, DraftsDescend
    <3>2. store' = [store EXCEPT ![d.version] = RowOf(d)]
      BY <2>3 DEF Insert
    <3>3. ASSUME ~chains, d.version # 1
          PROVE  /\ store[d.version - 1] # NoRow
                 /\ \A f \in Fields \ RowOf(d).changed :
                      RowOf(d).content[f] = store[d.version - 1].content[f]
      <4>1. d # NoDraft /\ Descends(d) /\ d.base = d.version - 1
        BY <2>1, <3>3 DEF VersionInv, DraftsDescend
      <4>2. d.base # 0
        BY <3>1, <3>3, <4>1 DEF Versions
      <4> QED
        BY <4>1, <4>2 DEF Descends, Saved, Follows, RowOf
    <3>4. Versioning!Save(d.version, RowOf(d))
      BY <2>1, <2>3, <3>2, <3>3
      DEF Versioning!Save, Versioning!Continues, Saved, conditions
    <3> QED
      BY <3>1, <3>4 DEF Versioning!Next
  <2> QED
    BY <2>1, <2>2, <2>3
<1>3. ASSUME UNCHANGED <<store, conditions>> PROVE UNCHANGED Versioning!vars
  BY <1>3 DEF conditions, Versioning!vars
<1> QED
  BY <1>1, <1>2, <1>3 DEF Next, Create, Load, Revise

\* The store implements History: whoever saves, fails or is refused, rows are
\* only added, and while writers load again after a conflict each continues the
\* one before (ports/persona-repository.ts:5-7).
THEOREM StoreImplementsHistory == Spec => ImplementsHistory
<1>1. Init => Versioning!Init
  BY DEF Init, Versioning!Init
<1> QED
  BY <1>1, StoreStep, VersionInvariant, PTL DEF Spec, ImplementsHistory, Versioning!Spec
=============================================================================

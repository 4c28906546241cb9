---------------------------- MODULE VersionStore ----------------------------
(***************************************************************************)
(* The versions of one persona, or of one policy: Persona.revise and       *)
(* PolicyDefinition.revise make the next version in memory, saveVersion    *)
(* inserts it unless the version exists.  The two repositories are the     *)
(* same but for the content: a policy is one field, a persona several,     *)
(* which a revision changes or keeps one by one.  Writers are callers: one *)
(* loads a version, revises it and saves the result, and after a conflict  *)
(* or an error loads again; in chains, it goes on from what it has.        *)
(***************************************************************************)
EXTENDS Naturals

CONSTANTS
    Writers, Fields, Values,
    NoRow, NoDraft,
    MaxVersion   \* bound: nobody revises beyond it

Versions == 1..MaxVersion
Contents == [Fields -> Values]

\* A version, with the saved one it was made from (0: created) and what was
\* changed in it since.
Rows == [content: Contents, base: Versions \cup {0}, changed: SUBSET Fields]
Drafts == [version: Versions, content: Contents, base: Versions \cup {0},
           changed: SUBSET Fields]

ASSUME VersionAssumption ==
    /\ MaxVersion \in Nat
    /\ NoRow \notin Rows
    /\ NoDraft \notin Drafts

VARIABLES
    store,    \* the rows of this id in persona_versions or policy_versions
    draft,    \* the Persona or PolicyDefinition each writer has
    revised,  \* has the writer revised it since it was loaded or saved?
    chains,   \* do writers go on from objects that are not in the store?
    failures  \* may a statement fail?

vars == <<store, draft, revised, chains, failures>>
conditions == <<chains, failures>>

TypeOK ==
    /\ store \in [Versions -> Rows \cup {NoRow}]
    /\ draft \in [Writers -> Drafts \cup {NoDraft}]
    /\ revised \in [Writers -> BOOLEAN]
    /\ {chains, failures} \subseteq BOOLEAN

Init ==
    /\ store = [v \in Versions |-> NoRow]
    /\ draft = [w \in Writers |-> NoDraft]
    /\ revised = [w \in Writers |-> FALSE]
    /\ chains \in BOOLEAN
    /\ failures \in BOOLEAN
    /\ chains => failures   \* which may never happen

Saved(v) == store[v] # NoRow

\* w has d in its hands, to be saved or not.
Takes(w, d, toSave) ==
    /\ draft' = [draft EXCEPT ![w] = d]
    /\ revised' = [revised EXCEPT ![w] = toSave]

\* create() without a version.
Create(w, content) ==
    /\ draft[w] = NoDraft
    /\ 1 \in Versions
    /\ Takes(w, [version |-> 1, content |-> content, base |-> 0, changed |-> Fields],
             TRUE)
    /\ UNCHANGED <<store, conditions>>

\* findVersion or findLatest.  A writer that goes on may have loaded any
\* version; what it had before is gone.
Load(w, v) ==
    /\ Saved(v)
    /\ ~revised[w]
    /\ Takes(w, [version |-> v, content |-> store[v].content, base |-> v, changed |-> {}],
             FALSE)
    /\ UNCHANGED <<store, conditions>>

\* revise(): the version after the object's own, the other fields kept.
Revise(w, content, fields) ==
    /\ draft[w] # NoDraft
    /\ revised[w] => chains
    /\ draft[w].version < MaxVersion
    /\ \A f \in Fields \ fields : content[f] = draft[w].content[f]
    /\ Takes(w, [version |-> draft[w].version + 1, content |-> content,
                 base |-> draft[w].base, changed |-> draft[w].changed \cup fields],
             TRUE)
    /\ UNCHANGED <<store, conditions>>

RowOf(d) == [content |-> d.content, base |-> d.base, changed |-> d.changed]

\* Mutant: on conflict do update.
InsertUpserts(d) == store' = [store EXCEPT ![d.version] = RowOf(d)]

\* Mutant: a conflict is met with the next version.
InsertNext(d) ==
    store' = IF Saved(d.version) /\ d.version + 1 \in Versions
               THEN [store EXCEPT ![d.version + 1] = RowOf(d)]
               ELSE [store EXCEPT ![d.version] = RowOf(d)]

\* insert on conflict do nothing
Insert(d) ==
    store' = IF Saved(d.version) THEN store
                                 ELSE [store EXCEPT ![d.version] = RowOf(d)]

\* saveVersion answers: the object is the version in the store, or there is a
\* conflict and the writer starts again - or goes on with what it has.
SaveVersion(w) ==
    /\ revised[w]
    /\ Insert(draft[w])
    /\ \/ /\ ~Saved(draft[w].version)
          /\ Takes(w, [draft[w] EXCEPT !.base = draft[w].version, !.changed = {}], FALSE)
       \/ /\ Saved(draft[w].version)
          /\ Takes(w, NoDraft, FALSE)
       \/ /\ Saved(draft[w].version)
          /\ chains
          /\ UNCHANGED <<draft, revised>>
    /\ UNCHANGED conditions

\* saveVersion fails, before or after the insert.
SaveErrs(w) ==
    /\ failures
    /\ revised[w]
    /\ Insert(draft[w]) \/ UNCHANGED store
    /\ Takes(w, NoDraft, FALSE) \/ (chains /\ UNCHANGED <<draft, revised>>)
    /\ UNCHANGED conditions

Next ==
    \E w \in Writers :
        \/ \E content \in Contents : Create(w, content)
        \/ \E v \in Versions : Load(w, v)
        \/ \E content \in Contents, fields \in SUBSET Fields \ {{}} :
             Revise(w, content, fields)
        \/ SaveVersion(w)
        \/ SaveErrs(w)

Spec == Init /\ [][Next]_vars

-----------------------------------------------------------------------------
\* "Versions are immutable": whoever saves what, a row stays as it was inserted.
VersionsImmutable ==
    [][\A v \in Versions : Saved(v) => store'[v] = store[v]]_vars

Follows(row, base) ==
    \A f \in Fields \ row.changed : row.content[f] = base.content[f]

\* While writers load again after a conflict, the history has no gaps, and
\* each version is the one before but for its own changes: of two revisions of
\* one version one is refused, and neither undoes the other.
LinearHistory ==
    ~chains => \A v \in Versions : v # 1 /\ Saved(v) =>
        /\ Saved(v - 1)
        /\ Follows(store[v], store[v - 1])

\* Writers that go on from objects which were never saved or were refused may
\* lose what others saved, but no more than that: a version does without what
\* an earlier one says only if the field was changed anew, or some version up to
\* it was made from an object older than the earlier one.
NoSilentLoss ==
    \A v \in Versions : Saved(v) =>
        \A u \in 1 .. v - 1, f \in Fields :
            Saved(u) /\ store[v].content[f] # store[u].content[f] =>
                \E x \in u + 1 .. v :
                    Saved(x) /\ (f \in store[x].changed \/ store[x].base < u)

\* The store keeps the promise of History: however many revise at once, fail,
\* are refused or read old versions, rows are only added - none is written over,
\* and while writers load again after a conflict, each continues the one before.
Versioning == INSTANCE History WITH history <- store, linear <- ~chains

ImplementsHistory == Versioning!Spec

\* d is the saved version it was made from but for its own changes.
Descends(d) ==
    \/ d.base = 0 /\ d.changed = Fields
    \/ d.base \in Versions /\ Saved(d.base) /\ Follows(d, store[d.base])

\* Each writer's object against the store.
DraftsDescend ==
    \A w \in Writers :
        /\ revised[w] => draft[w] # NoDraft
        /\ draft[w] # NoDraft =>
             /\ Descends(draft[w])
             /\ IF revised[w] THEN draft[w].base < draft[w].version
                              ELSE draft[w].base = draft[w].version /\ draft[w].changed = {}
             /\ ~chains /\ revised[w] => draft[w].base = draft[w].version - 1

RowsDescend ==
    \A v \in Versions : Saved(v) =>
        /\ Descends(store[v])
        /\ store[v].base < v
        /\ ~chains => store[v].base = v - 1

\* A gap was made by an object from before it, whoever fills it.
GapsAreKnown ==
    \A v \in Versions : Saved(v) =>
        \A u \in 1 .. v - 1 : ~Saved(u) =>
            \E x \in u + 1 .. v : Saved(x) /\ store[x].base < u

\* The inductive invariant.
VersionInv == TypeOK /\ DraftsDescend /\ RowsDescend /\ GapsAreKnown /\ NoSilentLoss
=============================================================================

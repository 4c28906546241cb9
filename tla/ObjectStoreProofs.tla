-------------------------- MODULE ObjectStoreProofs --------------------------
(***************************************************************************)
(* StoreInv is inductive, for any tree of keys, any clients, values and    *)
(* number of files: what a put that nobody disturbs has written so far is  *)
(* what its file holds, and what a listing has still to tell lies below a  *)
(* directory it has still to read.                                         *)
(***************************************************************************)
EXTENDS ObjectStore, SequenceTheorems, TLAPS

\* StoreInv without the histories of listings.
StateInv ==
    /\ at \in [Paths -> Files \cup {None, Dir}]
    /\ data \in [Files -> Seq(Stored)]
    /\ pc \in [Clients -> {"idle", "mkdir", "open", "write", "read", "walk"}]
    /\ job \in [Clients -> Jobs]
    /\ promised \in [Keys -> Stored \cup {Unknown}]
    /\ TreeInv
    /\ \A c \in Clients : CallInv(c)
    /\ \A c, d \in Clients : c # d => PairInv(c, d)
    /\ \A k \in Keys : Untouched(k) => Stable(k)

LEMMA NoJobFits == NoJob \in Jobs
BY EmptySeq DEF NoJob, Jobs, Stored

LEMMA AppendFits ==
    ASSUME NEW s \in Seq(Stored), NEW x \in Stored
    PROVE  \E t \in Seq(Stored) :
              /\ t = Append(s, x)
              /\ Len(s) \in Nat
              /\ Len(t) = Len(s) + 1
              /\ t[Len(s) + 1] = x
              /\ \A m \in 1 .. Len(s) : t[m] = s[m]
<1>1. Len(s) \in Nat
  BY LenProperties
<1>2. /\ Append(s, x) \in Seq(Stored)
      /\ Len(Append(s, x)) = Len(s) + 1
      /\ \A m \in 1 .. Len(s) : Append(s, x)[m] = s[m]
      /\ Append(s, x)[Len(s) + 1] = x
  BY AppendProperties
<1> QED
  BY <1>1, <1>2

\* Spoiling changes nothing of a call but that it is alone.
LEMMA SpoilFits ==
    ASSUME job \in [Clients -> Jobs], NEW k
    PROVE  /\ Spoil(k) \in [Clients -> Jobs]
           /\ \A c \in Clients :
                /\ Spoil(k)[c].key = job[c].key
                /\ Spoil(k)[c].value = job[c].value
                /\ Spoil(k)[c].file = job[c].file
                /\ Spoil(k)[c].done = job[c].done
                /\ Spoil(k)[c].todo = job[c].todo
                /\ Spoil(k)[c].found = job[c].found
                /\ Spoil(k)[c].alone <=> job[c].alone /\ job[c].key # k
BY DEF Spoil, Jobs

\* d is where it was, and no more alone than it was.
Same(d) ==
    /\ pc'[d] = pc[d]
    /\ job'[d].key = job[d].key
    /\ job'[d].value = job[d].value
    /\ job'[d].file = job[d].file
    /\ job'[d].done = job[d].done
    /\ job'[d].alone => job[d].alone

\* A call that is where it was may rely on what it did, if what there was of its
\* path is there, and what it has open is what and where it was.
LEMMA CallStays ==
    ASSUME NEW d \in Clients, CallInv(d), Same(d),
           \A p \in Paths : at[p] = Dir => at'[p] = Dir,
           \A p \in Paths : IsFile(p)' /\ at'[p] = job[d].file
                              => IsFile(p) /\ at[p] = job[d].file,
           job'[d].key \in Paths, Above[job'[d].key] \subseteq Paths,
           pc[d] \in {"write", "read"} /\ job'[d].alone =>
             at'[job[d].key] = at[job[d].key] /\ data'[job[d].file] = data[job[d].file]
    PROVE  CallInv(d)'
BY DEF CallInv, Same, Writing

\* A put begins: whoever else is busy with the key is disturbed.
LEMMA PutKeeps ==
    ASSUME StateInv, NEW c \in Clients, NEW k \in Keys, NEW v \in Values, Put(c, k, v)
    PROVE  StateInv'
<1> USE ConstantsAssumption
<1>0. PICK b \in BOOLEAN : b = Unwritten(k)
  BY DEF Unwritten
<1>1. /\ pc[c] = "idle" /\ pc' = [pc EXCEPT ![c] = "mkdir"]
      /\ UNCHANGED <<at, data, promised>>
      /\ k # Root
  BY DEF Put
<1>2. /\ job'[c] = [NoJob EXCEPT !.key = k, !.value = v, !.alone = b]
      /\ \A d \in Clients : d # c => job'[d] = Spoil(k)[d]
      /\ job' \in [Clients -> Jobs]
  <2>1. job' = [Spoil(k) EXCEPT ![c] = [NoJob EXCEPT !.key = k, !.value = v, !.alone = b]]
    BY <1>0 DEF Put
  <2>2. [NoJob EXCEPT !.key = k, !.value = v, !.alone = b] \in Jobs
    BY NoJobFits DEF Jobs, Stored
  <2>3. Spoil(k) \in [Clients -> Jobs]
    BY SpoilFits DEF StateInv
  <2> QED
    BY <2>1, <2>2, <2>3
<1>3. ASSUME NEW d \in Clients, d # c
      PROVE  /\ Same(d) /\ (Writing(d)' <=> Writing(d))
             /\ job'[d].alone <=> job[d].alone /\ job[d].key # k
  BY <1>1, <1>2, <1>3, SpoilFits DEF StateInv, Writing, Same
<1>4. /\ job'[c].key = k /\ job'[c].value = v /\ job'[c].file = None
      /\ job'[c].done = <<>> /\ (job'[c].alone <=> Unwritten(k))
      /\ pc'[c] = "mkdir" /\ Writing(c)' /\ ~Writing(c)
  BY <1>0, <1>1, <1>2 DEF NoJob, StateInv, Writing
<1>5. TreeInv'
  BY <1>1 DEF StateInv, TreeInv, IsFile
<1>6. ASSUME NEW d \in Clients PROVE CallInv(d)'
  <2>1. CASE d = c
    BY <2>1, <1>1, <1>4 DEF StateInv, CallInv, IsFile
  <2>2. CASE d # c
    <3>1. job'[d].key \in Paths
      BY <1>2 DEF Jobs
    <3> QED
      BY <2>2, <3>1, <1>1, <1>3, CallStays DEF StateInv, IsFile
  <2> QED
    BY <2>1, <2>2
<1>7. ASSUME NEW d \in Clients, NEW e \in Clients, d # e PROVE PairInv(d, e)'
  <2>1. PairInv(d, e)
    BY <1>7 DEF StateInv
  <2>2. CASE d # c /\ e # c
    BY <2>1, <2>2, <1>3 DEF PairInv, Same
  <2>3. CASE d = c
    BY <2>3, <1>3, <1>4, <1>7 DEF PairInv, Same
  <2>4. CASE e = c
    BY <2>4, <1>3, <1>4, <1>7 DEF PairInv, Same, Unwritten
  <2> QED
    BY <2>2, <2>3, <2>4
<1>8. ASSUME NEW l \in Keys, Untouched(l)' PROVE Stable(l)'
  <2>1. Untouched(l)
    BY <1>3, <1>4, <1>8 DEF Untouched, Same
  <2>2. Stable(l)
    BY <2>1 DEF StateInv
  <2> QED
    BY <1>1, <2>2 DEF Stable, IsFile, AsPromised
<1> QED
  BY <1>1, <1>2, <1>5, <1>6, <1>7, <1>8 DEF StateInv

\* A client without a call relies on nothing and disturbs nobody.
LEMMA IdleFits ==
    ASSUME NEW c \in Clients, pc'[c] = "idle", job'[c] = NoJob,
           NEW d \in Clients, CallInv(d)'
    PROVE  CallInv(c)' /\ PairInv(c, d)' /\ PairInv(d, c)'
BY ConstantsAssumption DEF CallInv, PairInv, NoJob, Writing, IsFile

\* An object is deleted: whoever is busy with the key is disturbed.
LEMMA DeleteKeeps ==
    ASSUME StateInv, NEW c \in Clients, NEW k \in Keys, Delete(c, k)
    PROVE  StateInv'
<1> USE ConstantsAssumption
<1>1. /\ UNCHANGED <<data, pc>>
      /\ job' = Spoil(k)
      /\ at' = [at EXCEPT ![k] = IF IsFile(k) THEN None ELSE @]
      /\ promised' = [promised EXCEPT ![k] = IF Unwritten(k) THEN Missing ELSE Unknown]
      /\ k \in Paths
  BY DEF Delete, Promise
<1>2. /\ at' \in [Paths -> Files \cup {None, Dir}]
      /\ \A p \in Paths : p # k => at'[p] = at[p]
      /\ at'[k] \notin Files
      /\ \A p \in Paths : at[p] = Dir <=> at'[p] = Dir
      /\ \A p \in Paths : at'[p] # None => at[p] # None
      /\ \A p \in Paths : IsFile(p)' => IsFile(p) /\ at'[p] = at[p]
  BY <1>1 DEF StateInv, IsFile
<1>3. /\ job' \in [Clients -> Jobs]
      /\ promised' \in [Keys -> Stored \cup {Unknown}]
      /\ \A l \in Keys : l # k => promised'[l] = promised[l]
  BY <1>1, SpoilFits DEF StateInv, Stored
<1>4. ASSUME NEW d \in Clients
      PROVE  /\ Same(d) /\ (Writing(d)' <=> Writing(d))
             /\ job'[d].alone <=> job[d].alone /\ job[d].key # k
             /\ job[d].key \in Paths
  BY <1>1, SpoilFits DEF StateInv, Writing, Same, Jobs
<1>5. TreeInv'
  <2>1. ASSUME NEW p \in Paths, at'[p] # None, NEW d \in Above[p] PROVE at'[d] = Dir
    BY <2>1, <1>2 DEF StateInv, TreeInv
  <2> QED
    BY <1>2, <2>1 DEF StateInv, TreeInv, IsFile
<1>6. ASSUME NEW d \in Clients PROVE CallInv(d)'
  <2>1. pc[d] \in {"write", "read"} /\ job'[d].alone => job[d].key # k
    BY <1>4
  <2> QED
    BY <1>1, <1>2, <1>4, <2>1, CallStays DEF StateInv, Same
<1>7. ASSUME NEW d \in Clients, NEW e \in Clients, d # e PROVE PairInv(d, e)'
  BY <1>4, <1>7 DEF StateInv, PairInv, Same
<1>8. ASSUME NEW l \in Keys, Untouched(l)' PROVE Stable(l)'
  <2>1. CASE l = k
    <3>1. Unwritten(k)
      BY <1>4, <1>8, <2>1 DEF Untouched, Unwritten, Same
    <3>2. promised'[k] = Missing
      BY <1>1, <3>1 DEF StateInv
    <3> QED
      BY <1>2, <2>1, <3>2 DEF Stable, IsFile
  <2>2. CASE l # k
    <3>1. Untouched(l)
      BY <1>4, <1>8, <2>2 DEF Untouched, Same
    <3>2. Stable(l)
      BY <3>1 DEF StateInv
    <3> QED
      BY <1>1, <1>2, <1>3, <2>2, <3>2 DEF Stable, IsFile, AsPromised
  <2> QED
    BY <2>1, <2>2
<1> QED
  BY <1>1, <1>2, <1>3, <1>5, <1>6, <1>7, <1>8 DEF StateInv

\* Steps that touch neither the tree nor the files nor a promise, of a client
\* that does not write, as far as the others are concerned.
LEMMA ReadersKeep ==
    ASSUME StateInv, NEW c \in Clients, UNCHANGED <<at, data, promised>>,
           ~Writing(c), ~Writing(c)',
           pc' \in [Clients -> {"idle", "mkdir", "open", "write", "read", "walk"}],
           job' \in [Clients -> Jobs],
           \A d \in Clients : d # c => pc'[d] = pc[d] /\ job'[d] = job[d],
           CallInv(c)',
           \A d \in Clients : d # c => PairInv(c, d)' /\ PairInv(d, c)'
    PROVE  StateInv'
<1> USE ConstantsAssumption
<1>1. ASSUME NEW d \in Clients, d # c
      PROVE  Same(d) /\ (Writing(d)' <=> Writing(d)) /\ job[d].key \in Paths
  BY <1>1 DEF StateInv, Same, Writing, Jobs
<1>2. TreeInv'
  BY DEF StateInv, TreeInv, IsFile
<1>3. ASSUME NEW d \in Clients, d # c PROVE CallInv(d)'
  BY <1>1, <1>3, CallStays DEF StateInv, IsFile
<1>4. ASSUME NEW d \in Clients, NEW e \in Clients, d # c, e # c, d # e
      PROVE  PairInv(d, e)'
  BY <1>1, <1>4 DEF StateInv, PairInv, Same
<1>5. ASSUME NEW l \in Keys, Untouched(l)' PROVE Stable(l)'
  <2>1. Untouched(l)
    BY <1>1, <1>5 DEF Untouched, Same
  <2> QED
    BY <2>1 DEF StateInv, Stable, IsFile, AsPromised
<1> QED
  BY <1>2, <1>3, <1>4, <1>5 DEF StateInv

\* A get opens the file.
LEMMA GetKeeps ==
    ASSUME StateInv, NEW c \in Clients, NEW k \in Keys, Get(c, k)
    PROVE  StateInv'
<1> USE ConstantsAssumption
<1>0. PICK b \in BOOLEAN : b = Unwritten(k)
  BY DEF Unwritten
<1>1. /\ pc[c] = "idle" /\ pc' = [pc EXCEPT ![c] = "read"]
      /\ UNCHANGED <<at, data, promised>>
      /\ at[k] \in Files /\ k \in Paths
      /\ job' = [job EXCEPT ![c] = [NoJob EXCEPT !.key = k, !.file = at[k], !.alone = b]]
  BY <1>0 DEF Get, IsFile
<1>2. [NoJob EXCEPT !.key = k, !.file = at[k], !.alone = b] \in Jobs
  BY <1>1, NoJobFits DEF Jobs
<1>3. /\ job'[c].key = k /\ job'[c].file = at[k] /\ job'[c].done = <<>>
      /\ job'[c].alone <=> Unwritten(k)
      /\ pc'[c] = "read" /\ ~Writing(c) /\ ~Writing(c)'
  BY <1>0, <1>1 DEF NoJob, StateInv, Writing
<1>4. /\ job' \in [Clients -> Jobs]
      /\ pc' \in [Clients -> {"idle", "mkdir", "open", "write", "read", "walk"}]
      /\ \A d \in Clients : d # c => pc'[d] = pc[d] /\ job'[d] = job[d]
  BY <1>1, <1>2 DEF StateInv
<1>5. CallInv(c)'
  <2>1. Len(data[at[k]]) \in Nat /\ Len(<<>>) = 0
    BY <1>1, EmptySeq, LenProperties DEF StateInv
  <2> QED
    BY <1>1, <1>3, <2>1 DEF CallInv, StateInv, TreeInv, IsFile, Writing
<1>6. ASSUME NEW d \in Clients, d # c PROVE PairInv(c, d)' /\ PairInv(d, c)'
  <2>1. job[d].file = at[k] => job[d].key = k
    BY <1>1 DEF StateInv, CallInv, IsFile
  <2> QED
    BY <1>1, <1>3, <1>4, <1>6, <2>1 DEF PairInv, Unwritten, Writing
<1> QED
  BY <1>1, <1>3, <1>4, <1>5, <1>6, ReadersKeep

\* A get reads on.
LEMMA ReadKeeps ==
    ASSUME StateInv, NEW c \in Clients, Read(c)
    PROVE  StateInv'
<1> USE ConstantsAssumption
<1>1. /\ pc[c] = "read" /\ ~Writing(c)
      /\ UNCHANGED <<at, data, promised>>
      /\ job[c] \in Jobs /\ CallInv(c)
      /\ job[c].file \in Files
  BY DEF Read, StateInv, Writing, CallInv, Jobs
<1>2. CASE AtEnd(c)
  <2>1. /\ pc' = [pc EXCEPT ![c] = "idle"] /\ job' = [job EXCEPT ![c] = NoJob]
    BY <1>2 DEF Read, Answer
  <2>2. /\ job' \in [Clients -> Jobs]
        /\ pc' \in [Clients -> {"idle", "mkdir", "open", "write", "read", "walk"}]
        /\ job'[c] = NoJob /\ pc'[c] = "idle" /\ ~Writing(c)'
        /\ \A d \in Clients : d # c => pc'[d] = pc[d] /\ job'[d] = job[d]
    BY <2>1, NoJobFits DEF StateInv, Writing
  <2>3. ASSUME NEW d \in Clients, d # c PROVE CallInv(d)'
    <3>1. Same(d) /\ job'[d].key \in Paths
      BY <2>2, <2>3 DEF Same, Jobs
    <3> QED
      BY <1>1, <3>1, <2>2, <2>3, CallStays DEF StateInv, IsFile
  <2>4. CallInv(c)'
    BY <2>2 DEF CallInv, NoJob, Writing, IsFile
  <2> QED
    BY <1>1, <2>2, <2>3, <2>4, IdleFits, ReadersKeep
<1>3. CASE ~AtEnd(c)
  <2> DEFINE n == Len(job[c].done) + 1
             x == data[job[c].file][n]
  <2>1. /\ job' = [job EXCEPT ![c].done = Append(@, x)] /\ pc' = pc
    BY <1>3 DEF Read
  <2>2. /\ job[c].done \in Seq(Stored) /\ data[job[c].file] \in Seq(Stored)
        /\ n \in 1 .. Len(data[job[c].file])
        /\ x \in Stored
    <3>1. job[c].done \in Seq(Stored) /\ data[job[c].file] \in Seq(Stored)
      BY <1>1 DEF Jobs, StateInv
    <3>2. n \in 1 .. Len(data[job[c].file])
      BY <1>3, <3>1, LenProperties DEF AtEnd
    <3> QED
      BY <3>1, <3>2, ElementOfSeq
  <2>3. PICK y \in Stored : y = x
    BY <2>2
  <2>4. PICK old \in Seq(Stored) : old = job[c].done
    BY <2>2
  <2>5. PICK s \in Seq(Stored) :
          /\ s = Append(old, y)
          /\ Len(old) \in Nat
          /\ Len(s) = Len(old) + 1
          /\ s[Len(old) + 1] = y
          /\ \A m \in 1 .. Len(old) : s[m] = old[m]
    BY AppendFits
  <2> DEFINE r == [job[c] EXCEPT !.done = s]
  <2>6. /\ job'[c] = r
        /\ job' \in [Clients -> Jobs]
        /\ \A d \in Clients : d # c => pc'[d] = pc[d] /\ job'[d] = job[d]
        /\ pc'[c] = "read" /\ ~Writing(c)'
    <3>1. r \in Jobs
      BY <1>1 DEF Jobs
    <3>2. job' = [job EXCEPT ![c] = [job[c] EXCEPT !.done = Append(job[c].done, x)]]
      BY <2>1
    <3>3. Append(job[c].done, x) = s
      BY <2>3, <2>4, <2>5
    <3>4. job' = [job EXCEPT ![c] = r]
      BY <3>2, <3>3
    <3>5. job \in [Clients -> Jobs] /\ pc[c] = "read" /\ pc' = pc
      BY <1>1, <2>1 DEF StateInv
    <3> HIDE DEF r
    <3> QED
      BY <3>1, <3>4, <3>5 DEF Writing
  <2>7. /\ job'[c].key = job[c].key /\ job'[c].file = job[c].file
        /\ job'[c].alone = job[c].alone /\ job'[c].done = s
    BY <1>1, <2>6 DEF Jobs
  <2>8. CallInv(c)'
    <3>1. ASSUME job[c].alone, NEW m \in 1 .. n PROVE s[m] = data[job[c].file][m]
      BY <1>1, <2>2, <2>3, <2>4, <2>5, <3>1 DEF CallInv
    <3>2. Len(s) = n /\ n <= Len(data[job[c].file]) /\ n \in Nat
      BY <2>2, <2>4, <2>5
    <3> HIDE DEF n, x
    <3> QED
      BY <1>1, <2>6, <2>7, <3>1, <3>2 DEF CallInv, IsFile, Writing
  <2>9. ASSUME NEW d \in Clients, d # c PROVE PairInv(c, d)' /\ PairInv(d, c)'
    BY <1>1, <2>6, <2>7, <2>9 DEF StateInv, PairInv, Writing
  <2> QED
    BY <1>1, <2>1, <2>6, <2>8, <2>9, ReadersKeep DEF StateInv
<1> QED
  BY <1>2, <1>3

\* A listing touches nothing.
LEMMA ListKeeps ==
    ASSUME StateInv, NEW c \in Clients, List(c) \/ Walk(c) \/ Listed(c)
    PROVE  StateInv'
<1> USE ConstantsAssumption
<1>1. /\ UNCHANGED <<at, data, promised>> /\ ~Writing(c) /\ ~Writing(c)'
      /\ job[c] \in Jobs /\ job'[c] \in Jobs
      /\ pc'[c] \in {"idle", "walk"}
      /\ job'[c].key = Root /\ job'[c].file = None
      /\ \A d \in Clients : d # c => pc'[d] = pc[d] /\ job'[d] = job[d]
      /\ job' \in [Clients -> Jobs]
      /\ pc' \in [Clients -> {"idle", "mkdir", "open", "write", "read", "walk"}]
  <2>1. CASE List(c)
    <3>1. [NoJob EXCEPT !.todo = {Root}] \in Jobs
      BY NoJobFits DEF Jobs
    <3> QED
      BY <2>1, <3>1 DEF List, StateInv, Writing, NoJob
  <2>2. CASE Walk(c)
    <3>1. PICK t \in SUBSET Paths, f \in SUBSET Keys :
            job' = [job EXCEPT ![c] = [job[c] EXCEPT !.todo = t, !.found = f]]
      <4>1. PICK d \in job[c].todo :
              job' = [job EXCEPT ![c] =
                        [job[c] EXCEPT !.todo = (@ \ {d}) \cup
                                           (Entries(d) \ {p \in Entries(d) : IsFile(p)}),
                                  !.found = @ \cup {p \in Entries(d) : IsFile(p)}]]
        BY <2>2 DEF Walk
      <4>2. Entries(d) \subseteq Paths /\ {p \in Entries(d) : IsFile(p)} \subseteq Keys
        BY DEF Entries, StateInv, TreeInv
      <4>3. job[c].todo \subseteq Paths /\ job[c].found \subseteq Keys
        BY DEF StateInv, Jobs
      <4> QED
        BY <4>1, <4>2, <4>3
    <3>2. job[c] \in Jobs /\ pc[c] = "walk" /\ CallInv(c)
      BY <2>2 DEF Walk, StateInv
    <3>3. job[c].key = Root /\ job[c].file = None
      BY <3>2 DEF CallInv
    <3>4. [job[c] EXCEPT !.todo = t, !.found = f] \in Jobs
      BY <3>2 DEF Jobs
    <3>5. job'[c].key = Root /\ job'[c].file = None
      BY <3>1, <3>2, <3>3 DEF StateInv, Jobs
    <3>6. UNCHANGED <<at, data, pc, promised>>
      BY <2>2 DEF Walk
    <3>7. job' \in [Clients -> Jobs] /\ job'[c] \in Jobs
      BY <3>1, <3>4 DEF StateInv
    <3>8. \A d \in Clients : d # c => pc'[d] = pc[d] /\ job'[d] = job[d]
      BY <3>1, <3>6 DEF StateInv
    <3> QED
      BY <3>2, <3>5, <3>6, <3>7, <3>8 DEF StateInv, Writing
  <2>3. CASE Listed(c)
    BY <2>3, NoJobFits DEF Listed, Answer, StateInv, Writing, NoJob
  <2> QED
    BY <2>1, <2>2, <2>3
<1>2. CallInv(c)'
  BY <1>1 DEF CallInv, IsFile
<1>3. ASSUME NEW d \in Clients, d # c PROVE PairInv(c, d)' /\ PairInv(d, c)'
  <2>1. job[d].key = Root => ~Writing(d)
    BY DEF StateInv, CallInv, Writing
  <2> QED
    BY <1>1, <1>3, <2>1 DEF PairInv, Writing
<1> QED
  BY <1>1, <1>2, <1>3, ReadersKeep

\* A put makes a directory on its way, or sees that they are all there.
LEMMA MakeDirectoryKeeps ==
    ASSUME StateInv, NEW c \in Clients, MakeDirectory(c)
    PROVE  StateInv'
<1> USE ConstantsAssumption
<1> DEFINE k == job[c].key
           missing == {d \in Above[k] : at[d] = None}
<1>1. /\ pc[c] = "mkdir" /\ UNCHANGED <<data, job, promised>>
      /\ k \in Keys /\ k \in Paths /\ Above[k] \subseteq Paths
      /\ \A d \in Above[k] : at[d] \notin Files
  <2>1. pc[c] = "mkdir" /\ ~Blocked(k) /\ UNCHANGED <<data, job, promised>>
    BY DEF MakeDirectory
  <2>2. CallInv(c) /\ job[c] \in Jobs
    BY DEF StateInv
  <2>3. k \in Keys
    BY <2>1, <2>2 DEF CallInv, Jobs
  <2> QED
    BY <2>1, <2>3 DEF Blocked, IsFile
<1>2. /\ at' \in [Paths -> Files \cup {None, Dir}]
      /\ \A p \in Paths : at[p] # None => at'[p] = at[p]
      /\ \A p \in Paths : at'[p] = at[p] \/ at'[p] = Dir
      /\ \A p \in Paths : at'[p] # at[p] => \A d \in Above[p] : at[d] = Dir
  <2>1. CASE missing = {}
    BY <2>1 DEF MakeDirectory, StateInv
  <2>2. CASE missing # {}
    <3>1. PICK d \in missing : /\ Above[d] \cap missing = {}
                               /\ at' = [at EXCEPT ![d] = Dir]
      BY <2>2 DEF MakeDirectory
    <3>2. d \in Paths /\ d \in Above[k] /\ at[d] = None /\ Above[d] \subseteq Above[k]
      BY <1>1
    <3>3. ASSUME NEW e \in Above[d] PROVE at[e] = Dir
      <4>1. e \in Above[k] /\ e \notin missing /\ e \in Paths
        BY <1>1, <3>1, <3>2, <3>3
      <4> QED
        BY <1>1, <4>1 DEF StateInv
    <3> HIDE DEF missing
    <3> QED
      BY <3>1, <3>2, <3>3 DEF StateInv
  <2> QED
    BY <2>1, <2>2
<1>3. /\ pc' \in [Clients -> {"idle", "mkdir", "open", "write", "read", "walk"}]
      /\ \A d \in Clients : d # c => pc'[d] = pc[d]
      /\ pc'[c] \in {"mkdir", "open"}
      /\ pc'[c] = "open" => \A d \in Above[k] : at[d] = Dir
  <2>1. CASE missing = {}
    <3>1. pc' = [pc EXCEPT ![c] = "open"]
      BY <2>1 DEF MakeDirectory
    <3>2. ASSUME NEW d \in Above[k] PROVE at[d] = Dir
      BY <1>1, <2>1, <3>2 DEF StateInv
    <3> QED
      BY <3>1, <3>2 DEF StateInv
  <2>2. CASE missing # {}
    BY <1>1, <2>2 DEF MakeDirectory, StateInv
  <2> QED
    BY <2>1, <2>2
<1> HIDE DEF missing
<1>4. /\ \A p \in Paths : IsFile(p)' <=> IsFile(p)
      /\ \A p \in Paths : IsFile(p) => at'[p] = at[p]
  BY <1>2 DEF IsFile
<1>5. TreeInv'
  <2>1. ASSUME NEW p \in Paths, at'[p] # None, NEW d \in Above[p] PROVE at'[d] = Dir
    <3>1. at[d] = Dir /\ d \in Paths
      BY <2>1, <1>2 DEF StateInv, TreeInv
    <3> QED
      BY <1>2, <3>1
  <2>2. ASSUME NEW p \in Paths, NEW q \in Paths, IsFile(p)', at'[p] = at'[q] PROVE p = q
    <3>1. IsFile(p) /\ IsFile(q) /\ at[p] = at[q]
      BY <1>4, <2>2 DEF IsFile
    <3> QED
      BY <3>1 DEF StateInv, TreeInv
  <2>3. ASSUME NEW p \in Paths, IsFile(p)' PROVE p \in Keys
    BY <1>4, <2>3 DEF StateInv, TreeInv
  <2> QED
    BY <2>1, <2>2, <2>3 DEF TreeInv
<1>6. ASSUME NEW d \in Clients PROVE CallInv(d)'
  <2>1. CASE pc'[d] = pc[d]
    <3>1. /\ Same(d) /\ job'[d].key \in Paths /\ CallInv(d)
          /\ job[d].file \in Files \cup {None}
      BY <1>1, <2>1 DEF Same, StateInv, Jobs
    <3>2. pc[d] \in {"write", "read"} /\ job'[d].alone => at'[job[d].key] = at[job[d].key]
      BY <1>1, <1>2, <3>1 DEF CallInv
    <3> QED
      BY <1>1, <1>2, <1>4, <3>1, <3>2, CallStays DEF IsFile
  <2>2. CASE pc'[d] # pc[d]
    <3>1. d = c /\ pc'[c] = "open" /\ CallInv(c)
      BY <1>1, <1>3, <2>2 DEF StateInv
    <3>2. \A e \in Above[k] : at'[e] = Dir
      BY <1>1, <1>2, <1>3, <3>1
    <3> QED
      BY <1>1, <1>2, <1>4, <3>1, <3>2 DEF CallInv, Writing
  <2> QED
    BY <2>1, <2>2
<1>7. \A d \in Clients : Writing(d)' <=> Writing(d)
  BY <1>1, <1>3 DEF Writing
<1>8. ASSUME NEW l \in Keys, Untouched(l)' PROVE Stable(l)'
  <2>1. Untouched(l)
    BY <1>1, <1>3, <1>7, <1>8 DEF Untouched
  <2> QED
    BY <1>1, <1>4, <2>1 DEF StateInv, Stable, AsPromised
<1>9. ASSUME NEW d \in Clients, NEW e \in Clients, d # e PROVE PairInv(d, e)'
  BY <1>1, <1>7, <1>9 DEF StateInv, PairInv
<1> QED
  BY <1>1, <1>2, <1>3, <1>5, <1>6, <1>8, <1>9 DEF StateInv

\* A put creates its file or truncates it.
LEMMA OpenKeeps ==
    ASSUME StateInv, NEW c \in Clients, Open(c)
    PROVE  StateInv'
<1> USE ConstantsAssumption
<1> DEFINE k == job[c].key
<1>1. /\ pc[c] = "open" /\ at[k] # Dir
      /\ pc' = [pc EXCEPT ![c] = "write"]
      /\ UNCHANGED promised
  BY DEF Open
<1>2. /\ k \in Keys /\ k \in Paths
      /\ job[c] \in Jobs /\ CallInv(c)
      /\ job[c].done = <<>> /\ job[c].value \in Values
      /\ \A d \in Above[k] : at[d] = Dir
  <2>1. job[c] \in Jobs /\ CallInv(c)
    BY DEF StateInv
  <2>2. k \in Keys
    BY <1>1, <2>1 DEF CallInv, Jobs
  <2> QED
    BY <1>1, <2>1, <2>2 DEF CallInv, Writing
<1>3. PICK f \in FilesFor(k) :
        /\ at' = [at EXCEPT ![k] = f]
        /\ data' = [data EXCEPT ![f] = <<>>]
        /\ job' = [job EXCEPT ![c].file = f]
  BY DEF Open
<1>4. /\ f \in Files
      /\ \A p \in Paths : at[p] = f => p = k
      /\ \A d \in Clients : job[d].file = f => job[d].key = k /\ at[k] = f
  <2>1. CASE IsFile(k)
    <3>1. f = at[k] /\ f \in Files
      BY <2>1 DEF FilesFor, IsFile
    <3>2. \A p \in Paths : at[p] = f => p = k
      BY <1>2, <2>1, <3>1 DEF StateInv, TreeInv
    <3>3. ASSUME NEW d \in Clients, job[d].file = f PROVE job[d].key = k
      <4>1. CallInv(d)
        BY DEF StateInv
      <4> QED
        BY <1>2, <2>1, <3>1, <3>3, <4>1 DEF CallInv
    <3> QED
      BY <3>1, <3>2, <3>3
  <2>2. CASE ~IsFile(k)
    BY <1>2, <2>2 DEF FilesFor
  <2> QED
    BY <2>1, <2>2
<1>5. /\ at' \in [Paths -> Files \cup {None, Dir}]
      /\ at'[k] = f
      /\ \A p \in Paths : p # k => at'[p] = at[p]
      /\ \A p \in Paths : at[p] = Dir => at'[p] = Dir
      /\ \A p \in Paths : at'[p] = f => p = k
  BY <1>1, <1>2, <1>3, <1>4 DEF StateInv
<1>6. /\ data' \in [Files -> Seq(Stored)]
      /\ data'[f] = <<>>
      /\ \A g \in Files : g # f => data'[g] = data[g]
  BY <1>3, <1>4, EmptySeq DEF StateInv
<1>7. /\ job' \in [Clients -> Jobs]
      /\ job'[c].key = k /\ job'[c].value = job[c].value /\ job'[c].file = f
      /\ job'[c].done = <<>> /\ job'[c].alone = job[c].alone
      /\ \A d \in Clients : d # c => job'[d] = job[d]
  <2>1. job' = [job EXCEPT ![c] = [job[c] EXCEPT !.file = f]]
    BY <1>3
  <2>2. [job[c] EXCEPT !.file = f] \in Jobs
    BY <1>2, <1>4 DEF Jobs
  <2>3. /\ job' \in [Clients -> Jobs] /\ job'[c] = [job[c] EXCEPT !.file = f]
        /\ \A d \in Clients : d # c => job'[d] = job[d]
    BY <2>1, <2>2 DEF StateInv
  <2> QED
    BY <1>2, <2>3 DEF Jobs
<1>8. /\ pc' \in [Clients -> {"idle", "mkdir", "open", "write", "read", "walk"}]
      /\ pc'[c] = "write" /\ Writing(c) /\ Writing(c)'
      /\ \A d \in Clients : d # c => pc'[d] = pc[d] /\ Same(d) /\ (Writing(d)' <=> Writing(d))
  BY <1>1, <1>7 DEF StateInv, Writing, Same
<1>9. TreeInv'
  <2>1. ASSUME NEW p \in Paths, at'[p] # None, NEW d \in Above[p] PROVE at'[d] = Dir
    <3>1. at[d] = Dir /\ d \in Paths
      BY <2>1, <1>2, <1>5 DEF StateInv, TreeInv
    <3> QED
      BY <1>5, <3>1
  <2>2. ASSUME NEW p \in Paths, NEW q \in Paths, IsFile(p)', at'[p] = at'[q] PROVE p = q
    <3>1. CASE p = k \/ q = k
      BY <1>5, <2>2, <3>1
    <3>2. CASE p # k /\ q # k
      BY <1>5, <2>2, <3>2 DEF StateInv, TreeInv, IsFile
    <3> QED
      BY <3>1, <3>2
  <2>3. ASSUME NEW p \in Paths, IsFile(p)' PROVE p \in Keys
    BY <1>2, <1>5, <2>3 DEF StateInv, TreeInv, IsFile
  <2> QED
    BY <2>1, <2>2, <2>3 DEF TreeInv
<1>10. ASSUME NEW d \in Clients PROVE CallInv(d)'
  <2>1. CASE d = c
    <3>1. data'[f] = [n \in 1 .. Len(job'[c].done) |-> job'[c].value]
      BY <1>6, <1>7
    <3>2. Len(job'[c].done) = 0 /\ Chunks[job'[c].value] \in Nat \ {0}
      BY <1>2, <1>7
    <3>3. \A e \in Above[k] : at'[e] = Dir
      BY <1>2, <1>5
    <3>4. f # None /\ k # Root
      BY <1>2, <1>4
    <3> QED
      BY <2>1, <1>2, <1>5, <1>7, <1>8, <3>1, <3>2, <3>3, <3>4 DEF CallInv, Writing
  <2>2. CASE d # c
    <3>1. CallInv(d) /\ job[d] \in Jobs /\ job'[d] = job[d] /\ Same(d)
      BY <1>7, <1>8, <2>2 DEF StateInv
    <3>2. job[d].key \in Paths /\ Above[job[d].key] \subseteq Paths
      BY <3>1 DEF Jobs
    <3>3. ASSUME pc[d] \in {"write", "read"}, job[d].alone
          PROVE  at'[job[d].key] = at[job[d].key] /\ data'[job[d].file] = data[job[d].file]
      <4>1. job[d].key # k
        BY <1>8, <2>2, <3>3 DEF StateInv, PairInv
      <4>2. job[d].file \in Files \ {f}
        BY <1>4, <3>1, <3>3, <4>1 DEF CallInv, Jobs
      <4> QED
        BY <1>5, <1>6, <3>2, <4>1, <4>2
    <3>4. ASSUME NEW p \in Paths, IsFile(p)', at'[p] = job[d].file
          PROVE  IsFile(p) /\ at[p] = job[d].file
      BY <1>4, <1>5, <3>4 DEF IsFile
    <3> QED
      BY <1>5, <3>1, <3>2, <3>3, <3>4, CallStays
  <2> QED
    BY <2>1, <2>2
<1>11. ASSUME NEW d \in Clients, NEW e \in Clients, d # e PROVE PairInv(d, e)'
  <2>1. PairInv(d, e)
    BY <1>11 DEF StateInv
  <2>2. CASE d = c
    BY <1>4, <1>7, <1>8, <1>11, <2>1, <2>2 DEF PairInv
  <2>3. CASE e = c
    BY <1>4, <1>7, <1>8, <1>11, <2>1, <2>3 DEF PairInv
  <2>4. CASE d # c /\ e # c
    BY <1>7, <1>8, <2>1, <2>4 DEF PairInv
  <2> QED
    BY <2>2, <2>3, <2>4
<1>12. ASSUME NEW l \in Keys, Untouched(l)' PROVE Stable(l)'
  <2>1. l # k /\ l \in Paths
    BY <1>7, <1>8, <1>12 DEF Untouched
  <2>2. Untouched(l)
    BY <1>7, <1>8, <1>12, <2>1 DEF Untouched
  <2>3. Stable(l)
    BY <2>2 DEF StateInv
  <2>4. at'[l] = at[l] /\ at[l] # f
    BY <1>4, <1>5, <2>1
  <2>5. at[l] \in Files => data'[at[l]] = data[at[l]]
    BY <1>6, <2>4
  <2> QED
    BY <1>1, <2>3, <2>4, <2>5 DEF Stable, IsFile, AsPromised
<1> QED
  BY <1>1, <1>5, <1>6, <1>7, <1>8, <1>9, <1>10, <1>11, <1>12 DEF StateInv

LEMMA OverwriteFits ==
    ASSUME NEW s \in Seq(Stored), NEW n \in Nat \ {0}, NEW v \in Stored
    PROVE  /\ Overwrite(s, n, v) \in Seq(Stored)
           /\ s = [m \in 1 .. n - 1 |-> v] => Overwrite(s, n, v) = [m \in 1 .. n |-> v]
<1> DEFINE top == IF n > Len(s) THEN n ELSE Len(s)
<1>1. Len(s) \in Nat /\ top \in Nat /\ \A m \in 1 .. Len(s) : s[m] \in Stored
  BY LenProperties, ElementOfSeq
<1>2. Overwrite(s, n, v) \in [1 .. top -> Stored]
  BY <1>1 DEF Overwrite, Stored
<1>3. Overwrite(s, n, v) \in Seq(Stored)
  BY <1>1, <1>2, SeqDef
<1>4. ASSUME s = [m \in 1 .. n - 1 |-> v]
      PROVE  Overwrite(s, n, v) = [m \in 1 .. n |-> v]
  <2>1. DOMAIN s = 1 .. n - 1 /\ Len(s) = n - 1
    BY <1>4, <1>1, LenProperties
  <2>2. top = n
    BY <2>1
  <2>3. ASSUME NEW m \in 1 .. n, m # n PROVE m <= Len(s) /\ s[m] = v
    BY <1>4, <2>1, <2>3
  <2> QED
    BY <2>1, <2>2, <2>3 DEF Overwrite
<1> QED
  BY <1>3, <1>4

\* A put fails, or the process stops: what had been done stays.
LEMMA PutFailsKeeps ==
    ASSUME StateInv, NEW c \in Clients, PutFails(c)
    PROVE  StateInv'
<1> USE ConstantsAssumption
<1> DEFINE k == job[c].key
<1>1. /\ Writing(c) /\ UNCHANGED <<at, data>>
      /\ pc' = [pc EXCEPT ![c] = "idle"] /\ job' = [job EXCEPT ![c] = NoJob]
      /\ promised' = [promised EXCEPT ![k] =
           IF job[c].alone THEN (IF pc[c] = "write" THEN Unknown ELSE promised[k])
                           ELSE Unknown]
  BY DEF PutFails, Answer, Promise
<1>2. k \in Keys
  <2>1. CallInv(c) /\ job[c] \in Jobs
    BY DEF StateInv
  <2> QED
    BY <1>1, <2>1 DEF CallInv, Writing, Jobs
<1>3. /\ job' \in [Clients -> Jobs]
      /\ pc' \in [Clients -> {"idle", "mkdir", "open", "write", "read", "walk"}]
      /\ job'[c] = NoJob /\ pc'[c] = "idle" /\ ~Writing(c)'
      /\ \A d \in Clients : d # c => pc'[d] = pc[d] /\ job'[d] = job[d]
  BY <1>1, NoJobFits DEF StateInv, Writing
<1>4. /\ promised' \in [Keys -> Stored \cup {Unknown}]
      /\ \A l \in Keys : l # k => promised'[l] = promised[l]
      /\ \/ promised'[k] = Unknown
         \/ promised'[k] = promised[k] /\ job[c].alone /\ pc[c] # "write"
  <2>1. PICK what :
          /\ promised' = [promised EXCEPT ![k] = what]
          /\ \/ what = Unknown
             \/ what = promised[k] /\ job[c].alone /\ pc[c] # "write"
    <3>1. CASE job[c].alone /\ pc[c] # "write"
      BY <1>1, <3>1
    <3>2. CASE ~(job[c].alone /\ pc[c] # "write")
      BY <1>1, <3>2
    <3> QED
      BY <3>1, <3>2
  <2>2. promised \in [Keys -> Stored \cup {Unknown}]
    BY DEF StateInv
  <2> HIDE DEF k
  <2> QED
    BY <1>2, <2>1, <2>2
<1>5. TreeInv'
  BY <1>1 DEF StateInv, TreeInv, IsFile
<1>6. ASSUME NEW d \in Clients, d # c
      PROVE  CallInv(d)' /\ Same(d) /\ (Writing(d)' <=> Writing(d))
  <2>1. Same(d) /\ job'[d].key \in Paths
    BY <1>3, <1>6 DEF Same, Jobs
  <2> QED
    BY <1>1, <1>3, <1>6, <2>1, CallStays DEF StateInv, IsFile, Writing
<1>7. CallInv(c)'
  BY <1>3 DEF CallInv, NoJob, Writing, IsFile
<1>8. ASSUME NEW d \in Clients, NEW e \in Clients, d # e PROVE PairInv(d, e)'
  <2>1. CASE d # c /\ e # c
    BY <1>6, <1>8, <2>1 DEF StateInv, PairInv, Same
  <2>2. CASE d = c \/ e = c
    BY <1>3, <1>6, <1>8, <2>2, IdleFits
  <2> QED
    BY <2>1, <2>2
<1>9. ASSUME NEW l \in Keys, Untouched(l)' PROVE Stable(l)'
  <2>1. CASE l = k /\ promised'[k] = Unknown
    BY <2>1 DEF Stable, AsPromised
  <2>2. CASE l # k \/ promised'[k] # Unknown
    <3>1. Untouched(l) /\ promised'[l] = promised[l]
      BY <1>4, <1>6, <1>9, <2>2 DEF Untouched, Same
    <3> QED
      BY <1>1, <3>1 DEF StateInv, Stable, IsFile, AsPromised
  <2> QED
    BY <2>1, <2>2
<1> QED
  BY <1>1, <1>3, <1>4, <1>5, <1>6, <1>7, <1>8, <1>9 DEF StateInv

\* A put writes a chunk, and is done with the last one.
LEMMA WriteKeeps ==
    ASSUME StateInv, NEW c \in Clients, Write(c)
    PROVE  StateInv'
<1> USE ConstantsAssumption
<1> DEFINE k == job[c].key
           f == job[c].file
           v == job[c].value
           n == Len(job[c].done) + 1
<1>1. /\ pc[c] = "write" /\ UNCHANGED at
      /\ data' = [data EXCEPT ![f] = Overwrite(@, n, v)]
      /\ Writing(c) /\ CallInv(c) /\ job[c] \in Jobs
  BY DEF Write, Writing, StateInv
<1>2. /\ k \in Keys /\ f \in Files /\ v \in Values
      /\ job[c].done \in Seq(Stored) /\ n \in Nat \ {0} /\ n <= Chunks[v]
      /\ Chunks[v] \in Nat
      /\ job[c].alone => at[k] = f
      /\ \A d \in Above[k] : at[d] = Dir
      /\ \A p \in Paths : at[p] = f => p = k
  <2>1. k \in Keys /\ f \in Files /\ v \in Values /\ job[c].done \in Seq(Stored)
    BY <1>1 DEF CallInv, Jobs, Writing
  <2>2. Len(job[c].done) \in Nat
    BY <2>1, LenProperties
  <2> QED
    BY <1>1, <2>1, <2>2 DEF CallInv, IsFile
<1>3. /\ data' \in [Files -> Seq(Stored)]
      /\ \A g \in Files : g # f => data'[g] = data[g]
      /\ job[c].alone => data'[f] = [m \in 1 .. n |-> v]
  <2>1. PICK old \in Seq(Stored), y \in Stored, m \in Nat \ {0} :
          old = data[f] /\ y = v /\ m = n
    BY <1>2 DEF StateInv, Stored
  <2>2. PICK new \in Seq(Stored) :
          /\ new = Overwrite(old, m, y)
          /\ old = [i \in 1 .. m - 1 |-> y] => new = [i \in 1 .. m |-> y]
    BY OverwriteFits
  <2>3. data' = [data EXCEPT ![f] = new]
    BY <1>1, <2>1, <2>2
  <2>4. job[c].alone => old = [i \in 1 .. n - 1 |-> v]
    BY <1>1, <1>2, <2>1 DEF CallInv
  <2>5. job[c].alone => new = [i \in 1 .. n |-> v]
    BY <2>1, <2>2, <2>4
  <2> HIDE DEF n, v
  <2> QED
    BY <1>2, <2>3, <2>5 DEF StateInv
<1>4. ASSUME NEW d \in Clients, d # c
      PROVE  /\ job[d].key = k => ~job[d].alone
             /\ job[d].file = f => job[d].key = k
  BY <1>1, <1>2, <1>4 DEF StateInv, PairInv
<1>5. ASSUME NEW d \in Clients, d # c, Same(d), job'[d] = job[d] PROVE CallInv(d)'
  <2>1. CallInv(d) /\ job[d] \in Jobs /\ job[d].key \in Paths
    BY DEF StateInv, Jobs
  <2>2. ASSUME pc[d] \in {"write", "read"}, job[d].alone PROVE data'[job[d].file] = data[job[d].file]
    <3>1. job[d].file \in Files \ {f}
      BY <1>4, <1>5, <2>1, <2>2 DEF CallInv, Jobs
    <3> QED
      BY <1>3, <3>1
  <2> QED
    BY <1>1, <1>5, <2>1, <2>2, CallStays DEF IsFile
<1>6. TreeInv'
  BY <1>1 DEF StateInv, TreeInv, IsFile
<1>7. ASSUME NEW l \in Keys, l # k, Untouched(l), promised'[l] = promised[l]
      PROVE  Stable(l)'
  <2>1. at[l] # f
    BY <1>2, <1>7
  <2> QED
    BY <1>1, <1>3, <1>7, <2>1 DEF StateInv, Stable, IsFile, AsPromised
<1>8. CASE n < Chunks[v]
  <2>1. job' = [job EXCEPT ![c].done = Append(@, v)] /\ UNCHANGED <<pc, promised>>
    BY <1>8 DEF Write
  <2>2. PICK s \in Seq(Stored) : s = Append(job[c].done, v) /\ Len(s) = n
    <3>1. PICK old \in Seq(Stored), y \in Stored : old = job[c].done /\ y = v
      BY <1>2 DEF Stored
    <3>2. \E t \in Seq(Stored) : t = Append(old, y) /\ Len(t) = Len(old) + 1
      BY AppendFits
    <3> QED
      BY <3>1, <3>2
  <2> DEFINE r == [job[c] EXCEPT !.done = s]
  <2>3. /\ job'[c] = r
        /\ job' \in [Clients -> Jobs]
        /\ \A d \in Clients : d # c => job'[d] = job[d]
    <3>1. r \in Jobs
      BY <1>1 DEF Jobs
    <3>2. job' = [job EXCEPT ![c] = [job[c] EXCEPT !.done = Append(job[c].done, v)]]
      BY <2>1
    <3>3. job' = [job EXCEPT ![c] = r]
      BY <2>2, <3>2
    <3>4. job \in [Clients -> Jobs]
      BY DEF StateInv
    <3> HIDE DEF r
    <3> QED
      BY <3>1, <3>3, <3>4
  <2>4. /\ job'[c].key = k /\ job'[c].file = f /\ job'[c].value = v
        /\ job'[c].alone = job[c].alone /\ job'[c].done = s
    BY <1>1, <2>3 DEF Jobs
  <2>5. \A d \in Clients : (Writing(d)' <=> Writing(d)) /\ (d # c => Same(d))
    BY <2>1, <2>3 DEF Writing, Same
  <2> HIDE DEF n
  <2>6. CallInv(c)'
    <3>1. f # None /\ k # Root
      BY <1>2
    <3>2. Len(s) < Chunks[v] /\ (job[c].alone => data'[f] = [m \in 1 .. Len(s) |-> v])
      BY <1>3, <1>8, <2>2
    <3>3. /\ at' = at /\ pc'[c] = "write" /\ f \in Files /\ k \in Keys /\ v \in Values
          /\ \A d \in Above[k] : at[d] = Dir
          /\ \A p \in Paths : at[p] = f => p = k
          /\ job[c].alone => at[k] = f
      BY <1>1, <1>2, <2>1
    <3> HIDE DEF f, k, v
    <3> QED
      BY <2>4, <3>1, <3>2, <3>3 DEF CallInv, IsFile, Writing
  <2>7. ASSUME NEW d \in Clients, NEW e \in Clients, d # e PROVE PairInv(d, e)'
    <3>1. PairInv(d, e)
      BY <2>7 DEF StateInv
    <3>2. \A g \in Clients : /\ job'[g].key = job[g].key /\ job'[g].file = job[g].file
                              /\ job'[g].alone = job[g].alone
      BY <2>3, <2>4
    <3> QED
      BY <2>5, <3>1, <3>2 DEF PairInv
  <2>8. ASSUME NEW l \in Keys, Untouched(l)' PROVE Stable(l)'
    <3>1. l # k
      BY <1>1, <2>1, <2>4, <2>5, <2>8 DEF Untouched
    <3>2. Untouched(l)
      BY <2>1, <2>3, <2>5, <2>8, <3>1 DEF Untouched
    <3> QED
      BY <1>7, <2>1, <3>1, <3>2
  <2> QED
    BY <1>1, <1>3, <1>5, <1>6, <2>1, <2>3, <2>5, <2>6, <2>7, <2>8 DEF StateInv
<1>9. CASE ~(n < Chunks[v])
  <2>1. /\ pc' = [pc EXCEPT ![c] = "idle"] /\ job' = [job EXCEPT ![c] = NoJob]
        /\ promised' = [promised EXCEPT ![k] = IF job[c].alone THEN v ELSE Unknown]
    BY <1>9 DEF Write, Answer, Promise
  <2>2. /\ job' \in [Clients -> Jobs]
        /\ pc' \in [Clients -> {"idle", "mkdir", "open", "write", "read", "walk"}]
        /\ job'[c] = NoJob /\ pc'[c] = "idle" /\ ~Writing(c)'
        /\ \A d \in Clients : d # c => pc'[d] = pc[d] /\ job'[d] = job[d]
    BY <2>1, NoJobFits DEF StateInv, Writing
  <2>3. \A d \in Clients : d # c => Same(d) /\ (Writing(d)' <=> Writing(d))
    BY <2>2 DEF Same, Writing
  <2>4. /\ promised' \in [Keys -> Stored \cup {Unknown}]
        /\ \A l \in Keys : l # k => promised'[l] = promised[l]
        /\ promised'[k] = IF job[c].alone THEN v ELSE Unknown
    BY <1>2, <2>1 DEF StateInv, Stored
  <2>5. CallInv(c)'
    BY <2>2 DEF CallInv, NoJob, Writing, IsFile
  <2>6. ASSUME NEW d \in Clients PROVE CallInv(d)'
    BY <1>5, <2>2, <2>3, <2>5
  <2>7. ASSUME NEW d \in Clients, NEW e \in Clients, d # e PROVE PairInv(d, e)'
    <3>1. CASE d # c /\ e # c
      BY <2>2, <2>3, <2>7, <3>1 DEF StateInv, PairInv
    <3>2. CASE d = c \/ e = c
      BY <2>2, <2>6, <2>7, <3>2, IdleFits
    <3> QED
      BY <3>1, <3>2
  <2>8. ASSUME NEW l \in Keys, Untouched(l)' PROVE Stable(l)'
    <3>1. CASE l # k
      <4>1. Untouched(l)
        BY <2>2, <2>3, <2>8, <3>1 DEF Untouched
      <4> QED
        BY <1>7, <2>4, <3>1, <4>1
    <3>2. CASE l = k /\ ~job[c].alone
      BY <2>4, <3>2 DEF Stable, AsPromised
    <3>3. CASE l = k /\ job[c].alone
      <4>1. n = Chunks[v]
        BY <1>2, <1>9
      <4>2. at'[l] = f /\ promised'[l] = v
        BY <1>1, <1>2, <2>4, <3>3
      <4> HIDE DEF n, f, v
      <4>3. data'[f] = Contents(v)
        BY <1>3, <3>3, <4>1 DEF Contents
      <4> QED
        BY <1>2, <4>2, <4>3 DEF Stable, AsPromised, IsFile
    <3> QED
      BY <3>1, <3>2, <3>3
  <2> QED
    BY <1>1, <1>3, <1>6, <2>2, <2>4, <2>6, <2>7, <2>8 DEF StateInv
<1> QED
  BY <1>8, <1>9

-----------------------------------------------------------------------------
(* The histories of the listings under way. *)

\* A client that is in a listing after a step has begun it, has read a
\* directory, or had read what it has.
LEMMA Walking ==
    ASSUME StateInv, NEW c \in Clients, Call(c), NEW d \in Clients, pc'[d] = "walk"
    PROVE  \/ d = c /\ List(c)
           \/ d = c /\ Walk(c)
           \/ /\ pc[d] = "walk"
              /\ job'[d].todo = job[d].todo /\ job'[d].found = job[d].found
<1> USE DEF StateInv
<1>1. ASSUME NEW k \in Keys, NEW v \in Values, Put(c, k, v)
      PROVE  pc[d] = "walk" /\ job'[d].todo = job[d].todo /\ job'[d].found = job[d].found
  <2>1. d # c /\ pc[d] = "walk"
    BY <1>1 DEF Put
  <2>2. job'[d] = Spoil(k)[d]
    BY <1>1, <2>1, SpoilFits DEF Put
  <2> QED
    BY <2>1, <2>2, SpoilFits
<1>2. CASE MakeDirectory(c)
  BY <1>2 DEF MakeDirectory
<1>3. CASE Open(c)
  <2>1. PICK f : /\ job' = [job EXCEPT ![c] = [job[c] EXCEPT !.file = f]]
                 /\ pc' = [pc EXCEPT ![c] = "write"]
    BY <1>3 DEF Open
  <2> QED
    BY <2>1
<1>4. CASE Write(c)
  <2>1. /\ pc[c] = "write" /\ pc'[c] \in {"write", "idle"}
        /\ d # c => pc'[d] = pc[d] /\ job'[d] = job[d]
    BY <1>4 DEF Write, Answer
  <2> QED
    BY <2>1
<1>5. CASE PutFails(c)
  BY <1>5 DEF PutFails, Answer
<1>6. ASSUME NEW k \in Keys, Get(c, k)
      PROVE  pc[d] = "walk" /\ job'[d].todo = job[d].todo /\ job'[d].found = job[d].found
  BY <1>6 DEF Get
<1>7. ASSUME NEW k \in Keys, Delete(c, k)
      PROVE  pc[d] = "walk" /\ job'[d].todo = job[d].todo /\ job'[d].found = job[d].found
  BY <1>7, SpoilFits DEF Delete
<1>8. CASE Read(c)
  <2>1. /\ pc[c] = "read" /\ pc'[c] \in {"read", "idle"}
        /\ d # c => pc'[d] = pc[d] /\ job'[d] = job[d]
    BY <1>8 DEF Read, Answer
  <2> QED
    BY <2>1
<1>9. CASE List(c) \/ Walk(c)
  <2>1. d # c => pc'[d] = pc[d] /\ job'[d] = job[d]
    BY <1>9 DEF List, Walk
  <2> QED
    BY <1>9, <2>1
<1>10. CASE Listed(c)
  BY <1>10 DEF Listed, Answer
<1> QED
  BY <1>1, <1>2, <1>3, <1>4, <1>5, <1>6, <1>7, <1>8, <1>9, <1>10 DEF Call

\* What there was all the time lies below a directory still to be read, until
\* it is told.
LEMMA WalkKeeps ==
    ASSUME StoreInv, StateInv, NEW c \in Clients, Walk(c), Watch
    PROVE  WalkInv(c)'
<1> USE ConstantsAssumption
<1>1. /\ pc[c] = "walk" /\ pc'[c] = "walk" /\ at' = at
      /\ WalkInv(c) /\ job[c] \in Jobs
  BY DEF Walk, StoreInv, TypeOK
<1> DEFINE there == {k \in Keys : IsFile(k)}
           files(d) == {p \in Entries(d) : IsFile(p)}
<1>2. PICK d \in job[c].todo :
        job' = [job EXCEPT ![c] = [job[c] EXCEPT
                  !.todo = (job[c].todo \ {d}) \cup (Entries(d) \ files(d)),
                  !.found = job[c].found \cup files(d)]]
  BY DEF Walk
<1> DEFINE t == (job[c].todo \ {d}) \cup (Entries(d) \ files(d))
           f == job[c].found \cup files(d)
<1>3. /\ job'[c].todo = t /\ job'[c].found = f
  <2>1. job' = [job EXCEPT ![c] = [job[c] EXCEPT !.todo = t, !.found = f]]
    BY <1>2
  <2> HIDE DEF t, f
  <2>2. job'[c] = [job[c] EXCEPT !.todo = t, !.found = f]
    BY <2>1 DEF StateInv
  <2> QED
    BY <1>1, <2>2 DEF Jobs
<1>4. always'[c] = always[c] \cap there /\ ever'[c] = ever[c] \cup there
  BY <1>1 DEF Watch, IsFile
<1>5. files(d) \subseteq there /\ d \in Paths /\ always[c] \subseteq Keys
  BY <1>1, <1>2 DEF Entries, StateInv, StoreInv, TypeOK, TreeInv, Jobs
<1>6. f \subseteq ever'[c]
  BY <1>1, <1>4, <1>5 DEF WalkInv
<1>7. ASSUME NEW k \in always'[c] \ f PROVE t \cap Above[k] # {}
  <2>1. /\ k \in always[c] \ job[c].found /\ k \in Keys /\ k \in Paths
        /\ at[k] \in Files /\ k \notin files(d)
    BY <1>4, <1>7 DEF IsFile
  <2>2. PICK e \in job[c].todo : e \in Above[k]
    BY <1>1, <2>1 DEF WalkInv
  <2>3. CASE e # d
    BY <2>2, <2>3
  <2>4. CASE e = d
    <3>1. PICK q \in Above[k] \cup {k} : Above[q] = Above[d] \cup {d}
      BY <2>1, <2>2, <2>4
    <3>2. \A p \in Above[k] : at[p] = Dir
      BY <2>1 DEF StateInv, TreeInv
    <3>3. q \in Entries(d)
      BY <2>1, <3>1, <3>2 DEF Entries
    <3>4. q \in Above[k]
      BY <2>1, <3>1, <3>3 DEF IsFile
    <3>5. q \in Entries(d) \ files(d)
      BY <3>2, <3>3, <3>4 DEF IsFile
    <3> QED
      BY <3>4, <3>5
  <2> QED
    BY <2>3, <2>4
<1> HIDE DEF t, f
<1> QED
  BY <1>1, <1>3, <1>4, <1>6, <1>7 DEF WalkInv, IsFile

LEMMA InitStore == Init => StoreInv
<1> SUFFICES ASSUME Init PROVE StoreInv
  OBVIOUS
<1> USE ConstantsAssumption DEF Init
<1>1. TypeOK
  <2>1. <<>> \in Seq(Stored)
    BY EmptySeq
  <2> QED
    BY <2>1, NoJobFits DEF TypeOK, Stored
<1>2. TreeInv
  BY DEF TreeInv, IsFile
<1>3. ASSUME NEW c \in Clients PROVE CallInv(c)
  BY DEF CallInv, NoJob, Writing, IsFile
<1>4. ASSUME NEW c \in Clients, NEW d \in Clients PROVE PairInv(c, d)
  BY DEF PairInv, NoJob, Writing
<1>5. ASSUME NEW k \in Keys PROVE Stable(k)
  BY DEF Stable, IsFile, AsPromised
<1> QED
  BY <1>1, <1>2, <1>3, <1>4, <1>5 DEF StoreInv

LEMMA CallKeeps ==
    ASSUME StateInv, NEW c \in Clients, Call(c)
    PROVE  StateInv'
<1>1. ASSUME NEW k \in Keys, NEW v \in Values, Put(c, k, v) PROVE StateInv'
  BY <1>1, PutKeeps
<1>2. ASSUME NEW k \in Keys, Get(c, k) PROVE StateInv'
  BY <1>2, GetKeeps
<1>3. ASSUME NEW k \in Keys, Delete(c, k) PROVE StateInv'
  BY <1>3, DeleteKeeps
<1> QED
  BY <1>1, <1>2, <1>3, MakeDirectoryKeeps, OpenKeeps, WriteKeeps, PutFailsKeeps, ReadKeeps,
     ListKeeps DEF Call

LEMMA StepStore == StoreInv /\ [Next]_vars => StoreInv'
<1> SUFFICES ASSUME StoreInv, [Next]_vars PROVE StoreInv'
  OBVIOUS
<1> USE ConstantsAssumption
<1>0. StateInv
  BY DEF StoreInv, StateInv, TypeOK
<1>1. CASE UNCHANGED vars
  <2> USE <1>1 DEF vars
  <2>1. TypeOK' /\ TreeInv'
    BY DEF StoreInv, TypeOK, TreeInv, IsFile
  <2>2. ASSUME NEW c \in Clients PROVE CallInv(c)'
    <3>1. CallInv(c) /\ Same(c) /\ job[c].key \in Paths
      BY DEF StoreInv, TypeOK, Same, Jobs
    <3> QED
      BY <3>1, CallStays DEF IsFile
  <2>3. ASSUME NEW c \in Clients, NEW d \in Clients, c # d PROVE PairInv(c, d)'
    BY <2>3 DEF StoreInv, PairInv, Writing
  <2>4. ASSUME NEW k \in Keys, Untouched(k)' PROVE Stable(k)'
    BY <2>4 DEF StoreInv, Untouched, Writing, Stable, AsPromised, IsFile
  <2>5. ASSUME NEW c \in Clients, pc'[c] = "walk" PROVE WalkInv(c)'
    BY <2>5 DEF StoreInv, WalkInv, IsFile
  <2> QED
    BY <2>1, <2>2, <2>3, <2>4, <2>5 DEF StoreInv
<1>2. CASE Next
  <2>1. PICK c \in Clients : Call(c)
    BY <1>2 DEF Next
  <2>2. Watch
    BY <1>2 DEF Next
  <2>3. StateInv'
    BY <1>0, <2>1, CallKeeps
  <2>4. always' \in [Clients -> SUBSET Keys] /\ ever' \in [Clients -> SUBSET Keys]
    BY <2>2 DEF Watch, StoreInv, TypeOK
  <2>5. ASSUME NEW d \in Clients, pc'[d] = "walk" PROVE WalkInv(d)'
    <3> DEFINE there == {k \in Keys : IsFile(k)'}
    <3>1. CASE d = c /\ List(c)
      <4>1. pc[d] = "idle" /\ job'[d].todo = {Root} /\ job'[d].found = {}
        BY <1>0, <3>1 DEF List, StateInv, NoJob
      <4>2. always'[d] = there /\ ever'[d] = there
        BY <2>2, <2>5, <4>1 DEF Watch
      <4> QED
        BY <4>1, <4>2 DEF WalkInv
    <3>2. CASE d = c /\ Walk(c)
      BY <1>0, <2>2, <3>2, WalkKeeps
    <3>3. CASE /\ pc[d] = "walk"
               /\ job'[d].todo = job[d].todo /\ job'[d].found = job[d].found
      <4>1. WalkInv(d)
        BY <3>3 DEF StoreInv
      <4>2. always'[d] = always[d] \cap there /\ ever'[d] = ever[d] \cup there
        BY <2>2, <2>5, <3>3 DEF Watch
      <4> QED
        BY <3>3, <4>1, <4>2 DEF WalkInv
    <3> QED
      BY <1>0, <2>1, <2>5, <3>1, <3>2, <3>3, Walking
  <2> QED
    BY <2>3, <2>4, <2>5 DEF StoreInv, StateInv, TypeOK
<1> QED
  BY <1>1, <1>2

\* Whatever the calls and however they interleave: an undisturbed put has
\* written what its file holds, an undisturbed get has read it, no two paths
\* share a file, and what a listing has still to tell lies below a directory it
\* has still to read.
THEOREM StoreInvariant == Spec => []StoreInv
BY InitStore, StepStore, PTL DEF Spec

\* A key whose puts and deletes do not overlap holds what its last successful
\* put wrote, and a get beside none of them returns it, for any tree of keys.
THEOREM KeepsPromises == Spec => []PromisesKept
<1>1. StoreInv => PromisesKept
  <2> SUFFICES ASSUME StoreInv PROVE PromisesKept
    OBVIOUS
  <2> USE ConstantsAssumption
  <2>1. ASSUME NEW k \in Keys, Unwritten(k)
        PROVE  Stable(k) /\ (promised[k] \in Values => Exists(k))
    <3>1. Stable(k)
      BY <2>1 DEF StoreInv, Untouched, Unwritten
    <3>2. IsFile(k) => Exists(k)
      BY DEF StoreInv, TreeInv, Exists, Blocked, IsFile
    <3> QED
      BY <3>1, <3>2 DEF Stable
  <2>2. ASSUME NEW c \in Clients, pc[c] = "read", AtEnd(c), job[c].alone
        PROVE  AsPromised(job[c].key, job[c].done)
    <3> DEFINE k == job[c].key
    <3>1. /\ job[c] \in Jobs /\ CallInv(c)
          /\ k \in Keys /\ job[c].file \in Files
          /\ at[k] = job[c].file
      BY <2>2 DEF StoreInv, TypeOK, CallInv, Jobs
    <3>2. Untouched(k)
      BY <2>2 DEF StoreInv, PairInv, Untouched, Writing
    <3>3. AsPromised(k, data[at[k]])
      BY <3>1, <3>2 DEF StoreInv, Stable, IsFile
    <3>4. job[c].done = data[job[c].file]
      <4>1. job[c].done \in Seq(Stored) /\ data[job[c].file] \in Seq(Stored)
        BY <3>1 DEF Jobs, StoreInv, TypeOK
      <4>2. PICK s \in Seq(Stored), t \in Seq(Stored) :
              s = job[c].done /\ t = data[job[c].file]
        BY <4>1
      <4>3. Len(s) \in Nat /\ Len(t) \in Nat
        BY LenProperties
      <4>4. Len(s) = Len(t) /\ \A n \in 1 .. Len(s) : s[n] = t[n]
        BY <2>2, <3>1, <4>2, <4>3 DEF CallInv, AtEnd
      <4>5. s = t
        BY <4>4, SeqEqual
      <4> QED
        BY <4>2, <4>5
    <3> QED
      BY <3>1, <3>3, <3>4
  <2> QED
    BY <2>1, <2>2 DEF PromisesKept
<1> QED
  BY <1>1, StoreInvariant, PTL

\* A listing tells every key that was there all the time it took, and none
\* that never was, for any tree of keys and whatever else goes on.
THEOREM ListsExactly == Spec => []ListExact
<1>1. StoreInv => ListExact
  BY DEF StoreInv, WalkInv, ListExact
<1> QED
  BY <1>1, StoreInvariant, PTL
=============================================================================

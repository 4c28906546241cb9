----------------------------- MODULE ObjectStore -----------------------------
(***************************************************************************)
(* FilesystemObjectStore: objects are files under a root directory, named  *)
(* by their keys.  Every operation is a sequence of awaited file-system    *)
(* calls, and the calls of concurrent operations interleave; a call is     *)
(* atomic.  The paths form a tree; directories are made when a key needs   *)
(* them and are never removed.  Keys that resolveKey rejects do not get to *)
(* the file system and are left out, as is the prefix a listing filters    *)
(* and sorts by in the end.                                                *)
(***************************************************************************)
EXTENDS Naturals, Sequences

CONSTANTS
    Clients,     \* callers of the store, each with one call at a time
    Keys,        \* the keys in use; each is a path below the root
    Root,        \* the root directory of the store
    Above,       \* the directories each path lies in
    Values,      \* what is stored
    Chunks,      \* the write calls each value takes; empty ones are left out
    Files,       \* inodes
    None, Dir,   \* what a path is when it is no file
    Missing,     \* no object
    Unknown      \* overlapping or failed calls leave open what is stored

Paths == DOMAIN Above

\* The directories of a path are paths, and theirs are among them; below each
\* of them there is a next one on the way to the path.
ASSUME ConstantsAssumption ==
    /\ Root \in Paths /\ Above[Root] = {}
    /\ Keys \subseteq Paths \ {Root}
    /\ \A p \in Paths : Above[p] \subseteq Paths \ {p}
    /\ \A p \in Paths \ {Root} : Root \in Above[p]
    /\ \A p \in Paths : \A d \in Above[p] :
         /\ Above[d] \subseteq Above[p]
         /\ \E q \in Above[p] \cup {p} : Above[q] = Above[d] \cup {d}
    /\ None # Dir /\ {None, Dir} \cap Files = {}
    /\ Missing # Unknown /\ {Missing, Unknown} \cap Values = {}
    /\ Chunks \in [Values -> Nat \ {0}]

VARIABLES
    at,         \* what is found at each path: None, Dir, or a file
    data,       \* the chunks in each file
    pc, job,    \* where each client is ("idle", "mkdir", "open", "write",
                \* "read", "walk"), and the local variables of its call
    promised,   \* history: what each key should hold
    always,     \* history: the keys there were all through a listing
    ever        \* history: the keys there were at some time during it

vars == <<at, data, pc, job, promised, always, ever>>

NoJob == [key |-> Root, value |-> Missing, file |-> None, done |-> <<>>,
          todo |-> {}, found |-> {}, alone |-> TRUE]

Init ==
    /\ at = [p \in Paths |-> None]
    /\ data = [f \in Files |-> <<>>]
    /\ pc = [c \in Clients |-> "idle"]
    /\ job = [c \in Clients |-> NoJob]
    /\ promised = [k \in Keys |-> Missing]
    /\ always = [c \in Clients |-> {}]
    /\ ever = [c \in Clients |-> {}]

-----------------------------------------------------------------------------
(* Helpers *)

IsFile(p) == at[p] \in Files

\* A path through a file leads nowhere (ENOTDIR).
Blocked(p) == \E d \in Above[p] : IsFile(d)

Entries(d) ==
    {p \in Paths : /\ at[p] # None
                   /\ d \in Above[p]
                   /\ Above[p] \subseteq Above[d] \cup {d}}

Writing(c) == pc[c] \in {"mkdir", "open", "write"}

\* No put of k is under way.
Unwritten(k) == \A c \in Clients : job[c].key = k => ~Writing(c)

\* The calls on k under way are no longer undisturbed.
Spoil(k) == [c \in Clients |-> IF job[c].key = k THEN [job[c] EXCEPT !.alone = FALSE]
                                                ELSE job[c]]

Answer(c) ==
    /\ pc' = [pc EXCEPT ![c] = "idle"]
    /\ job' = [job EXCEPT ![c] = NoJob]

Promise(k, alone, what) ==
    promised' = [promised EXCEPT ![k] = IF alone THEN what ELSE Unknown]

-----------------------------------------------------------------------------
(* put *)

Put(c, k, v) ==
    /\ pc[c] = "idle"
    /\ pc' = [pc EXCEPT ![c] = "mkdir"]
    /\ job' = [Spoil(k) EXCEPT ![c] = [NoJob EXCEPT !.key = k, !.value = v,
                                                   !.alone = Unwritten(k)]]
    /\ UNCHANGED <<at, data, promised>>

\* mkdir, recursive: one level at a time.
MakeDirectory(c) ==
    LET missing == {d \in Above[job[c].key] : at[d] = None}
    IN  /\ pc[c] = "mkdir"
        /\ ~Blocked(job[c].key)
        /\ IF missing = {}
             THEN pc' = [pc EXCEPT ![c] = "open"] /\ UNCHANGED at
             ELSE /\ \E d \in missing : /\ Above[d] \cap missing = {}
                                        /\ at' = [at EXCEPT ![d] = Dir]
                  /\ UNCHANGED pc
        /\ UNCHANGED <<data, job, promised>>

\* The file at a path, or any that no path and no call refers to.
FilesFor(k) ==
    IF IsFile(k) THEN {at[k]}
    ELSE {f \in Files : /\ \A p \in Paths : at[p] # f
                       /\ \A c \in Clients : job[c].file # f}

\* Mutant: an existing file is not truncated.
OpenUntruncated(c) ==
    LET k == job[c].key
    IN  /\ pc[c] = "open"
        /\ ~Blocked(k) /\ at[k] # Dir
        /\ \E f \in FilesFor(k) :
             /\ at' = [at EXCEPT ![k] = f]
             /\ data' = [data EXCEPT ![f] = IF at[k] = f THEN @ ELSE <<>>]
             /\ job' = [job EXCEPT ![c].file = f]
        /\ pc' = [pc EXCEPT ![c] = "write"]
        /\ UNCHANGED promised

\* writeFile opens the file, created or truncated.
Open(c) ==
    LET k == job[c].key
    IN  /\ pc[c] = "open"
        /\ ~Blocked(k) /\ at[k] # Dir
        /\ \E f \in FilesFor(k) :
             /\ at' = [at EXCEPT ![k] = f]
             /\ data' = [data EXCEPT ![f] = <<>>]
             /\ job' = [job EXCEPT ![c].file = f]
        /\ pc' = [pc EXCEPT ![c] = "write"]
        /\ UNCHANGED promised

\* A chunk goes to its place, whatever the file has become: a hole is left
\* before it in a file that another put has truncated.
Overwrite(s, n, v) ==
    [m \in 1 .. (IF n > Len(s) THEN n ELSE Len(s)) |->
        IF m = n THEN v ELSE IF m <= Len(s) THEN s[m] ELSE Missing]

Write(c) ==
    LET j == job[c]
        n == Len(j.done) + 1
    IN  /\ pc[c] = "write"
        /\ data' = [data EXCEPT ![j.file] = Overwrite(@, n, j.value)]
        /\ IF n < Chunks[j.value]
             THEN /\ job' = [job EXCEPT ![c].done = Append(@, j.value)]
                  /\ UNCHANGED <<pc, promised>>
             ELSE Answer(c) /\ Promise(j.key, j.alone, j.value)
        /\ UNCHANGED at

\* put throws: a file or a directory is in its way, or the disk is full; or
\* the process stops.  What has been done stays.
PutFails(c) ==
    LET j == job[c]
    IN  /\ Writing(c)
        /\ Answer(c)
        /\ Promise(j.key, j.alone,
                   IF pc[c] = "write" THEN Unknown ELSE promised[j.key])
        /\ UNCHANGED <<at, data>>

-----------------------------------------------------------------------------
(* get, exists, delete *)

\* readFile opens the file; without one, get throws and nothing has happened.
Get(c, k) ==
    /\ pc[c] = "idle"
    /\ IsFile(k)
    /\ pc' = [pc EXCEPT ![c] = "read"]
    /\ job' = [job EXCEPT ![c] = [NoJob EXCEPT !.key = k, !.file = at[k],
                                               !.alone = Unwritten(k)]]
    /\ UNCHANGED <<at, data, promised>>

AtEnd(c) == Len(job[c].done) >= Len(data[job[c].file])

\* A chunk is read, or the end of the file reached and the object returned.
Read(c) ==
    /\ pc[c] = "read"
    /\ IF AtEnd(c)
         THEN Answer(c)
         ELSE /\ job' = [job EXCEPT ![c].done =
                           Append(@, data[job[c].file][Len(@) + 1])]
              /\ UNCHANGED pc
    /\ UNCHANGED <<at, data, promised>>

Exists(k) == ~Blocked(k) /\ at[k] # None

\* rm with force: a key that is not there is no error, and of a directory or
\* behind a file there is nothing to delete.  The file lives on for who has
\* it open.  How Node divides rm into a look at the path and the removal is not
\* modelled: rm without recursive is taken to remove a file or nothing, at once.
Delete(c, k) ==
    /\ pc[c] = "idle"
    /\ at' = [at EXCEPT ![k] = IF IsFile(k) THEN None ELSE @]
    /\ job' = Spoil(k)
    /\ Promise(k, Unwritten(k), Missing)
    /\ UNCHANGED <<data, pc>>

-----------------------------------------------------------------------------
(* list *)

List(c) ==
    /\ pc[c] = "idle"
    /\ pc' = [pc EXCEPT ![c] = "walk"]
    /\ job' = [job EXCEPT ![c] = [NoJob EXCEPT !.todo = {Root}]]
    /\ UNCHANGED <<at, data, promised>>

\* Mutant: only directories that hold no file are descended into.
WalkLeaves(c) ==
    /\ pc[c] = "walk"
    /\ \E d \in job[c].todo :
         LET files == {p \in Entries(d) : IsFile(p)}
             dirs  == Entries(d) \ files
         IN  job' = [job EXCEPT ![c] =
                       [job[c] EXCEPT !.todo = (@ \ {d}) \cup (IF files = {} THEN dirs ELSE {}),
                                 !.found = @ \cup files]]
    /\ UNCHANGED <<at, data, pc, promised>>

\* walk reads one directory: its files are keys found, its directories are
\* walked in turn.  A root that was never made is empty.
Walk(c) ==
    /\ pc[c] = "walk"
    /\ \E d \in job[c].todo :
         LET files == {p \in Entries(d) : IsFile(p)}
             dirs  == Entries(d) \ files
         IN  job' = [job EXCEPT ![c] = [job[c] EXCEPT !.todo = (@ \ {d}) \cup dirs,
                                                      !.found = @ \cup files]]
    /\ UNCHANGED <<at, data, pc, promised>>

Listed(c) ==
    /\ pc[c] = "walk" /\ job[c].todo = {}
    /\ Answer(c)
    /\ UNCHANGED <<at, data, promised>>

-----------------------------------------------------------------------------
\* What is there while a listing goes on.
Watch ==
    LET there == {k \in Keys : IsFile(k)'}
    IN  /\ always' = [c \in Clients |->
                        IF pc'[c] # "walk" THEN {}
                        ELSE IF pc[c] = "walk" THEN always[c] \cap there ELSE there]
        /\ ever' = [c \in Clients |->
                        IF pc'[c] # "walk" THEN {}
                        ELSE IF pc[c] = "walk" THEN ever[c] \cup there ELSE there]

Call(c) ==
    \/ \E k \in Keys, v \in Values : Put(c, k, v)
    \/ MakeDirectory(c) \/ Open(c) \/ Write(c) \/ PutFails(c)
    \/ \E k \in Keys : Get(c, k) \/ Delete(c, k)
    \/ Read(c)
    \/ List(c) \/ Walk(c) \/ Listed(c)

Next == (\E c \in Clients : Call(c)) /\ Watch

Spec == Init /\ [][Next]_vars

-----------------------------------------------------------------------------
(* Properties *)

Contents(v) == [n \in 1 .. Chunks[v] |-> v]

AsPromised(k, contents) ==
    promised[k] # Unknown =>
        promised[k] # Missing /\ contents = Contents(promised[k])

\* What is at k, if anything, is what was promised.
Stable(k) ==
    /\ IsFile(k) => AsPromised(k, data[at[k]])
    /\ promised[k] \in Values => IsFile(k)

\* A key whose puts and deletes do not overlap holds what its last successful
\* put wrote, or no file when it was deleted since: between those calls the file
\* says so, exists answers true for what was put, and a get that reads it chunk
\* by chunk beside none of them returns it.  Puts of other keys make directories on its path and
\* under its name; they never cost it its object.
PromisesKept ==
    /\ \A k \in Keys : Unwritten(k) =>
         /\ Stable(k)
         /\ promised[k] \in Values => Exists(k)
    /\ \A c \in Clients : pc[c] = "read" /\ AtEnd(c) /\ job[c].alone =>
         AsPromised(job[c].key, job[c].done)

\* A listing is no snapshot, but it is exact up to what happened during it: it
\* tells every key that was there all the time, and none that never was.
ListExact ==
    \A c \in Clients : pc[c] = "walk" /\ job[c].todo = {} =>
        always[c] \subseteq job[c].found /\ job[c].found \subseteq ever[c]

Stored == Values \cup {Missing}

Jobs == [key : Keys \cup {Root}, value : Stored, file : Files \cup {None},
         done : Seq(Stored), todo : SUBSET Paths, found : SUBSET Keys,
         alone : BOOLEAN]

TypeOK ==
    /\ at \in [Paths -> Files \cup {None, Dir}]
    /\ data \in [Files -> Seq(Stored)]
    /\ pc \in [Clients -> {"idle", "mkdir", "open", "write", "read", "walk"}]
    /\ job \in [Clients -> Jobs]
    /\ promised \in [Keys -> Stored \cup {Unknown}]
    /\ always \in [Clients -> SUBSET Keys]
    /\ ever \in [Clients -> SUBSET Keys]

\* What exists is reached through directories, and no two paths share a file.
TreeInv ==
    /\ \A p \in Paths : at[p] # None => \A d \in Above[p] : at[d] = Dir
    /\ \A p \in Paths : IsFile(p) => p \in Keys
    /\ \A p, q \in Paths : IsFile(p) /\ at[p] = at[q] => p = q

\* What each call may rely on.
CallInv(c) ==
    LET j == job[c]
    IN  /\ j.key # Root <=> pc[c] \in {"mkdir", "open", "write", "read"}
        /\ j.file # None <=> pc[c] \in {"write", "read"}
        /\ \A p \in Paths : IsFile(p) /\ at[p] = j.file => p = j.key
        /\ Writing(c) => j.value \in Values
        /\ pc[c] \in {"mkdir", "open"} => j.done = <<>>
        /\ pc[c] \in {"open", "write"} => \A d \in Above[j.key] : at[d] = Dir
        /\ pc[c] = "write" => Len(j.done) < Chunks[j.value]
        /\ pc[c] \in {"write", "read"} /\ j.alone => at[j.key] = j.file
        /\ pc[c] = "write" /\ j.alone =>
             data[j.file] = [n \in 1 .. Len(j.done) |-> j.value]
        /\ pc[c] = "read" /\ j.alone =>
             /\ Len(j.done) <= Len(data[j.file])
             /\ \A n \in 1 .. Len(j.done) : j.done[n] = data[j.file][n]

\* Calls that have one file open are calls on one key, and a put disturbs every
\* other call on its key.
PairInv(c, d) ==
    /\ job[c].file = job[d].file /\ job[c].file # None => job[c].key = job[d].key
    /\ job[c].key = job[d].key /\ Writing(c) => ~job[d].alone

\* No put of k has touched its file yet, nor has another call disturbed one.
Untouched(k) ==
    \A c \in Clients : job[c].key = k /\ Writing(c) => job[c].alone /\ pc[c] # "write"

\* What has been listed, and that the rest lies below what is still to do.
WalkInv(c) ==
    /\ \A k \in always[c] : IsFile(k)
    /\ job[c].found \subseteq ever[c]
    /\ \A k \in always[c] \ job[c].found : job[c].todo \cap Above[k] # {}

\* The inductive invariant.
StoreInv ==
    /\ TypeOK
    /\ TreeInv
    /\ \A c \in Clients : CallInv(c)
    /\ \A c, d \in Clients : c # d => PairInv(c, d)
    /\ \A k \in Keys : Untouched(k) => Stable(k)
    /\ \A c \in Clients : pc[c] = "walk" => WalkInv(c)
=============================================================================

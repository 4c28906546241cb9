--------------------------- MODULE MCObjectStore ---------------------------
(***************************************************************************)
(* An instance of ObjectStore for TLC: two directories, keys in each, and  *)
(* a key with the name of a directory; values of one and of two chunks.    *)
(***************************************************************************)
EXTENDS ObjectStore, TLC

CONSTANTS d, df, e, eg, short, long

MCAbove == (Root :> {}) @@ (d :> {Root}) @@ (df :> {Root, d}) @@
           (e :> {Root}) @@ (eg :> {Root, e})

MCChunks == (short :> 1) @@ (long :> 2)

Interchangeable == Permutations(Clients)

\* A state up to the names of its inodes: what is at each path, and what each
\* client has open, tell the contents instead, and who shares a file with whom.
UpToInodes ==
    LET Has(f) == IF f \in Files THEN <<"file", data[f]>> ELSE <<"none", f>>
    IN  << [p \in Paths |-> Has(at[p])],
           [c \in Clients |-> <<pc[c], Has(job[c].file), [job[c] EXCEPT !.file = None]>>],
           {cp \in Clients \X Paths : job[cp[1]].file = at[cp[2]]},
           {cc \in Clients \X Clients : job[cc[1]].file = job[cc[2]].file},
           promised, always, ever >>
=============================================================================

----------------------------- MODULE MCKeyVault -----------------------------
(* Instances of KeyVault for TLC. *)
EXTENDS KeyVault, TLC

\* a sector for each object, a sector that two objects share, and room for one
\* object only
MCLayouts ==
  {[items |-> 2, per |-> 1, handles |-> 2, cuts |-> 1, torn |-> TRUE],
   [items |-> 2, per |-> 1, handles |-> 1, cuts |-> 2, torn |-> FALSE],
   [items |-> 2, per |-> 2, handles |-> 1, cuts |-> 1, torn |-> TRUE],
   [items |-> 1, per |-> 1, handles |-> 2, cuts |-> 2, torn |-> TRUE]}

\* the names of objects and chunks do not matter
MCSymmetry == Permutations(Objects) \cup Permutations(Chunks)
=============================================================================

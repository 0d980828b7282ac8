----------------------------- MODULE MCDescriptors -----------------------------
(* Symmetry for the model checker: descriptors, tables and the threads that are   *)
(* created later are interchangeable.  The numbers have a negative one: copyfd    *)
(* accepts it.                                                                    *)
EXTENDS Descriptors

FdTwo == -1 .. 0

Symmetry ==
  Permutations(Desc) \cup Permutations(Table) \cup Permutations(Thread \ {Main})
===============================================================================

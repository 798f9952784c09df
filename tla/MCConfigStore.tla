--------------------------- MODULE MCConfigStore ---------------------------
(* Small instances of ConfigStore for TLC. *)
EXTENDS ConfigStore, TLC

\* Every process may use every name.
AllNames == [p \in Procs |-> Names]

\* Networks, contract ids and seeds are only ever compared for equality.
Symmetry == Permutations(Nets) \cup Permutations(Contracts) \cup Permutations(Seeds)
=============================================================================

----------------------------- MODULE MCServices -----------------------------
(***************************************************************************)
(* Services for TLC.                                                        *)
(***************************************************************************)
EXTENDS Services, TLC

\* Payloads of every length around one and two chunks, and one port mapping.
McPayloads == {[i \in 1 .. n |-> 10 * n + i] : n \in 0 .. 9}
McMappings == {<< <<1, 8>> >>}

\* The processes are interchangeable.
Symmetry == Permutations(Procs)
=============================================================================

------------------------------ MODULE MCWebSub -------------------------------
(***************************************************************************)
(* Instances of WebSub for TLC.                                            *)
(***************************************************************************)
EXTENDS WebSub, TLC

Times4 == 1..4
Times5 == 1..5
Times6 == 1..6

Lease2 == {2}
Lease3 == {3}
Leases23 == {2, 3}

\* Ids and handlers are interchangeable.
Symmetry == Permutations(Ids) \cup Permutations(Handlers)

==============================================================================

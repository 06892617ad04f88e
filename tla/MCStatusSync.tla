---------------------------- MODULE MCStatusSync ----------------------------
(***************************************************************************)
(* Instances of StatusSync for TLC.                                        *)
(***************************************************************************)
EXTENDS StatusSync, TLC

\* The database and the collection of a user who has just linked both sources.
MCLinkedInit ==
    /\ Init
    /\ \A s \in Sources : claim[s] /\ on[s]
    /\ \A g \in Games : pds[g] = NoRecord

\* Goroutines of the same kinds are interchangeable.
MCSymmetry == Permutations(Presences)

MCSpec == MCLinkedInit /\ [][Next]_vars
MCFairSpec == MCSpec /\ Fairness
=============================================================================

---------------------------- MODULE MCRuntimeLease ----------------------------
(* Instances of RuntimeLease for TLC. *)
EXTENDS RuntimeLease, TLC

CONSTANTS r1, r2, n1

MCNodeOf == [r \in Runs |-> n1]

MCSymmetry == Permutations({r1, r2})

MCAtTwo == [r \in Runs |-> 2]

MCAtThree == [r \in Runs |-> 3]
=============================================================================

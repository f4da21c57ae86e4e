---------------------------- MODULE MCAdmission ----------------------------
(* Small instances of Admission for TLC.                                   *)
EXTENDS Admission, TLC

CONSTANTS p1, p2, p3, u1, a1, a2, k1

MCKeyOf == [p \in Requests |-> k1]
MCOneUser == [p \in Requests |-> u1]
MCUserLimit == [u \in Users |-> 1]
MCPairLimit == [u \in Users |-> 2]
MCAccountLimit == [a \in Accounts |-> 1]

AllSymmetry == Permutations(Requests)
=============================================================================

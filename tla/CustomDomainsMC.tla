--------------------------- MODULE CustomDomainsMC ---------------------------
(* Instances of CustomDomains for TLC.                                     *)
EXTENDS CustomDomains

CONSTANT PaidPlan

(* Every caller may have the same number of custom domains.                *)
SameLimit == [w \in Users \cup {NoUser} |-> PaidPlan]

Symmetry ==
  Permutations(Names) \cup Permutations(Users) \cup Permutations(Calls) \cup Permutations(Ids)
=============================================================================

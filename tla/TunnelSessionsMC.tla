-------------------------- MODULE TunnelSessionsMC --------------------------
(* Instances of TunnelSessions for TLC.                                    *)
EXTENDS TunnelSessions, TLC

CONSTANTS FreePlan, PreviewLimit

(* Every account is on the same plan; a caller without identity has the    *)
(* preview quota.                                                          *)
SamePlan == [u \in Users |-> FreePlan]
SameReserve == [w \in Users \cup {NoUser} |-> IF w = NoUser THEN PreviewLimit ELSE FreePlan]

Symmetry ==
  Permutations(Subdomains) \cup Permutations(Users) \cup Permutations(Conns)
    \cup Permutations(RowIds)
=============================================================================

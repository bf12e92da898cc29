-------------------------- MODULE RequestHistoryMC --------------------------
(* Instances of RequestHistory for TLC.                                    *)
EXTENDS RequestHistory, TLC

Symmetry == Permutations(Accounts) \cup Permutations(Procs) \cup Permutations(Ids)
            \cup Permutations(TunnelIds) \cup Permutations(Subdomains)
=============================================================================

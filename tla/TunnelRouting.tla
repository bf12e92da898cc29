--------------------------- MODULE TunnelRouting ---------------------------
(***************************************************************************)
(* What the control plane promises about its routing table, the map        *)
(* Service.sessions from a subdomain to the agent session that serves it:  *)
(*                                                                         *)
(*   - a route leads to an agent that joined and has not yet left;         *)
(*   - an agent joins exactly once and takes over the subdomain's route,   *)
(*     cutting the link of the agent it displaces;                         *)
(*   - an agent leaves only after its link is cut and no route leads to    *)
(*     it any more.                                                        *)
(*                                                                         *)
(* The promise is deliberately weak in one place, because the code is: a   *)
(* route may be forgotten (Forget) whether or not its agent is still       *)
(* linked.                                                                 *)
(***************************************************************************)
CONSTANTS
  Subdomains,  \* the names agents ask for
  Conns,       \* the agent connections
  NoConn       \* "no route"

VARIABLES
  route,       \* route[s] : the connection that serves s, or NoConn
  link         \* link[c]  : "none" before joining, "open" while the agent is
               \*            reachable, "closed" once the link is cut

vars == <<route, link>>

Init ==
  /\ route = [s \in Subdomains |-> NoConn]
  /\ link = [c \in Conns |-> "none"]

(* Agent c joins for subdomain s; the agent it displaces is cut. *)
Join(c, s) ==
  /\ link[c] = "none"
  /\ route' = [route EXCEPT ![s] = c]
  /\ link' = [x \in Conns |-> IF x = c THEN "open"
                              ELSE IF x = route[s] THEN "closed" ELSE link[x]]

(* The control plane ends the service of s and cuts its agent. *)
Evict(s) ==
  /\ route[s] # NoConn
  /\ link' = [link EXCEPT ![route[s]] = "closed"]
  /\ route' = [route EXCEPT ![s] = NoConn]

(* The agent's side of the link goes away. *)
Cut(c) ==
  /\ link[c] = "open"
  /\ link' = [link EXCEPT ![c] = "closed"]
  /\ UNCHANGED route

(* The entry of s is dropped, the agent is left alone. *)
Forget(s) ==
  /\ route' = [route EXCEPT ![s] = NoConn]
  /\ UNCHANGED link

(* Agent c, cut and unreferenced, is gone. *)
Leave(c) ==
  /\ link[c] = "closed"
  /\ \A s \in Subdomains : route[s] # c
  /\ link' = [link EXCEPT ![c] = "none"]
  /\ UNCHANGED route

(* The process ends: routes and links are volatile. *)
Reset ==
  /\ route' = [s \in Subdomains |-> NoConn]
  /\ link' = [c \in Conns |-> "none"]

Next ==
  \/ \E c \in Conns, s \in Subdomains : Join(c, s)
  \/ \E s \in Subdomains : Evict(s) \/ Forget(s)
  \/ \E c \in Conns : Cut(c) \/ Leave(c)
  \/ Reset

Spec == Init /\ [][Next]_vars
============================================================================

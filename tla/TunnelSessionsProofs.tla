------------------------ MODULE TunnelSessionsProofs ------------------------
(***************************************************************************)
(* Theorems about TunnelSessions, for every set of subdomains, accounts,   *)
(* connections and API calls.                                              *)
(***************************************************************************)
EXTENDS TunnelSessions, FiniteSetTheorems, TLAPS

(* markTunnelStatus yields rows of the right type, and changes nothing but *)
(* the status of one existing row.                                         *)
LEMMA MarkedRows ==
  ASSUME TypeOK, NEW s \in Subdomains, NEW status \in Statuses
  PROVE  /\ markTunnelStatus(s, status) \in [Subdomains -> Row]
         /\ \A t \in Subdomains :
              /\ markTunnelStatus(s, status)[t].id = rows[t].id
              /\ markTunnelStatus(s, status)[t].owner = rows[t].owner
              /\ t # s => markTunnelStatus(s, status)[t] = rows[t]
         /\ Exists(s) => markTunnelStatus(s, status)[s].status = status
<1> DEFINE f == markTunnelStatus(s, status)
<1>1. CASE Exists(s)
  <2>1. f = [rows EXCEPT ![s].status = status]
    BY <1>1 DEF markTunnelStatus
  <2>2. rows[s] \in Row /\ rows \in [Subdomains -> Row]
    BY DEF TypeOK
  <2>3. f[s] = [rows[s] EXCEPT !.status = status] /\ \A t \in Subdomains \ {s} : f[t] = rows[t]
    BY <2>1, <2>2
  <2>4. f[s] \in Row /\ f[s].id = rows[s].id /\ f[s].owner = rows[s].owner /\ f[s].status = status
    BY <2>2, <2>3 DEF Row
  <2>5. f \in [Subdomains -> Row]
    BY <2>1, <2>2, <2>3, <2>4
  <2> QED BY <2>3, <2>4, <2>5
<1>2. CASE ~ Exists(s)
  BY <1>2 DEF markTunnelStatus, TypeOK
<1> QED BY <1>1, <1>2

(* NoRow is a row.                                                         *)
LEMMA NoRowType == NoRow \in Row
  BY DEF NoRow, Row, Statuses

(* InsertRow adds one row with the id it draws, and keeps the others.      *)
LEMMA InsertedRow ==
  ASSUME TypeOK, NEW s \in Subdomains, NEW owner \in Users \cup {NoUser},
         NEW status \in Statuses, InsertRow(s, owner, status)
  PROVE  /\ rows' \in [Subdomains -> Row]
         /\ rows'[s].id \in FreshIds
         /\ rows'[s].owner = owner /\ rows'[s].status = status
         /\ \A t \in Subdomains \ {s} : rows'[t] = rows[t]
  BY DEF InsertRow, FreshIds, TypeOK, Row, Statuses

(* CloseMapped yields links of the right type; a link that was up stays or *)
(* is closed, and a link that was not is left alone.                       *)
LEMMA ClosedLinks ==
  ASSUME TypeOK, NEW s \in Subdomains
  PROVE  /\ CloseMapped(s) \in [Conns -> {"none", "open", "closed"}]
         /\ \A c \in Conns : CloseMapped(s)[c] = IF sessions[s] = c THEN "closed" ELSE link[c]
  BY SessionsAssumption DEF CloseMapped, TypeOK

(* The types of the locals of the connections and of the API calls.        *)
ConnLocals == [pc : ConnPc, sub : Subdomains \cup {NoSub}, user : Users \cup {NoUser}, row : Row]
ApiLocals == [pc : ApiPc, sub : Subdomains \cup {NoSub}, user : Users \cup {NoUser}, row : Row]

(* GoTo moves one handler to pc, drops the row it has read, and changes no *)
(* other local.                                                            *)
LEMMA Moved ==
  ASSUME TypeOK, NEW c \in Conns, NEW pc \in ConnPc, GoTo(c, pc)
  PROVE  /\ conn' \in [Conns -> ConnLocals]
         /\ conn'[c].pc = pc /\ conn'[c].row = NoRow
         /\ conn'[c].sub = conn[c].sub /\ conn'[c].user = conn[c].user
         /\ \A d \in Conns \ {c} : conn'[d] = conn[d]
<1>1. conn \in [Conns -> ConnLocals] /\ conn[c] \in ConnLocals
  BY DEF TypeOK, ConnLocals
<1>2. conn'[c] = [conn[c] EXCEPT !.pc = pc, !.row = NoRow]
  BY <1>1 DEF GoTo
<1>3. conn'[c] \in ConnLocals /\ conn'[c].pc = pc /\ conn'[c].row = NoRow
        /\ conn'[c].sub = conn[c].sub /\ conn'[c].user = conn[c].user
  BY <1>1, <1>2, NoRowType DEF ConnLocals
<1>4. \A d \in Conns \ {c} : conn'[d] = conn[d]
  BY <1>1 DEF GoTo
<1>5. conn' = [d \in Conns |-> conn'[d]]
  BY <1>1 DEF GoTo
<1> QED BY <1>1, <1>3, <1>4, <1>5

(* EndConn empties one slot.                                               *)
LEMMA Ended ==
  ASSUME TypeOK, NEW c \in Conns, EndConn(c)
  PROVE  /\ conn' \in [Conns -> ConnLocals]
         /\ conn'[c] = Idle
         /\ \A d \in Conns \ {c} : conn'[d] = conn[d]
  BY NoRowType DEF EndConn, TypeOK, ConnLocals, Idle, ConnPc

-----------------------------------------------------------------------------
(* Type correctness, one step.                                             *)
LEMMA TypeStep == TypeOK /\ [Next]_vars => TypeOK'
  <2> SUFFICES ASSUME TypeOK, [Next]_vars PROVE TypeOK'
    OBVIOUS
  <2> USE SessionsAssumption, NoRowType
  <2>1. ASSUME NEW c \in Conns, FindRow(c) PROVE TypeOK'
    <3>1. conn[c] \in ConnLocals /\ conn[c].sub \in Subdomains /\ conn[c].user \in Users
      BY <2>1 DEF FindRow, At, TypeOK, ConnLocals
    <3>2. conn'[c] = [conn[c] EXCEPT !.pc = "found", !.row = rows[conn[c].sub]]
      BY <2>1 DEF FindRow, TypeOK
    <3>3. conn'[c] \in ConnLocals /\ conn'[c].sub \in Subdomains /\ conn'[c].user \in Users
      BY <3>1, <3>2 DEF TypeOK, ConnLocals, ConnPc
    <3>4. conn' \in [Conns -> ConnLocals] /\ \A d \in Conns \ {c} : conn'[d] = conn[d]
      BY <2>1, <3>3 DEF FindRow, TypeOK, ConnLocals
    <3> QED BY <2>1, <3>3, <3>4 DEF FindRow, TypeOK, ConnLocals
  <2>2. ASSUME NEW c \in Conns, CreateRow(c) PROVE TypeOK'
    <3>1. conn[c].sub \in Subdomains /\ conn[c].user \in Users
      BY <2>2 DEF CreateRow, At, TypeOK
    <3>2. rows' \in [Subdomains -> Row]
      BY <2>2, <3>1, InsertedRow DEF CreateRow, Statuses
    <3> QED BY <2>2, <3>1, <3>2, Moved DEF CreateRow, TypeOK, ConnPc, ConnLocals
  <2>3. ASSUME NEW c \in Conns, UpdateRow(c) PROVE TypeOK'
    <3>1. conn[c].sub \in Subdomains /\ conn[c].user \in Users
      BY <2>3 DEF UpdateRow, At, TypeOK
    <3>2. rows' \in [Subdomains -> Row]
      BY <2>3, <3>1 DEF UpdateRow, TypeOK, OwnerOr, Row, Statuses
    <3> QED BY <2>3, <3>1, <3>2, Moved DEF UpdateRow, TypeOK, ConnPc, ConnLocals
  <2>4. ASSUME NEW c \in Conns, Abandon(c) \/ AckFails(c) PROVE TypeOK'
    BY <2>4, Ended DEF Abandon, AckFails, Idle, TypeOK, ConnLocals
  <2>5. ASSUME NEW c \in Conns, YamuxFails(c) PROVE TypeOK'
    <3>1. conn[c].sub \in Subdomains
      BY <2>5 DEF YamuxFails, At, TypeOK
    <3>2. rows' \in [Subdomains -> Row]
      BY <2>5, <3>1, MarkedRows DEF YamuxFails, Statuses
    <3> QED BY <2>5, <3>2, Ended DEF YamuxFails, Idle, TypeOK, ConnLocals
  <2>6. ASSUME NEW c \in Conns, AttachSession(c) PROVE TypeOK'
    <3>1. conn[c].sub \in Subdomains
      BY <2>6 DEF AttachSession, At, TypeOK
    <3>2. link' \in [Conns -> {"none", "open", "closed"}]
      BY <2>6, <3>1, ClosedLinks DEF AttachSession
    <3>3. conn[c].user \in Users
      BY <2>6 DEF AttachSession, At, TypeOK
    <3> QED BY <2>6, <3>1, <3>2, <3>3, Moved DEF AttachSession, TypeOK, ConnPc, ConnLocals
  <2>7. ASSUME NEW c \in Conns, DetachSession(c) PROVE TypeOK'
    <3>1. conn[c].sub \in Subdomains /\ conn[c].user \in Users
      BY <2>7 DEF DetachSession, At, TypeOK
    <3> QED BY <2>7, <3>1, Moved DEF DetachSession, TypeOK, ConnPc, ConnLocals
  <2>8. ASSUME NEW c \in Conns, DetachMark(c) \/ DetachMarkLost(c) PROVE TypeOK'
    <3>1. conn[c].sub \in Subdomains
      BY <2>8 DEF DetachMark, DetachMarkLost, At, TypeOK
    <3>2. rows' \in [Subdomains -> Row]
      BY <2>8, <3>1, MarkedRows DEF DetachMark, DetachMarkLost, Statuses, TypeOK
    <3> QED BY <2>8, <3>2, Ended DEF DetachMark, DetachMarkLost, Idle, TypeOK, ConnLocals
  <2>9. ASSUME NEW c \in Conns, AgentGone(c) PROVE TypeOK'
    BY <2>9 DEF AgentGone, TypeOK
  <2>10. ASSUME NEW c \in Conns, NEW s \in Subdomains, NEW u \in Users, Handshake(c, s, u)
         PROVE  TypeOK'
    BY <2>10 DEF Handshake, TypeOK, ConnPc
  <2>11. ASSUME NEW a \in ApiCalls, NEW s \in Subdomains, NEW w \in Callers,
                ReserveStart(a, s, w) \/ DeleteStart(a, s, w)
         PROVE  TypeOK'
    BY <2>11 DEF ReserveStart, DeleteStart, ApiStart, TypeOK, ApiPc
  <2>12. ASSUME NEW a \in ApiCalls, ReserveInsert(a) PROVE TypeOK'
    <3>1. api[a].sub \in Subdomains /\ api[a].user \in Users \cup {NoUser}
      BY <2>12 DEF ReserveInsert, ApiAt, TypeOK
    <3>2. rows' \in [Subdomains -> Row]
      BY <2>12, <3>1, InsertedRow DEF ReserveInsert, Statuses, TypeOK
    <3> QED BY <2>12, <3>2 DEF ReserveInsert, ApiDone, Idle, TypeOK, ApiPc
  <2>13. ASSUME NEW a \in ApiCalls, DeleteUnmap(a) PROVE TypeOK'
    <3>1. api[a].sub \in Subdomains
      BY <2>13 DEF DeleteUnmap, ApiAt, TypeOK
    <3>2. api' \in [ApiCalls -> ApiLocals] /\ \A b \in ApiCalls : api'[b].sub = api[b].sub
      BY <2>13 DEF DeleteUnmap, TypeOK, ApiLocals, ApiPc
    <3>3. \A b \in ApiCalls : api'[b].pc # "idle" => api[b].pc # "idle"
      BY <2>13 DEF DeleteUnmap, TypeOK, ApiAt
    <3> QED BY <2>13, <3>1, <3>2, <3>3, ClosedLinks DEF DeleteUnmap, TypeOK, ApiLocals
  <2>14. ASSUME NEW a \in ApiCalls, DeleteRow(a) PROVE TypeOK'
    <3>1. api[a].sub \in Subdomains
      BY <2>14 DEF DeleteRow, ApiAt, TypeOK
    <3> QED BY <2>14, <3>1 DEF DeleteRow, ApiDone, Idle, TypeOK, ApiPc
  <2>15. ASSUME NEW a \in ApiCalls, ApiFails(a) PROVE TypeOK'
    BY <2>15 DEF ApiFails, ApiDone, Idle, TypeOK, ApiPc
  <2>16. CASE RevokeSessions \/ StopListening \/ CloseService \/ SweepEnd
    BY <2>16 DEF RevokeSessions, StopListening, CloseService, SweepEnd, SweepGoTo, TypeOK
  <2>17. ASSUME NEW s \in Subdomains, SweepClose(s) PROVE TypeOK'
    BY <2>17, ClosedLinks DEF SweepClose, SweepGoTo, TypeOK
  <2>18. CASE SweepMark
    <3>1. sweep.sub \in Subdomains
      BY <2>18 DEF SweepMark, SweepAt, TypeOK
    <3>2. rows' \in [Subdomains -> Row]
      BY <2>18, <3>1, MarkedRows DEF SweepMark, Statuses, TypeOK
    <3> QED BY <2>18, <3>2 DEF SweepMark, SweepGoTo, TypeOK
  <2>19. CASE Restart
    BY <2>19 DEF Restart, Idle, TypeOK, ConnPc, ApiPc
  <2>20. CASE UNCHANGED vars
    BY <2>20 DEF vars, TypeOK
  <2> QED
    BY <2>1, <2>2, <2>3, <2>4, <2>5, <2>6, <2>7, <2>8, <2>9, <2>10, <2>11, <2>12,
       <2>13, <2>14, <2>15, <2>16, <2>17, <2>18, <2>19, <2>20
    DEF Next, Handler, ApiCall, SweepStep

(* Type correctness: the tables and every goroutine's locals stay in their *)
(* sets, and whoever is past its first step has a real subdomain and user. *)
THEOREM TypeCorrect == Spec => []TypeOK
<1>1. Init => TypeOK
  BY NoRowType DEF Init, TypeOK, Idle, ConnPc, ApiPc
<1> QED BY <1>1, TypeStep, PTL DEF Spec

-----------------------------------------------------------------------------
(* Routing.                                                                *)

(* A session exists from attachSession to the end of its handler, and is   *)
(* closed by the time the handler detaches it.                             *)
LinkFollowsHandler ==
  \A c \in Conns :
    /\ link[c] # "none" <=> conn[c].pc \in {"serving", "detaching"}
    /\ conn[c].pc = "detaching" => link[c] = "closed"

RoutingInv == TypeOK /\ MappedIsServed /\ LinkFollowsHandler

(* The steps of Next by what they do to the routing table: most leave it   *)
(* alone, and may only move a handler that is outside its session.         *)
Elsewhere(c) ==
  /\ \A d \in Conns \ {c} : conn'[d] = conn[d]
  /\ conn[c].pc \notin {"serving", "detaching"}
  /\ conn'[c].pc \notin {"serving", "detaching"}

LEMMA RoutingCases ==
  ASSUME TypeOK, [Next]_vars
  PROVE  \/ UNCHANGED <<sessions, link, conn>>
         \/ UNCHANGED <<sessions, link>> /\ \E c \in Conns : Elsewhere(c)
         \/ \E c \in Conns : AttachSession(c) \/ DetachSession(c) \/ AgentGone(c)
                              \/ DetachMark(c) \/ DetachMarkLost(c)
         \/ \E s \in Subdomains : /\ link' = CloseMapped(s)
                                  /\ sessions' = [sessions EXCEPT ![s] = NoConn]
                                  /\ conn' = conn
         \/ Restart
<1>1. ASSUME NEW c \in Conns, FindRow(c) \/ CreateRow(c) \/ UpdateRow(c)
      PROVE  UNCHANGED <<sessions, link>> /\ Elsewhere(c)
  <2>1. CASE FindRow(c)
    BY <2>1 DEF FindRow, At, Elsewhere, TypeOK
  <2>2. CASE CreateRow(c) \/ UpdateRow(c)
    BY <2>2, Moved DEF CreateRow, UpdateRow, At, Elsewhere, ConnPc
  <2> QED BY <1>1, <2>1, <2>2
<1>2. ASSUME NEW c \in Conns, Abandon(c) \/ AckFails(c) \/ YamuxFails(c)
      PROVE  UNCHANGED <<sessions, link>> /\ Elsewhere(c)
  BY <1>2, Ended DEF Abandon, AckFails, YamuxFails, At, Elsewhere, Idle
<1>3. ASSUME NEW c \in Conns, NEW s \in Subdomains, NEW u \in Users, Handshake(c, s, u)
      PROVE  UNCHANGED <<sessions, link>> /\ Elsewhere(c)
  BY <1>3 DEF Handshake, At, Elsewhere, TypeOK
<1>4. ASSUME NEW a \in ApiCalls, DeleteUnmap(a)
      PROVE  \E s \in Subdomains : /\ link' = CloseMapped(s)
                                  /\ sessions' = [sessions EXCEPT ![s] = NoConn]
                                  /\ conn' = conn
  BY <1>4 DEF DeleteUnmap, ApiAt, TypeOK
<1>5. ASSUME NEW s \in Subdomains, SweepClose(s)
      PROVE  /\ link' = CloseMapped(s)
             /\ sessions' = [sessions EXCEPT ![s] = NoConn]
             /\ conn' = conn
  BY <1>5 DEF SweepClose
<1>6. ASSUME NEW a \in ApiCalls, ReserveInsert(a) \/ DeleteRow(a) \/ ApiFails(a)
      PROVE  UNCHANGED <<sessions, link, conn>>
  BY <1>6 DEF ReserveInsert, DeleteRow, ApiFails
<1>7. ASSUME NEW a \in ApiCalls, NEW s \in Subdomains, NEW w \in Callers,
             ReserveStart(a, s, w) \/ DeleteStart(a, s, w)
      PROVE  UNCHANGED <<sessions, link, conn>>
  BY <1>7 DEF ReserveStart, DeleteStart
<1>8. ASSUME RevokeSessions \/ StopListening \/ CloseService \/ SweepMark \/ SweepEnd
             \/ UNCHANGED vars
      PROVE  UNCHANGED <<sessions, link, conn>>
  BY <1>8 DEF RevokeSessions, StopListening, CloseService, SweepMark, SweepEnd, vars
<1> QED
  BY <1>1, <1>2, <1>3, <1>4, <1>5, <1>6, <1>7, <1>8 DEF Next, Handler, ApiCall, SweepStep

LEMMA RoutingStep == RoutingInv /\ [Next]_vars => RoutingInv'
<1> SUFFICES ASSUME RoutingInv, [Next]_vars PROVE MappedIsServed' /\ LinkFollowsHandler'
  BY TypeStep DEF RoutingInv
<1> USE SessionsAssumption
<1>t. TypeOK /\ TypeOK' /\ MappedIsServed /\ LinkFollowsHandler
  BY TypeStep DEF RoutingInv
<1>1. CASE UNCHANGED <<sessions, link, conn>>
  BY <1>1, <1>t DEF MappedIsServed, LinkFollowsHandler
<1>2. ASSUME NEW c \in Conns, Elsewhere(c), UNCHANGED <<sessions, link>>
      PROVE  MappedIsServed' /\ LinkFollowsHandler'
  <2>1. \A t \in Subdomains : sessions[t] # c
    BY <1>2, <1>t DEF MappedIsServed, Elsewhere
  <2>2. MappedIsServed'
    BY <1>2, <1>t, <2>1 DEF MappedIsServed, Elsewhere, TypeOK
  <2>3. LinkFollowsHandler'
    <3> SUFFICES ASSUME NEW d \in Conns
                 PROVE  /\ (link[d] # "none")' <=> conn'[d].pc \in {"serving", "detaching"}
                        /\ conn'[d].pc = "detaching" => link'[d] = "closed"
      BY DEF LinkFollowsHandler
    <3>1. CASE d = c
      BY <1>2, <1>t, <3>1 DEF LinkFollowsHandler, Elsewhere
    <3>2. CASE d # c
      BY <1>2, <1>t, <3>2 DEF LinkFollowsHandler, Elsewhere
    <3> QED BY <3>1, <3>2
  <2> QED BY <2>2, <2>3
<1>3. ASSUME NEW c \in Conns, AttachSession(c) PROVE MappedIsServed' /\ LinkFollowsHandler'
  <2> DEFINE s == conn[c].sub
  <2>1. /\ s \in Subdomains /\ conn[c].pc = "upserted"
        /\ conn'[c].pc = "serving" /\ conn'[c].sub = s
        /\ \A d \in Conns \ {c} : conn'[d] = conn[d]
    BY <1>3, <1>t, Moved DEF AttachSession, At, TypeOK, ConnPc
  <2>2. /\ sessions'[s] = c
        /\ \A t \in Subdomains \ {s} : sessions'[t] = sessions[t]
    BY <1>3, <1>t, <2>1 DEF AttachSession, TypeOK
  <2>3. /\ link'[c] = "open"
        /\ \A d \in Conns \ {c} : link'[d] = IF sessions[s] = d THEN "closed" ELSE link[d]
    BY <1>3, <1>t, <2>1, ClosedLinks DEF AttachSession
  <2>4. MappedIsServed'
    BY <1>t, <2>1, <2>2, <2>3 DEF MappedIsServed, TypeOK
  <2>5. LinkFollowsHandler'
    BY <1>t, <2>1, <2>3 DEF MappedIsServed, LinkFollowsHandler, TypeOK
  <2> QED BY <2>4, <2>5
<1>4. ASSUME NEW c \in Conns, DetachSession(c) PROVE MappedIsServed' /\ LinkFollowsHandler'
  <2>1. /\ conn[c].sub \in Subdomains /\ conn[c].pc = "serving" /\ link[c] = "closed"
        /\ conn'[c].pc = "detaching" /\ link' = link
        /\ \A d \in Conns \ {c} : conn'[d] = conn[d]
    BY <1>4, <1>t, Moved DEF DetachSession, At, TypeOK, ConnPc
  <2>2. /\ sessions'[conn[c].sub] = NoConn
        /\ \A t \in Subdomains \ {conn[c].sub} : sessions'[t] = sessions[t]
    BY <1>4, <1>t, <2>1 DEF DetachSession, TypeOK
  <2>3. \A t \in Subdomains : sessions'[t] # c
    BY <1>t, <2>1, <2>2 DEF MappedIsServed
  <2>4. MappedIsServed'
    BY <1>t, <2>1, <2>2, <2>3 DEF MappedIsServed, TypeOK
  <2>5. LinkFollowsHandler'
    BY <1>t, <2>1 DEF LinkFollowsHandler, TypeOK
  <2> QED BY <2>4, <2>5
<1>5. ASSUME NEW c \in Conns, AgentGone(c) PROVE MappedIsServed' /\ LinkFollowsHandler'
  BY <1>5, <1>t DEF AgentGone, MappedIsServed, LinkFollowsHandler, TypeOK
<1>6. ASSUME NEW c \in Conns, DetachMark(c) \/ DetachMarkLost(c)
      PROVE  MappedIsServed' /\ LinkFollowsHandler'
  <2>1. /\ conn[c].pc = "detaching" /\ conn'[c].pc = "idle"
        /\ link' = [link EXCEPT ![c] = "none"] /\ sessions' = sessions
        /\ \A d \in Conns \ {c} : conn'[d] = conn[d]
    BY <1>6, <1>t, Ended DEF DetachMark, DetachMarkLost, At, Idle
  <2>2. \A t \in Subdomains : sessions[t] # c
    BY <1>t, <2>1 DEF MappedIsServed
  <2> QED BY <1>t, <2>1, <2>2 DEF MappedIsServed, LinkFollowsHandler, TypeOK
<1>7. ASSUME NEW s \in Subdomains, link' = CloseMapped(s),
             sessions' = [sessions EXCEPT ![s] = NoConn], conn' = conn
      PROVE  MappedIsServed' /\ LinkFollowsHandler'
  BY <1>7, <1>t, ClosedLinks DEF MappedIsServed, LinkFollowsHandler, TypeOK
<1>8. CASE Restart
  BY <1>8 DEF Restart, MappedIsServed, LinkFollowsHandler, Idle
<1> QED BY <1>t, <1>1, <1>2, <1>3, <1>4, <1>5, <1>6, <1>7, <1>8, RoutingCases

LEMMA RoutingInvariant == Spec => []RoutingInv
<1>1. Init => RoutingInv
  BY NoRowType, SessionsAssumption
  DEF Init, RoutingInv, TypeOK, MappedIsServed, LinkFollowsHandler, Idle, ConnPc, ApiPc
<1> QED BY <1>1, RoutingStep, PTL DEF Spec

(* The routing map never leads to a session whose handler has gone: who is *)
(* mapped is still served, so its detachSession is yet to come.            *)
THEOREM MappedServed == Spec => []MappedIsServed
<1>1. RoutingInv => MappedIsServed
  BY DEF RoutingInv
<1> QED BY <1>1, RoutingInvariant, PTL

(* Every order of handshakes, disconnects, deletions, revokes and restarts *)
(* is one the routing table of TunnelRouting allows.                       *)
THEOREM RefinesRouting == Spec => ImplementsRouting
<1> USE SessionsAssumption
<1>1. Init => Routing!Init
  BY DEF Init, Routing!Init
<1>2. RoutingInv /\ [Next]_vars => [Routing!Next]_Routing!vars
  <2> SUFFICES ASSUME RoutingInv, [Next]_vars PROVE Routing!Next \/ UNCHANGED <<sessions, link>>
    BY DEF Routing!vars
  <2>t. TypeOK /\ MappedIsServed /\ LinkFollowsHandler
    BY DEF RoutingInv
  <2>1. ASSUME NEW c \in Conns, AttachSession(c) PROVE Routing!Join(c, conn[c].sub)
    <3> DEFINE s == conn[c].sub
    <3>1. s \in Subdomains /\ link[c] = "none" /\ sessions' = [sessions EXCEPT ![s] = c]
      BY <2>1, <2>t DEF AttachSession, At, TypeOK, LinkFollowsHandler
    <3>2. link' = [x \in Conns |-> link'[x]] /\ link'[c] = "open"
          /\ \A x \in Conns \ {c} : link'[x] = IF x = sessions[s] THEN "closed" ELSE link[x]
      BY <2>1, <2>t, <3>1, ClosedLinks DEF AttachSession
    <3>3. link' = [x \in Conns |-> IF x = c THEN "open"
                                   ELSE IF x = sessions[s] THEN "closed" ELSE link[x]]
      BY <3>2
    <3> QED BY <3>1, <3>3 DEF Routing!Join
  <2>2. ASSUME NEW c \in Conns, DetachSession(c) PROVE Routing!Forget(conn[c].sub)
    BY <2>2 DEF DetachSession, Routing!Forget
  <2>3. ASSUME NEW c \in Conns, AgentGone(c) PROVE Routing!Cut(c)
    BY <2>3 DEF AgentGone, Routing!Cut
  <2>4. ASSUME NEW c \in Conns, DetachMark(c) \/ DetachMarkLost(c) PROVE Routing!Leave(c)
    BY <2>4, <2>t
    DEF DetachMark, DetachMarkLost, At, MappedIsServed, LinkFollowsHandler, Routing!Leave
  <2>5. ASSUME NEW s \in Subdomains, link' = CloseMapped(s),
               sessions' = [sessions EXCEPT ![s] = NoConn]
        PROVE  Routing!Evict(s) \/ Routing!Forget(s)
    BY <2>5 DEF CloseMapped, Routing!Evict, Routing!Forget
  <2>6. Restart => Routing!Reset
    BY DEF Restart, Routing!Reset
  <2>7. \A c \in Conns : DetachSession(c) => conn[c].sub \in Subdomains
    BY <2>t DEF DetachSession, At, TypeOK
  <2>8. \A c \in Conns : AttachSession(c) => conn[c].sub \in Subdomains
    BY <2>t DEF AttachSession, At, TypeOK
  <2> QED BY <2>t, <2>1, <2>2, <2>3, <2>4, <2>5, <2>6, <2>7, <2>8, RoutingCases DEF Routing!Next
<1> QED BY <1>1, <1>2, RoutingInvariant, PTL DEF Spec, ImplementsRouting, Routing!Spec
-----------------------------------------------------------------------------
(* The rows.                                                               *)

(* What one step may do to the row of s, with the actor when it matters.   *)
KeepsOwner(s) ==
  /\ rows'[s].id = rows[s].id /\ rows'[s].owner = rows[s].owner
  /\ rows'[s].status \in {rows[s].status, "INACTIVE", "ERROR"}

CreatedBy(c, s) ==
  /\ CreateRow(c) /\ conn[c].sub = s /\ ~ Exists(s)
  /\ rows'[s].id \in FreshIds /\ rows'[s].owner = conn[c].user

ReservedBy(a, s) ==
  /\ ReserveInsert(a) /\ api[a].sub = s /\ ~ Exists(s)
  /\ rows'[s].id \in FreshIds /\ rows'[s].owner = api[a].user /\ rows'[s].status = "INACTIVE"

UpdatedBy(c, s) ==
  /\ UpdateRow(c) /\ conn[c].sub = s /\ rows[s].id = conn[c].row.id
  /\ rows'[s].id = rows[s].id
  /\ rows'[s].owner = OwnerOr(conn[c].row.owner, conn[c].user)

LEMMA RowCases ==
  ASSUME TypeOK, [Next]_vars, NEW s \in Subdomains
  PROVE  \/ KeepsOwner(s)
         \/ rows'[s] = NoRow
         \/ \E c \in Conns : CreatedBy(c, s) \/ UpdatedBy(c, s)
         \/ \E a \in ApiCalls : ReservedBy(a, s)
<1>1. ASSUME NEW c \in Conns, CreateRow(c) PROVE KeepsOwner(s) \/ CreatedBy(c, s)
  <2>1. conn[c].sub \in Subdomains /\ conn[c].user \in Users
    BY <1>1 DEF CreateRow, At, TypeOK
  <2>2. InsertRow(conn[c].sub, conn[c].user, "ACTIVE")
    BY <1>1 DEF CreateRow
  <2> QED BY <1>1, <2>1, <2>2, InsertedRow DEF CreatedBy, KeepsOwner, InsertRow, Statuses
<1>2. ASSUME NEW c \in Conns, UpdateRow(c) PROVE KeepsOwner(s) \/ UpdatedBy(c, s)
  <2>1. conn[c].sub \in Subdomains
    BY <1>2 DEF UpdateRow, At, TypeOK
  <2>2. CASE rows[conn[c].sub].id # conn[c].row.id
    BY <1>2, <2>2 DEF UpdateRow, KeepsOwner
  <2>3. CASE rows[conn[c].sub].id = conn[c].row.id /\ s = conn[c].sub
    BY <1>2, <2>3 DEF UpdateRow, UpdatedBy, TypeOK, Row
  <2>4. CASE rows[conn[c].sub].id = conn[c].row.id /\ s # conn[c].sub
    BY <1>2, <2>4 DEF UpdateRow, KeepsOwner, TypeOK
  <2> QED BY <2>2, <2>3, <2>4
<1>3. ASSUME NEW t \in Subdomains, NEW status \in {"INACTIVE", "ERROR"},
             rows' = markTunnelStatus(t, status)
      PROVE  KeepsOwner(s)
  <2>1. rows'[s].id = rows[s].id /\ rows'[s].owner = rows[s].owner
    BY <1>3, MarkedRows DEF Statuses
  <2>2. CASE Exists(t) /\ s = t
    BY <1>3, <2>1, <2>2, MarkedRows DEF Statuses, KeepsOwner
  <2>3. CASE ~ Exists(t) \/ s # t
    BY <1>3, <2>1, <2>3, MarkedRows DEF Statuses, KeepsOwner, markTunnelStatus
  <2> QED BY <2>2, <2>3
<1>4. ASSUME NEW c \in Conns, YamuxFails(c) \/ DetachMark(c) PROVE KeepsOwner(s)
  BY <1>4, <1>3 DEF YamuxFails, DetachMark, At, TypeOK
<1>5. ASSUME NEW a \in ApiCalls, ReserveInsert(a) PROVE KeepsOwner(s) \/ ReservedBy(a, s)
  <2>1. api[a].sub \in Subdomains /\ api[a].user \in Users \cup {NoUser}
    BY <1>5 DEF ReserveInsert, ApiAt, TypeOK
  <2>2. CASE InsertRow(api[a].sub, api[a].user, "INACTIVE")
    BY <1>5, <2>1, <2>2, InsertedRow DEF ReservedBy, KeepsOwner, InsertRow, Statuses
  <2>3. CASE UNCHANGED rows
    BY <2>3 DEF KeepsOwner
  <2> QED BY <1>5, <2>2, <2>3 DEF ReserveInsert
<1>6. ASSUME NEW a \in ApiCalls, DeleteRow(a) PROVE KeepsOwner(s) \/ rows'[s] = NoRow
  BY <1>6 DEF DeleteRow, KeepsOwner, TypeOK
<1>7. CASE SweepMark
  BY <1>7, <1>3 DEF SweepMark, SweepAt, TypeOK, KeepsOwner
<1>8. CASE UNCHANGED rows
  BY <1>8 DEF KeepsOwner
<1>9. ASSUME NEW c \in Conns, \/ FindRow(c) \/ Abandon(c) \/ AckFails(c) \/ AttachSession(c)
                              \/ DetachSession(c) \/ DetachMarkLost(c) \/ AgentGone(c)
      PROVE  UNCHANGED rows
  BY <1>9 DEF FindRow, Abandon, AckFails, AttachSession, DetachSession, DetachMarkLost, AgentGone
<1>10. ASSUME NEW a \in ApiCalls, DeleteUnmap(a) \/ ApiFails(a) PROVE UNCHANGED rows
  BY <1>10 DEF DeleteUnmap, ApiFails
<1>11. ASSUME NEW a \in ApiCalls, NEW t \in Subdomains, NEW w \in Callers,
              ReserveStart(a, t, w) \/ DeleteStart(a, t, w)
       PROVE  UNCHANGED rows
  BY <1>11 DEF ReserveStart, DeleteStart
<1>12. ASSUME NEW c \in Conns, NEW t \in Subdomains, NEW u \in Users, Handshake(c, t, u)
       PROVE  UNCHANGED rows
  BY <1>12 DEF Handshake
<1>13. ASSUME \/ RevokeSessions \/ StopListening \/ CloseService \/ SweepEnd \/ Restart
              \/ UNCHANGED vars \/ \E t \in Subdomains : SweepClose(t)
       PROVE  UNCHANGED rows
  BY <1>13 DEF RevokeSessions, StopListening, CloseService, SweepEnd, Restart, SweepClose, vars
<1> QED
  BY <1>1, <1>2, <1>4, <1>5, <1>6, <1>7, <1>8, <1>9, <1>10, <1>11, <1>12, <1>13
  DEF Next, Handler, ApiCall, SweepStep

(* A handler that is between the quota check and the write after a step    *)
(* was there before it, or has just passed the check.                      *)
LEMMA AdmittedCases ==
  ASSUME TypeOK, [Next]_vars, NEW c \in Conns, conn'[c].pc \in {"admitted", "found"}
  PROVE  \/ conn'[c] = conn[c]
         \/ /\ FindRow(c) /\ conn'[c].pc = "found" /\ conn[c].pc = "admitted"
            /\ conn'[c].sub = conn[c].sub /\ conn'[c].user = conn[c].user
            /\ conn'[c].row = rows[conn[c].sub]
         \/ /\ conn'[c].pc = "admitted"
            /\ Handshake(c, conn'[c].sub, conn'[c].user)
            /\ conn'[c].sub \in Subdomains /\ conn'[c].user \in Users
<1>1. ASSUME NEW d \in Conns, FindRow(d)
      PROVE  \/ conn'[c] = conn[c]
             \/ /\ d = c /\ conn'[c].pc = "found" /\ conn[c].pc = "admitted"
                /\ conn'[c].sub = conn[c].sub /\ conn'[c].user = conn[c].user
                /\ conn'[c].row = rows[conn[c].sub]
  <2>1. CASE d # c
    BY <1>1, <2>1 DEF FindRow, TypeOK
  <2>2. CASE d = c
    <3>1. conn'[c] = [conn[c] EXCEPT !.pc = "found", !.row = rows[conn[c].sub]]
      BY <1>1, <2>2 DEF FindRow, TypeOK
    <3> QED BY <1>1, <2>2, <3>1 DEF FindRow, At, TypeOK
  <2> QED BY <2>1, <2>2
<1>2. ASSUME NEW d \in Conns, \E pc \in {"upserted", "serving", "detaching"} : GoTo(d, pc)
      PROVE  conn'[c] = conn[c]
  BY <1>2, Moved DEF ConnPc
<1>3. ASSUME NEW d \in Conns, EndConn(d) PROVE conn'[c] = conn[c]
  BY <1>3, Ended DEF Idle
<1>4. ASSUME NEW d \in Conns, Handler(d), ~ FindRow(d) PROVE conn'[c] = conn[c]
  BY <1>2, <1>3, <1>4 DEF Handler, CreateRow, UpdateRow, Abandon, AckFails, YamuxFails,
     AttachSession, DetachSession, DetachMark, DetachMarkLost
<1>5. ASSUME NEW d \in Conns, NEW s \in Subdomains, NEW u \in Users, Handshake(d, s, u)
      PROVE  conn'[c] = conn[c] \/ /\ d = c /\ conn'[c].pc = "admitted"
                                   /\ conn'[c].sub = s /\ conn'[c].user = u
  BY <1>5 DEF Handshake, TypeOK
<1>6. ASSUME NEW d \in Conns, AgentGone(d) PROVE conn'[c] = conn[c]
  BY <1>6 DEF AgentGone
<1>7. ASSUME NEW a \in ApiCalls, ApiCall(a) PROVE conn'[c] = conn[c]
  BY <1>7 DEF ApiCall, ReserveInsert, DeleteUnmap, DeleteRow, ApiFails
<1>8. ASSUME NEW a \in ApiCalls, NEW s \in Subdomains, NEW w \in Callers,
             ReserveStart(a, s, w) \/ DeleteStart(a, s, w)
      PROVE  conn'[c] = conn[c]
  BY <1>8 DEF ReserveStart, DeleteStart
<1>9. ASSUME RevokeSessions \/ StopListening \/ CloseService \/ SweepStep \/ UNCHANGED vars
      PROVE  conn'[c] = conn[c]
  BY <1>9 DEF RevokeSessions, StopListening, CloseService, SweepStep, SweepClose, SweepMark,
     SweepEnd, vars
<1>10. ~ Restart
  BY DEF Restart, Idle
<1> QED BY <1>1, <1>4, <1>5, <1>6, <1>7, <1>8, <1>9, <1>10 DEF Next

LEMMA ReservingCases ==
  ASSUME TypeOK, [Next]_vars, NEW a \in ApiCalls, api'[a].pc = "reserving"
  PROVE  api'[a] = api[a] \/ api'[a].user \in Callers
<1>1. ASSUME NEW b \in ApiCalls, ApiDone(b) PROVE api'[a] = api[a]
  BY <1>1 DEF ApiDone, TypeOK, Idle
<1>2. ASSUME NEW b \in ApiCalls, DeleteUnmap(b) PROVE api'[a] = api[a]
  BY <1>2 DEF DeleteUnmap, TypeOK
<1>3. ASSUME NEW b \in ApiCalls, NEW s \in Subdomains, NEW w \in Callers,
             ReserveStart(b, s, w) \/ DeleteStart(b, s, w)
      PROVE  api'[a] = api[a] \/ api'[a].user = w
  BY <1>3 DEF ReserveStart, DeleteStart, ApiStart, TypeOK
<1>4. ASSUME NEW c \in Conns, Handler(c) \/ AgentGone(c) PROVE api' = api
  BY <1>4 DEF Handler, FindRow, CreateRow, UpdateRow, Abandon, AckFails, YamuxFails,
     AttachSession, DetachSession, DetachMark, DetachMarkLost, AgentGone
<1>5. ASSUME NEW c \in Conns, NEW s \in Subdomains, NEW u \in Users, Handshake(c, s, u)
      PROVE  api' = api
  BY <1>5 DEF Handshake
<1>6. ASSUME RevokeSessions \/ StopListening \/ CloseService \/ SweepStep \/ UNCHANGED vars
      PROVE  api' = api
  BY <1>6 DEF RevokeSessions, StopListening, CloseService, SweepStep, SweepClose, SweepMark,
     SweepEnd, vars
<1>7. ~ Restart
  BY DEF Restart, Idle
<1> QED
  BY <1>1, <1>2, <1>3, <1>4, <1>5, <1>6, <1>7
  DEF Next, ApiCall, ReserveInsert, DeleteRow, ApiFails

(* When every reservation names an account, every row has an owner, and    *)
(* what a handler has read of a row that is still there is still true.     *)
OwnerInv ==
  /\ TypeOK
  /\ \A s \in Subdomains : Exists(s) => rows[s].owner # NoUser
  /\ \A a \in ApiCalls : api[a].pc = "reserving" => api[a].user # NoUser
  /\ \A c \in Conns :
       (conn[c].pc = "found" /\ conn[c].row.id # NoId) =>
         /\ conn[c].row.owner # NoUser
         /\ rows[conn[c].sub].id = conn[c].row.id =>
              rows[conn[c].sub].owner = conn[c].row.owner

LEMMA OwnerStep ==
  ASSUME NoUser \notin Callers, OwnerInv, [Next]_vars
  PROVE  OwnerInv'
<1> USE SessionsAssumption
<1>t. TypeOK /\ TypeOK'
  BY TypeStep DEF OwnerInv
<1>1. ASSUME NEW s \in Subdomains, Exists(s)' PROVE rows'[s].owner # NoUser
  <2>1. CASE KeepsOwner(s)
    BY <1>1, <2>1 DEF KeepsOwner, OwnerInv, Exists
  <2>2. CASE rows'[s] = NoRow
    BY <1>1, <2>2 DEF NoRow, Exists
  <2>3. ASSUME NEW c \in Conns, CreatedBy(c, s) PROVE rows'[s].owner # NoUser
    BY <2>3, <1>t DEF CreatedBy, CreateRow, At, TypeOK
  <2>4. ASSUME NEW c \in Conns, UpdatedBy(c, s) PROVE rows'[s].owner # NoUser
    BY <2>4, <1>t DEF UpdatedBy, UpdateRow, At, OwnerInv, OwnerOr
  <2>5. ASSUME NEW a \in ApiCalls, ReservedBy(a, s) PROVE rows'[s].owner # NoUser
    BY <2>5 DEF ReservedBy, ReserveInsert, ApiAt, OwnerInv
  <2> QED BY <1>t, <2>1, <2>2, <2>3, <2>4, <2>5, RowCases
<1>2. ASSUME NEW a \in ApiCalls, api'[a].pc = "reserving" PROVE api'[a].user # NoUser
  BY <1>2, <1>t, ReservingCases DEF OwnerInv
<1>3. ASSUME NEW c \in Conns, conn'[c].pc = "found", conn'[c].row.id # NoId
      PROVE  /\ conn'[c].row.owner # NoUser
             /\ rows'[conn'[c].sub].id = conn'[c].row.id =>
                  rows'[conn'[c].sub].owner = conn'[c].row.owner
  <2> DEFINE s == conn'[c].sub
  <2>s. s \in Subdomains
    BY <1>3, <1>t DEF TypeOK
  <2>1. CASE FindRow(c) /\ conn'[c].row = rows[conn[c].sub] /\ s = conn[c].sub
    BY <1>3, <2>1, <2>s DEF FindRow, OwnerInv, Exists
  <2>2. CASE conn'[c] = conn[c]
    <3> DEFINE seen == conn[c].row
    <3>1. /\ conn[c].pc = "found" /\ seen.id # NoId /\ seen.owner # NoUser
          /\ conn[c].sub = s
          /\ rows[s].id = seen.id => rows[s].owner = seen.owner
      BY <1>3, <2>2 DEF OwnerInv
    <3> SUFFICES ASSUME rows'[s].id = seen.id PROVE rows'[s].owner = seen.owner
      BY <2>2, <3>1
    <3>2. CASE KeepsOwner(s)
      BY <3>1, <3>2 DEF KeepsOwner
    <3>3. rows'[s] # NoRow
      BY <3>1 DEF NoRow
    <3>4. rows'[s].id \notin FreshIds
      BY <3>1 DEF FreshIds
    <3>5. ASSUME NEW d \in Conns, UpdatedBy(d, s) PROVE rows'[s].owner = seen.owner
      BY <3>1, <3>5 DEF UpdatedBy, UpdateRow, At, OwnerInv, OwnerOr
    <3> QED BY <1>t, <2>s, <3>2, <3>3, <3>4, <3>5, RowCases DEF CreatedBy, ReservedBy
  <2> QED BY <1>3, <1>t, <2>1, <2>2, AdmittedCases
<1> QED BY <1>t, <1>1, <1>2, <1>3 DEF OwnerInv

(* A row that has an owner keeps it for as long as it exists, provided     *)
(* that only accounts reserve: two accounts that race for a name never     *)
(* take it from each other.                                                *)
THEOREM OwnersKept ==
  ASSUME NoUser \notin Callers
  PROVE  Spec => OwnerKept
<1>1. Init => OwnerInv
  BY NoRowType, SessionsAssumption
  DEF Init, OwnerInv, TypeOK, Exists, NoRow, Idle, ConnPc, ApiPc
<1>2. OwnerInv /\ [Next]_vars => OwnerInv'
  BY OwnerStep
<1>3. OwnerInv /\ [Next]_vars =>
        [\A s \in Subdomains :
           (Exists(s) /\ rows'[s].id = rows[s].id /\ rows[s].owner # NoUser)
           => rows'[s].owner = rows[s].owner]_vars
  <2> SUFFICES ASSUME OwnerInv, [Next]_vars, NEW s \in Subdomains,
                      Exists(s), rows'[s].id = rows[s].id
               PROVE  rows'[s].owner = rows[s].owner
    OBVIOUS
  <2>t. TypeOK
    BY DEF OwnerInv
  <2>1. CASE KeepsOwner(s)
    BY <2>1 DEF KeepsOwner
  <2>2. rows'[s] # NoRow
    BY DEF Exists, NoRow
  <2>3. ~ \E c \in Conns : CreatedBy(c, s)
    BY DEF CreatedBy
  <2>4. ~ \E a \in ApiCalls : ReservedBy(a, s)
    BY DEF ReservedBy
  <2>5. ASSUME NEW c \in Conns, UpdatedBy(c, s) PROVE rows'[s].owner = rows[s].owner
    BY <2>5 DEF UpdatedBy, UpdateRow, At, OwnerInv, OwnerOr
  <2> QED BY <2>t, <2>1, <2>2, <2>3, <2>4, <2>5, RowCases
<1> QED BY <1>1, <1>2, <1>3, PTL DEF Spec, OwnerKept

-----------------------------------------------------------------------------
(* The plan limit.                                                         *)

AdmittedSubs(u) == {conn[c].sub : c \in Admitted(u)}

(* The bound, for one account; AuthEnabled or one account is what makes an *)
(* update write the account whose quota was checked.                       *)
PlanInv(u) ==
  Cardinality(ActiveTunnels(u) \cup AdmittedSubs(u))
    <= ActiveLimit[u] + Cardinality(Conns) - 1

(* What a handler has read, and may write back, is its own or nobody's.    *)
SeenIsPermitted ==
  \A c \in Conns : conn[c].pc = "found" => conn[c].row.owner \in {NoUser, conn[c].user}

LEMMA SeenIsPermittedStep ==
  ASSUME AuthEnabled \/ \A u, v \in Users : u = v,
         TypeOK, SeenIsPermitted, [Next]_vars
  PROVE  SeenIsPermitted'
<1> SUFFICES ASSUME NEW c \in Conns, conn'[c].pc = "found"
             PROVE  conn'[c].row.owner \in {NoUser, conn'[c].user}
  BY DEF SeenIsPermitted
<1>1. CASE conn'[c] = conn[c]
  BY <1>1 DEF SeenIsPermitted
<1>2. CASE FindRow(c) /\ conn'[c].user = conn[c].user /\ conn'[c].row = rows[conn[c].sub]
  <2>1. /\ conn[c].user \in Users /\ rows[conn[c].sub].owner \in Users \cup {NoUser}
    BY <1>2 DEF FindRow, At, TypeOK, Row
  <2> QED BY <1>2, <2>1 DEF FindRow, Permitted
<1> QED BY <1>1, <1>2, AdmittedCases

(* A set of connections asks for no more subdomains than it has members.   *)
LEMMA SubsBound ==
  ASSUME NEW locals, NEW S \in SUBSET Conns
  PROVE  LET T == {locals[c].sub : c \in S}
         IN  /\ IsFiniteSet(T) /\ Cardinality(T) \in Nat
             /\ Cardinality(T) <= Cardinality(Conns)
<1> DEFINE T == {locals[c].sub : c \in S}
           f == [c \in S |-> locals[c].sub]
<1>1. IsFiniteSet(S) /\ Cardinality(S) <= Cardinality(Conns)
  BY FS_Subset, SessionsAssumption
<1>2. f \in Surjection(S, T)
  BY DEF Surjection
<1> HIDE DEF f
<1>3. IsFiniteSet(T) /\ Cardinality(T) <= Cardinality(S)
  BY <1>1, <1>2, FS_Surjection
<1>4. Cardinality(T) \in Nat /\ Cardinality(S) \in Nat /\ Cardinality(Conns) \in Nat
  BY <1>1, <1>3, FS_CardinalityType, SessionsAssumption
<1> QED BY <1>1, <1>3, <1>4

LEMMA ActiveTunnelsFinite ==
  ASSUME NEW u \in Users
  PROVE  IsFiniteSet(ActiveTunnels(u)) /\ Cardinality(ActiveTunnels(u)) \in Nat
<1>1. ActiveTunnels(u) \in SUBSET Subdomains
  BY DEF ActiveTunnels
<1> QED BY <1>1, FS_Subset, FS_CardinalityType, SessionsAssumption

(* Only a handshake of u adds to what u has or is about to have.           *)
LEMMA PlanGrowth ==
  ASSUME TypeOK, SeenIsPermitted, [Next]_vars, NEW u \in Users
  PROVE  \/ \E c \in Conns, s \in Subdomains : Handshake(c, s, u)
         \/ (ActiveTunnels(u) \cup AdmittedSubs(u))' \subseteq ActiveTunnels(u) \cup AdmittedSubs(u)
<1> SUFFICES ASSUME ~ \E c \in Conns, s \in Subdomains : Handshake(c, s, u)
             PROVE  /\ ActiveTunnels(u)' \subseteq ActiveTunnels(u) \cup AdmittedSubs(u)
                    /\ AdmittedSubs(u)' \subseteq AdmittedSubs(u)
  OBVIOUS
<1>1. ASSUME NEW s \in ActiveTunnels(u)' PROVE s \in ActiveTunnels(u) \cup AdmittedSubs(u)
  <2>1. s \in Subdomains /\ rows'[s].id # NoId /\ rows'[s].owner = u /\ rows'[s].status = "ACTIVE"
    BY DEF ActiveTunnels, Exists
  <2>2. CASE KeepsOwner(s)
    BY <2>1, <2>2 DEF KeepsOwner, ActiveTunnels, Exists
  <2>3. rows'[s] # NoRow
    BY <2>1 DEF NoRow
  <2>4. ~ \E a \in ApiCalls : ReservedBy(a, s)
    BY <2>1 DEF ReservedBy
  <2>5. ASSUME NEW c \in Conns, CreatedBy(c, s) \/ UpdatedBy(c, s) PROVE s \in AdmittedSubs(u)
    <3>1. conn[c].pc = "found" /\ conn[c].sub = s
      BY <2>5 DEF CreatedBy, UpdatedBy, CreateRow, UpdateRow, At
    <3>2. conn[c].user = u
      BY <2>1, <2>5, <3>1 DEF CreatedBy, UpdatedBy, OwnerOr, SeenIsPermitted
    <3> QED BY <3>1, <3>2 DEF AdmittedSubs, Admitted
  <2> QED BY <2>1, <2>2, <2>3, <2>4, <2>5, RowCases
<1>2. ASSUME NEW c \in Admitted(u)' PROVE conn'[c].sub \in AdmittedSubs(u)
  <2>1. c \in Conns /\ conn'[c].pc \in {"admitted", "found"} /\ conn'[c].user = u
    BY DEF Admitted
  <2>2. CASE conn'[c] = conn[c]
    BY <2>1, <2>2 DEF AdmittedSubs, Admitted
  <2>3. CASE conn[c].pc = "admitted" /\ conn'[c].sub = conn[c].sub /\ conn'[c].user = conn[c].user
    BY <2>1, <2>3 DEF AdmittedSubs, Admitted
  <2> QED BY <2>1, <2>2, <2>3, AdmittedCases
<1> QED BY <1>1, <1>2 DEF AdmittedSubs

LEMMA PlanStep ==
  ASSUME TypeOK, SeenIsPermitted, [Next]_vars, NEW u \in Users, ActiveLimit[u] # 0, PlanInv(u)
  PROVE  PlanInv(u)'
<1> DEFINE L == ActiveLimit[u]
           N == Cardinality(Conns)
           A == ActiveTunnels(u)
           P == AdmittedSubs(u)
<1>1. L \in Nat /\ N \in Nat
  BY SessionsAssumption, FS_CardinalityType
<1>3. IsFiniteSet(A \cup P) /\ Cardinality(A \cup P) \in Nat
  <2>1. IsFiniteSet(P)
    BY SubsBound DEF AdmittedSubs, Admitted
  <2> QED BY <2>1, ActiveTunnelsFinite, FS_Union, FS_CardinalityType
<1>4. CASE (A \cup P)' \subseteq A \cup P
  <2>1. Cardinality((A \cup P)') <= Cardinality(A \cup P) /\ Cardinality((A \cup P)') \in Nat
    BY <1>3, <1>4, FS_Subset, FS_CardinalityType
  <2> QED BY <1>1, <1>3, <2>1 DEF PlanInv
<1>5. ASSUME NEW c \in Conns, NEW s \in Subdomains, Handshake(c, s, u) PROVE PlanInv(u)'
  <2>1. A' = A
    BY <1>5 DEF Handshake, ActiveTunnels, Exists
  <2>2. Cardinality(A \ {s}) < L
    BY <1>5 DEF Handshake, ActiveQuotaAdmits
  <2>3. s \in P'
    BY <1>5 DEF Handshake, AdmittedSubs, Admitted, TypeOK
  <2>4. (A \cup P)' = (A \ {s}) \cup P'
    BY <2>1, <2>3
  <2> DEFINE B == A \ {s}
             Q == P'
  <2>5. IsFiniteSet(Q) /\ Cardinality(Q) \in Nat /\ Cardinality(Q) <= N
    BY SubsBound DEF AdmittedSubs, Admitted
  <2>6. IsFiniteSet(B) /\ Cardinality(B) \in Nat /\ Cardinality(B) < L
    BY <2>2, ActiveTunnelsFinite, FS_RemoveElement, FS_CardinalityType
  <2>7. Cardinality((A \cup P)') = Cardinality(B \cup Q)
    BY <2>4
  <2> HIDE DEF B, Q
  <2>8. IsFiniteSet(B \cap Q) /\ Cardinality(B \cap Q) \in Nat
    BY <2>6, FS_Subset, FS_CardinalityType
  <2>9. Cardinality(B \cup Q) = Cardinality(B) + Cardinality(Q) - Cardinality(B \cap Q)
    BY <2>5, <2>6, FS_Union
  <2>10. Cardinality(B \cup Q) <= L + N - 1
    BY <1>1, <2>5, <2>6, <2>8, <2>9
  <2> QED BY <2>7, <2>10 DEF PlanInv
<1> QED BY <1>4, <1>5, PlanGrowth

(* An account never has more than its plan's active tunnels plus the       *)
(* handshakes that can race past the check.                                *)
THEOREM OvershootIsBounded ==
  ASSUME AuthEnabled \/ \A u, v \in Users : u = v
  PROVE  Spec => []OvershootBounded
<1> DEFINE IInv == /\ TypeOK /\ SeenIsPermitted
                   /\ \A u \in Users : ActiveLimit[u] # 0 => PlanInv(u)
<1>1. Init => IInv
  <2> SUFFICES ASSUME Init PROVE IInv
    OBVIOUS
  <2>1. TypeOK /\ SeenIsPermitted
    BY NoRowType DEF Init, TypeOK, SeenIsPermitted, Idle, ConnPc, ApiPc
  <2>2. ASSUME NEW u \in Users, ActiveLimit[u] # 0 PROVE PlanInv(u)
    <3>1. ActiveTunnels(u) \cup AdmittedSubs(u) = {}
      BY DEF Init, ActiveTunnels, AdmittedSubs, Admitted, Exists, NoRow, Idle
    <3>2. Cardinality({}) = 0 /\ Cardinality(Conns) \in Nat /\ ActiveLimit[u] \in Nat
      BY FS_EmptySet, FS_CardinalityType, SessionsAssumption
    <3> QED BY <2>2, <3>1, <3>2 DEF PlanInv
  <2> QED BY <2>1, <2>2
<1>2. IInv /\ [Next]_vars => IInv'
  <2> SUFFICES ASSUME IInv, [Next]_vars PROVE IInv'
    OBVIOUS
  <2>1. TypeOK' /\ SeenIsPermitted'
    BY TypeStep, SeenIsPermittedStep
  <2>2. ASSUME NEW u \in Users, ActiveLimit[u] # 0 PROVE PlanInv(u)'
    BY <2>2, PlanStep
  <2> QED BY <2>1, <2>2
<1>3. IInv => OvershootBounded
  BY DEF OvershootBounded, PlanInv, AdmittedSubs
<1> QED BY <1>1, <1>2, <1>3, PTL DEF Spec

-----------------------------------------------------------------------------
(* Stale rows.                                                             *)

(* A handler that will attach to s or mark it.                             *)
Attending(c, s) == conn[c].pc \in {"upserted", "serving", "detaching"} /\ conn[c].sub = s

(* A step that keeps everyone who attends to s, and does not make the row  *)
(* of s ACTIVE, leaves s as stale as it was.                               *)
LEMMA NotStaler ==
  ASSUME NEW s \in Subdomains, StaleActive(s)',
         \A c \in Conns : Attending(c, s) => Attending(c, s)',
         \/ rows'[s] = rows[s]
         \/ ~ (rows'[s].id # NoId /\ rows'[s].status = "ACTIVE")
  PROVE  StaleActive(s)
  BY DEF StaleActive, Attending, Exists

(* The row of whoever attends to it is not stale.                          *)
LEMMA AttendedNotStale ==
  ASSUME NEW s \in Subdomains, NEW c \in Conns, Attending(c, s)'
  PROVE  ~ StaleActive(s)'
  BY DEF StaleActive, Attending

LEMMA StaleCases ==
  ASSUME TypeOK, [Next]_vars, NEW s \in Subdomains, ~ StaleActive(s), StaleActive(s)'
  PROVE  Restart \/ \E c \in Conns : AckFails(c) \/ DetachMarkLost(c)
<1> DEFINE Source == Restart \/ \E c \in Conns : AckFails(c) \/ DetachMarkLost(c)
<1>1. ASSUME NEW c \in Conns, CreateRow(c) \/ UpdateRow(c) PROVE Source
  <2>1. /\ conn[c].pc = "found" /\ conn[c].sub \in Subdomains
        /\ conn'[c].pc = "upserted" /\ conn'[c].sub = conn[c].sub
        /\ \A d \in Conns \ {c} : conn'[d] = conn[d]
    BY <1>1, Moved DEF CreateRow, UpdateRow, At, TypeOK, ConnPc
  <2>2. Attending(c, conn[c].sub)'
    BY <2>1 DEF Attending
  <2>3. s # conn[c].sub
    BY <2>1, <2>2, AttendedNotStale
  <2>4. rows'[s] = rows[s]
    BY <1>1, <2>1, <2>3 DEF CreateRow, UpdateRow, InsertRow, TypeOK
  <2>5. \A d \in Conns : Attending(d, s) => Attending(d, s)'
    BY <2>1, <2>3 DEF Attending
  <2> QED BY <2>4, <2>5, NotStaler
<1>2. ASSUME NEW c \in Conns, AttachSession(c) \/ DetachSession(c) PROVE Source
  <2>1. conn'[c].pc \in {"serving", "detaching"} /\ conn'[c].sub = conn[c].sub
        /\ \A d \in Conns \ {c} : conn'[d] = conn[d]
    BY <1>2, Moved DEF AttachSession, DetachSession, ConnPc
  <2>2. \A d \in Conns : Attending(d, s) => Attending(d, s)'
    BY <2>1 DEF Attending
  <2>3. rows' = rows
    BY <1>2 DEF AttachSession, DetachSession
  <2> QED BY <2>2, <2>3, NotStaler
<1>3. ASSUME NEW c \in Conns, YamuxFails(c) \/ DetachMark(c) PROVE Source
  <2>1. /\ conn[c].sub \in Subdomains
        /\ \A d \in Conns \ {c} : conn'[d] = conn[d]
    BY <1>3, Ended DEF YamuxFails, DetachMark, At, TypeOK
  <2>2. \E status \in {"INACTIVE", "ERROR"} : rows' = markTunnelStatus(conn[c].sub, status)
    BY <1>3 DEF YamuxFails, DetachMark
  <2>3. s # conn[c].sub
    <3> SUFFICES ASSUME s = conn[c].sub, NEW status \in {"INACTIVE", "ERROR"},
                        rows' = markTunnelStatus(s, status)
                 PROVE  FALSE
      BY <2>2
    <3>1. rows'[s].id # NoId /\ rows'[s].status = "ACTIVE"
      BY DEF StaleActive, Exists
    <3>2. status \in Statuses /\ rows'[s].id = rows[s].id
      BY MarkedRows DEF Statuses
    <3>3. Exists(s)
      BY <3>1, <3>2 DEF Exists
    <3>4. rows'[s].status = status
      BY <3>2, <3>3, MarkedRows
    <3> QED BY <3>1, <3>4
  <2>4. rows'[s] = rows[s]
    BY <2>1, <2>2, <2>3, MarkedRows DEF Statuses
  <2>5. \A d \in Conns : Attending(d, s) => Attending(d, s)'
    BY <2>1, <2>3 DEF Attending
  <2> QED BY <2>4, <2>5, NotStaler
<1>4. ASSUME NEW c \in Conns, FindRow(c) \/ Abandon(c) PROVE Source
  <2>1. /\ rows' = rows /\ conn[c].pc \in {"admitted", "found"}
        /\ \A d \in Conns \ {c} : conn'[d] = conn[d]
    BY <1>4 DEF FindRow, Abandon, EndConn, At, TypeOK
  <2>2. \A d \in Conns : Attending(d, s) => Attending(d, s)'
    BY <2>1 DEF Attending
  <2> QED BY <2>1, <2>2, NotStaler
<1>5. ASSUME NEW c \in Conns, NEW t \in Subdomains, NEW u \in Users, Handshake(c, t, u)
      PROVE  Source
  <2>1. /\ rows' = rows /\ conn[c].pc = "idle"
        /\ \A d \in Conns \ {c} : conn'[d] = conn[d]
    BY <1>5 DEF Handshake, At, TypeOK
  <2>2. \A d \in Conns : Attending(d, s) => Attending(d, s)'
    BY <2>1 DEF Attending
  <2> QED BY <2>1, <2>2, NotStaler
<1>6. CASE conn' = conn /\ rows' = rows
  BY <1>6, NotStaler DEF Attending
<1>7. ASSUME NEW a \in ApiCalls, ReserveInsert(a) PROVE Source
  <2>1. conn' = conn /\ api[a].sub \in Subdomains /\ api[a].user \in Users \cup {NoUser}
    BY <1>7 DEF ReserveInsert, ApiAt, TypeOK
  <2>2. CASE InsertRow(api[a].sub, api[a].user, "INACTIVE")
    <3>1. rows'[s] = rows[s] \/ rows'[s].status = "INACTIVE"
      BY <2>1, <2>2, InsertedRow DEF Statuses
    <3> QED BY <2>1, <3>1, NotStaler DEF Attending
  <2> QED BY <1>6, <1>7, <2>1, <2>2 DEF ReserveInsert
<1>8. ASSUME NEW a \in ApiCalls, DeleteRow(a) PROVE Source
  <2>1. conn' = conn /\ (rows'[s] = rows[s] \/ rows'[s] = NoRow)
    BY <1>8 DEF DeleteRow, TypeOK
  <2> QED BY <2>1, NotStaler DEF Attending, NoRow
<1>9. CASE SweepMark
  <2>1. conn' = conn /\ sweep.sub \in Subdomains
    BY <1>9 DEF SweepMark, SweepAt, TypeOK
  <2>2. CASE rows' = markTunnelStatus(sweep.sub, "INACTIVE")
    <3>1. CASE s = sweep.sub
      <4>1. rows'[s].id # NoId => rows'[s].status = "INACTIVE"
        BY <2>2, <3>1, MarkedRows DEF Statuses, Exists
      <4> QED BY <2>1, <4>1, NotStaler DEF Attending
    <3>2. CASE s # sweep.sub
      <4>1. rows'[s] = rows[s]
        BY <2>1, <2>2, <3>2, MarkedRows DEF Statuses
      <4> QED BY <2>1, <4>1, NotStaler DEF Attending
    <3> QED BY <3>1, <3>2
  <2> QED BY <1>6, <1>9, <2>1, <2>2 DEF SweepMark
<1>10. ASSUME NEW c \in Conns, AgentGone(c) PROVE conn' = conn /\ rows' = rows
  BY <1>10 DEF AgentGone
<1>11. ASSUME NEW a \in ApiCalls, DeleteUnmap(a) \/ ApiFails(a) PROVE conn' = conn /\ rows' = rows
  BY <1>11 DEF DeleteUnmap, ApiFails
<1>12. ASSUME NEW a \in ApiCalls, NEW t \in Subdomains, NEW w \in Callers,
              ReserveStart(a, t, w) \/ DeleteStart(a, t, w)
       PROVE  conn' = conn /\ rows' = rows
  BY <1>12 DEF ReserveStart, DeleteStart
<1>13. ASSUME \/ RevokeSessions \/ StopListening \/ CloseService \/ SweepEnd
              \/ UNCHANGED vars \/ \E t \in Subdomains : SweepClose(t)
       PROVE  conn' = conn /\ rows' = rows
  BY <1>13 DEF RevokeSessions, StopListening, CloseService, SweepEnd, SweepClose, vars
<1> QED
  BY <1>1, <1>2, <1>3, <1>4, <1>5, <1>6, <1>7, <1>8, <1>9, <1>10, <1>11, <1>12, <1>13
  DEF Next, Handler, ApiCall, SweepStep

(* A row is left ACTIVE with nobody to correct it only by a failed         *)
(* acknowledgement, a lost status UPDATE or the end of the process, never  *)
(* by an order of reconnects, deletions and revokes.                       *)
THEOREM StaleOnlyBySources == Spec => StaleActiveSources
<1>1. TypeOK /\ [Next]_vars =>
        [(\E s \in Subdomains : ~ StaleActive(s) /\ StaleActive(s)')
          => Restart \/ \E c \in Conns : AckFails(c) \/ DetachMarkLost(c)]_vars
  BY StaleCases
<1> QED BY <1>1, TypeCorrect, PTL DEF Spec, StaleActiveSources
=============================================================================

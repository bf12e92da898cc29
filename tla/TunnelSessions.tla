--------------------------- MODULE TunnelSessions ---------------------------
(***************************************************************************)
(* The tunnel sessions of the control plane                                *)
(* (internal/controlplane/service.go).                                     *)
(*                                                                         *)
(* Three kinds of goroutine share the table tunnel_records (rows, durable) *)
(* and the map Service.sessions (volatile, under Service.mu):              *)
(*                                                                         *)
(*   - one HandleTunnelConnection per agent connection (conn);             *)
(*   - the API calls that reserve and delete tunnels (api);                *)
(*   - closeAllSessions, run by the revoke endpoint and by Close (sweep),  *)
(*     which holds Service.mu while it writes to the database.             *)
(*                                                                         *)
(* Every database statement is a step of its own: the code uses no         *)
(* transaction, so any other goroutine may run between two statements.     *)
(* What happens under Service.mu is one step, except in closeAllSessions,  *)
(* where MuFree says whether the lock can be taken.                        *)
(*                                                                         *)
(* A connection or API call that ends returns to "idle", and its slot then *)
(* stands for a later one.  A failing statement takes the code's error     *)
(* path: it ends the handler, or its error is discarded (the *Lost steps). *)
(***************************************************************************)
EXTENDS Naturals, FiniteSets

CONSTANTS
  Subdomains,    \* subdomains agents and API callers ask for
  NoSub,         \* the subdomain of an idle slot
  Users,         \* accounts a token can authenticate
  NoUser,        \* the empty owner_user_id; as a caller: trusted local access
  Conns,         \* slots for simultaneous agent connections
  NoConn,        \* "no session" in the map
  ApiCalls,      \* slots for simultaneous API calls
  Callers,       \* who calls the API: accounts, and NoUser for local clients
  RowIds,        \* primary keys (UUIDs) of tunnel rows
  NoId,          \* "no row"
  ActiveLimit,   \* ActiveLimit[u] : MaxActiveTunnels of u's plan, 0 = no limit
  ReserveLimit,  \* ReserveLimit[w] : MaxReservedTunnels of caller w, 0 = no limit
  AuthEnabled    \* whether accounts exist (authProvider.Enabled())

ASSUME SessionsAssumption ==
  /\ NoSub \notin Subdomains
  /\ NoUser \notin Users
  /\ NoConn \notin Conns
  /\ NoId \notin RowIds
  /\ Callers \subseteq Users \cup {NoUser}
  /\ ActiveLimit \in [Users -> Nat]
  /\ ReserveLimit \in [Users \cup {NoUser} -> Nat]
  /\ AuthEnabled \in BOOLEAN
  /\ IsFiniteSet(Subdomains)
  /\ IsFiniteSet(Conns)

VARIABLES
  rows,      \* tunnel_records, by its unique column subdomain
  sessions,  \* Service.sessions
  link,      \* the yamux session each connection created
  conn,      \* HandleTunnelConnection: position and locals
  api,       \* createTunnel and deleteTunnel: position and locals
  sweep,     \* closeAllSessions: position and the subdomain it is at
  phase      \* "up", "stopping" (listeners closed), "closing" (Service.Close)

vars == <<rows, sessions, link, conn, api, sweep, phase>>

Statuses == {"ACTIVE", "INACTIVE", "ERROR"}
Row == [id : RowIds \cup {NoId}, owner : Users \cup {NoUser}, status : Statuses]
NoRow == [id |-> NoId, owner |-> NoUser, status |-> "INACTIVE"]

(* "upserted":  tunnel row written, session not attached yet.              *)
(* "serving":   attached, waiting for the yamux session to close.          *)
(* "detaching": map entry deleted, status not marked yet.                  *)
ConnPc == {"idle", "admitted", "found", "upserted", "serving", "detaching"}
(* "unmapped":  the session is closed, the row not deleted yet.            *)
ApiPc == {"idle", "reserving", "deleting", "unmapped"}

(* An idle slot; user of an API call is its caller.                        *)
Idle == [pc |-> "idle", sub |-> NoSub, user |-> NoUser, row |-> NoRow]

Exists(s) == rows[s].id # NoId

(* WHERE owner_user_id = u AND status = 'ACTIVE'.                          *)
ActiveTunnels(u) ==
  {s \in Subdomains : Exists(s) /\ rows[s].owner = u /\ rows[s].status = "ACTIVE"}

(* The rows enforceTunnelReservationQuota counts for caller w: only those  *)
(* of the account when accounts exist, every row otherwise.                *)
ReservedTunnels(w) ==
  {s \in Subdomains : Exists(s) /\ (w # NoUser /\ AuthEnabled => rows[s].owner = w)}

(* UPDATE tunnel_records SET status WHERE subdomain = s.                   *)
markTunnelStatus(s, status) ==
  IF Exists(s) THEN [rows EXCEPT ![s].status = status] ELSE rows

(* fallbackString(record.OwnerUserID, identity.UserID).                    *)
OwnerOr(owner, u) == IF owner = NoUser THEN u ELSE owner

(* May caller u use or delete a row of this owner?                         *)
Permitted(owner, u) == AuthEnabled => owner \in {NoUser, u}

(* uuid.NewString: an id nothing refers to.  Ids are only compared, so one *)
(* that nothing refers to any more stands for a new one.                   *)
FreshIds ==
  RowIds \ ({rows[s].id : s \in Subdomains} \cup {conn[c].row.id : c \in Conns}
              \cup {api[a].row.id : a \in ApiCalls})

(* INSERT of a row with a fresh id; the unique index on subdomain holds.   *)
InsertRow(s, owner, status) ==
  /\ ~ Exists(s)
  /\ \E i \in FreshIds :
       rows' = [rows EXCEPT ![s] = [id |-> i, owner |-> owner, status |-> status]]

(* closeAllSessions holds Service.mu from its first step to its last.      *)
MuFree == sweep.pc = "idle"

Init ==
  /\ rows = [s \in Subdomains |-> NoRow]
  /\ sessions = [s \in Subdomains |-> NoConn]
  /\ link = [c \in Conns |-> "none"]
  /\ conn = [c \in Conns |-> Idle]
  /\ api = [a \in ApiCalls |-> Idle]
  /\ sweep = [pc |-> "idle", sub |-> NoSub]
  /\ phase = "up"

-----------------------------------------------------------------------------
(* HandleTunnelConnection.                                                 *)

At(c, pc) == conn[c].pc = pc
GoTo(c, pc) == conn' = [conn EXCEPT ![c].pc = pc, ![c].row = NoRow]
EndConn(c) == conn' = [conn EXCEPT ![c] = Idle]

(* Variant, not part of the model: off by one: the limit is tested with >  *)
(* instead of >=.                                                          *)
ActiveQuotaAdmitsOneMore(u, s) ==
  \/ ActiveLimit[u] = 0
  \/ Cardinality(ActiveTunnels(u) \ {s}) <= ActiveLimit[u]

(* enforceActiveTunnelQuota: does u's plan admit one more active tunnel    *)
(* besides s?                                                              *)
ActiveQuotaAdmits(u, s) ==
  \/ ActiveLimit[u] = 0
  \/ Cardinality(ActiveTunnels(u) \ {s}) < ActiveLimit[u]

(* An agent connects, sends a well-formed handshake whose token            *)
(* authenticates u, and passes the quota check.  A handshake refused       *)
(* before this point changes nothing.                                      *)
Handshake(c, s, u) ==
  /\ phase = "up"
  /\ At(c, "idle")
  /\ ActiveQuotaAdmits(u, s)
  /\ conn' = [conn EXCEPT ![c] = [pc |-> "admitted", sub |-> s, user |-> u, row |-> NoRow]]
  /\ UNCHANGED <<rows, sessions, link, api, sweep, phase>>

(* Variant, not part of the model: the row is marked ACTIVE as soon as it  *)
(* is found.                                                               *)
FindRowActivating(c) ==
  /\ At(c, "admitted")
  /\ Permitted(rows[conn[c].sub].owner, conn[c].user)
  /\ conn' = [conn EXCEPT ![c].pc = "found", ![c].row = rows[conn[c].sub]]
  /\ rows' = markTunnelStatus(conn[c].sub, "ACTIVE")
  /\ UNCHANGED <<sessions, link, api, sweep, phase>>

(* upsertTunnelOnConnect reads the row, or finds none; the owner check is  *)
(* made on what was read.                                                  *)
FindRow(c) ==
  /\ At(c, "admitted")
  /\ Permitted(rows[conn[c].sub].owner, conn[c].user)
  /\ conn' = [conn EXCEPT ![c].pc = "found", ![c].row = rows[conn[c].sub]]
  /\ UNCHANGED <<rows, sessions, link, api, sweep, phase>>

(* No row was found: one is created, unless somebody else created one in   *)
(* the meantime (the unique index then refuses, see Abandon).              *)
CreateRow(c) ==
  /\ At(c, "found") /\ conn[c].row.id = NoId
  /\ InsertRow(conn[c].sub, conn[c].user, "ACTIVE")
  /\ GoTo(c, "upserted")
  /\ UNCHANGED <<sessions, link, api, sweep, phase>>

(* Variant, not part of the model: the update matches the row by subdomain *)
(* instead of by primary key.                                              *)
UpdateRowBySubdomain(c) ==
  LET s == conn[c].sub
      seen == conn[c].row
  IN /\ At(c, "found") /\ seen.id # NoId
     /\ rows' = IF ~ Exists(s) THEN rows
                ELSE [rows EXCEPT ![s].owner = OwnerOr(seen.owner, conn[c].user),
                                  ![s].status = "ACTIVE"]
     /\ GoTo(c, "upserted")
     /\ UNCHANGED <<sessions, link, api, sweep, phase>>

(* A row was found: it is updated by primary key, with the owner that was  *)
(* read.  If it has been deleted since, no row matches and no error is     *)
(* reported.                                                               *)
UpdateRow(c) ==
  LET s == conn[c].sub
      seen == conn[c].row
  IN /\ At(c, "found") /\ seen.id # NoId
     /\ rows' = IF rows[s].id # seen.id THEN rows
                ELSE [rows EXCEPT ![s].owner = OwnerOr(seen.owner, conn[c].user),
                                  ![s].status = "ACTIVE"]
     /\ GoTo(c, "upserted")
     /\ UNCHANGED <<sessions, link, api, sweep, phase>>

(* The handshake is refused: a statement failed, the row belongs to        *)
(* another account, or the unique index refused the insert.                *)
Abandon(c) ==
  /\ At(c, "admitted") \/ At(c, "found")
  /\ EndConn(c)
  /\ UNCHANGED <<rows, sessions, link, api, sweep, phase>>

(* The acknowledgement cannot be written: the handler returns and leaves   *)
(* the row as it is.                                                       *)
AckFails(c) ==
  /\ At(c, "upserted")
  /\ EndConn(c)
  /\ UNCHANGED <<rows, sessions, link, api, sweep, phase>>

(* yamux.Server fails: the row is marked ERROR (if that UPDATE fails too,  *)
(* the effect is the one of AckFails).                                     *)
YamuxFails(c) ==
  /\ At(c, "upserted")
  /\ rows' = markTunnelStatus(conn[c].sub, "ERROR")
  /\ EndConn(c)
  /\ UNCHANGED <<sessions, link, api, sweep, phase>>

(* Variant, not part of the model: the session attachSession replaces      *)
(* stays open.                                                             *)
CloseMappedNot(s) == link

(* The session that sessions[s] names, closed; the other sessions as they  *)
(* are.                                                                    *)
CloseMapped(s) ==
  IF sessions[s] = NoConn THEN link ELSE [link EXCEPT ![sessions[s]] = "closed"]

(* The acknowledgement is written, the yamux session created, and          *)
(* attachSession closes the session it replaces.                           *)
AttachSession(c) ==
  LET s == conn[c].sub
  IN /\ At(c, "upserted") /\ MuFree
     /\ link' = [CloseMapped(s) EXCEPT ![c] = "open"]
     /\ sessions' = [sessions EXCEPT ![s] = c]
     /\ GoTo(c, "serving")
     /\ UNCHANGED <<rows, api, sweep, phase>>

(* The agent disconnects, or its keepalive times out.                      *)
AgentGone(c) ==
  /\ link[c] = "open"
  /\ link' = [link EXCEPT ![c] = "closed"]
  /\ UNCHANGED <<rows, sessions, conn, api, sweep, phase>>

(* Variant, not part of the model: the map entry is left to whoever comes  *)
(* next.                                                                   *)
DetachSessionKeepingEntry(c) ==
  /\ At(c, "serving") /\ link[c] = "closed" /\ MuFree
  /\ GoTo(c, "detaching")
  /\ UNCHANGED <<rows, sessions, link, api, sweep, phase>>

(* Variant, not part of the model: only a handler that still finds its own *)
(* session in the map goes on.                                             *)
DetachSessionIfMapped(c) ==
  /\ At(c, "serving") /\ link[c] = "closed" /\ MuFree
  /\ sessions[conn[c].sub] = c
  /\ sessions' = [sessions EXCEPT ![conn[c].sub] = NoConn]
  /\ GoTo(c, "detaching")
  /\ UNCHANGED <<rows, link, api, sweep, phase>>

(* detachSession, first half: whatever session the map holds for the       *)
(* subdomain is removed, also a newer one.                                 *)
DetachSession(c) ==
  /\ At(c, "serving") /\ link[c] = "closed" /\ MuFree
  /\ sessions' = [sessions EXCEPT ![conn[c].sub] = NoConn]
  /\ GoTo(c, "detaching")
  /\ UNCHANGED <<rows, link, api, sweep, phase>>

(* detachSession, second half, and the end of the handler.                 *)
DetachMark(c) ==
  /\ At(c, "detaching")
  /\ rows' = markTunnelStatus(conn[c].sub, "INACTIVE")
  /\ link' = [link EXCEPT ![c] = "none"]
  /\ EndConn(c)
  /\ UNCHANGED <<sessions, api, sweep, phase>>

(* The same with the UPDATE failing: its error is discarded.               *)
DetachMarkLost(c) ==
  /\ At(c, "detaching")
  /\ link' = [link EXCEPT ![c] = "none"]
  /\ EndConn(c)
  /\ UNCHANGED <<rows, sessions, api, sweep, phase>>

Handler(c) ==
  \/ FindRow(c) \/ CreateRow(c) \/ UpdateRow(c) \/ Abandon(c)
  \/ AckFails(c) \/ YamuxFails(c) \/ AttachSession(c)
  \/ DetachSession(c) \/ DetachMark(c) \/ DetachMarkLost(c)

-----------------------------------------------------------------------------
(* The API: createTunnel and deleteTunnel.                                 *)

ApiAt(a, pc) == api[a].pc = pc
ApiDone(a) == api' = [api EXCEPT ![a] = Idle]
ApiStart(a, pc, s, w, row) ==
  /\ phase = "up"
  /\ ApiAt(a, "idle")
  /\ api' = [api EXCEPT ![a] = [pc |-> pc, sub |-> s, user |-> w, row |-> row]]

(* createTunnel: enforceTunnelReservationQuota admits one more row.        *)
ReserveStart(a, s, w) ==
  /\ \/ ReserveLimit[w] = 0
     \/ Cardinality(ReservedTunnels(w)) < ReserveLimit[w]
  /\ ApiStart(a, "reserving", s, w, NoRow)
  /\ UNCHANGED <<rows, sessions, link, conn, sweep, phase>>

(* createTunnel inserts the row, or is refused by the unique index.        *)
ReserveInsert(a) ==
  LET s == api[a].sub
  IN /\ ApiAt(a, "reserving")
     /\ \/ InsertRow(s, api[a].user, "INACTIVE")
        \/ /\ Exists(s)
           /\ UNCHANGED rows
     /\ ApiDone(a)
     /\ UNCHANGED <<sessions, link, conn, sweep, phase>>

(* deleteTunnel reads the row by its id and checks the owner.  A call      *)
(* without identity (trusted local) may delete any row.                    *)
DeleteStart(a, s, w) ==
  /\ Exists(s)
  /\ w # NoUser => Permitted(rows[s].owner, w)
  /\ ApiStart(a, "deleting", s, w, rows[s])
  /\ UNCHANGED <<rows, sessions, link, conn, sweep, phase>>

(* deleteTunnel closes and removes the session of the row's subdomain.     *)
DeleteUnmap(a) ==
  LET s == api[a].sub
  IN /\ ApiAt(a, "deleting") /\ MuFree
     /\ link' = CloseMapped(s)
     /\ sessions' = [sessions EXCEPT ![s] = NoConn]
     /\ api' = [api EXCEPT ![a].pc = "unmapped"]
     /\ UNCHANGED <<rows, conn, sweep, phase>>

(* deleteTunnel deletes the row by its primary key.                        *)
DeleteRow(a) ==
  LET s == api[a].sub
  IN /\ ApiAt(a, "unmapped")
     /\ rows' = IF rows[s].id = api[a].row.id THEN [rows EXCEPT ![s] = NoRow] ELSE rows
     /\ ApiDone(a)
     /\ UNCHANGED <<sessions, link, conn, sweep, phase>>

(* A statement of the call fails: after DeleteUnmap the session is gone    *)
(* and the row stays.                                                      *)
ApiFails(a) ==
  /\ ~ ApiAt(a, "idle")
  /\ ApiDone(a)
  /\ UNCHANGED <<rows, sessions, link, conn, sweep, phase>>

ApiCall(a) ==
  ReserveInsert(a) \/ DeleteUnmap(a) \/ DeleteRow(a) \/ ApiFails(a)

-----------------------------------------------------------------------------
(* closeAllSessions, and the end of the process.                           *)

SweepAt(pc) == sweep.pc = pc
(* Variant, not part of the model: the loop forgets which row it has to    *)
(* mark.                                                                   *)
SweepGoToNowhere(pc, s) == sweep' = [pc |-> pc, sub |-> NoSub]
SweepGoTo(pc, s) == sweep' = [pc |-> pc, sub |-> s]

(* handleRevokeSessions, only for instances without accounts.              *)
RevokeSessions ==
  /\ ~ AuthEnabled /\ phase = "up" /\ MuFree
  /\ SweepGoTo("closing", NoSub)
  /\ UNCHANGED <<rows, sessions, link, conn, api, phase>>

(* shutdownRuntime closes the listeners ...                                *)
StopListening ==
  /\ phase = "up"
  /\ phase' = "stopping"
  /\ UNCHANGED <<rows, sessions, link, conn, api, sweep>>

(* ... and then calls Service.Close, which starts with closeAllSessions.   *)
CloseService ==
  /\ phase = "stopping" /\ MuFree
  /\ phase' = "closing"
  /\ SweepGoTo("closing", NoSub)
  /\ UNCHANGED <<rows, sessions, link, conn, api>>

(* One turn of the loop: close the session and remove its entry ...        *)
SweepClose(s) ==
  /\ SweepAt("closing") /\ sessions[s] # NoConn
  /\ link' = CloseMapped(s)
  /\ sessions' = [sessions EXCEPT ![s] = NoConn]
  /\ SweepGoTo("marking", s)
  /\ UNCHANGED <<rows, conn, api, phase>>

(* ... then mark the row; the error of the UPDATE is discarded.            *)
SweepMark ==
  /\ SweepAt("marking")
  /\ rows' \in {markTunnelStatus(sweep.sub, "INACTIVE"), rows}
  /\ SweepGoTo("closing", NoSub)
  /\ UNCHANGED <<sessions, link, conn, api, phase>>

SweepEnd ==
  /\ SweepAt("closing") /\ \A s \in Subdomains : sessions[s] = NoConn
  /\ SweepGoTo("idle", NoSub)
  /\ UNCHANGED <<rows, sessions, link, conn, api, phase>>

SweepStep == (\E s \in Subdomains : SweepClose(s)) \/ SweepMark \/ SweepEnd

(* The process ends (crash, or exit after shutdown) and starts again.      *)
(* NewService opens the database and leaves tunnel_records as it is.       *)
Restart ==
  /\ sessions' = [s \in Subdomains |-> NoConn]
  /\ link' = [c \in Conns |-> "none"]
  /\ conn' = [c \in Conns |-> Idle]
  /\ api' = [a \in ApiCalls |-> Idle]
  /\ sweep' = [pc |-> "idle", sub |-> NoSub]
  /\ phase' = "up"
  /\ UNCHANGED rows

Next ==
  \/ \E c \in Conns : Handler(c) \/ AgentGone(c)
  \/ \E c \in Conns, s \in Subdomains, u \in Users : Handshake(c, s, u)
  \/ \E a \in ApiCalls : ApiCall(a)
  \/ \E a \in ApiCalls, s \in Subdomains, w \in Callers :
       ReserveStart(a, s, w) \/ DeleteStart(a, s, w)
  \/ RevokeSessions \/ StopListening \/ CloseService \/ SweepStep \/ Restart

Spec == Init /\ [][Next]_vars

(***************************************************************************)
(* The scheduler runs every goroutine that can run; a statement that is    *)
(* retried does not fail for ever.  Service.mu is a sync.RWMutex, which    *)
(* hands the lock to a waiting writer before later ones, so the steps that *)
(* need it are strongly fair: revokes may follow one another without end.  *)
(* Agents, callers and the end of the process are under no obligation.     *)
(***************************************************************************)
Fairness ==
  /\ \A c \in Conns :
       /\ WF_vars(FindRow(c) \/ CreateRow(c) \/ UpdateRow(c) \/ Abandon(c))
       /\ SF_vars(AttachSession(c) \/ AckFails(c) \/ YamuxFails(c))
       /\ SF_vars(DetachSession(c))
       /\ WF_vars(DetachMark(c) \/ DetachMarkLost(c))
  /\ \A a \in ApiCalls : WF_vars(ReserveInsert(a) \/ DeleteRow(a) \/ ApiFails(a))
  /\ \A a \in ApiCalls : SF_vars(DeleteUnmap(a))
  /\ WF_vars(SweepStep)

FairSpec == Spec /\ Fairness

-----------------------------------------------------------------------------
(* Properties.                                                             *)

TypeOK ==
  /\ rows \in [Subdomains -> Row]
  /\ sessions \in [Subdomains -> Conns \cup {NoConn}]
  /\ link \in [Conns -> {"none", "open", "closed"}]
  /\ conn \in [Conns -> [pc : ConnPc, sub : Subdomains \cup {NoSub},
                         user : Users \cup {NoUser}, row : Row]]
  /\ api \in [ApiCalls -> [pc : ApiPc, sub : Subdomains \cup {NoSub},
                           user : Users \cup {NoUser}, row : Row]]
  /\ sweep \in [pc : {"idle", "closing", "marking"}, sub : Subdomains \cup {NoSub}]
  /\ phase \in {"up", "stopping", "closing"}
  /\ \A c \in Conns : conn[c].pc # "idle" => conn[c].sub \in Subdomains /\ conn[c].user \in Users
  /\ \A a \in ApiCalls : api[a].pc # "idle" => api[a].sub \in Subdomains
  /\ sweep.pc = "marking" => sweep.sub \in Subdomains

(* The map never holds a session nobody will remove: the handler of a      *)
(* mapped session is still waiting for it, under the subdomain it asked    *)
(* for, so its own detachSession is yet to come.                           *)
MappedIsServed ==
  \A s \in Subdomains :
    sessions[s] # NoConn =>
      /\ conn[sessions[s]].pc = "serving"
      /\ conn[sessions[s]].sub = s
      /\ link[sessions[s]] # "none"

(* The handshakes of u between the quota check and the row's write.        *)
Admitted(u) ==
  {c \in Conns : conn[c].pc \in {"admitted", "found"} /\ conn[c].user = u}

(* The quota check and the write it guards are two steps, so concurrent    *)
(* handshakes can exceed the plan, but never by more than the handshakes   *)
(* that can be in flight at once less one.                                 *)
OvershootBounded ==
  \A u \in Users :
    ActiveLimit[u] # 0 =>
      Cardinality(ActiveTunnels(u) \cup {conn[c].sub : c \in Admitted(u)})
        <= ActiveLimit[u] + Cardinality(Conns) - 1

(* The plan limit itself, as the refusal message states it: "up to %d      *)
(* active tunnels are allowed".                                            *)
ActiveWithinPlan ==
  \A u \in Users :
    ActiveLimit[u] # 0 => Cardinality(ActiveTunnels(u)) <= ActiveLimit[u]

(* A row that has an owner keeps it, whatever handshakes are in flight:    *)
(* the owner an UPDATE writes is the one the row had when it was read.     *)
(* This needs every reservation to name an account.  Rows reserved by a    *)
(* local client have no owner, and two accounts that read such a row       *)
(* before either has written can both claim it.                            *)
OwnerKept ==
  [][\A s \in Subdomains :
       (Exists(s) /\ rows'[s].id = rows[s].id /\ rows[s].owner # NoUser)
       => rows'[s].owner = rows[s].owner]_vars

(* A row that says ACTIVE although no handler is on its way to attach or   *)
(* to detach, so nothing will ever correct it.                             *)
StaleActive(s) ==
  /\ Exists(s) /\ rows[s].status = "ACTIVE"
  /\ \A c \in Conns : conn[c].pc \in {"upserted", "serving", "detaching"} => conn[c].sub # s

(* Stale rows have exactly three sources: a handler that fails to          *)
(* acknowledge, a status UPDATE that fails, and the end of the process.    *)
(* In particular no order of reconnects, deletions and revokes makes one.  *)
StaleActiveSources ==
  [][(\E s \in Subdomains : ~ StaleActive(s) /\ StaleActive(s)')
       => Restart \/ \E c \in Conns : AckFails(c) \/ DetachMarkLost(c)]_vars

(* The map implements the routing table TunnelRouting promises.            *)
Routing == INSTANCE TunnelRouting WITH route <- sessions, link <- link
ImplementsRouting == Routing!Spec

(* "The public proxy routes incoming requests to active tunnels": an agent *)
(* whose session is open is the one its subdomain leads to.                *)
LiveAgentRouted ==
  \A c \in Conns :
    conn[c].pc = "serving" /\ link[c] = "open" => sessions[conn[c].sub] = c

(* With accounts, a subdomain leads only to an agent of the row's owner.   *)
RoutedToOwner ==
  AuthEnabled =>
    \A s \in Subdomains :
      (sessions[s] # NoConn /\ Exists(s) /\ rows[s].owner # NoUser)
      => conn[sessions[s]].user = rows[s].owner

(* A handler whose session has closed ends.                                *)
ClosedHandlerEnds ==
  \A c \in Conns : (conn[c].pc = "serving" /\ link[c] = "closed") ~> conn[c].pc = "idle"
=============================================================================

----------------------------- MODULE TunnelConsole -----------------------------
(***************************************************************************)
(* The tunnels of an account as its browser sees them: the dashboard's     *)
(* overview and its pages tunnel and tunnels, the proxy route              *)
(* web/app/api/controlplane and the plan that PricingPlanProvider detects. *)
(*                                                                         *)
(* All read the same SWR cache entry, which is polled while one of them is *)
(* open.  SWR is external; of it the model keeps that an entry has at most *)
(* one request whose answer counts (a page that opens, and the poll, join  *)
(* the one in the air; mutate() makes SWR forget it), that data survives   *)
(* an error and a change of page, and that a first load shows as isLoading.*)
(***************************************************************************)
EXTENDS Naturals, FiniteSets

CONSTANTS
  ConsoleCalls,  \* slots for simultaneous creates and deletes of the browser
  MaxReserved    \* bound: tunnels ever reserved

ASSUME ConsoleAssumption == MaxReserved \in Nat

VARIABLES
  rows,    \* the control plane's tunnel records (module TunnelSessions), by status
  plan,    \* PricingPlanProvider: the plan it has detected, and whether it is still asking
  screen,  \* the page that is open, and its hooks
  swr,     \* the cache entry of /api/v1/tunnels
  pending, \* the browser's creates and deletes in flight
  told     \* what the browser knows to have happened: tunnels created and deleted

consoleVars == <<rows, plan, screen, swr, pending, told>>

TunnelIds == 1 .. MaxReserved
Statuses == {"none", "INACTIVE", "ACTIVE", "deleted"}
Lists == [TunnelIds -> Statuses]
NoTunnels == [t \in TunnelIds |-> "none"]
Present(list) == {t \in TunnelIds : list[t] \in {"INACTIVE", "ACTIVE"}}

ConsolePages == {"overview", "tunnel", "tunnels"}
NoConsolePage == [at |-> "none", error |-> FALSE]
Idle == [at |-> "idle", ok |-> FALSE, body |-> NoTunnels]
\* A call: what it is for, how far it is, and whether the page that made it is still open.
NoConsoleCall == [kind |-> "none", tunnel |-> 0, at |-> "sent", ok |-> FALSE, live |-> FALSE]

ConsoleInit ==
  /\ rows = NoTunnels
  /\ plan = [detected |-> "FREE", asking |-> TRUE]
  /\ screen = NoConsolePage
  /\ swr = [list |-> NoTunnels, loaded |-> FALSE, error |-> FALSE, request |-> Idle]
  /\ pending = [c \in ConsoleCalls |-> NoConsoleCall]
  /\ told = [created |-> {}, deleted |-> {}]

(***************************************************************************)
(* The control plane, as far as these pages tell it apart: agents that     *)
(* connect (reserving a tunnel if need be) and leave, and other clients.   *)
(***************************************************************************)
Fresh(t) == rows[t] = "none" /\ \A u \in 1 .. (t - 1) : rows[u] # "none"

AgentConnects ==
  /\ \E t \in TunnelIds : (Fresh(t) \/ rows[t] = "INACTIVE") /\ rows' = [rows EXCEPT ![t] = "ACTIVE"]
  /\ UNCHANGED <<plan, screen, swr, pending, told>>

AgentLeaves ==
  /\ \E t \in TunnelIds : rows[t] = "ACTIVE" /\ rows' = [rows EXCEPT ![t] = "INACTIVE"]
  /\ UNCHANGED <<plan, screen, swr, pending, told>>

DeletedElsewhere ==
  /\ \E t \in Present(rows) : rows' = [rows EXCEPT ![t] = "deleted"]
  /\ UNCHANGED <<plan, screen, swr, pending, told>>

(***************************************************************************)
(* What the pages show.                                                    *)
(***************************************************************************)
OnTunnel == screen.at = "tunnel"
isLoading == swr.request.at # "idle" /\ ~swr.loaded
tunnels == Present(swr.list)

(* Variant, not part of the model: every reserved tunnel counts as active. *)
activeOfAll == tunnels
active == {t \in tunnels : swr.list[t] = "ACTIVE"}

freeLimitReached == plan.detected = "FREE" /\ active # {}
creating == \E c \in ConsoleCalls : pending[c].kind = "create" /\ pending[c].live
CreateShown == OnTunnel /\ ~creating /\ ~freeLimitReached

\* The figures above the lists, counted from what is loaded: nothing yet counts as nothing.
Figures == [reserved |-> Cardinality(tunnels), active |-> Cardinality(active)]
Totals == [reserved |-> Figures.reserved, active |-> Figures.active,
           inactive |-> Cardinality({t \in tunnels : swr.list[t] = "INACTIVE"})]

\* The overview and the tunnel page have no word for an error: what they could not load
\* is "No tunnels yet" and "NO RESERVATIONS DETECTED".  The overview's useTunnels has a
\* notion of its own of what is still loading.
isLoadingHook == ~swr.error /\ ~swr.loaded
ReservationList == IF tunnels # {} THEN "rows" ELSE IF isLoading THEN "loading" ELSE "none"
TunnelTable == IF tunnels # {} THEN "rows" ELSE IF isLoading THEN "loading" ELSE "none"
OverviewTable == IF isLoadingHook THEN "loading" ELSE IF tunnels # {} THEN "rows" ELSE "none"
Inventory == CASE screen.at = "overview" -> OverviewTable
               [] screen.at = "tunnel" -> ReservationList
               [] OTHER -> TunnelTable
PollNote == screen.at = "tunnels" /\ ~isLoading /\ tunnels # {}
hasError == screen.at = "tunnels" /\ swr.error

\* The overview's posture card and the middle step of its operator path.
Posture == IF active # {} THEN "carrying live traffic" ELSE "waiting for agents"
OperatorPath == [exposed |-> active # {}]

StatusBadge(t) == IF swr.list[t] = "ACTIVE" THEN "Active" ELSE "Inactive"
TunnelCard(t) == [live |-> t \in active]

\* The create form: what its button reads, and the message under it.
ReserveTunnel == [label |-> IF freeLimitReached THEN "Limit Reached" ELSE "Reserve Tunnel",
                  spins |-> creating, formError |-> screen.error]

\* UpgradePrompt of the tunnel page: FREE always has a next plan.
getNextPlan(p) == CASE p = "FREE" -> "PRO" [] p = "PRO" -> "SCALE" [] OTHER -> "none"
UpgradePrompt(title) == IF getNextPlan(plan.detected) = "none" THEN "none" ELSE title
PlanLimits ==
  IF ~OnTunnel \/ plan.detected # "FREE" THEN "none"
  ELSE UpgradePrompt(IF freeLimitReached THEN "Tunnel Limit Reached" ELSE "Free Plan Limits")

\* Every page tells the same of the one list they share.
PagesAgree ==
  /\ Totals.reserved = Totals.active + Totals.inactive
  /\ \A t \in tunnels : TunnelCard(t).live <=> StatusBadge(t) = "Active"
  /\ OperatorPath.exposed <=> Totals.active > 0
  /\ OperatorPath.exposed <=> Posture = "carrying live traffic"
  /\ PlanLimits = "Tunnel Limit Reached" <=> OnTunnel /\ ReserveTunnel.label = "Limit Reached"
  /\ PollNote => Inventory = "rows"

ConsoleTypeOK ==
  /\ rows \in Lists
  /\ plan \in [detected : {"FREE", "PRO"}, asking : BOOLEAN]
  /\ screen \in [at : ConsolePages \cup {"none"}, error : BOOLEAN]
  /\ swr \in [list : Lists, loaded : BOOLEAN, error : BOOLEAN,
              request : [at : {"idle", "sent", "answered"}, ok : BOOLEAN, body : Lists]]
  /\ pending \in [ConsoleCalls ->
                 [kind : {"none", "create", "delete"}, tunnel : 0 .. MaxReserved,
                  at : {"sent", "answered", "reloading"}, ok : BOOLEAN, live : BOOLEAN]]
  /\ told \in [created : SUBSET TunnelIds, deleted : SUBSET TunnelIds]
  /\ PagesAgree

(***************************************************************************)
(* PricingPlanProvider asks once per document: a paid account is detected, *)
(* or it stays FREE (the answer failed, or was not the nested record that  *)
(* the provider looks for).                                                *)
(***************************************************************************)
DetectPlan ==
  /\ plan.asking
  /\ \E p \in {"FREE", "PRO"} : plan' = [detected |-> p, asking |-> FALSE]
  /\ UNCHANGED <<rows, screen, swr, pending, told>>

(***************************************************************************)
(* The cache entry.                                                        *)
(***************************************************************************)
Sent == [Idle EXCEPT !.at = "sent"]

OpenConsole ==
  /\ screen.at = "none"
  /\ \E p \in ConsolePages : screen' = [NoConsolePage EXCEPT !.at = p]
  /\ swr' = IF swr.request.at = "idle" THEN [swr EXCEPT !.request = Sent] ELSE swr
  /\ UNCHANGED <<rows, plan, pending, told>>

\* A page that is left forgets its hooks, and its calls go on without it.
LeaveConsole ==
  /\ screen.at # "none"
  /\ screen' = NoConsolePage
  /\ pending' = [c \in ConsoleCalls |-> [pending[c] EXCEPT !.live = FALSE]]
  /\ UNCHANGED <<rows, plan, swr, told>>

\* Every five seconds, and after an error.
Poll ==
  /\ screen.at # "none" /\ swr.request.at = "idle"
  /\ swr' = [swr EXCEPT !.request = Sent]
  /\ UNCHANGED <<rows, plan, screen, pending, told>>

\* handleListTunnels, or no answer.
ListAnswer(ok) ==
  /\ swr.request.at = "sent"
  /\ swr' = [swr EXCEPT !.request = [at |-> "answered", ok |-> ok,
                                     body |-> IF ok THEN rows ELSE NoTunnels]]
  /\ UNCHANGED <<rows, plan, screen, pending, told>>

ListApply ==
  /\ swr.request.at = "answered"
  /\ swr' = IF swr.request.ok
            THEN [list |-> swr.request.body, loaded |-> TRUE, error |-> FALSE, request |-> Idle]
            ELSE [swr EXCEPT !.error = TRUE, !.request = Idle]
  /\ UNCHANGED <<rows, plan, screen, pending, told>>

(* Variant, not part of the model: a reload that only forgets what is on its way. *)
mutateTunnelsForgets == swr' = [swr EXCEPT !.request = Idle]

\* mutateTunnels: whatever is on its way is forgotten, and an open page asks again.
mutateTunnels == swr' = [swr EXCEPT !.request = IF screen.at = "none" THEN Idle ELSE Sent]

(***************************************************************************)
(* The user: refresh, create and delete.                                   *)
(***************************************************************************)
\* The refresh buttons.
RefreshTunnels ==
  /\ screen.at \in {"tunnel", "tunnels"}
  /\ mutateTunnels
  /\ UNCHANGED <<rows, plan, screen, pending, told>>

Ask(c, kind, t) ==
  /\ pending[c].kind = "none"
  /\ pending' = [pending EXCEPT ![c] = [NoConsoleCall EXCEPT !.kind = kind, !.tunnel = t, !.live = TRUE]]
  /\ UNCHANGED <<rows, plan, swr, told>>

createTunnel(c) ==
  /\ CreateShown
  /\ Ask(c, "create", 0)
  /\ screen' = [screen EXCEPT !.error = FALSE]

\* Nothing disables the button of a tunnel that is already being deleted.
deleteTunnel(c) ==
  /\ OnTunnel
  /\ \E t \in tunnels : Ask(c, "delete", t)
  /\ UNCHANGED screen

\* handleCreateTunnel and handleDeleteTunnel.  A refusal, a failure, or an answer that was
\* lost after the row was written are one to the page.
Reply(c, ok) == pending' = [pending EXCEPT ![c].at = "answered", ![c].ok = ok]

CreateAnswer(c) ==
  /\ pending[c].kind = "create" /\ pending[c].at = "sent"
  /\ \/ \E t \in TunnelIds :
          /\ Fresh(t)
          /\ rows' = [rows EXCEPT ![t] = "INACTIVE"]
          /\ \/ pending' = [pending EXCEPT ![c].at = "answered", ![c].ok = TRUE, ![c].tunnel = t]
             \/ Reply(c, FALSE)
     \/ Reply(c, FALSE) /\ UNCHANGED rows
  /\ UNCHANGED <<plan, screen, swr, told>>

DeleteAnswer(c) ==
  /\ pending[c].kind = "delete" /\ pending[c].at = "sent"
  /\ \/ /\ rows[pending[c].tunnel] # "deleted"
        /\ rows' = [rows EXCEPT ![pending[c].tunnel] = "deleted"]
        /\ \E ok \in BOOLEAN : Reply(c, ok)
     \/ Reply(c, FALSE) /\ UNCHANGED rows
  /\ UNCHANGED <<plan, screen, swr, told>>

Tell(c) ==
  told' = IF pending[c].kind = "create" THEN [told EXCEPT !.created = @ \cup {pending[c].tunnel}]
          ELSE [told EXCEPT !.deleted = @ \cup {pending[c].tunnel}]

(* Variant, not part of the model: the change is left for the next poll to find. *)
CallSucceedsNoReload(c) ==
  /\ pending[c].at = "answered" /\ pending[c].ok
  /\ Tell(c)
  /\ pending' = [pending EXCEPT ![c].tunnel = 0, ![c].ok = FALSE, ![c].at = "reloading"]
  /\ UNCHANGED <<rows, plan, screen, swr>>
CallSucceeds(c) ==
  /\ pending[c].at = "answered" /\ pending[c].ok
  /\ Tell(c)
  /\ mutateTunnels
  /\ pending' = [pending EXCEPT ![c].tunnel = 0, ![c].ok = FALSE, ![c].at = "reloading"]
  /\ UNCHANGED <<rows, plan, screen>>

\* The call waits for its reload, which ends when the entry is idle, or when a later
\* request has taken its place; a reload that failed is not an error of the call.
CallEnds(c) ==
  /\ pending[c].at = "reloading"
  /\ pending' = [pending EXCEPT ![c] = NoConsoleCall]
  /\ UNCHANGED <<rows, plan, screen, swr, told>>

CallFails(c) ==
  /\ pending[c].at = "answered" /\ ~pending[c].ok
  /\ pending' = [pending EXCEPT ![c] = NoConsoleCall]
  /\ screen' = IF pending[c].live THEN [screen EXCEPT !.error = TRUE] ELSE screen
  /\ UNCHANGED <<rows, plan, swr, told>>

ConsoleNext ==
  \/ AgentConnects \/ AgentLeaves \/ DeletedElsewhere \/ DetectPlan
  \/ OpenConsole \/ LeaveConsole \/ Poll \/ RefreshTunnels \/ ListApply
  \/ \E ok \in BOOLEAN : ListAnswer(ok)
  \/ \E c \in ConsoleCalls :
       \/ createTunnel(c) \/ deleteTunnel(c) \/ CreateAnswer(c) \/ DeleteAnswer(c)
       \/ CallSucceeds(c) \/ CallEnds(c) \/ CallFails(c)

ConsoleSpec == ConsoleInit /\ [][ConsoleNext]_consoleVars

(***************************************************************************)
(* The timer of an open page goes off, what has come is dealt with, and a  *)
(* control plane that is asked again and again answers again and again,    *)
(* before a refresh or the reload of a call makes the browser forget the   *)
(* question.                                                               *)
(***************************************************************************)
ConsoleFairness ==
  /\ WF_consoleVars(Poll) /\ WF_consoleVars(ListApply)
  /\ SF_consoleVars(ListAnswer(TRUE))
  /\ SF_consoleVars(ListApply /\ swr.request.ok)

(***************************************************************************)
(* Properties                                                              *)
(***************************************************************************)
\* A list that arrives is never older than a change the browser was told of: no created
\* tunnel is missing from it, and no deleted one comes back, however the poll, the call
\* and its reload overtake one another.
ListsFollowChanges ==
  [][swr'.list # swr.list =>
       /\ \A t \in told.created : swr'.list[t] # "none"
       /\ \A t \in told.deleted : swr'.list[t] = "deleted"]_consoleVars

\* The form's "Limit Reached" is a judgement on a list that may be old; when the account's
\* last agent has gone for good, an open page takes it back.
StaleLimitLifts ==
  <>[](OnTunnel /\ \A t \in TunnelIds : rows[t] # "ACTIVE") => <>[](~freeLimitReached)

\* A page that says there are no tunnels has been told so, or could not ask (only the
\* tunnels page says which): no change of page and no reload that makes SWR forget a
\* question shows an account as empty before its list was asked for.
EmptyInventoryIsKnown ==
  (screen.at # "none" /\ Inventory = "none") => (swr.loaded \/ swr.error)
===============================================================================

----------------------------- MODULE FairPartsMC -----------------------------
(***************************************************************************)
(* Five components of the web application that share no state and whose    *)
(* liveness matters, side by side: part says which of them runs, the       *)
(* others stay where they started.  Their behaviours are those of          *)
(* BillingConsole, WebSignIn, Assistant, TunnelConsole and DashboardShell, *)
(* one after the other.                                                    *)
(***************************************************************************)
EXTENDS WebSignIn, BillingConsole, Assistant, TunnelConsole, DashboardShell

VARIABLE part   \* the component that runs

\* Two of the eleven pages the sidebar lists, and the one that it lists apart.
TwoLinks == <<"/dashboard", "/dashboard/ai">>

ASSUME ShellAssumption == ShellConstants

vars == <<part, signInVars, billingVars, chatVars, consoleVars, shellVars>>

\* What does not run stays as it is, so only what runs is looked at.
WebTypeOK ==
  CASE part = "sign-in"   -> SignInTypeOK
    [] part = "billing"   -> BillingTypeOK
    [] part = "assistant" -> ChatTypeOK
    [] part = "tunnels"   -> ConsoleTypeOK
    [] part = "shell"     -> ShellTypeOK

\* What does not run has one initial state.
Init ==
  /\ part \in {"sign-in", "billing", "assistant", "tunnels", "shell"}
  /\ SignInInit /\ BillingInit /\ ChatInit /\ ConsoleInit /\ ShellInit
  /\ part = "billing" \/ nested
  /\ part = "assistant" \/ (surface = "page" /\ keys = {})

Next ==
  \/ /\ part = "sign-in" /\ SignInNext
     /\ UNCHANGED <<part, billingVars, chatVars, consoleVars, shellVars>>
  \/ /\ part = "billing" /\ BillingNext
     /\ UNCHANGED <<part, signInVars, chatVars, consoleVars, shellVars>>
  \/ /\ part = "assistant" /\ ChatNext
     /\ UNCHANGED <<part, signInVars, billingVars, consoleVars, shellVars>>
  \/ /\ part = "tunnels" /\ ConsoleNext
     /\ UNCHANGED <<part, signInVars, billingVars, chatVars, shellVars>>
  \/ /\ part = "shell" /\ ShellNext
     /\ UNCHANGED <<part, signInVars, billingVars, chatVars, consoleVars>>

(***************************************************************************)
(* The fairness of the part that runs: calls are answered or fail and what *)
(* was answered is applied, a page that is open polls on, and a control    *)
(* plane that is asked again and again answers again and again; timers go  *)
(* off and the router arrives.  Users, agents, Paddle and GitHub need not  *)
(* do anything.                                                            *)
(***************************************************************************)
Spec ==
  /\ Init /\ [][Next]_vars
  /\ \A c \in BillingCalls : WF_billingVars(part = "billing" /\ BillingProgress(c))
  /\ WF_chatVars(part = "assistant" /\ ChatProgress)
  /\ WF_consoleVars(part = "tunnels" /\ Poll)
  /\ WF_consoleVars(part = "tunnels" /\ ListApply)
  /\ SF_consoleVars(part = "tunnels" /\ ListAnswer(TRUE))
  /\ SF_consoleVars(part = "tunnels" /\ ListApply /\ swr.request.ok)
  /\ WF_shellVars(part = "shell" /\ TimerFires)
  /\ WF_shellVars(part = "shell" /\ Arrives)
===============================================================================

---------------------------- MODULE BillingConsole ----------------------------
(***************************************************************************)
(* The billing page and its routes (web/app/dashboard/billing/page.tsx,    *)
(* web/app/api/billing, web/lib/billing.ts, web/lib/pricing.ts).           *)
(*                                                                         *)
(* The page keeps a copy of a subscription that lives behind the control   *)
(* plane's billing API.  Every call of the page is asynchronous: it is     *)
(* sent, answered by a route at some moment, and applied to the page       *)
(* later, in any order.  The billing API and Paddle are outside the        *)
(* repository: the routes only forward to them, and fall back to a made-up *)
(* FREE plan when they get no answer.                                      *)
(***************************************************************************)
EXTENDS Naturals

CONSTANTS
  BillingCalls,  \* slots for simultaneous calls of the billing page
  MaxVersion     \* bound: how often the subscription changes

VARIABLES
  account,   \* the subscription behind the billing API, and its version
  nested,    \* whether the API answers {subscription: {...}} or a flat record
  page,      \* BillingPage: its state hooks; "gone" when it is not mounted
  calls,     \* the page's calls in flight
  browser    \* where the document is: in the app, or at Paddle's checkout

billingVars == <<account, nested, page, calls, browser>>

Plans == {"FREE", "PRO", "SCALE"}

\* planRank and normalizeBillingPlan: what is neither PRO nor SCALE is FREE.
planRank(p) == CASE p = "SCALE" -> 3 [] p = "PRO" -> 2 [] OTHER -> 1

\* A summary of the subscription; mock marks the route's made-up answer.
Summary == [plan : Plans, cancelling : BOOLEAN, version : 0 .. MaxVersion, mock : BOOLEAN]
MOCK == [plan |-> "FREE", cancelling |-> FALSE, version |-> 0, mock |-> TRUE]

\* What the page reads in an answer of the API: it looks for a flat record, and what is
\* missing is FREE.
Flat(s) == IF nested /\ ~s.mock THEN [s EXCEPT !.plan = "FREE", !.cancelling = FALSE] ELSE s

\* GET /api/billing answers with the API's record, or, when the API is unreachable or
\* refuses, with MOCK.  It never fails itself.
BillingGet == {account, MOCK}

NoPage == [at |-> "gone", billing |-> MOCK, loading |-> FALSE, slot |-> "none",
           error |-> FALSE, actionError |-> FALSE]
Slots == Plans \cup {"cancel", "none"}
Page == [at : {"gone", "shown"}, billing : Summary, loading : BOOLEAN, slot : Slots,
         error : BOOLEAN, actionError : BOOLEAN]

\* A call: what it is for, whether its answer has arrived, and whether the page that
\* made it is still mounted.  reload is handleCancel's own load(true).
NoCall == [kind |-> "none", plan |-> "FREE", at |-> "sent", ok |-> FALSE,
           body |-> MOCK, live |-> FALSE, since |-> 0]
Call == [kind : {"none", "load", "checkout", "cancel", "reload"}, plan : Plans,
         at : {"sent", "answered"}, ok : BOOLEAN, body : Summary, live : BOOLEAN,
         since : 0 .. MaxVersion]
Request(kind, plan, since) ==
  [NoCall EXCEPT !.kind = kind, !.plan = plan, !.live = TRUE, !.since = since]

BillingTypeOK ==
  /\ account \in Summary
  /\ nested \in BOOLEAN
  /\ page \in Page
  /\ calls \in [BillingCalls -> Call]
  /\ browser \in {"app", "checkout"}

BillingInit ==
  /\ account = [plan |-> "FREE", cancelling |-> FALSE, version |-> 0, mock |-> FALSE]
  /\ nested \in BOOLEAN
  /\ page = NoPage
  /\ calls = [c \in BillingCalls |-> NoCall]
  /\ browser = "app"

(***************************************************************************)
(* The subscription (external): a payment arrives through the webhook that *)
(* /api/paddle/webhook forwards, and a cancelled period ends.              *)
(***************************************************************************)
Change(plan, cancelling) ==
  /\ account.version < MaxVersion
  /\ account' = [account EXCEPT !.plan = plan, !.cancelling = cancelling, !.version = @ + 1]

Webhook ==
  /\ \E p \in Plans \ {"FREE"} : p # account.plan /\ Change(p, FALSE)
  /\ UNCHANGED <<nested, page, calls, browser>>

PeriodEnds ==
  /\ account.cancelling
  /\ Change("FREE", FALSE)
  /\ UNCHANGED <<nested, page, calls, browser>>

(***************************************************************************)
(* The billing page: what it shows decides which buttons can be pressed.   *)
(***************************************************************************)
currentPlan == page.billing.plan
InApp == browser = "app" /\ page.at = "shown"
Banner == IF page.loading THEN "spinner" ELSE IF page.error THEN "error" ELSE "plan"
CancelShown == Banner = "plan" /\ currentPlan # "FREE" /\ ~page.billing.cancelling
PlanButton(p) == planRank(p) # planRank(currentPlan) /\ page.slot # p
Nudge == ~page.loading /\ currentPlan = "FREE" /\ page.slot # "PRO"
Free(c) == calls[c].kind = "none"

OpenPage(c) ==
  /\ browser = "app" /\ page.at = "gone" /\ Free(c)
  /\ page' = [NoPage EXCEPT !.at = "shown", !.loading = TRUE]
  /\ calls' = [calls EXCEPT ![c] = Request("load", "FREE", 0)]
  /\ UNCHANGED <<account, nested, browser>>

\* Leaving the page aborts nothing: its calls go on without it.
LeavePage ==
  /\ InApp
  /\ page' = NoPage
  /\ calls' = [c \in BillingCalls |-> [calls[c] EXCEPT !.live = FALSE]]
  /\ UNCHANGED <<account, nested, browser>>

\* The refresh button: load(true) leaves loading alone.
Refresh(c) ==
  /\ InApp /\ Banner = "plan" /\ Free(c)
  /\ calls' = [calls EXCEPT ![c] = Request("load", "FREE", 0)]
  /\ UNCHANGED <<account, nested, page, browser>>

(* Variant, not part of the model: the slot is set to the kind of the call. *)
ActByKind(c, slot, request) ==
  /\ Free(c)
  /\ page' = [page EXCEPT !.slot = request.kind, !.actionError = FALSE]
  /\ calls' = [calls EXCEPT ![c] = request]
  /\ UNCHANGED <<account, nested, browser>>
Act(c, slot, request) ==
  /\ Free(c)
  /\ page' = [page EXCEPT !.slot = slot, !.actionError = FALSE]
  /\ calls' = [calls EXCEPT ![c] = request]
  /\ UNCHANGED <<account, nested, browser>>

\* handleUpgrade, from a plan card (downgrades too) or from the nudge.
handleUpgrade(c) ==
  /\ InApp
  /\ \E p \in Plans :
       /\ PlanButton(p) \/ (p = "PRO" /\ Nudge)
       /\ Act(c, p, Request("checkout", p, 0))

handleCancel(c) ==
  /\ InApp /\ CancelShown /\ page.slot # "cancel"
  /\ Act(c, "cancel", Request("cancel", "FREE", 0))

(***************************************************************************)
(* The routes.  A call may fail before or after it has taken effect.       *)
(***************************************************************************)
Asked(c, kinds) == calls[c].kind \in kinds /\ calls[c].at = "sent"
Answer(c, ok) == [calls EXCEPT ![c].at = "answered", ![c].ok = ok]

LoadAnswer(c) ==
  /\ Asked(c, {"load", "reload"})
  /\ \/ \E s \in BillingGet : calls' = [calls EXCEPT ![c].at = "answered", ![c].ok = TRUE, ![c].body = Flat(s)]
     \/ calls' = Answer(c, FALSE)
  /\ UNCHANGED <<account, nested, page, browser>>

\* createBillingCheckout refuses FREE; otherwise the API answers with a URL, or fails.
CheckoutAnswer(c) ==
  /\ Asked(c, {"checkout"})
  /\ \E ok \in BOOLEAN : (ok => calls[c].plan # "FREE") /\ calls' = Answer(c, ok)
  /\ UNCHANGED <<account, nested, page, browser>>

CancelAnswer(c) ==
  /\ Asked(c, {"cancel"})
  /\ \/ /\ Change(account.plan, TRUE)
        /\ \E ok \in BOOLEAN : calls' = [Answer(c, ok) EXCEPT ![c].since = account.version + 1]
     \/ calls' = Answer(c, FALSE) /\ UNCHANGED account
  /\ UNCHANGED <<nested, page, browser>>

(***************************************************************************)
(* What the page does with an answer.  A page that is gone ignores it.     *)
(***************************************************************************)
Answered(c, kinds) == calls[c].kind \in kinds /\ calls[c].at = "answered" /\ browser = "app"
End(c) == calls' = [calls EXCEPT ![c] = NoCall]
OnPage(c, new) == page' = IF calls[c].live THEN new ELSE page

(* Variant, not part of the model: loading is cleared on success only. *)
LoadedNoFinally(c) ==
  IF calls[c].ok THEN [page EXCEPT !.billing = calls[c].body, !.error = FALSE, !.loading = FALSE]
  ELSE [page EXCEPT !.error = TRUE]
\* load's answer: the last one to be applied wins, whatever it is an answer to.
Loaded(c) ==
  IF calls[c].ok THEN [page EXCEPT !.billing = calls[c].body, !.error = FALSE, !.loading = FALSE]
  ELSE [page EXCEPT !.error = TRUE, !.loading = FALSE]

(* Variant, not part of the model: handleCancel keeps the slot of a failed call. *)
SettledOnSuccess(p, c) == IF calls[c].ok THEN [p EXCEPT !.slot = "none"] ELSE p
\* The finally blocks of handleUpgrade and handleCancel clear the slot, whoever has it.
Settled(p, c) == [p EXCEPT !.slot = "none"]

LoadApply(c) ==
  /\ Answered(c, {"load"})
  /\ OnPage(c, Loaded(c))
  /\ End(c)
  /\ UNCHANGED <<account, nested, browser>>

\* The load that handleCancel awaits, and then its finally block.
ReloadApply(c) ==
  /\ Answered(c, {"reload"})
  /\ OnPage(c, Settled(Loaded(c), c))
  /\ End(c)
  /\ UNCHANGED <<account, nested, browser>>

Failed(c) == OnPage(c, Settled([page EXCEPT !.actionError = TRUE], c)) /\ End(c)

\* A checkout URL takes the whole document away, even when the page has been left; an
\* answer without one only clears the slot.
CheckoutApply(c) ==
  /\ Answered(c, {"checkout"})
  /\ \/ /\ calls[c].ok
        /\ browser' = "checkout" /\ page' = NoPage
        /\ calls' = [x \in BillingCalls |-> NoCall]
     \/ /\ calls[c].ok
        /\ OnPage(c, Settled(page, c)) /\ End(c) /\ UNCHANGED browser
     \/ ~calls[c].ok /\ Failed(c) /\ UNCHANGED browser
  /\ UNCHANGED <<account, nested>>

(* Variant, not part of the model: handleCancel does not await its load. *)
CancelApplyNotAwaiting(c) ==
  /\ Answered(c, {"cancel"})
  /\ IF calls[c].ok
     THEN /\ OnPage(c, Settled(page, c))
          /\ calls' = [calls EXCEPT ![c] = [Request("load", "FREE", 0) EXCEPT !.live = calls[c].live]]
     ELSE Failed(c)
  /\ UNCHANGED <<account, nested, browser>>
CancelApply(c) ==
  /\ Answered(c, {"cancel"})
  /\ IF calls[c].ok
     THEN /\ calls' = [calls EXCEPT ![c] = [Request("reload", "FREE", calls[c].since) EXCEPT !.live = calls[c].live]]
          /\ UNCHANGED page
     ELSE Failed(c)
  /\ UNCHANGED <<account, nested, browser>>

\* Paddle sends the browser back: a new document.
ReturnToApp ==
  /\ browser = "checkout"
  /\ browser' = "app"
  /\ UNCHANGED <<account, nested, page, calls>>

BillingNext ==
  \/ Webhook \/ PeriodEnds \/ LeavePage \/ ReturnToApp
  \/ \E c \in BillingCalls :
       \/ OpenPage(c) \/ Refresh(c) \/ handleUpgrade(c) \/ handleCancel(c)
       \/ LoadAnswer(c) \/ CheckoutAnswer(c) \/ CancelAnswer(c)
       \/ LoadApply(c) \/ ReloadApply(c) \/ CheckoutApply(c) \/ CancelApply(c)

BillingSpec == BillingInit /\ [][BillingNext]_billingVars

\* Every request is answered or fails, and the event loop runs what has been answered.
BillingProgress(c) ==
  \/ LoadAnswer(c) \/ CheckoutAnswer(c) \/ CancelAnswer(c)
  \/ LoadApply(c) \/ ReloadApply(c) \/ CheckoutApply(c) \/ CancelApply(c)

(***************************************************************************)
(* Properties                                                              *)
(***************************************************************************)
\* A call that the page's slot stands for.
Holds(c, slot) ==
  /\ calls[c].live
  /\ \/ calls[c].kind = "checkout" /\ calls[c].plan = slot
     \/ calls[c].kind \in {"cancel", "reload"} /\ slot = "cancel"

\* A button is disabled only while a call of its kind is in flight.  The slot is shared:
\* an action overwrites that of another, and whichever ends first clears it
\* (page.tsx:117, 131, 137, 147).
SlotMeansPending == page.slot # "none" => \E c \in BillingCalls : Holds(c, page.slot)

\* When a successful cancellation ends, the page has been shown it: what the page has is
\* at least as new as the cancellation, unless the reload failed or was made up
\* (page.tsx:143 awaits the load).  Other loads may be in flight at the same time.
Cancelling(c, cs) == cs[c].kind \in {"cancel", "reload"}
CancelIsSeen ==
  [][\A c \in BillingCalls :
       (Cancelling(c, calls) /\ ~Cancelling(c, calls') /\ calls[c].live /\ browser' = "app"
          /\ page'.at = "shown" /\ calls[c].ok)
       => page'.error \/ page'.billing.mock \/ page'.billing.version >= calls[c].since]_billingVars

\* The page does not load for ever, nor does a button spin for ever, although calls fail
\* and overtake each other (page.tsx:108, 130, 146).
LoadingEnds == page.loading ~> ~page.loading
=============================================================================

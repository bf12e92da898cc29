----------------------------- MODULE SafePartsMC -----------------------------
(***************************************************************************)
(* Eleven components that share no state, side by side: part says which of  *)
(* them runs, the others stay where they started.  Their behaviours are    *)
(* those of AccessTokens, RateLimiter, DistributionSync, RequestFeed,      *)
(* ProfilePage, ListPages, LogStream, PackageLaunchers, AnswerText,        *)
(* ThroughputChart and ChangelogPage, one after the other.                 *)
(***************************************************************************)
EXTENDS AccessTokens, RateLimiter, DistributionSync, LogStream, RequestFeed, ProfilePage,
        ListPages, TLC

CONSTANTS MaxAnswerLines, Window

ASSUME ViewAssumption == MaxAnswerLines \in Nat \ {0} /\ Window \in Nat \ {0}

VARIABLES
  part,                                            \* the component that runs
  installed, defaults, machine, result,            \* of PackageLaunchers
  text, cursor, elements, marked, timers,          \* of AnswerText
  chartUsage, chartData, chartMounted,            \* of ThroughputChart
  activeFilter, isOpen                             \* of ChangelogPage

\* Two kinds of traffic: a request that succeeds and a webhook that fails.
TwoKinds == {[kind |-> "REQUEST", failed |-> FALSE, subdomain |-> "app"],
             [kind |-> "WEBHOOK", failed |-> TRUE, subdomain |-> "app"]}

B == INSTANCE PackageLaunchers
A == INSTANCE AnswerText
C == INSTANCE ThroughputChart WITH data <- chartData
G == INSTANCE ChangelogPage

launcherVars == <<installed, defaults, machine, result>>
answerVars == <<text, cursor, elements, marked, timers>>
chartVars == <<chartUsage, chartData, chartMounted>>
changelogVars == <<activeFilter, isOpen>>
viewVars == <<answerVars, chartVars, changelogVars>>
vars == <<part, tokenVars, rateVars, syncVars, feedVars, profileVars, listVars, logVars, viewVars, launcherVars>>

Parts == {"tokens", "rate", "sync", "feed", "profile", "lists", "log", "launchers",
          "answer", "chart", "changelog"}

\* What does not run stays as it is, so only what runs is looked at.
PartsTypeOK ==
  CASE part = "tokens"  -> TokenTypeOK
    [] part = "rate"    -> RateTypeOK
    [] part = "sync"    -> SyncTypeOK
    [] part = "feed"    -> FeedTypeOK
    [] part = "profile" -> ProfileTypeOK
    [] part = "lists"   -> ListTypeOK /\ ViewsAgree
    [] part = "log"     -> LogTypeOK
    [] part = "launchers" -> B!LauncherTypeOK
    [] part = "answer"  -> A!AnswerTypeOK /\ A!AnswerIsShown
    [] part = "chart"   -> C!ChartTypeOK /\ C!PointsAreChanges
    [] part = "changelog" -> G!ChangelogTypeOK

\* What does not run has one initial state; its large values are left out of it.
Absent == <<>>
Init ==
  /\ part \in Parts
  /\ TokenInit /\ RateInit /\ LogInit
  /\ IF part = "sync" THEN SyncInit
     ELSE /\ tree = Absent /\ torn = Paths
          /\ source = 1 /\ modes = {} /\ make = [outcome |-> "none"] /\ crashes = 0
  /\ IF part = "feed" THEN FeedInit
     ELSE history = Absent /\ cache = Absent /\ fetch = Absent /\ tab = [at |-> "elsewhere"]
  /\ IF part = "profile" THEN ProfileInit
     ELSE session = Absent /\ profile = [mounted |-> FALSE] /\ meCalls = Absent
  /\ IF part = "lists" THEN ListInit
     ELSE /\ registry = Absent /\ checks = {} /\ version = 0 /\ told = Absent
          /\ shown = [at |-> "closed"] /\ calls = Absent
  /\ IF part = "launchers" THEN B!LauncherInit
     ELSE installed = Absent /\ defaults = Absent /\ machine = Absent /\ result = Absent
  /\ IF part = "answer" THEN A!AnswerInit
     ELSE text = Absent /\ cursor = 1 /\ elements = Absent /\ marked = {} /\ timers = {}
  /\ C!ChartInit /\ G!ChangelogInit

Next ==
  \/ /\ part = "tokens" /\ TokenNext
     /\ UNCHANGED <<part, rateVars, syncVars, feedVars, profileVars, listVars, logVars, viewVars, launcherVars>>
  \/ /\ part = "rate" /\ RateNext
     /\ UNCHANGED <<part, tokenVars, syncVars, feedVars, profileVars, listVars, logVars, viewVars, launcherVars>>
  \/ /\ part = "sync" /\ SyncNext
     /\ UNCHANGED <<part, tokenVars, rateVars, feedVars, profileVars, listVars, logVars, viewVars, launcherVars>>
  \/ /\ part = "feed" /\ FeedNext
     /\ UNCHANGED <<part, tokenVars, rateVars, syncVars, profileVars, listVars, logVars, viewVars, launcherVars>>
  \/ /\ part = "profile" /\ ProfileNext
     /\ UNCHANGED <<part, tokenVars, rateVars, syncVars, feedVars, listVars, logVars, viewVars, launcherVars>>
  \/ /\ part = "lists" /\ ListNext
     /\ UNCHANGED <<part, tokenVars, rateVars, syncVars, feedVars, profileVars, logVars, viewVars, launcherVars>>
  \/ /\ part = "log" /\ LogNext
     /\ UNCHANGED <<part, tokenVars, rateVars, syncVars, feedVars, profileVars, listVars, viewVars, launcherVars>>
  \/ /\ part = "launchers" /\ B!LauncherNext
     /\ UNCHANGED <<part, tokenVars, rateVars, syncVars, feedVars, profileVars, listVars, logVars, viewVars>>
  \/ /\ part = "answer" /\ A!AnswerNext
     /\ UNCHANGED <<part, tokenVars, rateVars, syncVars, feedVars, profileVars, listVars, logVars, launcherVars, chartVars, changelogVars>>
  \/ /\ part = "chart" /\ C!ChartNext
     /\ UNCHANGED <<part, tokenVars, rateVars, syncVars, feedVars, profileVars, listVars, logVars, launcherVars, answerVars, changelogVars>>
  \/ /\ part = "changelog" /\ G!ChangelogNext
     /\ UNCHANGED <<part, tokenVars, rateVars, syncVars, feedVars, profileVars, listVars, logVars, launcherVars, answerVars, chartVars>>

Spec == Init /\ [][Next]_vars

\* The calls of the largest parts.
Symmetry == Permutations(TokenCalls) \cup Permutations(PageCalls)
===============================================================================

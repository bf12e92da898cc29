\* The web application's calls and polls, and what they must lead to.
\* Bounds on versions, questions, states of GitHub sign-ins, tunnels and timers end behaviours.
CONSTANTS
  Tabs = {t1, t2}
  Accounts = {u1}
  Nobody = Nobody
  States = {x1, x2}
  NoState = NoState
  BillingCalls = {b1, b2}
  MaxVersion = 2
  MaxAsks = 3
  ConsoleCalls = {k1, k2}
  MaxReserved = 1
  Links <- TwoLinks
  Profile = "/dashboard/profile"
  MaxResults = 1
  MaxTimers = 2
SPECIFICATION Spec
CHECK_DEADLOCK FALSE
INVARIANTS
  WebTypeOK
  SlotMeansPending
  MismatchHasCause
  SignedOutIsForgotten
  AnswersFollowQuestions
  EmptyInventoryIsKnown
  FadeHasSuccessor
PROPERTIES
  CancelIsSeen
  LoadingEnds
  ThinkingEnds
  ListsFollowChanges
  StaleLimitLifts
  FadeEnds

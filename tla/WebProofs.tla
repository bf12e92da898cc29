------------------------------ MODULE WebProofs -------------------------------
(***************************************************************************)
(* Theorems about the web application: sign-in, the billing page, the      *)
(* frame of the dashboard, the assistant and the tunnel pages, and these   *)
(* five side by side.                                                      *)
(***************************************************************************)
EXTENDS FairPartsMC, SequenceTheorems, FiniteSetTheorems, TLAPS

-----------------------------------------------------------------------------
(***************************************************************************)
(* Signing in and out for any number of tabs, accounts and GitHub states:  *)
(* the states are well typed, a mismatch always has a cause, and a tab     *)
(* that has signed out shows nobody.                                       *)
(*                                                                         *)
(* What is inductive relates each tab to the cookie jar and to the states  *)
(* that are spoilt (TabOK): a tab that is at GitHub has a state that is    *)
(* the jar's or is spoilt, an error in the URL names a spoilt state, and   *)
(* while a tab that has signed out has not been told otherwise the jar     *)
(* names nobody.  The jar may change under a tab in two ways (JarStep):    *)
(* its state is kept or goes to the spoilt ones, and its token is taken    *)
(* away, or put there, which every tab that had signed out is told.        *)
(***************************************************************************)

Jars == [token : Token, state : States \cup {NoState}]

TabOK(d, j, bad) ==
  /\ d \in Tab
  /\ d.page = "github" => d.state \in States /\ (d.state = j.state \/ d.state \in bad)
  /\ d.page \in OpenPages /\ d.state # NoState => d.state \in bad
  /\ d.mismatch => d.page \in OpenPages /\ d.state # NoState
  /\ d.signedOut => d.user = Nobody /\ j.token.account = Nobody

SignInInv ==
  /\ jar \in Jars
  /\ tab \in [Tabs -> Tab]
  /\ used \subseteq States /\ spoilt \subseteq States
  /\ \A t \in Tabs : TabOK(tab[t], jar, spoilt)

(* What happens to the cookies, as a tab that does nothing itself sees it. *)
JarStep ==
  /\ jar' \in Jars /\ used' \subseteq States /\ spoilt' \subseteq States
  /\ spoilt \subseteq spoilt'
  /\ jar'.state = jar.state \/ Overwritten \subseteq spoilt'

LEMMA DocumentType ==
  ASSUME NEW url \in Pages
  PROVE  /\ Document(url) \in Tab
         /\ Document(url).page = url /\ Document(url).state = NoState
         /\ ~Document(url).mismatch /\ ~Document(url).signedOut
         /\ Document(url).user = Nobody
BY DEF Document, Tab, Forms

LEMMA TokenTypes ==
  /\ NoToken \in Token /\ NoToken.account = Nobody
  /\ \A a \in Accounts, email \in BOOLEAN : NewToken(a, email) \in Token
BY DEF NoToken, NewToken, Token

(* A tab that does nothing itself.                                         *)
LEMMA OtherTab ==
  ASSUME NEW d, TabOK(d, jar, spoilt), JarStep,
         d.signedOut => jar'.token.account = Nobody
  PROVE  TabOK(d, jar', spoilt')
<1>1. CASE d.page = "github" /\ d.state = jar.state
  <2>1. d.state \in States /\ d.state # NoState
    BY <1>1, SignInAssumption DEF TabOK
  <2>2. d.state = jar'.state \/ d.state \in spoilt'
    BY <1>1, <2>1 DEF JarStep, Overwritten
  <2> QED BY <1>1, <2>1, <2>2 DEF TabOK, JarStep
<1>2. CASE ~(d.page = "github" /\ d.state = jar.state)
  BY <1>2 DEF TabOK, JarStep
<1> QED BY <1>1, <1>2

(* A step of one tab that gives nobody a token.                            *)
LEMMA TabStep ==
  ASSUME SignInInv, JarStep, NEW t \in Tabs, NEW new, Update(t, new),
         TabOK(new, jar', spoilt'),
         jar.token.account = Nobody => jar'.token.account = Nobody
  PROVE  SignInInv'
<1>1. tab' \in [Tabs -> Tab]
  BY DEF SignInInv, Update, TabOK
<1>2. ASSUME NEW u \in Tabs PROVE TabOK(tab'[u], jar', spoilt')
  <2>1. CASE u = t
    BY <2>1 DEF SignInInv, Update
  <2>2. CASE u # t
    <3>1. tab'[u] = tab[u] /\ TabOK(tab[u], jar, spoilt)
      BY <2>2 DEF SignInInv, Update
    <3>2. tab[u].signedOut => jar'.token.account = Nobody
      BY <3>1 DEF TabOK
    <3> QED BY <3>1, <3>2, OtherTab
  <2> QED BY <2>1, <2>2
<1> QED BY <1>1, <1>2 DEF SignInInv, JarStep

(* A step that puts a token into the jar, which every tab is told.         *)
LEMMA SignedInStep ==
  ASSUME SignInInv, JarStep, NEW t \in Tabs, NEW new,
         tab' = SignedIn([tab EXCEPT ![t] = new]),
         new \in Tab, TabOK([new EXCEPT !.signedOut = FALSE], jar', spoilt')
  PROVE  SignInInv'
<1> DEFINE quiet(d) == [d EXCEPT !.signedOut = FALSE]
<1>1. \A d \in Tab : quiet(d) \in Tab /\ ~quiet(d).signedOut
  BY DEF Tab
<1>2. new \in Tab /\ TabOK(quiet(new), jar', spoilt')
  OBVIOUS
<1>3. ASSUME NEW d \in Tab, NEW j, NEW bad, TabOK(d, j, bad) PROVE TabOK(quiet(d), j, bad)
  BY <1>3, <1>1 DEF TabOK, Tab
<1>4. ASSUME NEW u \in Tabs
      PROVE  tab'[u] = quiet(IF u = t THEN new ELSE tab[u])
  BY DEF SignedIn, SignInInv
<1>5. tab' \in [Tabs -> Tab]
  <2>1. tab' = [u \in Tabs |-> quiet([tab EXCEPT ![t] = new][u])]
    BY DEF SignedIn
  <2>2. \A u \in Tabs : [tab EXCEPT ![t] = new][u] \in Tab
    BY <1>2 DEF SignInInv
  <2> QED BY <1>1, <2>1, <2>2
<1>6. ASSUME NEW u \in Tabs PROVE TabOK(tab'[u], jar', spoilt')
  <2>1. CASE u = t
    BY <1>2, <1>4, <2>1
  <2>2. CASE u # t
    <3>1. tab[u] \in Tab /\ TabOK(tab[u], jar, spoilt)
      BY DEF SignInInv
    <3>2. TabOK(quiet(tab[u]), jar, spoilt) /\ ~quiet(tab[u]).signedOut
      BY <1>1, <1>3, <3>1
    <3>3. TabOK(quiet(tab[u]), jar', spoilt')
      BY <3>2, OtherTab
    <3> QED BY <1>4, <2>2, <3>3
  <2> QED BY <2>1, <2>2
<1> QED BY <1>5, <1>6 DEF SignInInv, JarStep

(* The cookies are not touched, or only the state cookies are deleted.     *)
LEMMA JarStays ==
  ASSUME SignInInv, UNCHANGED <<jar, used, spoilt>>
  PROVE  JarStep
BY DEF SignInInv, JarStep

LEMMA JarCleared ==
  ASSUME SignInInv, ClearState, used' = used
  PROVE  JarStep /\ jar'.token = jar.token
BY DEF SignInInv, JarStep, ClearState, Jars, Overwritten

LEMMA DashboardIsOpen == \A token : Dashboard(token) \in OpenPages
BY DEF Dashboard, OpenPages

(***************************************************************************)
(* The actions.                                                            *)
(***************************************************************************)
LEMMA MovingKeeps ==
  ASSUME SignInInv, NEW t \in Tabs,
         \/ Follow(t) \/ Reload(t) \/ LearnSession(t)
         \/ Submit(t) \/ Register(t) \/ FormApply(t) \/ SignOut(t) \/ CallbackAccept(t)
  PROVE  SignInInv'
<1>1. JarStep /\ jar' = jar /\ spoilt' = spoilt
  <2>1. UNCHANGED <<jar, used, spoilt>>
    BY DEF Follow, Reload, LearnSession, Submit, Register, FormApply, SignOut, CallbackAccept
  <2> QED BY <2>1, JarStays
<1>2. tab[t] \in Tab /\ TabOK(tab[t], jar, spoilt)
  BY DEF SignInInv
<1>3. ASSUME NEW new, TabOK(new, jar, spoilt), Update(t, new) PROVE SignInInv'
  BY <1>1, <1>3, TabStep
<1>4. OpenPages \subseteq Pages
  BY DEF Pages, OpenPages
<1>5. CASE Follow(t)
  <2>1. PICK url \in OpenPages :
          Update(t, [tab[t] EXCEPT !.page = IF url = "dashboard" THEN Dashboard(jar.token) ELSE url,
                                   !.state = NoState, !.mismatch = FALSE])
    BY <1>5 DEF Follow
  <2> DEFINE p == IF url = "dashboard" THEN Dashboard(jar.token) ELSE url
             new == [tab[t] EXCEPT !.page = p, !.state = NoState, !.mismatch = FALSE]
  <2>2. p \in OpenPages
    BY DashboardIsOpen
  <2> HIDE DEF p
  <2>3. TabOK(new, jar, spoilt)
    BY <1>2, <1>4, <2>2 DEF TabOK, Tab, OpenPages
  <2> QED BY <1>3, <2>1, <2>3 DEF p
<1>6. CASE Reload(t)
  <2> DEFINE p == IF tab[t].page = "dashboard" THEN Dashboard(jar.token) ELSE tab[t].page
             new == [Document(p) EXCEPT !.state = tab[t].state, !.mismatch = tab[t].state # NoState]
  <2>1. p \in OpenPages /\ tab[t].page \in OpenPages
    BY <1>6, DashboardIsOpen DEF Reload
  <2>2. Update(t, new)
    BY <1>6 DEF Reload
  <2> HIDE DEF p
  <2>3. /\ Document(p) \in Tab /\ Document(p).page = p /\ ~Document(p).signedOut
    BY <1>4, <2>1, DocumentType
  <2>4. /\ new \in Tab /\ new.page = p /\ new.state = tab[t].state
        /\ new.mismatch = (tab[t].state # NoState) /\ ~new.signedOut
    BY <1>2, <2>3 DEF Tab, Document
  <2>5. TabOK(new, jar, spoilt)
    BY <1>2, <2>1, <2>4 DEF TabOK, OpenPages
  <2> QED BY <1>3, <2>2, <2>5
<1>7. CASE LearnSession(t)
  <2>1. PICK user \in {CurrentUser(jar.token), Nobody} :
          Update(t, [tab[t] EXCEPT !.known = TRUE, !.user = user])
    BY <1>7 DEF LearnSession
  <2> DEFINE new == [tab[t] EXCEPT !.known = TRUE, !.user = user]
  <2>2. user \in Accounts \cup {Nobody} /\ (jar.token.account = Nobody => user = Nobody)
    BY DEF CurrentUser, Authenticated, SignInInv, Jars, Token
  <2>3. TabOK(new, jar, spoilt)
    BY <1>2, <2>2 DEF TabOK, Tab
  <2> QED BY <1>3, <2>1, <2>3
<1>8. CASE Submit(t)
  <2> DEFINE new == [tab[t] EXCEPT !.form = "sent", !.mismatch = FALSE]
  <2>1. TabOK(new, jar, spoilt)
    BY <1>2 DEF TabOK, Tab, Forms
  <2> QED BY <1>3, <1>8, <2>1 DEF Submit
<1>9. CASE Register(t)
  <2>1. PICK url \in RegisterAnswers : Update(t, [tab[t] EXCEPT !.page = url])
    BY <1>9 DEF Register
  <2>2. TabOK([tab[t] EXCEPT !.page = url], jar, spoilt)
    BY <1>2, <1>9 DEF TabOK, Tab, Register, RegisterAnswers, OpenPages, Pages
  <2> QED BY <1>3, <2>1, <2>2
<1>10. CASE FormApply(t)
  <2> DEFINE p == Dashboard(jar.token)
             new == [tab[t] EXCEPT !.form = "idle", !.page = p, !.state = NoState, !.mismatch = FALSE]
  <2>1. p \in OpenPages
    BY DashboardIsOpen
  <2>2. Update(t, new)
    BY <1>10 DEF FormApply
  <2> HIDE DEF p
  <2>3. TabOK(new, jar, spoilt)
    BY <1>2, <1>4, <2>1 DEF TabOK, Tab, Forms, OpenPages
  <2> QED BY <1>3, <2>2, <2>3
<1>11. CASE SignOut(t)
  <2>1. TabOK([tab[t] EXCEPT !.leaving = TRUE], jar, spoilt)
    BY <1>2 DEF TabOK, Tab
  <2> QED BY <1>3, <1>11, <2>1 DEF SignOut
<1>12. CASE CallbackAccept(t)
  <2>1. TabOK([tab[t] EXCEPT !.page = "callback"], jar, spoilt)
    BY <1>2, <1>12 DEF TabOK, Tab, Pages, OpenPages, CallbackAccept
  <2> QED BY <1>3, <1>12, <2>1 DEF CallbackAccept
<1> QED BY <1>5, <1>6, <1>7, <1>8, <1>9, <1>10, <1>11, <1>12

LEMMA LoginKeeps ==
  ASSUME SignInInv, NEW t \in Tabs, LoginAnswer(t)
  PROVE  SignInInv'
<1>1. tab[t] \in Tab /\ TabOK(tab[t], jar, spoilt) /\ jar \in Jars
  BY DEF SignInInv
<1>2. CASE Update(t, [tab[t] EXCEPT !.form = "idle"]) /\ UNCHANGED jar
  <2>1. JarStep /\ jar' = jar /\ spoilt' = spoilt
    BY <1>2, JarStays DEF LoginAnswer
  <2>2. TabOK([tab[t] EXCEPT !.form = "idle"], jar, spoilt)
    BY <1>1 DEF TabOK, Tab, Forms
  <2> QED BY <1>2, <2>1, <2>2, TabStep
<1>3. ASSUME NEW a \in Accounts,
             jar' = [jar EXCEPT !.token = NewToken(a, TRUE)],
             tab' = SignedIn([tab EXCEPT ![t].form = "accepted"])
      PROVE  SignInInv'
  <2> DEFINE new == [tab[t] EXCEPT !.form = "accepted"]
  <2>1. jar' \in Jars /\ jar'.state = jar.state
    BY <1>1, <1>3, TokenTypes DEF Jars
  <2>2. JarStep /\ spoilt' = spoilt
    BY <2>1 DEF JarStep, LoginAnswer, SignInInv
  <2>3. [tab EXCEPT ![t].form = "accepted"] = [tab EXCEPT ![t] = new]
    BY DEF SignInInv
  <2>4. new \in Tab /\ TabOK([new EXCEPT !.signedOut = FALSE], jar', spoilt')
    BY <1>1, <2>1, <2>2 DEF TabOK, Tab, Forms
  <2> HIDE DEF new
  <2>5. tab' = SignedIn([tab EXCEPT ![t] = new])
    BY <1>3, <2>3
  <2> QED BY <2>2, <2>4, <2>5, SignedInStep
<1> QED BY <1>2, <1>3 DEF LoginAnswer

LEMMA GithubStartKeeps ==
  ASSUME SignInInv, NEW t \in Tabs, GithubStart(t)
  PROVE  SignInInv'
<1>1. PICK s \in States \ used :
        /\ used' = used \cup {s}
        /\ jar' = [jar EXCEPT !.state = s]
        /\ Update(t, [Document("github") EXCEPT !.state = s])
  BY DEF GithubStart
<1> DEFINE new == [Document("github") EXCEPT !.state = s]
<1>2. jar \in Jars /\ used \subseteq States /\ spoilt \subseteq States
  BY DEF SignInInv
<1>3. jar' \in Jars /\ jar'.state = s /\ jar'.token = jar.token
  BY <1>1, <1>2 DEF Jars
<1>4. Overwritten \subseteq States
  BY <1>2 DEF Overwritten, Jars
<1>5. JarStep
  BY <1>1, <1>2, <1>3, <1>4 DEF JarStep, GithubStart
<1>6. TabOK(new, jar', spoilt')
  BY <1>3, DocumentType DEF TabOK, Tab, Document, Pages, OpenPages
<1> QED BY <1>1, <1>3, <1>5, <1>6, TabStep

LEMMA CallbackFailureKeeps ==
  ASSUME SignInInv, NEW t \in Tabs,
         CallbackMismatch(t) \/ CallbackDeclined(t) \/ CallbackFails(t)
  PROVE  SignInInv'
<1>1. TabOK(tab[t], jar, spoilt) /\ tab[t] \in Tab
  BY DEF SignInInv
<1> DEFINE failed == [Document("login") EXCEPT !.state = tab[t].state, !.mismatch = TRUE]
<1>2. "login" \in Pages /\ "login" \in OpenPages
  BY DEF Pages, OpenPages
<1>3. /\ failed \in Tab /\ failed.page = "login" /\ failed.state = tab[t].state
      /\ ~failed.signedOut
  BY <1>1, <1>2, DocumentType DEF Tab, Document
<1>4. CASE CallbackMismatch(t)
  <2>1. JarStep /\ jar'.token = jar.token
    BY <1>4, JarCleared DEF CallbackMismatch
  <2>2. tab[t].state \in States /\ tab[t].state \in spoilt /\ tab[t].state # NoState
    BY <1>1, <1>4, SignInAssumption DEF CallbackMismatch, StateMatches, TabOK
  <2>3. TabOK(failed, jar', spoilt')
    BY <1>2, <1>3, <2>1, <2>2 DEF TabOK, JarStep
  <2>4. Update(t, failed)
    BY <1>4 DEF CallbackMismatch
  <2> QED BY <2>1, <2>3, <2>4, TabStep
<1>5. CASE CallbackDeclined(t)
  <2>1. tab[t].state \in States /\ tab[t].state # NoState
    BY <1>1, <1>5, SignInAssumption DEF CallbackDeclined, TabOK
  <2>2. JarStep /\ jar'.token = jar.token /\ tab[t].state \in spoilt'
    BY <1>5, <2>1 DEF CallbackDeclined, JarStep, Jars, SignInInv, Overwritten
  <2>3. TabOK(failed, jar', spoilt')
    BY <1>2, <1>3, <2>1, <2>2 DEF TabOK
  <2>4. Update(t, failed)
    BY <1>5 DEF CallbackDeclined
  <2> QED BY <2>2, <2>3, <2>4, TabStep
<1>6. CASE CallbackFails(t)
  <2>1. JarStep /\ jar'.token = jar.token
    BY <1>6, JarCleared DEF CallbackFails
  <2>2. TabOK(Document("login"), jar', spoilt')
    BY <1>2, DocumentType DEF TabOK
  <2> QED BY <1>6, <2>1, <2>2, TabStep DEF CallbackFails
<1> QED BY <1>4, <1>5, <1>6

LEMMA CallbackSignInKeeps ==
  ASSUME SignInInv, NEW t \in Tabs, CallbackSignIn(t)
  PROVE  SignInInv'
<1>1. PICK a \in Accounts, email \in BOOLEAN :
        /\ jar' = [token |-> NewToken(a, email), state |-> NoState]
        /\ tab' = SignedIn([tab EXCEPT ![t] = Document("dashboard")])
  BY DEF CallbackSignIn
<1>2. jar' \in Jars
  BY <1>1, TokenTypes DEF Jars
<1>3. JarStep
  BY <1>2 DEF JarStep, CallbackSignIn, SignInInv, Overwritten, Jars
<1>4. "dashboard" \in Pages
  BY DEF Pages, OpenPages
<1>5. Document("dashboard") \in Tab
  BY <1>4, DocumentType
<1> DEFINE new == [Document("dashboard") EXCEPT !.signedOut = FALSE]
<1>6. new \in Tab /\ new.page = "dashboard" /\ new.state = NoState /\ ~new.mismatch /\ ~new.signedOut
  BY <1>4, DocumentType DEF Document, Tab
<1> HIDE DEF new
<1>7. TabOK(new, jar', spoilt')
  BY <1>6 DEF TabOK
<1> QED BY <1>1, <1>3, <1>5, <1>7, SignedInStep DEF new

LEMMA SignOutAnswerKeeps ==
  ASSUME SignInInv, NEW t \in Tabs, SignOutAnswer(t)
  PROVE  SignInInv'
<1>1. PICK token \in Deletions :
        /\ jar' = [jar EXCEPT !.token = token]
        /\ Update(t, [Document("login") EXCEPT !.signedOut = token.account = Nobody])
  BY DEF SignOutAnswer
<1> DEFINE new == [Document("login") EXCEPT !.signedOut = token.account = Nobody]
<1>2. jar \in Jars /\ token \in Token /\ (jar.token.account = Nobody => token.account = Nobody)
  BY TokenTypes DEF SignInInv, Jars, Deletions
<1>3. jar' \in Jars /\ jar'.token = token /\ jar'.state = jar.state
  BY <1>1, <1>2 DEF Jars
<1>4. JarStep
  BY <1>3 DEF JarStep, SignOutAnswer, SignInInv
<1>5. "login" \in Pages /\ "login" \in OpenPages
  BY DEF Pages, OpenPages
<1>6. /\ new \in Tab /\ new.page = "login" /\ new.state = NoState /\ ~new.mismatch
      /\ new.user = Nobody /\ (new.signedOut => token.account = Nobody)
  BY <1>5, DocumentType DEF Document, Tab
<1> HIDE DEF new
<1>7. TabOK(new, jar', spoilt')
  BY <1>3, <1>6 DEF TabOK
<1> QED BY <1>1, <1>2, <1>3, <1>4, <1>7, TabStep DEF new

(* Time: a token or a state cookie expires, and no tab does anything.      *)
LEMMA ExpiryKeeps ==
  ASSUME SignInInv, TokenExpires \/ StateExpires
  PROVE  SignInInv'
<1>1. tab' = tab /\ used' = used
  BY DEF TokenExpires, StateExpires
<1>2. JarStep /\ jar'.token.account = jar.token.account
  <2>1. CASE TokenExpires
    BY <2>1 DEF TokenExpires, SignInInv, JarStep, Jars, Token
  <2>2. CASE StateExpires
    BY <2>2, JarCleared DEF StateExpires
  <2> QED BY <2>1, <2>2
<1>3. ASSUME NEW t \in Tabs PROVE TabOK(tab[t], jar', spoilt')
  <2>1. TabOK(tab[t], jar, spoilt)
    BY DEF SignInInv
  <2>2. tab[t].signedOut => jar'.token.account = Nobody
    BY <1>2, <2>1 DEF TabOK
  <2> QED BY <1>2, <2>1, <2>2, OtherTab
<1> QED BY <1>1, <1>2, <1>3 DEF SignInInv, JarStep

LEMMA SignInInitInvariant == SignInInit => SignInInv
<1> SUFFICES ASSUME SignInInit PROVE SignInInv
  OBVIOUS
<1>1. "login" \in Pages
  BY DEF Pages, OpenPages
<1>2. jar \in Jars /\ used = {} /\ spoilt = {} /\ \A t \in Tabs : tab[t] = Document("login")
  BY TokenTypes DEF SignInInit, Jars
<1>3. tab \in [Tabs -> Tab]
  BY <1>1, DocumentType DEF SignInInit
<1>4. TabOK(Document("login"), jar, spoilt)
  BY <1>1, DocumentType DEF TabOK
<1> QED BY <1>2, <1>3, <1>4 DEF SignInInv

LEMMA SignInStepKeeps == SignInInv /\ [SignInNext]_signInVars => SignInInv'
<1> SUFFICES ASSUME SignInInv, [SignInNext]_signInVars PROVE SignInInv'
  OBVIOUS
<1>1. CASE TokenExpires \/ StateExpires
  BY <1>1, ExpiryKeeps
<1>2. ASSUME NEW t \in Tabs,
             \/ Follow(t) \/ Reload(t) \/ LearnSession(t)
             \/ Submit(t) \/ Register(t) \/ FormApply(t) \/ SignOut(t) \/ CallbackAccept(t)
      PROVE  SignInInv'
  BY <1>2, MovingKeeps
<1>3. ASSUME NEW t \in Tabs, LoginAnswer(t) PROVE SignInInv'
  BY <1>3, LoginKeeps
<1>4. ASSUME NEW t \in Tabs, GithubStart(t) PROVE SignInInv'
  BY <1>4, GithubStartKeeps
<1>5. ASSUME NEW t \in Tabs, CallbackMismatch(t) \/ CallbackDeclined(t) \/ CallbackFails(t)
      PROVE  SignInInv'
  BY <1>5, CallbackFailureKeeps
<1>6. ASSUME NEW t \in Tabs, CallbackSignIn(t) PROVE SignInInv'
  BY <1>6, CallbackSignInKeeps
<1>7. ASSUME NEW t \in Tabs, SignOutAnswer(t) PROVE SignInInv'
  BY <1>7, SignOutAnswerKeeps
<1>8. CASE UNCHANGED signInVars
  BY <1>8 DEF signInVars, SignInInv
<1> QED BY <1>1, <1>2, <1>3, <1>4, <1>5, <1>6, <1>7, <1>8 DEF SignInNext

LEMMA SignInInvariant == SignInSpec => []SignInInv
BY SignInInitInvariant, SignInStepKeeps, PTL DEF SignInSpec

(* Every state of the cookies and tabs is well typed, and a tab offers the *)
(* dashboard exactly when its user card names somebody (site-navbar.tsx,   *)
(* user-management/page.tsx over useSession).                              *)
THEOREM SignInTypeCorrect == SignInSpec => []SignInTypeOK
<1>1. SignInInv => SignInTypeOK
  <2> SUFFICES ASSUME SignInInv PROVE SignInTypeOK
    OBVIOUS
  <2>1. ASSUME NEW t \in Tabs PROVE "dashboard" \in Navbar(t) <=> UserCard(t) # Nobody
    BY DEF Navbar, UserCard, status
  <2> QED BY <2>1 DEF SignInInv, SignInTypeOK, Jars
<1> QED BY <1>1, SignInInvariant, PTL

(* "OAuth state mismatch" is only reported for an attempt whose state was  *)
(* taken away, expired or declined, in any number of tabs (the routes      *)
(* api/auth/github and api/auth/github/callback).                          *)
THEOREM MismatchesHaveCauses == SignInSpec => []MismatchHasCause
<1>1. SignInInv => MismatchHasCause
  BY DEF SignInInv, TabOK, MismatchHasCause
<1> QED BY <1>1, SignInInvariant, PTL

(* A tab that has signed out shows nobody until somebody signs in again    *)
(* (signOut and the effect of session-provider.tsx).                       *)
THEOREM SignedOutForgets == SignInSpec => []SignedOutIsForgotten
<1>1. SignInInv => SignedOutIsForgotten
  BY DEF SignInInv, TabOK, SignedOutIsForgotten
<1> QED BY <1>1, SignInInvariant, PTL

-----------------------------------------------------------------------------
(***************************************************************************)
(* The billing page for any number of calls in flight and any number of    *)
(* changes of the subscription: its states are well typed, a spinning      *)
(* button has a call in flight, and a cancellation that ends has been      *)
(* shown to the page.                                                      *)
(*                                                                         *)
(* The slot needs no more than its own statement: whoever ends clears it,  *)
(* so what is left of it belongs to a call that has not ended.  That a     *)
(* cancellation is seen rests on versions (CallOK): what a cancellation    *)
(* changed is never newer than the subscription, so the reload that is     *)
(* sent after it is answered with something as new, or with the made-up    *)
(* plan, whichever loads overtake it.                                      *)
(***************************************************************************)

HoldsBy(r, slot) ==
  /\ r.live
  /\ \/ r.kind = "checkout" /\ r.plan = slot
     \/ r.kind \in {"cancel", "reload"} /\ slot = "cancel"

CallOK(r, version) ==
  /\ r.kind \in {"cancel", "reload"} => r.since <= version
  /\ r.kind = "reload" /\ r.at = "answered" /\ r.ok => r.body.mock \/ r.body.version >= r.since

BillingInv ==
  /\ BillingTypeOK
  /\ SlotMeansPending
  /\ \A c \in BillingCalls : CallOK(calls[c], account.version)

LEMMA BillingTypes ==
  ASSUME MaxVersion \in Nat
  PROVE  /\ MOCK \in Summary /\ MOCK.mock
         /\ NoPage \in Page /\ NoPage.slot = "none" /\ NoPage.at = "gone"
         /\ NoCall \in Call /\ NoCall.kind = "none"
         /\ \A kind \in {"load", "checkout", "cancel", "reload"}, p \in Plans, n \in 0 .. MaxVersion :
              /\ Request(kind, p, n) \in Call
              /\ Request(kind, p, n).kind = kind /\ Request(kind, p, n).plan = p
              /\ Request(kind, p, n).since = n /\ Request(kind, p, n).live
              /\ Request(kind, p, n).at = "sent"
<1>1. MOCK \in Summary /\ MOCK.mock
  BY DEF MOCK, Summary, Plans
<1>2. NoPage \in Page /\ NoPage.slot = "none" /\ NoPage.at = "gone"
  BY <1>1 DEF NoPage, Page, Slots
<1>3. NoCall \in Call /\ NoCall.kind = "none"
  BY <1>1 DEF NoCall, Call, Plans
<1>4. \A kind \in {"load", "checkout", "cancel", "reload"}, p \in Plans, n \in 0 .. MaxVersion :
              /\ Request(kind, p, n) \in Call
              /\ Request(kind, p, n).kind = kind /\ Request(kind, p, n).plan = p
              /\ Request(kind, p, n).since = n /\ Request(kind, p, n).live
              /\ Request(kind, p, n).at = "sent"
  <2> SUFFICES ASSUME NEW kind \in {"load", "checkout", "cancel", "reload"},
                      NEW p \in Plans, NEW n \in 0 .. MaxVersion
               PROVE  /\ Request(kind, p, n) \in Call
                      /\ Request(kind, p, n).kind = kind /\ Request(kind, p, n).plan = p
                      /\ Request(kind, p, n).since = n /\ Request(kind, p, n).live
                      /\ Request(kind, p, n).at = "sent"
    OBVIOUS
  <2>1. NoCall.at = "sent"
    BY DEF NoCall
  <2> QED BY <1>3, <2>1 DEF Request, Call
<1> QED BY <1>1, <1>2, <1>3, <1>4

(* A step that changes one call: what it has to say of the slot.           *)
LEMMA CallStep ==
  ASSUME MaxVersion \in Nat, BillingInv,
         account' \in Summary, account'.version >= account.version,
         nested' = nested, page' \in Page, browser' \in {"app", "checkout"},
         NEW c \in BillingCalls, NEW new \in Call, calls' = [calls EXCEPT ![c] = new],
         CallOK(new, account'.version),
         \/ page'.slot = "none"
         \/ HoldsBy(new, page'.slot)
         \/ page'.slot = page.slot /\ (HoldsBy(calls[c], page.slot) => HoldsBy(new, page.slot))
  PROVE  BillingInv'
<1>1. calls \in [BillingCalls -> Call] /\ account.version \in 0 .. MaxVersion /\ nested \in BOOLEAN
  BY DEF BillingInv, BillingTypeOK, Summary
<1>2. BillingTypeOK'
  BY <1>1 DEF BillingTypeOK
<1>3. calls'[c] = new /\ \A x \in BillingCalls : x # c => calls'[x] = calls[x]
  BY <1>1
<1>4. ASSUME NEW x \in BillingCalls PROVE CallOK(calls'[x], account'.version)
  <2>1. CASE x = c
    BY <1>3, <2>1
  <2>2. CASE x # c
    <3>1. calls'[x] = calls[x] /\ CallOK(calls[x], account.version) /\ calls[x].since \in 0 .. MaxVersion
      BY <1>1, <1>3, <2>2 DEF BillingInv, Call
    <3>2. account'.version \in 0 .. MaxVersion
      BY DEF Summary
    <3> QED BY <1>1, <3>1, <3>2 DEF CallOK
  <2> QED BY <2>1, <2>2
<1>5. SlotMeansPending'
  <2> SUFFICES ASSUME page'.slot # "none"
               PROVE  \E x \in BillingCalls : HoldsBy(calls'[x], page'.slot)
    BY DEF SlotMeansPending, Holds, HoldsBy
  <2>1. CASE HoldsBy(new, page'.slot)
    BY <1>3, <2>1
  <2>2. CASE page'.slot = page.slot /\ (HoldsBy(calls[c], page.slot) => HoldsBy(new, page.slot))
    <3>1. PICK x \in BillingCalls : HoldsBy(calls[x], page.slot)
      BY <2>2 DEF BillingInv, SlotMeansPending, Holds, HoldsBy
    <3> QED BY <1>3, <2>2, <3>1
  <2> QED BY <2>1, <2>2
<1> QED BY <1>2, <1>4, <1>5 DEF BillingInv

(* A step that leaves the calls alone.                                     *)
LEMMA NoCallStep ==
  ASSUME MaxVersion \in Nat, BillingInv,
         account' \in Summary, account'.version >= account.version,
         nested' = nested, page' = page, browser' \in {"app", "checkout"}, calls' = calls
  PROVE  BillingInv'
<1>1. account.version \in 0 .. MaxVersion /\ account'.version \in 0 .. MaxVersion
  BY DEF BillingInv, BillingTypeOK, Summary
<1>2. ASSUME NEW x \in BillingCalls PROVE CallOK(calls[x], account'.version)
  <2>1. CallOK(calls[x], account.version) /\ calls[x].since \in 0 .. MaxVersion
    BY DEF BillingInv, BillingTypeOK, Call
  <2> QED BY <1>1, <2>1 DEF CallOK
<1> QED BY <1>2 DEF BillingInv, BillingTypeOK, SlotMeansPending, Holds

(* A step that leaves the slot empty and all calls what they were or none. *)
LEMMA ClearedStep ==
  ASSUME MaxVersion \in Nat, BillingInv, account' = account, nested' = nested,
         page' = NoPage, browser' \in {"app", "checkout"},
         calls' \in [BillingCalls -> Call],
         \A c \in BillingCalls : CallOK(calls'[c], account.version)
  PROVE  BillingInv'
BY BillingTypes DEF BillingInv, BillingTypeOK, SlotMeansPending

(***************************************************************************)
(* The actions.                                                            *)
(***************************************************************************)
LEMMA ChangeEffect ==
  ASSUME MaxVersion \in Nat, BillingInv, NEW p \in Plans, NEW b \in BOOLEAN, Change(p, b)
  PROVE  account' \in Summary /\ account'.version = account.version + 1
                              /\ account'.version >= account.version
<1>1. account \in Summary /\ account.version \in 0 .. MaxVersion /\ account.version < MaxVersion
  BY DEF BillingInv, BillingTypeOK, Summary, Change
<1> DEFINE n == account.version + 1
<1>2. n \in 0 .. MaxVersion /\ n >= account.version
  BY <1>1
<1>3. account' = [account EXCEPT !.plan = p, !.cancelling = b, !.version = n]
  BY DEF Change
<1> HIDE DEF n
<1>4. account' \in Summary /\ account'.version = n
  BY <1>1, <1>2, <1>3 DEF Summary
<1> QED BY <1>2, <1>4 DEF n

LEMMA OutsideKeeps ==
  ASSUME MaxVersion \in Nat, BillingInv, Webhook \/ PeriodEnds \/ ReturnToApp
  PROVE  BillingInv'
<1>1. account \in Summary /\ account.version \in Nat /\ browser \in {"app", "checkout"}
  BY DEF BillingInv, BillingTypeOK, Summary
<1>2. CASE Webhook
  <2>1. PICK p \in Plans : Change(p, FALSE)
    BY <1>2 DEF Webhook
  <2> QED BY <1>1, <1>2, <2>1, ChangeEffect, NoCallStep DEF Webhook
<1>3. CASE PeriodEnds
  <2>1. Change("FREE", FALSE) /\ "FREE" \in Plans
    BY <1>3 DEF PeriodEnds, Plans
  <2> QED BY <1>1, <1>3, <2>1, ChangeEffect, NoCallStep DEF PeriodEnds
<1>4. CASE ReturnToApp
  BY <1>1, <1>4, NoCallStep DEF ReturnToApp
<1> QED BY <1>2, <1>3, <1>4

LEMMA LeavePageKeeps ==
  ASSUME MaxVersion \in Nat, BillingInv, LeavePage
  PROVE  BillingInv'
<1>1. calls \in [BillingCalls -> Call] /\ browser \in {"app", "checkout"}
  BY DEF BillingInv, BillingTypeOK
<1>2. ASSUME NEW c \in BillingCalls
      PROVE  /\ [calls[c] EXCEPT !.live = FALSE] \in Call
             /\ CallOK([calls[c] EXCEPT !.live = FALSE], account.version)
  <2>1. calls[c] \in Call /\ CallOK(calls[c], account.version)
    BY <1>1 DEF BillingInv
  <2> QED BY <2>1 DEF Call, CallOK
<1>3. calls' = [c \in BillingCalls |-> [calls[c] EXCEPT !.live = FALSE]]
  BY DEF LeavePage
<1> QED BY <1>1, <1>2, <1>3, ClearedStep DEF LeavePage

(* The actions that send a call, over a slot that is free.                 *)
LEMMA SendKeeps ==
  ASSUME MaxVersion \in Nat, BillingInv, NEW c \in BillingCalls,
         OpenPage(c) \/ Refresh(c) \/ handleUpgrade(c) \/ handleCancel(c)
  PROVE  BillingInv'
<1>1. /\ account \in Summary /\ page \in Page /\ browser \in {"app", "checkout"}
      /\ account.version \in 0 .. MaxVersion /\ 0 \in 0 .. MaxVersion /\ "FREE" \in Plans
  BY DEF BillingInv, BillingTypeOK, Summary, Plans
<1>2. ASSUME NEW kind \in {"load", "checkout", "cancel"}, NEW p \in Plans
      PROVE  CallOK(Request(kind, p, 0), account.version) /\ Request(kind, p, 0) \in Call
  <2>1. Request(kind, p, 0).since = 0 /\ Request(kind, p, 0).kind = kind /\ Request(kind, p, 0) \in Call
    BY <1>1, BillingTypes
  <2> QED BY <1>1, <2>1 DEF CallOK
<1>same. ASSUME account' = account
      PROVE  account' \in Summary /\ account'.version >= account.version
  BY <1>1, <1>same
<1> DEFINE load == Request("load", "FREE", 0)
<1>load. load \in Call /\ CallOK(load, account.version)
  BY <1>1, <1>2
<1>3. CASE OpenPage(c)
  <2>1. page' \in Page /\ page'.slot = "none"
    BY <1>3, BillingTypes DEF OpenPage, Page, NoPage
  <2>2. account' = account /\ nested' = nested /\ browser' = browser /\ calls' = [calls EXCEPT ![c] = load]
    BY <1>3 DEF OpenPage
  <2> HIDE DEF load
  <2> QED BY <1>1, <1>same, <1>load, <2>1, <2>2, CallStep
<1>4. CASE Refresh(c)
  <2>1. ~HoldsBy(calls[c], page.slot)
    BY <1>4 DEF Refresh, Free, HoldsBy
  <2>2. /\ account' = account /\ nested' = nested /\ browser' = browser /\ page' = page
        /\ calls' = [calls EXCEPT ![c] = load]
    BY <1>4 DEF Refresh
  <2> HIDE DEF load
  <2> QED BY <1>1, <1>same, <1>load, <2>1, <2>2, CallStep
<1>5. ASSUME NEW p \in Plans, Act(c, p, Request("checkout", p, 0)) PROVE BillingInv'
  <2> DEFINE new == Request("checkout", p, 0)
  <2>1. page' \in Page /\ page'.slot = p
    BY <1>1, <1>5 DEF Act, Page, Slots
  <2>2. HoldsBy(new, p)
    BY <1>1, BillingTypes DEF HoldsBy
  <2>3. new \in Call /\ CallOK(new, account.version)
    BY <1>2
  <2>4. account' = account /\ nested' = nested /\ browser' = browser /\ calls' = [calls EXCEPT ![c] = new]
    BY <1>5 DEF Act
  <2> HIDE DEF new
  <2> QED BY <1>1, <1>same, <2>1, <2>2, <2>3, <2>4, CallStep
<1>6. CASE handleUpgrade(c)
  BY <1>5, <1>6 DEF handleUpgrade
<1>7. CASE handleCancel(c)
  <2> DEFINE new == Request("cancel", "FREE", 0)
  <2>1. page' \in Page /\ page'.slot = "cancel"
    BY <1>1, <1>7 DEF handleCancel, Act, Page, Slots
  <2>2. HoldsBy(new, "cancel")
    BY <1>1, BillingTypes DEF HoldsBy
  <2>3. new \in Call /\ CallOK(new, account.version)
    BY <1>1, <1>2
  <2>4. account' = account /\ nested' = nested /\ browser' = browser /\ calls' = [calls EXCEPT ![c] = new]
    BY <1>7 DEF handleCancel, Act
  <2> HIDE DEF new
  <2> QED BY <1>1, <1>same, <2>1, <2>2, <2>3, <2>4, CallStep
<1> QED BY <1>3, <1>4, <1>6, <1>7

(* An answer arrives: the call stays what it is for.                       *)
LEMMA Arrival ==
  ASSUME MaxVersion \in Nat, BillingInv,
         account' \in Summary, account'.version >= account.version,
         nested' = nested, page' = page, browser' = browser,
         NEW c \in BillingCalls, NEW ok \in BOOLEAN, NEW body \in Summary, NEW since \in 0 .. MaxVersion,
         calls' = [calls EXCEPT ![c] = [calls[c] EXCEPT !.at = "answered", !.ok = ok,
                                                        !.body = body, !.since = since]],
         calls[c].kind \in {"cancel", "reload"} => since <= account'.version,
         calls[c].kind = "reload" /\ ok => body.mock \/ body.version >= since
  PROVE  BillingInv'
<1> DEFINE new == [calls[c] EXCEPT !.at = "answered", !.ok = ok, !.body = body, !.since = since]
<1>1. calls[c] \in Call /\ page \in Page /\ browser \in {"app", "checkout"}
  BY DEF BillingInv, BillingTypeOK
<1>2. /\ new \in Call /\ new.kind = calls[c].kind /\ new.plan = calls[c].plan /\ new.live = calls[c].live
      /\ new.ok = ok /\ new.body = body /\ new.since = since
  BY <1>1 DEF Call
<1> HIDE DEF new
<1>3. CallOK(new, account'.version)
  BY <1>2 DEF CallOK
<1>4. HoldsBy(calls[c], page.slot) => HoldsBy(new, page.slot)
  BY <1>2 DEF HoldsBy
<1>5. calls' = [calls EXCEPT ![c] = new]
  BY DEF new
<1> QED BY <1>1, <1>2, <1>3, <1>4, <1>5, CallStep

LEMMA FlatVersion ==
  ASSUME NEW s \in Summary
  PROVE  Flat(s) \in Summary /\ Flat(s).version = s.version /\ Flat(s).mock = s.mock
BY DEF Flat, Summary, Plans

LEMMA AnswersKeep ==
  ASSUME MaxVersion \in Nat, BillingInv, NEW c \in BillingCalls,
         LoadAnswer(c) \/ CheckoutAnswer(c) \/ CancelAnswer(c)
  PROVE  BillingInv'
<1>1. /\ account \in Summary /\ calls \in [BillingCalls -> Call] /\ calls[c] \in Call
      /\ account.version \in 0 .. MaxVersion
      /\ calls[c].body \in Summary /\ calls[c].since \in 0 .. MaxVersion
      /\ CallOK(calls[c], account.version)
  BY DEF BillingInv, BillingTypeOK, Call, Summary
<1>2. ASSUME NEW ok \in BOOLEAN
      PROVE  Answer(c, ok) = [calls EXCEPT ![c] = [calls[c] EXCEPT !.at = "answered", !.ok = ok,
                                !.body = calls[c].body, !.since = calls[c].since]]
  BY <1>1 DEF Answer, Call
<1>same. ASSUME account' = account
       PROVE  account' \in Summary /\ account'.version >= account.version
  BY <1>1, <1>same
<1>3. ASSUME calls' = Answer(c, FALSE), UNCHANGED <<account, nested, page, browser>> PROVE BillingInv'
  <2>1. calls[c].kind \in {"cancel", "reload"} => calls[c].since <= account'.version
    BY <1>1, <1>3 DEF CallOK
  <2>2. calls' = [calls EXCEPT ![c] = [calls[c] EXCEPT !.at = "answered", !.ok = FALSE,
                                !.body = calls[c].body, !.since = calls[c].since]]
    BY <1>2, <1>3
  <2> QED BY <1>1, <1>3, <1>same, <2>1, <2>2, Arrival
<1>4. CASE LoadAnswer(c)
  <2>1. ASSUME NEW s \in BillingGet,
               calls' = [calls EXCEPT ![c].at = "answered", ![c].ok = TRUE, ![c].body = Flat(s)]
        PROVE  BillingInv'
    <3>1. s \in Summary /\ (s.mock \/ s.version = account.version)
      BY <1>1, BillingTypes DEF BillingGet
    <3>2. Flat(s) \in Summary /\ (Flat(s).mock \/ Flat(s).version = account.version)
      BY <3>1, FlatVersion
    <3> DEFINE body == Flat(s)
    <3>3. calls' = [calls EXCEPT ![c] = [calls[c] EXCEPT !.at = "answered", !.ok = TRUE,
                                !.body = body, !.since = calls[c].since]]
      BY <1>1, <2>1 DEF Call
    <3> HIDE DEF body
    <3>4. calls[c].kind \in {"cancel", "reload"} => calls[c].since <= account'.version
      BY <1>1, <1>4 DEF CallOK, LoadAnswer
    <3>5. calls[c].kind = "reload" => body.mock \/ body.version >= calls[c].since
      BY <1>1, <3>2 DEF CallOK, body
    <3>6. body \in Summary
      BY <3>2 DEF body
    <3>7. UNCHANGED <<account, nested, page, browser>>
      BY <1>4 DEF LoadAnswer
    <3> QED BY <1>1, <1>same, <3>3, <3>4, <3>5, <3>6, <3>7, Arrival
  <2> QED BY <1>3, <1>4, <2>1 DEF LoadAnswer
<1>5. CASE CheckoutAnswer(c)
  <2>1. PICK ok \in BOOLEAN : calls' = Answer(c, ok)
    BY <1>5 DEF CheckoutAnswer
  <2>2. calls[c].kind = "checkout" /\ UNCHANGED <<account, nested, page, browser>>
    BY <1>5 DEF CheckoutAnswer, Asked
  <2>3. calls' = [calls EXCEPT ![c] = [calls[c] EXCEPT !.at = "answered", !.ok = ok,
                                !.body = calls[c].body, !.since = calls[c].since]]
    BY <1>2, <2>1
  <2> QED BY <1>1, <1>same, <2>2, <2>3, Arrival
<1>6. CASE CancelAnswer(c)
  <2>1. calls[c].kind = "cancel" /\ UNCHANGED <<nested, page, browser>>
    BY <1>6 DEF CancelAnswer, Asked
  <2>2. CASE calls' = Answer(c, FALSE) /\ UNCHANGED account
    BY <1>3, <2>1, <2>2
  <2>3. ASSUME Change(account.plan, TRUE), NEW ok \in BOOLEAN,
               calls' = [Answer(c, ok) EXCEPT ![c].since = account.version + 1]
        PROVE  BillingInv'
    <3> DEFINE n == account.version + 1
    <3>1. /\ account' \in Summary /\ account'.version = n /\ account'.version >= account.version
          /\ account'.version \in 0 .. MaxVersion
      <4>1. account.plan \in Plans
        BY <1>1 DEF Summary
      <4>2. account' \in Summary /\ account'.version = n /\ account'.version >= account.version
        BY <2>3, <4>1, ChangeEffect
      <4> QED BY <4>2 DEF Summary
    <3>2. calls' = [Answer(c, ok) EXCEPT ![c].since = n]
      BY <2>3
    <3> HIDE DEF n
    <3>3. calls' = [calls EXCEPT ![c] = [calls[c] EXCEPT !.at = "answered", !.ok = ok,
                                !.body = calls[c].body, !.since = n]]
      BY <1>1, <3>2 DEF Answer, Call
    <3>4. n \in 0 .. MaxVersion /\ n <= account'.version
      BY <3>1
    <3> QED BY <1>1, <2>1, <3>1, <3>3, <3>4, Arrival
  <2> QED BY <1>6, <2>2, <2>3 DEF CancelAnswer
<1> QED BY <1>4, <1>5, <1>6

(***************************************************************************)
(* What the page does with answers: each ends its call, and the slot is    *)
(* cleared or was not this call's.                                         *)
(***************************************************************************)
LEMMA PageTypes ==
  ASSUME BillingInv, NEW c \in BillingCalls
  PROVE  /\ Loaded(c) \in Page /\ Loaded(c).slot = page.slot
         /\ \A q \in Page : Settled(q, c) \in Page /\ Settled(q, c).slot = "none"
         /\ [page EXCEPT !.actionError = TRUE] \in Page
<1>1. page \in Page /\ calls[c].body \in Summary
  BY DEF BillingInv, BillingTypeOK, Call
<1>2. Loaded(c) \in Page /\ Loaded(c).slot = page.slot
  BY <1>1 DEF Loaded, Page
<1>3. \A q \in Page : Settled(q, c) \in Page /\ Settled(q, c).slot = "none"
  BY DEF Settled, Page, Slots
<1>4. [page EXCEPT !.actionError = TRUE] \in Page
  BY <1>1 DEF Page
<1> QED BY <1>2, <1>3, <1>4

(* A call ends: its page gets new, whose slot is empty, or as it was if    *)
(* the call could not hold it.                                             *)
LEMMA EndKeeps ==
  ASSUME MaxVersion \in Nat, BillingInv, NEW c \in BillingCalls, NEW new \in Page,
         OnPage(c, new), End(c), UNCHANGED <<account, nested, browser>>,
         new.slot = "none" \/ (new.slot = page.slot /\ calls[c].kind = "load")
  PROVE  BillingInv'
<1>1. /\ account \in Summary /\ account.version \in 0 .. MaxVersion
      /\ page \in Page /\ browser \in {"app", "checkout"}
  BY DEF BillingInv, BillingTypeOK, Summary
<1>2. account' \in Summary /\ account'.version >= account.version /\ nested' = nested
  BY <1>1
<1>3. NoCall \in Call /\ CallOK(NoCall, account'.version) /\ calls' = [calls EXCEPT ![c] = NoCall]
  BY BillingTypes DEF CallOK, End
<1>4. page' \in Page
  BY <1>1 DEF OnPage
<1>5. CASE calls[c].live /\ new.slot = "none"
  <2>1. page'.slot = "none"
    BY <1>5 DEF OnPage
  <2> QED BY <1>1, <1>2, <1>3, <1>4, <2>1, CallStep
<1>6. CASE ~(calls[c].live /\ new.slot = "none")
  <2>1. page'.slot = page.slot /\ ~HoldsBy(calls[c], page.slot)
    BY <1>6 DEF OnPage, HoldsBy
  <2> QED BY <1>1, <1>2, <1>3, <1>4, <2>1, CallStep
<1> QED BY <1>5, <1>6

LEMMA FailedKeeps ==
  ASSUME MaxVersion \in Nat, BillingInv, NEW c \in BillingCalls, Failed(c),
         UNCHANGED <<account, nested, browser>>
  PROVE  BillingInv'
<1> DEFINE new == Settled([page EXCEPT !.actionError = TRUE], c)
<1>1. new \in Page /\ new.slot = "none"
  BY PageTypes
<1>2. OnPage(c, new) /\ End(c)
  BY DEF Failed
<1> HIDE DEF new
<1> QED BY <1>1, <1>2, EndKeeps

LEMMA AppliesKeep ==
  ASSUME MaxVersion \in Nat, BillingInv, NEW c \in BillingCalls,
         LoadApply(c) \/ ReloadApply(c) \/ CheckoutApply(c) \/ CancelApply(c)
  PROVE  BillingInv'
<1>1. /\ account \in Summary /\ account.version \in 0 .. MaxVersion
      /\ page \in Page /\ browser \in {"app", "checkout"}
      /\ calls[c] \in Call /\ CallOK(calls[c], account.version)
  BY DEF BillingInv, BillingTypeOK, Summary
<1>2. CASE LoadApply(c)
  <2>1. OnPage(c, Loaded(c)) /\ End(c) /\ calls[c].kind = "load"
    BY <1>2 DEF LoadApply, Answered
  <2>2. UNCHANGED <<account, nested, browser>>
    BY <1>2 DEF LoadApply
  <2>3. Loaded(c) \in Page /\ Loaded(c).slot = page.slot
    BY PageTypes
  <2> QED BY <2>1, <2>2, <2>3, EndKeeps
<1>3. CASE ReloadApply(c)
  <2> DEFINE new == Settled(Loaded(c), c)
  <2>1. new \in Page /\ new.slot = "none"
    BY PageTypes
  <2>2. OnPage(c, new) /\ End(c) /\ UNCHANGED <<account, nested, browser>>
    BY <1>3 DEF ReloadApply
  <2> HIDE DEF new
  <2> QED BY <2>1, <2>2, EndKeeps
<1>4. CASE CheckoutApply(c)
  <2>1. account' = account /\ nested' = nested
    BY <1>4 DEF CheckoutApply
  <2>2. CASE browser' = "checkout" /\ page' = NoPage /\ calls' = [x \in BillingCalls |-> NoCall]
    <3>1. \A x \in BillingCalls : calls'[x] \in Call /\ CallOK(calls'[x], account.version)
      BY <2>2, BillingTypes DEF CallOK
    <3>2. calls' \in [BillingCalls -> Call]
      BY <2>2, BillingTypes
    <3> QED BY <2>1, <2>2, <3>1, <3>2, ClearedStep
  <2>3. CASE OnPage(c, Settled(page, c)) /\ End(c) /\ UNCHANGED browser
    <3> DEFINE new == Settled(page, c)
    <3>1. new \in Page /\ new.slot = "none"
      BY <1>1, PageTypes
    <3>2. OnPage(c, new) /\ End(c) /\ UNCHANGED <<account, nested, browser>>
      BY <2>1, <2>3
    <3> HIDE DEF new
    <3> QED BY <3>1, <3>2, EndKeeps
  <2>4. CASE Failed(c) /\ UNCHANGED browser
    BY <2>1, <2>4, FailedKeeps
  <2> QED BY <1>4, <2>2, <2>3, <2>4 DEF CheckoutApply
<1>5. CASE CancelApply(c)
  <2>1. account' = account /\ nested' = nested /\ browser' = browser /\ calls[c].kind = "cancel"
    BY <1>5 DEF CancelApply, Answered
  <2>2. CASE ~calls[c].ok
    BY <1>5, <2>1, <2>2, FailedKeeps DEF CancelApply
  <2>3. CASE calls[c].ok
    <3> DEFINE new == [Request("reload", "FREE", calls[c].since) EXCEPT !.live = calls[c].live]
    <3>1. calls' = [calls EXCEPT ![c] = new] /\ page' = page
      BY <1>5, <2>3 DEF CancelApply
    <3>2. calls[c].since \in 0 .. MaxVersion /\ calls[c].live \in BOOLEAN /\ "FREE" \in Plans
      BY <1>1 DEF Call, Plans
    <3> DEFINE r == Request("reload", "FREE", calls[c].since)
    <3>3. r \in Call /\ r.kind = "reload" /\ r.since = calls[c].since /\ r.at = "sent"
      BY <3>2, BillingTypes
    <3> HIDE DEF r
    <3>4. /\ new \in Call /\ new.kind = "reload" /\ new.since = calls[c].since
          /\ new.at = "sent" /\ new.live = calls[c].live
      BY <3>2, <3>3 DEF Call, r
    <3> HIDE DEF new
    <3>5. CallOK(new, account'.version)
      BY <1>1, <2>1, <3>4 DEF CallOK
    <3>6. HoldsBy(calls[c], page.slot) => HoldsBy(new, page.slot)
      BY <2>1, <3>4 DEF HoldsBy
    <3>7. account' \in Summary /\ account'.version >= account.version
      BY <1>1, <2>1
    <3> QED BY <1>1, <2>1, <3>1, <3>4, <3>5, <3>6, <3>7, CallStep
  <2> QED BY <2>2, <2>3
<1> QED BY <1>2, <1>3, <1>4, <1>5

LEMMA BillingInitInvariant ==
  ASSUME MaxVersion \in Nat, BillingInit
  PROVE  BillingInv
<1>1. account \in Summary
  BY DEF BillingInit, Summary, Plans
<1>2. BillingTypeOK
  BY <1>1, BillingTypes DEF BillingInit, BillingTypeOK
<1>3. \A c \in BillingCalls : CallOK(calls[c], account.version)
  BY BillingTypes DEF BillingInit, CallOK
<1> QED BY <1>2, <1>3, BillingTypes DEF BillingInv, BillingInit, SlotMeansPending

LEMMA BillingStepKeeps ==
  ASSUME MaxVersion \in Nat, BillingInv, [BillingNext]_billingVars
  PROVE  BillingInv'
<1>1. CASE Webhook \/ PeriodEnds \/ ReturnToApp
  BY <1>1, OutsideKeeps
<1>2. CASE LeavePage
  BY <1>2, LeavePageKeeps
<1>3. ASSUME NEW c \in BillingCalls,
             OpenPage(c) \/ Refresh(c) \/ handleUpgrade(c) \/ handleCancel(c)
      PROVE  BillingInv'
  BY <1>3, SendKeeps
<1>4. ASSUME NEW c \in BillingCalls, LoadAnswer(c) \/ CheckoutAnswer(c) \/ CancelAnswer(c)
      PROVE  BillingInv'
  BY <1>4, AnswersKeep
<1>5. ASSUME NEW c \in BillingCalls,
             LoadApply(c) \/ ReloadApply(c) \/ CheckoutApply(c) \/ CancelApply(c)
      PROVE  BillingInv'
  BY <1>5, AppliesKeep
<1>6. CASE UNCHANGED billingVars
  <2>1. account' = account /\ nested' = nested /\ page' = page /\ calls' = calls /\ browser' = browser
    BY <1>6 DEF billingVars
  <2> QED BY <2>1 DEF BillingInv, BillingTypeOK, SlotMeansPending, Holds
<1> QED BY <1>1, <1>2, <1>3, <1>4, <1>5, <1>6 DEF BillingNext

LEMMA BillingInvariant ==
  ASSUME MaxVersion \in Nat
  PROVE  BillingSpec => []BillingInv
<1>1. BillingInit => BillingInv
  BY BillingInitInvariant
<1>2. BillingInv /\ [BillingNext]_billingVars => BillingInv'
  BY BillingStepKeeps
<1> QED BY <1>1, <1>2, PTL DEF BillingSpec

(* Every state of the billing page, its calls and the subscription is well *)
(* typed (the state hooks of page.tsx, lib/billing.ts).                    *)
THEOREM BillingTypeCorrect ==
  ASSUME MaxVersion \in Nat
  PROVE  BillingSpec => []BillingTypeOK
<1>1. BillingInv => BillingTypeOK
  BY DEF BillingInv
<1> QED BY <1>1, BillingInvariant, PTL

(* A button of the billing page spins only while a call of its kind is in  *)
(* flight, however many share the one slot (handleUpgrade, handleCancel).  *)
THEOREM SlotsMeanPending ==
  ASSUME MaxVersion \in Nat
  PROVE  BillingSpec => []SlotMeansPending
<1>1. BillingInv => SlotMeansPending
  BY DEF BillingInv
<1> QED BY <1>1, BillingInvariant, PTL

(***************************************************************************)
(* A cancellation is over only when its reload has been applied, or it has *)
(* failed, or the page or the document has gone.                           *)
(***************************************************************************)
CancelSeenBy(c) ==
  (Cancelling(c, calls) /\ ~Cancelling(c, calls') /\ calls[c].live /\ browser' = "app"
     /\ page'.at = "shown" /\ calls[c].ok)
  => page'.error \/ page'.billing.mock \/ page'.billing.version >= calls[c].since

LEMMA CancelStep ==
  ASSUME MaxVersion \in Nat, BillingInv, BillingNext, NEW c \in BillingCalls
  PROVE  CancelSeenBy(c)
<1> SUFFICES ASSUME Cancelling(c, calls), ~Cancelling(c, calls'), calls[c].live,
                    browser' = "app", page'.at = "shown", calls[c].ok
             PROVE  page'.error \/ page'.billing.mock \/ page'.billing.version >= calls[c].since
  BY DEF CancelSeenBy
<1>1. calls[c].kind \in {"cancel", "reload"} /\ calls'[c].kind \notin {"cancel", "reload"}
  BY DEF Cancelling
<1>2. calls \in [BillingCalls -> Call] /\ page \in Page
  BY DEF BillingInv, BillingTypeOK
<1>3. ~(Webhook \/ PeriodEnds \/ ReturnToApp)
  BY <1>1 DEF Webhook, PeriodEnds, ReturnToApp
<1>4. ~LeavePage
  BY BillingTypes DEF LeavePage
<1>5. ASSUME NEW d \in BillingCalls, NEW r, calls' = [calls EXCEPT ![d] = r]
      PROVE  d = c /\ r.kind \notin {"cancel", "reload"}
  BY <1>1, <1>2, <1>5
<1>6. ASSUME NEW d \in BillingCalls PROVE ~(OpenPage(d) \/ Refresh(d) \/ handleUpgrade(d) \/ handleCancel(d))
  <2> SUFFICES ASSUME OpenPage(d) \/ Refresh(d) \/ handleUpgrade(d) \/ handleCancel(d) PROVE FALSE
    OBVIOUS
  <2>1. PICK r : calls' = [calls EXCEPT ![d] = r]
    BY DEF OpenPage, Refresh, handleUpgrade, handleCancel, Act
  <2>2. calls[d].kind = "none"
    BY DEF OpenPage, Refresh, handleUpgrade, handleCancel, Act, Free
  <2> QED BY <1>1, <1>5, <2>1, <2>2
<1>7. ASSUME NEW d \in BillingCalls PROVE ~(LoadAnswer(d) \/ CheckoutAnswer(d) \/ CancelAnswer(d))
  <2>1. \A ok \in BOOLEAN : calls' # Answer(d, ok)
    BY <1>1, <1>2 DEF Answer, Call
  <2>2. \A ok \in BOOLEAN : \A n : calls' # [Answer(d, ok) EXCEPT ![d].since = n]
    BY <1>1, <1>2 DEF Answer, Call
  <2>3. \A b : calls' # [calls EXCEPT ![d].at = "answered", ![d].ok = TRUE, ![d].body = b]
    BY <1>1, <1>2 DEF Call
  <2>4. ~LoadAnswer(d)
    BY <2>1, <2>3 DEF LoadAnswer
  <2>5. ~CheckoutAnswer(d)
    BY <2>1 DEF CheckoutAnswer
  <2>6. ~CancelAnswer(d)
    BY <2>1, <2>2 DEF CancelAnswer
  <2> QED BY <2>4, <2>5, <2>6
<1>8. ASSUME NEW d \in BillingCalls, End(d) PROVE d = c
  BY <1>5, <1>8 DEF End
<1>9. ASSUME NEW d \in BillingCalls PROVE ~LoadApply(d) /\ ~CheckoutApply(d)
  <2>1. ~LoadApply(d)
    BY <1>1, <1>8 DEF LoadApply, Answered
  <2>2. ~(CheckoutApply(d) /\ End(d))
    BY <1>1, <1>8 DEF CheckoutApply, Answered
  <2>3. ~(CheckoutApply(d) /\ browser' = "checkout")
    OBVIOUS
  <2> QED BY <2>1, <2>2, <2>3 DEF CheckoutApply, Failed
<1>10. ASSUME NEW d \in BillingCalls PROVE ~CancelApply(d)
  <2> SUFFICES ASSUME CancelApply(d) PROVE FALSE
    OBVIOUS
  <2>1. CASE ~calls[d].ok
    BY <1>8, <2>1 DEF CancelApply, Failed
  <2>2. CASE calls[d].ok
    <3> DEFINE r == [Request("reload", "FREE", calls[d].since) EXCEPT !.live = calls[d].live]
    <3>1. calls' = [calls EXCEPT ![d] = r]
      BY <2>2 DEF CancelApply
    <3>2. r.kind = "reload"
      BY DEF Request, NoCall
    <3> HIDE DEF r
    <3> QED BY <1>5, <3>1, <3>2
  <2> QED BY <2>1, <2>2
<1>11. PICK d \in BillingCalls : ReloadApply(d)
  BY <1>3, <1>4, <1>6, <1>7, <1>9, <1>10 DEF BillingNext
<1>12. d = c
  BY <1>8, <1>11 DEF ReloadApply
<1>13. page' = Settled(Loaded(c), c)
  BY <1>11, <1>12 DEF ReloadApply, OnPage
<1>14. page'.billing = calls[c].body
  BY <1>2, <1>13 DEF Settled, Loaded, Page
<1>15. CallOK(calls[c], account.version)
  BY DEF BillingInv
<1>16. calls[c].body.mock \/ calls[c].body.version >= calls[c].since
  BY <1>11, <1>12, <1>15 DEF ReloadApply, Answered, CallOK
<1> QED BY <1>14, <1>16

(* When a successful cancellation ends, the page has been shown it, or a   *)
(* failed or made-up reload, whatever other loads are in flight            *)
(* (handleCancel awaits its load).                                         *)
THEOREM CancellationsAreSeen ==
  ASSUME MaxVersion \in Nat
  PROVE  BillingSpec => CancelIsSeen
<1>1. BillingInv /\ [BillingNext]_billingVars =>
        [\A c \in BillingCalls :
           (Cancelling(c, calls) /\ ~Cancelling(c, calls') /\ calls[c].live /\ browser' = "app"
              /\ page'.at = "shown" /\ calls[c].ok)
           => page'.error \/ page'.billing.mock \/ page'.billing.version >= calls[c].since]_billingVars
  BY CancelStep DEF CancelSeenBy
<1> QED BY <1>1, BillingInvariant, PTL DEF BillingSpec, CancelIsSeen

-----------------------------------------------------------------------------
(***************************************************************************)
(* The frame of the dashboard for any list of links and any number of      *)
(* timers: its states are well typed, and a page that has been faded out   *)
(* has a successor.                                                        *)
(*                                                                         *)
(* The second fact is inductive as soon as the state is well typed.  A     *)
(* timer that goes off moves its address from the timers to the router     *)
(* and leaves the last wish what it was; an arrival that is not the last   *)
(* wish changes the page, and the layout's effect fades it in; an arrival  *)
(* at the page that is open was not the last wish, which leads elsewhere.  *)
(***************************************************************************)

(* The last of several wishes stays the last when the first is taken out,  *)
(* and a new one becomes the last (handleNavigate, TimerFires).            *)
LEMMA TailKeepsLast ==
  ASSUME NEW S, NEW s \in Seq(S), s # <<>>
  PROVE  /\ Tail(s) \in Seq(S) /\ Head(s) \in S /\ Len(Tail(s)) = Len(s) - 1 /\ Len(s) > 0
         /\ Tail(s) # <<>> => Tail(s)[Len(Tail(s))] = s[Len(s)]
         /\ Tail(s) = <<>> => Head(s) = s[Len(s)]
<1>1. Len(s) \in Nat /\ Len(s) > 0
  BY EmptySeq
<1>2. Tail(s) \in Seq(S) /\ Head(s) \in S /\ Len(Tail(s)) = Len(s) - 1
  BY <1>1, HeadTailProperties
<1>3. Tail(s) # <<>> => Tail(s)[Len(Tail(s))] = s[Len(s)]
  <2> SUFFICES ASSUME Tail(s) # <<>> PROVE Tail(s)[Len(Tail(s))] = s[Len(s)]
    OBVIOUS
  <2>1. Len(Tail(s)) > 0
    BY <1>2, EmptySeq
  <2> QED BY <1>1, <1>2, <2>1
<1>4. Tail(s) = <<>> => Head(s) = s[Len(s)]
  <2> SUFFICES ASSUME Tail(s) = <<>> PROVE Head(s) = s[Len(s)]
    OBVIOUS
  <2>1. Len(Tail(s)) = 0
    BY EmptySeq
  <2>2. Len(Tail(s)) = Len(s) - 1
    BY <1>2
  <2> DEFINE n == Len(s)
             k == Len(Tail(s))
  <2>3. n \in Nat /\ k = 0 /\ k = n - 1
    BY <1>1, <2>1, <2>2
  <2> HIDE DEF n, k
  <2>4. n = 1
    BY <2>3
  <2>5. s[Len(s)] = s[1] /\ Head(s) = s[1]
    BY <2>4 DEF n
  <2> QED BY <2>5
<1> QED BY <1>1, <1>2, <1>3, <1>4

(***************************************************************************)
(* The inductive invariant: the state's types without the search, and      *)
(* FadeHasSuccessor.  Faded says of a state that its page is faded out.    *)
(***************************************************************************)
Search == [matches : SUBSET Listed, focused : BOOLEAN]
Frame == [content : {"page-enter", "page-exit"}, collapsed : BOOLEAN]

ShellTypes ==
  /\ path \in Places
  /\ timers \in Seq(Places) /\ Len(timers) <= MaxTimers
  /\ pushing \in Places \cup {""}
  /\ frame \in Frame
  /\ search \in Search

ShellInv == ShellTypes /\ FadeHasSuccessor

(* What a step that leaves the navigation alone does: the content is as    *)
(* before, or fades in.                                                    *)
Aside ==
  /\ frame' \in Frame /\ search' \in Search
  /\ frame'.content = frame.content
  /\ UNCHANGED <<path, timers, pushing>>

(* What handleNavigate does, as an effect on everything but the search.    *)
Wish(href) ==
  /\ Len(timers) < MaxTimers
  /\ href # path
  /\ frame' = [frame EXCEPT !.content = "page-exit"]
  /\ timers' = Append(timers, href)
  /\ UNCHANGED <<path, pushing>>

LEMMA Addresses ==
  ASSUME ShellConstants
  PROVE  /\ "" \notin Places
         /\ Profile \in Places /\ Site \in Places /\ Hrefs \subseteq Places /\ Listed \subseteq Hrefs
         /\ \A i \in DOMAIN Links : Links[i] \in Places
         /\ Links[Len(Links)] \in Places
<1>1. Len(Links) \in DOMAIN Links
  <2>1. Len(Links) \in Nat \ {0}
    BY EmptySeq DEF ShellConstants
  <2>2. DOMAIN Links = 1 .. Len(Links)
    BY LenProperties DEF ShellConstants
  <2> QED BY <2>1, <2>2
<1> QED BY <1>1 DEF ShellConstants, Places, Hrefs, Listed, Site

LEMMA MountedTypes ==
  /\ Mounted \in Frame /\ Mounted.content = "page-enter"
  /\ NoSearch \in Search
BY DEF Mounted, NoSearch, Frame, Search

LEMMA NoTimers ==
  ASSUME ShellConstants
  PROVE  <<>> \in Seq(Places) /\ Len(<<>>) <= MaxTimers
<1>1. MaxTimers \in Nat
  BY DEF ShellConstants
<1>2. <<>> \in Seq(Places) /\ Len(<<>>) = 0
  BY EmptySeq
<1> QED BY <1>1, <1>2

LEMMA ShellInitInvariant ==
  ASSUME ShellConstants, ShellInit
  PROVE  ShellInv
<1>1. ShellTypes
  <2>1. timers = <<>> /\ pushing = "" /\ path = Site /\ frame = Mounted /\ search = NoSearch
    BY DEF ShellInit
  <2>2. timers \in Seq(Places) /\ Len(timers) <= MaxTimers
    BY <2>1, NoTimers
  <2> QED BY <2>1, <2>2, MountedTypes, Addresses DEF ShellTypes
<1>2. FadeHasSuccessor
  BY MountedTypes DEF ShellInit, FadeHasSuccessor
<1> QED BY <1>1, <1>2 DEF ShellInv

(***************************************************************************)
(* The effects, one by one.                                                *)
(***************************************************************************)
LEMMA AsideKeeps ==
  ASSUME ShellInv, Aside
  PROVE  ShellInv'
BY DEF ShellInv, ShellTypes, Aside, FadeHasSuccessor, InDashboard, LastWish

(* A page that fades in, or a new layout, owes nothing to anybody.         *)
LEMMA FadedInKeeps ==
  ASSUME ShellTypes', frame'.content = "page-enter"
  PROVE  ShellInv'
BY DEF ShellInv, FadeHasSuccessor

(* handleNavigate: the new wish is the last, and leads elsewhere.          *)
LEMMA WishKeeps ==
  ASSUME ShellConstants, ShellInv, NEW href \in Places, InDashboard, Wish(href), search' \in Search
  PROVE  ShellInv'
<1>1. href # ""
  BY Addresses
<1>2. timers \in Seq(Places) /\ Len(timers) \in Nat
  <2>1. timers \in Seq(Places)
    BY DEF ShellInv, ShellTypes
  <2> QED BY <2>1, LenProperties
<1>3. timers' \in Seq(Places) /\ timers' # <<>> /\ Len(timers') = Len(timers) + 1
  BY <1>2, AppendProperties DEF Wish
<1>4. timers'[Len(timers')] = href
  BY <1>2, <1>3, AppendProperties DEF Wish
<1>5. frame' \in Frame /\ path' = path /\ pushing' = pushing
  BY DEF Wish, ShellInv, ShellTypes, Frame
<1>6. Len(timers') <= MaxTimers
  <2>1. MaxTimers \in Nat /\ Len(timers) < MaxTimers
    BY DEF Wish, ShellConstants
  <2> DEFINE n == Len(timers)
             k == Len(timers')
  <2>2. n \in Nat /\ n < MaxTimers /\ k = n + 1
    BY <1>2, <1>3, <2>1
  <2> HIDE DEF n, k
  <2>3. k <= MaxTimers
    BY <2>1, <2>2
  <2> QED BY <2>3 DEF k
<1>7. ShellTypes'
  BY <1>3, <1>5, <1>6 DEF ShellInv, ShellTypes
<1>8. LastWish' = href
  BY <1>3, <1>4 DEF LastWish
<1>9. FadeHasSuccessor'
  BY <1>1, <1>5, <1>8 DEF FadeHasSuccessor, InDashboard, Wish
<1> QED BY <1>7, <1>9 DEF ShellInv

LEMMA NavigateKeeps ==
  ASSUME ShellConstants, ShellInv, NEW href \in Places, InDashboard, handleNavigate(href),
         search' \in Search
  PROVE  ShellInv'
<1>1. CASE href = path /\ UNCHANGED <<path, timers, pushing, frame>>
  <2>1. Aside
    BY <1>1 DEF Aside, ShellInv, ShellTypes
  <2> QED BY <2>1, AsideKeeps
<1>2. CASE Wish(href)
  BY <1>2, WishKeeps
<1> QED BY <1>1, <1>2 DEF handleNavigate, Wish

(* TimerFires: the last wish stays what it was.                            *)
LEMMA TimerKeeps ==
  ASSUME ShellConstants, ShellInv, TimerFires
  PROVE  ShellInv'
<1>1. timers \in Seq(Places) /\ timers # <<>> /\ Len(timers) \in Nat
  <2>1. timers \in Seq(Places) /\ timers # <<>>
    BY DEF ShellInv, ShellTypes, TimerFires
  <2> QED BY <2>1, LenProperties
<1>2. timers' = Tail(timers) /\ pushing' = Head(timers)
  BY DEF TimerFires
<1>3. /\ timers' \in Seq(Places) /\ pushing' \in Places /\ Len(timers') = Len(timers) - 1
      /\ timers' # <<>> => timers'[Len(timers')] = timers[Len(timers)]
      /\ timers' = <<>> => pushing' = timers[Len(timers)]
  BY <1>1, <1>2, TailKeepsLast
<1>4. path' = path /\ frame' = frame /\ search' = search
  BY DEF TimerFires
<1>5. Len(timers') <= MaxTimers
  <2>1. MaxTimers \in Nat /\ Len(timers) <= MaxTimers
    BY DEF ShellInv, ShellTypes, ShellConstants
  <2> DEFINE n == Len(timers)
             k == Len(timers')
  <2>2. n \in Nat /\ n <= MaxTimers /\ k = n - 1
    BY <1>1, <1>3, <2>1
  <2> HIDE DEF n, k
  <2>3. k <= MaxTimers
    BY <2>1, <2>2
  <2> QED BY <2>3 DEF k
<1>6. ShellTypes'
  BY <1>3, <1>4, <1>5 DEF ShellInv, ShellTypes
<1>7. LastWish' = LastWish
  BY <1>1, <1>3 DEF LastWish
<1>8. FadeHasSuccessor'
  BY <1>4, <1>7 DEF ShellInv, FadeHasSuccessor, InDashboard
<1> QED BY <1>6, <1>8 DEF ShellInv

(* Open: either nothing is seen of it, or the content is faded in.         *)
LEMMA OpenEffect ==
  ASSUME ShellInv, NEW p \in Places, Open(p)
  PROVE  /\ path' = p /\ frame' \in Frame /\ search' \in Search
         /\ p = path => frame' = frame
         /\ p # path => frame'.content = "page-enter"
<1>1. CASE p = path
  BY <1>1 DEF Open, ShellInv, ShellTypes
<1>2. CASE p # path /\ InDashboard /\ p \in Hrefs
  BY <1>2 DEF Open, ShellInv, ShellTypes, Frame
<1>3. CASE p # path /\ ~(InDashboard /\ p \in Hrefs)
  BY <1>3, MountedTypes DEF Open
<1> QED BY <1>1, <1>2, <1>3

LEMMA ArrivalKeeps ==
  ASSUME ShellConstants, ShellInv, Arrives
  PROVE  ShellInv'
<1>1. pushing \in Places /\ Open(pushing) /\ timers' = timers /\ pushing' = ""
  BY DEF Arrives, ShellInv, ShellTypes
<1>2. /\ path' = pushing /\ frame' \in Frame /\ search' \in Search
      /\ pushing = path => frame' = frame
      /\ pushing # path => frame'.content = "page-enter"
  BY <1>1, OpenEffect
<1>3. ShellTypes'
  BY <1>1, <1>2 DEF ShellInv, ShellTypes
<1>4. CASE pushing # path
  BY <1>2, <1>3, <1>4, FadedInKeeps
<1>5. CASE pushing = path
  <2>1. frame' = frame /\ path' = path
    BY <1>2, <1>5
  <2>2. FadeHasSuccessor'
    <3> SUFFICES ASSUME frame.content = "page-exit"
                 PROVE  InDashboard /\ LastWish' \notin {"", path}
      BY <2>1 DEF FadeHasSuccessor, InDashboard
    <3>1. InDashboard /\ LastWish \notin {"", path}
      BY DEF ShellInv, FadeHasSuccessor
    <3>2. timers # <<>>
      BY <1>5, <3>1 DEF LastWish
    <3>3. LastWish' = LastWish
      BY <1>1, <3>2 DEF LastWish
    <3> QED BY <3>1, <3>3
  <2> QED BY <1>3, <2>2 DEF ShellInv
<1> QED BY <1>4, <1>5

LEMMA OtherwiseKeeps ==
  ASSUME ShellConstants, ShellInv, NEW p \in Places, OpenedOtherwise(p)
  PROVE  ShellInv'
<1>1. p # path /\ Open(p) /\ timers' = timers /\ pushing' = ""
  BY DEF OpenedOtherwise
<1>2. path' = p /\ frame' \in Frame /\ search' \in Search /\ frame'.content = "page-enter"
  BY <1>1, OpenEffect
<1>3. ShellTypes'
  BY <1>1, <1>2 DEF ShellInv, ShellTypes
<1> QED BY <1>2, <1>3, FadedInKeeps

LEMMA DocumentKeeps ==
  ASSUME ShellConstants, ShellInv, NEW p \in Places, LoadDocument(p)
  PROVE  ShellInv'
<1>1. frame' = Mounted /\ search' = NoSearch /\ path' = p /\ timers' = <<>> /\ pushing' = ""
  BY DEF LoadDocument
<1>2. timers' \in Seq(Places) /\ Len(timers') <= MaxTimers
  BY <1>1, NoTimers
<1>3. ShellTypes'
  BY <1>1, <1>2, MountedTypes DEF ShellTypes
<1> QED BY <1>1, <1>3, MountedTypes, FadedInKeeps

(***************************************************************************)
(* The header's actions: they only touch the search, or navigate.          *)
(***************************************************************************)
LEMMA HeaderKeeps ==
  ASSUME ShellConstants, ShellInv, DashboardHeader
  PROVE  ShellInv'
<1>1. frame \in Frame /\ search \in Search
  BY DEF ShellInv, ShellTypes
<1>2. CASE onToggle
  <2>1. Aside
    BY <1>1, <1>2 DEF onToggle, Aside, Frame, Search
  <2> QED BY <2>1, AsideKeeps
<1>3. CASE Focus \/ Unfocus
  <2>1. Aside
    BY <1>1, <1>3 DEF Focus, Unfocus, Aside, Search
  <2> QED BY <2>1, AsideKeeps
<1>4. ASSUME NEW links \in SUBSET Listed, Type(links) PROVE ShellInv'
  <2>1. Aside
    BY <1>1, <1>4 DEF Type, Aside, Search
  <2> QED BY <2>1, AsideKeeps
<1>5. ASSUME NEW href \in Places, headerNavigate(href) PROVE ShellInv'
  BY <1>5, MountedTypes, NavigateKeeps DEF headerNavigate
<1>6. CASE Enter
  <2>1. PICK i \in searchResults : headerNavigate(Links[i])
    BY <1>6 DEF Enter
  <2>2. i \in DOMAIN Links
    BY DEF searchResults, Hits, searchItems
  <2> QED BY <1>5, <2>1, <2>2, Addresses
<1>7. CASE Choose
  <2>1. PICK i \in searchResults : headerNavigate(Links[i])
    BY <1>7 DEF Choose, ResultsShown
  <2>2. i \in DOMAIN Links
    BY DEF searchResults, Hits, searchItems
  <2> QED BY <1>5, <2>1, <2>2, Addresses
<1>8. ASSUME NEW href \in {Profile, Links[Len(Links)]}, handleActionClick(href) PROVE ShellInv'
  <2>1. href \in Places
    BY Addresses
  <2> QED BY <1>5, <1>8, <2>1 DEF handleActionClick
<1> QED BY <1>2, <1>3, <1>4, <1>6, <1>7, <1>8 DEF DashboardHeader

LEMMA ShellStepKeeps ==
  ASSUME ShellConstants, ShellInv, [ShellNext]_shellVars
  PROVE  ShellInv'
<1>1. CASE TimerFires
  BY <1>1, TimerKeeps
<1>2. CASE Arrives
  BY <1>2, ArrivalKeeps
<1>3. CASE SidebarSignOut
  BY <1>3, Addresses, DocumentKeeps DEF SidebarSignOut
<1>4. CASE DashboardHeader
  BY <1>4, HeaderKeeps
<1>5. ASSUME NEW p \in Places, OpenedOtherwise(p) PROVE ShellInv'
  BY <1>5, OtherwiseKeeps
<1>6. ASSUME NEW p \in Places, SidebarDocs(p) PROVE ShellInv'
  <2>1. search' \in Search
    BY <1>6 DEF SidebarDocs, ShellInv, ShellTypes, Search
  <2> QED BY <1>6, <2>1, NavigateKeeps DEF SidebarDocs
<1>7. ASSUME NEW p \in Hrefs, QuickLink(p) PROVE ShellInv'
  <2>1. p \in Places
    BY Addresses
  <2> QED BY <1>7, <2>1, DocumentKeeps DEF QuickLink
<1>8. CASE UNCHANGED shellVars
  <2>1. Aside
    BY <1>8 DEF shellVars, Aside, ShellInv, ShellTypes
  <2> QED BY <2>1, AsideKeeps
<1> QED BY <1>1, <1>2, <1>3, <1>4, <1>5, <1>6, <1>7, <1>8 DEF ShellNext

LEMMA ShellInvariant ==
  ASSUME ShellConstants
  PROVE  ShellSpec => []ShellInv
<1>1. ShellInit => ShellInv
  BY ShellInitInvariant
<1>2. ShellInv /\ [ShellNext]_shellVars => ShellInv'
  BY ShellStepKeeps
<1> QED BY <1>1, <1>2, PTL DEF ShellSpec

(* Every state of the layout and its search is well typed, no more timers  *)
(* run than were started, and the search never offers the page that the    *)
(* sidebar marks (layout.tsx, dashboard-header.tsx).                       *)
THEOREM ShellTypeCorrect ==
  ASSUME ShellConstants
  PROVE  ShellSpec => []ShellTypeOK
<1>1. ShellInv => ShellTypeOK
  <2> SUFFICES ASSUME ShellInv PROVE ShellTypeOK
    OBVIOUS
  <2>1. Marked \cap ResultsShown = {}
    <3>1. \A href \in Marked : href = path
      BY DEF Marked, isActiveRoute
    <3>2. \A href \in ResultsShown : href # path
      BY DEF ResultsShown, searchResults, Hits, searchItems
    <3> QED BY <3>1, <3>2
  <2> QED BY <2>1 DEF ShellInv, ShellTypes, ShellTypeOK, Frame, Search
<1> QED BY <1>1, ShellInvariant, PTL

(* A page that has been faded out has a successor, whatever clicks, Back,  *)
(* slow arrivals and timers that nobody cancels do (the layout's           *)
(* handleNavigate and its effect on the pathname).                         *)
THEOREM FadesHaveSuccessors ==
  ASSUME ShellConstants
  PROVE  ShellSpec => []FadeHasSuccessor
<1>1. ShellInv => FadeHasSuccessor
  BY DEF ShellInv
<1> QED BY <1>1, ShellInvariant, PTL
-----------------------------------------------------------------------------
(***************************************************************************)
(* The assistant, for any number of questions: an answer stands under the  *)
(* question it answers.                                                    *)
(*                                                                         *)
(* What is inductive is that a chat which is loading waits for one answer, *)
(* to its last question, and that this question is at the end of its list  *)
(* or was cleared away with the whole list; a chat that is not loading     *)
(* waits for none.                                                         *)
(***************************************************************************)
Awaits(n) == \E a \in Asks : a.number = n /\ asks = {a}

LastIsAsked ==
  \/ chat.messages = <<>> /\ chat.cleared = chat.asked
  \/ /\ chat.messages # <<>>
     /\ chat.messages[Len(chat.messages)] = [role |-> "user", ask |-> chat.asked]

ChatInv ==
  /\ ChatTypeOK
  /\ IF chat.loading THEN Awaits(chat.asked) /\ LastIsAsked ELSE asks = {}
  /\ AnswersFollowQuestions

LEMMA AppendKeepsOrder ==
  ASSUME ChatInv, NEW m \in Messages,
         m.role = "assistant" =>
           IF chat.messages = <<>> THEN m.ask <= chat.cleared
           ELSE chat.messages[Len(chat.messages)] = [role |-> "user", ask |-> m.ask],
         chat'.messages = Append(chat.messages, m), chat'.cleared = chat.cleared
  PROVE  AnswersFollowQuestions'
<1> DEFINE s == chat.messages
<1>1. /\ s \in Seq(Messages) /\ Len(s) \in Nat /\ DOMAIN s = 1 .. Len(s)
      /\ DOMAIN Append(s, m) = 1 .. (Len(s) + 1) /\ Append(s, m)[Len(s) + 1] = m
      /\ \A i \in 1 .. Len(s) : Append(s, m)[i] = s[i]
  BY AppendProperties, LenProperties DEF ChatInv, ChatTypeOK, Chats
<1>2. s = <<>> <=> Len(s) = 0
  BY <1>1, EmptySeq
<1>3. ASSUME NEW i \in 1 .. (Len(s) + 1), Append(s, m)[i].role = "assistant"
      PROVE  IF i = 1 THEN Append(s, m)[i].ask <= chat.cleared
             ELSE Append(s, m)[i - 1] = [role |-> "user", ask |-> Append(s, m)[i].ask]
  <2>1. CASE i = Len(s) + 1
    BY <1>1, <1>2, <1>3, <2>1
  <2>2. CASE i # Len(s) + 1
    <3>1. i \in 1 .. Len(s) /\ Append(s, m)[i] = s[i]
      BY <1>1, <2>2
    <3>2. IF i = 1 THEN s[i].ask <= chat.cleared
          ELSE s[i - 1] = [role |-> "user", ask |-> s[i].ask]
      BY <1>1, <1>3, <3>1 DEF ChatInv, AnswersFollowQuestions
    <3>3. i # 1 => i - 1 \in 1 .. Len(s)
      BY <1>1, <3>1
    <3> QED BY <1>1, <3>1, <3>2, <3>3
  <2> QED BY <2>1, <2>2
<1> QED BY <1>1, <1>3 DEF AnswersFollowQuestions

LEMMA NewChatType ==
  ASSUME NEW s \in {"page", "widget"}
  PROVE  NewChat(DefaultModel(s)) \in Chats
BY ChatAssumption, EmptySeq DEF NewChat, DefaultModel, Chats, Models

LEMMA ChatInitInv == ChatInit => ChatInv
<1> SUFFICES ASSUME ChatInit PROVE ChatInv
  OBVIOUS
<1>1. ChatTypeOK
  BY NewChatType DEF ChatInit, ChatTypeOK
<1> QED BY <1>1 DEF ChatInit, ChatInv, NewChat, AnswersFollowQuestions

(* A step that asks and answers nothing, and keeps the list.               *)
LEMMA SameListKeeps ==
  ASSUME ChatInv, UNCHANGED <<surface, keys, asks>>, chat' \in Chats,
         chat'.messages = chat.messages, chat'.loading = chat.loading,
         chat'.asked = chat.asked, chat'.cleared = chat.cleared
  PROVE  ChatInv'
BY DEF ChatInv, ChatTypeOK, Awaits, LastIsAsked, AnswersFollowQuestions

LEMMA SubmitKeeps ==
  ASSUME ChatInv, submit
  PROVE  ChatInv'
<1> DEFINE n == chat.asked + 1
           m == [role |-> "user", ask |-> n]
           a == [number |-> n, model |-> chat.model, answer |-> "awaited"]
<1>1. /\ ~chat.loading /\ asks = {} /\ n \in 1 .. MaxAsks /\ chat \in Chats
  BY ChatAssumption DEF submit, CanAsk, AskPage, AskWidget, ChatInv, ChatTypeOK, Chats
<1>2. /\ chat' = [chat EXCEPT !.messages = Append(@, m), !.loading = TRUE,
                              !.error = FALSE, !.asked = n]
      /\ asks' = {a}
  BY <1>1 DEF submit
<1>3. m \in Messages /\ m.role = "user" /\ a \in Asks /\ a.number = n
  BY <1>1 DEF Messages, Asks, Chats
<1>4. /\ Append(chat.messages, m) \in Seq(Messages) /\ Append(chat.messages, m) # <<>>
      /\ Len(Append(chat.messages, m)) = Len(chat.messages) + 1
      /\ Append(chat.messages, m)[Len(chat.messages) + 1] = m
  BY <1>1, <1>3, AppendProperties DEF Chats
<1> HIDE DEF n, m, a
<1>5. /\ chat' \in Chats /\ chat'.messages = Append(chat.messages, m) /\ chat'.loading
      /\ chat'.asked = n /\ chat'.cleared = chat.cleared
  <2>1. n \in 0 .. MaxAsks
    BY <1>1
  <2> QED BY <1>1, <1>2, <1>4, <2>1 DEF Chats
<1>6. AnswersFollowQuestions'
  BY <1>3, <1>5, AppendKeepsOrder
<1>7. ChatTypeOK'
  BY <1>2, <1>3, <1>5 DEF submit, Keep, ChatInv, ChatTypeOK
<1>8. LastIsAsked' /\ Awaits(chat.asked)'
  BY <1>2, <1>3, <1>4, <1>5 DEF LastIsAsked, Awaits, m
<1> QED BY <1>5, <1>6, <1>7, <1>8 DEF ChatInv

LEMMA ClearKeeps ==
  ASSUME ChatInv, clearHistory
  PROVE  ChatInv'
<1>1. chat' \in Chats /\ chat'.messages = <<>> /\ chat'.loading = chat.loading
      /\ chat'.asked = chat.asked /\ chat'.cleared = chat.asked
  BY EmptySeq DEF ChatInv, ChatTypeOK, Chats, clearHistory
<1>2. asks' = asks /\ ChatTypeOK'
  BY <1>1 DEF ChatInv, ChatTypeOK, clearHistory
<1> QED BY <1>1, <1>2 DEF ChatInv, Awaits, LastIsAsked, AnswersFollowQuestions

LEMMA ChooseModelKeeps ==
  ASSUME ChatInv, ChooseModel
  PROVE  ChatInv'
<1>1. chat \in Chats /\ UNCHANGED <<surface, keys, asks>>
  BY DEF ChatInv, ChatTypeOK, ChooseModel
<1>2. PICK m \in Models : chat' = [chat EXCEPT !.model = m, !.modelOpen = FALSE]
  BY DEF ChooseModel
<1>3. chat' \in Chats /\ chat'.messages = chat.messages /\ chat'.loading = chat.loading
      /\ chat'.asked = chat.asked /\ chat'.cleared = chat.cleared
  BY <1>1, <1>2 DEF Chats
<1> QED BY <1>1, <1>3, SameListKeeps

LEMMA ToggleKeeps ==
  ASSUME ChatInv, Toggle
  PROVE  ChatInv'
<1>1. chat \in Chats /\ UNCHANGED <<surface, keys, asks>>
  BY DEF ChatInv, ChatTypeOK, Toggle
<1>2. chat' \in Chats /\ chat'.messages = chat.messages /\ chat'.loading = chat.loading
      /\ chat'.asked = chat.asked /\ chat'.cleared = chat.cleared
  BY <1>1 DEF Chats, Toggle
<1> QED BY <1>1, <1>2, SameListKeeps

LEMMA RemountKeeps ==
  ASSUME ChatInv, Remount
  PROVE  ChatInv'
<1> DEFINE new == NewChat(DefaultModel(surface))
<1>1. new \in Chats /\ new.messages = <<>> /\ ~new.loading /\ chat \in Chats
  BY NewChatType DEF ChatInv, ChatTypeOK, NewChat
<1>2. chat' = [new EXCEPT !.asked = chat.asked, !.cleared = chat.asked] /\ asks' = {}
  BY DEF Remount
<1> HIDE DEF new
<1>3. chat' \in Chats /\ chat'.messages = <<>> /\ ~chat'.loading
  BY <1>1, <1>2 DEF Chats
<1>4. ChatTypeOK'
  BY <1>2, <1>3 DEF ChatInv, ChatTypeOK, Remount, Keep
<1> QED BY <1>2, <1>3, <1>4 DEF ChatInv, AnswersFollowQuestions

(* There is one request, the one the chat waits for.                       *)
LEMMA TheRequest ==
  ASSUME ChatInv, NEW a \in asks
  PROVE  chat.loading /\ LastIsAsked /\ asks = {a} /\ a.number = chat.asked /\ a \in Asks
BY DEF ChatInv, ChatTypeOK, Awaits

LEMMA RouteAnswerKeeps ==
  ASSUME ChatInv, NEW a \in asks, RouteAnswer(a)
  PROVE  ChatInv'
<1>1. chat.loading /\ LastIsAsked /\ asks = {a} /\ a.number = chat.asked /\ a \in Asks
  BY TheRequest
<1>2. PICK answer \in {"content", "error"} : asks' = (asks \ {a}) \cup {[a EXCEPT !.answer = answer]}
  BY DEF RouteAnswer
<1>3. /\ asks' = {[a EXCEPT !.answer = answer]}
      /\ [a EXCEPT !.answer = answer] \in Asks /\ [a EXCEPT !.answer = answer].number = chat.asked
  BY <1>1, <1>2 DEF Asks
<1> QED BY <1>1, <1>3 DEF RouteAnswer, ChatInv, ChatTypeOK, Awaits, LastIsAsked, AnswersFollowQuestions

LEMMA ApplyAnswerKeeps ==
  ASSUME ChatInv, NEW a \in asks, ApplyAnswer(a)
  PROVE  ChatInv'
<1>1. chat.loading /\ LastIsAsked /\ asks = {a} /\ a.number = chat.asked /\ a \in Asks
  BY TheRequest
<1>2. asks' = {} /\ chat \in Chats
  BY <1>1 DEF ApplyAnswer, ChatInv, ChatTypeOK
<1>3. CASE a.answer = "content"
  <2> DEFINE m == [role |-> "assistant", ask |-> a.number]
  <2>1. m \in Messages /\ m.ask = chat.asked /\ m.role = "assistant"
    BY <1>1 DEF Messages, Asks
  <2>2. Append(chat.messages, m) \in Seq(Messages)
    BY <1>2, <2>1, AppendProperties DEF Chats
  <2>3. chat' = [chat EXCEPT !.messages = Append(chat.messages, m), !.loading = FALSE]
    BY <1>3 DEF ApplyAnswer, WithAnswer
  <2> HIDE DEF m
  <2>4. /\ chat' \in Chats /\ chat'.messages = Append(chat.messages, m) /\ ~chat'.loading
        /\ chat'.cleared = chat.cleared
    BY <1>2, <2>2, <2>3 DEF Chats
  <2>5. IF chat.messages = <<>> THEN m.ask <= chat.cleared
        ELSE chat.messages[Len(chat.messages)] = [role |-> "user", ask |-> m.ask]
    BY <1>1, <1>2, <2>1 DEF LastIsAsked, Chats
  <2>6. AnswersFollowQuestions'
    BY <2>1, <2>4, <2>5, AppendKeepsOrder
  <2> QED BY <1>2, <2>4, <2>6 DEF ApplyAnswer, Keep, ChatInv, ChatTypeOK
<1>4. CASE a.answer # "content"
  <2>1. /\ chat' \in Chats /\ chat'.messages = chat.messages /\ ~chat'.loading
        /\ chat'.cleared = chat.cleared
    BY <1>2, <1>4 DEF ApplyAnswer, Chats
  <2> QED BY <1>2, <2>1 DEF ApplyAnswer, Keep, ChatInv, ChatTypeOK, AnswersFollowQuestions
<1> QED BY <1>3, <1>4

LEMMA ChatStepKeeps == ChatInv /\ [ChatNext]_chatVars => ChatInv'
<1> SUFFICES ASSUME ChatInv, [ChatNext]_chatVars PROVE ChatInv'
  OBVIOUS
<1>1. CASE submit
  BY <1>1, SubmitKeeps
<1>2. CASE clearHistory
  BY <1>2, ClearKeeps
<1>3. CASE ChooseModel
  BY <1>3, ChooseModelKeeps
<1>4. CASE Toggle
  BY <1>4, ToggleKeeps
<1>5. CASE Remount
  BY <1>5, RemountKeeps
<1>6. ASSUME NEW a \in asks, RouteAnswer(a) PROVE ChatInv'
  BY <1>6, RouteAnswerKeeps
<1>7. ASSUME NEW a \in asks, ApplyAnswer(a) PROVE ChatInv'
  BY <1>7, ApplyAnswerKeeps
<1>8. CASE UNCHANGED chatVars
  BY <1>8 DEF chatVars, ChatInv, ChatTypeOK, Awaits, LastIsAsked, AnswersFollowQuestions
<1> QED BY <1>1, <1>2, <1>3, <1>4, <1>5, <1>6, <1>7, <1>8 DEF ChatNext

LEMMA ChatInvariant == ChatSpec => []ChatInv
<1>1. ChatInit => ChatInv
  BY ChatInitInv
<1>2. ChatInv /\ [ChatNext]_chatVars => ChatInv'
  BY ChatStepKeeps
<1> QED BY <1>1, <1>2, PTL DEF ChatSpec

(***************************************************************************)
(* The hooks of the two chats, and their requests to the route, are well   *)
(* typed.                                                                  *)
(***************************************************************************)
THEOREM ChatTypeCorrect == ChatSpec => []ChatTypeOK
<1>1. ChatInv => ChatTypeOK
  BY DEF ChatInv
<1> QED BY <1>1, ChatInvariant, PTL

(***************************************************************************)
(* What the assistant says stands right under the question it answers,     *)
(* unless the question was cleared away while the route was answering it:  *)
(* Clear does not stop a request, but no question is asked before its      *)
(* answer is there.                                                        *)
(***************************************************************************)
THEOREM AnswersStandUnderQuestions == ChatSpec => []AnswersFollowQuestions
<1>1. ChatInv => AnswersFollowQuestions
  BY DEF ChatInv
<1> QED BY <1>1, ChatInvariant, PTL

-----------------------------------------------------------------------------
(***************************************************************************)
(* The tunnels of an account in its browser, for any number of tunnels and *)
(* of calls in flight.                                                     *)
(*                                                                         *)
(* What is inductive follows a change from the control plane to the list:  *)
(* what a call was told, the rows have; what the browser was told, the     *)
(* rows have and so does every list on its way, since mutate() makes SWR   *)
(* forget the ones that were read before (KnownToRows, KnownToAnswer).     *)
(***************************************************************************)
ConsoleCall ==
  [kind : {"none", "create", "delete"}, tunnel : 0 .. MaxReserved,
   at : {"sent", "answered", "reloading"}, ok : BOOLEAN, live : BOOLEAN]

ConsoleTypes ==
  /\ rows \in Lists
  /\ plan \in [detected : {"FREE", "PRO"}, asking : BOOLEAN]
  /\ screen \in [at : ConsolePages \cup {"none"}, error : BOOLEAN]
  /\ swr \in [list : Lists, loaded : BOOLEAN, error : BOOLEAN,
              request : [at : {"idle", "sent", "answered"}, ok : BOOLEAN, body : Lists]]
  /\ pending \in [ConsoleCalls -> ConsoleCall]
  /\ told \in [created : SUBSET TunnelIds, deleted : SUBSET TunnelIds]

\* The list has what the browser was told.
Follows(list, what) ==
  /\ \A t \in what.created : list[t] # "none"
  /\ \A t \in what.deleted : list[t] = "deleted"

\* A call that was answered knows a tunnel that is so.
CallKnows(call, list) ==
  /\ call.kind = "delete" /\ call.at = "sent" => call.tunnel \in TunnelIds
  /\ call.at = "answered" =>
       /\ call.kind # "none"
       /\ call.ok =>
            /\ call.tunnel \in TunnelIds /\ list[call.tunnel] # "none"
            /\ call.kind = "delete" => list[call.tunnel] = "deleted"

ConsoleInv ==
  /\ ConsoleTypes
  /\ Follows(rows, told)
  /\ swr.request.at = "answered" /\ swr.request.ok => Follows(swr.request.body, told)
  /\ \A c \in ConsoleCalls : CallKnows(pending[c], rows)
  /\ screen.at # "none" => swr.request.at # "idle" \/ swr.loaded \/ swr.error
LEMMA InventoryIsFinite ==
  ASSUME swr.list \in Lists
  PROVE  LET inactive == {t \in tunnels : swr.list[t] = "INACTIVE"}
         IN  /\ Cardinality(tunnels) = Cardinality(active) + Cardinality(inactive)
             /\ Cardinality(active) \in Nat
             /\ Cardinality(active) > 0 <=> active # {}
<1> DEFINE inactive == {t \in tunnels : swr.list[t] = "INACTIVE"}
<1>1. IsFiniteSet(TunnelIds)
  BY ConsoleAssumption, FS_Interval DEF TunnelIds
<1>2. active \subseteq TunnelIds /\ inactive \subseteq TunnelIds
  BY DEF active, tunnels, Present
<1>3. IsFiniteSet(active) /\ IsFiniteSet(inactive)
  BY <1>1, <1>2, FS_Subset
<1>4. tunnels = active \cup inactive /\ active \cap inactive = {}
  BY DEF active, tunnels, Present
<1>5. Cardinality(active \cap inactive) = 0
  BY <1>4, FS_EmptySet
<1>6. /\ Cardinality(active) \in Nat /\ Cardinality(inactive) \in Nat
      /\ Cardinality(active) = 0 <=> active = {}
  BY <1>3, FS_CardinalityType, FS_EmptySet
<1>7. Cardinality(active \cup inactive)
        = Cardinality(active) + Cardinality(inactive) - Cardinality(active \cap inactive)
  BY <1>3, FS_Union
<1> HIDE DEF inactive
<1>8. Cardinality(tunnels) = Cardinality(active) + Cardinality(inactive)
  BY <1>4, <1>5, <1>6, <1>7
<1> QED BY <1>6, <1>8 DEF inactive

(* What the pages show of one list agrees.                                 *)
LEMMA TheyAgree ==
  ASSUME ConsoleTypes
  PROVE  PagesAgree
<1>1. swr.list \in Lists
  BY DEF ConsoleTypes
<1>2. Totals.reserved = Totals.active + Totals.inactive
  BY <1>1, InventoryIsFinite DEF Totals, Figures
<1>3. ASSUME NEW t \in tunnels PROVE TunnelCard(t).live <=> StatusBadge(t) = "Active"
  BY DEF TunnelCard, StatusBadge, active
<1>4. /\ OperatorPath.exposed <=> Totals.active > 0
      /\ OperatorPath.exposed <=> Posture = "carrying live traffic"
  BY <1>1, InventoryIsFinite DEF Totals, Figures, OperatorPath, Posture
<1>5. PlanLimits = "Tunnel Limit Reached" <=> OnTunnel /\ ReserveTunnel.label = "Limit Reached"
  <2>1. freeLimitReached => plan.detected = "FREE"
    BY DEF freeLimitReached
  <2>2. plan.detected = "FREE" => getNextPlan(plan.detected) = "PRO"
    BY DEF getNextPlan
  <2>3. ReserveTunnel.label = (IF freeLimitReached THEN "Limit Reached" ELSE "Reserve Tunnel")
    BY DEF ReserveTunnel
  <2> QED BY <2>1, <2>2, <2>3 DEF PlanLimits, UpgradePrompt
<1>6. PollNote => Inventory = "rows"
  BY DEF PollNote, Inventory, TunnelTable
<1> QED BY <1>2, <1>3, <1>4, <1>5, <1>6 DEF PagesAgree

LEMMA ConsoleConstants ==
  /\ NoTunnels \in Lists /\ TunnelIds \subseteq Nat \ {0} /\ TunnelIds \subseteq 0 .. MaxReserved
  /\ Idle \in [at : {"idle", "sent", "answered"}, ok : BOOLEAN, body : Lists] /\ Idle.at = "idle"
  /\ Sent \in [at : {"idle", "sent", "answered"}, ok : BOOLEAN, body : Lists] /\ Sent.at = "sent"
  /\ NoConsoleCall \in ConsoleCall
  /\ NoConsoleCall.kind = "none" /\ NoConsoleCall.at = "sent"
<1>1. NoTunnels \in Lists
  BY DEF NoTunnels, Lists, Statuses
<1>2. TunnelIds \subseteq Nat \ {0} /\ TunnelIds \subseteq 0 .. MaxReserved /\ 0 \in 0 .. MaxReserved
  BY ConsoleAssumption DEF TunnelIds
<1> QED BY <1>1, <1>2 DEF Idle, Sent, NoConsoleCall, ConsoleCall

LEMMA ConsoleInitInv == ConsoleInit => ConsoleInv
<1> SUFFICES ASSUME ConsoleInit PROVE ConsoleInv
  OBVIOUS
<1>1. ConsoleTypes
  BY ConsoleConstants DEF ConsoleInit, ConsoleTypes, ConsoleCall, NoConsolePage
<1> QED BY <1>1, ConsoleConstants DEF ConsoleInit, ConsoleInv, Follows, CallKnows, NoConsolePage

(* The control plane's rows move, and nothing that was known goes back.    *)
RowsMove ==
  /\ rows' \in Lists
  /\ \A t \in TunnelIds : /\ rows[t] # "none" => rows'[t] # "none"
                          /\ rows[t] = "deleted" => rows'[t] = "deleted"

LEMMA KnownStays ==
  ASSUME ConsoleInv, RowsMove, told' = told
  PROVE  /\ Follows(rows', told')
         /\ \A call : CallKnows(call, rows) => CallKnows(call, rows')
<1>1. Follows(rows', told')
  BY DEF ConsoleInv, ConsoleTypes, Follows, RowsMove
<1>2. ASSUME NEW call, CallKnows(call, rows) PROVE CallKnows(call, rows')
  BY <1>2 DEF CallKnows, RowsMove
<1> QED BY <1>1, <1>2

(* A step of the control plane alone.                                      *)
LEMMA RowsKeep ==
  ASSUME ConsoleInv, RowsMove, UNCHANGED <<plan, screen, swr, pending, told>>
  PROVE  ConsoleInv'
<1>1. /\ Follows(rows', told')
      /\ \A call : CallKnows(call, rows) => CallKnows(call, rows')
  BY KnownStays
<1> QED BY <1>1 DEF ConsoleInv, ConsoleTypes, RowsMove

LEMMA AgentsKeep ==
  ASSUME ConsoleInv, AgentConnects \/ AgentLeaves \/ DeletedElsewhere
  PROVE  ConsoleInv'
<1>1. rows \in [TunnelIds -> Statuses]
  BY DEF ConsoleInv, ConsoleTypes, Lists
<1>2. RowsMove
  <2>1. CASE AgentConnects
    BY <1>1, <2>1 DEF AgentConnects, Fresh, RowsMove, Lists, Statuses
  <2>2. CASE AgentLeaves
    BY <1>1, <2>2 DEF AgentLeaves, RowsMove, Lists, Statuses
  <2>3. CASE DeletedElsewhere
    BY <1>1, <2>3 DEF DeletedElsewhere, Present, RowsMove, Lists, Statuses
  <2> QED BY <2>1, <2>2, <2>3
<1> QED BY <1>2, RowsKeep DEF AgentConnects, AgentLeaves, DeletedElsewhere

(* A step that leaves the rows, the calls and what was told alone.         *)
LEMMA BrowserKeeps ==
  ASSUME ConsoleInv, UNCHANGED <<rows, told>>, ConsoleTypes',
         \A c \in ConsoleCalls : CallKnows(pending[c], rows) => CallKnows(pending'[c], rows),
         swr'.request.at = "answered" /\ swr'.request.ok => Follows(swr'.request.body, told),
         screen'.at # "none" => swr'.request.at # "idle" \/ swr'.loaded \/ swr'.error
  PROVE  ConsoleInv'
BY DEF ConsoleInv

LEMMA PagesKeep ==
  ASSUME ConsoleInv,
         DetectPlan \/ OpenConsole \/ LeaveConsole \/ Poll \/ RefreshTunnels
  PROVE  ConsoleInv'
<1>1. ConsoleTypes
  BY DEF ConsoleInv
<1>2. ConsoleTypes'
  <2>1. CASE DetectPlan
    BY <1>1, <2>1 DEF DetectPlan, ConsoleTypes
  <2>2. CASE OpenConsole
    BY <1>1, <2>2, ConsoleConstants DEF OpenConsole, NoConsolePage, ConsoleTypes
  <2>3. CASE LeaveConsole
    <3>1. screen' \in [at : ConsolePages \cup {"none"}, error : BOOLEAN]
      BY <2>3 DEF LeaveConsole, NoConsolePage
    <3>2. pending' = [c \in ConsoleCalls |-> [pending[c] EXCEPT !.live = FALSE]]
      BY <2>3 DEF LeaveConsole
    <3>3. pending' \in [ConsoleCalls -> ConsoleCall]
      <4>1. ASSUME NEW c \in ConsoleCalls PROVE [pending[c] EXCEPT !.live = FALSE] \in ConsoleCall
        <5>1. pending[c] \in ConsoleCall
          BY <1>1 DEF ConsoleTypes
        <5> QED BY <5>1 DEF ConsoleCall
      <4> QED BY <3>2, <4>1
    <3> QED BY <1>1, <2>3, <3>1, <3>3 DEF LeaveConsole, ConsoleTypes, ConsoleCall
  <2>4. CASE Poll
    BY <1>1, <2>4, ConsoleConstants DEF Poll, ConsoleTypes
  <2>5. CASE RefreshTunnels
    BY <1>1, <2>5, ConsoleConstants DEF RefreshTunnels, mutateTunnels, ConsoleTypes
  <2> QED BY <2>1, <2>2, <2>3, <2>4, <2>5
<1>3. \A c \in ConsoleCalls : CallKnows(pending[c], rows) => CallKnows(pending'[c], rows)
  <2>1. CASE LeaveConsole
    <3>1. ASSUME NEW c \in ConsoleCalls
          PROVE  /\ pending'[c].kind = pending[c].kind /\ pending'[c].at = pending[c].at
                 /\ pending'[c].ok = pending[c].ok /\ pending'[c].tunnel = pending[c].tunnel
      <4>1. pending[c] \in ConsoleCall
        BY <1>1 DEF ConsoleTypes
      <4>2. pending'[c] = [pending[c] EXCEPT !.live = FALSE]
        BY <2>1 DEF LeaveConsole
      <4> QED BY <4>1, <4>2 DEF ConsoleCall
    <3> QED BY <3>1 DEF CallKnows
  <2>2. CASE ~LeaveConsole
    BY <2>2 DEF DetectPlan, OpenConsole, Poll, RefreshTunnels
  <2> QED BY <2>1, <2>2
<1>4. /\ UNCHANGED <<rows, told>>
      /\ swr' = swr \/ swr'.request.at = "sent"
      /\ screen'.at # "none" => screen'.at = screen.at \/ swr'.request.at # "idle"
  BY <1>1, ConsoleConstants
     DEF DetectPlan, OpenConsole, LeaveConsole, Poll, RefreshTunnels, mutateTunnels,
         NoConsolePage, ConsoleTypes
<1>5. swr'.request.at = "answered" /\ swr'.request.ok => Follows(swr'.request.body, told)
  BY <1>4 DEF ConsoleInv
<1>6. screen'.at # "none" => swr'.request.at # "idle" \/ swr'.loaded \/ swr'.error
  BY <1>4 DEF ConsoleInv
<1> QED BY <1>2, <1>3, <1>4, <1>5, <1>6, BrowserKeeps

LEMMA ListKeeps ==
  ASSUME ConsoleInv, ListApply \/ \E ok \in BOOLEAN : ListAnswer(ok)
  PROVE  ConsoleInv'
<1>1. ConsoleTypes /\ UNCHANGED <<rows, plan, screen, pending, told>>
  BY DEF ConsoleInv, ListApply, ListAnswer
<1>2. CASE ListApply
  <2>1. /\ swr'.request = Idle
        /\ swr'.loaded \/ swr'.error
        /\ swr' \in [list : Lists, loaded : BOOLEAN, error : BOOLEAN,
                     request : [at : {"idle", "sent", "answered"}, ok : BOOLEAN, body : Lists]]
    BY <1>1, <1>2, ConsoleConstants DEF ListApply, ConsoleTypes
  <2>2. ConsoleTypes'
    BY <1>1, <2>1 DEF ConsoleTypes
  <2> QED BY <1>1, <2>1, <2>2, ConsoleConstants, BrowserKeeps
<1>3. CASE \E ok \in BOOLEAN : ListAnswer(ok)
  <2>1. PICK ok \in BOOLEAN : ListAnswer(ok)
    BY <1>3
  <2> DEFINE answer == [at |-> "answered", ok |-> ok, body |-> IF ok THEN rows ELSE NoTunnels]
  <2>2. /\ answer \in [at : {"idle", "sent", "answered"}, ok : BOOLEAN, body : Lists]
        /\ answer.at = "answered" /\ (answer.ok => answer.body = rows)
    BY <1>1, ConsoleConstants DEF ConsoleTypes
  <2>3. swr' = [swr EXCEPT !.request = answer]
    BY <2>1 DEF ListAnswer
  <2> HIDE DEF answer
  <2>4. ConsoleTypes' /\ swr'.request = answer
    BY <1>1, <2>2, <2>3 DEF ConsoleTypes
  <2> QED BY <1>1, <2>2, <2>4, BrowserKeeps DEF ConsoleInv
<1> QED BY <1>2, <1>3

(* A step of one call, while no list arrives.                              *)
LEMMA OneCall ==
  ASSUME ConsoleInv, RowsMove, NEW c \in ConsoleCalls, NEW new \in ConsoleCall,
         pending' = [pending EXCEPT ![c] = new], CallKnows(new, rows'),
         UNCHANGED <<plan, swr, told>>, screen' \in [at : {screen.at}, error : BOOLEAN]
  PROVE  ConsoleInv'
<1>1. ConsoleTypes /\ pending \in [ConsoleCalls -> ConsoleCall]
  BY DEF ConsoleInv, ConsoleTypes
<1>2. screen' \in [at : ConsolePages \cup {"none"}, error : BOOLEAN] /\ screen'.at = screen.at
  BY <1>1 DEF ConsoleTypes
<1>3. pending' \in [ConsoleCalls -> ConsoleCall]
  BY <1>1
<1>4. ConsoleTypes'
  BY <1>1, <1>2, <1>3 DEF ConsoleTypes, RowsMove
<1>5. /\ Follows(rows', told')
      /\ \A call : CallKnows(call, rows) => CallKnows(call, rows')
  BY KnownStays
<1>6. \A d \in ConsoleCalls : CallKnows(pending'[d], rows')
  BY <1>1, <1>5 DEF ConsoleInv
<1> QED BY <1>2, <1>4, <1>5, <1>6 DEF ConsoleInv

LEMMA RowsRest ==
  ASSUME ConsoleInv, rows' = rows
  PROVE  RowsMove
BY DEF ConsoleInv, ConsoleTypes, RowsMove

LEMMA AsksKeep ==
  ASSUME ConsoleInv, NEW c \in ConsoleCalls, createTunnel(c) \/ deleteTunnel(c)
  PROVE  ConsoleInv'
<1>1. ConsoleTypes /\ RowsMove
  BY RowsRest DEF createTunnel, deleteTunnel, Ask, ConsoleInv
<1>2. screen' \in [at : {screen.at}, error : BOOLEAN]
  BY <1>1 DEF createTunnel, deleteTunnel, ConsoleTypes
<1>3. PICK kind \in {"create", "delete"}, t \in 0 .. MaxReserved :
        Ask(c, kind, t) /\ (kind = "delete" => t \in TunnelIds)
  BY ConsoleConstants, ConsoleAssumption DEF createTunnel, deleteTunnel, tunnels, Present
<1> DEFINE new == [NoConsoleCall EXCEPT !.kind = kind, !.tunnel = t, !.live = TRUE]
<1>4. /\ new \in ConsoleCall /\ CallKnows(new, rows')
      /\ pending' = [pending EXCEPT ![c] = new] /\ UNCHANGED <<plan, swr, told>>
  BY <1>3, ConsoleAssumption DEF Ask, ConsoleCall, NoConsoleCall, CallKnows
<1> QED BY <1>1, <1>2, <1>4, OneCall

(* The answer that says nothing, and what the page makes of it.            *)
LEMMA CreateAnswerKeeps ==
  ASSUME ConsoleInv, NEW c \in ConsoleCalls, CreateAnswer(c)
  PROVE  ConsoleInv'
<1> DEFINE refused == [pending[c] EXCEPT !.at = "answered", !.ok = FALSE]
           made(t) == [pending[c] EXCEPT !.at = "answered", !.ok = TRUE, !.tunnel = t]
<1>1. /\ ConsoleTypes /\ pending[c] \in ConsoleCall /\ rows \in [TunnelIds -> Statuses]
      /\ pending[c].kind = "create" /\ UNCHANGED <<plan, screen, swr, told>>
      /\ screen' \in [at : {screen.at}, error : BOOLEAN]
  BY DEF CreateAnswer, ConsoleInv, ConsoleTypes, Lists
<1>2. refused \in ConsoleCall /\ CallKnows(refused, rows')
  BY <1>1 DEF ConsoleCall, CallKnows
<1>3. CASE rows' = rows /\ pending' = [pending EXCEPT ![c].at = "answered", ![c].ok = FALSE]
  <2>1. pending' = [pending EXCEPT ![c] = refused]
    BY <1>1, <1>3 DEF ConsoleTypes
  <2> HIDE DEF refused
  <2> QED BY <1>1, <1>2, <1>3, <2>1, RowsRest, OneCall
<1>4. ASSUME NEW t \in TunnelIds, Fresh(t), rows' = [rows EXCEPT ![t] = "INACTIVE"]
      PROVE  /\ RowsMove
             /\ made(t) \in ConsoleCall /\ CallKnows(made(t), rows')
  BY <1>1, <1>4, ConsoleConstants DEF Fresh, RowsMove, Lists, Statuses, ConsoleCall, CallKnows
<1>5. CASE \E t \in TunnelIds :
             /\ Fresh(t) /\ rows' = [rows EXCEPT ![t] = "INACTIVE"]
             /\ pending' = [pending EXCEPT ![c].at = "answered", ![c].ok = FALSE]
  <2>1. pending' = [pending EXCEPT ![c] = refused]
    BY <1>1, <1>5 DEF ConsoleTypes
  <2> HIDE DEF refused
  <2> QED BY <1>1, <1>2, <1>4, <1>5, <2>1, OneCall
<1>6. CASE \E t \in TunnelIds :
             /\ Fresh(t) /\ rows' = [rows EXCEPT ![t] = "INACTIVE"]
             /\ pending' = [pending EXCEPT ![c].at = "answered", ![c].ok = TRUE, ![c].tunnel = t]
  <2>1. PICK t \in TunnelIds :
             /\ Fresh(t) /\ rows' = [rows EXCEPT ![t] = "INACTIVE"]
             /\ pending' = [pending EXCEPT ![c].at = "answered", ![c].ok = TRUE, ![c].tunnel = t]
    BY <1>6
  <2>2. pending' = [pending EXCEPT ![c] = made(t)]
    BY <1>1, <2>1 DEF ConsoleTypes
  <2>3. RowsMove /\ made(t) \in ConsoleCall /\ CallKnows(made(t), rows')
    BY <1>4, <2>1
  <2> HIDE DEF made
  <2> QED BY <1>1, <2>2, <2>3, OneCall
<1> QED BY <1>3, <1>5, <1>6 DEF CreateAnswer, Reply

LEMMA DeleteAnswerKeeps ==
  ASSUME ConsoleInv, NEW c \in ConsoleCalls, DeleteAnswer(c)
  PROVE  ConsoleInv'
<1> DEFINE told_(ok) == [pending[c] EXCEPT !.at = "answered", !.ok = ok]
           t == pending[c].tunnel
<1>1. /\ ConsoleTypes /\ pending[c] \in ConsoleCall /\ rows \in [TunnelIds -> Statuses]
      /\ pending[c].kind = "delete" /\ pending[c].at = "sent"
      /\ UNCHANGED <<plan, screen, swr, told>>
      /\ screen' \in [at : {screen.at}, error : BOOLEAN]
  BY DEF DeleteAnswer, ConsoleInv, ConsoleTypes, Lists
<1>2. t \in TunnelIds
  BY <1>1 DEF ConsoleInv, CallKnows
<1>3. PICK ok \in BOOLEAN :
        /\ Reply(c, ok)
        /\ \/ rows' = [rows EXCEPT ![t] = "deleted"]
           \/ ~ok /\ rows' = rows
  BY DEF DeleteAnswer
<1>4. RowsMove
  BY <1>1, <1>2, <1>3 DEF RowsMove, Lists, Statuses
<1>5. told_(ok) \in ConsoleCall /\ CallKnows(told_(ok), rows')
  BY <1>1, <1>2, <1>3 DEF ConsoleCall, CallKnows
<1>6. pending' = [pending EXCEPT ![c] = told_(ok)]
  BY <1>1, <1>3 DEF Reply, ConsoleTypes
<1> HIDE DEF told_, t
<1> QED BY <1>1, <1>4, <1>5, <1>6, OneCall

(* The browser is told of a change: the lists that were read before are    *)
(* forgotten.                                                              *)
LEMMA CallSucceedsKeeps ==
  ASSUME ConsoleInv, NEW c \in ConsoleCalls, CallSucceeds(c)
  PROVE  ConsoleInv'
<1> DEFINE new == [pending[c] EXCEPT !.tunnel = 0, !.ok = FALSE, !.at = "reloading"]
           request == IF screen.at = "none" THEN Idle ELSE Sent
<1>1. /\ ConsoleTypes /\ pending[c] \in ConsoleCall
      /\ pending[c].at = "answered" /\ pending[c].ok /\ Tell(c)
      /\ swr' = [swr EXCEPT !.request = request] /\ UNCHANGED <<rows, plan, screen>>
  BY DEF CallSucceeds, mutateTunnels, ConsoleInv, ConsoleTypes
<1>2. /\ pending[c].tunnel \in TunnelIds /\ rows[pending[c].tunnel] # "none"
      /\ pending[c].kind \in {"create", "delete"}
      /\ pending[c].kind = "delete" => rows[pending[c].tunnel] = "deleted"
  BY <1>1 DEF ConsoleInv, CallKnows, ConsoleCall
<1>3. told' \in [created : SUBSET TunnelIds, deleted : SUBSET TunnelIds] /\ Follows(rows', told')
  <2>1. told \in [created : SUBSET TunnelIds, deleted : SUBSET TunnelIds] /\ Follows(rows, told)
    BY DEF ConsoleInv, ConsoleTypes
  <2>2. CASE pending[c].kind = "create"
    BY <1>1, <1>2, <2>1, <2>2 DEF Tell, Follows
  <2>3. CASE pending[c].kind = "delete"
    BY <1>1, <1>2, <2>1, <2>3 DEF Tell, Follows
  <2> QED BY <1>2, <2>2, <2>3
<1>4. new \in ConsoleCall /\ CallKnows(new, rows)
  <2>1. 0 \in 0 .. MaxReserved
    BY ConsoleAssumption
  <2> QED BY <1>1, <2>1 DEF ConsoleCall, CallKnows
<1>5. pending' = [pending EXCEPT ![c] = new]
  <2>1. pending \in [ConsoleCalls -> ConsoleCall]
    BY <1>1 DEF ConsoleTypes
  <2>2. pending' = [pending EXCEPT ![c].tunnel = 0, ![c].ok = FALSE, ![c].at = "reloading"]
    BY DEF CallSucceeds
  <2> QED BY <2>1, <2>2
<1>6. /\ request \in [at : {"idle", "sent", "answered"}, ok : BOOLEAN, body : Lists]
      /\ request.at = IF screen.at = "none" THEN "idle" ELSE "sent"
  BY ConsoleConstants
<1> HIDE DEF new, request
<1>7. /\ swr'.request = request
      /\ swr' \in [list : Lists, loaded : BOOLEAN, error : BOOLEAN,
                   request : [at : {"idle", "sent", "answered"}, ok : BOOLEAN, body : Lists]]
  BY <1>1, <1>6 DEF ConsoleTypes
<1>8. ConsoleTypes' /\ \A d \in ConsoleCalls : CallKnows(pending'[d], rows')
  BY <1>1, <1>3, <1>4, <1>5, <1>7 DEF ConsoleInv, ConsoleTypes
<1> QED BY <1>1, <1>3, <1>6, <1>7, <1>8 DEF ConsoleInv

LEMMA CallStopsKeeps ==
  ASSUME ConsoleInv, NEW c \in ConsoleCalls, CallEnds(c) \/ CallFails(c)
  PROVE  ConsoleInv'
<1>1. ConsoleTypes /\ RowsMove
  BY RowsRest DEF CallEnds, CallFails, ConsoleInv
<1>2. screen' \in [at : {screen.at}, error : BOOLEAN]
  BY <1>1 DEF CallEnds, CallFails, ConsoleTypes
<1>3. NoConsoleCall \in ConsoleCall /\ CallKnows(NoConsoleCall, rows')
  BY ConsoleConstants DEF CallKnows
<1>4. pending' = [pending EXCEPT ![c] = NoConsoleCall] /\ UNCHANGED <<plan, swr, told>>
  BY DEF CallEnds, CallFails
<1> QED BY <1>1, <1>2, <1>3, <1>4, OneCall

LEMMA ConsoleStepKeeps == ConsoleInv /\ [ConsoleNext]_consoleVars => ConsoleInv'
<1> SUFFICES ASSUME ConsoleInv, [ConsoleNext]_consoleVars PROVE ConsoleInv'
  OBVIOUS
<1>1. CASE AgentConnects \/ AgentLeaves \/ DeletedElsewhere
  BY <1>1, AgentsKeep
<1>2. CASE DetectPlan \/ OpenConsole \/ LeaveConsole \/ Poll \/ RefreshTunnels
  BY <1>2, PagesKeep
<1>3. CASE ListApply \/ \E ok \in BOOLEAN : ListAnswer(ok)
  BY <1>3, ListKeeps
<1>4. ASSUME NEW c \in ConsoleCalls, createTunnel(c) \/ deleteTunnel(c) PROVE ConsoleInv'
  BY <1>4, AsksKeep
<1>5. ASSUME NEW c \in ConsoleCalls, CreateAnswer(c) PROVE ConsoleInv'
  BY <1>5, CreateAnswerKeeps
<1>6. ASSUME NEW c \in ConsoleCalls, DeleteAnswer(c) PROVE ConsoleInv'
  BY <1>6, DeleteAnswerKeeps
<1>7. ASSUME NEW c \in ConsoleCalls, CallSucceeds(c) PROVE ConsoleInv'
  BY <1>7, CallSucceedsKeeps
<1>8. ASSUME NEW c \in ConsoleCalls, CallEnds(c) \/ CallFails(c) PROVE ConsoleInv'
  BY <1>8, CallStopsKeeps
<1>9. CASE UNCHANGED consoleVars
  BY <1>9, RowsRest, RowsKeep DEF consoleVars
<1> QED BY <1>1, <1>2, <1>3, <1>4, <1>5, <1>6, <1>7, <1>8, <1>9 DEF ConsoleNext

LEMMA ConsoleInvariant == ConsoleSpec => []ConsoleInv
<1>1. ConsoleInit => ConsoleInv
  BY ConsoleInitInv
<1>2. ConsoleInv /\ [ConsoleNext]_consoleVars => ConsoleInv'
  BY ConsoleStepKeeps
<1> QED BY <1>1, <1>2, PTL DEF ConsoleSpec

(***************************************************************************)
(* The pages, the cache entry and the calls are well typed, and whatever   *)
(* the list is, the figures, cards, badges, posture and limit shown of it  *)
(* agree (useTunnels and the pages that read it).                          *)
(***************************************************************************)
THEOREM ConsoleTypeCorrect == ConsoleSpec => []ConsoleTypeOK
<1>1. ConsoleInv => ConsoleTypeOK
  BY TheyAgree DEF ConsoleInv, ConsoleTypes, ConsoleCall, ConsoleTypeOK
<1> QED BY <1>1, ConsoleInvariant, PTL

(***************************************************************************)
(* No page shows an account as empty before its list was asked for: not    *)
(* when it is opened, and not while mutate() makes SWR forget a question.  *)
(***************************************************************************)
THEOREM EmptyInventoriesAreKnown == ConsoleSpec => []EmptyInventoryIsKnown
<1>1. ConsoleInv => EmptyInventoryIsKnown
  <2> SUFFICES ASSUME ConsoleInv, screen.at # "none", Inventory = "none"
               PROVE  swr.loaded \/ swr.error
    BY DEF EmptyInventoryIsKnown
  <2>1. swr.request.at # "idle" \/ swr.loaded \/ swr.error
    BY DEF ConsoleInv
  <2>2. screen.at = "overview" \/ ~isLoading
    BY DEF Inventory, ReservationList, TunnelTable
  <2>3. screen.at = "overview" => ~isLoadingHook
    BY DEF Inventory, OverviewTable
  <2> QED BY <2>1, <2>2, <2>3 DEF isLoading, isLoadingHook
<1> QED BY <1>1, ConsoleInvariant, PTL

(***************************************************************************)
(* A list that arrives is never older than a change the browser was told   *)
(* of, however the poll, the call and its reload overtake one another:     *)
(* mutateTunnels makes SWR forget every list that was read before.         *)
(***************************************************************************)
THEOREM ListsKeepUp == ConsoleSpec => ListsFollowChanges
<1>1. ASSUME ConsoleInv, [ConsoleNext]_consoleVars, swr'.list # swr.list
      PROVE  Follows(swr'.list, told)
  <2>1. swr \in [list : Lists, loaded : BOOLEAN, error : BOOLEAN,
                 request : [at : {"idle", "sent", "answered"}, ok : BOOLEAN, body : Lists]]
    BY <1>1 DEF ConsoleInv, ConsoleTypes
  <2>2. \A r : [swr EXCEPT !.request = r].list = swr.list
    BY <2>1
  <2>3. ListApply
    BY <1>1, <2>2 DEF ConsoleNext, consoleVars, AgentConnects, AgentLeaves, DeletedElsewhere,
       DetectPlan, OpenConsole, LeaveConsole, Poll, RefreshTunnels, ListAnswer,
       createTunnel, deleteTunnel, Ask,
       CreateAnswer, DeleteAnswer, CallSucceeds, mutateTunnels, CallEnds, CallFails
  <2>4. swr.request.at = "answered" /\ swr.request.ok /\ swr'.list = swr.request.body
    BY <1>1, <2>1, <2>3 DEF ListApply
  <2> QED BY <1>1, <2>4 DEF ConsoleInv
<1>2. ConsoleInv /\ [ConsoleNext]_consoleVars
        => [swr'.list # swr.list =>
             /\ \A t \in told.created : swr'.list[t] # "none"
             /\ \A t \in told.deleted : swr'.list[t] = "deleted"]_consoleVars
  BY <1>1 DEF Follows
<1> QED BY <1>2, ConsoleInvariant, PTL DEF ConsoleSpec, ListsFollowChanges

-----------------------------------------------------------------------------
(***************************************************************************)
(* The composition that TLC checks: each of its behaviours is one of each  *)
(* component, so what holds of them holds of it.                           *)
(***************************************************************************)
LEMMA PartsAreBehaviours ==
  Spec => SignInSpec /\ BillingSpec /\ ChatSpec /\ ConsoleSpec /\ ShellSpec
<1>1. Init => SignInInit /\ BillingInit /\ ChatInit /\ ConsoleInit /\ ShellInit
  BY DEF Init
<1>2. [Next]_vars => /\ [SignInNext]_signInVars /\ [BillingNext]_billingVars
                     /\ [ChatNext]_chatVars /\ [ConsoleNext]_consoleVars
                     /\ [ShellNext]_shellVars
  BY DEF Next, vars
<1> QED BY <1>1, <1>2, PTL DEF Spec, SignInSpec, BillingSpec, ChatSpec, ConsoleSpec, ShellSpec

(***************************************************************************)
(* Whichever component of the web application runs is well typed.          *)
(***************************************************************************)
THEOREM WebTypeCorrect ==
  ASSUME MaxVersion \in Nat
  PROVE  Spec => []WebTypeOK
<1>1. SignInTypeOK /\ BillingTypeOK /\ ChatTypeOK /\ ConsoleTypeOK /\ ShellTypeOK
        /\ part \in {"sign-in", "billing", "assistant", "tunnels", "shell"} => WebTypeOK
  BY DEF WebTypeOK
<1>2. SignInSpec => []SignInTypeOK
  BY SignInTypeCorrect
<1>3. BillingSpec => []BillingTypeOK
  BY BillingTypeCorrect
<1>4. ChatSpec => []ChatTypeOK
  BY ChatTypeCorrect
<1>5. ConsoleSpec => []ConsoleTypeOK
  BY ConsoleTypeCorrect
<1>6. ShellSpec => []ShellTypeOK
  BY ShellAssumption, ShellTypeCorrect
<1>7. Init => part \in {"sign-in", "billing", "assistant", "tunnels", "shell"}
  BY DEF Init
<1>8. part \in {"sign-in", "billing", "assistant", "tunnels", "shell"} /\ [Next]_vars
        => (part \in {"sign-in", "billing", "assistant", "tunnels", "shell"})'
  BY DEF Next, vars
<1>9. Spec => [](part \in {"sign-in", "billing", "assistant", "tunnels", "shell"})
  BY <1>7, <1>8, PTL DEF Spec
<1> QED BY <1>1, <1>2, <1>3, <1>4, <1>5, <1>6, <1>9, PartsAreBehaviours, PTL

===============================================================================

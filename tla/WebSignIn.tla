------------------------------ MODULE WebSignIn ------------------------------
(***************************************************************************)
(* Signing in and out of the web application in several tabs of one        *)
(* browser (web/app/(auth), web/app/api/auth, web/proxy.ts,                *)
(* web/lib/auth-session.ts, web/components/provider/session-provider.tsx). *)
(*                                                                         *)
(* The tabs share a cookie jar: the session token, and the state of the    *)
(* last GitHub sign-in that was started.  A route reads the cookies of the *)
(* request and sets those of its answer, and other tabs run in between.    *)
(* What a tab shows of the session is fetched once per document, so a tab  *)
(* may know less, or more, than the jar.  The authentication service and   *)
(* GitHub are outside.                                                     *)
(***************************************************************************)
EXTENDS Naturals, FiniteSets

CONSTANTS
  Tabs,      \* the tabs of the browser
  Accounts,  \* who signs in
  Nobody,    \* no account
  States,    \* the random values of github_oauth_state
  NoState    \* no such cookie

ASSUME SignInAssumption == Nobody \notin Accounts /\ NoState \notin States

VARIABLES
  jar,   \* the cookies: binboi_token (its account, whether it names an e-mail
         \* address, whether it has expired) and github_oauth_state
  tab,   \* each tab: its page, form, sign-in at GitHub and session context
  used,  \* history: the states that have been handed out
  spoilt \* history: states whose cookie was overwritten, deleted or has expired,
         \* and those GitHub sent back without a code

signInVars == <<jar, tab, used, spoilt>>

NoToken == [account |-> Nobody, email |-> FALSE, expired |-> FALSE]
Token == [account : Accounts \cup {Nobody}, email : BOOLEAN, expired : BOOLEAN]

\* The public pages keep nothing of their own; passing through them is part of Follow.
OpenPages == {"login", "register", "dashboard"}
Pages == OpenPages \cup {"github", "callback"}
\* The login form: idle, in flight, or answered; it outlives the page it was sent from.
Forms == {"idle", "sent", "accepted"}
Tab == [page : Pages, form : Forms, state : States \cup {NoState}, mismatch : BOOLEAN,
        known : BOOLEAN, user : Accounts \cup {Nobody}, leaving : BOOLEAN,
        signedOut : BOOLEAN]

\* What useSession tells, and what the bar of a public page offers on the strength of it:
\* while nothing is known, and after a failure, the links of a visitor.
status(t) == IF ~tab[t].known THEN "loading"
             ELSE IF tab[t].user = Nobody THEN "unauthenticated" ELSE "authenticated"
Navbar(t) == IF status(t) = "authenticated" THEN {"dashboard"} ELSE {"login", "register"}
\* The card of the user-management page: without a user, a dash for the name and plan FREE.
UserCard(t) == IF status(t) = "authenticated" THEN tab[t].user ELSE Nobody

SignInTypeOK ==
  /\ jar \in [token : Token, state : States \cup {NoState}]
  /\ tab \in [Tabs -> Tab]
  /\ used \subseteq States /\ spoilt \subseteq States
  /\ \A t \in Tabs : "dashboard" \in Navbar(t) <=> UserCard(t) # Nobody

\* A new document: the session provider knows nothing yet (status "loading").
Document(page) ==
  [page |-> page, form |-> "idle", state |-> NoState, mismatch |-> FALSE, known |-> FALSE,
   user |-> Nobody, leaving |-> FALSE, signedOut |-> FALSE]

SignInInit ==
  /\ jar = [token |-> NoToken, state |-> NoState]
  /\ tab = [t \in Tabs |-> Document("login")]
  /\ used = {} /\ spoilt = {}

\* proxy lets a request for the dashboard pass when there is a token that has not expired.
Authenticated(token) == token.account # Nobody /\ ~token.expired
\* getCurrentSession also asks for an e-mail address in the token.
CurrentUser(token) == IF Authenticated(token) /\ token.email THEN token.account ELSE Nobody

Dashboard(token) == IF Authenticated(token) THEN "dashboard" ELSE "login"
OnForm(t) == tab[t].page \in {"login", "register"}
Update(t, new) == tab' = [tab EXCEPT ![t] = new]
Overwritten == {jar.state} \ {NoState}

(***************************************************************************)
(* Moving about                                                            *)
(***************************************************************************)
\* Following a link, or going back, keeps the document, and what is in flight stays so; the
\* dashboard is asked for with the cookies of the moment, whatever the bar offered.
Follow(t) ==
  /\ tab[t].page \in OpenPages
  /\ \E page \in OpenPages :
       Update(t, [tab[t] EXCEPT !.page = IF page = "dashboard" THEN Dashboard(jar.token) ELSE page,
                                !.state = NoState, !.mismatch = FALSE])
  /\ UNCHANGED <<jar, used, spoilt>>

\* Reloading the page makes a new document and gives up what is in flight; an error in the
\* URL is shown again.
Reload(t) ==
  /\ tab[t].page \in OpenPages
  /\ Update(t, [Document(IF tab[t].page = "dashboard" THEN Dashboard(jar.token) ELSE tab[t].page)
                   EXCEPT !.state = tab[t].state, !.mismatch = tab[t].state # NoState])
  /\ UNCHANGED <<jar, used, spoilt>>

\* SessionProvider's effect: one GET of /api/auth/session, or a failure, per document.
LearnSession(t) ==
  /\ tab[t].page \in OpenPages /\ ~tab[t].known
  /\ \E user \in {CurrentUser(jar.token), Nobody} :
       Update(t, [tab[t] EXCEPT !.known = TRUE, !.user = user])
  /\ UNCHANGED <<jar, used, spoilt>>

(***************************************************************************)
(* The forms                                                               *)
(***************************************************************************)
\* The button is disabled while a submission is in flight (loading).
Submit(t) ==
  /\ tab[t].page = "login" /\ tab[t].form = "idle"
  /\ Update(t, [tab[t] EXCEPT !.form = "sent", !.mismatch = FALSE])
  /\ UNCHANGED <<jar, used, spoilt>>

\* POST /api/auth/register sets no cookie, so its answer and what follows are one step: the
\* page stays, or goes to the login page.
RegisterAnswers == {"register", "login"}
Register(t) ==
  /\ tab[t].page = "register"
  /\ \E page \in RegisterAnswers : Update(t, [tab[t] EXCEPT !.page = page])
  /\ UNCHANGED <<jar, used, spoilt>>

NewToken(a, email) == [account |-> a, email |-> email, expired |-> FALSE]
\* A token in the jar ends what any tab has been told about having signed out.
SignedIn(tabs) == [t \in Tabs |-> [tabs[t] EXCEPT !.signedOut = FALSE]]

\* POST /api/auth/login: the service refuses, cannot be reached or sends no token; or the
\* answer sets the cookie.
LoginAnswer(t) ==
  /\ tab[t].form = "sent"
  /\ \/ Update(t, [tab[t] EXCEPT !.form = "idle"]) /\ UNCHANGED jar
     \/ \E a \in Accounts :
          /\ jar' = [jar EXCEPT !.token = NewToken(a, TRUE)]
          /\ tab' = SignedIn([tab EXCEPT ![t].form = "accepted"])
  /\ UNCHANGED <<used, spoilt>>

\* submit goes on: router.push, from whatever page the tab is on now, keeps the document
\* and with it the session context.
FormApply(t) ==
  /\ tab[t].form = "accepted"
  /\ Update(t, [tab[t] EXCEPT !.form = "idle", !.page = Dashboard(jar.token),
                              !.state = NoState, !.mismatch = FALSE])
  /\ UNCHANGED <<jar, used, spoilt>>

(***************************************************************************)
(* GitHub                                                                  *)
(***************************************************************************)
(* Variant, not part of the model: the cookies are set with cookies() of   *)
(* next/headers and are lost with the redirect.                            *)
GithubStartCookiesDropped(t) ==
  /\ OnForm(t)
  /\ \E s \in States \ used :
       /\ used' = used \cup {s}
       /\ Update(t, [Document("github") EXCEPT !.state = s])
  /\ UNCHANGED <<jar, spoilt>>
\* GET /api/auth/github: a fresh state takes the place of that of any other attempt.
GithubStart(t) ==
  /\ OnForm(t)
  /\ \E s \in States \ used :
       /\ used' = used \cup {s}
       /\ jar' = [jar EXCEPT !.state = s]
       /\ Update(t, [Document("github") EXCEPT !.state = s])
  /\ spoilt' = spoilt \cup Overwritten

\* The state cookies are deleted with every answer of the callback, whoever set them.
ClearState ==
  /\ jar' = [jar EXCEPT !.state = NoState]
  /\ spoilt' = spoilt \cup Overwritten

\* The callback compares the state in the URL with the cookie.
StateMatches(t) == tab[t].state = jar.state

\* GitHub sends the browser back, and the callback accepts the state.
CallbackAccept(t) ==
  /\ tab[t].page = "github" /\ StateMatches(t)
  /\ Update(t, [tab[t] EXCEPT !.page = "callback"])
  /\ UNCHANGED <<jar, used, spoilt>>

CallbackMismatch(t) ==
  /\ tab[t].page = "github" /\ ~StateMatches(t)
  /\ Update(t, [Document("login") EXCEPT !.state = tab[t].state, !.mismatch = TRUE])
  /\ ClearState
  /\ UNCHANGED used

\* The user declines: there is no code, which is reported as a mismatch, too.
CallbackDeclined(t) ==
  /\ tab[t].page = "github"
  /\ Update(t, [Document("login") EXCEPT !.state = tab[t].state, !.mismatch = TRUE])
  /\ jar' = [jar EXCEPT !.state = NoState]
  /\ spoilt' = spoilt \cup Overwritten \cup {tab[t].state}
  /\ UNCHANGED used

\* The code, the profile and its e-mail address are exchanged for a token; the account may
\* have no address, or GitHub not tell it.
CallbackSignIn(t) ==
  /\ tab[t].page = "callback"
  /\ \E a \in Accounts, email \in BOOLEAN :
       /\ jar' = [token |-> NewToken(a, email), state |-> NoState]
       /\ tab' = SignedIn([tab EXCEPT ![t] = Document("dashboard")])
  /\ spoilt' = spoilt \cup Overwritten
  /\ UNCHANGED used

CallbackFails(t) ==
  /\ tab[t].page = "callback"
  /\ Update(t, Document("login"))
  /\ ClearState
  /\ UNCHANGED used

(***************************************************************************)
(* Signing out, and time                                                   *)
(***************************************************************************)
SignOut(t) ==
  /\ tab[t].page = "dashboard" /\ ~tab[t].leaving
  /\ Update(t, [tab[t] EXCEPT !.leaving = TRUE])
  /\ UNCHANGED <<jar, used, spoilt>>

\* DELETE /api/auth/session takes the token away, or fails.
Deletions == {NoToken, jar.token}

(* Variant, not part of the model: signOut goes to the login page with router.push. *)
SignOutAnswerByRouter(t) ==
  /\ tab[t].leaving
  /\ \E token \in Deletions :
       /\ jar' = [jar EXCEPT !.token = token]
       /\ Update(t, [tab[t] EXCEPT !.page = "login", !.leaving = FALSE,
                                   !.signedOut = token.account = Nobody])
  /\ UNCHANGED <<used, spoilt>>
\* A failure is swallowed; in any case window.location.href = "/login" makes a new document.
SignOutAnswer(t) ==
  /\ tab[t].leaving
  /\ \E token \in Deletions :
       /\ jar' = [jar EXCEPT !.token = token]
       /\ Update(t, [Document("login") EXCEPT !.signedOut = token.account = Nobody])
  /\ UNCHANGED <<used, spoilt>>

TokenExpires ==
  /\ Authenticated(jar.token)
  /\ jar' = [jar EXCEPT !.token.expired = TRUE]
  /\ UNCHANGED <<tab, used, spoilt>>

\* The state cookies live for ten minutes.
StateExpires ==
  /\ jar.state # NoState
  /\ ClearState
  /\ UNCHANGED <<tab, used>>

SignInNext ==
  \/ TokenExpires \/ StateExpires
  \/ \E t \in Tabs :
       \/ Follow(t) \/ Reload(t) \/ LearnSession(t)
       \/ Submit(t) \/ Register(t) \/ LoginAnswer(t) \/ FormApply(t)
       \/ GithubStart(t) \/ CallbackAccept(t) \/ CallbackMismatch(t) \/ CallbackDeclined(t)
       \/ CallbackSignIn(t) \/ CallbackFails(t)
       \/ SignOut(t) \/ SignOutAnswer(t)

SignInSpec == SignInInit /\ [][SignInNext]_signInVars

(***************************************************************************)
(* Properties                                                              *)
(***************************************************************************)
\* "OAuth state mismatch" is reported only for an attempt whose state cookie another
\* attempt took away, or that expired or was declined: an attempt left alone succeeds
\* (github/route.ts:29-34 and callback/route.ts:36, 99-116).
MismatchHasCause == \A t \in Tabs : tab[t].mismatch => tab[t].state \in spoilt

\* A tab that has signed out shows nobody until somebody signs in again, although other
\* tabs' requests and its own session fetch may be in flight (session-provider.tsx:35-38).
SignedOutIsForgotten == \A t \in Tabs : tab[t].signedOut => tab[t].user = Nobody
=============================================================================

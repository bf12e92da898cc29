----------------------------- MODULE AccessTokens -----------------------------
(***************************************************************************)
(* Personal access tokens: the control plane's handlers                    *)
(* (internal/controlplane/token_handlers.go), the routes that forward to   *)
(* them (web/app/api/v1/tokens) and the two places that show tokens: the   *)
(* page web/app/dashboard/access-tokens and the TokenManager card.         *)
(*                                                                         *)
(* One account, several browsers.  A request is sent, handled by separate  *)
(* database statements, answered, and applied to the page that made it.    *)
(***************************************************************************)
EXTENDS Naturals, FiniteSets

CONSTANTS
  TokenCalls,   \* slots for simultaneous requests
  Limits,       \* the token limits of the plans in the account's JWTs
  TopLimit,     \* the largest of them
  Attempts,     \* how often a create tries to INSERT (3 in the code)
  MaxTokens     \* bound: rows of access_token

TokenAssumption ==
  /\ IsFiniteSet(TokenCalls)
  /\ Limits \subseteq Nat /\ TopLimit \in Limits /\ \A n \in Limits : n <= TopLimit
  /\ Attempts \in Nat \ {0}
  /\ MaxTokens \in Nat
ASSUME TokenAssumption

VARIABLES
  tokens,   \* access_token: the status of each row; "none" is a row not yet inserted
  request,  \* the requests in flight
  view      \* what the browser shows: the page, the card, or neither

tokenVars == <<tokens, request, view>>

TokenIds == 1 .. MaxTokens
Rows == [TokenIds -> {"none", "ACTIVE", "REVOKED"}]
NoRows == [t \in TokenIds |-> "none"]
Active(rows) == {t \in TokenIds : rows[t] = "ACTIVE"}
\* Rows are numbered as they are inserted, and stay: a list of them is how many there are,
\* for the table shows the revoked ones as well and no status.
Listed(rows) == Cardinality({t \in TokenIds : rows[t] # "none"})

\* A request: what it asks, how far it is, what its handler has read, and its answer.
\* list is the answer's tokens, which a create does not send.
NoRequest == [kind |-> "none", token |-> 0, at |-> "sent", tries |-> 0, ok |-> FALSE,
              list |-> 0, live |-> FALSE]
Requests == [kind : {"none", "load", "card", "create", "revoke"}, token : 0 .. MaxTokens,
             at : {"sent", "counted", "updated", "answered"}, tries : 0 .. Attempts,
             ok : BOOLEAN, list : 0 .. MaxTokens, live : BOOLEAN]
Ask(kind, t, live) == [NoRequest EXCEPT !.kind = kind, !.token = t, !.live = live]

\* The hooks of AccessTokensPage; list is data.tokens, empty when the body had none.
NoView == [at |-> "gone", list |-> 0, loading |-> FALSE, creating |-> FALSE, error |-> FALSE]
Views == [at : {"gone", "page", "card"}, list : 0 .. MaxTokens, loading : BOOLEAN, creating : BOOLEAN, error : BOOLEAN]

TokenTypeOK ==
  /\ tokens \in Rows
  /\ request \in [TokenCalls -> Requests]
  /\ view \in Views

TokenInit ==
  /\ tokens = NoRows
  /\ request = [c \in TokenCalls |-> NoRequest]
  /\ view = NoView

(***************************************************************************)
(* What is shown.                                                          *)
(***************************************************************************)
Table == IF view.loading THEN "loading"
         ELSE IF view.list = 0 THEN "empty" ELSE "rows"
RevokeShown(t) == view.at = "page" /\ Table = "rows" /\ t <= view.list
CreateShown == view.at = "page" /\ ~view.creating

(***************************************************************************)
(* The browser sends a request.                                            *)
(***************************************************************************)
Idle(c) == request[c].kind = "none"
Send(c, r) == Idle(c) /\ request' = [request EXCEPT ![c] = r] /\ UNCHANGED tokens

Open(c) ==
  /\ view.at = "gone"
  /\ \/ /\ view' = [NoView EXCEPT !.at = "page", !.loading = TRUE]
        /\ Send(c, Ask("load", 0, TRUE))
     \/ /\ view' = [NoView EXCEPT !.at = "card", !.loading = TRUE]
        /\ Send(c, Ask("card", 0, TRUE))

\* Leaving the page or the card aborts nothing, but nobody waits for the answers any more,
\* and a list that nobody waits for has no effect.
Leave ==
  /\ view.at # "gone"
  /\ view' = NoView
  /\ request' = [c \in TokenCalls |-> IF \/ request[c].at = "answered"
                                        \/ request[c].kind \in {"load", "card"} THEN NoRequest
                                     ELSE [request[c] EXCEPT !.live = FALSE]]
  /\ UNCHANGED tokens

\* The refresh buttons: load(true) of the page, load() of the card.
Refresh(c) ==
  \/ /\ view.at = "page"
     /\ UNCHANGED view
     /\ Send(c, Ask("load", 0, TRUE))
  \/ /\ view.at = "card"
     /\ view' = [view EXCEPT !.loading = TRUE]
     /\ Send(c, Ask("card", 0, TRUE))

createToken(c) ==
  /\ CreateShown
  /\ view' = [view EXCEPT !.creating = TRUE]
  /\ Send(c, Ask("create", 0, TRUE))

\* Nothing disables the button of a token that is already being revoked.
revokeToken(c) ==
  \E t \in TokenIds :
    /\ RevokeShown(t)
    /\ Send(c, Ask("revoke", t, TRUE))
    /\ UNCHANGED view

\* Another browser of the same account.
Elsewhere(c) ==
  /\ \/ Send(c, Ask("create", 0, FALSE))
     \/ \E t \in 1 .. Listed(tokens) : Send(c, Ask("revoke", t, FALSE))
  /\ UNCHANGED view

(***************************************************************************)
(* The handlers.  Every statement may fail, and every answer may be lost   *)
(* on its way (the route then answers 502).                                *)
(***************************************************************************)
At(c, kinds, at) == request[c].kind \in kinds /\ request[c].at = at
Reply(c, ok, list) ==
  request' = [request EXCEPT ![c] =
                IF ~@.live THEN NoRequest
                ELSE [@ EXCEPT !.at = "answered", !.tries = 0, !.ok = ok, !.list = list]]
Refuse(c) == Reply(c, FALSE, 0)
List(c) == Reply(c, TRUE, Listed(tokens))

handleV1ListTokens(c) ==
  /\ At(c, {"load", "card"}, "sent")
  /\ List(c) \/ Refuse(c)
  /\ UNCHANGED <<tokens, view>>

(* Variant, not part of the model: the limit itself is let through. *)
BelowLimitInclusive(n) == \E limit \in Limits : n <= limit
\* The limit is that of the plan the JWT names, which may be the plan of an earlier day.
BelowLimit(n) == \E limit \in Limits : n < limit

\* handleV1CreateToken reads the user's tokens ...
CountTokens(c) ==
  /\ At(c, {"create"}, "sent")
  /\ \/ /\ BelowLimit(Cardinality(Active(tokens)))
        /\ request' = [request EXCEPT ![c].at = "counted"]
     \/ Refuse(c)
  /\ UNCHANGED <<tokens, view>>

\* ... and then inserts, trying again after any error: one that came after the row was
\* stored leaves a row whose token nobody has.
InsertToken(c) ==
  /\ At(c, {"create"}, "counted")
  /\ Listed(tokens) < MaxTokens
  /\ \E stored \in BOOLEAN :
       /\ tokens' = IF stored THEN [tokens EXCEPT ![Listed(tokens) + 1] = "ACTIVE"] ELSE tokens
       /\ \/ /\ stored
             /\ Reply(c, TRUE, 0) \/ Refuse(c)
          \/ /\ request[c].tries + 1 = Attempts
             /\ Refuse(c)
          \/ /\ request[c].tries + 1 < Attempts
             /\ request' = [request EXCEPT ![c].tries = @ + 1]
  /\ UNCHANGED view

\* handleV1DeleteToken: the UPDATE, and then the list for the answer.
RevokeRow(c) ==
  /\ At(c, {"revoke"}, "sent")
  /\ \/ /\ tokens' = [tokens EXCEPT ![request[c].token] = "REVOKED"]
        /\ request' = [request EXCEPT ![c].at = "updated"]
     \/ Refuse(c) /\ UNCHANGED tokens
  /\ UNCHANGED view

ListAfterRevoke(c) ==
  /\ At(c, {"revoke"}, "updated")
  /\ List(c) \/ Refuse(c)
  /\ UNCHANGED <<tokens, view>>

(***************************************************************************)
(* What the page does with an answer.                                      *)
(***************************************************************************)
Apply(c, kind, new) ==
  /\ At(c, {kind}, "answered")
  /\ view' = new
  /\ request' = [request EXCEPT ![c] = NoRequest]
  /\ UNCHANGED tokens

setData(c) == [view EXCEPT !.list = request[c].list]
Then(c, done) == IF request[c].ok THEN done ELSE [view EXCEPT !.error = TRUE]

\* load: its finally clears the flags of every other load as well.
LoadApply(c) ==
  Apply(c, "load",
        [Then(c, [setData(c) EXCEPT !.error = FALSE]) EXCEPT !.loading = FALSE])

\* The card looks at the status, and says nothing of a failure.
CardApply(c) == Apply(c, "card", [view EXCEPT !.loading = FALSE])

\* A create's answer has no tokens (its list is empty), and the page takes it for a list.
CreateApply(c) ==
  Apply(c, "create",
        [Then(c, [setData(c) EXCEPT !.error = FALSE]) EXCEPT !.creating = FALSE])

(* Variant, not part of the model: revokeToken does not look at the status. *)
RevokeApplyUnchecked(c) == Apply(c, "revoke", IF request[c].ok THEN setData(c) ELSE view)
RevokeApply(c) == Apply(c, "revoke", Then(c, setData(c)))

TokenNext ==
  \/ Leave
  \/ \E c \in TokenCalls :
       \/ Open(c) \/ Refresh(c) \/ createToken(c) \/ revokeToken(c) \/ Elsewhere(c)
       \/ handleV1ListTokens(c) \/ CountTokens(c) \/ InsertToken(c)
       \/ RevokeRow(c) \/ ListAfterRevoke(c)
       \/ LoadApply(c) \/ CardApply(c) \/ CreateApply(c) \/ RevokeApply(c)

TokenSpec == TokenInit /\ [][TokenNext]_tokenVars

(***************************************************************************)
(* Properties                                                              *)
(***************************************************************************)
\* handleV1CreateToken counts before it inserts, and an insert that failed after it was
\* stored is tried again: an account exceeds its plan, but never by more than Attempts
\* tokens for every create that can be under way at once.
TokensOvershootBounded ==
  Cardinality(Active(tokens)) < TopLimit + Attempts * Cardinality(TokenCalls)

\* A revocation that the page asks for is never taken for a success when it was none: when
\* it is over, the token is revoked, or the page has noted the failure in its error hook
\* (which page.tsx sets at 113 and renders nowhere), or the page has been left.
RevokeTakes ==
  [][\A c \in TokenCalls :
       (request[c].kind = "revoke" /\ request[c].live /\ request'[c] = NoRequest)
         => (tokens'[request[c].token] = "REVOKED" \/ view'.error \/ view'.at = "gone")]_tokenVars
===============================================================================

----------------------------- MODULE AccessProofs -----------------------------
(***************************************************************************)
(* Theorems about what stands before the API: access tokens and the rate   *)
(* limiter.                                                                *)
(***************************************************************************)
EXTENDS AccessTokens, RateLimiter, FiniteSetTheorems, TLAPS

-----------------------------------------------------------------------------
(***************************************************************************)
(* Access tokens for any number of requests at once, any plans and any     *)
(* number of rows: the states are well typed, a revocation is never taken  *)
(* for a success when it was none, and an account exceeds its plan by a    *)
(* bounded number of tokens.                                               *)
(*                                                                         *)
(* For the first two, the rows are numbered without gaps (NoGaps), so that *)
(* an insert never brings a revoked row back, and a revocation that has    *)
(* done its UPDATE has revoked its row (RequestOK).  For the third, every  *)
(* create past its count still owes at most as many rows as it has tries   *)
(* left; Owed collects those tries, and a create that is just past its     *)
(* count found fewer rows than its limit.                                  *)
(***************************************************************************)

NoGaps(rows) == \A t \in TokenIds : rows[t] # "none" <=> t <= Listed(rows)

\* A request, over the rows and a bound of what any list of them can say.
RequestOK(r, rows, n) ==
  /\ r.list <= n
  /\ r.kind = "revoke" => r.token \in 1 .. n
  /\ r.kind = "revoke" /\ (r.at = "updated" \/ (r.at = "answered" /\ r.ok)) => rows[r.token] = "REVOKED"

TokenInv ==
  /\ TokenTypeOK
  /\ NoGaps(tokens)
  /\ view.list <= Listed(tokens)
  /\ \A c \in TokenCalls : RequestOK(request[c], tokens, Listed(tokens))

(***************************************************************************)
(* Rows.                                                                   *)
(***************************************************************************)
LEMMA RowCounts ==
  ASSUME NEW rows \in Rows
  PROVE  /\ MaxTokens \in Nat
         /\ \A status : IsFiniteSet({t \in TokenIds : rows[t] = status})
         /\ IsFiniteSet({t \in TokenIds : rows[t] # "none"})
         /\ Listed(rows) \in 0 .. MaxTokens
         /\ IsFiniteSet(Active(rows)) /\ Cardinality(Active(rows)) \in Nat
<1>1. MaxTokens \in Nat
  BY TokenAssumption DEF TokenAssumption
<1>2. IsFiniteSet(TokenIds) /\ Cardinality(TokenIds) = MaxTokens
  BY <1>1, FS_Interval DEF TokenIds
<1>3. \A status : IsFiniteSet({t \in TokenIds : rows[t] = status})
  BY <1>2, FS_Subset
<1> DEFINE T == {t \in TokenIds : rows[t] # "none"}
<1>4. T \in SUBSET TokenIds
  OBVIOUS
<1> HIDE DEF T
<1>5. IsFiniteSet(T) /\ Cardinality(T) <= MaxTokens
  BY <1>2, <1>4, FS_Subset
<1>6. Cardinality(T) \in Nat
  BY <1>5, FS_CardinalityType
<1>7. Listed(rows) \in 0 .. MaxTokens
  BY <1>1, <1>5, <1>6 DEF Listed, T
<1>8. IsFiniteSet(Active(rows)) /\ Cardinality(Active(rows)) \in Nat
  BY <1>3, FS_CardinalityType DEF Active
<1> QED BY <1>1, <1>3, <1>5, <1>7, <1>8 DEF T

(* InsertToken stores the row after the last one.                          *)
LEMMA RowAdded ==
  ASSUME NEW rows \in Rows, NoGaps(rows), Listed(rows) < MaxTokens,
         NEW new, new = [rows EXCEPT ![Listed(rows) + 1] = "ACTIVE"]
  PROVE  /\ new \in Rows /\ NoGaps(new) /\ Listed(new) = Listed(rows) + 1
         /\ \A t \in TokenIds : rows[t] = "REVOKED" => new[t] = "REVOKED"
         /\ Active(new) = Active(rows) \cup {Listed(rows) + 1}
<1> DEFINE n == Listed(rows)
           T == {t \in TokenIds : rows[t] # "none"}
           U == {t \in TokenIds : new[t] # "none"}
<1>1. n \in Nat /\ n < MaxTokens /\ MaxTokens \in Nat /\ n + 1 \in TokenIds
  <2>1. Listed(rows) \in 0 .. MaxTokens /\ MaxTokens \in Nat
    BY RowCounts
  <2>2. n \in 0 .. MaxTokens /\ n < MaxTokens
    BY <2>1
  <2> HIDE DEF n
  <2> QED BY <2>1, <2>2 DEF TokenIds
<1>2. Cardinality(T) = n /\ IsFiniteSet(T) /\ Cardinality(U) = Listed(new)
  BY RowCounts DEF Listed
<1>3. \A t \in TokenIds : rows[t] # "none" <=> t <= n
  BY DEF NoGaps
<1> HIDE DEF n
<1>4. new = [rows EXCEPT ![n + 1] = "ACTIVE"]
  BY DEF n
<1>5. rows[n + 1] = "none" /\ n + 1 \notin T
  BY <1>1, <1>3
<1>6. new \in Rows
  BY <1>1, <1>4 DEF Rows
<1>7. \A t \in TokenIds : new[t] = IF t = n + 1 THEN "ACTIVE" ELSE rows[t]
  BY <1>1, <1>4 DEF Rows
<1>8. U = T \cup {n + 1}
  BY <1>1, <1>7
<1> HIDE DEF T, U
<1>9. Cardinality(U) = n + 1
  BY <1>2, <1>5, <1>8, FS_AddElement
<1>10. Listed(new) = n + 1
  BY <1>2, <1>9
<1>11. \A t \in TokenIds : new[t] # "none" <=> t <= n + 1
  BY <1>1, <1>3, <1>7 DEF TokenIds
<1>12. \A t \in TokenIds : rows[t] = "REVOKED" => new[t] = "REVOKED"
  BY <1>5, <1>7
<1>13. Active(new) = Active(rows) \cup {n + 1}
  BY <1>1, <1>7 DEF Active
<1> QED BY <1>6, <1>10, <1>11, <1>12, <1>13 DEF NoGaps, n

(* RevokeRow changes the status of a row that is there.                    *)
LEMMA RowRevoked ==
  ASSUME NEW rows \in Rows, NoGaps(rows), NEW k \in 1 .. Listed(rows),
         NEW new, new = [rows EXCEPT ![k] = "REVOKED"]
  PROVE  /\ new \in Rows /\ NoGaps(new) /\ Listed(new) = Listed(rows)
         /\ new[k] = "REVOKED"
         /\ \A t \in TokenIds : rows[t] = "REVOKED" => new[t] = "REVOKED"
         /\ Active(new) \subseteq Active(rows)
<1>1. Listed(rows) \in 0 .. MaxTokens /\ MaxTokens \in Nat
  BY RowCounts
<1>2. k \in TokenIds /\ rows[k] # "none"
  BY <1>1 DEF TokenIds, NoGaps
<1>3. new \in Rows
  BY <1>2 DEF Rows
<1>4. \A t \in TokenIds : new[t] = IF t = k THEN "REVOKED" ELSE rows[t]
  BY <1>2 DEF Rows
<1>5. \A t \in TokenIds : new[t] # "none" <=> rows[t] # "none"
  BY <1>2, <1>4
<1>6. {t \in TokenIds : new[t] # "none"} = {t \in TokenIds : rows[t] # "none"}
  BY <1>5
<1>7. Listed(new) = Listed(rows)
  BY <1>6 DEF Listed
<1>8. Active(new) \subseteq Active(rows)
  BY <1>4 DEF Active
<1> QED BY <1>2, <1>3, <1>4, <1>5, <1>7, <1>8 DEF NoGaps

(***************************************************************************)
(* Steps.                                                                  *)
(***************************************************************************)
LEMMA TokenTypes ==
  /\ MaxTokens \in Nat /\ Attempts \in Nat \ {0}
  /\ NoRequest \in Requests /\ NoRequest.kind = "none" /\ NoRequest.list = 0
  /\ NoView \in Views /\ NoView.list = 0 /\ NoView.at = "gone"
  /\ \A kind \in {"load", "card", "create", "revoke"}, t \in 0 .. MaxTokens, live \in BOOLEAN :
       /\ Ask(kind, t, live) \in Requests
       /\ Ask(kind, t, live).kind = kind /\ Ask(kind, t, live).token = t
       /\ Ask(kind, t, live).at = "sent" /\ Ask(kind, t, live).list = 0
<1>1. MaxTokens \in Nat /\ Attempts \in Nat \ {0}
  BY TokenAssumption DEF TokenAssumption
<1>2. /\ NoRequest \in Requests /\ NoRequest.kind = "none" /\ NoRequest.list = 0
      /\ NoRequest.at = "sent"
  BY <1>1 DEF NoRequest, Requests
<1>3. NoView \in Views /\ NoView.list = 0 /\ NoView.at = "gone"
  BY <1>1 DEF NoView, Views
<1>4. \A kind \in {"load", "card", "create", "revoke"}, t \in 0 .. MaxTokens, live \in BOOLEAN :
       /\ Ask(kind, t, live) \in Requests
       /\ Ask(kind, t, live).kind = kind /\ Ask(kind, t, live).token = t
       /\ Ask(kind, t, live).at = "sent" /\ Ask(kind, t, live).list = 0
  <2> SUFFICES ASSUME NEW kind \in {"load", "card", "create", "revoke"},
                      NEW t \in 0 .. MaxTokens, NEW live \in BOOLEAN
               PROVE  /\ Ask(kind, t, live) \in Requests
                      /\ Ask(kind, t, live).kind = kind /\ Ask(kind, t, live).token = t
                      /\ Ask(kind, t, live).at = "sent" /\ Ask(kind, t, live).list = 0
    OBVIOUS
  <2> QED BY <1>2 DEF Ask, Requests
<1> QED BY <1>1, <1>2, <1>3, <1>4

(* Rows only grow and are only revoked, and one request changes.           *)
LEMMA RequestStep ==
  ASSUME TokenInv, tokens' \in Rows, NoGaps(tokens'), Listed(tokens') >= Listed(tokens),
         \A t \in TokenIds : tokens[t] = "REVOKED" => tokens'[t] = "REVOKED",
         view' \in Views, view'.list <= Listed(tokens'),
         NEW c \in TokenCalls, NEW r \in Requests, request' = [request EXCEPT ![c] = r],
         RequestOK(r, tokens', Listed(tokens'))
  PROVE  TokenInv'
<1> DEFINE n == Listed(tokens)
           k == Listed(tokens')
<1>1. n \in 0 .. MaxTokens /\ k \in 0 .. MaxTokens /\ MaxTokens \in Nat /\ k >= n
  BY RowCounts DEF TokenInv, TokenTypeOK
<1>2. request \in [TokenCalls -> Requests]
  BY DEF TokenInv, TokenTypeOK
<1>3. \A x \in TokenCalls : RequestOK(request[x], tokens, n)
  BY DEF TokenInv
<1>4. RequestOK(r, tokens', k)
  OBVIOUS
<1>5. Listed(tokens)' = k
  BY DEF Listed
<1> HIDE DEF n, k
<1>6. ASSUME NEW x \in TokenCalls PROVE RequestOK(request'[x], tokens', k)
  <2>1. CASE x = c
    BY <1>2, <1>4, <2>1
  <2>2. CASE x # c
    <3>1. request'[x] = request[x] /\ request[x] \in Requests /\ RequestOK(request[x], tokens, n)
      BY <1>2, <1>3, <2>2
    <3>2. request[x].list \in Nat
      BY <1>1, <3>1 DEF Requests
    <3>3. request[x].kind = "revoke" => request[x].token \in 1 .. n /\ request[x].token \in TokenIds
      BY <1>1, <3>1 DEF RequestOK, TokenIds
    <3> QED BY <1>1, <3>1, <3>2, <3>3 DEF RequestOK
  <2> QED BY <2>1, <2>2
<1>7. TokenTypeOK'
  BY <1>2 DEF TokenTypeOK
<1>8. NoGaps(tokens)'
  BY <1>5 DEF NoGaps, Listed
<1>9. view'.list <= k
  BY DEF k
<1> QED BY <1>5, <1>6, <1>7, <1>8, <1>9 DEF TokenInv

(* A step that leaves the rows alone.                                      *)
LEMMA SameRows ==
  ASSUME TokenInv, tokens' = tokens, view' \in Views, view'.list <= Listed(tokens),
         NEW c \in TokenCalls, NEW r \in Requests, request' = [request EXCEPT ![c] = r],
         RequestOK(r, tokens, Listed(tokens))
  PROVE  TokenInv'
<1>1. tokens \in Rows /\ NoGaps(tokens) /\ Listed(tokens) \in 0 .. MaxTokens /\ MaxTokens \in Nat
  BY RowCounts DEF TokenInv, TokenTypeOK
<1>2. tokens' \in Rows /\ NoGaps(tokens') /\ Listed(tokens') >= Listed(tokens)
      /\ view'.list <= Listed(tokens') /\ RequestOK(r, tokens', Listed(tokens'))
  BY <1>1
<1> QED BY <1>2, RequestStep

(* What an answer is: nothing, for a request nobody waits for.             *)
Reported(r, ok, list) ==
  IF ~r.live THEN NoRequest ELSE [r EXCEPT !.at = "answered", !.tries = 0, !.ok = ok, !.list = list]

LEMMA ReplyEffect ==
  ASSUME TokenInv, NEW c \in TokenCalls, NEW ok \in BOOLEAN, NEW list \in 0 .. MaxTokens,
         Reply(c, ok, list)
  PROVE  /\ request' = [request EXCEPT ![c] = Reported(request[c], ok, list)]
         /\ Reported(request[c], ok, list) \in Requests
         /\ \A rows, n : /\ n \in Nat /\ list <= n
                         /\ request[c].kind = "revoke" => request[c].token \in 1 .. n
                         /\ request[c].kind = "revoke" /\ ok => rows[request[c].token] = "REVOKED"
                         => RequestOK(Reported(request[c], ok, list), rows, n)
<1>1. request \in [TokenCalls -> Requests] /\ request[c] \in Requests
  BY DEF TokenInv, TokenTypeOK
<1>2. request' = [request EXCEPT ![c] = Reported(request[c], ok, list)]
  BY <1>1 DEF Reply, Reported
<1>3. CASE ~request[c].live
  <2>1. Reported(request[c], ok, list) = NoRequest
    BY <1>3 DEF Reported
  <2> QED BY <1>2, <2>1, TokenTypes DEF RequestOK
<1>4. CASE request[c].live
  <2> DEFINE r == Reported(request[c], ok, list)
  <2>1. r = [request[c] EXCEPT !.at = "answered", !.tries = 0, !.ok = ok, !.list = list]
    BY <1>4 DEF Reported
  <2>2. 0 \in 0 .. Attempts
    BY TokenTypes
  <2>3. r \in Requests
    BY <1>1, <2>1, <2>2 DEF Requests
  <2>4. /\ r.kind = request[c].kind /\ r.token = request[c].token /\ r.ok = ok
        /\ r.list = list /\ r.at = "answered"
    BY <1>1, <2>1 DEF Requests
  <2> HIDE DEF r
  <2>5. ASSUME NEW rows, NEW n,
               /\ n \in Nat /\ list <= n
               /\ request[c].kind = "revoke" => request[c].token \in 1 .. n
               /\ request[c].kind = "revoke" /\ ok => rows[request[c].token] = "REVOKED"
        PROVE  RequestOK(r, rows, n)
    BY <2>4, <2>5 DEF RequestOK
  <2> QED BY <1>2, <2>3, <2>5 DEF r
<1> QED BY <1>3, <1>4

(***************************************************************************)
(* The actions.  What is sent, and what is answered.                       *)
(***************************************************************************)
LEMMA SendKeeps ==
  ASSUME TokenInv, NEW c \in TokenCalls,
         Open(c) \/ Refresh(c) \/ createToken(c) \/ revokeToken(c) \/ Elsewhere(c)
  PROVE  TokenInv'
<1>1. /\ view \in Views /\ view.list <= Listed(tokens) /\ MaxTokens \in Nat
      /\ Listed(tokens) \in 0 .. MaxTokens /\ view.list \in 0 .. MaxTokens
  BY RowCounts DEF TokenInv, TokenTypeOK, Views
<1>2. ASSUME NEW kind \in {"load", "card", "create", "revoke"}, NEW t \in 0 .. MaxTokens,
             NEW live \in BOOLEAN, kind = "revoke" => t \in 1 .. Listed(tokens),
             Send(c, Ask(kind, t, live)), view' \in Views, view'.list <= Listed(tokens)
      PROVE  TokenInv'
  <2> DEFINE r == Ask(kind, t, live)
  <2>1. r \in Requests /\ r.kind = kind /\ r.token = t /\ r.at = "sent" /\ r.list = 0
    BY TokenTypes
  <2>2. tokens' = tokens /\ request' = [request EXCEPT ![c] = r]
    BY <1>2 DEF Send
  <2> HIDE DEF r
  <2>3. RequestOK(r, tokens, Listed(tokens))
    BY <1>1, <1>2, <2>1 DEF RequestOK
  <2> QED BY <1>2, <2>1, <2>2, <2>3, SameRows
<1>3. 0 \in 0 .. MaxTokens
  BY <1>1
<1>4. CASE Open(c)
  <2>1. view' \in Views /\ view'.list = 0
    BY <1>4, TokenTypes DEF Open, Views
  <2>2. view'.list <= Listed(tokens)
    BY <1>1, <2>1
  <2> QED BY <1>2, <1>3, <1>4, <2>1, <2>2 DEF Open
<1>5. CASE Refresh(c)
  <2>1. view' \in Views /\ view'.list = view.list
    BY <1>1, <1>5 DEF Refresh, Views
  <2>2. view'.list <= Listed(tokens)
    BY <1>1, <2>1
  <2> QED BY <1>2, <1>3, <1>5, <2>1, <2>2 DEF Refresh
<1>6. CASE createToken(c)
  <2>1. view' \in Views /\ view'.list = view.list
    BY <1>1, <1>6 DEF createToken, Views
  <2>2. view'.list <= Listed(tokens)
    BY <1>1, <2>1
  <2> QED BY <1>2, <1>3, <1>6, <2>1, <2>2 DEF createToken
<1>7. CASE revokeToken(c)
  <2>1. PICK t \in TokenIds : RevokeShown(t) /\ Send(c, Ask("revoke", t, TRUE)) /\ UNCHANGED view
    BY <1>7 DEF revokeToken
  <2>2. t \in 0 .. MaxTokens /\ t \in 1 .. Listed(tokens)
    BY <1>1, <2>1 DEF RevokeShown, TokenIds
  <2> QED BY <1>1, <1>2, <2>1, <2>2
<1>8. CASE Elsewhere(c)
  <2>1. CASE Send(c, Ask("create", 0, FALSE))
    BY <1>1, <1>2, <1>3, <1>8, <2>1 DEF Elsewhere
  <2>2. ASSUME NEW t \in 1 .. Listed(tokens), Send(c, Ask("revoke", t, FALSE)) PROVE TokenInv'
    <3>1. t \in 0 .. MaxTokens
      BY <1>1
    <3> QED BY <1>1, <1>2, <1>8, <2>2, <3>1 DEF Elsewhere
  <2> QED BY <1>8, <2>1, <2>2 DEF Elsewhere
<1> QED BY <1>4, <1>5, <1>6, <1>7, <1>8

LEMMA LeaveKeeps ==
  ASSUME TokenInv, Leave
  PROVE  TokenInv'
<1> DEFINE left(c) == IF \/ request[c].at = "answered"
                         \/ request[c].kind \in {"load", "card"} THEN NoRequest
                      ELSE [request[c] EXCEPT !.live = FALSE]
<1>1. request' = [c \in TokenCalls |-> left(c)] /\ tokens' = tokens /\ view' = NoView
  BY DEF Leave
<1>2. /\ Listed(tokens) \in 0 .. MaxTokens /\ MaxTokens \in Nat
      /\ request \in [TokenCalls -> Requests] /\ tokens \in Rows /\ NoGaps(tokens)
  BY RowCounts DEF TokenInv, TokenTypeOK
<1>3. ASSUME NEW c \in TokenCalls
      PROVE  left(c) \in Requests /\ RequestOK(left(c), tokens, Listed(tokens))
  <2>1. request[c] \in Requests /\ RequestOK(request[c], tokens, Listed(tokens))
    BY <1>2 DEF TokenInv
  <2>2. RequestOK(NoRequest, tokens, Listed(tokens))
    BY <1>2, TokenTypes DEF RequestOK
  <2> DEFINE r == [request[c] EXCEPT !.live = FALSE]
  <2>3. /\ r \in Requests /\ r.kind = request[c].kind /\ r.token = request[c].token
        /\ r.at = request[c].at /\ r.ok = request[c].ok /\ r.list = request[c].list
    BY <2>1 DEF Requests
  <2> HIDE DEF r
  <2>4. RequestOK(r, tokens, Listed(tokens))
    BY <2>1, <2>3 DEF RequestOK
  <2> QED BY <2>2, <2>3, <2>4, TokenTypes DEF r
<1>4. Listed(tokens)' = Listed(tokens)
  BY <1>1 DEF Listed
<1> HIDE DEF left
<1>5. TokenTypeOK'
  BY <1>1, <1>2, <1>3, TokenTypes DEF TokenTypeOK
<1>6. NoGaps(tokens)'
  BY <1>1, <1>2, <1>4 DEF NoGaps
<1>7. view'.list <= Listed(tokens)
  BY <1>1, <1>2, TokenTypes
<1>8. \A c \in TokenCalls : RequestOK(request'[c], tokens', Listed(tokens))
  BY <1>1, <1>3
<1> QED BY <1>4, <1>5, <1>6, <1>7, <1>8 DEF TokenInv

(* A handler that leaves the rows alone and answers, or notes what it read. *)
LEMMA ReadersKeep ==
  ASSUME TokenInv, NEW c \in TokenCalls,
         handleV1ListTokens(c) \/ CountTokens(c) \/ ListAfterRevoke(c)
  PROVE  TokenInv'
<1>1. /\ view \in Views /\ view.list <= Listed(tokens) /\ MaxTokens \in Nat
      /\ Listed(tokens) \in 0 .. MaxTokens /\ request[c] \in Requests
      /\ RequestOK(request[c], tokens, Listed(tokens))
  BY RowCounts DEF TokenInv, TokenTypeOK
<1>2. tokens' = tokens /\ view' = view
  BY DEF handleV1ListTokens, CountTokens, ListAfterRevoke
<1>3. ASSUME NEW ok \in BOOLEAN, NEW list \in 0 .. Listed(tokens), Reply(c, ok, list),
             request[c].kind = "revoke" /\ ok => tokens[request[c].token] = "REVOKED"
      PROVE  TokenInv'
  <2> DEFINE r == Reported(request[c], ok, list)
  <2>1. list \in 0 .. MaxTokens /\ list <= Listed(tokens) /\ Listed(tokens) \in Nat
    BY <1>1
  <2>2. request[c].kind = "revoke" => request[c].token \in 1 .. Listed(tokens)
    BY <1>1 DEF RequestOK
  <2>3. request' = [request EXCEPT ![c] = r] /\ r \in Requests
    BY <1>3, <2>1, ReplyEffect
  <2>4. RequestOK(r, tokens, Listed(tokens))
    BY <1>3, <2>1, <2>2, ReplyEffect
  <2> HIDE DEF r
  <2> QED BY <1>1, <1>2, <2>3, <2>4, SameRows
<1>ends. 0 \in 0 .. Listed(tokens) /\ Listed(tokens) \in 0 .. Listed(tokens)
  <2>1. \A n \in 0 .. MaxTokens : 0 \in 0 .. n /\ n \in 0 .. n
    BY <1>1
  <2> QED BY <1>1, <2>1
<1>4. ASSUME Refuse(c) PROVE TokenInv'
  <2>1. Reply(c, FALSE, 0)
    BY <1>4 DEF Refuse
  <2> QED BY <1>3, <1>ends, <2>1
<1>list. ASSUME List(c), request[c].kind = "revoke" => tokens[request[c].token] = "REVOKED"
      PROVE  TokenInv'
  <2>1. Reply(c, TRUE, Listed(tokens))
    BY <1>list DEF List
  <2> QED BY <1>3, <1>ends, <1>list, <2>1
<1>5. CASE handleV1ListTokens(c)
  <2>1. request[c].kind # "revoke"
    BY <1>5 DEF handleV1ListTokens, At
  <2> QED BY <1>4, <1>list, <1>5, <2>1 DEF handleV1ListTokens
<1>6. CASE CountTokens(c)
  <2>1. CASE request' = [request EXCEPT ![c].at = "counted"]
    <3> DEFINE r == [request[c] EXCEPT !.at = "counted"]
    <3>1. request' = [request EXCEPT ![c] = r]
      BY <2>1
    <3>2. r \in Requests /\ r.kind = request[c].kind /\ r.list = request[c].list
      BY <1>1 DEF Requests
    <3>3. request[c].kind = "create"
      BY <1>6 DEF CountTokens, At
    <3> HIDE DEF r
    <3>4. RequestOK(r, tokens, Listed(tokens))
      BY <1>1, <3>2, <3>3 DEF RequestOK
    <3> QED BY <1>1, <1>2, <3>1, <3>2, <3>4, SameRows
  <2> QED BY <1>4, <1>6, <2>1 DEF CountTokens
<1>7. CASE ListAfterRevoke(c)
  <2>1. tokens[request[c].token] = "REVOKED"
    BY <1>1, <1>7 DEF ListAfterRevoke, At, RequestOK
  <2> QED BY <1>4, <1>list, <1>7, <2>1 DEF ListAfterRevoke
<1> QED BY <1>5, <1>6, <1>7

LEMMA RevokeRowKeeps ==
  ASSUME TokenInv, NEW c \in TokenCalls, RevokeRow(c)
  PROVE  TokenInv'
<1>1. /\ view \in Views /\ view.list <= Listed(tokens) /\ MaxTokens \in Nat
      /\ Listed(tokens) \in 0 .. MaxTokens /\ request[c] \in Requests
      /\ RequestOK(request[c], tokens, Listed(tokens))
      /\ tokens \in Rows /\ NoGaps(tokens)
  BY RowCounts DEF TokenInv, TokenTypeOK
<1>2. request[c].kind = "revoke" /\ request[c].token \in 1 .. Listed(tokens) /\ view' = view
  BY <1>1 DEF RevokeRow, At, RequestOK
<1>3. CASE Refuse(c) /\ UNCHANGED tokens
  <2> DEFINE r == Reported(request[c], FALSE, 0)
  <2>1. 0 \in 0 .. MaxTokens /\ Listed(tokens) \in Nat /\ 0 <= Listed(tokens)
    BY <1>1
  <2>2. request' = [request EXCEPT ![c] = r] /\ r \in Requests
    BY <1>3, <2>1, ReplyEffect DEF Refuse
  <2>3. RequestOK(r, tokens, Listed(tokens))
    BY <1>2, <1>3, <2>1, ReplyEffect DEF Refuse
  <2> HIDE DEF r
  <2> QED BY <1>1, <1>2, <1>3, <2>2, <2>3, SameRows
<1>4. CASE /\ tokens' = [tokens EXCEPT ![request[c].token] = "REVOKED"]
           /\ request' = [request EXCEPT ![c].at = "updated"]
  <2> DEFINE r == [request[c] EXCEPT !.at = "updated"]
             k == request[c].token
  <2>row. k \in 1 .. Listed(tokens) /\ tokens' = [tokens EXCEPT ![k] = "REVOKED"]
    BY <1>2, <1>4
  <2> HIDE DEF k
  <2>1. /\ tokens' \in Rows /\ NoGaps(tokens') /\ Listed(tokens') = Listed(tokens)
        /\ tokens'[k] = "REVOKED"
        /\ \A t \in TokenIds : tokens[t] = "REVOKED" => tokens'[t] = "REVOKED"
    BY <1>1, <2>row, RowRevoked
  <2>2. /\ r \in Requests /\ r.kind = "revoke" /\ r.token = k
        /\ r.list = request[c].list /\ r.at = "updated"
    BY <1>1, <1>2 DEF Requests, k
  <2>3. request' = [request EXCEPT ![c] = r]
    BY <1>4
  <2>4. r.list <= Listed(tokens) /\ k \in 1 .. Listed(tokens)
    BY <1>1, <2>2, <2>row DEF RequestOK
  <2> HIDE DEF r
  <2>5. RequestOK(r, tokens', Listed(tokens'))
    BY <2>1, <2>2, <2>4 DEF RequestOK
  <2>6. Listed(tokens') >= Listed(tokens) /\ view'.list <= Listed(tokens') /\ view' \in Views
    BY <1>1, <1>2, <2>1
  <2> QED BY <2>1, <2>2, <2>3, <2>5, <2>6, RequestStep
<1> QED BY <1>3, <1>4 DEF RevokeRow

(* What an insert does to the rows and to its request.                     *)
LEMMA InsertEffect ==
  ASSUME TokenInv, NEW c \in TokenCalls, InsertToken(c)
  PROVE  /\ view' = view /\ request[c].kind = "create" /\ request[c].at = "counted"
         /\ \/ /\ tokens' = [tokens EXCEPT ![Listed(tokens) + 1] = "ACTIVE"]
               /\ Listed(tokens) < MaxTokens
            \/ tokens' = tokens
         /\ \E r \in Requests :
              /\ request' = [request EXCEPT ![c] = r]
              /\ r.kind # "revoke" /\ r.list \in {0, request[c].list}
              /\ \/ r.at # "counted" /\ (r.at = "sent" => r.tries = 0)
                 \/ /\ r.at = "counted" /\ r.tries = request[c].tries + 1
                    /\ request[c].tries + 1 < Attempts
<1>1. request \in [TokenCalls -> Requests] /\ request[c] \in Requests /\ 0 \in 0 .. MaxTokens
  BY TokenTypes DEF TokenInv, TokenTypeOK
<1>2. view' = view /\ request[c].kind = "create" /\ request[c].at = "counted"
  BY DEF InsertToken, At
<1>3. PICK stored \in BOOLEAN :
       /\ tokens' = IF stored THEN [tokens EXCEPT ![Listed(tokens) + 1] = "ACTIVE"] ELSE tokens
       /\ \/ /\ stored
             /\ Reply(c, TRUE, 0) \/ Refuse(c)
          \/ /\ request[c].tries + 1 = Attempts
             /\ Refuse(c)
          \/ /\ request[c].tries + 1 < Attempts
             /\ request' = [request EXCEPT ![c].tries = @ + 1]
  BY DEF InsertToken
<1>4. Listed(tokens) < MaxTokens
  BY DEF InsertToken
<1>5. ASSUME NEW ok \in BOOLEAN, Reply(c, ok, 0)
      PROVE  \E r \in Requests : /\ request' = [request EXCEPT ![c] = r]
                                 /\ r.kind # "revoke" /\ r.list = 0 /\ r.at # "counted"
                                 /\ r.at = "sent" => r.tries = 0
  <2> DEFINE r == Reported(request[c], ok, 0)
  <2>1. request' = [request EXCEPT ![c] = r] /\ r \in Requests
    BY <1>1, <1>5, ReplyEffect
  <2>2. CASE ~request[c].live
    <3>1. r = NoRequest
      BY <2>2 DEF Reported
    <3>2. /\ NoRequest.at # "counted" /\ NoRequest.kind # "revoke" /\ NoRequest.list = 0
          /\ NoRequest.tries = 0
      BY DEF NoRequest
    <3> QED BY <2>1, <3>1, <3>2
  <2>3. CASE request[c].live
    <3>1. r.kind = "create" /\ r.list = 0 /\ r.at = "answered"
      BY <1>1, <1>2, <2>3 DEF Reported, Requests
    <3> HIDE DEF r
    <3> QED BY <2>1, <3>1
  <2> QED BY <2>2, <2>3
<1>6. ASSUME request' = [request EXCEPT ![c].tries = @ + 1], request[c].tries + 1 < Attempts
      PROVE  \E r \in Requests : /\ request' = [request EXCEPT ![c] = r]
                                 /\ r.list = request[c].list /\ r.kind = "create"
                                 /\ r.tries = request[c].tries + 1 /\ r.at = "counted"
  <2> DEFINE n == request[c].tries + 1
             r == [request[c] EXCEPT !.tries = n]
  <2>1. n \in 0 .. Attempts
    <3>1. request[c].tries \in 0 .. Attempts /\ Attempts \in Nat
      BY <1>1, TokenTypes DEF Requests
    <3> QED BY <1>6, <3>1
  <2>2. request' = [request EXCEPT ![c] = r]
    BY <1>6
  <2> HIDE DEF n
  <2>3. r \in Requests /\ r.list = request[c].list /\ r.kind = "create" /\ r.tries = n
        /\ r.at = "counted"
    BY <1>1, <1>2, <2>1 DEF Requests
  <2> HIDE DEF r
  <2> QED BY <2>2, <2>3 DEF n
<1>7. CASE Reply(c, TRUE, 0)
  BY <1>2, <1>3, <1>4, <1>5, <1>7
<1>8. CASE Refuse(c)
  <2>1. Reply(c, FALSE, 0)
    BY <1>8 DEF Refuse
  <2> QED BY <1>2, <1>3, <1>4, <1>5, <2>1
<1>9. CASE request[c].tries + 1 < Attempts /\ request' = [request EXCEPT ![c].tries = @ + 1]
  BY <1>2, <1>3, <1>4, <1>6, <1>9
<1> QED BY <1>3, <1>7, <1>8, <1>9

LEMMA InsertKeeps ==
  ASSUME TokenInv, NEW c \in TokenCalls, InsertToken(c)
  PROVE  TokenInv'
<1>1. /\ view \in Views /\ view.list <= Listed(tokens) /\ MaxTokens \in Nat
      /\ Listed(tokens) \in 0 .. MaxTokens /\ view.list \in 0 .. MaxTokens
      /\ RequestOK(request[c], tokens, Listed(tokens))
      /\ tokens \in Rows /\ NoGaps(tokens)
  BY RowCounts DEF TokenInv, TokenTypeOK, Views
<1>2. PICK r \in Requests :
        /\ request' = [request EXCEPT ![c] = r]
        /\ r.kind # "revoke" /\ r.list \in {0, request[c].list}
  BY InsertEffect
<1>3. view' = view
  BY InsertEffect
<1>4. ASSUME NEW n \in Nat, Listed(tokens) <= n, NEW rows PROVE RequestOK(r, rows, n)
  <2>1. r.list <= Listed(tokens)
    BY <1>1, <1>2 DEF RequestOK
  <2>2. r.list \in 0 .. MaxTokens
    BY <1>2 DEF Requests
  <2> QED BY <1>1, <1>2, <1>4, <2>1, <2>2 DEF RequestOK
<1>5. CASE tokens' = tokens
  <2>1. RequestOK(r, tokens, Listed(tokens))
    BY <1>1, <1>4
  <2> QED BY <1>1, <1>2, <1>3, <1>5, <2>1, SameRows
<1>6. CASE tokens' = [tokens EXCEPT ![Listed(tokens) + 1] = "ACTIVE"] /\ Listed(tokens) < MaxTokens
  <2>1. /\ tokens' \in Rows /\ NoGaps(tokens') /\ Listed(tokens') = Listed(tokens) + 1
        /\ \A t \in TokenIds : tokens[t] = "REVOKED" => tokens'[t] = "REVOKED"
    BY <1>1, <1>6, RowAdded
  <2>2. Listed(tokens') >= Listed(tokens) /\ view'.list <= Listed(tokens') /\ view' \in Views
        /\ Listed(tokens') \in Nat /\ Listed(tokens) <= Listed(tokens')
    BY <1>1, <1>3, <2>1
  <2>3. RequestOK(r, tokens', Listed(tokens'))
    BY <1>4, <2>2
  <2> QED BY <1>2, <2>1, <2>2, <2>3, RequestStep
<1> QED BY <1>5, <1>6, InsertEffect

(* What the page does with an answer.                                      *)
LEMMA AppliesKeep ==
  ASSUME TokenInv, NEW c \in TokenCalls,
         LoadApply(c) \/ CardApply(c) \/ CreateApply(c) \/ RevokeApply(c)
  PROVE  TokenInv'
<1>1. /\ view \in Views /\ view.list <= Listed(tokens) /\ MaxTokens \in Nat
      /\ Listed(tokens) \in 0 .. MaxTokens /\ request[c] \in Requests
      /\ RequestOK(request[c], tokens, Listed(tokens))
  BY RowCounts DEF TokenInv, TokenTypeOK
<1>2. request[c].list \in 0 .. MaxTokens /\ request[c].list <= Listed(tokens)
  BY <1>1 DEF Requests, RequestOK
<1>3. setData(c) \in Views /\ setData(c).list = request[c].list
  BY <1>1, <1>2 DEF setData, Views
<1>4. ASSUME NEW done \in Views, done.list <= Listed(tokens)
      PROVE  Then(c, done) \in Views /\ Then(c, done).list <= Listed(tokens)
  BY <1>1, <1>4 DEF Then, Views
<1>5. ASSUME NEW kind, NEW new \in Views, new.list <= Listed(tokens), Apply(c, kind, new)
      PROVE  TokenInv'
  <2>1. view' = new /\ tokens' = tokens /\ request' = [request EXCEPT ![c] = NoRequest]
    BY <1>5 DEF Apply
  <2>2. RequestOK(NoRequest, tokens, Listed(tokens))
    BY <1>1, TokenTypes DEF RequestOK
  <2> QED BY <1>5, <2>1, <2>2, TokenTypes, SameRows
<1> DEFINE done == [setData(c) EXCEPT !.error = FALSE]
<1>6. done \in Views /\ done.list <= Listed(tokens)
  BY <1>2, <1>3 DEF Views
<1>7. Then(c, done) \in Views /\ Then(c, done).list <= Listed(tokens)
  BY <1>4, <1>6
<1>8. CASE LoadApply(c)
  <2> DEFINE new == [Then(c, done) EXCEPT !.loading = FALSE]
  <2>1. Apply(c, "load", new)
    BY <1>8 DEF LoadApply
  <2> HIDE DEF done
  <2>2. new \in Views /\ new.list <= Listed(tokens)
    BY <1>7 DEF Views
  <2> HIDE DEF new
  <2> QED BY <1>5, <2>1, <2>2
<1>9. CASE CreateApply(c)
  <2> DEFINE new == [Then(c, done) EXCEPT !.creating = FALSE]
  <2>1. Apply(c, "create", new)
    BY <1>9 DEF CreateApply
  <2> HIDE DEF done
  <2>2. new \in Views /\ new.list <= Listed(tokens)
    BY <1>7 DEF Views
  <2> HIDE DEF new
  <2> QED BY <1>5, <2>1, <2>2
<1>10. CASE CardApply(c)
  <2> DEFINE new == [view EXCEPT !.loading = FALSE]
  <2>1. new \in Views /\ new.list <= Listed(tokens) /\ Apply(c, "card", new)
    BY <1>1, <1>10 DEF CardApply, Views
  <2> HIDE DEF new
  <2> QED BY <1>5, <2>1
<1>11. CASE RevokeApply(c)
  BY <1>2, <1>3, <1>4, <1>5, <1>11 DEF RevokeApply
<1> QED BY <1>8, <1>9, <1>10, <1>11

LEMMA TokenInvariant == TokenSpec => []TokenInv
<1>1. TokenInit => TokenInv
  <2> SUFFICES ASSUME TokenInit PROVE TokenInv
    OBVIOUS
  <2>1. tokens \in Rows /\ \A t \in TokenIds : tokens[t] = "none"
    BY DEF TokenInit, NoRows, Rows
  <2>2. {t \in TokenIds : tokens[t] # "none"} = {}
    BY <2>1
  <2>3. Listed(tokens) = 0
    BY <2>2, FS_EmptySet DEF Listed
  <2>4. NoGaps(tokens)
    BY <2>1, <2>3, TokenTypes DEF NoGaps, TokenIds
  <2>5. /\ TokenTypeOK /\ view.list <= Listed(tokens)
        /\ \A c \in TokenCalls : RequestOK(request[c], tokens, Listed(tokens))
    BY <2>1, <2>3, TokenTypes DEF TokenInit, TokenTypeOK, RequestOK
  <2> QED BY <2>4, <2>5 DEF TokenInv
<1>2. TokenInv /\ [TokenNext]_tokenVars => TokenInv'
  <2>1. ASSUME TokenInv, TokenNext PROVE TokenInv'
    BY <2>1, SendKeeps, LeaveKeeps, ReadersKeep, RevokeRowKeeps, InsertKeeps, AppliesKeep
       DEF TokenNext
  <2>2. ASSUME TokenInv, UNCHANGED tokenVars PROVE TokenInv'
    BY <2>2 DEF TokenInv, TokenTypeOK, NoGaps, Listed, RequestOK, tokenVars
  <2> QED BY <2>1, <2>2
<1> QED BY <1>1, <1>2, PTL DEF TokenSpec

(* Every state of the rows, the requests and the page is well typed        *)
(* (token_handlers.go, web/app/dashboard/access-tokens/page.tsx).          *)
THEOREM TokenTypeCorrect == TokenSpec => []TokenTypeOK
<1>1. TokenInv => TokenTypeOK
  BY DEF TokenInv
<1> QED BY <1>1, TokenInvariant, PTL

(***************************************************************************)
(* What a single request becomes: its slot was free, or its handler has    *)
(* answered or moved on, or the page has applied it.                       *)
(***************************************************************************)
SlotChange(c, r) ==
  /\ request' = [request EXCEPT ![c] = r]
  /\ \/ /\ request[c].kind = "none" /\ r.kind # "none" /\ r.at = "sent" /\ r.tries = 0
        /\ tokens' = tokens
     \/ /\ r = NoRequest => ~request[c].live
        /\ r.at # "counted" /\ (r.at = "sent" => r.tries = 0)
        /\ tokens' = tokens \/ RevokeRow(c)
     \/ /\ CountTokens(c) /\ r = [request[c] EXCEPT !.at = "counted"]
        /\ BelowLimit(Cardinality(Active(tokens)))
     \/ InsertToken(c) /\ (r = NoRequest => ~request[c].live)
     \/ /\ LoadApply(c) \/ CardApply(c) \/ CreateApply(c) \/ RevokeApply(c)
        /\ r = NoRequest /\ tokens' = tokens

LEMMA SlotChanges ==
  ASSUME TokenInv, TokenNext, ~Leave
  PROVE  \E c \in TokenCalls, r \in Requests : SlotChange(c, r)
<1>1. request \in [TokenCalls -> Requests] /\ \A c \in TokenCalls : request[c] \in Requests
  BY DEF TokenInv, TokenTypeOK
<1>2. /\ NoRequest \in Requests /\ NoRequest.kind = "none" /\ NoRequest.at = "sent"
      /\ NoRequest.tries = 0
  BY TokenTypes DEF NoRequest
<1>3. MaxTokens \in Nat /\ 0 \in 0 .. MaxTokens /\ Listed(tokens) \in 0 .. MaxTokens
  <2>1. MaxTokens \in Nat /\ Listed(tokens) \in 0 .. MaxTokens
    BY RowCounts DEF TokenInv, TokenTypeOK
  <2> QED BY <2>1
<1>4. ASSUME NEW c \in TokenCalls, NEW kind \in {"load", "card", "create", "revoke"},
             NEW t \in 0 .. MaxTokens, NEW live \in BOOLEAN, Send(c, Ask(kind, t, live))
      PROVE  \E r \in Requests : SlotChange(c, r)
  <2> DEFINE r == Ask(kind, t, live)
  <2>1. r \in Requests /\ r.kind = kind /\ r.at = "sent"
    BY TokenTypes
  <2>2. r.tries = 0
    BY DEF Ask, NoRequest
  <2>3. request' = [request EXCEPT ![c] = r] /\ request[c].kind = "none" /\ tokens' = tokens
    BY <1>4 DEF Send, Idle
  <2>4. kind # "none"
    OBVIOUS
  <2> HIDE DEF r
  <2> QED BY <2>1, <2>2, <2>3, <2>4 DEF SlotChange
<1>5. ASSUME NEW c \in TokenCalls, NEW ok \in BOOLEAN, NEW list \in 0 .. MaxTokens,
             Reply(c, ok, list)
      PROVE  \E r \in Requests : /\ request' = [request EXCEPT ![c] = r]
                                 /\ r = NoRequest => ~request[c].live
                                 /\ r.at # "counted" /\ (r.at = "sent" => r.tries = 0)
  <2> DEFINE r == Reported(request[c], ok, list)
  <2>1. request' = [request EXCEPT ![c] = r] /\ r \in Requests
    BY <1>5, ReplyEffect
  <2>2. CASE ~request[c].live
    <3>1. r = NoRequest
      BY <2>2 DEF Reported
    <3> HIDE DEF r
    <3> QED BY <1>2, <2>1, <2>2, <3>1
  <2>3. CASE request[c].live
    <3>1. r.at = "answered"
      BY <1>1, <2>3 DEF Reported, Requests
    <3> HIDE DEF r
    <3> QED BY <1>2, <2>1, <3>1
  <2> QED BY <2>2, <2>3
<1>6. ASSUME NEW c \in TokenCalls, List(c) \/ Refuse(c), tokens' = tokens \/ RevokeRow(c)
      PROVE  \E r \in Requests : SlotChange(c, r)
  <2>1. PICK r \in Requests : /\ request' = [request EXCEPT ![c] = r]
                              /\ r = NoRequest => ~request[c].live
                              /\ r.at # "counted" /\ (r.at = "sent" => r.tries = 0)
    BY <1>3, <1>5, <1>6 DEF List, Refuse
  <2> QED BY <1>6, <2>1 DEF SlotChange
<1>7. ASSUME NEW c \in TokenCalls,
             Open(c) \/ Refresh(c) \/ createToken(c) \/ revokeToken(c) \/ Elsewhere(c)
      PROVE  \E r \in Requests : SlotChange(c, r)
  <2>1. \A t \in TokenIds : t \in 0 .. MaxTokens
    BY <1>3 DEF TokenIds
  <2>2. \A t \in 1 .. Listed(tokens) : t \in 0 .. MaxTokens
    BY <1>3
  <2> QED BY <1>3, <1>4, <1>7, <2>1, <2>2 DEF Open, Refresh, createToken, revokeToken, Elsewhere
<1>8. ASSUME NEW c \in TokenCalls, handleV1ListTokens(c) \/ ListAfterRevoke(c)
      PROVE  \E r \in Requests : SlotChange(c, r)
  <2> QED BY <1>6, <1>8 DEF handleV1ListTokens, ListAfterRevoke
<1>9. ASSUME NEW c \in TokenCalls, CountTokens(c)
      PROVE  \E r \in Requests : SlotChange(c, r)
  <2>1. CASE /\ BelowLimit(Cardinality(Active(tokens)))
             /\ request' = [request EXCEPT ![c].at = "counted"]
    <3> DEFINE r == [request[c] EXCEPT !.at = "counted"]
    <3>1. request' = [request EXCEPT ![c] = r] /\ r \in Requests
      BY <1>1, <2>1 DEF Requests
    <3> QED BY <1>9, <2>1, <3>1 DEF SlotChange
  <2>2. CASE Refuse(c)
    BY <1>6, <1>9, <2>2 DEF CountTokens
  <2> QED BY <1>9, <2>1, <2>2 DEF CountTokens
<1>10. ASSUME NEW c \in TokenCalls, InsertToken(c)
       PROVE  \E r \in Requests : SlotChange(c, r)
  <2>1. CASE Reply(c, TRUE, 0) \/ Refuse(c)
    BY <1>3, <1>5, <1>10, <2>1 DEF Refuse, SlotChange
  <2>2. CASE request' = [request EXCEPT ![c].tries = @ + 1] /\ request[c].tries + 1 < Attempts
    <3> DEFINE n == request[c].tries + 1
               r == [request[c] EXCEPT !.tries = n]
    <3>1. n \in 0 .. Attempts
      <4>1. request[c].tries \in 0 .. Attempts /\ Attempts \in Nat
        BY <1>1, TokenTypes DEF Requests
      <4> QED BY <2>2, <4>1
    <3>2. request' = [request EXCEPT ![c] = r]
      BY <2>2
    <3> HIDE DEF n
    <3>3. r \in Requests /\ r.at = "counted"
      BY <1>1, <1>10, <3>1 DEF Requests, InsertToken, At
    <3> HIDE DEF r
    <3> QED BY <1>2, <1>10, <3>2, <3>3 DEF SlotChange
  <2> QED BY <1>10, <2>1, <2>2 DEF InsertToken
<1>11. ASSUME NEW c \in TokenCalls, RevokeRow(c)
       PROVE  \E r \in Requests : SlotChange(c, r)
  <2>1. CASE request' = [request EXCEPT ![c].at = "updated"]
    <3> DEFINE r == [request[c] EXCEPT !.at = "updated"]
    <3>1. request' = [request EXCEPT ![c] = r] /\ r \in Requests /\ r.at = "updated"
      BY <1>1, <2>1 DEF Requests
    <3> HIDE DEF r
    <3> QED BY <1>2, <1>11, <3>1 DEF SlotChange
  <2>2. CASE Refuse(c)
    BY <1>6, <1>11, <2>2
  <2> QED BY <1>11, <2>1, <2>2 DEF RevokeRow
<1>12. ASSUME NEW c \in TokenCalls, LoadApply(c) \/ CardApply(c) \/ CreateApply(c) \/ RevokeApply(c)
       PROVE  \E r \in Requests : SlotChange(c, r)
  <2>1. request' = [request EXCEPT ![c] = NoRequest] /\ tokens' = tokens
    BY <1>12 DEF LoadApply, CardApply, CreateApply, RevokeApply, Apply
  <2> QED BY <1>2, <1>12, <2>1 DEF SlotChange
<1> QED BY <1>7, <1>8, <1>9, <1>10, <1>11, <1>12 DEF TokenNext

(***************************************************************************)
(* A revocation is never taken for a success when it was none.             *)
(***************************************************************************)
LEMMA RevocationStep ==
  ASSUME TokenInv, TokenNext, NEW c \in TokenCalls,
         request[c].kind = "revoke", request[c].live, request'[c] = NoRequest
  PROVE  tokens'[request[c].token] = "REVOKED" \/ view'.error \/ view'.at = "gone"
<1>1. /\ request \in [TokenCalls -> Requests] /\ view \in Views
      /\ RequestOK(request[c], tokens, Listed(tokens))
  BY DEF TokenInv, TokenTypeOK
<1>2. CASE Leave
  BY <1>2, TokenTypes DEF Leave
<1>3. CASE ~Leave
  <2>1. PICK d \in TokenCalls, r \in Requests : SlotChange(d, r)
    BY <1>3, SlotChanges
  <2>2. d = c /\ r = NoRequest
    BY <1>1, <2>1, TokenTypes DEF SlotChange
  <2>3. ~CountTokens(c)
    BY DEF CountTokens, At
  <2>4. RevokeApply(c) /\ tokens' = tokens
    BY <2>1, <2>2, <2>3 DEF LoadApply, CardApply, CreateApply, Apply, At, SlotChange
  <2>5. request[c].at = "answered" /\ view' = Then(c, setData(c))
    BY <2>4 DEF RevokeApply, Apply, At
  <2>6. CASE request[c].ok
    BY <1>1, <2>4, <2>5, <2>6 DEF RequestOK
  <2>7. CASE ~request[c].ok
    BY <1>1, <2>5, <2>7 DEF Then, Views
  <2> QED BY <2>6, <2>7
<1> QED BY <1>2, <1>3

(* However the requests of an account interleave, a revocation that the    *)
(* page asked for ends with the token revoked, with the error hook set, or *)
(* after the page was left (revokeToken in page.tsx, handleV1DeleteToken). *)
THEOREM RevocationsTake == TokenSpec => RevokeTakes
<1>1. TokenInv /\ [TokenNext]_tokenVars =>
        [\A c \in TokenCalls :
           (request[c].kind = "revoke" /\ request[c].live /\ request'[c] = NoRequest)
             => (tokens'[request[c].token] = "REVOKED" \/ view'.error \/ view'.at = "gone")]_tokenVars
  BY RevocationStep
<1> QED BY <1>1, TokenInvariant, PTL DEF TokenSpec, RevokeTakes

(***************************************************************************)
(* The tries that the creates past their count still have.                 *)
(***************************************************************************)
Tries == 0 .. Attempts - 1
Owed == {p \in TokenCalls \X Tries : /\ request[p[1]].kind = "create"
                                     /\ request[p[1]].at = "counted"
                                     /\ request[p[1]].tries <= p[2]}

TriesOK(r) ==
  /\ r.at = "sent" => r.tries = 0
  /\ r.at = "counted" => r.tries \in Tries

Capacity == TopLimit + Attempts * Cardinality(TokenCalls)

OvershootInv ==
  /\ \A c \in TokenCalls : TriesOK(request[c])
  /\ Cardinality(Active(tokens)) + Cardinality(Owed) < Capacity

LEMMA OwedCounts ==
  ASSUME TokenInv
  PROVE  /\ Attempts \in Nat \ {0} /\ TopLimit \in Nat /\ Cardinality(TokenCalls) \in Nat
         /\ Capacity \in Nat
         /\ IsFiniteSet(Owed) /\ Cardinality(Owed) \in Nat
         /\ Cardinality(Owed) <= Attempts * Cardinality(TokenCalls)
         /\ IsFiniteSet(Active(tokens)) /\ Cardinality(Active(tokens)) \in Nat
         /\ \A S : S \in SUBSET (TokenCalls \X Tries) =>
              /\ IsFiniteSet(S) /\ Cardinality(S) \in Nat
              /\ Cardinality(S) <= Attempts * Cardinality(TokenCalls)
<1>1. /\ Attempts \in Nat \ {0} /\ TopLimit \in Nat /\ IsFiniteSet(TokenCalls)
      /\ Cardinality(TokenCalls) \in Nat
  BY TokenAssumption, FS_CardinalityType DEF TokenAssumption
<1>2. IsFiniteSet(Tries) /\ Cardinality(Tries) = Attempts
  <2> DEFINE n == Attempts - 1
  <2>1. n \in Int /\ 0 \in Int /\ n - 0 + 1 = Attempts /\ ~(0 > n)
    BY <1>1
  <2> HIDE DEF n
  <2>2. IsFiniteSet(0 .. n) /\ Cardinality(0 .. n) = Attempts
    BY <2>1, FS_Interval
  <2> QED BY <2>2 DEF Tries, n
<1>3. /\ IsFiniteSet(TokenCalls \X Tries)
      /\ Cardinality(TokenCalls \X Tries) = Cardinality(TokenCalls) * Cardinality(Tries)
  BY <1>1, <1>2, FS_Product
<1> DEFINE k == Cardinality(TokenCalls)
<1>4. Cardinality(TokenCalls \X Tries) = Attempts * k
  <2>1. Cardinality(TokenCalls \X Tries) = k * Attempts /\ k \in Nat
    BY <1>1, <1>2, <1>3
  <2> HIDE DEF k
  <2> QED BY <1>1, <2>1
<1>5. ASSUME NEW S \in SUBSET (TokenCalls \X Tries)
      PROVE  IsFiniteSet(S) /\ Cardinality(S) \in Nat /\ Cardinality(S) <= Attempts * k
  BY <1>3, <1>4, FS_Subset, FS_CardinalityType
<1>6. Owed \in SUBSET (TokenCalls \X Tries)
  BY DEF Owed
<1>7. IsFiniteSet(Active(tokens)) /\ Cardinality(Active(tokens)) \in Nat
  BY RowCounts DEF TokenInv, TokenTypeOK
<1>8. Capacity \in Nat
  <2>1. k \in Nat /\ Capacity = TopLimit + Attempts * k
    BY <1>1 DEF Capacity
  <2> HIDE DEF k
  <2>2. Attempts * k \in Nat
    BY <1>1, <2>1
  <2> QED BY <1>1, <2>1, <2>2
<1> QED BY <1>1, <1>5, <1>6, <1>7, <1>8

(* A step that adds no row, and lets no create past its count.             *)
LEMMA QuietStep ==
  ASSUME TokenInv, TokenInv', OvershootInv,
         Active(tokens') \subseteq Active(tokens), Owed' \subseteq Owed,
         \A c \in TokenCalls : TriesOK(request'[c])
  PROVE  OvershootInv'
<1>1. Cardinality(Active(tokens')) <= Cardinality(Active(tokens))
  BY OwedCounts, FS_Subset
<1>2. Cardinality(Owed') <= Cardinality(Owed)
  BY OwedCounts, FS_Subset
<1> DEFINE a == Cardinality(Active(tokens))
           o == Cardinality(Owed)
           a1 == Cardinality(Active(tokens'))
           o1 == Cardinality(Owed')
<1>3. a \in Nat /\ o \in Nat /\ Capacity \in Nat /\ a + o < Capacity
  BY OwedCounts DEF OvershootInv
<1>4. a1 \in Nat
  BY RowCounts DEF TokenInv, TokenTypeOK
<1>5. o1 \in Nat
  <2>1. Owed' \in SUBSET (TokenCalls \X Tries)
    BY DEF Owed
  <2> QED BY <2>1, OwedCounts
<1>6. a1 <= a /\ o1 <= o
  BY <1>1, <1>2
<1>7. Capacity' = Capacity
  BY DEF Capacity
<1>8. OvershootInv' <=> (\A c \in TokenCalls : TriesOK(request'[c])) /\ a1 + o1 < Capacity
  BY <1>7 DEF OvershootInv, Active, TriesOK
<1> HIDE DEF a, o, a1, o1
<1>9. a1 + o1 < Capacity
  BY <1>3, <1>4, <1>5, <1>6
<1> QED BY <1>8, <1>9

LEMMA OvershootStep ==
  ASSUME TokenInv, TokenInv', OvershootInv, TokenNext
  PROVE  OvershootInv'
<1>1. /\ request \in [TokenCalls -> Requests] /\ request' \in [TokenCalls -> Requests]
      /\ tokens \in Rows /\ NoGaps(tokens) /\ tokens' \in Rows
      /\ \A c \in TokenCalls : RequestOK(request[c], tokens, Listed(tokens))
  BY DEF TokenInv, TokenTypeOK
<1>2. \A c \in TokenCalls : TriesOK(request[c])
  BY DEF OvershootInv
<1>3. NoRequest.at = "sent" /\ NoRequest.tries = 0
  BY DEF NoRequest
<1>4. CASE Leave
  <2>1. ASSUME NEW c \in TokenCalls
        PROVE  \/ request'[c] = NoRequest
               \/ /\ request'[c].kind = request[c].kind /\ request'[c].at = request[c].at
                  /\ request'[c].tries = request[c].tries
    BY <1>1, <1>4 DEF Leave, Requests
  <2>2. \A c \in TokenCalls : TriesOK(request'[c])
    BY <1>2, <1>3, <2>1 DEF TriesOK
  <2>3. Owed' \subseteq Owed
    BY <1>3, <2>1 DEF Owed
  <2>4. tokens' = tokens
    BY <1>4 DEF Leave
  <2> QED BY <2>2, <2>3, <2>4, QuietStep
<1>5. CASE ~Leave
  <2>1. PICK d \in TokenCalls, r \in Requests : SlotChange(d, r)
    BY <1>5, SlotChanges
  <2>2. \A c \in TokenCalls : request'[c] = IF c = d THEN r ELSE request[c]
    BY <1>1, <2>1 DEF SlotChange
  <2>3. CASE /\ r.at # "counted" /\ (r.at = "sent" => r.tries = 0)
             /\ tokens' = tokens \/ RevokeRow(d)
    <3>1. \A c \in TokenCalls : TriesOK(request'[c])
      BY <1>2, <2>2, <2>3 DEF TriesOK
    <3>2. Owed' \subseteq Owed
      BY <2>2, <2>3 DEF Owed
    <3>3. CASE RevokeRow(d) /\ tokens' # tokens
      <4>1. request[d].kind = "revoke" /\ request[d].token \in 1 .. Listed(tokens)
        BY <1>1, <3>3 DEF RevokeRow, At, RequestOK
      <4>2. tokens' = [tokens EXCEPT ![request[d].token] = "REVOKED"]
        BY <3>3 DEF RevokeRow
      <4> DEFINE k == request[d].token
                 new == tokens'
      <4>row. k \in 1 .. Listed(tokens) /\ new = [tokens EXCEPT ![k] = "REVOKED"]
        BY <4>1, <4>2
      <4> HIDE DEF k, new
      <4>drop. Active(new) \subseteq Active(tokens)
        BY <1>1, <4>row, RowRevoked
      <4>3. Active(tokens') \subseteq Active(tokens)
        BY <4>drop DEF new
      <4> QED BY <3>1, <3>2, <4>3, QuietStep
    <3>4. CASE tokens' = tokens
      BY <3>1, <3>2, <3>4, QuietStep
    <3> QED BY <2>3, <3>3, <3>4
  <2>4. CASE CountTokens(d) /\ r = [request[d] EXCEPT !.at = "counted"]
             /\ BelowLimit(Cardinality(Active(tokens)))
    <3> DEFINE a == Cardinality(Active(tokens))
               o == Cardinality(Owed')
               k == Attempts * Cardinality(TokenCalls)
    <3>1. request[d] \in Requests /\ request[d].at = "sent"
      BY <1>1, <2>4 DEF CountTokens, At
    <3>2. r.at = "counted" /\ r.tries = 0
      <4>1. r.at = "counted" /\ r.tries = request[d].tries
        BY <2>4, <3>1 DEF Requests
      <4> QED BY <1>2, <3>1, <4>1 DEF TriesOK
    <3>3. 0 \in Tries
      BY TokenTypes DEF Tries
    <3>4. \A c \in TokenCalls : TriesOK(request'[c])
      BY <1>2, <2>2, <3>2, <3>3 DEF TriesOK
    <3>5. Owed' \in SUBSET (TokenCalls \X Tries)
      BY DEF Owed
    <3>6. a \in Nat /\ o \in Nat /\ o <= k /\ TopLimit \in Nat
      BY <3>5, OwedCounts
    <3>7. k \in Nat
      BY OwedCounts
    <3>8. a < TopLimit
      <4>1. PICK limit \in Limits : a < limit
        BY <2>4 DEF BelowLimit
      <4>2. limit \in Nat /\ limit <= TopLimit
        BY TokenAssumption DEF TokenAssumption
      <4> HIDE DEF a
      <4> QED BY <3>6, <4>1, <4>2
    <3>9. tokens' = tokens /\ Capacity' = TopLimit + k
      BY <2>4 DEF CountTokens, Capacity
    <3>10. OvershootInv' <=> (\A c \in TokenCalls : TriesOK(request'[c])) /\ a + o < TopLimit + k
      BY <3>9 DEF OvershootInv, TriesOK, Active
    <3> HIDE DEF a, o, k
    <3>11. a + o < TopLimit + k
      BY <3>6, <3>7, <3>8
    <3> QED BY <3>4, <3>10, <3>11
  <2>5. CASE InsertToken(d)
    <3> DEFINE n == request[d].tries
               slot == <<d, n>>
    <3>1. PICK s \in Requests :
            /\ request' = [request EXCEPT ![d] = s]
            /\ \/ s.at # "counted" /\ (s.at = "sent" => s.tries = 0)
               \/ s.at = "counted" /\ s.tries = n + 1 /\ n + 1 < Attempts
      BY <2>5, InsertEffect
    <3>2. request[d].kind = "create" /\ request[d].at = "counted"
      BY <2>5, InsertEffect
    <3>3. n \in Tries /\ Attempts \in Nat \ {0}
      BY <1>2, <3>2, TokenTypes DEF TriesOK
    <3>4. r = s
      BY <1>1, <2>1, <3>1 DEF SlotChange
    <3>5. n <= n /\ \A i \in Tries : n + 1 <= i => n <= i /\ i # n
      BY <3>3 DEF Tries
    <3>6. slot \in Owed
      BY <3>2, <3>3, <3>5 DEF Owed
    <3>7. Owed' \subseteq Owed \ {slot}
      <4> SUFFICES ASSUME NEW c \in TokenCalls, NEW i \in Tries, <<c, i>> \in Owed'
                   PROVE  <<c, i>> \in Owed \ {slot}
        BY DEF Owed
      <4>1. request'[c].kind = "create" /\ request'[c].at = "counted" /\ request'[c].tries <= i
        BY DEF Owed
      <4>2. CASE c # d
        BY <2>2, <4>1, <4>2 DEF Owed
      <4>3. CASE c = d
        <5>1. s.tries = n + 1 /\ n + 1 <= i
          BY <2>2, <3>1, <3>4, <4>1, <4>3
        <5>2. n <= i /\ i # n
          BY <3>5, <5>1
        <5> HIDE DEF n
        <5> QED BY <3>2, <4>3, <5>2 DEF Owed, n
      <4> QED BY <4>2, <4>3
    <3>8. \A c \in TokenCalls : TriesOK(request'[c])
      <4>1. s.at = "sent" => s.tries = 0
        BY <3>1
      <4>2. s.at = "counted" => s.tries \in Tries
        BY <3>1, <3>3 DEF Tries
      <4> QED BY <1>2, <2>2, <3>4, <4>1, <4>2 DEF TriesOK
    <3> DEFINE a == Cardinality(Active(tokens))
               a1 == Cardinality(Active(tokens'))
               o == Cardinality(Owed)
               o1 == Cardinality(Owed')
    <3>9. a \in Nat /\ o \in Nat /\ Capacity \in Nat /\ a + o < Capacity
      BY OwedCounts DEF OvershootInv
    <3>10. a1 \in Nat /\ o1 \in Nat
      <4>1. Owed' \in SUBSET (TokenCalls \X Tries)
        BY DEF Owed
      <4> QED BY <1>1, <4>1, RowCounts, OwedCounts
    <3>11. o1 <= o - 1
      <4>1. IsFiniteSet(Owed \ {slot}) /\ Cardinality(Owed \ {slot}) = o - 1
        BY <3>6, OwedCounts, FS_RemoveElement
      <4> QED BY <3>7, <4>1, FS_Subset
    <3>12. a1 <= a + 1
      <4>1. CASE tokens' = tokens
        BY <3>9, <4>1
      <4>2. CASE tokens' = [tokens EXCEPT ![Listed(tokens) + 1] = "ACTIVE"] /\ Listed(tokens) < MaxTokens
        <5> DEFINE new == tokens'
                   k == Listed(tokens) + 1
        <5>1. new = [tokens EXCEPT ![Listed(tokens) + 1] = "ACTIVE"]
          BY <4>2
        <5> HIDE DEF new
        <5>2. Active(new) = Active(tokens) \cup {Listed(tokens) + 1}
          BY <1>1, <4>2, <5>1, RowAdded
        <5> HIDE DEF k
        <5>3. Active(tokens') = Active(tokens) \cup {k}
          BY <5>2 DEF new, k
        <5>4. a1 = a \/ a1 = a + 1
          BY <5>3, OwedCounts, FS_AddElement
        <5> HIDE DEF a, a1
        <5> QED BY <3>9, <5>4
      <4> QED BY <2>5, <4>1, <4>2, InsertEffect
    <3>13. OvershootInv' <=> (\A c \in TokenCalls : TriesOK(request'[c])) /\ a1 + o1 < Capacity
      BY DEF OvershootInv, TriesOK, Active, Capacity
    <3> HIDE DEF a, a1, o, o1
    <3>14. a1 + o1 < Capacity
      BY <3>9, <3>10, <3>11, <3>12
    <3> QED BY <3>8, <3>13, <3>14
  <2> QED BY <1>3, <2>1, <2>3, <2>4, <2>5 DEF SlotChange
<1> QED BY <1>4, <1>5

(* Concurrent creates take an account past its plan, for the count and the *)
(* INSERT are two statements and a failed INSERT may have been stored; but *)
(* never by more than Attempts tokens for each request that can be under   *)
(* way at once (handleV1CreateToken, createAccessToken).                   *)
THEOREM TokensOvershoot ==
  ASSUME TokenCalls # {}
  PROVE  TokenSpec => []TokensOvershootBounded
<1> DEFINE k == Attempts * Cardinality(TokenCalls)
<1>1. k \in Nat /\ k > 0 /\ TopLimit \in Nat
  <2> DEFINE n == Cardinality(TokenCalls)
  <2>1. IsFiniteSet(TokenCalls) /\ Attempts \in Nat \ {0} /\ TopLimit \in Nat
    BY TokenAssumption DEF TokenAssumption
  <2>2. n \in Nat /\ n # 0
    BY <2>1, FS_CardinalityType, FS_EmptySet
  <2> HIDE DEF n
  <2>3. \A x \in Nat \ {0}, y \in Nat \ {0} : x * y \in Nat /\ x * y > 0
    OBVIOUS
  <2> QED BY <2>1, <2>2, <2>3 DEF n
<1> HIDE DEF k
<1>2. TokenInit => OvershootInv
  <2> SUFFICES ASSUME TokenInit PROVE OvershootInv
    OBVIOUS
  <2>1. /\ \A c \in TokenCalls : request[c].kind = "none" /\ request[c].at = "sent"
                                 /\ request[c].tries = 0
        /\ \A t \in TokenIds : tokens[t] = "none"
    BY DEF TokenInit, NoRequest, NoRows
  <2>2. Active(tokens) = {} /\ Owed = {} /\ \A c \in TokenCalls : TriesOK(request[c])
    BY <2>1 DEF Active, Owed, TriesOK
  <2>3. Cardinality(Active(tokens)) = 0 /\ Cardinality(Owed) = 0
    BY <2>2, FS_EmptySet
  <2>4. 0 + 0 < TopLimit + k
    BY <1>1
  <2> QED BY <2>2, <2>3, <2>4 DEF OvershootInv, Capacity, k
<1>3. TokenInv /\ TokenInv' /\ OvershootInv /\ [TokenNext]_tokenVars => OvershootInv'
  <2>1. ASSUME UNCHANGED tokenVars, OvershootInv PROVE OvershootInv'
    BY <2>1 DEF OvershootInv, TriesOK, Active, Owed, Capacity, tokenVars
  <2> QED BY <2>1, OvershootStep
<1>4. TokenInv /\ OvershootInv => TokensOvershootBounded
  <2> SUFFICES ASSUME TokenInv, OvershootInv PROVE TokensOvershootBounded
    OBVIOUS
  <2> DEFINE a == Cardinality(Active(tokens))
             o == Cardinality(Owed)
  <2>1. a \in Nat /\ o \in Nat /\ a + o < Capacity /\ Capacity \in Nat
    BY OwedCounts DEF OvershootInv
  <2> HIDE DEF a, o
  <2>2. a < Capacity
    BY <2>1
  <2> QED BY <2>2 DEF TokensOvershootBounded, Capacity, a
<1> QED BY <1>2, <1>3, <1>4, TokenInvariant, PTL DEF TokenSpec

-----------------------------------------------------------------------------
(***************************************************************************)
(* The rate limiter for any number of subjects, any limits and any clock:  *)
(* its states are well typed, and forgetting buckets changes no answer.    *)
(*                                                                         *)
(* The second fact is inductive together with the first.  What it needs of *)
(* the constants is that a bucket nobody has used for StaleAge has become  *)
(* full (the last conjunct of RateAssumption): a tick only fills a         *)
(* forgotten subject's ideal bucket further, a hit makes its bucket as     *)
(* full as the ideal one is, and a sweep forgets full buckets only.        *)
(***************************************************************************)

(* The clock has no end: its bound serves the model checker and is not     *)
(* used below except as a number.                                          *)

LEMMA MoreTimesMore ==
  ASSUME NEW a \in Nat, NEW b \in Nat, NEW r \in Nat, a >= b
  PROVE  a * r \in Nat /\ b * r \in Nat /\ a * r >= b * r
<1>1. PICK d \in Nat : a = b + d
  <2>1. a - b \in Nat /\ a = b + (a - b)
    OBVIOUS
  <2> QED BY <2>1
<1>2. a * r = b * r + d * r
  BY <1>1
<1>3. d * r \in Nat /\ b * r \in Nat /\ a * r \in Nat
  BY <1>1
<1> QED BY <1>2, <1>3

(* What a bucket holds after a while: between what it held and Burst.      *)
LEMMA RefilledIsBounded ==
  ASSUME NEW t \in 0..Burst, NEW l \in 0..MaxTime, now \in 0..MaxTime, l <= now,
         NEW b, b.tokens = t, b.lastSeen = l
  PROVE  Refilled(b) \in 0..Burst
<1>1. now - l \in Nat /\ Rate \in Nat /\ Burst \in Nat /\ MaxTime \in Nat
  BY RateAssumption
<1>2. (now - l) * Rate \in Nat
  BY <1>1, MoreTimesMore
<1>3. Refilled(b) = AtMost(Burst, t + (now - l) * Rate)
  BY DEF Refilled
<1> DEFINE x == (now - l) * Rate
<1>4. x \in Nat
  BY <1>2
<1> HIDE DEF x
<1>5. AtMost(Burst, t + x) \in 0..Burst
  BY <1>1, <1>4 DEF AtMost
<1> QED BY <1>3, <1>5 DEF x

(* A bucket nobody has used for StaleAge is full (rateLimitEntry, cleanup). *)
LEMMA StaleIsFull ==
  ASSUME NEW b, b.tokens \in 0..Burst, b.lastSeen \in 0..MaxTime, now \in 0..MaxTime,
         Stale(b)
  PROVE  Refilled(b) = Burst
<1>1. now - b.lastSeen \in Nat /\ now - b.lastSeen >= StaleAge /\ StaleAge \in Nat /\ Rate \in Nat
  BY RateAssumption DEF Stale
<1>2. (now - b.lastSeen) * Rate >= StaleAge * Rate /\ (now - b.lastSeen) * Rate \in Nat /\ StaleAge * Rate \in Nat
  BY <1>1, MoreTimesMore
<1>3. StaleAge * Rate >= Burst /\ Burst \in Nat
  BY RateAssumption
<1> DEFINE x == (now - b.lastSeen) * Rate
<1>4. x \in Nat /\ x >= Burst
  BY <1>2, <1>3
<1>5. Refilled(b) = AtMost(Burst, b.tokens + x)
  BY DEF Refilled
<1> HIDE DEF x
<1> QED BY <1>3, <1>4, <1>5 DEF AtMost

(***************************************************************************)
(* The three ways a hit goes, as one: the bucket it leaves, and the ideal  *)
(* one.                                                                    *)
(***************************************************************************)
Hit(s, held) ==
  LET t == Refilled(ideal[s]) IN
  /\ cleanup([entries EXCEPT ![s] = Bucket(held, now)])
  /\ ideal' = [ideal EXCEPT ![s] = [tokens |-> IF t >= Cost THEN t - Cost ELSE t,
                                    lastSeen |-> now]]
  /\ now' = now

(* The inductive invariant.  No bucket was used in the future.             *)
NotAhead ==
  /\ \A s \in Subjects : entries[s].lastSeen <= now
  /\ \A s \in Subjects : ideal[s].lastSeen <= now

RateInv == RateTypeOK /\ NotAhead /\ SweepIsInvisible

LEMMA InitInvariant == RateInit => RateInv
<1> SUFFICES ASSUME RateInit PROVE RateInv
  OBVIOUS
<1>1. /\ Cost \in Nat \ {0} /\ Rate \in Nat \ {0} /\ Burst \in Nat
      /\ StaleAge \in Nat /\ SweepEvery \in Nat \ {0} /\ MaxTime \in Nat
  BY RateAssumption
<1>2. RateTypeOK
  BY <1>1 DEF RateInit, RateTypeOK, NoBucket, Answers
<1>3. NotAhead
  BY DEF RateInit, NotAhead, NoBucket
<1>4. SweepIsInvisible
  <2> SUFFICES ASSUME NEW s \in Subjects
               PROVE  ~entries[s].there /\ Refilled(ideal[s]) = Burst
    BY DEF SweepIsInvisible
  <2>1. ideal[s].tokens = Burst /\ ideal[s].lastSeen = 0 /\ now = 0
    BY DEF RateInit
  <2>2. (now - 0) * Rate = 0
    BY <1>1, <2>1
  <2>3. Refilled(ideal[s]) = AtMost(Burst, Burst + 0)
    BY <2>1, <2>2 DEF Refilled
  <2> QED BY <1>1, <2>3 DEF AtMost, RateInit, NoBucket
<1> QED BY <1>2, <1>3, <1>4 DEF RateInv

(* A tick fills the ideal bucket of a forgotten subject further, and it is *)
(* full already.                                                           *)
LEMMA TickKeeps == RateInv /\ Tick => RateInv'
<1> SUFFICES ASSUME RateInv, Tick PROVE RateInv'
  OBVIOUS
<1>1. /\ Rate \in Nat /\ Burst \in Nat /\ MaxTime \in Nat
  BY RateAssumption
<1>2. now \in 0..MaxTime /\ now' \in 0..MaxTime /\ now' = now + 1
  BY <1>1 DEF RateInv, RateTypeOK, Tick
<1>3. entries' = entries /\ hits' = hits /\ granted' = granted /\ ideal' = ideal
  BY DEF Tick
<1>4. RateTypeOK'
  BY <1>2, <1>3 DEF RateInv, RateTypeOK
<1>5. NotAhead'
  <2> SUFFICES ASSUME NEW s \in Subjects
               PROVE  entries[s].lastSeen <= now' /\ ideal[s].lastSeen <= now'
    BY <1>3 DEF NotAhead
  <2>1. entries[s].lastSeen <= now /\ ideal[s].lastSeen <= now
    BY DEF RateInv, NotAhead
  <2>2. entries[s].lastSeen \in 0..MaxTime /\ ideal[s].lastSeen \in 0..MaxTime
    BY DEF RateInv, RateTypeOK
  <2> QED BY <1>1, <1>2, <2>1, <2>2
<1>6. SweepIsInvisible'
  <2> SUFFICES ASSUME NEW s \in Subjects, ~entries[s].there
               PROVE  Refilled(ideal[s])' = Burst
    BY <1>3 DEF RateInv, SweepIsInvisible
  <2> DEFINE t == ideal[s].tokens
             l == ideal[s].lastSeen
  <2>1. t \in 0..Burst /\ l \in 0..MaxTime /\ l <= now
    BY DEF RateInv, RateTypeOK, NotAhead
  <2>2. AtMost(Burst, t + (now - l) * Rate) = Burst
    BY DEF RateInv, SweepIsInvisible, Refilled
  <2>3. now - l \in Nat /\ now' - l \in Nat /\ now' - l >= now - l
    BY <1>1, <1>2, <2>1
  <2>4. /\ (now' - l) * Rate \in Nat /\ (now - l) * Rate \in Nat
        /\ (now' - l) * Rate >= (now - l) * Rate
    BY <1>1, <2>3, MoreTimesMore
  <2>5. Refilled(ideal[s])' = AtMost(Burst, t + (now' - l) * Rate)
    BY <1>3 DEF Refilled, AtMost
  <2> DEFINE x == (now - l) * Rate
             y == (now' - l) * Rate
  <2>6. x \in Nat /\ y \in Nat /\ y >= x /\ AtMost(Burst, t + x) = Burst
    BY <2>2, <2>4
  <2>7. Refilled(ideal[s])' = AtMost(Burst, t + y)
    BY <2>5
  <2> HIDE DEF x, y, t, l
  <2> QED BY <1>1, <2>1, <2>6, <2>7 DEF AtMost
<1> QED BY <1>4, <1>5, <1>6 DEF RateInv

(* A hit that leaves the bucket as full as the ideal one keeps both facts. *)
LEMMA HitKeeps ==
  ASSUME RateInv, NEW s \in Subjects, NEW held \in 0..Burst, Hit(s, held),
         held = IF Refilled(ideal[s]) >= Cost THEN Refilled(ideal[s]) - Cost
                                              ELSE Refilled(ideal[s]),
         granted' \in Answers
  PROVE  RateInv'
<1>1. /\ Rate \in Nat /\ Burst \in Nat /\ MaxTime \in Nat /\ SweepEvery \in Nat \ {0}
      /\ StaleAge \in Nat
  BY RateAssumption
<1>2. now \in 0..MaxTime /\ now' = now
  BY DEF RateInv, RateTypeOK, Hit
<1> DEFINE es == [entries EXCEPT ![s] = Bucket(held, now)]
           sweeps == hits' = 0
<1>3. ideal' = [ideal EXCEPT ![s] = [tokens |-> held, lastSeen |-> now]]
  BY DEF Hit
<1>4. hits' \in 0..(SweepEvery - 1)
  BY <1>1 DEF Hit, cleanup, RateInv, RateTypeOK
<1>5. es \in [Subjects -> [there : BOOLEAN, tokens : 0..Burst, lastSeen : 0..MaxTime]]
  BY <1>2 DEF Bucket, RateInv, RateTypeOK
<1>6. entries' = IF sweeps
                 THEN [z \in Subjects |-> IF es[z].there /\ Stale(es[z]) THEN NoBucket ELSE es[z]]
                 ELSE es
  BY DEF Hit, cleanup
<1>7. NoBucket \in [there : BOOLEAN, tokens : 0..Burst, lastSeen : 0..MaxTime]
  BY <1>1 DEF NoBucket
<1>8. entries' \in [Subjects -> [there : BOOLEAN, tokens : 0..Burst, lastSeen : 0..MaxTime]]
  BY <1>5, <1>6, <1>7
<1>9. ideal' \in [Subjects -> [tokens : 0..Burst, lastSeen : 0..MaxTime]]
  BY <1>2, <1>3 DEF RateInv, RateTypeOK
<1>10. RateTypeOK'
  BY <1>2, <1>4, <1>8, <1>9 DEF RateTypeOK
<1>11. ASSUME NEW z \in Subjects
       PROVE  /\ es[z].lastSeen <= now
              /\ ideal'[z].lastSeen <= now
              /\ IF es[z].there
                 THEN es[z].tokens = ideal'[z].tokens /\ es[z].lastSeen = ideal'[z].lastSeen
                 ELSE z # s /\ ideal'[z] = ideal[z] /\ Refilled(ideal[z]) = Burst
  <2>1. CASE z = s
    <3>1. es[z] = Bucket(held, now) /\ ideal'[z] = [tokens |-> held, lastSeen |-> now]
      BY <1>3, <2>1 DEF RateInv, RateTypeOK
    <3> QED BY <1>1, <1>2, <3>1 DEF Bucket
  <2>2. CASE z # s
    <3>1. es[z] = entries[z] /\ ideal'[z] = ideal[z]
      BY <1>3, <2>2 DEF RateInv, RateTypeOK
    <3> QED BY <2>2, <3>1 DEF RateInv, NotAhead, SweepIsInvisible
  <2> QED BY <2>1, <2>2
<1>12. ASSUME NEW z \in Subjects
       PROVE  \/ entries'[z] = es[z]
              \/ entries'[z] = NoBucket /\ es[z].there /\ Stale(es[z])
  BY <1>5, <1>6
<1>13. NotAhead'
  <2> SUFFICES ASSUME NEW z \in Subjects
               PROVE  entries'[z].lastSeen <= now /\ ideal'[z].lastSeen <= now
    BY <1>2 DEF NotAhead
  <2>1. NoBucket.lastSeen <= now
    BY <1>1, <1>2 DEF NoBucket
  <2> QED BY <1>11, <1>12, <2>1
<1>14. SweepIsInvisible'
  <2> SUFFICES ASSUME NEW z \in Subjects
               PROVE  IF entries'[z].there
                      THEN /\ entries'[z].tokens = ideal'[z].tokens
                           /\ entries'[z].lastSeen = ideal'[z].lastSeen
                      ELSE Refilled(ideal'[z]) = Burst
    <3>1. ASSUME NEW z \in Subjects PROVE Refilled(ideal[z])' = Refilled(ideal'[z])
      BY <1>2 DEF Refilled, AtMost
    <3> QED BY <3>1 DEF SweepIsInvisible
  <2>1. CASE entries'[z] = es[z]
    BY <1>11, <2>1
  <2>2. CASE entries'[z] = NoBucket /\ es[z].there /\ Stale(es[z])
    <3>1. es[z].lastSeen = ideal'[z].lastSeen
      BY <1>11, <2>2
    <3>2. Stale(ideal'[z])
      BY <2>2, <3>1 DEF Stale
    <3>3. ideal'[z].tokens \in 0..Burst /\ ideal'[z].lastSeen \in 0..MaxTime
      BY <1>9
    <3>4. Refilled(ideal'[z]) = Burst
      BY <1>2, <3>2, <3>3, StaleIsFull
    <3> QED BY <2>2, <3>4 DEF NoBucket
  <2> QED BY <1>12, <2>1, <2>2
<1> QED BY <1>10, <1>13, <1>14 DEF RateInv

LEMMA StepKeeps == RateInv /\ [RateNext]_rateVars => RateInv'
<1> SUFFICES ASSUME RateInv, [RateNext]_rateVars PROVE RateInv'
  OBVIOUS
<1>1. /\ Cost \in Nat \ {0} /\ Rate \in Nat /\ Burst \in Nat /\ MaxTime \in Nat /\ Burst >= Cost
  BY RateAssumption
<1>2. now \in 0..MaxTime
  BY DEF RateInv, RateTypeOK
<1>3. ASSUME NEW s \in Subjects
      PROVE  /\ Refilled(ideal[s]) \in 0..Burst
             /\ entries[s].there => Refilled(entries[s]) = Refilled(ideal[s])
             /\ ~entries[s].there => Refilled(ideal[s]) = Burst
  <2>1. ideal[s].tokens \in 0..Burst /\ ideal[s].lastSeen \in 0..MaxTime /\ ideal[s].lastSeen <= now
    BY DEF RateInv, RateTypeOK, NotAhead
  <2>2. Refilled(ideal[s]) \in 0..Burst
    BY <1>2, <2>1, RefilledIsBounded
  <2>3. entries[s].there => entries[s].tokens = ideal[s].tokens /\ entries[s].lastSeen = ideal[s].lastSeen
    BY DEF RateInv, SweepIsInvisible
  <2>4. entries[s].there => Refilled(entries[s]) = Refilled(ideal[s])
    BY <2>3 DEF Refilled
  <2>5. ~entries[s].there => Refilled(ideal[s]) = Burst
    BY DEF RateInv, SweepIsInvisible
  <2> QED BY <2>2, <2>4, <2>5
<1>4. CASE Tick
  BY <1>4, TickKeeps
<1>5. ASSUME NEW s \in Subjects, allowFirst(s) PROVE RateInv'
  <2>1. Refilled(ideal[s]) = Burst
    BY <1>3, <1>5 DEF allowFirst
  <2>2. Burst - Cost \in 0..Burst
    BY <1>1
  <2>3. Hit(s, Burst - Cost)
    BY <1>5 DEF allowFirst, idealAllow, Hit
  <2>4. granted' \in Answers
    BY <1>5 DEF allowFirst, Answers
  <2> QED BY <1>1, <2>1, <2>2, <2>3, <2>4, HitKeeps
<1>6. ASSUME NEW s \in Subjects, allowAgain(s) PROVE RateInv'
  <2> DEFINE t == Refilled(entries[s])
  <2>1. t = Refilled(ideal[s]) /\ t \in 0..Burst /\ t >= Cost
    BY <1>3, <1>6 DEF allowAgain
  <2>2. Hit(s, t - Cost)
    BY <1>6 DEF allowAgain, idealAllow, Hit
  <2>3. granted' \in Answers
    BY <1>6 DEF allowAgain, Answers
  <2> HIDE DEF t
  <2>4. t - Cost \in 0..Burst
    BY <1>1, <2>1
  <2> QED BY <2>1, <2>2, <2>3, <2>4, HitKeeps
<1>7. ASSUME NEW s \in Subjects, refuse(s) PROVE RateInv'
  <2> DEFINE t == Refilled(entries[s])
  <2>1. t = Refilled(ideal[s]) /\ t \in 0..Burst /\ t < Cost
    BY <1>3, <1>7 DEF refuse
  <2>2. Hit(s, t)
    BY <1>7 DEF refuse, idealAllow, Hit
  <2>3. granted' \in Answers
    BY <1>7 DEF refuse, Answers
  <2> HIDE DEF t
  <2>4. ~(t >= Cost)
    BY <1>1, <2>1
  <2> QED BY <2>1, <2>2, <2>3, <2>4, HitKeeps
<1>8. CASE UNCHANGED rateVars
  <2>1. /\ now' = now /\ entries' = entries /\ hits' = hits
        /\ granted' = granted /\ ideal' = ideal
    BY <1>8 DEF rateVars
  <2>2. \A s \in Subjects : Refilled(ideal[s])' = Refilled(ideal[s])
    BY <2>1 DEF Refilled, AtMost
  <2> QED BY <2>1, <2>2 DEF RateInv, RateTypeOK, NotAhead, SweepIsInvisible
<1> QED BY <1>4, <1>5, <1>6, <1>7, <1>8 DEF RateNext

(* Every state of the rate limiter is well typed (rateLimitEntry, allow,   *)
(* cleanup): in particular no bucket holds more than the burst.            *)
THEOREM RateTypeCorrect == RateSpec => []RateTypeOK
<1>1. RateInit => RateInv
  BY InitInvariant
<1>2. RateInv /\ [RateNext]_rateVars => RateInv'
  BY StepKeeps
<1>3. RateInv => RateTypeOK
  BY DEF RateInv
<1> QED BY <1>1, <1>2, <1>3, PTL DEF RateSpec

(* A subject is answered as if no bucket had ever been forgotten (cleanup  *)
(* runs on every 128th hit only, and a forgotten bucket starts full).      *)
THEOREM SweepsAreInvisible == RateSpec => []SweepIsInvisible
<1>1. RateInit => RateInv
  BY InitInvariant
<1>2. RateInv /\ [RateNext]_rateVars => RateInv'
  BY StepKeeps
<1>3. RateInv => SweepIsInvisible
  BY DEF RateInv
<1> QED BY <1>1, <1>2, <1>3, PTL DEF RateSpec
===============================================================================

---------------------------- MODULE CustomDomains ----------------------------
(***************************************************************************)
(* Custom domains (internal/controlplane/service.go, domain_verifier.go).  *)
(*                                                                         *)
(* Two kinds of goroutine read a row of domain_records, ask DNS for the    *)
(* domain's TXT records, and write the whole row back:                     *)
(*                                                                         *)
(*   - runPendingDomainVerifier, one per process (worker): a cycle loads   *)
(*     the pending domains checked least recently and refreshes them one   *)
(*     after the other;                                                    *)
(*   - the API calls that create, verify and delete domains (call).        *)
(*                                                                         *)
(* Statements are steps of their own, as there is no transaction, and the  *)
(* DNS answer may be old when the row is written.  The verification token  *)
(* of a row (expected_txt) is a fresh UUID until the row is VERIFIED and   *)
(* empty from then on, so it is the row's id here.                         *)
(***************************************************************************)
EXTENDS Naturals, FiniteSets, SequencesExt

CONSTANTS
  Names,        \* the custom domains people ask for
  NoName,       \* the domain of an idle slot
  Users,        \* accounts
  NoUser,       \* the empty owner_user_id; as a caller: trusted local access
  Callers,      \* who calls the API
  Calls,        \* slots for simultaneous API calls
  Ids,          \* primary keys, and with them verification tokens
  NoId,         \* "no row"
  Junk,         \* a TXT record that is nobody's token
  DomainLimit,  \* DomainLimit[w] : MaxCustomDomains of caller w, 0 = none at all
  BatchSize,    \* domainVerifyBatchSize
  AuthEnabled   \* whether accounts exist

ASSUME DomainsAssumption ==
  /\ NoName \notin Names
  /\ Names \cap Calls = {} /\ "worker" \notin Names \cup Calls
  /\ NoUser \notin Users
  /\ NoId \notin Ids
  /\ Junk \notin Ids \cup {NoId}
  /\ Callers \subseteq Users \cup {NoUser}
  /\ DomainLimit \in [Users \cup {NoUser} -> Nat]
  /\ IsFiniteSet(Names)
  /\ BatchSize \in Nat \ {0}
  /\ AuthEnabled \in BOOLEAN

VARIABLES
  rows,    \* domain_records of type CUSTOM, by their unique column name
  order,   \* <<x, y>>: name or check under way x was checked before y, or is y
  txt,     \* what DNS answers for each name: no record, or one
  worker,  \* runPendingDomainVerifier: position, batch, row to write
  call,    \* the API calls: position and locals
  seen     \* history: the rows whose token a lookup has seen in DNS

vars == <<rows, order, txt, worker, call, seen>>

Row == [id : Ids \cup {NoId}, owner : Users \cup {NoUser}, status : {"PENDING", "VERIFIED"}]
NoRow == [id |-> NoId, owner |-> NoUser, status |-> "PENDING"]
Entry == [name : Names, row : Row]

Exists(n) == rows[n].id # NoId

(* The worker's mark in order; the mark of an API call is its slot.        *)
Worker == "worker"
Marks == Calls \cup {Worker}
Listed == {x \in Names \cup Marks : <<x, x>> \in order}

IdleCall == [pc |-> "idle", name |-> NoName, user |-> NoUser, row |-> NoRow]
IdleWorker == [pc |-> "idle", batch |-> <<>>]

(* Every copy of a row: in the table, with the verifier, with a call.      *)
Held ==
  {rows[n] : n \in Names} \cup {e.row : e \in ToSet(worker.batch)} \cup {call[a].row : a \in Calls}

(* Variant, not part of the model: ORDER BY ... DESC.                      *)
After(m, n) == m # n /\ <<n, m>> \in order

(* ORDER BY COALESCE(last_verification_check_at, created_at).              *)
Before(m, n) == m # n /\ <<m, n>> \in order

(* WHERE type = 'CUSTOM' AND status = 'PENDING'.                           *)
Pending == {n \in Names : Exists(n) /\ rows[n].status = "PENDING"}

(* ORDER BY ... LIMIT domainVerifyBatchSize: in each place the first of    *)
(* those that are left.                                                    *)
Batches ==
  LET size == IF Cardinality(Pending) < BatchSize THEN Cardinality(Pending) ELSE BatchSize
      Left(b, i) == Pending \ {b[j] : j \in 1 .. (i - 1)}
  IN {b \in [1 .. size -> Pending] :
        \A i \in 1 .. size :
          b[i] \in Left(b, i) /\ \A n \in Left(b, i) \ {b[i]} : Before(b[i], n)}

(* Variant, not part of the model: any TXT record counts.                  *)
AnyRecord(record, token) == TRUE

(* expected_txt, and strings.Contains of it in a TXT record: every record  *)
(* contains the empty token.                                               *)
Token(row) == IF row.status = "VERIFIED" THEN NoId ELSE row.id
Contains1(record, token) == token = NoId \/ record = token
Answers(n, row) == txt[n] # NoId /\ Contains1(txt[n], Token(row))

(* The row refreshDomainVerification writes back: VERIFIED if a TXT record *)
(* has the token, and otherwise, or when the lookup fails, the status that *)
(* was read.                                                               *)
Verified(row) == [row EXCEPT !.status = "VERIFIED"]
Refreshed(n, row) == IF Answers(n, row) THEN {Verified(row), row} ELSE {row}

(* History: the lookup found the row's token.                              *)
Saw(n, row) == IF txt[n] = row.id THEN seen \cup {row.id} ELSE seen

(* last_verification_check_at is taken before the lookup and written with  *)
(* the row: the mark m holds its place in order in the meantime, and the   *)
(* domain n takes that place.                                              *)
Mark(m) == order \cup ((Listed \cup {m}) \X {m})
Unmark(m) == {p \in order : p[1] # m /\ p[2] # m}
Unmarked == order \cap (Names \X Names)
Place(x, n, m) == IF x = n THEN m ELSE x
Settled(n, m) ==
  {p \in (Listed \cup {n}) \X (Listed \cup {n}) :
     p[1] # m /\ p[2] # m /\ <<Place(p[1], n, m), Place(p[2], n, m)>> \in order}

(* Variant, not part of the model: the earlier check of the domain keeps   *)
(* its place.                                                              *)
SettleTwice(n, m) == Unmark(m) \cup Settled(n, m)

Settle(n, m) == Settled(n, m)

(* Variant, not part of the model: an upsert on the unique column name.    *)
SaveByName(n, row) == TRUE

(* db.Save(&record): the row is updated by primary key or, if no row has   *)
(* it any more, inserted again.  The unique index on name refuses the      *)
(* insert when the name belongs to another row by now.                     *)
SaveAllowed(n, row) == rows[n].id \in {row.id, NoId}
Save(n, row, m) ==
  /\ SaveAllowed(n, row)
  /\ rows' = [rows EXCEPT ![n] = row]
  /\ order' = Settle(n, m)

(* Ids and tokens nothing refers to.                                       *)
FreshIds == Ids \ ({row.id : row \in Held} \cup {txt[n] : n \in Names})

Init ==
  /\ rows = [n \in Names |-> NoRow]
  /\ order = {}
  /\ txt = [n \in Names |-> NoId]
  /\ worker = IdleWorker
  /\ call = [a \in Calls |-> IdleCall]
  /\ seen = {}

-----------------------------------------------------------------------------
(* DNS: the holder of a zone publishes a token it was given, something     *)
(* else, or nothing.                                                       *)
Publish(n) ==
  /\ txt' \in {[txt EXCEPT ![n] = v] : v \in {rows[x].id : x \in Names} \cup {Junk, NoId}}
  /\ txt' # txt
  /\ UNCHANGED <<rows, order, worker, call, seen>>

-----------------------------------------------------------------------------
(* verifyPendingDomains.                                                   *)

Head1 == worker.batch[1]

(* One cycle starts, at once or when the ticker fires.                     *)
WorkerLoad ==
  /\ worker.pc = "idle"
  /\ Pending # {}
  /\ \E b \in Batches :
       worker' = [pc |-> "refreshing",
                  batch |-> [i \in DOMAIN b |-> [name |-> b[i], row |-> rows[b[i]]]]]
  /\ UNCHANGED <<rows, order, txt, call, seen>>

(* The next record of the batch is looked up, as it was when the batch was *)
(* loaded.                                                                 *)
WorkerLookup ==
  /\ worker.pc = "refreshing"
  /\ \E row \in Refreshed(Head1.name, Head1.row) :
       worker' = [pc |-> "saving", batch |-> [worker.batch EXCEPT ![1].row = row]]
  /\ order' = Mark(Worker)
  /\ seen' = Saw(Head1.name, Head1.row)
  /\ UNCHANGED <<rows, txt, call>>

NextRecord ==
  worker' = IF Len(worker.batch) = 1 THEN IdleWorker
            ELSE [pc |-> "refreshing", batch |-> Tail(worker.batch)]

WorkerSave ==
  /\ worker.pc = "saving"
  /\ Save(Head1.name, Head1.row, Worker)
  /\ NextRecord
  /\ UNCHANGED <<txt, call, seen>>

(* The statement fails or is refused: the cycle ends, the rest of the      *)
(* batch waits for the next one.                                           *)
WorkerSaveFails ==
  /\ worker.pc = "saving"
  /\ order' = Unmark(Worker)
  /\ worker' = IdleWorker
  /\ UNCHANGED <<rows, txt, call, seen>>

-----------------------------------------------------------------------------
(* The API.                                                                *)

CallAt(a, pc) == call[a].pc = pc
CallDone(a) == call' = [call EXCEPT ![a] = IdleCall]
CallStart(a, pc, n, w, row) ==
  /\ CallAt(a, "idle")
  /\ call' = [call EXCEPT ![a] = [pc |-> pc, name |-> n, user |-> w, row |-> row]]

(* Restricted to the caller's rows when accounts exist.                    *)
Scoped(w, row) == w # NoUser /\ AuthEnabled => row.owner = w

OwnedDomains(w) == {n \in Names : Exists(n) /\ Scoped(w, rows[n])}

(* createDomain: enforceCustomDomainQuota.                                 *)
CreateStart(a, n, w) ==
  /\ Cardinality(OwnedDomains(w)) < DomainLimit[w]
  /\ CallStart(a, "creating", n, w, NoRow)
  /\ UNCHANGED <<rows, order, txt, worker, seen>>

(* createDomain: the row is inserted with a new token, or refused by the   *)
(* unique index.                                                           *)
CreateInsert(a) ==
  LET n == call[a].name
  IN /\ CallAt(a, "creating")
     /\ \/ /\ ~ Exists(n)
           /\ \E i \in FreshIds :
                /\ rows' = [rows EXCEPT ![n] =
                              [id |-> i, owner |-> call[a].user, status |-> "PENDING"]]
                /\ seen' = seen \ {i}
           /\ order' = Mark(n)
        \/ /\ Exists(n)
           /\ UNCHANGED <<rows, order, seen>>
     /\ CallDone(a)
     /\ UNCHANGED <<txt, worker>>

(* verifyDomain loads the row of the caller and looks it up.               *)
VerifyLookup(a, n, w) ==
  /\ Exists(n) /\ Scoped(w, rows[n])
  /\ \E row \in Refreshed(n, rows[n]) : CallStart(a, "saving", n, w, row)
  /\ order' = Mark(a)
  /\ seen' = Saw(n, rows[n])
  /\ UNCHANGED <<rows, txt, worker>>

VerifySave(a) ==
  /\ CallAt(a, "saving")
  /\ Save(call[a].name, call[a].row, a)
  /\ CallDone(a)
  /\ UNCHANGED <<txt, worker, seen>>

(* deleteDomain loads the row of the caller ...                            *)
DeleteLoad(a, n, w) ==
  /\ Exists(n) /\ Scoped(w, rows[n])
  /\ CallStart(a, "deleting", n, w, rows[n])
  /\ UNCHANGED <<rows, order, txt, worker, seen>>

(* ... and deletes it by its primary key.                                  *)
DeleteRow(a) ==
  LET n == call[a].name
  IN /\ CallAt(a, "deleting")
     /\ IF rows[n].id = call[a].row.id
        THEN rows' = [rows EXCEPT ![n] = NoRow] /\ order' = Unmark(n)
        ELSE UNCHANGED <<rows, order>>
     /\ CallDone(a)
     /\ UNCHANGED <<txt, worker, seen>>

(* A statement fails or is refused.                                        *)
CallFails(a) ==
  /\ ~ CallAt(a, "idle")
  /\ order' = Unmark(a)
  /\ CallDone(a)
  /\ UNCHANGED <<rows, txt, worker, seen>>

CallStep(a) == CreateInsert(a) \/ VerifySave(a) \/ DeleteRow(a) \/ CallFails(a)

(* The process ends and starts again, in the middle of whatever it does.   *)
Restart ==
  /\ worker' = IdleWorker
  /\ call' = [a \in Calls |-> IdleCall]
  /\ order' = Unmarked
  /\ UNCHANGED <<rows, txt, seen>>

Next ==
  \/ \E n \in Names : Publish(n)
  \/ WorkerLoad \/ WorkerLookup \/ WorkerSave \/ WorkerSaveFails
  \/ \E a \in Calls : CallStep(a)
  \/ \E a \in Calls, n \in Names, w \in Callers :
       CreateStart(a, n, w) \/ VerifyLookup(a, n, w) \/ DeleteLoad(a, n, w)
  \/ Restart

Spec == Init /\ [][Next]_vars

(***************************************************************************)
(* The ticker keeps firing and the worker's goroutine keeps running.       *)
(* Callers, zone holders and the end of the process are under no           *)
(* obligation.                                                             *)
(***************************************************************************)
Fairness ==
  /\ WF_vars(WorkerLoad)
  /\ WF_vars(WorkerLookup)
  /\ WF_vars(WorkerSave \/ WorkerSaveFails)

FairSpec == Spec /\ Fairness

-----------------------------------------------------------------------------
(* Properties.                                                             *)

(* The order of checks is linear, and holds the domains that exist and the *)
(* checks under way, each of them once.                                    *)
Ordered ==
  /\ order \subseteq Listed \X Listed
  /\ Listed \cap Names = {n \in Names : Exists(n)}
  /\ \A x, y \in Listed : <<x, y>> \in order \/ <<y, x>> \in order
  /\ \A x, y \in Listed : <<x, y>> \in order /\ <<y, x>> \in order => x = y
  /\ \A x, y, z \in Listed : <<x, y>> \in order /\ <<y, z>> \in order => <<x, z>> \in order

TypeOK ==
  /\ rows \in [Names -> Row]
  /\ txt \in [Names -> Ids \cup {NoId, Junk}]
  /\ worker \in [pc : {"idle", "refreshing", "saving"}, batch : Seq(Entry)]
  /\ worker.pc # "idle" => worker.batch # <<>>
  /\ call \in [Calls -> [pc : {"idle", "creating", "saving", "deleting"},
                         name : Names \cup {NoName}, user : Users \cup {NoUser}, row : Row]]
  /\ seen \subseteq Ids
  /\ Ordered

(* A domain is VERIFIED, and its host admitted for a certificate, only if  *)
(* the token of that very row has been seen in DNS, however old the row    *)
(* was that a check wrote back.                                            *)
VerifiedWasSeen ==
  \A n \in Names : Exists(n) /\ rows[n].status = "VERIFIED" => rows[n].id \in seen

(* A check never hands a domain to somebody else: the row of a name is     *)
(* replaced only after it has been deleted, and while it exists it keeps   *)
(* its owner.                                                              *)
NeverDisplaced ==
  [][\A n \in Names :
       Exists(n) => \/ ~ Exists(n)'
                    \/ /\ rows'[n].id = rows[n].id
                       /\ rows'[n].owner = rows[n].owner]_vars

(* A domain that was deleted comes back only when somebody creates it.     *)
DeletedStaysDeleted ==
  [][\A n \in Names :
       ~ Exists(n) /\ Exists(n)' => \E a \in Calls : CallAt(a, "creating") /\ CreateInsert(a)]_vars

(* No lookup fails, no statement fails that is not refused, and the        *)
(* process runs on.                                                        *)
Calm ==
  /\ ~ Restart
  /\ WorkerSaveFails => ~ SaveAllowed(Head1.name, Head1.row)
  /\ (WorkerLookup /\ Answers(Head1.name, Head1.row)) =>
       worker'.batch[1].row.status = "VERIFIED"
  /\ \A a \in Calls :
       (CallAt(a, "idle") /\ CallAt(a, "saving")' /\ Answers(call'[a].name, call'[a].row)) =>
         call'[a].row.status = "VERIFIED"

(* A pending domain whose token stays published is verified in the end,    *)
(* and again should an old check undo it, although each cycle checks only  *)
(* BatchSize domains and other domains may never verify.                   *)
PublishedIsVerified ==
  <>[][Calm]_vars =>
    \A n \in Names, i \in Ids :
      <>[](rows[n].id = i /\ txt[n] = i) => []<>(rows[n].status = "VERIFIED")
=============================================================================

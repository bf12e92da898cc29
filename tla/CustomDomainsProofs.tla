------------------------- MODULE CustomDomainsProofs -------------------------
(***************************************************************************)
(* Theorems about CustomDomains, for every finite set of names and every   *)
(* number of accounts, API calls, tokens and domains in a batch.  They are *)
(* about the rows and their copies, and, in the last part, about the order *)
(* in which the verifier takes the domains.                                *)
(***************************************************************************)
EXTENDS CustomDomains, SequenceTheorems, FiniteSetTheorems, TLAPS

CallLocals == [pc : {"idle", "creating", "saving", "deleting"},
               name : Names \cup {NoName}, user : Users \cup {NoUser}, row : Row]

(* The rows and their copies have the right type, and only domains that    *)
(* exist are in a batch.                                                   *)
RowsTyped ==
  /\ rows \in [Names -> Row]
  /\ worker \in [pc : {"idle", "refreshing", "saving"}, batch : Seq(Entry)]
  /\ worker.pc # "idle" => worker.batch # <<>>
  /\ \A i \in 1 .. Len(worker.batch) : worker.batch[i].row.id # NoId
  /\ call \in [Calls -> CallLocals]

(* Whoever holds a row as VERIFIED, its token has been seen.               *)
CopiesSeen == \A x \in Held : x.status = "VERIFIED" => x.id \in seen

(* All copies of a row name the same owner, those of deleted rows as well: *)
(* one of them may be written back, and the next copy onto it.             *)
CopiesAgree == \A x, y \in Held : x.id = y.id /\ x.id # NoId => x.owner = y.owner

DomainInv == RowsTyped /\ CopiesSeen /\ CopiesAgree

-----------------------------------------------------------------------------
(* x is no row, or a copy of a row held before the step, its status at     *)
(* most replaced by VERIFIED after its token was seen.                     *)
From(x) ==
  \/ x = NoRow
  \/ \E y \in Held : /\ x.id = y.id
                     /\ x.owner = y.owner
                     /\ x.status = "VERIFIED" => y.status = "VERIFIED" \/ x.id \in seen'

RowsFrom == \A n \in Names : From(rows'[n])
BatchFrom == \A i \in 1 .. Len(worker'.batch) : From(worker'.batch[i].row)
CallsFrom == \A a \in Calls : From(call'[a].row)

(* NoRow is a row.                                                         *)
LEMMA NoRowType == NoRow \in Row
  BY DEF NoRow, Row

(* Rows, entries of the batch and locals of calls are held.                *)
LEMMA Holders ==
  ASSUME RowsTyped
  PROVE  /\ \A n \in Names : rows[n] \in Held
         /\ \A i \in 1 .. Len(worker.batch) : worker.batch[i].row \in Held
         /\ \A a \in Calls : call[a].row \in Held
  BY DEF RowsTyped, Held, ToSet

(* Nothing else is, before and after a step.                               *)
LEMMA HeldBefore ==
  ASSUME RowsTyped, NEW x \in Held
  PROVE  \/ \E n \in Names : x = rows[n]
         \/ \E i \in 1 .. Len(worker.batch) : x = worker.batch[i].row
         \/ \E a \in Calls : x = call[a].row
  BY DEF RowsTyped, Held, ToSet

LEMMA HeldAfter ==
  ASSUME RowsTyped', NEW x \in Held'
  PROVE  \/ \E n \in Names : x = rows'[n]
         \/ \E i \in 1 .. Len(worker'.batch) : x = worker'.batch[i].row
         \/ \E a \in Calls : x = call'[a].row
  BY DEF RowsTyped, Held, ToSet

(* What is held is a copy of itself.                                       *)
LEMMA FromHeld ==
  ASSUME NEW x \in Held
  PROVE  From(x)
  BY DEF From

(* What a step leaves alone stays a copy.                                  *)
LEMMA Kept ==
  ASSUME RowsTyped
  PROVE  /\ UNCHANGED rows => RowsFrom
         /\ UNCHANGED worker => BatchFrom
         /\ UNCHANGED call => CallsFrom
  BY Holders, FromHeld DEF RowsFrom, BatchFrom, CallsFrom

(* A step after which only copies are held preserves the invariant.        *)
LEMMA CopiesPreserved ==
  ASSUME DomainInv, RowsTyped', RowsFrom, BatchFrom, CallsFrom, seen \subseteq seen'
  PROVE  DomainInv'
<1>1. \A x \in Held' : From(x)
  BY HeldAfter DEF RowsFrom, BatchFrom, CallsFrom
<1>2. CopiesSeen'
  BY <1>1 DEF CopiesSeen, From, DomainInv, NoRow
<1>3. CopiesAgree'
  BY <1>1 DEF CopiesAgree, From, DomainInv, NoRow
<1> QED BY <1>2, <1>3 DEF DomainInv

(* refreshDomainVerification yields a copy of the row it was given.        *)
LEMMA RefreshedFrom ==
  ASSUME NEW n, NEW old \in Row, old \in Held, old.id # NoId, seen' = Saw(n, old), NEW new \in Refreshed(n, old)
  PROVE  new \in Row /\ new.id = old.id /\ From(new) /\ seen \subseteq seen'
<1>1. CASE new = old
  BY <1>1, FromHeld DEF Saw
<1>2. CASE new = Verified(old) /\ Answers(n, old)
  <2>1. new \in Row /\ new.id = old.id /\ new.owner = old.owner
    BY <1>2 DEF Verified, Row
  <2>2. old.status = "VERIFIED" \/ txt[n] = old.id
    BY <1>2 DEF Answers, Contains1, Token
  <2>3. old.status = "VERIFIED" \/ new.id \in seen'
    BY <2>1, <2>2 DEF Saw
  <2> QED BY <2>1, <2>3 DEF From, Saw
<1> QED BY <1>1, <1>2 DEF Refreshed

(* In the cycle of the verifier.                                           *)
LEMMA HeadEntry ==
  ASSUME RowsTyped, worker.pc # "idle"
  PROVE  /\ worker.batch \in Seq(Entry) /\ Len(worker.batch) \in Nat \ {0}
         /\ Head1 \in Entry /\ Head1.row.id # NoId /\ Head1.row \in Held
<1>1. worker.batch \in Seq(Entry) /\ worker.batch # <<>>
  BY DEF RowsTyped
<1>2. Len(worker.batch) \in Nat \ {0}
  BY <1>1
<1>3. 1 \in 1 .. Len(worker.batch)
  BY <1>2
<1> QED BY <1>1, <1>2, <1>3, Holders DEF RowsTyped, Head1

(* The batch loaded is a sequence of existing rows.                        *)
LEMMA LoadPreserves ==
  ASSUME DomainInv, WorkerLoad
  PROVE  DomainInv'
<1>1. PICK b \in Batches :
        worker' = [pc |-> "refreshing",
                   batch |-> [i \in DOMAIN b |-> [name |-> b[i], row |-> rows[b[i]]]]]
  BY DEF WorkerLoad
<1>2. PICK k \in Nat \ {0} : b \in [1 .. k -> Pending]
  <2>1. IsFiniteSet(Pending) /\ Pending # {}
    BY DomainsAssumption, FS_Subset DEF Pending, WorkerLoad
  <2>2. Cardinality(Pending) \in Nat \ {0}
    BY <2>1, FS_CardinalityType, FS_EmptySet
  <2> QED BY <2>2, DomainsAssumption DEF Batches
<1>3. DOMAIN b = 1 .. k /\ \A i \in 1 .. k : b[i] \in Names /\ rows[b[i]].id # NoId
  BY <1>2 DEF Pending, Exists
<1> DEFINE B == [i \in 1 .. k |-> [name |-> b[i], row |-> rows[b[i]]]]
<1>4. worker' = [pc |-> "refreshing", batch |-> B]
  BY <1>1, <1>3
<1>5. B \in Seq(Entry) /\ Len(B) = k /\ B # <<>>
  <2>1. \A i \in 1 .. k : B[i] \in Entry
    BY <1>3 DEF DomainInv, RowsTyped, Entry
  <2>2. B \in Seq(Entry) /\ Len(B) = k
    BY <2>1, <1>2, IsASeq
  <2> QED BY <2>2, <1>2
<1>6. worker'.batch = B /\ worker'.pc = "refreshing" /\ UNCHANGED <<rows, call, seen>>
  BY <1>4 DEF WorkerLoad
<1>7. RowsTyped'
  BY <1>3, <1>4, <1>5, <1>6 DEF DomainInv, RowsTyped
<1>8. BatchFrom
  BY <1>3, <1>5, <1>6, Holders, FromHeld DEF BatchFrom, DomainInv
<1> QED BY <1>6, <1>7, <1>8, Kept, CopiesPreserved DEF DomainInv

LEMMA LookupPreserves ==
  ASSUME DomainInv, WorkerLookup
  PROVE  DomainInv'
<1>1. RowsTyped /\ worker.pc # "idle" /\ UNCHANGED <<rows, call>>
  BY DEF DomainInv, WorkerLookup
<1>2. PICK row \in Refreshed(Head1.name, Head1.row) :
        worker' = [pc |-> "saving", batch |-> [worker.batch EXCEPT ![1].row = row]]
  BY DEF WorkerLookup
<1>3. row \in Row /\ row.id = Head1.row.id /\ From(row) /\ seen \subseteq seen'
  BY <1>1, <1>2, HeadEntry, RefreshedFrom DEF WorkerLookup, Entry
<1> DEFINE B == [worker.batch EXCEPT ![1].row = row]
<1>4. /\ B \in Seq(Entry) /\ Len(B) = Len(worker.batch)
      /\ B[1].row = row /\ \A i \in 2 .. Len(B) : B[i] = worker.batch[i]
  <2>1. [Head1 EXCEPT !.row = row] \in Entry /\ [Head1 EXCEPT !.row = row].row = row
    BY <1>1, <1>3, HeadEntry DEF Entry
  <2>2. B = [worker.batch EXCEPT ![1] = [Head1 EXCEPT !.row = row]]
    BY DEF Head1
  <2>3. 1 \in 1 .. Len(worker.batch) /\ worker.batch \in Seq(Entry)
    BY <1>1, HeadEntry
  <2> QED BY <2>1, <2>2, <2>3
<1>5. worker'.batch = B /\ worker'.pc = "saving" /\ Len(B) \in Nat \ {0}
  BY <1>1, <1>2, <1>4, HeadEntry
<1>6. \A i \in 1 .. Len(B) : B[i].row.id # NoId /\ From(B[i].row)
  BY <1>1, <1>3, <1>4, <1>5, HeadEntry, Holders, FromHeld DEF RowsTyped
<1>7. RowsTyped'
  BY <1>1, <1>2, <1>4, <1>5, <1>6 DEF RowsTyped
<1>8. BatchFrom
  BY <1>5, <1>6 DEF BatchFrom
<1> QED BY <1>1, <1>3, <1>7, <1>8, Kept, CopiesPreserved

(* The cycle goes on with the rest of the batch.                           *)
LEMMA NextRecordKeeps ==
  ASSUME RowsTyped, worker.pc # "idle", NextRecord
  PROVE  /\ worker' \in [pc : {"idle", "refreshing", "saving"}, batch : Seq(Entry)]
         /\ worker'.pc # "idle" => worker'.batch # <<>>
         /\ \A i \in 1 .. Len(worker'.batch) : worker'.batch[i].row.id # NoId
         /\ BatchFrom
<1>1. CASE Len(worker.batch) = 1
  BY <1>1 DEF NextRecord, IdleWorker, BatchFrom
<1>2. CASE Len(worker.batch) # 1
  <2>1. worker.batch \in Seq(Entry) /\ Len(worker.batch) \in Nat \ {0, 1}
    BY <1>2, HeadEntry
  <2>2. /\ Tail(worker.batch) \in Seq(Entry)
        /\ Len(Tail(worker.batch)) = Len(worker.batch) - 1
        /\ \A i \in 1 .. Len(worker.batch) - 1 : Tail(worker.batch)[i] = worker.batch[i + 1]
    BY <2>1
  <2>3. worker' = [pc |-> "refreshing", batch |-> Tail(worker.batch)]
    BY <1>2 DEF NextRecord
  <2>4. Tail(worker.batch) # <<>>
    <3>1. Len(Tail(worker.batch)) # 0
      BY <2>1, <2>2
    <3> QED BY <2>2, <3>1, EmptySeq
  <2>5. \A i \in 1 .. Len(worker.batch) : worker.batch[i].row.id # NoId /\ From(worker.batch[i].row)
    BY Holders, FromHeld DEF RowsTyped
  <2>6. \A i \in 1 .. Len(worker.batch) - 1 : i + 1 \in 1 .. Len(worker.batch)
    BY <2>1
  <2> QED BY <2>2, <2>3, <2>4, <2>5, <2>6 DEF BatchFrom
<1> QED BY <1>1, <1>2

(* A row is written back: every row is still one that was held.            *)
LEMMA SaveKeeps ==
  ASSUME RowsTyped, NEW n, NEW row \in Row, row \in Held, NEW m, Save(n, row, m)
  PROVE  rows' \in [Names -> Row] /\ RowsFrom
<1>1. rows' = [rows EXCEPT ![n] = row]
  BY DEF Save
<1> QED BY <1>1, Holders, FromHeld DEF RowsTyped, RowsFrom

LEMMA WorkerSavePreserves ==
  ASSUME DomainInv, WorkerSave
  PROVE  DomainInv'
<1>1. RowsTyped /\ worker.pc # "idle" /\ UNCHANGED <<call, seen>>
  BY DEF DomainInv, WorkerSave
<1>2. rows' \in [Names -> Row] /\ RowsFrom
  BY <1>1, HeadEntry, SaveKeeps DEF WorkerSave, Entry
<1>3. RowsTyped' /\ BatchFrom
  BY <1>1, <1>2, NextRecordKeeps DEF WorkerSave, RowsTyped
<1> QED BY <1>1, <1>2, <1>3, Kept, CopiesPreserved

(* The verifier drops its batch.                                           *)
LEMMA IdleKeeps ==
  ASSUME worker' = IdleWorker
  PROVE  /\ worker' \in [pc : {"idle", "refreshing", "saving"}, batch : Seq(Entry)]
         /\ worker'.pc = "idle" /\ Len(worker'.batch) = 0
         /\ BatchFrom
  BY DEF IdleWorker, BatchFrom

LEMMA WorkerFailurePreserves ==
  ASSUME DomainInv, WorkerSaveFails
  PROVE  DomainInv'
<1>1. RowsTyped /\ worker' = IdleWorker /\ UNCHANGED <<rows, call, seen>>
  BY DEF DomainInv, WorkerSaveFails
<1>2. RowsTyped'
  BY <1>1, IdleKeeps DEF RowsTyped
<1> QED BY <1>1, <1>2, IdleKeeps, Kept, CopiesPreserved

(* A call starts with a row that is held, or ends.                         *)
LEMMA StartKeeps ==
  ASSUME RowsTyped, NEW a \in Calls, NEW pc \in {"creating", "saving", "deleting"},
         NEW n \in Names, NEW w \in Callers, NEW row \in Row, From(row),
         CallStart(a, pc, n, w, row)
  PROVE  call' \in [Calls -> CallLocals] /\ CallsFrom
<1>1. [pc |-> pc, name |-> n, user |-> w, row |-> row] \in CallLocals
  BY DomainsAssumption DEF CallLocals
<1>2. /\ call' \in [Calls -> CallLocals]
      /\ call'[a].row = row /\ \A b \in Calls \ {a} : call'[b] = call[b]
  BY <1>1 DEF CallStart, RowsTyped
<1> QED BY <1>2, Holders, FromHeld DEF CallsFrom

LEMMA DoneKeeps ==
  ASSUME RowsTyped, NEW a \in Calls, CallDone(a)
  PROVE  call' \in [Calls -> CallLocals] /\ CallsFrom
<1>1. IdleCall \in CallLocals /\ IdleCall.row = NoRow
  BY NoRowType DEF IdleCall, CallLocals
<1>2. call'[a] = IdleCall /\ \A b \in Calls \ {a} : call'[b] = call[b]
  BY DEF CallDone, RowsTyped
<1>3. call' \in [Calls -> CallLocals]
  BY <1>1 DEF CallDone, RowsTyped
<1>4. From(NoRow)
  BY DEF From
<1> QED BY <1>1, <1>2, <1>3, <1>4, Holders, FromHeld DEF CallsFrom

LEMMA CreateStartPreserves ==
  ASSUME DomainInv, NEW a \in Calls, NEW n \in Names, NEW w \in Callers, CreateStart(a, n, w)
  PROVE  DomainInv'
<1>1. RowsTyped /\ UNCHANGED <<rows, worker, seen>>
  BY DEF DomainInv, CreateStart
<1>2. From(NoRow)
  BY DEF From
<1>3. call' \in [Calls -> CallLocals] /\ CallsFrom
  BY <1>1, <1>2, NoRowType, StartKeeps DEF CreateStart
<1>4. RowsTyped'
  BY <1>1, <1>3 DEF RowsTyped
<1> QED BY <1>1, <1>3, <1>4, Kept, CopiesPreserved

LEMMA VerifyLookupPreserves ==
  ASSUME DomainInv, NEW a \in Calls, NEW n \in Names, NEW w \in Callers, VerifyLookup(a, n, w)
  PROVE  DomainInv'
<1>1. RowsTyped /\ UNCHANGED <<rows, worker>>
  BY DEF DomainInv, VerifyLookup
<1>2. rows[n] \in Row /\ rows[n] \in Held /\ rows[n].id # NoId
  BY <1>1, Holders DEF RowsTyped, VerifyLookup, Exists
<1>3. PICK row \in Refreshed(n, rows[n]) : CallStart(a, "saving", n, w, row)
  BY DEF VerifyLookup
<1>4. row \in Row /\ From(row) /\ seen \subseteq seen'
  BY <1>2, <1>3, RefreshedFrom DEF VerifyLookup
<1>5. call' \in [Calls -> CallLocals] /\ CallsFrom
  BY <1>1, <1>3, <1>4, StartKeeps
<1>6. RowsTyped'
  BY <1>1, <1>5 DEF RowsTyped
<1> QED BY <1>1, <1>4, <1>5, <1>6, Kept, CopiesPreserved

LEMMA DeleteLoadPreserves ==
  ASSUME DomainInv, NEW a \in Calls, NEW n \in Names, NEW w \in Callers, DeleteLoad(a, n, w)
  PROVE  DomainInv'
<1>1. RowsTyped /\ UNCHANGED <<rows, worker, seen>>
  BY DEF DomainInv, DeleteLoad
<1>2. rows[n] \in Row /\ From(rows[n])
  BY <1>1, Holders, FromHeld DEF RowsTyped
<1>3. call' \in [Calls -> CallLocals] /\ CallsFrom
  BY <1>1, <1>2, StartKeeps DEF DeleteLoad
<1>4. RowsTyped'
  BY <1>1, <1>3 DEF RowsTyped
<1> QED BY <1>1, <1>3, <1>4, Kept, CopiesPreserved

(* A new row has an id no copy has, of whatever row.                       *)
LEMMA CreateInsertPreserves ==
  ASSUME DomainInv, NEW a \in Calls, CreateInsert(a)
  PROVE  DomainInv'
<1> DEFINE n == call[a].name
           New(i) == [id |-> i, owner |-> call[a].user, status |-> "PENDING"]
<1>1. RowsTyped /\ CallDone(a) /\ UNCHANGED worker
  BY DEF DomainInv, CreateInsert
<1>2. call' \in [Calls -> CallLocals] /\ CallsFrom /\ BatchFrom
  BY <1>1, DoneKeeps, Kept
<1>3. CASE UNCHANGED <<rows, order, seen>>
  <2>1. RowsTyped'
    BY <1>1, <1>2, <1>3 DEF RowsTyped
  <2> QED BY <1>1, <1>2, <1>3, <2>1, Kept, CopiesPreserved
<1>4. CASE \E i \in FreshIds : rows' = [rows EXCEPT ![n] = New(i)] /\ seen' = seen \ {i}
  <2>1. PICK i \in FreshIds : rows' = [rows EXCEPT ![n] = New(i)] /\ seen' = seen \ {i}
    BY <1>4
  <2>2. i \in Ids /\ \A x \in Held : x.id # i
    BY DEF FreshIds
  <2>3. New(i) \in Row
    BY <1>1, <2>2 DEF RowsTyped, CallLocals, Row
  <2>4. RowsTyped'
    BY <1>1, <1>2, <2>1, <2>3 DEF RowsTyped
  <2>5. \A x \in Held' : x \in Held \cup {NoRow, New(i)}
    <3>1. \A m \in Names : rows'[m] \in Held \cup {New(i)}
      BY <1>1, <2>1, Holders DEF RowsTyped
    <3>2. \A b \in Calls : call'[b].row \in Held \cup {NoRow}
      BY <1>1, Holders DEF CallDone, IdleCall, RowsTyped
    <3>3. \A j \in 1 .. Len(worker'.batch) : worker'.batch[j].row \in Held
      BY <1>1, Holders
    <3> QED BY <2>4, <3>1, <3>2, <3>3, HeldAfter
  <2>6. CopiesSeen'
    BY <2>1, <2>2, <2>5 DEF CopiesSeen, DomainInv, NoRow
  <2>7. CopiesAgree'
    BY <2>2, <2>5 DEF CopiesAgree, DomainInv, NoRow
  <2> QED BY <2>4, <2>6, <2>7 DEF DomainInv
<1> QED BY <1>3, <1>4 DEF CreateInsert

LEMMA VerifySavePreserves ==
  ASSUME DomainInv, NEW a \in Calls, VerifySave(a)
  PROVE  DomainInv'
<1>1. RowsTyped /\ UNCHANGED <<worker, seen>>
  BY DEF DomainInv, VerifySave
<1>2. call[a].row \in Row /\ call[a].row \in Held
  BY <1>1, Holders DEF RowsTyped, CallLocals
<1>3. rows' \in [Names -> Row] /\ RowsFrom
  BY <1>1, <1>2, SaveKeeps DEF VerifySave
<1>4. call' \in [Calls -> CallLocals] /\ CallsFrom
  BY <1>1, DoneKeeps DEF VerifySave
<1>5. RowsTyped'
  BY <1>1, <1>3, <1>4 DEF RowsTyped
<1> QED BY <1>1, <1>3, <1>4, <1>5, Kept, CopiesPreserved

LEMMA DeleteRowPreserves ==
  ASSUME DomainInv, NEW a \in Calls, DeleteRow(a)
  PROVE  DomainInv'
<1>1. RowsTyped /\ UNCHANGED <<worker, seen>>
  BY DEF DomainInv, DeleteRow
<1>2. rows' = rows \/ rows' = [rows EXCEPT ![call[a].name] = NoRow]
  BY DEF DeleteRow
<1>3. rows' \in [Names -> Row] /\ RowsFrom
  <2>1. rows' \in [Names -> Row]
    BY <1>1, <1>2, NoRowType DEF RowsTyped
  <2>2. \A n \in Names : rows'[n] \in {rows[n], NoRow}
    BY <1>1, <1>2 DEF RowsTyped
  <2> QED BY <1>1, <2>1, <2>2, Holders DEF RowsFrom, From
<1>4. call' \in [Calls -> CallLocals] /\ CallsFrom
  BY <1>1, DoneKeeps DEF DeleteRow
<1>5. RowsTyped'
  BY <1>1, <1>3, <1>4 DEF RowsTyped
<1> QED BY <1>1, <1>3, <1>4, <1>5, Kept, CopiesPreserved

LEMMA CallFailurePreserves ==
  ASSUME DomainInv, NEW a \in Calls, CallFails(a)
  PROVE  DomainInv'
<1>1. RowsTyped /\ UNCHANGED <<rows, worker, seen>>
  BY DEF DomainInv, CallFails
<1>2. call' \in [Calls -> CallLocals] /\ CallsFrom
  BY <1>1, DoneKeeps DEF CallFails
<1>3. RowsTyped'
  BY <1>1, <1>2 DEF RowsTyped
<1> QED BY <1>1, <1>2, <1>3, Kept, CopiesPreserved

LEMMA RestartPreserves ==
  ASSUME DomainInv, Restart
  PROVE  DomainInv'
<1>1. RowsTyped /\ worker' = IdleWorker /\ UNCHANGED <<rows, seen>>
  BY DEF DomainInv, Restart
<1>2. \A a \in Calls : call'[a] = IdleCall
  BY DEF Restart
<1>3. IdleCall \in CallLocals /\ IdleCall.row = NoRow
  BY NoRowType DEF IdleCall, CallLocals
<1>4. call' \in [Calls -> CallLocals]
  BY <1>2, <1>3 DEF Restart
<1>5. CallsFrom
  BY <1>2, <1>3 DEF CallsFrom, From
<1>6. RowsTyped'
  BY <1>1, <1>4, IdleKeeps DEF RowsTyped
<1> QED BY <1>1, <1>5, <1>6, IdleKeeps, Kept, CopiesPreserved

-----------------------------------------------------------------------------
(* DomainInv holds at the start and is kept by every step.                 *)

LEMMA InitDomainInv ==
  ASSUME Init
  PROVE  DomainInv
<1>1. \A n \in Names : rows[n] = NoRow
  BY DEF Init
<1>2. worker = IdleWorker /\ Len(worker.batch) = 0 /\ worker.pc = "idle"
  BY DEF Init, IdleWorker
<1>3. \A a \in Calls : call[a] = IdleCall
  BY DEF Init
<1>4. RowsTyped
  <2>1. IdleWorker \in [pc : {"idle", "refreshing", "saving"}, batch : Seq(Entry)]
    BY DEF IdleWorker
  <2>2. IdleCall \in CallLocals
    BY NoRowType DEF IdleCall, CallLocals
  <2>3. rows \in [Names -> Row] /\ call \in [Calls -> CallLocals]
    BY <2>2, NoRowType DEF Init
  <2> QED BY <1>2, <2>1, <2>3 DEF RowsTyped
<1>5. \A x \in Held : x = NoRow
  BY <1>1, <1>2, <1>3, <1>4, HeldBefore DEF IdleCall
<1> QED BY <1>4, <1>5 DEF DomainInv, CopiesSeen, CopiesAgree, NoRow

LEMMA NextDomainInv ==
  ASSUME DomainInv, [Next]_vars
  PROVE  DomainInv'
<1>1. ASSUME UNCHANGED <<rows, worker, call, seen>> PROVE DomainInv'
  <2>1. RowsTyped'
    BY <1>1 DEF DomainInv, RowsTyped
  <2> QED BY <1>1, <2>1, Kept, CopiesPreserved DEF DomainInv
<1>2. CASE UNCHANGED vars
  BY <1>1, <1>2 DEF vars
<1>3. CASE \E n \in Names : Publish(n)
  BY <1>1, <1>3 DEF Publish
<1>4. CASE WorkerLoad \/ WorkerLookup \/ WorkerSave \/ WorkerSaveFails
  BY <1>4, LoadPreserves, LookupPreserves, WorkerSavePreserves, WorkerFailurePreserves
<1>5. CASE \E a \in Calls : CallStep(a)
  BY <1>5, CreateInsertPreserves, VerifySavePreserves, DeleteRowPreserves, CallFailurePreserves
     DEF CallStep
<1>6. CASE \E a \in Calls, n \in Names, w \in Callers :
             CreateStart(a, n, w) \/ VerifyLookup(a, n, w) \/ DeleteLoad(a, n, w)
  BY <1>6, CreateStartPreserves, VerifyLookupPreserves, DeleteLoadPreserves
<1>7. CASE Restart
  BY <1>7, RestartPreserves
<1> QED BY <1>2, <1>3, <1>4, <1>5, <1>6, <1>7 DEF Next

THEOREM DomainInvariant == Spec => []DomainInv
<1> QED BY InitDomainInv, NextDomainInv, PTL DEF Spec

(* A domain is VERIFIED only if the token of that very row was seen in     *)
(* DNS: every copy a check may still write back carries that promise.      *)
THEOREM VerifiedMeansSeen == Spec => []VerifiedWasSeen
<1>1. DomainInv => VerifiedWasSeen
  BY Holders DEF DomainInv, CopiesSeen, VerifiedWasSeen
<1> QED BY <1>1, DomainInvariant, PTL

(* A write-back onto an existing domain keeps its row and its owner,       *)
(* because all copies of a row agree on the owner.                         *)
LEMMA SaveDisplacesNothing ==
  ASSUME DomainInv, NEW n \in Names, NEW m, NEW row \in Held, NEW mark,
         Save(m, row, mark), Exists(n)
  PROVE  rows'[n].id = rows[n].id /\ rows'[n].owner = rows[n].owner
<1>1. rows[n] \in Held /\ rows[n].id # NoId
  BY Holders DEF DomainInv, Exists
<1>2. CASE n = m
  <2>1. rows'[n] = row /\ rows[n].id = row.id
    BY <1>1, <1>2 DEF Save, SaveAllowed, DomainInv, RowsTyped
  <2> QED BY <1>1, <2>1 DEF DomainInv, CopiesAgree
<1>3. CASE n # m
  BY <1>3 DEF Save, DomainInv, RowsTyped
<1> QED BY <1>2, <1>3

(* Checks, however old the row they write back, never hand a domain to     *)
(* another row or to another account while it exists.                      *)
THEOREM NobodyDisplaced == Spec => NeverDisplaced
<1> DEFINE Keeps(n) == rows'[n].id = rows[n].id /\ rows'[n].owner = rows[n].owner
           Stays == \A n \in Names : Exists(n) => ~ Exists(n)' \/ Keeps(n)
<1>1. ASSUME DomainInv, [Next]_vars
      PROVE  Stays
  <2> SUFFICES ASSUME NEW n \in Names, Exists(n)
               PROVE  ~ Exists(n)' \/ Keeps(n)
    OBVIOUS
  <2>1. RowsTyped
    BY <1>1 DEF DomainInv
  <2>2. ASSUME UNCHANGED rows PROVE Keeps(n)
    BY <2>2
  <2>3. CASE WorkerSave
    <3>1. Head1.row \in Held
      BY <2>1, <2>3, HeadEntry DEF WorkerSave
    <3> QED BY <1>1, <2>3, <3>1, SaveDisplacesNothing DEF WorkerSave
  <2>4. ASSUME NEW a \in Calls, VerifySave(a) PROVE Keeps(n)
    BY <1>1, <2>1, <2>4, Holders, SaveDisplacesNothing DEF VerifySave
  <2>5. ASSUME NEW a \in Calls, CreateInsert(a) PROVE Keeps(n)
    <3>1. rows'[n] = rows[n]
      BY <2>1, <2>5 DEF CreateInsert, RowsTyped
    <3> QED BY <3>1
  <2>6. ASSUME NEW a \in Calls, DeleteRow(a) PROVE ~ Exists(n)' \/ Keeps(n)
    <3>1. rows'[n] = rows[n] \/ rows'[n] = NoRow
      BY <2>1, <2>6 DEF DeleteRow, RowsTyped
    <3> QED BY <3>1 DEF Exists, NoRow
  <2>7. CASE \E a \in Calls : CallStep(a)
    BY <2>2, <2>4, <2>5, <2>6, <2>7 DEF CallStep, CallFails
  <2>8. CASE \E a \in Calls, m \in Names, w \in Callers :
               CreateStart(a, m, w) \/ VerifyLookup(a, m, w) \/ DeleteLoad(a, m, w)
    BY <2>2, <2>8 DEF CreateStart, VerifyLookup, DeleteLoad
  <2>9. CASE WorkerLoad \/ WorkerLookup \/ WorkerSaveFails \/ Restart
    BY <2>2, <2>9 DEF WorkerLoad, WorkerLookup, WorkerSaveFails, Restart
  <2>10. CASE UNCHANGED vars \/ \E m \in Names : Publish(m)
    BY <2>2, <2>10 DEF vars, Publish
  <2> QED BY <1>1, <2>3, <2>7, <2>8, <2>9, <2>10 DEF Next
<1>2. DomainInv /\ [Next]_vars =>
        [\A n \in Names :
           Exists(n) => \/ ~ Exists(n)'
                        \/ /\ rows'[n].id = rows[n].id
                           /\ rows'[n].owner = rows[n].owner]_vars
  BY <1>1
<1> QED BY <1>2, DomainInvariant, PTL DEF Spec, NeverDisplaced

-----------------------------------------------------------------------------
(* The order of checks.                                                    *)

(* o is a linear order of S.                                               *)
Linear(S, o) ==
  /\ o \subseteq S \X S
  /\ \A x, y \in S : <<x, y>> \in o \/ <<y, x>> \in o
  /\ \A x, y \in S : <<x, y>> \in o /\ <<y, x>> \in o => x = y
  /\ \A x, y, z \in S : <<x, y>> \in o /\ <<y, z>> \in o => <<x, z>> \in o

Existing == {n \in Names : Exists(n)}

(* A call under way is about a name, and has a row to write.               *)
CallsAim ==
  \A a \in Calls :
    /\ call[a].pc # "idle" => call[a].name \in Names
    /\ call[a].pc = "saving" => call[a].row.id # NoId

(* Whoever is between its lookup and its write has a mark, and nobody else.*)
MarksListed ==
  /\ Worker \in Listed <=> worker.pc = "saving"
  /\ \A a \in Calls : a \in Listed <=> call[a].pc = "saving"

OrderInv ==
  /\ Linear(Listed, order)
  /\ Listed \cap Names = Existing
  /\ CallsAim
  /\ MarksListed

TypeInv ==
  /\ DomainInv
  /\ txt \in [Names -> Ids \cup {NoId, Junk}]
  /\ seen \subseteq Ids
  /\ OrderInv

(* The set that a linear order orders can be read off it.                  *)
LEMMA ListedIs ==
  ASSUME NEW S, S \subseteq Names \cup Marks, Linear(S, order')
  PROVE  Listed' = S
<1>1. \A x : x \in S <=> x \in Names \cup Marks /\ <<x, x>> \in order'
  BY DEF Linear
<1> QED BY <1>1 DEF Listed, Marks, Worker

(* A new element goes last.                                                *)
LEMMA AddLinear ==
  ASSUME NEW S, NEW o, Linear(S, o), NEW m, m \notin S
  PROVE  Linear(S \cup {m}, o \cup ((S \cup {m}) \X {m}))
<1> DEFINE T == S \cup {m}
           p == o \cup (T \X {m})
<1>1. \A x, y : <<x, y>> \in p <=> (<<x, y>> \in o /\ x \in S /\ y \in S) \/ (x \in T /\ y = m)
  BY DEF Linear
<1>2. p \subseteq T \X T
  BY DEF Linear
<1> HIDE DEF p
<1>3. \A x, y \in T : <<x, y>> \in p \/ <<y, x>> \in p
  BY <1>1 DEF Linear
<1>4. \A x, y \in T : <<x, y>> \in p /\ <<y, x>> \in p => x = y
  BY <1>1 DEF Linear
<1>5. \A x, y, z \in T : <<x, y>> \in p /\ <<y, z>> \in p => <<x, z>> \in p
  BY <1>1 DEF Linear
<1>6. Linear(T, p)
  BY <1>2, <1>3, <1>4, <1>5 DEF Linear
<1> QED BY <1>6 DEF p

(* A part of a linear order is linear.                                     *)
LEMMA PartLinear ==
  ASSUME NEW S, NEW o, Linear(S, o), NEW T, T \subseteq S,
         NEW p, p \subseteq T \X T, \A x, y \in T : <<x, y>> \in p <=> <<x, y>> \in o
  PROVE  Linear(T, p)
  BY DEF Linear

(* n takes the place of m.                                                 *)
LEMMA ReplaceLinear ==
  ASSUME NEW S, NEW o, Linear(S, o), NEW m \in S, NEW n, n # m,
         NEW p, p \subseteq ((S \ {m}) \cup {n}) \X ((S \ {m}) \cup {n}),
         \A x, y \in (S \ {m}) \cup {n} :
           <<x, y>> \in p <=> <<Place(x, n, m), Place(y, n, m)>> \in o
  PROVE  Linear((S \ {m}) \cup {n}, p)
<1> DEFINE T == (S \ {m}) \cup {n}
           f(x) == Place(x, n, m)
<1>1. \A x \in T : f(x) \in S
  BY DEF Place
<1>2. \A x, y \in T : f(x) = f(y) => x = y
  BY DEF Place
<1>3. p \subseteq T \X T /\ \A x, y \in T : <<x, y>> \in p <=> <<f(x), f(y)>> \in o
  OBVIOUS
<1> HIDE DEF f, T
<1>4. \A x, y \in T : <<x, y>> \in p \/ <<y, x>> \in p
  BY <1>1, <1>3 DEF Linear
<1>5. \A x, y \in T : <<x, y>> \in p /\ <<y, x>> \in p => x = y
  BY <1>1, <1>2, <1>3 DEF Linear
<1>6. \A x, y, z \in T : <<x, y>> \in p /\ <<y, z>> \in p => <<x, z>> \in p
  BY <1>1, <1>3 DEF Linear
<1>7. Linear(T, p)
  BY <1>3, <1>4, <1>5, <1>6 DEF Linear
<1> QED BY <1>7 DEF T

(* What the model's operators make of the order.                           *)
LEMMA MarkLists ==
  ASSUME Linear(Listed, order), NEW m \in Names \cup Marks, m \notin Listed, order' = Mark(m)
  PROVE  Listed' = Listed \cup {m} /\ Linear(Listed', order')
<1>1. Linear(Listed \cup {m}, order')
  BY AddLinear DEF Mark
<1>2. Listed \cup {m} \subseteq Names \cup Marks
  BY DEF Listed
<1>3. Listed' = Listed \cup {m}
  BY <1>1, <1>2, ListedIs
<1> QED BY <1>1, <1>3

LEMMA UnmarkLists ==
  ASSUME Linear(Listed, order), NEW m, order' = Unmark(m)
  PROVE  Listed' = Listed \ {m} /\ Linear(Listed', order')
<1>1. Unmark(m) \subseteq (Listed \ {m}) \X (Listed \ {m})
  BY DEF Unmark, Linear
<1>2. \A x, y \in Listed \ {m} : <<x, y>> \in Unmark(m) <=> <<x, y>> \in order
  BY DEF Unmark
<1>3. Linear(Listed \ {m}, order')
  BY <1>1, <1>2, PartLinear
<1>4. Listed \ {m} \subseteq Names \cup Marks
  BY DEF Listed
<1>5. Listed' = Listed \ {m}
  BY <1>3, <1>4, ListedIs
<1> QED BY <1>3, <1>5

LEMMA UnmarkedLists ==
  ASSUME Linear(Listed, order), order' = Unmarked
  PROVE  Listed' = Listed \cap Names /\ Linear(Listed', order')
<1>1. Unmarked \subseteq (Listed \cap Names) \X (Listed \cap Names)
  BY DEF Unmarked, Linear
<1>2. \A x, y \in Listed \cap Names : <<x, y>> \in Unmarked <=> <<x, y>> \in order
  BY DEF Unmarked
<1>3. Linear(Listed \cap Names, order')
  BY <1>1, <1>2, PartLinear
<1>4. Listed' = Listed \cap Names
  BY <1>3, ListedIs
<1> QED BY <1>3, <1>4

LEMMA SettledLists ==
  ASSUME Linear(Listed, order), NEW n \in Names, NEW m \in Listed, m # n, order' = Settle(n, m)
  PROVE  Listed' = (Listed \ {m}) \cup {n} /\ Linear(Listed', order')
<1> DEFINE T == (Listed \ {m}) \cup {n}
<1>1. order' = {p \in (Listed \cup {n}) \X (Listed \cup {n}) :
                  p[1] # m /\ p[2] # m /\ <<Place(p[1], n, m), Place(p[2], n, m)>> \in order}
  BY DEF Settle, Settled
<1>2. order' \subseteq T \X T
  BY <1>1
<1>3. \A x, y \in T : <<x, y>> \in order' <=> <<Place(x, n, m), Place(y, n, m)>> \in order
  BY <1>1
<1>4. Linear(T, order')
  BY <1>2, <1>3, ReplaceLinear
<1>5. T \subseteq Names \cup Marks
  BY DEF Listed
<1>6. Listed' = T
  BY <1>4, <1>5, ListedIs
<1> QED BY <1>4, <1>6

-----------------------------------------------------------------------------
(* Each step keeps it.                                                     *)

LEMMA MarksApart == /\ \A a \in Calls : a # Worker /\ a \notin Names /\ a \in Marks
                    /\ Worker \notin Names /\ Worker \in Marks
  BY DomainsAssumption DEF Worker, Marks

(* Nothing but a domain and the locals of the verifier or of a call that   *)
(* writes nothing changes.                                                 *)
LEMMA OrderStays ==
  ASSUME OrderInv, UNCHANGED <<rows, order>>,
         worker'.pc = "saving" <=> worker.pc = "saving",
         \A a \in Calls : call'[a].pc = "saving" <=> call[a].pc = "saving",
         CallsAim'
  PROVE  OrderInv'
<1>1. Listed' = Listed /\ Existing' = Existing
  BY DEF Listed, Existing, Exists
<1> QED BY <1>1 DEF OrderInv, MarksListed

(* A call starts or ends: what it is about.                                *)
LEMMA StartAims ==
  ASSUME RowsTyped, CallsAim, NEW a \in Calls, NEW pc \in {"creating", "saving", "deleting"},
         NEW n \in Names, NEW w, NEW row, CallStart(a, pc, n, w, row),
         pc = "saving" => row.id # NoId
  PROVE  /\ CallsAim'
         /\ call[a].pc = "idle" /\ call'[a].pc = pc
         /\ \A b \in Calls \ {a} : call'[b] = call[b]
<1>1. /\ call[a].pc = "idle"
      /\ call'[a] = [pc |-> pc, name |-> n, user |-> w, row |-> row]
      /\ \A b \in Calls \ {a} : call'[b] = call[b]
  BY DEF CallStart, CallAt, RowsTyped
<1> QED BY <1>1 DEF CallsAim

LEMMA DoneAims ==
  ASSUME RowsTyped, CallsAim, NEW a \in Calls, CallDone(a)
  PROVE  /\ CallsAim'
         /\ call'[a].pc = "idle"
         /\ \A b \in Calls \ {a} : call'[b] = call[b]
<1>1. call'[a] = IdleCall /\ \A b \in Calls \ {a} : call'[b] = call[b]
  BY DEF CallDone, RowsTyped
<1> QED BY <1>1 DEF CallsAim, IdleCall

LEMMA LoadKeepsOrder ==
  ASSUME TypeInv, WorkerLoad
  PROVE  OrderInv'
<1>1. worker'.pc = "refreshing" /\ worker.pc = "idle" /\ UNCHANGED <<rows, order, call>>
  BY DEF WorkerLoad
<1>2. CallsAim'
  BY <1>1 DEF TypeInv, OrderInv, CallsAim
<1> QED BY <1>1, <1>2, OrderStays DEF TypeInv

LEMMA LookupKeepsOrder ==
  ASSUME TypeInv, WorkerLookup
  PROVE  OrderInv'
<1>1. /\ worker'.pc = "saving" /\ worker.pc = "refreshing"
      /\ UNCHANGED <<rows, call>> /\ order' = Mark(Worker)
  BY DEF WorkerLookup
<1>2. Listed' = Listed \cup {Worker} /\ Linear(Listed', order')
  BY <1>1, MarkLists, MarksApart DEF TypeInv, OrderInv, MarksListed
<1>3. Listed' \cap Names = Existing'
  BY <1>1, <1>2, MarksApart DEF TypeInv, OrderInv, Existing, Exists
<1>4. CallsAim'
  BY <1>1 DEF TypeInv, OrderInv, CallsAim
<1>5. MarksListed'
  BY <1>1, <1>2, MarksApart DEF TypeInv, OrderInv, MarksListed
<1> QED BY <1>2, <1>3, <1>4, <1>5 DEF OrderInv

(* A write-back puts the name in the place of the mark, and the domain     *)
(* exists.                                                                 *)
LEMMA SaveLists ==
  ASSUME TypeInv, NEW n \in Names, NEW m \in Listed \cap Marks, NEW row, row.id # NoId,
         Save(n, row, m)
  PROVE  /\ Linear(Listed', order')
         /\ Listed' = (Listed \ {m}) \cup {n}
         /\ Listed' \cap Names = Existing'
<1>1. m \notin Names
  BY MarksApart DEF Marks
<1>2. Listed' = (Listed \ {m}) \cup {n} /\ Linear(Listed', order')
  BY <1>1, SettledLists DEF Save, TypeInv, OrderInv
<1>3. Existing' = Existing \cup {n}
  <2>1. rows \in [Names -> Row] /\ rows' = [rows EXCEPT ![n] = row]
    BY DEF Save, TypeInv, DomainInv, RowsTyped
  <2>2. rows'[n] = row /\ \A x \in Names \ {n} : rows'[x] = rows[x]
    BY <2>1
  <2> QED BY <2>2 DEF Existing, Exists
<1> QED BY <1>1, <1>2, <1>3 DEF TypeInv, OrderInv

LEMMA WorkerSaveKeepsOrder ==
  ASSUME TypeInv, WorkerSave
  PROVE  OrderInv'
<1>1. RowsTyped /\ worker.pc = "saving" /\ UNCHANGED call /\ NextRecord
  BY DEF TypeInv, DomainInv, WorkerSave
<1>2. Head1.name \in Names /\ Head1.row.id # NoId
  BY <1>1, HeadEntry DEF Entry
<1>3. Worker \in Listed \cap Marks
  BY <1>1, MarksApart DEF TypeInv, OrderInv, MarksListed
<1>4. /\ Linear(Listed', order')
      /\ Listed' = (Listed \ {Worker}) \cup {Head1.name}
      /\ Listed' \cap Names = Existing'
  BY <1>2, <1>3, SaveLists DEF WorkerSave
<1>5. worker'.pc # "saving"
  BY <1>1 DEF NextRecord, IdleWorker
<1>6. CallsAim'
  BY <1>1 DEF TypeInv, OrderInv, CallsAim
<1>7. MarksListed'
  BY <1>1, <1>2, <1>4, <1>5, MarksApart DEF TypeInv, OrderInv, MarksListed
<1> QED BY <1>4, <1>6, <1>7 DEF OrderInv

LEMMA WorkerFailureKeepsOrder ==
  ASSUME TypeInv, WorkerSaveFails
  PROVE  OrderInv'
<1>1. /\ UNCHANGED <<rows, call>> /\ order' = Unmark(Worker)
      /\ worker'.pc = "idle"
  BY DEF WorkerSaveFails, IdleWorker
<1>2. Listed' = Listed \ {Worker} /\ Linear(Listed', order')
  BY <1>1, UnmarkLists DEF TypeInv, OrderInv
<1>3. Listed' \cap Names = Existing'
  BY <1>1, <1>2, MarksApart DEF TypeInv, OrderInv, Existing, Exists
<1>4. CallsAim'
  BY <1>1 DEF TypeInv, OrderInv, CallsAim
<1>5. MarksListed'
  BY <1>1, <1>2, MarksApart DEF TypeInv, OrderInv, MarksListed
<1> QED BY <1>2, <1>3, <1>4, <1>5 DEF OrderInv

LEMMA StartKeepsOrder ==
  ASSUME TypeInv, NEW a \in Calls, NEW pc \in {"creating", "deleting"},
         NEW n \in Names, NEW w, NEW row, CallStart(a, pc, n, w, row),
         UNCHANGED <<rows, order, worker>>
  PROVE  OrderInv'
<1>1. RowsTyped /\ CallsAim
  BY DEF TypeInv, DomainInv, OrderInv
<1>2. /\ CallsAim'
      /\ call[a].pc = "idle" /\ call'[a].pc = pc
      /\ \A b \in Calls \ {a} : call'[b] = call[b]
  BY <1>1, StartAims
<1> QED BY <1>2, OrderStays DEF TypeInv

LEMMA VerifyLookupKeepsOrder ==
  ASSUME TypeInv, NEW a \in Calls, NEW n \in Names, NEW w \in Callers, VerifyLookup(a, n, w)
  PROVE  OrderInv'
<1>1. RowsTyped /\ CallsAim /\ UNCHANGED <<rows, worker>> /\ order' = Mark(a)
  BY DEF TypeInv, DomainInv, OrderInv, VerifyLookup
<1>2. PICK row \in Refreshed(n, rows[n]) : CallStart(a, "saving", n, w, row)
  BY DEF VerifyLookup
<1>3. row.id # NoId
  <2>1. rows[n] \in Row /\ rows[n].id # NoId
    BY <1>1 DEF RowsTyped, VerifyLookup, Exists
  <2> QED BY <1>2, <2>1 DEF Refreshed, Verified, Row
<1>4. /\ CallsAim'
      /\ call[a].pc = "idle" /\ call'[a].pc = "saving"
      /\ \A b \in Calls \ {a} : call'[b] = call[b]
  BY <1>1, <1>2, <1>3, StartAims
<1>5. a \notin Listed
  BY <1>4 DEF TypeInv, OrderInv, MarksListed
<1>6. Listed' = Listed \cup {a} /\ Linear(Listed', order')
  BY <1>1, <1>5, MarkLists, MarksApart DEF TypeInv, OrderInv
<1>7. Listed' \cap Names = Existing'
  BY <1>1, <1>6, MarksApart DEF TypeInv, OrderInv, Existing, Exists
<1>8. MarksListed'
  BY <1>1, <1>4, <1>6, MarksApart DEF TypeInv, OrderInv, MarksListed
<1> QED BY <1>4, <1>6, <1>7, <1>8 DEF OrderInv

LEMMA CreateInsertKeepsOrder ==
  ASSUME TypeInv, NEW a \in Calls, CreateInsert(a)
  PROVE  OrderInv'
<1> DEFINE n == call[a].name
<1>1. RowsTyped /\ CallsAim /\ UNCHANGED worker /\ CallDone(a) /\ call[a].pc = "creating"
  BY DEF TypeInv, DomainInv, OrderInv, CreateInsert, CallAt
<1>2. n \in Names
  BY <1>1 DEF CallsAim
<1>3. CallsAim' /\ call'[a].pc = "idle" /\ \A b \in Calls \ {a} : call'[b] = call[b]
  BY <1>1, DoneAims
<1>4. CASE Exists(n)
  <2>1. UNCHANGED <<rows, order>>
    BY <1>4 DEF CreateInsert
  <2> QED BY <1>1, <1>3, <2>1, OrderStays DEF TypeInv
<1>5. CASE ~ Exists(n)
  <2>1. order' = Mark(n) /\ \E i \in FreshIds :
          rows' = [rows EXCEPT ![n] = [id |-> i, owner |-> call[a].user, status |-> "PENDING"]]
    BY <1>5 DEF CreateInsert
  <2>2. n \notin Listed
    BY <1>2, <1>5 DEF TypeInv, OrderInv, Existing
  <2>3. Listed' = Listed \cup {n} /\ Linear(Listed', order')
    BY <1>2, <2>1, <2>2, MarkLists DEF TypeInv, OrderInv
  <2>4. rows'[n].id # NoId /\ \A x \in Names \ {n} : rows'[x] = rows[x]
    <3>1. NoId \notin FreshIds
      BY DomainsAssumption DEF FreshIds
    <3> QED BY <1>1, <1>2, <2>1, <3>1 DEF RowsTyped
  <2>5. Existing' = Existing \cup {n}
    BY <1>2, <2>4 DEF Existing, Exists
  <2>6. Listed' \cap Names = Existing'
    BY <1>2, <2>3, <2>5 DEF TypeInv, OrderInv
  <2>7. MarksListed'
    BY <1>1, <1>2, <1>3, <2>3, MarksApart DEF TypeInv, OrderInv, MarksListed
  <2> QED BY <1>3, <2>3, <2>6, <2>7 DEF OrderInv
<1> QED BY <1>4, <1>5

LEMMA VerifySaveKeepsOrder ==
  ASSUME TypeInv, NEW a \in Calls, VerifySave(a)
  PROVE  OrderInv'
<1>1. RowsTyped /\ CallsAim /\ UNCHANGED worker /\ CallDone(a) /\ call[a].pc = "saving"
  BY DEF TypeInv, DomainInv, OrderInv, VerifySave, CallAt
<1>2. call[a].name \in Names /\ call[a].row.id # NoId
  BY <1>1 DEF CallsAim
<1>3. CallsAim' /\ call'[a].pc = "idle" /\ \A b \in Calls \ {a} : call'[b] = call[b]
  BY <1>1, DoneAims
<1>4. a \in Listed \cap Marks
  BY <1>1, MarksApart DEF TypeInv, OrderInv, MarksListed
<1>5. /\ Linear(Listed', order')
      /\ Listed' = (Listed \ {a}) \cup {call[a].name}
      /\ Listed' \cap Names = Existing'
  BY <1>2, <1>4, SaveLists DEF VerifySave
<1>6. MarksListed'
  BY <1>1, <1>2, <1>3, <1>5, MarksApart DEF TypeInv, OrderInv, MarksListed
<1> QED BY <1>3, <1>5, <1>6 DEF OrderInv

LEMMA DeleteRowKeepsOrder ==
  ASSUME TypeInv, NEW a \in Calls, DeleteRow(a)
  PROVE  OrderInv'
<1> DEFINE n == call[a].name
<1>1. RowsTyped /\ CallsAim /\ UNCHANGED worker /\ CallDone(a) /\ call[a].pc = "deleting"
  BY DEF TypeInv, DomainInv, OrderInv, DeleteRow, CallAt
<1>2. n \in Names
  BY <1>1 DEF CallsAim
<1>3. CallsAim' /\ call'[a].pc = "idle" /\ \A b \in Calls \ {a} : call'[b] = call[b]
  BY <1>1, DoneAims
<1>4. CASE UNCHANGED <<rows, order>>
  BY <1>1, <1>3, <1>4, OrderStays DEF TypeInv
<1>5. CASE rows' = [rows EXCEPT ![n] = NoRow] /\ order' = Unmark(n)
  <2>1. Listed' = Listed \ {n} /\ Linear(Listed', order')
    BY <1>5, UnmarkLists DEF TypeInv, OrderInv
  <2>2. rows'[n].id = NoId /\ \A x \in Names \ {n} : rows'[x] = rows[x]
    BY <1>1, <1>2, <1>5 DEF RowsTyped, NoRow
  <2>3. Existing' = Existing \ {n}
    BY <1>2, <2>2 DEF Existing, Exists
  <2>4. Listed' \cap Names = Existing'
    BY <2>1, <2>3 DEF TypeInv, OrderInv
  <2>5. MarksListed'
    BY <1>1, <1>2, <1>3, <2>1, MarksApart DEF TypeInv, OrderInv, MarksListed
  <2> QED BY <1>3, <2>1, <2>4, <2>5 DEF OrderInv
<1> QED BY <1>4, <1>5 DEF DeleteRow

LEMMA CallFailureKeepsOrder ==
  ASSUME TypeInv, NEW a \in Calls, CallFails(a)
  PROVE  OrderInv'
<1>1. /\ RowsTyped /\ CallsAim /\ UNCHANGED <<rows, worker>> /\ CallDone(a)
      /\ order' = Unmark(a)
  BY DEF TypeInv, DomainInv, OrderInv, CallFails
<1>2. CallsAim' /\ call'[a].pc = "idle" /\ \A b \in Calls \ {a} : call'[b] = call[b]
  BY <1>1, DoneAims
<1>3. Listed' = Listed \ {a} /\ Linear(Listed', order')
  BY <1>1, UnmarkLists DEF TypeInv, OrderInv
<1>4. Listed' \cap Names = Existing'
  BY <1>1, <1>3, MarksApart DEF TypeInv, OrderInv, Existing, Exists
<1>5. MarksListed'
  BY <1>1, <1>2, <1>3, MarksApart DEF TypeInv, OrderInv, MarksListed
<1> QED BY <1>2, <1>3, <1>4, <1>5 DEF OrderInv

LEMMA RestartKeepsOrder ==
  ASSUME TypeInv, Restart
  PROVE  OrderInv'
<1>1. /\ UNCHANGED rows /\ order' = Unmarked /\ worker'.pc = "idle"
      /\ \A a \in Calls : call'[a].pc = "idle"
  BY DEF Restart, IdleWorker, IdleCall
<1>2. Listed' = Listed \cap Names /\ Linear(Listed', order')
  BY <1>1, UnmarkedLists DEF TypeInv, OrderInv
<1>3. Listed' \cap Names = Existing'
  BY <1>1, <1>2 DEF TypeInv, OrderInv, Existing, Exists
<1>4. CallsAim'
  BY <1>1 DEF CallsAim
<1>5. MarksListed'
  BY <1>1, <1>2, MarksApart DEF MarksListed
<1> QED BY <1>2, <1>3, <1>4, <1>5 DEF OrderInv

(* What DNS answers, and the tokens seen in it.                            *)
LEMMA AnswersTyped ==
  ASSUME TypeInv, [Next]_vars
  PROVE  txt' \in [Names -> Ids \cup {NoId, Junk}] /\ seen' \subseteq Ids
<1>1. RowsTyped /\ txt \in [Names -> Ids \cup {NoId, Junk}] /\ seen \subseteq Ids
  BY DEF TypeInv, DomainInv
<1>2. ASSUME NEW n, NEW row \in Row, row.id # NoId PROVE Saw(n, row) \subseteq Ids
  BY <1>1, <1>2 DEF Saw, Row
<1>3. CASE \E n \in Names : Publish(n)
  BY <1>1, <1>3 DEF Publish, RowsTyped, Row
<1>4. CASE WorkerLookup
  <2>1. Head1.row \in Row /\ Head1.row.id # NoId
    BY <1>1, <1>4, HeadEntry DEF WorkerLookup, Entry
  <2> QED BY <1>1, <1>2, <1>4, <2>1 DEF WorkerLookup
<1>5. ASSUME NEW a \in Calls, NEW n \in Names, NEW w \in Callers, VerifyLookup(a, n, w)
      PROVE  UNCHANGED txt /\ seen' \subseteq Ids
  <2>1. rows[n] \in Row /\ rows[n].id # NoId
    BY <1>1, <1>5 DEF RowsTyped, VerifyLookup, Exists
  <2> QED BY <1>2, <1>5, <2>1 DEF VerifyLookup
<1>6. ASSUME NEW a \in Calls, CallStep(a) PROVE UNCHANGED txt /\ seen' \subseteq Ids
  BY <1>1, <1>6 DEF CallStep, CreateInsert, VerifySave, DeleteRow, CallFails
<1>7. ASSUME NEW a \in Calls, NEW n \in Names, NEW w \in Callers,
             CreateStart(a, n, w) \/ DeleteLoad(a, n, w)
      PROVE  UNCHANGED txt /\ seen' \subseteq Ids
  BY <1>1, <1>7 DEF CreateStart, DeleteLoad
<1>8. CASE WorkerLoad \/ WorkerSave \/ WorkerSaveFails \/ Restart \/ UNCHANGED vars
  BY <1>1, <1>8 DEF WorkerLoad, WorkerSave, WorkerSaveFails, Restart, vars
<1> QED BY <1>1, <1>3, <1>4, <1>5, <1>6, <1>7, <1>8 DEF Next

LEMMA InitTypeInv ==
  ASSUME Init
  PROVE  TypeInv
<1>1. Listed = {} /\ Existing = {}
  BY DEF Init, Listed, Existing, Exists, NoRow
<1>2. CallsAim /\ MarksListed
  BY <1>1 DEF Init, CallsAim, MarksListed, IdleCall, IdleWorker
<1>3. Linear(Listed, order)
  BY <1>1 DEF Init, Linear
<1>4. txt \in [Names -> Ids \cup {NoId, Junk}] /\ seen \subseteq Ids
  BY DEF Init
<1> QED BY <1>1, <1>2, <1>3, <1>4, InitDomainInv DEF TypeInv, OrderInv

LEMMA NextOrderInv ==
  ASSUME TypeInv, [Next]_vars
  PROVE  OrderInv'
<1>1. ASSUME UNCHANGED <<rows, order, worker, call>> PROVE OrderInv'
  <2>1. CallsAim'
    BY <1>1 DEF TypeInv, OrderInv, CallsAim
  <2> QED BY <1>1, <2>1, OrderStays DEF TypeInv
<1>2. CASE UNCHANGED vars \/ \E n \in Names : Publish(n)
  BY <1>1, <1>2 DEF vars, Publish
<1>3. CASE WorkerLoad \/ WorkerLookup \/ WorkerSave \/ WorkerSaveFails \/ Restart
  BY <1>3, LoadKeepsOrder, LookupKeepsOrder, WorkerSaveKeepsOrder, WorkerFailureKeepsOrder,
     RestartKeepsOrder
<1>4. CASE \E a \in Calls : CallStep(a)
  BY <1>4, CreateInsertKeepsOrder, VerifySaveKeepsOrder, DeleteRowKeepsOrder,
     CallFailureKeepsOrder DEF CallStep
<1>5. ASSUME NEW a \in Calls, NEW n \in Names, NEW w \in Callers, CreateStart(a, n, w)
      PROVE  OrderInv'
  <2>1. CallStart(a, "creating", n, w, NoRow) /\ UNCHANGED <<rows, order, worker>>
    BY <1>5 DEF CreateStart
  <2> QED BY <2>1, StartKeepsOrder
<1>6. ASSUME NEW a \in Calls, NEW n \in Names, NEW w \in Callers, DeleteLoad(a, n, w)
      PROVE  OrderInv'
  <2>1. CallStart(a, "deleting", n, w, rows[n]) /\ UNCHANGED <<rows, order, worker>>
    BY <1>6 DEF DeleteLoad
  <2> QED BY <2>1, StartKeepsOrder
<1> QED BY <1>2, <1>3, <1>4, <1>5, <1>6, VerifyLookupKeepsOrder DEF Next

LEMMA NextTypeInv ==
  ASSUME TypeInv, [Next]_vars
  PROVE  TypeInv'
  BY NextDomainInv, NextOrderInv, AnswersTyped DEF TypeInv

(* Every variable has its type, and the order in which the verifier takes  *)
(* the domains is linear: each existing domain has one place in it, from   *)
(* its creation to its deletion, and each check under way holds one until  *)
(* it writes, fails or dies with the process.                              *)
THEOREM DomainTypeCorrect == Spec => []TypeOK
<1>1. TypeInv => TypeOK
  BY DEF TypeInv, DomainInv, RowsTyped, CallLocals, OrderInv, Linear, Existing, TypeOK, Ordered
<1> QED BY <1>1, InitTypeInv, NextTypeInv, PTL DEF Spec
=============================================================================

------------------------ MODULE RequestHistoryProofs ------------------------
(***************************************************************************)
(* Theorems about RequestHistory, for every finite number of requests at   *)
(* a time and of ids, and all limits.                                      *)
(***************************************************************************)
EXTENDS RequestHistory, FiniteSetTheorems, FunctionTheorems, TLAPS

Locals == [pc : Pc, tunnel : Tunnel \cup {NoTunnel}, of : Ids \cup {NoId},
           api : BOOLEAN, quota : Quotas, row : Ids \cup {NoId}]

(* newer is a strict linear order of the rows ...                          *)
Ordered ==
  /\ \A i \in Stored : rows[i].newer \subseteq Stored \ {i}
  /\ \A i, j \in Stored : i # j => (j \in rows[i].newer <=> i \notin rows[j].newer)
  /\ \A i, j \in Stored : j \in rows[i].newer => rows[j].newer \subseteq rows[i].newer

(* ... along which rows grow old.                                          *)
OldFirst ==
  \A i, j \in Stored : j \in rows[i].newer /\ rows[j].age = "old" => rows[i].age = "old"

RowsInv == Stored \subseteq Ids /\ (\A i \in Stored : rows[i] \in Row) /\ Ordered /\ OldFirst

(* A request has a row while it writes its recording, a tunnel before, and *)
(* an original if it is a replay.  Its row is its own.                     *)
Writing == {"created"} \cup Pruning

LocalsOK(l) ==
  /\ l.api => l.of # NoId
  /\ l.row # NoId <=> l.pc \in Writing
  /\ l.pc \in Unrecorded => l.tunnel \in Tunnel

ProcInv ==
  /\ proc \in [Procs -> Locals]
  /\ \A p \in Procs : LocalsOK(proc[p])
  /\ \A p, q \in Procs : p # q /\ proc[p].row = proc[q].row => proc[p].row = NoId

FateInv ==
  \A p \in Procs : proc[p].row \in Stored => rows[proc[p].row].fate = "writing"

(* Tunnels differ in id and name.                                          *)
TunnelsInv ==
  /\ tunnels \subseteq Tunnel
  /\ \A t, u \in tunnels : t.id = u.id \/ t.subdomain = u.subdomain => t = u

(* While the tunnel of an original exists, its replays go to that tunnel.  *)
LoadedInv ==
  \A p \in Procs :
    proc[p].api /\ proc[p].of \in Stored /\ rows[proc[p].of].tunnel \in tunnels =>
      proc[p].tunnel = rows[proc[p].of].tunnel

(* Replays are newer than what they replay, and while the original is      *)
(* stored, and its tunnel exists, all of its replays are there to be       *)
(* counted.                                                                *)
OwnReplays(r) == {i \in ReplaysOf(r) : rows[i].tunnel = rows[r].tunnel}

ReplayInv ==
  \A r \in Stored :
    /\ ReplaysOf(r) \subseteq rows[r].newer
    /\ rows[r].tunnel \in tunnels => rows[r].replayed <= Cardinality(OwnReplays(r))

(* No row gets its tunnel back.                                            *)
NoneRevived == \A i \in Stored : rows[i].tunnel \in tunnels' => rows[i].tunnel \in tunnels

-----------------------------------------------------------------------------
(* What steps do to the rows.                                              *)

(* No row is inserted, those deleted leave none behind that are older, and *)
(* the others only age and change their fate.                              *)
Thinned ==
  /\ Stored' \subseteq Stored
  /\ \A i \in Stored' : rows[i].newer \subseteq Stored'
  /\ \A i \in Stored' :
       /\ rows'[i] \in Row
       /\ rows'[i].newer = rows[i].newer
       /\ rows'[i].of = rows[i].of
       /\ rows'[i].tunnel = rows[i].tunnel
       /\ rows'[i].replayed = rows[i].replayed
       /\ rows[i].age = "old" => rows'[i].age = "old"
  /\ OldFirst'

(* All that are older than a row of S are in S.                            *)
Closed(S) == \A i, j \in Stored : i \in S /\ i \in rows[j].newer => j \in S

(* Ids, and with them all sets of rows, are finite.                        *)
LEMMA FiniteRows ==
  ASSUME NEW S \in SUBSET Ids
  PROVE  IsFiniteSet(S) /\ Cardinality(S) \in Nat
  BY HistoryAssumption, FS_Subset, FS_CardinalityType

LEMMA SmallerCardinality ==
  ASSUME NEW T \in SUBSET Ids, NEW S \in SUBSET T
  PROVE  /\ Cardinality(S) <= Cardinality(T)
         /\ S # T => Cardinality(S) < Cardinality(T)
<1>1. IsFiniteSet(T) /\ Cardinality(T) \in Nat /\ Cardinality(S) \in Nat
  BY FiniteRows
<1>2. Cardinality(S) <= Cardinality(T) /\ (Cardinality(T) = Cardinality(S) => T = S)
  BY <1>1, FS_Subset
<1> QED BY <1>1, <1>2

(* Both pruning statements delete the oldest rows.                         *)
LEMMA OldClosed == OldFirst => Closed(Old)
  BY DEF OldFirst, Closed, Old

LEMMA ExcessClosed ==
  ASSUME RowsInv
  PROVE  Closed(Excess)
<1> SUFFICES ASSUME NEW i \in Excess, NEW j \in Stored, i \in rows[j].newer
             PROVE  j \in Excess
  BY DEF Closed
<1>1. i \in Stored /\ Cardinality(rows[i].newer) >= StoredLimit
  BY DEF Excess
<1>2. rows[i].newer \subseteq rows[j].newer /\ rows[j].newer \in SUBSET Ids
  BY <1>1 DEF RowsInv, Ordered, Row
<1>3. Cardinality(rows[i].newer) <= Cardinality(rows[j].newer)
  BY <1>2, SmallerCardinality
<1>4. Cardinality(rows[i].newer) \in Nat /\ Cardinality(rows[j].newer) \in Nat
  BY <1>2, FiniteRows
<1> QED BY <1>1, <1>3, <1>4, HistoryAssumption DEF Excess

(* Deleting such rows leaves the others as they are.                       *)
LEMMA DeletedRows ==
  ASSUME RowsInv, NEW S \in SUBSET Stored, Closed(S)
  PROVE  /\ DOMAIN Delete(S) = Stored \ S
         /\ \A i \in Stored \ S : Delete(S)[i] = rows[i] /\ rows[i].newer \subseteq Stored \ S
<1>1. DOMAIN Delete(S) = Stored \ S
  BY DEF Delete
<1>2. ASSUME NEW i \in Stored \ S PROVE rows[i].newer \subseteq Stored \ S
  BY <1>2 DEF RowsInv, Ordered, Closed
<1>3. ASSUME NEW i \in Stored \ S PROVE Delete(S)[i] = rows[i]
  <2>1. rows[i].newer \ S = rows[i].newer
    BY <1>2
  <2>2. rows[i] \in Row
    BY DEF RowsInv
  <2> QED BY <2>1, <2>2 DEF Delete, Row
<1> QED BY <1>1, <1>2, <1>3

(* Mark changes no field but fate.                                         *)
LEMMA MarkedRows ==
  ASSUME NEW table, NEW S, NEW fate \in Fates, \A i \in DOMAIN table : table[i] \in Row
  PROVE  /\ DOMAIN Mark(table, S, fate) = DOMAIN table
         /\ \A i \in DOMAIN table :
              /\ Mark(table, S, fate)[i] \in Row
              /\ Mark(table, S, fate)[i].newer = table[i].newer
              /\ Mark(table, S, fate)[i].of = table[i].of
              /\ Mark(table, S, fate)[i].tunnel = table[i].tunnel
              /\ Mark(table, S, fate)[i].age = table[i].age
              /\ Mark(table, S, fate)[i].replayed = table[i].replayed
              /\ Mark(table, S, fate)[i].fate = IF i \in S THEN fate ELSE table[i].fate
  BY DEF Mark, Row

(* Deleting and marking, as the recording of a request does.               *)
LEMMA PrunedRows ==
  ASSUME RowsInv, NEW S \in SUBSET Stored, Closed(S), NEW T, NEW fate \in Fates,
         rows' = Mark(Delete(S), T, fate)
  PROVE  /\ Thinned /\ Stored' = Stored \ S
         /\ \A i \in Stored' : /\ rows'[i].fate = IF i \in T THEN fate ELSE rows[i].fate
                               /\ rows'[i].age = rows[i].age
<1>1. /\ DOMAIN Delete(S) = Stored \ S
      /\ \A i \in Stored \ S : Delete(S)[i] = rows[i] /\ rows[i].newer \subseteq Stored \ S
  BY DeletedRows
<1>2. \A i \in DOMAIN Delete(S) : Delete(S)[i] \in Row
  BY <1>1 DEF RowsInv
<1>3. Stored' = Stored \ S
  BY <1>1, <1>2, MarkedRows DEF Stored
<1>4. \A i \in Stored' :
        /\ rows'[i] \in Row
        /\ rows'[i].newer = rows[i].newer /\ rows'[i].of = rows[i].of
        /\ rows'[i].tunnel = rows[i].tunnel
        /\ rows'[i].age = rows[i].age /\ rows'[i].replayed = rows[i].replayed
        /\ rows'[i].fate = IF i \in T THEN fate ELSE rows[i].fate
  BY <1>1, <1>2, <1>3, MarkedRows
<1>5. OldFirst'
  BY <1>3, <1>4 DEF RowsInv, OldFirst
<1> QED BY <1>1, <1>3, <1>4, <1>5 DEF Thinned

LEMMA MarkedOnly ==
  ASSUME RowsInv, NEW T, NEW fate \in Fates, rows' = Mark(rows, T, fate)
  PROVE  /\ Thinned /\ Stored' = Stored
         /\ \A i \in Stored : /\ rows'[i].fate = IF i \in T THEN fate ELSE rows[i].fate
                              /\ rows'[i].age = rows[i].age
<1>1. \A i \in DOMAIN rows : rows[i] \in Row
  BY DEF RowsInv, Stored
<1>2. Stored' = Stored
  BY <1>1, MarkedRows DEF Stored
<1>3. \A i \in Stored :
        /\ rows'[i] \in Row
        /\ rows'[i].newer = rows[i].newer /\ rows'[i].of = rows[i].of
        /\ rows'[i].tunnel = rows[i].tunnel
        /\ rows'[i].age = rows[i].age /\ rows'[i].replayed = rows[i].replayed
        /\ rows'[i].fate = IF i \in T THEN fate ELSE rows[i].fate
  BY <1>1, MarkedRows DEF Stored
<1>4. OldFirst' /\ \A i \in Stored : rows[i].newer \subseteq Stored
  BY <1>2, <1>3 DEF RowsInv, OldFirst, Ordered
<1> QED BY <1>2, <1>3, <1>4 DEF Thinned

LEMMA UnchangedRows ==
  ASSUME RowsInv, UNCHANGED rows
  PROVE  Thinned /\ Stored' = Stored
  BY DEF RowsInv, Thinned, Ordered, OldFirst, Stored

(* Time passes.                                                            *)
LEMMA MidnightThins ==
  ASSUME RowsInv, Midnight
  PROVE  Thinned /\ Stored' = Stored /\ \A i \in Stored : rows'[i].fate = rows[i].fate
<1>1. Stored' = Stored
  BY DEF Midnight, Stored
<1>2. \A i \in Stored :
        rows'[i] = IF rows[i].age = "today" THEN [rows[i] EXCEPT !.age = "kept"] ELSE rows[i]
  BY DEF Midnight
<1>3. \A i \in Stored :
        /\ rows'[i] \in Row
        /\ rows'[i].newer = rows[i].newer /\ rows'[i].of = rows[i].of
        /\ rows'[i].tunnel = rows[i].tunnel
        /\ rows'[i].replayed = rows[i].replayed /\ rows'[i].fate = rows[i].fate
        /\ rows'[i].age = "old" <=> rows[i].age = "old"
  BY <1>2 DEF RowsInv, Row, Ages
<1>4. OldFirst' /\ \A i \in Stored : rows[i].newer \subseteq Stored
  BY <1>1, <1>3 DEF RowsInv, OldFirst, Ordered
<1> QED BY <1>1, <1>3, <1>4 DEF Thinned

LEMMA GrowOldThins ==
  ASSUME RowsInv, NEW k \in Stored, GrowOld(k)
  PROVE  Thinned /\ Stored' = Stored /\ \A i \in Stored : rows'[i].fate = rows[i].fate
<1>1. Stored' = Stored
  BY DEF GrowOld, Stored
<1>2. rows'[k] = [rows[k] EXCEPT !.age = "old"] /\ \A i \in Stored \ {k} : rows'[i] = rows[i]
  BY DEF GrowOld, Stored
<1>3. \A i \in Stored :
        /\ rows'[i] \in Row
        /\ rows'[i].newer = rows[i].newer /\ rows'[i].of = rows[i].of
        /\ rows'[i].tunnel = rows[i].tunnel
        /\ rows'[i].replayed = rows[i].replayed /\ rows'[i].fate = rows[i].fate
        /\ rows'[i].age = "old" <=> rows[i].age = "old" \/ i = k
  BY <1>2 DEF RowsInv, Row, Ages
<1>4. OldFirst'
  BY <1>1, <1>3 DEF RowsInv, OldFirst, GrowOld
<1>5. \A i \in Stored : rows[i].newer \subseteq Stored
  BY DEF RowsInv, Ordered
<1> QED BY <1>1, <1>3, <1>4, <1>5 DEF Thinned

(* The rest of RowsInv, and ReplayInv, survive.                            *)
LEMMA ThinnedKeeps ==
  ASSUME RowsInv, ReplayInv, Thinned, NoneRevived
  PROVE  RowsInv' /\ ReplayInv'
<1>1. RowsInv'
  BY DEF RowsInv, Thinned, Ordered
<1>2. ASSUME NEW r \in Stored'
      PROVE  /\ ReplaysOf(r)' \subseteq rows'[r].newer
             /\ rows'[r].tunnel \in tunnels' => rows'[r].replayed <= Cardinality(OwnReplays(r))'
  <2>1. r \in Stored /\ ReplaysOf(r) \subseteq rows[r].newer
    BY <1>2 DEF ReplayInv, Thinned
  <2>2. ReplaysOf(r)' = ReplaysOf(r)
    BY <1>2, <2>1 DEF ReplaysOf, Thinned
  <2>3. OwnReplays(r)' = OwnReplays(r)
    BY <1>2, <2>2 DEF OwnReplays, ReplaysOf, Thinned
  <2> QED BY <1>2, <2>1, <2>2, <2>3 DEF ReplayInv, Thinned, NoneRevived
<1> QED BY <1>1, <1>2 DEF ReplayInv

(* A request is recorded: the new row is newer than all, and counts as a   *)
(* replay of its original.                                                 *)
Inserted(p, id) ==
  /\ id \in FreshIds /\ Stored' = Stored \cup {id}
  /\ rows'[id] \in Row /\ rows'[id].newer = {} /\ rows'[id].of = proc[p].of
  /\ rows'[id].tunnel = proc[p].tunnel
  /\ rows'[id].replayed = 0 /\ rows'[id].fate = "writing" /\ rows'[id].age = "today"
  /\ \A i \in Stored :
       /\ rows'[i] \in Row
       /\ rows'[i].newer = rows[i].newer \cup {id}
       /\ rows'[i].of = rows[i].of /\ rows'[i].age = rows[i].age /\ rows'[i].fate = rows[i].fate
       /\ rows'[i].tunnel = rows[i].tunnel
       /\ rows'[i].replayed = rows[i].replayed + (IF proc[p].api /\ i = proc[p].of THEN 1 ELSE 0)
  /\ proc' = [proc EXCEPT ![p] = [Idle EXCEPT !.pc = "created", !.row = id]]

(* Fresh ids are stored nowhere and referred to by nobody.                 *)
LEMMA Fresh ==
  ASSUME ProcInv, NEW id \in FreshIds
  PROVE  /\ id \in Ids \ Stored /\ id \notin archives
         /\ \A i \in Stored : rows[i].of # id
         /\ \A p \in Procs : proc[p].of # id /\ proc[p].row # id
<1>1. /\ id \in Ids \ (Stored \cup archives)
      /\ id \notin {rows[i].of : i \in Stored}
      /\ id \notin UNION {{proc[p].of, proc[p].row} : p \in Procs}
  BY DEF FreshIds
<1>2. \A p \in Procs : {proc[p].of, proc[p].row} \in {{proc[q].of, proc[q].row} : q \in Procs}
  OBVIOUS
<1> QED BY <1>1, <1>2

LEMMA CreateInserts ==
  ASSUME RowsInv, ProcInv, NEW p \in Procs, proc[p].tunnel \in Tunnel, CreateRecord(p)
  PROVE  \E id \in FreshIds : Inserted(p, id)
<1> DEFINE x == proc[p]
           row == [tunnel |-> x.tunnel, of |-> x.of, age |-> "today", newer |-> {},
                   replayed |-> 0, fate |-> "writing"]
<1>1. PICK id \in FreshIds :
        /\ rows' = Insert(id, row, IF x.api THEN x.of ELSE NoId)
        /\ proc' = [proc EXCEPT ![p] = [Idle EXCEPT !.pc = "created", !.row = id]]
  BY DEF CreateRecord
<1>2. id \in Ids /\ id \notin Stored /\ x \in Locals /\ NoId \notin Stored
  BY Fresh, HistoryAssumption DEF ProcInv, RowsInv
<1>3. row \in Row
  BY <1>2 DEF Row, Ages, Fates, Locals
<1>4. Stored' = Stored \cup {id} /\ rows'[id] = row
  BY <1>1 DEF Insert, Stored
<1>5. ASSUME NEW i \in Stored
      PROVE  /\ rows'[i] \in Row
             /\ rows'[i].newer = rows[i].newer \cup {id}
             /\ rows'[i].of = rows[i].of /\ rows'[i].age = rows[i].age
             /\ rows'[i].fate = rows[i].fate /\ rows'[i].tunnel = rows[i].tunnel
             /\ rows'[i].replayed = rows[i].replayed + (IF x.api /\ i = x.of THEN 1 ELSE 0)
  <2>1. rows[i] \in Row /\ i # NoId /\ x.api \in BOOLEAN
    BY <1>2 DEF RowsInv, Locals
  <2> DEFINE N == rows[i].newer \cup {id}
             K == IF i = (IF x.api THEN x.of ELSE NoId) THEN rows[i].replayed + 1 ELSE rows[i].replayed
  <2>2. rows'[i] = [rows[i] EXCEPT !.newer = N, !.replayed = K]
    BY <1>1, <1>2 DEF Insert
  <2>3. K = rows[i].replayed + (IF x.api /\ i = x.of THEN 1 ELSE 0) /\ K \in Nat
    BY <2>1 DEF Row
  <2>4. N \in SUBSET Ids
    BY <1>2, <2>1 DEF Row
  <2> HIDE DEF N, K, x
  <2>5. /\ rows'[i] \in Row
        /\ rows'[i].newer = N /\ rows'[i].replayed = K
        /\ rows'[i].of = rows[i].of /\ rows'[i].age = rows[i].age /\ rows'[i].fate = rows[i].fate
        /\ rows'[i].tunnel = rows[i].tunnel
    BY <2>1, <2>2, <2>3, <2>4 DEF Row
  <2> QED BY <2>3, <2>5 DEF N
<1>6. /\ rows'[id] \in Row /\ rows'[id].newer = {} /\ rows'[id].of = proc[p].of
      /\ rows'[id].replayed = 0 /\ rows'[id].fate = "writing" /\ rows'[id].age = "today"
      /\ rows'[id].tunnel = proc[p].tunnel
  BY <1>3, <1>4
<1>7. Inserted(p, id)
  BY <1>1, <1>4, <1>5, <1>6 DEF Inserted
<1> QED BY <1>7

LEMMA InsertedKeeps ==
  ASSUME RowsInv, ProcInv, LoadedInv, ReplayInv, UNCHANGED tunnels,
         NEW p \in Procs, NEW id \in FreshIds, Inserted(p, id)
  PROVE  RowsInv' /\ ReplayInv'
<1>1. id \in Ids /\ id \notin Stored /\ Stored' = Stored \cup {id}
  BY Fresh DEF Inserted
<1>2. RowsInv'
  <2>1. Ordered'
    BY <1>1 DEF RowsInv, Ordered, Inserted
  <2>2. OldFirst'
    BY <1>1 DEF RowsInv, Ordered, OldFirst, Inserted
  <2> QED BY <1>1, <2>1, <2>2 DEF RowsInv, Inserted
<1>3. ReplaysOf(id)' = {} /\ OwnReplays(id)' = {}
  <2>1. rows'[id].of # id /\ \A i \in Stored : rows'[i].of # id
    BY Fresh DEF Inserted
  <2>2. ReplaysOf(id)' = {}
    BY <1>1, <2>1 DEF ReplaysOf
  <2> QED BY <2>2 DEF OwnReplays
<1>4. ASSUME NEW r \in Stored
      PROVE  /\ ReplaysOf(r)' \subseteq rows'[r].newer
             /\ rows'[r].tunnel \in tunnels' => rows'[r].replayed <= Cardinality(OwnReplays(r))'
  <2>1. ReplaysOf(r)' = IF proc[p].of = r THEN ReplaysOf(r) \cup {id} ELSE ReplaysOf(r)
    BY <1>1 DEF ReplaysOf, Inserted
  <2>2. ASSUME rows'[r].tunnel \in tunnels'
        PROVE  rows'[r].replayed <= Cardinality(OwnReplays(r))'
    <3>1. rows[r].tunnel \in tunnels
      BY <2>2 DEF Inserted
    <3>2. /\ OwnReplays(r) \in SUBSET Ids /\ OwnReplays(r)' \in SUBSET Ids
          /\ id \notin OwnReplays(r)
      BY <1>1, <1>2 DEF OwnReplays, ReplaysOf, RowsInv
    <3>3. /\ IsFiniteSet(OwnReplays(r)) /\ Cardinality(OwnReplays(r)) \in Nat
          /\ Cardinality(OwnReplays(r)') \in Nat
      BY <3>2, FiniteRows
    <3>4. rows[r].replayed \in Nat /\ rows[r].replayed <= Cardinality(OwnReplays(r))
      BY <3>1 DEF ReplayInv, RowsInv, Row
    <3>5. OwnReplays(r) \subseteq OwnReplays(r)'
      BY <1>1, <2>1 DEF OwnReplays, ReplaysOf, Inserted
    <3>6. CASE proc[p].api /\ r = proc[p].of
      <4>1. proc[p].tunnel = rows[r].tunnel
        BY <3>1, <3>6 DEF LoadedInv
      <4>2. id \in OwnReplays(r)'
        BY <1>1, <2>1, <3>6, <4>1 DEF OwnReplays, Inserted
      <4>3. OwnReplays(r) \cup {id} \in SUBSET OwnReplays(r)'
        BY <3>5, <4>2
      <4>4. Cardinality(OwnReplays(r) \cup {id}) = Cardinality(OwnReplays(r)) + 1
        BY <3>2, <3>3, FS_AddElement
      <4>5. Cardinality(OwnReplays(r) \cup {id}) <= Cardinality(OwnReplays(r)')
        BY <3>2, <4>3, SmallerCardinality
      <4> QED BY <3>3, <3>4, <3>6, <4>4, <4>5 DEF Inserted
    <3>7. CASE ~ (proc[p].api /\ r = proc[p].of)
      <4>1. rows'[r].replayed = rows[r].replayed
        BY <3>4, <3>7 DEF Inserted
      <4>2. Cardinality(OwnReplays(r)) <= Cardinality(OwnReplays(r)')
        BY <3>2, <3>5, SmallerCardinality
      <4> QED BY <3>3, <3>4, <4>1, <4>2
    <3> QED BY <3>6, <3>7
  <2> QED BY <2>1, <2>2 DEF ReplayInv, Inserted
<1>5. ASSUME NEW r \in Stored', r = id
      PROVE  /\ ReplaysOf(r)' \subseteq rows'[r].newer
             /\ rows'[r].tunnel \in tunnels' => rows'[r].replayed <= Cardinality(OwnReplays(r))'
  <2>1. ReplaysOf(r)' = {} /\ Cardinality(OwnReplays(r))' = 0
    BY <1>3, <1>5, FS_EmptySet
  <2> QED BY <1>5, <2>1 DEF Inserted
<1> QED BY <1>1, <1>2, <1>4, <1>5 DEF ReplayInv

-----------------------------------------------------------------------------
(* What steps other than CreateRecord do.                                  *)

(* The fate of a row is settled by the end of its own recording.           *)
FateChanges ==
  \A i \in Stored' :
    rows'[i].fate # rows[i].fate => \E p \in Procs : proc[p].row = i /\ proc'[p] = Idle

(* Archives go only from rows that are due, and a request that has created *)
(* its row does not end without an archive or a bare row.                  *)
ArchivesKept ==
  /\ archives \ archives' \subseteq Old \cup Excess
  /\ \A p \in Procs :
       proc[p].pc = "created" =>
         \/ proc'[p].pc = "created" /\ proc'[p].row = proc[p].row
         \/ proc[p].row \in archives'
         \/ proc[p].row \in Stored' => rows'[proc[p].row].fate = "bare"

SettledKept == \A i \in Stored' : rows'[i].fate = "settled" => rows[i].fate = "settled"

NoMoreReplaying == \A r \in Ids : Replaying(r)' \subseteq Replaying(r)

RowsKept == Thinned /\ FateChanges /\ SettledKept

(* A request moves on or ends.                                             *)
Moves(p, l) == proc'[p] = l /\ \A q \in Procs \ {p} : proc'[q] = proc[q]

LEMMA IdleLocals == Idle \in Locals /\ LocalsOK(Idle)
  BY DEF Idle, Locals, LocalsOK, Pc, Quotas, Writing, Pruning, Unrecorded

LEMMA Moved ==
  ASSUME ProcInv, NEW p \in Procs, NEW l \in Locals, LocalsOK(l),
         l.row \in {NoId, proc[p].row}, proc' = [proc EXCEPT ![p] = l]
  PROVE  ProcInv' /\ Moves(p, l)
<1>1. Moves(p, l) /\ proc' \in [Procs -> Locals]
  BY DEF ProcInv, Moves
<1>2. \A q \in Procs : LocalsOK(proc'[q])
  BY <1>1 DEF ProcInv, Moves
<1>3. \A q, s \in Procs : q # s /\ proc'[q].row = proc'[s].row => proc'[q].row = NoId
  BY <1>1 DEF ProcInv, Moves
<1> QED BY <1>1, <1>2, <1>3 DEF ProcInv, LocalsOK

LEMMA Ended ==
  ASSUME ProcInv, NEW p \in Procs, End(p)
  PROVE  ProcInv' /\ Moves(p, Idle) /\ NoMoreReplaying
<1>1. ProcInv' /\ Moves(p, Idle)
  BY IdleLocals, Moved DEF End, Idle
<1> QED BY <1>1 DEF Moves, Idle, NoMoreReplaying, Replaying

LEMMA WentOn ==
  ASSUME ProcInv, NEW p \in Procs, NEW pc \in Pc, GoTo(p, pc),
         \/ pc \in Writing /\ proc[p].pc \in Writing
         \/ pc = "checked" /\ proc[p].pc = "loaded"
  PROVE  /\ ProcInv' /\ Moves(p, [proc[p] EXCEPT !.pc = pc])
         /\ pc # "checked" => NoMoreReplaying
<1> DEFINE l == [proc[p] EXCEPT !.pc = pc]
<1>1. proc[p] \in Locals /\ LocalsOK(proc[p])
  BY DEF ProcInv
<1>2. /\ l \in Locals /\ l.pc = pc
      /\ l.row = proc[p].row /\ l.api = proc[p].api /\ l.of = proc[p].of /\ l.tunnel = proc[p].tunnel
  BY <1>1 DEF Locals
<1>3. LocalsOK(l)
  BY <1>1, <1>2 DEF LocalsOK, Writing, Pruning, Unrecorded
<1>4. proc' = [proc EXCEPT ![p] = l]
  BY DEF GoTo
<1> HIDE DEF l
<1>5. ProcInv' /\ Moves(p, l)
  BY <1>2, <1>3, <1>4, Moved
<1>6. pc # "checked" => NoMoreReplaying
  BY <1>2, <1>5 DEF Moves, NoMoreReplaying, Replaying, Writing, Pruning
<1> QED BY <1>5, <1>6 DEF l

LEMMA QuietRows ==
  ASSUME RowsInv, UNCHANGED rows
  PROVE  RowsKept
  BY UnchangedRows DEF RowsKept, FateChanges, SettledKept

(* A step of a request that is not recording, or has its archive, and      *)
(* keeps all archives that are not due.                                    *)
LEMMA OtherArchivesKept ==
  ASSUME NEW p \in Procs, NEW l, Moves(p, l), proc[p].pc # "created",
         archives \ archives' \subseteq Old \cup Excess
  PROVE  ArchivesKept
  BY DEF Moves, ArchivesKept

Effects == ProcInv' /\ RowsKept /\ ArchivesKept /\ NoMoreReplaying

(* Before the recording.                                                   *)
LEMMA ArriveEffects ==
  ASSUME RowsInv, ProcInv, TunnelsInv, NEW p \in Procs, NEW t \in tunnels,
         NEW r \in Stored \cup {NoId}, Arrive(p, t, r)
  PROVE  Effects
<1> DEFINE l == [Idle EXCEPT !.pc = "found", !.tunnel = t, !.of = r]
<1>1. t \in Tunnel /\ r \in Ids \cup {NoId}
  BY DEF RowsInv, TunnelsInv
<1>2. l \in Locals /\ LocalsOK(l) /\ l.row = NoId /\ l.api = FALSE
  BY <1>1 DEF Idle, Locals, LocalsOK, Pc, Quotas, Writing, Pruning
<1>3. proc' = [proc EXCEPT ![p] = l]
  BY DEF Arrive
<1> HIDE DEF l
<1>4. ProcInv' /\ Moves(p, l)
  BY <1>2, <1>3, Moved
<1>5. NoMoreReplaying
  BY <1>2, <1>4 DEF Moves, NoMoreReplaying, Replaying
<1> QED BY <1>4, <1>5, QuietRows, OtherArchivesKept DEF Effects, Arrive, At

LEMMA ReplayLoadEffects ==
  ASSUME RowsInv, ProcInv, NEW p \in Procs, NEW r \in Stored, ReplayLoad(p, r)
  PROVE  Effects
<1> DEFINE l == [Idle EXCEPT !.pc = "loaded", !.tunnel = rows[r].tunnel, !.of = r, !.api = TRUE]
<1>1. r \in Ids /\ r # NoId /\ rows[r].tunnel \in Tunnel
  BY HistoryAssumption DEF RowsInv, Row
<1>2. l \in Locals /\ LocalsOK(l) /\ l.row = NoId /\ l.pc = "loaded"
  BY <1>1 DEF Idle, Locals, LocalsOK, Pc, Quotas, Writing, Pruning
<1>3. proc' = [proc EXCEPT ![p] = l]
  BY DEF ReplayLoad
<1> HIDE DEF l
<1>4. ProcInv' /\ Moves(p, l)
  BY <1>2, <1>3, Moved
<1>5. NoMoreReplaying
  BY <1>2, <1>4 DEF Moves, NoMoreReplaying, Replaying
<1> QED BY <1>4, <1>5, QuietRows, OtherArchivesKept DEF Effects, ReplayLoad, At

LEMMA ReplayCheckEffects ==
  ASSUME RowsInv, ProcInv, NEW p \in Procs, ReplayCheck(p)
  PROVE  ProcInv' /\ RowsKept /\ ArchivesKept
<1>1. ProcInv' /\ Moves(p, [proc[p] EXCEPT !.pc = "checked"])
  BY WentOn DEF ReplayCheck, At, Pc
<1> QED BY <1>1, QuietRows, OtherArchivesKept DEF ReplayCheck, At

LEMMA ReplayServeEffects ==
  ASSUME RowsInv, ProcInv, TunnelsInv, NEW p \in Procs, ReplayServe(p)
  PROVE  Effects
<1>1. PICK t \in tunnels : proc' = [proc EXCEPT ![p].pc = "found", ![p].tunnel = t]
  BY DEF ReplayServe
<1> DEFINE l == [proc[p] EXCEPT !.pc = "found", !.tunnel = t]
<1>2. proc[p] \in Locals /\ LocalsOK(proc[p]) /\ proc[p].pc = "checked" /\ t \in Tunnel
  BY DEF ProcInv, ReplayServe, At, TunnelsInv
<1>3. /\ l \in Locals /\ l.pc = "found" /\ l.tunnel = t
      /\ l.row = proc[p].row /\ l.api = proc[p].api /\ l.of = proc[p].of
  BY <1>2 DEF Locals, Pc
<1>4. LocalsOK(l)
  BY <1>2, <1>3 DEF LocalsOK, Writing, Pruning
<1>5. proc' = [proc EXCEPT ![p] = l]
  BY <1>1 DEF ProcInv
<1> HIDE DEF l
<1>6. ProcInv' /\ Moves(p, l)
  BY <1>3, <1>4, <1>5, Moved
<1>7. NoMoreReplaying
  BY <1>2, <1>3, <1>6 DEF Moves, NoMoreReplaying, Replaying
<1> QED BY <1>6, <1>7, <1>2, QuietRows, OtherArchivesKept DEF Effects, ReplayServe

LEMMA EnforceQuotaEffects ==
  ASSUME RowsInv, ProcInv, NEW p \in Procs, EnforceQuota(p)
  PROVE  Effects
<1>1. PICK q \in QuotaVerdicts(proc[p].tunnel.owner) :
        proc' = [proc EXCEPT ![p].pc = "serving", ![p].quota = q]
  BY DEF EnforceQuota
<1> DEFINE l == [proc[p] EXCEPT !.pc = "serving", !.quota = q]
<1>2. proc[p] \in Locals /\ LocalsOK(proc[p]) /\ proc[p].pc = "found" /\ q \in Quotas
  BY DEF ProcInv, EnforceQuota, At, QuotaVerdicts, Quotas
<1>3. /\ l \in Locals /\ l.pc = "serving" /\ l.tunnel = proc[p].tunnel
      /\ l.row = proc[p].row /\ l.api = proc[p].api /\ l.of = proc[p].of
  BY <1>2 DEF Locals, Pc
<1>4. LocalsOK(l)
  BY <1>2, <1>3 DEF LocalsOK, Writing, Pruning, Unrecorded
<1>5. proc' = [proc EXCEPT ![p] = l]
  BY <1>1 DEF ProcInv
<1> HIDE DEF l
<1>6. ProcInv' /\ Moves(p, l)
  BY <1>3, <1>4, <1>5, Moved
<1>7. NoMoreReplaying
  BY <1>2, <1>3, <1>6 DEF Moves, NoMoreReplaying, Replaying
<1> QED BY <1>6, <1>7, <1>2, QuietRows, OtherArchivesKept DEF Effects, EnforceQuota

LEMMA NotRecordedEffects ==
  ASSUME RowsInv, ProcInv, NEW p \in Procs, ReplayRefused(p) \/ CreateFails(p)
  PROVE  Effects
<1>1. End(p) /\ proc[p].pc # "created" /\ UNCHANGED <<rows, archives>>
  BY DEF ReplayRefused, CreateFails, At
<1> QED BY <1>1, Ended, QuietRows, OtherArchivesKept DEF Effects

(* The recording.                                                          *)
LEMMA UpsertArchiveEffects ==
  ASSUME RowsInv, ProcInv, NEW p \in Procs, UpsertArchive(p)
  PROVE  Effects
<1>1. ProcInv' /\ Moves(p, [proc[p] EXCEPT !.pc = "archived"]) /\ NoMoreReplaying
  BY WentOn DEF UpsertArchive, At, Pc, Writing, Pruning
<1>2. ArchivesKept
  BY <1>1 DEF UpsertArchive, Moves, ArchivesKept
<1> QED BY <1>1, <1>2, QuietRows DEF Effects, UpsertArchive

LEMMA PurgeArchivesEffects ==
  ASSUME RowsInv, ProcInv, NEW p \in Procs, PurgeArchives(p)
  PROVE  Effects
<1>1. ProcInv' /\ Moves(p, [proc[p] EXCEPT !.pc = "purging"]) /\ NoMoreReplaying
  BY WentOn DEF PurgeArchives, At, Pc, Writing, Pruning
<1>2. proc[p].pc # "created" /\ archives \ archives' \subseteq Old \cup Excess
  BY DEF PurgeArchives, At
<1> QED BY <1>1, <1>2, QuietRows, OtherArchivesKept DEF Effects, PurgeArchives

LEMMA PurgeRecordsEffects ==
  ASSUME RowsInv, ProcInv, NEW p \in Procs, PurgeRecords(p)
  PROVE  Effects
<1>1. ProcInv' /\ Moves(p, [proc[p] EXCEPT !.pc = "purged"]) /\ NoMoreReplaying
  BY WentOn DEF PurgeRecords, At, Pc, Writing, Pruning
<1>2. /\ Stored' = Stored \ Old
      /\ \A i \in Stored \ Old : rows'[i] = rows[i] /\ rows[i].newer \subseteq Stored \ Old
  BY OldClosed, DeletedRows DEF PurgeRecords, RowsInv, Old, Stored
<1>3. RowsKept
  BY <1>2 DEF RowsKept, Thinned, FateChanges, SettledKept, RowsInv, OldFirst
<1>4. proc[p].pc # "created" /\ archives \ archives' \subseteq Old \cup Excess
  BY DEF PurgeRecords, At
<1> QED BY <1>1, <1>3, <1>4, OtherArchivesKept DEF Effects

LEMMA TrimArchivesEffects ==
  ASSUME RowsInv, ProcInv, NEW p \in Procs, TrimArchives(p)
  PROVE  Effects
<1>1. ProcInv' /\ Moves(p, [proc[p] EXCEPT !.pc = "trimming"]) /\ NoMoreReplaying
  BY WentOn DEF TrimArchives, At, Pc, Writing, Pruning
<1>2. proc[p].pc # "created" /\ archives \ archives' \subseteq Old \cup Excess
  BY DEF TrimArchives, At
<1> QED BY <1>1, <1>2, QuietRows, OtherArchivesKept DEF Effects, TrimArchives

LEMMA TrimRecordsEffects ==
  ASSUME RowsInv, ProcInv, NEW p \in Procs, TrimRecords(p)
  PROVE  /\ ProcInv' /\ Thinned /\ FateChanges /\ ArchivesKept /\ NoMoreReplaying
         /\ Stored' = Stored \ Excess
<1>1. ProcInv' /\ Moves(p, Idle) /\ NoMoreReplaying
  BY Ended DEF TrimRecords
<1>2. /\ Thinned /\ Stored' = Stored \ Excess
      /\ \A i \in Stored' : rows'[i].fate # rows[i].fate => i = proc[p].row
  <2> DEFINE T == {proc[p].row}
  <2>1. rows' = Mark(Delete(Excess), T, "settled") /\ "settled" \in Fates
    BY DEF TrimRecords, Fates
  <2>2. Excess \in SUBSET Stored /\ Closed(Excess)
    BY ExcessClosed DEF Excess
  <2>3. /\ Thinned /\ Stored' = Stored \ Excess
        /\ \A i \in Stored' :
             rows'[i].fate = IF i \in T THEN "settled" ELSE rows[i].fate
    <3> HIDE DEF T
    <3> QED BY <2>1, <2>2, PrunedRows
  <2> QED BY <2>3
<1>3. FateChanges
  BY <1>1, <1>2 DEF FateChanges, Moves
<1>4. proc[p].pc # "created" /\ archives \ archives' \subseteq Old \cup Excess
  BY DEF TrimRecords, At
<1> QED BY <1>1, <1>2, <1>3, <1>4, OtherArchivesKept

LEMMA ArchiveFailsEffects ==
  ASSUME RowsInv, ProcInv, NEW p \in Procs, ArchiveFails(p)
  PROVE  Effects
<1>1. ProcInv' /\ Moves(p, Idle) /\ NoMoreReplaying
  BY Ended DEF ArchiveFails
<1>2. /\ Thinned /\ Stored' = Stored
      /\ \A i \in Stored : rows'[i].fate = IF i = proc[p].row THEN "bare" ELSE rows[i].fate
  <2>1. rows' = Mark(rows, {proc[p].row}, "bare") /\ "bare" \in Fates
    BY DEF ArchiveFails, Fates
  <2>2. /\ Thinned /\ Stored' = Stored
        /\ \A i \in Stored : rows'[i].fate = IF i \in {proc[p].row} THEN "bare" ELSE rows[i].fate
    BY <2>1, MarkedOnly
  <2> QED BY <2>2
<1>3. RowsKept
  BY <1>1, <1>2 DEF RowsKept, FateChanges, SettledKept, Moves
<1>4. ArchivesKept
  BY <1>1, <1>2 DEF ArchivesKept, ArchiveFails, Moves
<1> QED BY <1>1, <1>3, <1>4 DEF Effects

LEMMA PruneFailsEffects ==
  ASSUME RowsInv, ProcInv, NEW p \in Procs, PruneFails(p)
  PROVE  Effects
<1>1. ProcInv' /\ Moves(p, Idle) /\ NoMoreReplaying
  BY Ended DEF PruneFails
<1>2. /\ Thinned /\ Stored' = Stored
      /\ \A i \in Stored : rows'[i].fate = IF i = proc[p].row THEN "untrimmed" ELSE rows[i].fate
  <2>1. rows' = Mark(rows, {proc[p].row}, "untrimmed") /\ "untrimmed" \in Fates
    BY DEF PruneFails, Fates
  <2>2. /\ Thinned /\ Stored' = Stored
        /\ \A i \in Stored : rows'[i].fate = IF i \in {proc[p].row} THEN "untrimmed" ELSE rows[i].fate
    BY <2>1, MarkedOnly
  <2> QED BY <2>2
<1>3. RowsKept
  BY <1>1, <1>2 DEF RowsKept, FateChanges, SettledKept, Moves
<1>4. proc[p].pc # "created" /\ archives \ archives' \subseteq Old \cup Excess
  BY DEF PruneFails, Pruning
<1> QED BY <1>1, <1>3, <1>4, OtherArchivesKept DEF Effects

(* Tunnels come and go, time passes, the process ends.                     *)
LEMMA TunnelEffects ==
  ASSUME RowsInv, ProcInv, UNCHANGED <<rows, archives, proc>>
  PROVE  Effects
<1>1. ProcInv' /\ NoMoreReplaying /\ ArchivesKept
  BY DEF ProcInv, LocalsOK, NoMoreReplaying, Replaying, ArchivesKept
<1> QED BY <1>1, QuietRows DEF Effects

LEMMA TimeEffects ==
  ASSUME RowsInv, ProcInv, Midnight \/ \E i \in Stored : GrowOld(i)
  PROVE  Effects
<1>1. UNCHANGED <<archives, proc>>
  BY DEF Midnight, GrowOld
<1>2. Thinned /\ Stored' = Stored /\ \A i \in Stored : rows'[i].fate = rows[i].fate
  BY MidnightThins, GrowOldThins
<1>3. RowsKept
  BY <1>2 DEF RowsKept, FateChanges, SettledKept
<1>4. ProcInv' /\ NoMoreReplaying /\ ArchivesKept
  BY <1>1 DEF ProcInv, LocalsOK, NoMoreReplaying, Replaying, ArchivesKept
<1> QED BY <1>3, <1>4 DEF Effects

LEMMA RestartEffects ==
  ASSUME RowsInv, ProcInv, Restart
  PROVE  Effects
<1>1. \A p \in Procs : proc'[p] = Idle
  BY DEF Restart
<1>2. ProcInv' /\ NoMoreReplaying
  <2>1. proc' \in [Procs -> Locals]
    BY IdleLocals DEF Restart
  <2>2. \A p \in Procs : proc'[p].pc = "idle" /\ proc'[p].row = NoId
    BY <1>1 DEF Idle
  <2> QED BY <1>1, <2>1, <2>2, IdleLocals DEF ProcInv, LocalsOK, NoMoreReplaying, Replaying
<1> DEFINE T == RowsAt({"created"})
           U == RowsAt(Pruning)
           bare == Mark(rows, T, "bare")
<1>3. rows' = Mark(bare, U, "untrimmed")
  BY DEF Restart
<1>4. \A p \in Procs : (proc[p].pc = "created" => proc[p].row \in T) /\ (proc[p].pc \in Pruning => proc[p].row \in U)
  BY DEF RowsAt
<1>5. \A i \in T \cup U : \E p \in Procs : proc[p].row = i
  BY DEF RowsAt
<1>6. T \cap U \cap Ids = {}
  <2> SUFFICES ASSUME NEW i \in T, i \in U, i \in Ids PROVE FALSE
    OBVIOUS
  <2>1. PICK p \in Procs : proc[p].pc = "created" /\ proc[p].row = i
    BY DEF RowsAt
  <2>2. PICK q \in Procs : proc[q].pc \in Pruning /\ proc[q].row = i
    BY DEF RowsAt
  <2>3. p # q /\ i # NoId
    BY <2>1, <2>2, HistoryAssumption DEF Pruning
  <2> QED BY <2>1, <2>2, <2>3 DEF ProcInv
<1> HIDE DEF T, U
<1>7. /\ DOMAIN bare = Stored
      /\ \A i \in Stored :
           /\ bare[i] \in Row /\ bare[i].newer = rows[i].newer /\ bare[i].of = rows[i].of
           /\ bare[i].age = rows[i].age /\ bare[i].replayed = rows[i].replayed
           /\ bare[i].tunnel = rows[i].tunnel
           /\ bare[i].fate = IF i \in T THEN "bare" ELSE rows[i].fate
  BY MarkedRows DEF RowsInv, Fates, Stored
<1> HIDE DEF bare
<1>8. /\ DOMAIN rows' = Stored
      /\ \A i \in Stored :
           /\ rows'[i] \in Row /\ rows'[i].newer = rows[i].newer /\ rows'[i].of = rows[i].of
           /\ rows'[i].age = rows[i].age /\ rows'[i].replayed = rows[i].replayed
           /\ rows'[i].tunnel = rows[i].tunnel
           /\ rows'[i].fate = IF i \in U THEN "untrimmed" ELSE bare[i].fate
  BY <1>3, <1>7, MarkedRows DEF Fates
<1>9. Stored' = Stored
  BY <1>8 DEF Stored
<1>10. Thinned
  BY <1>8, <1>9 DEF Thinned, RowsInv, Ordered, OldFirst
<1>11. FateChanges /\ SettledKept
  BY <1>1, <1>5, <1>7, <1>8, <1>9 DEF FateChanges, SettledKept
<1>12. ArchivesKept
  BY <1>4, <1>6, <1>7, <1>8, <1>9 DEF ArchivesKept, Restart, RowsInv
<1> QED BY <1>2, <1>10, <1>11, <1>12 DEF Effects, RowsKept

-----------------------------------------------------------------------------
(* The invariants the effects preserve.                                    *)

LEMMA StoredId == RowsInv => NoId \notin Stored
  BY HistoryAssumption DEF RowsInv

(* No request gets another row.                                            *)
OwnRows == \A p \in Procs : proc'[p].row \in {NoId, proc[p].row}

LEMMA FateStep ==
  ASSUME RowsInv, ProcInv, FateInv, ProcInv', Thinned, FateChanges,
         OwnRows
  PROVE  FateInv'
<1> SUFFICES ASSUME NEW p \in Procs, proc'[p].row \in Stored'
             PROVE  rows'[proc'[p].row].fate = "writing"
  BY DEF FateInv
<1>1. proc'[p].row \in Stored /\ proc'[p].row # NoId /\ proc'[p].row = proc[p].row
  BY StoredId DEF Thinned, OwnRows
<1>2. rows[proc[p].row].fate = "writing"
  BY <1>1 DEF FateInv
<1>3. CASE rows'[proc[p].row].fate # rows[proc[p].row].fate
  <2>1. PICK q \in Procs : proc[q].row = proc[p].row /\ proc'[q] = Idle
    BY <1>1, <1>3 DEF FateChanges
  <2>2. q = p
    BY <1>1, <2>1 DEF ProcInv
  <2> QED BY <1>1, <2>1, <2>2 DEF Idle
<1> QED BY <1>1, <1>2, <1>3

(* A row that is not due has its archive.                                  *)
LEMMA ArchivedStep ==
  ASSUME RowsInv, ProcInv, FateInv, ArchivedOrDue, Thinned, FateChanges, ArchivesKept
  PROVE  ArchivedOrDue'
<1> SUFFICES ASSUME NEW i \in Stored'
             PROVE  \/ i \in archives' \cup Old' \cup Excess' \cup RowsAt({"created"})'
                    \/ rows'[i].fate = "bare"
  BY DEF ArchivedOrDue
<1>1. i \in Stored /\ rows'[i].newer = rows[i].newer /\ (rows[i].age = "old" => rows'[i].age = "old")
  BY DEF Thinned
<1>2. (i \in Old => i \in Old') /\ (i \in Excess => i \in Excess')
  BY <1>1 DEF Old, Excess
<1>3. CASE i \in archives
  BY <1>2, <1>3 DEF ArchivesKept
<1>4. CASE i \in RowsAt({"created"})
  <2>1. PICK p \in Procs : proc[p].pc = "created" /\ proc[p].row = i
    BY <1>4 DEF RowsAt
  <2>2. proc'[p].pc = "created" /\ proc'[p].row = i => i \in RowsAt({"created"})'
    BY DEF RowsAt
  <2> QED BY <2>1, <2>2 DEF ArchivesKept
<1>5. CASE rows[i].fate = "bare"
  <2>1. rows'[i].fate = rows[i].fate
    BY <1>1, <1>5 DEF FateChanges, FateInv
  <2> QED BY <1>5, <2>1
<1> QED BY <1>1, <1>2, <1>3, <1>4, <1>5 DEF ArchivedOrDue

Settled == {i \in Stored : rows[i].fate = "settled"}

LEMMA SettledStep ==
  ASSUME RowsInv, SettledWithinLimit, Settled' \subseteq Settled
  PROVE  SettledWithinLimit'
<1>1. Settled \in SUBSET Ids /\ Settled' \in SUBSET Settled
  BY DEF Settled, RowsInv
<1>2. Cardinality(Settled') <= Cardinality(Settled)
  BY <1>1, SmallerCardinality
<1>3. Cardinality(Settled') \in Nat /\ Cardinality(Settled) \in Nat
  BY <1>1, FiniteRows
<1> QED BY <1>2, <1>3, HistoryAssumption DEF SettledWithinLimit, Settled

(* Rows differ in the number of newer rows ...                             *)
LEMMA RanksDiffer ==
  ASSUME RowsInv, NEW i \in Stored, NEW j \in Stored, i # j
  PROVE  Cardinality(rows[i].newer) # Cardinality(rows[j].newer)
<1>1. ASSUME NEW k \in Stored, NEW l \in Stored, l \in rows[k].newer
      PROVE  Cardinality(rows[k].newer) # Cardinality(rows[l].newer)
  <2>1. rows[l].newer \subseteq rows[k].newer /\ l \notin rows[l].newer /\ rows[k].newer \in SUBSET Ids
    BY <1>1 DEF RowsInv, Ordered, Row
  <2>2. Cardinality(rows[l].newer) < Cardinality(rows[k].newer)
    BY <1>1, <2>1, SmallerCardinality
  <2>3. Cardinality(rows[k].newer) \in Nat
    BY <2>1, FiniteRows
  <2> QED BY <2>2, <2>3
<1>2. j \in rows[i].newer \/ i \in rows[j].newer
  BY DEF RowsInv, Ordered
<1> QED BY <1>1, <1>2

(* ... so no more than StoredLimit rows have fewer than StoredLimit newer  *)
(* ones.                                                                   *)
LEMMA FewNotExcess ==
  ASSUME RowsInv
  PROVE  Cardinality(Stored \ Excess) <= StoredLimit
<1> DEFINE S == Stored \ Excess
           rank == [i \in S |-> Cardinality(rows[i].newer)]
           T == 0 .. (StoredLimit - 1)
<1>1. \A i \in S : Cardinality(rows[i].newer) \in T
  BY FiniteRows, HistoryAssumption DEF RowsInv, Row, Excess
<1>2. rank \in Injection(S, T)
  <2>1. rank \in [S -> T]
    BY <1>1
  <2>2. \A i, j \in S : i # j => rank[i] # rank[j]
    BY RanksDiffer
  <2> HIDE DEF rank, S, T
  <2> QED BY <2>1, <2>2 DEF Injection, IsInjective
<1>3. IsFiniteSet(T) /\ Cardinality(T) = StoredLimit
  BY FS_Interval, HistoryAssumption
<1> HIDE DEF rank, S, T
<1>4. Cardinality(S) <= Cardinality(T)
  BY <1>2, <1>3, FS_Injection
<1> QED BY <1>3, <1>4 DEF S

LEMMA TrimSettles ==
  ASSUME RowsInv, Stored' = Stored \ Excess
  PROVE  SettledWithinLimit'
<1>1. Stored \ Excess \in SUBSET Ids /\ Settled' \in SUBSET (Stored \ Excess)
  BY DEF Settled, RowsInv
<1>2. Cardinality(Settled') <= Cardinality(Stored \ Excess)
  BY <1>1, SmallerCardinality
<1>3. Cardinality(Settled') \in Nat /\ Cardinality(Stored \ Excess) \in Nat
  BY <1>1, FiniteRows
<1> QED BY <1>2, <1>3, FewNotExcess, HistoryAssumption DEF SettledWithinLimit, Settled

(* Concurrent replays.                                                     *)
LEMMA ReplayingFinite ==
  ASSUME NEW S \in SUBSET Procs
  PROVE  /\ IsFiniteSet(S) /\ Cardinality(S) \in Nat /\ Cardinality(Procs) \in Nat
         /\ Cardinality(S) <= Cardinality(Procs)
  BY HistoryAssumption, FS_Subset, FS_CardinalityType

LEMMA FewerReplaying ==
  ASSUME NEW r, Replaying(r)' \subseteq Replaying(r)
  PROVE  /\ Cardinality(Replaying(r)') \in Nat /\ Cardinality(Replaying(r)) \in Nat
         /\ Cardinality(Replaying(r)') <= Cardinality(Replaying(r))
<1>1. Replaying(r) \in SUBSET Procs /\ Replaying(r)' \in SUBSET Replaying(r)
  BY DEF Replaying
<1> QED BY <1>1, ReplayingFinite, FS_Subset

LEMMA OvershootStep ==
  ASSUME RowsInv, ReplayOvershootBounded, Thinned, NoneRevived, NoMoreReplaying
  PROVE  ReplayOvershootBounded'
<1> SUFFICES ASSUME NEW r \in Stored', rows'[r].tunnel \in tunnels'
             PROVE  rows'[r].replayed + Cardinality(Replaying(r)') <= ReplayLimit + Cardinality(Procs) - 1
  BY DEF ReplayOvershootBounded
<1>1. r \in Stored /\ r \in Ids /\ rows'[r].replayed = rows[r].replayed /\ rows[r].replayed \in Nat
  BY DEF Thinned, RowsInv, Row
<1>0. rows[r].tunnel \in tunnels
  BY <1>1 DEF Thinned, NoneRevived
<1>2. /\ Cardinality(Replaying(r)') \in Nat /\ Cardinality(Replaying(r)) \in Nat
      /\ Cardinality(Replaying(r)') <= Cardinality(Replaying(r))
  BY <1>1, FewerReplaying DEF NoMoreReplaying
<1>3. rows[r].replayed + Cardinality(Replaying(r)) <= ReplayLimit + Cardinality(Procs) - 1
  BY <1>0, <1>1 DEF ReplayOvershootBounded
<1>4. Cardinality(Procs) \in Nat /\ ReplayLimit \in Nat
  BY HistoryAssumption, FS_CardinalityType
<1> QED BY <1>1, <1>2, <1>3, <1>4

(* The limit is checked against all replays, as none of them is gone while *)
(* the original and its tunnel exist.                                      *)
LEMMA ReplayCheckOvershoot ==
  ASSUME RowsInv, ProcInv, LoadedInv, ReplayInv, ReplayOvershootBounded,
         NEW p \in Procs, ReplayCheck(p)
  PROVE  ReplayOvershootBounded'
<1>0. rows' = rows /\ Stored' = Stored /\ tunnels' = tunnels
  BY DEF ReplayCheck, Stored
<1> SUFFICES ASSUME NEW r \in Stored, rows[r].tunnel \in tunnels
             PROVE  rows[r].replayed + Cardinality(Replaying(r)') <= ReplayLimit + Cardinality(Procs) - 1
  BY <1>0 DEF ReplayOvershootBounded
<1>1. rows[r].replayed \in Nat /\ Cardinality(Procs) \in Nat /\ ReplayLimit \in Nat
  BY HistoryAssumption, FS_CardinalityType DEF RowsInv, Row
<1>2. Moves(p, [proc[p] EXCEPT !.pc = "checked"]) /\ proc[p] \in Locals
  BY WentOn DEF ReplayCheck, At, Pc, ProcInv
<1>3. CASE proc[p].api /\ r = proc[p].of
  <2> DEFINE counted == ReplaysOf(r) \cap Joined(proc[p].tunnel.owner)
  <2>1. rows[r].replayed <= Cardinality(OwnReplays(r)) /\ Cardinality(counted) < ReplayLimit
    BY <1>3 DEF ReplayCheck, ReplayInv
  <2>2. OwnReplays(r) \in SUBSET counted
    <3>1. proc[p].tunnel = rows[r].tunnel
      BY <1>3 DEF LoadedInv
    <3> QED BY <3>1 DEF OwnReplays, ReplaysOf, Joined
  <2>3. counted \in SUBSET Ids /\ OwnReplays(r) \in SUBSET Ids /\ Replaying(r)' \in SUBSET Procs
    BY DEF OwnReplays, ReplaysOf, RowsInv, Replaying
  <2> HIDE DEF counted
  <2>4. /\ Cardinality(counted) \in Nat /\ Cardinality(OwnReplays(r)) \in Nat
        /\ Cardinality(OwnReplays(r)) <= Cardinality(counted)
    BY <2>2, <2>3, FiniteRows, SmallerCardinality
  <2>5. Cardinality(Replaying(r)') \in Nat /\ Cardinality(Replaying(r)') <= Cardinality(Procs)
    BY <2>3, ReplayingFinite
  <2> QED BY <1>1, <2>1, <2>4, <2>5
<1>4. CASE ~ (proc[p].api /\ r = proc[p].of)
  <2>1. Replaying(r)' \subseteq Replaying(r)
    BY <1>2, <1>4 DEF Moves, Replaying, Locals
  <2>2. rows[r].replayed + Cardinality(Replaying(r)) <= ReplayLimit + Cardinality(Procs) - 1
    BY DEF ReplayOvershootBounded
  <2> QED BY <1>1, <2>1, <2>2, FewerReplaying
<1> QED BY <1>3, <1>4

(* A replay that is recorded is under way no longer.                       *)
LEMMA InsertedOvershoot ==
  ASSUME RowsInv, ProcInv, ReplayOvershootBounded, NEW p \in Procs, At(p, "serving"),
         NEW id \in FreshIds, Inserted(p, id), UNCHANGED tunnels
  PROVE  ReplayOvershootBounded'
<1> SUFFICES ASSUME NEW r \in Stored', rows'[r].tunnel \in tunnels'
             PROVE  rows'[r].replayed + Cardinality(Replaying(r)') <= ReplayLimit + Cardinality(Procs) - 1
  BY DEF ReplayOvershootBounded
<1>1. Cardinality(Procs) \in Nat /\ ReplayLimit \in Nat \ {0}
  BY HistoryAssumption, FS_CardinalityType
<1>2. /\ proc'[p] = [Idle EXCEPT !.pc = "created", !.row = id]
      /\ \A q \in Procs \ {p} : proc'[q] = proc[q]
  BY DEF Inserted, ProcInv
<1>3. \A s : Replaying(s)' = Replaying(s) \ {p}
  BY <1>2 DEF Replaying, Idle
<1>4. CASE r = id
  <2>1. Replaying(id) = {}
    BY Fresh DEF Replaying
  <2>2. Replaying(r)' = {} /\ rows'[r].replayed = 0
    BY <1>3, <1>4, <2>1 DEF Inserted
  <2> QED BY <1>1, <2>2, FS_EmptySet
<1>5. CASE r \in Stored
  <2>1. /\ rows[r].replayed \in Nat
        /\ rows'[r].replayed = rows[r].replayed + (IF proc[p].api /\ r = proc[p].of THEN 1 ELSE 0)
        /\ rows[r].replayed + Cardinality(Replaying(r)) <= ReplayLimit + Cardinality(Procs) - 1
    BY <1>5 DEF Inserted, RowsInv, Row, ReplayOvershootBounded
  <2>2. IsFiniteSet(Replaying(r)) /\ Cardinality(Replaying(r)) \in Nat
    <3>1. Replaying(r) \in SUBSET Procs
      BY DEF Replaying
    <3> QED BY <3>1, ReplayingFinite
  <2>3. proc[p].api /\ r = proc[p].of => p \in Replaying(r)
    BY DEF Replaying, At
  <2>4. Cardinality(Replaying(r)') =
          Cardinality(Replaying(r)) - (IF p \in Replaying(r) THEN 1 ELSE 0)
    <3>1. Cardinality(Replaying(r) \ {p}) =
            IF p \in Replaying(r) THEN Cardinality(Replaying(r)) - 1 ELSE Cardinality(Replaying(r))
      BY <2>2, FS_RemoveElement
    <3>2. Replaying(r)' = Replaying(r) \ {p}
      BY <1>3
    <3> QED BY <2>2, <3>1, <3>2
  <2> QED BY <1>1, <2>1, <2>2, <2>3, <2>4
<1> QED BY <1>4, <1>5 DEF Inserted

(* What the insertion of a row does to the other invariants.               *)
LEMMA InsertedProcs ==
  ASSUME RowsInv, ProcInv, FateInv, NEW p \in Procs, NEW id \in FreshIds, Inserted(p, id)
  PROVE  ProcInv' /\ FateInv'
<1> DEFINE l == [Idle EXCEPT !.pc = "created", !.row = id]
<1>1. id \in Ids /\ id # NoId /\ \A q \in Procs : proc[q].row # id
  BY Fresh, HistoryAssumption
<1>2. l \in Locals /\ LocalsOK(l) /\ l.row = id
  BY <1>1 DEF Locals, LocalsOK, Idle, Pc, Quotas, Writing, Unrecorded
<1>3. Moves(p, l) /\ proc' \in [Procs -> Locals]
  BY <1>2 DEF Inserted, ProcInv, Moves
<1> HIDE DEF l
<1>4. \A q \in Procs : LocalsOK(proc'[q])
  BY <1>2, <1>3 DEF ProcInv, Moves
<1>5. \A q, s \in Procs : q # s /\ proc'[q].row = proc'[s].row => proc'[q].row = NoId
  BY <1>1, <1>2, <1>3 DEF ProcInv, Moves
<1>6. ProcInv'
  BY <1>3, <1>4, <1>5 DEF ProcInv, LocalsOK
<1>7. ASSUME NEW q \in Procs, proc'[q].row \in Stored' PROVE rows'[proc'[q].row].fate = "writing"
  <2>1. CASE q = p
    BY <1>2, <1>3, <2>1 DEF Moves, Inserted
  <2>2. CASE q # p
    <3>1. proc'[q].row = proc[q].row /\ proc[q].row \in Stored
      BY <1>1, <1>3, <1>7, <2>2 DEF Moves, Inserted
    <3> QED BY <3>1 DEF FateInv, Inserted
  <2> QED BY <2>1, <2>2
<1> QED BY <1>6, <1>7 DEF FateInv

LEMMA InsertedArchived ==
  ASSUME RowsInv, ProcInv, ArchivedOrDue, NEW p \in Procs, At(p, "serving"),
         NEW id \in FreshIds, Inserted(p, id), UNCHANGED archives
  PROVE  ArchivedOrDue'
<1> SUFFICES ASSUME NEW i \in Stored'
             PROVE  \/ i \in archives' \cup Old' \cup Excess' \cup RowsAt({"created"})'
                    \/ rows'[i].fate = "bare"
  BY DEF ArchivedOrDue
<1>1. /\ proc'[p].pc = "created" /\ proc'[p].row = id
      /\ \A q \in Procs \ {p} : proc'[q] = proc[q]
  BY DEF Inserted, ProcInv, Idle
<1>2. CASE i = id
  BY <1>1, <1>2 DEF RowsAt
<1>3. CASE i \in Stored
  <2>1. i \in Old => i \in Old'
    BY <1>3 DEF Old, Inserted
  <2>2. i \in Excess => i \in Excess'
    <3>1. /\ rows[i].newer \in SUBSET Ids /\ rows'[i].newer \in SUBSET Ids
          /\ rows[i].newer \subseteq rows'[i].newer
      BY <1>3 DEF RowsInv, Row, Inserted
    <3>2. /\ Cardinality(rows[i].newer) <= Cardinality(rows'[i].newer)
          /\ Cardinality(rows[i].newer) \in Nat /\ Cardinality(rows'[i].newer) \in Nat
      BY <3>1, SmallerCardinality, FiniteRows
    <3> QED BY <1>3, <3>2, HistoryAssumption DEF Excess
  <2>3. i \in RowsAt({"created"}) => i \in RowsAt({"created"})'
    BY <1>1 DEF RowsAt, At
  <2>4. rows[i].fate = "bare" => rows'[i].fate = "bare"
    BY <1>3 DEF Inserted
  <2> QED BY <1>3, <2>1, <2>2, <2>3, <2>4 DEF ArchivedOrDue
<1> QED BY <1>2, <1>3 DEF Inserted

LEMMA InsertedSettled ==
  ASSUME RowsInv, SettledWithinLimit, NEW p, NEW id, Inserted(p, id)
  PROVE  SettledWithinLimit'
<1>1. Settled' \subseteq Settled
  BY DEF Settled, Inserted
<1> QED BY <1>1, SettledStep

-----------------------------------------------------------------------------
(* Tunnels, and the replays that are under way.                            *)

LEMMA ReserveStep ==
  ASSUME RowsInv, TunnelsInv, NEW n \in Subdomains, NEW a \in Accounts, Reserve(n, a)
  PROVE  TunnelsInv' /\ NoneRevived /\ tunnels \subseteq tunnels'
<1>1. /\ \A t \in tunnels : t.subdomain # n
      /\ \E id \in FreshTunnelIds :
           tunnels' = tunnels \cup {[id |-> id, subdomain |-> n, owner |-> a]}
  BY DEF Reserve
<1>2. PICK id \in FreshTunnelIds : tunnels' = tunnels \cup {[id |-> id, subdomain |-> n, owner |-> a]}
  BY <1>1
<1> DEFINE new == [id |-> id, subdomain |-> n, owner |-> a]
<1>3. id \in TunnelIds /\ (\A t \in tunnels : t.id # id) /\ \A i \in Stored : rows[i].tunnel.id # id
  BY DEF FreshTunnelIds
<1>4. new \in Tunnel /\ new.id = id /\ new.subdomain = n
  BY <1>3 DEF Tunnel
<1> HIDE DEF new
<1>5. TunnelsInv'
  BY <1>1, <1>2, <1>3, <1>4 DEF TunnelsInv, new
<1>6. NoneRevived
  BY <1>2, <1>3, <1>4 DEF NoneRevived, new
<1> QED BY <1>2, <1>5, <1>6

LEMMA TunnelsStep ==
  ASSUME RowsInv, TunnelsInv, [Next]_vars
  PROVE  TunnelsInv' /\ NoneRevived
<1>1. ASSUME UNCHANGED tunnels PROVE TunnelsInv' /\ NoneRevived
  BY <1>1 DEF TunnelsInv, NoneRevived
<1>2. ASSUME NEW t \in tunnels, DeleteTunnel(t) PROVE TunnelsInv' /\ NoneRevived
  BY <1>2 DEF DeleteTunnel, TunnelsInv, NoneRevived
<1>3. ASSUME NEW p \in Procs, Step(p) PROVE UNCHANGED tunnels
  BY <1>3
  DEF Step, ReplayCheck, ReplayServe, ReplayRefused, EnforceQuota, CreateRecord, UpsertArchive,
      PurgeArchives, PurgeRecords, TrimArchives, TrimRecords, CreateFails, ArchiveFails, PruneFails
<1>4. CASE \/ \E p \in Procs, t \in tunnels, r \in Stored \cup {NoId} : Arrive(p, t, r)
           \/ \E p \in Procs, r \in Stored : ReplayLoad(p, r)
           \/ Midnight \/ (\E i \in Stored : GrowOld(i)) \/ Restart \/ UNCHANGED vars
  BY <1>1, <1>4 DEF Arrive, ReplayLoad, Midnight, GrowOld, Restart, vars
<1> QED BY <1>1, <1>2, <1>3, <1>4, ReserveStep DEF Next

(* A replay under way keeps its original and its tunnel.                   *)
SameReplays ==
  \A p \in Procs : proc'[p].api =>
    proc[p].api /\ proc'[p].of = proc[p].of /\ proc'[p].tunnel = proc[p].tunnel

LEMMA ReplaysKept ==
  ASSUME ProcInv, [Next]_vars,
         \A p \in Procs : ~ ReplayServe(p) /\ \A r \in Stored : ~ ReplayLoad(p, r)
  PROVE  SameReplays
<1>1. proc \in [Procs -> Locals]
  BY DEF ProcInv
<1>2. ASSUME NEW p \in Procs, End(p) PROVE SameReplays
  BY <1>1, <1>2 DEF End, Idle, SameReplays
<1>3. ASSUME NEW p \in Procs, NEW pc, GoTo(p, pc) PROVE SameReplays
  <2>1. /\ [proc[p] EXCEPT !.pc = pc].api = proc[p].api
        /\ [proc[p] EXCEPT !.pc = pc].of = proc[p].of
        /\ [proc[p] EXCEPT !.pc = pc].tunnel = proc[p].tunnel
    BY <1>1 DEF Locals
  <2> QED BY <1>1, <1>3, <2>1 DEF GoTo, SameReplays
<1>4. ASSUME UNCHANGED proc PROVE SameReplays
  BY <1>4 DEF SameReplays
<1>5. ASSUME NEW p \in Procs, Step(p) PROVE SameReplays
  <2>1. CASE EnforceQuota(p)
    <3>1. PICK q \in QuotaVerdicts(proc[p].tunnel.owner) :
            proc' = [proc EXCEPT ![p].pc = "serving", ![p].quota = q]
      BY <2>1 DEF EnforceQuota
    <3>2. /\ [proc[p] EXCEPT !.pc = "serving", !.quota = q].api = proc[p].api
          /\ [proc[p] EXCEPT !.pc = "serving", !.quota = q].of = proc[p].of
          /\ [proc[p] EXCEPT !.pc = "serving", !.quota = q].tunnel = proc[p].tunnel
      BY <1>1 DEF Locals
    <3> QED BY <1>1, <3>1, <3>2 DEF SameReplays
  <2>2. CASE ReplayRefused(p) \/ TrimRecords(p) \/ CreateFails(p) \/ ArchiveFails(p) \/ PruneFails(p)
    BY <1>2, <2>2 DEF ReplayRefused, TrimRecords, CreateFails, ArchiveFails, PruneFails
  <2>3. CASE ReplayCheck(p) \/ UpsertArchive(p) \/ PurgeArchives(p) \/ PurgeRecords(p) \/ TrimArchives(p)
    BY <1>3, <2>3 DEF ReplayCheck, UpsertArchive, PurgeArchives, PurgeRecords, TrimArchives
  <2>4. CASE CreateRecord(p)
    <3>1. PICK id \in FreshIds : proc' = [proc EXCEPT ![p] = [Idle EXCEPT !.pc = "created", !.row = id]]
      BY <2>4 DEF CreateRecord
    <3> QED BY <1>1, <3>1 DEF SameReplays, Idle
  <2> QED BY <1>5, <2>1, <2>2, <2>3, <2>4 DEF Step
<1>6. ASSUME NEW p \in Procs, NEW t \in tunnels, NEW r \in Stored \cup {NoId}, Arrive(p, t, r)
      PROVE  SameReplays
  BY <1>1, <1>6 DEF Arrive, Idle, SameReplays
<1>7. CASE \/ \E s \in Subdomains, a \in Accounts : Reserve(s, a)
           \/ \E t \in tunnels : DeleteTunnel(t)
           \/ Midnight \/ (\E i \in Stored : GrowOld(i)) \/ UNCHANGED vars
  BY <1>4, <1>7 DEF Reserve, DeleteTunnel, Midnight, GrowOld, vars
<1>8. CASE Restart
  BY <1>8 DEF Restart, Idle, SameReplays
<1> QED BY <1>5, <1>6, <1>7, <1>8 DEF Next

(* If the original's tunnel is found no more, it is deleted.               *)
LEMMA LoadedStep ==
  ASSUME RowsInv, ProcInv, TunnelsInv, LoadedInv, NoneRevived, [Next]_vars,
         Thinned \/ \E p \in Procs, id \in FreshIds : Inserted(p, id)
  PROVE  LoadedInv'
<1>1. ASSUME NEW p \in Procs, proc[p].of \in Stored',
             rows'[proc[p].of].tunnel \in tunnels'
      PROVE  /\ proc[p].of \in Stored /\ rows[proc[p].of].tunnel \in tunnels
             /\ rows'[proc[p].of].tunnel = rows[proc[p].of].tunnel
  <2>1. CASE Thinned
    BY <1>1, <2>1 DEF Thinned, NoneRevived
  <2>2. ASSUME NEW q \in Procs, NEW id \in FreshIds, Inserted(q, id)
        PROVE  /\ proc[p].of \in Stored /\ rows[proc[p].of].tunnel \in tunnels
               /\ rows'[proc[p].of].tunnel = rows[proc[p].of].tunnel
    <3>1. proc[p].of # id
      BY Fresh
    <3>2. proc[p].of \in Stored /\ rows'[proc[p].of].tunnel = rows[proc[p].of].tunnel
      BY <1>1, <2>2, <3>1 DEF Inserted
    <3> QED BY <1>1, <3>2 DEF NoneRevived
  <2> QED BY <2>1, <2>2
<1>2. ASSUME SameReplays PROVE LoadedInv'
  BY <1>1, <1>2 DEF SameReplays, LoadedInv
<1>3. ASSUME NEW p \in Procs, NEW r \in Stored, ReplayLoad(p, r) PROVE LoadedInv'
  <2>1. /\ proc'[p].of = r /\ proc'[p].tunnel = rows[r].tunnel
        /\ \A q \in Procs \ {p} : proc'[q] = proc[q]
        /\ UNCHANGED <<rows, tunnels>>
    BY <1>3 DEF ReplayLoad, ProcInv, Idle
  <2> QED BY <2>1 DEF LoadedInv, Stored
<1>4. ASSUME NEW p \in Procs, ReplayServe(p) PROVE LoadedInv'
  <2>1. PICK t \in tunnels : /\ t.subdomain = proc[p].tunnel.subdomain
                             /\ proc' = [proc EXCEPT ![p].pc = "found", ![p].tunnel = t]
    BY <1>4 DEF ReplayServe
  <2>2. proc[p] \in Locals /\ UNCHANGED <<rows, tunnels>>
    BY <1>4 DEF ProcInv, ReplayServe
  <2>3. /\ proc'[p].of = proc[p].of /\ proc'[p].tunnel = t /\ proc'[p].api = proc[p].api
        /\ \A q \in Procs \ {p} : proc'[q] = proc[q]
    BY <2>1, <2>2 DEF ProcInv, Locals
  <2>4. ASSUME proc[p].api, proc[p].of \in Stored, rows[proc[p].of].tunnel \in tunnels
        PROVE  t = rows[proc[p].of].tunnel
    BY <2>1, <2>4 DEF LoadedInv, TunnelsInv
  <2> QED BY <2>2, <2>3, <2>4 DEF LoadedInv, Stored
<1> QED BY <1>2, <1>3, <1>4, ReplaysKept

-----------------------------------------------------------------------------
(* The inductive invariant.                                                *)

OthersTyped == archives \subseteq Ids /\ today \in [Accounts -> Nat]

HistoryInv ==
  /\ RowsInv /\ ProcInv /\ FateInv /\ ReplayInv /\ OthersTyped
  /\ TunnelsInv /\ LoadedInv
  /\ ArchivedOrDue /\ SettledWithinLimit /\ ReplayOvershootBounded

LEMMA InitHistoryInv ==
  ASSUME Init
  PROVE  HistoryInv
<1>1. /\ Stored = {} /\ archives = {} /\ today \in [Accounts -> Nat] /\ tunnels = {}
      /\ \A p \in Procs : proc[p] = Idle
  BY DEF Init, Stored, NoneToday
<1>5. TunnelsInv /\ LoadedInv
  BY <1>1 DEF TunnelsInv, LoadedInv
<1>2. RowsInv /\ ReplayInv /\ ArchivedOrDue /\ ReplayOvershootBounded /\ OthersTyped
  BY <1>1 DEF RowsInv, Ordered, OldFirst, ReplayInv, ArchivedOrDue, ReplayOvershootBounded, OthersTyped
<1>3. ProcInv /\ FateInv
  <2>1. proc \in [Procs -> Locals]
    BY IdleLocals DEF Init
  <2>2. \A p \in Procs : LocalsOK(proc[p]) /\ proc[p].row = NoId
    BY <1>1, IdleLocals DEF Idle
  <2> QED BY <1>1, <2>1, <2>2 DEF ProcInv, FateInv
<1>4. SettledWithinLimit
  <2>1. Settled = {}
    BY <1>1 DEF Settled
  <2>2. Cardinality(Settled) = 0
    BY <2>1, FS_EmptySet
  <2> QED BY <2>2, HistoryAssumption DEF SettledWithinLimit, Settled
<1> QED BY <1>2, <1>3, <1>4, <1>5 DEF HistoryInv

LEMMA OthersStep ==
  ASSUME RowsInv, ProcInv, OthersTyped, [Next]_vars
  PROVE  OthersTyped'
<1>1. ASSUME archives' \subseteq archives, UNCHANGED today PROVE OthersTyped'
  BY <1>1 DEF OthersTyped
<1>2. ASSUME NEW p \in Procs, CreateRecord(p) PROVE OthersTyped'
  <2>1. proc[p].tunnel.owner \in Accounts
    BY <1>2 DEF CreateRecord, At, ProcInv, LocalsOK, Unrecorded, Tunnel
  <2>2. /\ UNCHANGED archives
        /\ \/ today' = today \/ today' = NoneToday
           \/ today' = [today EXCEPT ![proc[p].tunnel.owner] = @ + 1]
    BY <1>2 DEF CreateRecord
  <2> QED BY <2>1, <2>2 DEF OthersTyped, NoneToday
<1>3. ASSUME NEW p \in Procs, UpsertArchive(p) PROVE OthersTyped'
  <2>1. proc[p].row \in Ids
    BY <1>3 DEF UpsertArchive, At, ProcInv, LocalsOK, Locals, Writing
  <2> QED BY <1>3, <2>1 DEF UpsertArchive, OthersTyped
<1>4. ASSUME NEW p \in Procs, Step(p) PROVE OthersTyped'
  BY <1>1, <1>2, <1>3, <1>4
  DEF Step, ReplayCheck, ReplayServe, ReplayRefused, EnforceQuota, PurgeArchives, PurgeRecords,
      TrimArchives, TrimRecords, CreateFails, ArchiveFails, PruneFails
<1>5. CASE \/ \E s \in Subdomains, a \in Accounts : Reserve(s, a)
           \/ \E p \in Procs, t \in tunnels, r \in Stored \cup {NoId} : Arrive(p, t, r)
           \/ \E p \in Procs, r \in Stored : ReplayLoad(p, r)
           \/ \E i \in Stored : GrowOld(i)
           \/ Restart \/ UNCHANGED vars
  BY <1>1, <1>5 DEF Reserve, Arrive, ReplayLoad, GrowOld, Restart, vars
<1>6. CASE Midnight \/ \E t \in tunnels : DeleteTunnel(t)
  BY <1>6 DEF Midnight, DeleteTunnel, OthersTyped, NoneToday
<1> QED BY <1>4, <1>5, <1>6 DEF Next

(* What follows from the effects alone.                                    *)
LEMMA ThinnedStep ==
  ASSUME HistoryInv, ProcInv', Thinned, NoneRevived, FateChanges, ArchivesKept,
         OwnRows
  PROVE  RowsInv' /\ ReplayInv' /\ FateInv' /\ ArchivedOrDue'
  BY ThinnedKeeps, FateStep, ArchivedStep DEF HistoryInv

LEMMA EffectsStep ==
  ASSUME HistoryInv, OthersTyped', TunnelsInv', LoadedInv', NoneRevived, Effects,
         OwnRows
  PROVE  HistoryInv'
<1>1. RowsInv' /\ ReplayInv' /\ FateInv' /\ ArchivedOrDue' /\ ProcInv'
  BY ThinnedStep DEF Effects, RowsKept
<1>2. Settled' \subseteq Settled
  BY DEF Settled, Effects, RowsKept, Thinned, SettledKept
<1>3. SettledWithinLimit' /\ ReplayOvershootBounded'
  BY <1>2, SettledStep, OvershootStep DEF HistoryInv, Effects, RowsKept
<1> QED BY <1>1, <1>3 DEF HistoryInv

LEMMA OwnRowsKept ==
  ASSUME ProcInv, [Next]_vars, \A p \in Procs : ~ CreateRecord(p)
  PROVE  OwnRows
<1>1. proc \in [Procs -> Locals]
  BY DEF ProcInv
<1>2. ASSUME NEW p \in Procs, End(p) PROVE OwnRows
  BY <1>1, <1>2 DEF End, Idle, OwnRows
<1>3. ASSUME NEW p \in Procs, NEW pc, GoTo(p, pc) PROVE OwnRows
  <2>1. [proc[p] EXCEPT !.pc = pc].row = proc[p].row
    BY <1>1 DEF Locals
  <2> QED BY <1>1, <1>3, <2>1 DEF GoTo, OwnRows
<1>4. ASSUME UNCHANGED proc PROVE OwnRows
  BY <1>4 DEF OwnRows
<1>5. ASSUME NEW p \in Procs, Step(p) PROVE OwnRows
  <2>4. CASE ReplayServe(p)
    <3>1. PICK t \in tunnels : proc' = [proc EXCEPT ![p].pc = "found", ![p].tunnel = t]
      BY <2>4 DEF ReplayServe
    <3>2. [proc[p] EXCEPT !.pc = "found", !.tunnel = t].row = proc[p].row
      BY <1>1 DEF Locals
    <3> QED BY <1>1, <3>1, <3>2 DEF OwnRows
  <2>1. CASE EnforceQuota(p)
    <3>1. PICK q \in QuotaVerdicts(proc[p].tunnel.owner) :
            proc' = [proc EXCEPT ![p].pc = "serving", ![p].quota = q]
      BY <2>1 DEF EnforceQuota
    <3>2. [proc[p] EXCEPT !.pc = "serving", !.quota = q].row = proc[p].row
      BY <1>1 DEF Locals
    <3> QED BY <1>1, <3>1, <3>2 DEF OwnRows
  <2>2. CASE ReplayRefused(p) \/ TrimRecords(p) \/ CreateFails(p) \/ ArchiveFails(p) \/ PruneFails(p)
    BY <1>2, <2>2 DEF ReplayRefused, TrimRecords, CreateFails, ArchiveFails, PruneFails
  <2>3. CASE ReplayCheck(p) \/ UpsertArchive(p) \/ PurgeArchives(p) \/ PurgeRecords(p) \/ TrimArchives(p)
    BY <1>3, <2>3 DEF ReplayCheck, UpsertArchive, PurgeArchives, PurgeRecords, TrimArchives
  <2> QED BY <1>5, <2>1, <2>2, <2>3, <2>4 DEF Step
<1>6. ASSUME NEW p \in Procs, NEW t \in tunnels, NEW r \in Stored \cup {NoId}, Arrive(p, t, r)
      PROVE  OwnRows
  BY <1>1, <1>6 DEF Arrive, Idle, OwnRows
<1>7. ASSUME NEW p \in Procs, NEW r \in Stored, ReplayLoad(p, r) PROVE OwnRows
  BY <1>1, <1>7 DEF ReplayLoad, Idle, OwnRows
<1>8. CASE \/ \E s \in Subdomains, a \in Accounts : Reserve(s, a)
           \/ \E t \in tunnels : DeleteTunnel(t)
           \/ Midnight \/ (\E i \in Stored : GrowOld(i)) \/ UNCHANGED vars
  BY <1>4, <1>8 DEF Reserve, DeleteTunnel, Midnight, GrowOld, vars
<1>9. CASE Restart
  BY <1>9 DEF Restart, Idle, OwnRows
<1> QED BY <1>5, <1>6, <1>7, <1>8, <1>9 DEF Next

LEMMA NextHistoryInv ==
  ASSUME HistoryInv, [Next]_vars
  PROVE  HistoryInv'
<1>1. RowsInv /\ ProcInv /\ TunnelsInv /\ OthersTyped' /\ TunnelsInv' /\ NoneRevived
  BY OthersStep, TunnelsStep DEF HistoryInv
<1>4. Thinned => LoadedInv'
  BY <1>1, LoadedStep DEF HistoryInv
<1>2. ASSUME NEW p \in Procs, CreateRecord(p) PROVE HistoryInv'
  <2>1. proc[p].tunnel \in Tunnel /\ At(p, "serving") /\ UNCHANGED <<archives, tunnels>>
    BY <1>2 DEF CreateRecord, At, HistoryInv, ProcInv, LocalsOK, Unrecorded
  <2>2. PICK id \in FreshIds : Inserted(p, id)
    BY <1>1, <1>2, <2>1, CreateInserts
  <2>3. RowsInv' /\ ReplayInv' /\ ProcInv' /\ FateInv'
    BY <2>1, <2>2, InsertedKeeps, InsertedProcs DEF HistoryInv
  <2>5. LoadedInv'
    BY <1>1, <2>2, LoadedStep DEF HistoryInv
  <2>4. ArchivedOrDue' /\ SettledWithinLimit' /\ ReplayOvershootBounded'
    BY <2>1, <2>2, InsertedArchived, InsertedSettled, InsertedOvershoot DEF HistoryInv
  <2> QED BY <1>1, <2>3, <2>4, <2>5 DEF HistoryInv
<1>3. CASE \A p \in Procs : ~ CreateRecord(p)
  <2>1. OwnRows
    BY <1>1, <1>3, OwnRowsKept
  <2>2. ASSUME Effects PROVE HistoryInv'
    <3>1. LoadedInv'
      BY <1>4, <2>2 DEF Effects, RowsKept
    <3> QED BY <1>1, <2>1, <2>2, <3>1, EffectsStep
  <2>3. ASSUME NEW p \in Procs, ReplayCheck(p) PROVE HistoryInv'
    <3>1. ProcInv' /\ RowsKept /\ ArchivesKept
      BY <1>1, <2>3, ReplayCheckEffects
    <3>2. RowsInv' /\ ReplayInv' /\ FateInv' /\ ArchivedOrDue'
      BY <1>1, <2>1, <3>1, ThinnedStep DEF RowsKept
    <3>3. Settled' \subseteq Settled
      BY <3>1 DEF Settled, RowsKept, Thinned, SettledKept
    <3>4. SettledWithinLimit' /\ ReplayOvershootBounded'
      BY <2>3, <3>3, SettledStep, ReplayCheckOvershoot DEF HistoryInv
    <3> QED BY <1>1, <1>4, <3>1, <3>2, <3>4 DEF HistoryInv, RowsKept
  <2>4. ASSUME NEW p \in Procs, TrimRecords(p) PROVE HistoryInv'
    <3>1. /\ ProcInv' /\ Thinned /\ FateChanges /\ ArchivesKept /\ NoMoreReplaying
          /\ Stored' = Stored \ Excess
      BY <1>1, <2>4, TrimRecordsEffects
    <3>2. RowsInv' /\ ReplayInv' /\ FateInv' /\ ArchivedOrDue'
      BY <1>1, <2>1, <3>1, ThinnedStep
    <3>3. SettledWithinLimit' /\ ReplayOvershootBounded'
      BY <1>1, <3>1, TrimSettles, OvershootStep DEF HistoryInv
    <3> QED BY <1>1, <1>4, <3>1, <3>2, <3>3 DEF HistoryInv
  <2>5. ASSUME NEW p \in Procs, Step(p) PROVE HistoryInv'
    BY <1>1, <1>3, <2>2, <2>3, <2>4, <2>5, ReplayServeEffects, EnforceQuotaEffects,
       NotRecordedEffects,
       UpsertArchiveEffects, PurgeArchivesEffects, PurgeRecordsEffects, TrimArchivesEffects,
       ArchiveFailsEffects, PruneFailsEffects DEF Step
  <2>9. CASE \/ \E s \in Subdomains, a \in Accounts : Reserve(s, a)
             \/ \E t \in tunnels : DeleteTunnel(t)
    BY <1>1, <2>2, <2>9, TunnelEffects DEF Reserve, DeleteTunnel
  <2>6. CASE \/ \E p \in Procs, t \in tunnels, r \in Stored \cup {NoId} : Arrive(p, t, r)
             \/ \E p \in Procs, r \in Stored : ReplayLoad(p, r)
    BY <1>1, <2>2, <2>6, ArriveEffects, ReplayLoadEffects
  <2>7. CASE Midnight \/ (\E i \in Stored : GrowOld(i)) \/ Restart
    BY <1>1, <2>2, <2>7, TimeEffects, RestartEffects
  <2>8. CASE UNCHANGED vars
    BY <1>1, <2>2, <2>8, TunnelEffects DEF vars
  <2> QED BY <2>5, <2>6, <2>7, <2>8, <2>9 DEF Next
<1> QED BY <1>2, <1>3

THEOREM HistoryInvariant == Spec => []HistoryInv
<1> QED BY InitHistoryInv, NextHistoryInv, PTL DEF Spec

-----------------------------------------------------------------------------
(* The daily quota of an instance with one account.                        *)

DayAssumption == DailyLimit \in 1 .. StoredLimit /\ Cardinality(Accounts) = 1

(* The rows of today that are newer than all rows of deleted tunnels.      *)
TodayRows ==
  {i \in Stored : /\ rows[i].age = "today"
                  /\ \A j \in rows[i].newer \cup {i} : rows[j].tunnel \in tunnels}

(* What is newer than a row of today is of today ...                       *)
NewestToday ==
  \A i, j \in Stored : j \in rows[i].newer /\ rows[i].age = "today" => rows[j].age = "today"

(* ... and the history has the admitted requests since the last deletion,  *)
(* or else so many rows since then that no request is admitted.            *)
DayInv ==
  /\ NewestToday
  /\ \A a \in Accounts : \/ today[a] <= Cardinality(TodayRows)
                         \/ Cardinality(TodayRows) >= DailyLimit
  /\ \A a \in Accounts :
       today[a] + Cardinality(Admitted(a)) <= DailyLimit + Cardinality(Procs) - 1

LEMMA DayCounts ==
  ASSUME HistoryInv, DayAssumption
  PROVE  /\ Cardinality(TodayRows) \in Nat
         /\ Cardinality(Procs) \in Nat /\ DailyLimit \in Nat \ {0} /\ DailyLimit <= StoredLimit
         /\ StoredLimit \in Nat
         /\ \A a \in Accounts : /\ today[a] \in Nat
                                /\ Cardinality(Admitted(a)) \in Nat
                                /\ Cardinality(Admitted(a)) <= Cardinality(Procs)
<1>1. TodayRows \in SUBSET Ids
  BY DEF TodayRows, HistoryInv, RowsInv
<1>2. \A a : Admitted(a) \in SUBSET Procs
  BY DEF Admitted
<1>3. Cardinality(Procs) \in Nat
  BY FS_CardinalityType, HistoryAssumption
<1>4. \A a \in Accounts : Cardinality(Admitted(a)) \in Nat /\ Cardinality(Admitted(a)) <= Cardinality(Procs)
  BY <1>2, ReplayingFinite
<1> QED BY <1>1, <1>3, <1>4, FiniteRows, HistoryAssumption DEF HistoryInv, OthersTyped, DayAssumption

(* The quota counts all of these rows, as they are the account's.          *)
LEMMA OneAccount ==
  ASSUME RowsInv, DayAssumption, IsFiniteSet(Accounts), NEW a \in Accounts
  PROVE  /\ Accounts = {a}
         /\ TodayRows \subseteq TodaysRows(a)
<1>1. PICK b : Accounts = {b}
  BY FS_Singleton DEF DayAssumption
<1>2. Accounts = {a}
  BY <1>1
<1>3. \A i \in Stored : rows[i].tunnel.owner = a
  BY <1>2 DEF RowsInv, Row, Tunnel
<1> QED BY <1>2, <1>3 DEF TodaysRows, Joined, TodayRows

(* A trim that takes such a row leaves a full history of them: the         *)
(* excess rows that are newer than it are fewer than its newer rows by the *)
(* limit, as their numbers of newer rows differ.                           *)
LEMMA TrimLeavesFullDay ==
  ASSUME RowsInv, NewestToday, NEW k \in Excess, k \in TodayRows
  PROVE  Cardinality(TodayRows \ Excess) >= StoredLimit
<1> DEFINE N == rows[k].newer
           m == Cardinality(N)
           S == N \cap Excess
           T == StoredLimit .. (m - 1)
           left == TodayRows \ Excess
           rank == [i \in S |-> Cardinality(rows[i].newer)]
<1>1. /\ k \in Stored /\ N \in SUBSET Ids /\ N \subseteq Stored
      /\ m \in Nat /\ m >= StoredLimit /\ IsFiniteSet(N) /\ StoredLimit \in Nat
  BY FiniteRows, HistoryAssumption DEF Excess, RowsInv, Row, Ordered
<1>2. ASSUME NEW i \in S PROVE Cardinality(rows[i].newer) \in T
  <2>1. i \in Stored /\ i \in N /\ Cardinality(rows[i].newer) >= StoredLimit
    BY <1>2 DEF Excess
  <2>2. rows[i].newer \subseteq N /\ i \notin rows[i].newer
    BY <1>1, <2>1 DEF RowsInv, Ordered
  <2>3. rows[i].newer # N
    BY <2>1, <2>2
  <2>4. Cardinality(rows[i].newer) < m
    BY <1>1, <2>2, <2>3, SmallerCardinality
  <2>5. Cardinality(rows[i].newer) \in Nat
    BY <1>1, <2>2, FiniteRows
  <2> QED BY <1>1, <2>1, <2>4, <2>5
<1>3. rank \in Injection(S, T)
  <2>1. rank \in [S -> T]
    BY <1>2
  <2>2. \A i, j \in S : i # j => rank[i] # rank[j]
    BY RanksDiffer DEF Excess
  <2> HIDE DEF rank, S, T
  <2> QED BY <2>1, <2>2 DEF Injection, IsInjective
<1>4. IsFiniteSet(T) /\ Cardinality(T) = m - StoredLimit
  <2> HIDE DEF m, S, N, rank
  <2>1. m - 1 \in Int /\ StoredLimit \in Int /\ m \in Nat /\ m >= StoredLimit
    BY <1>1
  <2>2. IsFiniteSet(T) /\ Cardinality(T) = IF StoredLimit > m - 1 THEN 0 ELSE m - 1 - StoredLimit + 1
    BY <2>1, FS_Interval
  <2> QED BY <2>1, <2>2
<1>5. Cardinality(S) <= m - StoredLimit
  <2> HIDE DEF rank, S, T, m
  <2> QED BY <1>3, <1>4, FS_Injection
<1>6. Cardinality(N \ Excess) = m - Cardinality(S)
  BY <1>1, FS_Difference
<1>7. N \ Excess \subseteq left /\ left \in SUBSET Ids
  <2>1. ASSUME NEW i \in N PROVE i \in TodayRows
    <3>1. i \in Stored /\ rows[i].age = "today"
      BY <1>1, <2>1 DEF NewestToday, TodayRows
    <3>2. rows[i].newer \subseteq N
      BY <1>1, <2>1, <3>1 DEF RowsInv, Ordered
    <3> QED BY <3>1, <3>2 DEF TodayRows
  <2> QED BY <2>1 DEF RowsInv, TodayRows
<1>8. Cardinality(N \ Excess) <= Cardinality(left)
  <2> HIDE DEF left, N
  <2> QED BY <1>7, SmallerCardinality
<1>9. Cardinality(S) \in Nat /\ Cardinality(left) \in Nat
  <2>1. S \in SUBSET Ids
    BY <1>1
  <2> HIDE DEF S, left
  <2> QED BY <1>7, <2>1, FiniteRows
<1> HIDE DEF m, S, left, N, T, rank
<1>10. Cardinality(left) >= StoredLimit
  BY <1>1, <1>5, <1>6, <1>8, <1>9
<1> QED BY <1>10 DEF left

(* Requests past the quota are fewer after a step that admits none.        *)
NoMoreAdmitted == \A a \in Accounts : Admitted(a)' \subseteq Admitted(a)

LEMMA FewerAdmitted ==
  ASSUME NEW a, Admitted(a)' \subseteq Admitted(a)
  PROVE  /\ Cardinality(Admitted(a)') \in Nat /\ Cardinality(Admitted(a)) \in Nat
         /\ Cardinality(Admitted(a)') <= Cardinality(Admitted(a))
<1>1. Admitted(a) \in SUBSET Procs /\ Admitted(a)' \in SUBSET Admitted(a)
  BY DEF Admitted
<1> QED BY <1>1, ReplayingFinite, FS_Subset

LEMMA EndedAdmitted ==
  ASSUME ProcInv, NEW p \in Procs, End(p) \/ \E pc \in Pc \ {"serving"} : GoTo(p, pc)
  PROVE  NoMoreAdmitted
<1>1. \A q \in Procs \ {p} : proc'[q] = proc[q]
  BY DEF ProcInv, End, GoTo
<1>2. proc'[p].pc # "serving"
  <2>1. CASE End(p)
    BY <2>1 DEF ProcInv, End, Idle
  <2>2. ASSUME NEW pc \in Pc \ {"serving"}, GoTo(p, pc) PROVE proc'[p].pc # "serving"
    BY <2>2 DEF ProcInv, Locals, GoTo
  <2> QED BY <2>1, <2>2
<1> QED BY <1>1, <1>2 DEF NoMoreAdmitted, Admitted

(* Steps that leave today's rows as they are.                              *)
DayKept == NewestToday' /\ TodayRows' = TodayRows /\ UNCHANGED today

LEMMA DayKeptStep ==
  ASSUME HistoryInv, DayAssumption, DayInv, DayKept, NoMoreAdmitted
  PROVE  DayInv'
<1>1. ASSUME NEW a \in Accounts
      PROVE  today'[a] + Cardinality(Admitted(a)') <= DailyLimit + Cardinality(Procs) - 1
  <2>1. /\ Cardinality(Admitted(a)') \in Nat /\ Cardinality(Admitted(a)) \in Nat
        /\ Cardinality(Admitted(a)') <= Cardinality(Admitted(a))
    BY FewerAdmitted DEF NoMoreAdmitted
  <2> QED BY <2>1, DayCounts DEF DayInv, DayKept
<1> QED BY <1>1 DEF DayInv, DayKept

LEMMA SameDay ==
  ASSUME RowsInv, NewestToday, UNCHANGED <<rows, tunnels, today>>
  PROVE  DayKept
  BY DEF DayKept, NewestToday, TodayRows, Stored

LEMMA RemarkedDay ==
  ASSUME RowsInv, NewestToday, Thinned, Stored' = Stored, UNCHANGED <<tunnels, today>>,
         \A i \in Stored : rows'[i].age = "today" <=> rows[i].age = "today"
  PROVE  DayKept
<1>1. NewestToday'
  BY DEF NewestToday, Thinned
<1>2. ASSUME NEW i \in Stored PROVE i \in TodayRows' <=> i \in TodayRows
  <2>1. rows'[i].newer = rows[i].newer /\ rows[i].newer \subseteq Stored
    BY DEF Thinned
  <2>2. \A j \in rows[i].newer \cup {i} : rows'[j].tunnel = rows[j].tunnel
    BY <2>1 DEF Thinned
  <2> QED BY <2>1, <2>2 DEF TodayRows
<1>3. TodayRows' = TodayRows
  BY <1>2 DEF TodayRows
<1> QED BY <1>1, <1>3 DEF DayKept

(* A new tunnel has no rows.                                               *)
LEMMA ReservedDay ==
  ASSUME HistoryInv, NewestToday, NEW n \in Subdomains, NEW a \in Accounts, Reserve(n, a)
  PROVE  DayKept /\ NoMoreAdmitted
<1>1. NoneRevived /\ tunnels \subseteq tunnels' /\ UNCHANGED <<rows, proc, today>>
  BY ReserveStep DEF HistoryInv, Reserve
<1>2. ASSUME NEW i \in Stored PROVE i \in TodayRows' <=> i \in TodayRows
  <2>1. rows[i].newer \cup {i} \subseteq Stored /\ Stored' = Stored
    BY <1>1 DEF HistoryInv, RowsInv, Ordered, Stored
  <2>2. \A j \in rows[i].newer \cup {i} : rows[j].tunnel \in tunnels' <=> rows[j].tunnel \in tunnels
    BY <1>1, <2>1 DEF NoneRevived
  <2> QED BY <1>1, <2>1, <2>2 DEF TodayRows
<1>3. NewestToday' /\ TodayRows' = TodayRows
  BY <1>1, <1>2 DEF NewestToday, TodayRows, Stored
<1> QED BY <1>1, <1>3 DEF DayKept, NoMoreAdmitted, Admitted

(* The count starts anew.                                                  *)
LEMMA ResetDay ==
  ASSUME HistoryInv, HistoryInv', DayAssumption, NewestToday', today' = NoneToday
  PROVE  DayInv'
<1>1. TodayRows' \in SUBSET Ids
  BY DEF TodayRows, HistoryInv, RowsInv
<1>2. Cardinality(TodayRows') \in Nat
  BY <1>1, FiniteRows
<1>3. ASSUME NEW a \in Accounts
      PROVE  /\ today'[a] <= Cardinality(TodayRows')
             /\ today'[a] + Cardinality(Admitted(a)') <= DailyLimit + Cardinality(Procs) - 1
  <2>1. today'[a] = 0
    BY DEF NoneToday
  <2>2. Admitted(a)' \in SUBSET Procs
    BY DEF Admitted
  <2>3. Cardinality(Admitted(a)') \in Nat /\ Cardinality(Admitted(a)') <= Cardinality(Procs)
    BY <2>2, ReplayingFinite
  <2> QED BY <1>2, <2>1, <2>3, DayCounts
<1> QED BY <1>3 DEF DayInv

LEMMA PurgedDay ==
  ASSUME RowsInv, NewestToday, NEW p \in Procs, PurgeRecords(p)
  PROVE  DayKept
<1>1. /\ Stored' = Stored \ Old
      /\ \A i \in Stored \ Old : rows'[i] = rows[i]
  BY OldClosed, DeletedRows DEF PurgeRecords, RowsInv, Old, Stored
<1>2. \A i \in Stored : rows[i].age = "today" => i \notin Old
  BY DEF Old
<1>3. UNCHANGED <<tunnels, today>>
  BY DEF PurgeRecords
<1>4. NewestToday'
  BY <1>1 DEF NewestToday
<1>5. ASSUME NEW i \in Stored, rows[i].age = "today" PROVE i \in TodayRows' <=> i \in TodayRows
  <2>1. i \in Stored' /\ rows'[i] = rows[i]
    BY <1>1, <1>2, <1>5
  <2>2. \A j \in rows[i].newer \cup {i} : rows'[j] = rows[j]
    BY <1>1, <1>2, <1>5 DEF NewestToday, RowsInv, Ordered
  <2> QED BY <1>3, <2>1, <2>2 DEF TodayRows
<1>6. TodayRows' = TodayRows
  BY <1>1, <1>5 DEF TodayRows
<1> QED BY <1>3, <1>4, <1>6 DEF DayKept

LEMMA FailedDay ==
  ASSUME RowsInv, NewestToday, NEW p \in Procs, ArchiveFails(p) \/ PruneFails(p)
  PROVE  DayKept
<1>1. UNCHANGED <<tunnels, today>> /\ \E fate \in Fates : rows' = Mark(rows, {proc[p].row}, fate)
  BY DEF ArchiveFails, PruneFails, Fates
<1>2. Thinned /\ Stored' = Stored /\ \A i \in Stored : rows'[i].age = rows[i].age
  BY <1>1, MarkedOnly
<1> QED BY <1>1, <1>2, RemarkedDay

LEMMA GrownDay ==
  ASSUME RowsInv, NewestToday, NEW k \in Stored, GrowOld(k)
  PROVE  DayKept
<1>1. Thinned /\ Stored' = Stored /\ UNCHANGED <<tunnels, today>>
  BY GrowOldThins DEF GrowOld
<1>2. /\ rows' = [rows EXCEPT ![k].age = "old"] /\ rows[k].age = "kept"
      /\ rows[k] \in Row /\ \A i \in Stored \ {k} : rows'[i] = rows[i]
  BY DEF GrowOld, RowsInv, Stored
<1>3. rows'[k].age = "old"
  BY <1>2 DEF Row, Stored
<1> QED BY <1>1, <1>2, <1>3, RemarkedDay

LEMMA RestartedDay ==
  ASSUME RowsInv, ProcInv, NewestToday, Restart
  PROVE  DayKept /\ NoMoreAdmitted
<1> DEFINE T == RowsAt({"created"})
           U == RowsAt(Pruning)
           bare == Mark(rows, T, "bare")
<1>1. rows' = Mark(bare, U, "untrimmed") /\ UNCHANGED <<tunnels, today>>
  BY DEF Restart
<1>2. Thinned
  BY RestartEffects DEF Effects, RowsKept
<1> HIDE DEF T, U
<1>3. DOMAIN bare = Stored /\ \A i \in Stored : bare[i] \in Row /\ bare[i].age = rows[i].age
  BY MarkedRows DEF RowsInv, Fates, Stored
<1> HIDE DEF bare
<1>4. DOMAIN rows' = Stored /\ \A i \in Stored : rows'[i].age = rows[i].age
  BY <1>1, <1>3, MarkedRows DEF Fates
<1>5. Stored' = Stored
  BY <1>4 DEF Stored
<1>6. DayKept
  BY <1>1, <1>2, <1>4, <1>5, RemarkedDay
<1>7. NoMoreAdmitted
  BY DEF NoMoreAdmitted, Admitted, Restart, Idle
<1> QED BY <1>6, <1>7

(* A request that may join those past the quota has counted today's rows.  *)
LEMMA VerdictStep ==
  ASSUME HistoryInv, DayAssumption, IsFiniteSet(Accounts), DayInv,
         UNCHANGED <<rows, tunnels, today>>, NEW p \in Procs, NEW a \in Accounts,
         NEW q \in QuotaVerdicts(a),
         \A s \in Procs \ {p} : proc'[s] = proc[s],
         proc'[p].quota = q, q = "admitted" => proc'[p].tunnel.owner = a
  PROVE  DayInv'
<1>1. DayKept
  BY SameDay DEF HistoryInv, DayInv
<1>2. Accounts = {a} /\ TodayRows \subseteq TodaysRows(a)
  BY OneAccount DEF HistoryInv
<1>3. CASE q # "admitted"
  <2>1. NoMoreAdmitted
    BY <1>3 DEF NoMoreAdmitted, Admitted
  <2> QED BY <1>1, <2>1, DayKeptStep
<1>4. CASE q = "admitted"
  <2>1. Cardinality(TodayRows) < DailyLimit
    <3>1. Cardinality(TodaysRows(a)) < DailyLimit
      BY <1>4, DayCounts DEF QuotaVerdicts
    <3>2. TodaysRows(a) \in SUBSET Ids
      BY DEF TodaysRows, Joined, HistoryInv, RowsInv
    <3>3. Cardinality(TodaysRows(a)) \in Nat /\ Cardinality(TodayRows) <= Cardinality(TodaysRows(a))
      BY <1>2, <3>2, FiniteRows, SmallerCardinality
    <3> QED BY <3>1, <3>3, DayCounts
  <2>2. Admitted(a)' \in SUBSET Procs
    BY DEF Admitted
  <2>3. Cardinality(Admitted(a)') \in Nat /\ Cardinality(Admitted(a)') <= Cardinality(Procs)
    BY <2>2, ReplayingFinite
  <2>4. today[a] <= Cardinality(TodayRows)
    BY <2>1, DayCounts DEF DayInv
  <2>5. today'[a] + Cardinality(Admitted(a)') <= DailyLimit + Cardinality(Procs) - 1
    BY <2>1, <2>3, <2>4, DayCounts
  <2>6. \A b \in Accounts : b = a
    BY <1>2
  <2> QED BY <1>1, <2>5, <2>6 DEF DayInv, DayKept
<1> QED BY <1>3, <1>4

(* A request that is recorded was past the quota, and its row is of today. *)
LEMMA CreatedDay ==
  ASSUME HistoryInv, HistoryInv', DayAssumption, DayInv, NEW p \in Procs, CreateRecord(p)
  PROVE  DayInv'
<1> DEFINE t == proc[p].tunnel
<1>1. /\ t \in Tunnel /\ proc[p].pc = "serving" /\ UNCHANGED tunnels
      /\ today' = IF t \notin tunnels THEN NoneToday
                  ELSE IF proc[p].quota = "admitted" THEN [today EXCEPT ![t.owner] = @ + 1]
                  ELSE today
  BY DEF CreateRecord, At, HistoryInv, ProcInv, LocalsOK, Unrecorded
<1>0. t.owner \in Accounts
  BY <1>1 DEF Tunnel
<1> HIDE DEF t
<1>2. PICK id \in FreshIds : Inserted(p, id)
  BY <1>1, CreateInserts DEF HistoryInv, t
<1>3. id \notin Stored
  BY Fresh DEF HistoryInv
<1>5. NewestToday'
  BY <1>2, <1>3 DEF Inserted, DayInv, NewestToday, HistoryInv, RowsInv, Ordered
<1> SUFFICES ASSUME t \in tunnels PROVE DayInv'
  BY <1>1, <1>5, ResetDay
<1>4. TodayRows' = TodayRows \cup {id}
  <2>1. id \in TodayRows'
    BY <1>1, <1>2 DEF Inserted, TodayRows, t
  <2>2. ASSUME NEW i \in Stored PROVE i \in TodayRows' <=> i \in TodayRows
    <3>1. rows[i].newer \subseteq Stored
      BY DEF HistoryInv, RowsInv, Ordered
    <3>2. /\ rows'[i].newer = rows[i].newer \cup {id} /\ rows'[id].tunnel \in tunnels
          /\ rows'[i].age = rows[i].age
          /\ \A j \in rows[i].newer \cup {i} : rows'[j].tunnel = rows[j].tunnel
      BY <1>2, <3>1 DEF Inserted, t
    <3> QED BY <1>1, <1>2, <3>2 DEF TodayRows, Inserted
  <2>3. Stored' = Stored \cup {id}
    BY <1>2 DEF Inserted
  <2> QED BY <2>1, <2>2, <2>3 DEF TodayRows
<1>6. Cardinality(TodayRows') = Cardinality(TodayRows) + 1
  <2>1. TodayRows \in SUBSET Ids /\ id \notin TodayRows
    BY <1>3 DEF TodayRows, HistoryInv, RowsInv
  <2>2. IsFiniteSet(TodayRows)
    BY <2>1, FiniteRows
  <2> QED BY <1>4, <2>1, <2>2, FS_AddElement
<1>7. \A s \in Procs \ {p} : proc'[s] = proc[s]
  BY <1>2 DEF Inserted, HistoryInv, ProcInv
<1>8. proc'[p].pc = "created"
  BY <1>2 DEF Inserted, HistoryInv, ProcInv, Idle
<1>9. ASSUME NEW a \in Accounts
      PROVE  /\ today'[a] \in Nat
             /\ today'[a] <= today[a] + 1
             /\ today'[a] + Cardinality(Admitted(a)') <= today[a] + Cardinality(Admitted(a))
  <2>1. Admitted(a)' = Admitted(a) \ {p}
    BY <1>7, <1>8 DEF Admitted
  <2>2. Admitted(a) \in SUBSET Procs
    BY DEF Admitted
  <2>3. IsFiniteSet(Admitted(a)) /\ Cardinality(Admitted(a)) \in Nat
    BY <2>2, ReplayingFinite
  <2>4. Cardinality(Admitted(a)') = Cardinality(Admitted(a)) - (IF p \in Admitted(a) THEN 1 ELSE 0)
    <3>1. Cardinality(Admitted(a) \ {p}) =
            IF p \in Admitted(a) THEN Cardinality(Admitted(a)) - 1 ELSE Cardinality(Admitted(a))
      BY <2>3, FS_RemoveElement
    <3> QED BY <2>1, <2>3, <3>1
  <2>5. today[a] \in Nat /\ today \in [Accounts -> Nat]
    BY DEF HistoryInv, OthersTyped
  <2>6. CASE proc[p].quota = "admitted" /\ t.owner = a
    <3>1. p \in Admitted(a)
      BY <1>1, <2>6 DEF Admitted, t
    <3>2. today'[a] = today[a] + 1
      BY <1>1, <2>5, <2>6
    <3> QED BY <2>3, <2>4, <2>5, <3>1, <3>2
  <2>7. CASE ~(proc[p].quota = "admitted" /\ t.owner = a)
    <3>1. today'[a] = today[a]
      BY <1>1, <2>5, <2>7
    <3> QED BY <2>3, <2>4, <2>5, <3>1
  <2> QED BY <2>6, <2>7
<1>10. ASSUME NEW a \in Accounts
       PROVE  /\ \/ today'[a] <= Cardinality(TodayRows')
                 \/ Cardinality(TodayRows') >= DailyLimit
              /\ today'[a] + Cardinality(Admitted(a)') <= DailyLimit + Cardinality(Procs) - 1
  <2>1. Admitted(a)' \in SUBSET Procs
    BY DEF Admitted
  <2>2. Cardinality(Admitted(a)') \in Nat
    BY <2>1, ReplayingFinite
  <2>3. /\ today[a] <= Cardinality(TodayRows) \/ Cardinality(TodayRows) >= DailyLimit
        /\ today[a] + Cardinality(Admitted(a)) <= DailyLimit + Cardinality(Procs) - 1
    BY DEF DayInv
  <2> QED BY <1>6, <1>9, <2>2, <2>3, DayCounts
<1> QED BY <1>5, <1>10 DEF DayInv

(* The history is trimmed.                                                 *)
LEMMA TrimmedDay ==
  ASSUME HistoryInv, DayAssumption, DayInv, NEW p \in Procs, TrimRecords(p)
  PROVE  DayInv'
<1>1. /\ Thinned /\ Stored' = Stored \ Excess
      /\ \A i \in Stored' : rows'[i].age = rows[i].age
      /\ \A i \in Stored' : rows'[i].newer = rows[i].newer /\ rows[i].newer \subseteq Stored'
      /\ \A i \in Stored' : rows'[i].tunnel = rows[i].tunnel
  <2> DEFINE T == {proc[p].row}
  <2>1. rows' = Mark(Delete(Excess), T, "settled") /\ "settled" \in Fates
    BY DEF TrimRecords, Fates
  <2>2. RowsInv /\ Excess \in SUBSET Stored /\ Closed(Excess)
    BY ExcessClosed DEF Excess, HistoryInv
  <2> HIDE DEF T
  <2>3. /\ Thinned /\ Stored' = Stored \ Excess
        /\ \A i \in Stored' : rows'[i].age = rows[i].age
    BY <2>1, <2>2, PrunedRows
  <2> QED BY <2>3 DEF Thinned
<1>2. UNCHANGED <<tunnels, today>> /\ NoMoreAdmitted
  BY EndedAdmitted DEF TrimRecords, HistoryInv
<1>3. NewestToday'
  BY <1>1 DEF NewestToday, DayInv, Thinned
<1>4. TodayRows' = TodayRows \ Excess
  <2>1. ASSUME NEW i \in Stored' PROVE i \in TodayRows' <=> i \in TodayRows
    <3>1. /\ rows'[i].newer = rows[i].newer /\ rows'[i].age = rows[i].age /\ i \in Stored
          /\ \A j \in rows[i].newer \cup {i} : rows'[j].tunnel = rows[j].tunnel
      BY <1>1
    <3> QED BY <1>2, <3>1 DEF TodayRows
  <2> QED BY <1>1, <2>1 DEF TodayRows
<1>5. CASE \A k \in Excess : k \notin TodayRows
  <2>1. TodayRows' = TodayRows
    BY <1>4, <1>5
  <2> QED BY <1>2, <1>3, <2>1, DayKeptStep DEF DayKept
<1>6. ASSUME NEW k \in Excess, k \in TodayRows PROVE DayInv'
  <2>1. Cardinality(TodayRows') >= StoredLimit
    BY <1>4, <1>6, TrimLeavesFullDay DEF HistoryInv, DayInv
  <2>2. TodayRows' \in SUBSET Ids
    BY <1>4 DEF HistoryInv, RowsInv, TodayRows
  <2>3. Cardinality(TodayRows') \in Nat
    BY <2>2, FiniteRows
  <2>4. Cardinality(TodayRows') >= DailyLimit
    BY <2>1, <2>3, DayCounts
  <2>5. ASSUME NEW a \in Accounts
        PROVE  today'[a] + Cardinality(Admitted(a)') <= DailyLimit + Cardinality(Procs) - 1
    <3>1. /\ Cardinality(Admitted(a)') \in Nat /\ Cardinality(Admitted(a)) \in Nat
          /\ Cardinality(Admitted(a)') <= Cardinality(Admitted(a))
      BY <1>2, FewerAdmitted DEF NoMoreAdmitted
    <3> QED BY <1>2, <3>1, DayCounts DEF DayInv
  <2> QED BY <1>3, <2>4, <2>5 DEF DayInv
<1> QED BY <1>5, <1>6

(* The day ends, or a tunnel is deleted.                                   *)
LEMMA MidnightDay ==
  ASSUME HistoryInv, HistoryInv', DayAssumption, Midnight
  PROVE  DayInv'
<1>1. Stored' = Stored /\ today' = NoneToday
  BY DEF Midnight, Stored
<1>2. \A i \in Stored : rows'[i].age # "today"
  <2>1. \A i \in Stored : rows[i] \in Row
    BY DEF HistoryInv, RowsInv
  <2> QED BY <2>1 DEF Midnight, Row
<1> QED BY <1>1, <1>2, ResetDay DEF NewestToday

LEMMA DeletedDay ==
  ASSUME HistoryInv, HistoryInv', DayAssumption, DayInv, NEW t \in tunnels, DeleteTunnel(t)
  PROVE  DayInv'
<1>1. NewestToday' /\ today' = NoneToday
  BY DEF DeleteTunnel, DayInv, NewestToday, Stored
<1> QED BY <1>1, ResetDay

LEMMA InitDay ==
  ASSUME Init, DayAssumption
  PROVE  DayInv
<1>1. HistoryInv
  BY InitHistoryInv
<1>2. Stored = {} /\ \A a \in Accounts : today[a] = 0 /\ Admitted(a) = {}
  BY DEF Init, Stored, Admitted, Idle, NoneToday
<1>3. TodayRows = {} /\ NewestToday
  BY <1>2 DEF TodayRows, NewestToday
<1> QED BY <1>1, <1>2, <1>3, FS_EmptySet, DayCounts DEF DayInv

LEMMA NextDay ==
  ASSUME HistoryInv, HistoryInv', DayAssumption, IsFiniteSet(Accounts), DayInv, [Next]_vars
  PROVE  DayInv'
<1>1. RowsInv /\ ProcInv /\ NewestToday
  BY DEF HistoryInv, DayInv
<1>2. ASSUME NEW p \in Procs, Step(p) PROVE DayInv'
  <2>1. CASE EnforceQuota(p)
    <3>1. PICK q \in QuotaVerdicts(proc[p].tunnel.owner) :
            proc' = [proc EXCEPT ![p].pc = "serving", ![p].quota = q]
      BY <2>1 DEF EnforceQuota
    <3>2. proc[p] \in Locals /\ proc[p].tunnel.owner \in Accounts
      BY <1>1, <2>1 DEF EnforceQuota, At, ProcInv, LocalsOK, Unrecorded, Tunnel
    <3>3. /\ \A s \in Procs \ {p} : proc'[s] = proc[s]
          /\ proc'[p].quota = q /\ proc'[p].tunnel = proc[p].tunnel
      BY <1>1, <3>1, <3>2 DEF ProcInv, Locals
    <3>4. UNCHANGED <<rows, tunnels, today>>
      BY <2>1 DEF EnforceQuota
    <3> QED BY <3>2, <3>3, <3>4, VerdictStep
  <2>7. CASE ReplayServe(p)
    <3>1. PICK t \in tunnels : proc' = [proc EXCEPT ![p].pc = "found", ![p].tunnel = t]
      BY <2>7 DEF ReplayServe
    <3>2. proc'[p].pc # "serving" /\ \A s \in Procs \ {p} : proc'[s] = proc[s]
      BY <1>1, <3>1 DEF ProcInv, Locals
    <3>3. NoMoreAdmitted
      BY <3>2 DEF NoMoreAdmitted, Admitted
    <3>4. DayKept
      BY <1>1, <2>7, SameDay DEF ReplayServe
    <3> QED BY <3>3, <3>4, DayKeptStep
  <2>2. CASE CreateRecord(p)
    BY <2>2, CreatedDay
  <2>3. CASE TrimRecords(p)
    BY <2>3, TrimmedDay
  <2>4. CASE \/ ReplayCheck(p) \/ ReplayRefused(p) \/ UpsertArchive(p) \/ PurgeArchives(p)
             \/ TrimArchives(p) \/ CreateFails(p)
    <3>1. DayKept
      BY <1>1, <2>4, SameDay
      DEF ReplayCheck, ReplayRefused, UpsertArchive, PurgeArchives, TrimArchives, CreateFails
    <3>2. End(p) \/ \E pc \in Pc \ {"serving"} : GoTo(p, pc)
      BY <2>4
      DEF ReplayCheck, ReplayRefused, UpsertArchive, PurgeArchives, TrimArchives, CreateFails, Pc
    <3> QED BY <1>1, <3>1, <3>2, EndedAdmitted, DayKeptStep
  <2>5. CASE PurgeRecords(p)
    <3>1. GoTo(p, "purged") /\ "purged" \in Pc \ {"serving"}
      BY <2>5 DEF PurgeRecords, Pc
    <3> QED BY <1>1, <2>5, <3>1, PurgedDay, EndedAdmitted, DayKeptStep
  <2>6. CASE ArchiveFails(p) \/ PruneFails(p)
    <3>1. End(p)
      BY <2>6 DEF ArchiveFails, PruneFails
    <3> QED BY <1>1, <2>6, <3>1, FailedDay, EndedAdmitted, DayKeptStep
  <2> QED BY <1>2, <2>1, <2>2, <2>3, <2>4, <2>5, <2>6, <2>7 DEF Step
<1>3. ASSUME NEW p \in Procs, NEW t \in tunnels, NEW r \in Stored \cup {NoId}, Arrive(p, t, r)
      PROVE  DayInv'
  <2>1. DayKept
    BY <1>1, <1>3, SameDay DEF Arrive
  <2>2. NoMoreAdmitted
    BY <1>1, <1>3 DEF Arrive, NoMoreAdmitted, Admitted, ProcInv, Idle
  <2> QED BY <2>1, <2>2, DayKeptStep
<1>4. ASSUME NEW p \in Procs, NEW r \in Stored, ReplayLoad(p, r) PROVE DayInv'
  <2>1. DayKept
    BY <1>1, <1>4, SameDay DEF ReplayLoad
  <2>2. NoMoreAdmitted
    BY <1>1, <1>4 DEF ReplayLoad, NoMoreAdmitted, Admitted, ProcInv, Idle
  <2> QED BY <2>1, <2>2, DayKeptStep
<1>5. ASSUME NEW i \in Stored, GrowOld(i) PROVE DayInv'
  <2>1. NoMoreAdmitted
    BY <1>5 DEF GrowOld, NoMoreAdmitted, Admitted
  <2> QED BY <1>1, <1>5, <2>1, GrownDay, DayKeptStep
<1>6. CASE Midnight
  BY <1>6, MidnightDay
<1>7. CASE Restart
  BY <1>1, <1>7, RestartedDay, DayKeptStep
<1>8. CASE UNCHANGED vars
  <2>1. DayKept /\ NoMoreAdmitted
    BY <1>1, <1>8, SameDay DEF vars, NoMoreAdmitted, Admitted
  <2> QED BY <2>1, DayKeptStep
<1>9. ASSUME NEW n \in Subdomains, NEW a \in Accounts, Reserve(n, a) PROVE DayInv'
  BY <1>1, <1>9, ReservedDay, DayKeptStep
<1>10. ASSUME NEW t \in tunnels, DeleteTunnel(t) PROVE DayInv'
  BY <1>10, DeletedDay
<1> QED BY <1>2, <1>3, <1>4, <1>5, <1>6, <1>7, <1>8, <1>9, <1>10 DEF Next

-----------------------------------------------------------------------------
(* Results.                                                                *)

(* Type correctness, with the order of the rows and the originals of       *)
(* replays.                                                                *)
THEOREM TypeCorrect == Spec => []TypeOK
<1>1. HistoryInv => TypeOK
  BY DEF HistoryInv, TypeOK, RowsInv, TunnelsInv, Ordered, ProcInv, LocalsOK, Locals, OthersTyped
<1> QED BY <1>1, HistoryInvariant, PTL

(* A request that is not due for deletion, and whose recording did not     *)
(* fail, has its archive, whatever prunes run at the same time.            *)
THEOREM ArchivesStay == Spec => []ArchivedOrDue
<1> QED BY HistoryInvariant, PTL DEF HistoryInv

(* Completed recordings leave no more than storedRequestLimit() of their   *)
(* rows.                                                                   *)
THEOREM HistoryBounded == Spec => []SettledWithinLimit
<1> QED BY HistoryInvariant, PTL DEF HistoryInv

(* Concurrent replays exceed the limit by less than the number of requests *)
(* at a time, and pruning never makes room for more, as long as the        *)
(* original's tunnel exists.                                               *)
THEOREM ReplaysBounded == Spec => []ReplayOvershootBounded
<1> QED BY HistoryInvariant, PTL DEF HistoryInv

(* On an instance with one account, whose history holds a day's requests,  *)
(* the requests that pass the daily quota between two deletions of tunnels *)
(* exceed it by less than the number of requests at a time, whatever       *)
(* trims, midnights and reservations do to the rows the quota counts       *)
(* through its join (enforceRequestQuota, pruneRequestRecords).            *)
THEOREM DailyBounded ==
  ASSUME IsFiniteSet(Accounts)
  PROVE  Spec => []DailyOvershootBounded
<1>1. Init => (DayAssumption => DayInv)
  BY InitDay
<1>2. HistoryInv /\ (DayAssumption => DayInv) /\ [Next]_vars => (DayAssumption => DayInv)'
  <2>1. DayAssumption' <=> DayAssumption
    BY DEF DayAssumption
  <2> QED BY <2>1, NextDay, NextHistoryInv
<1>3. (DayAssumption => DayInv) => DailyOvershootBounded
  BY DEF DayAssumption, DayInv, DailyOvershootBounded
<1> QED BY <1>1, <1>2, <1>3, HistoryInvariant, PTL DEF Spec
=============================================================================

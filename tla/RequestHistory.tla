--------------------------- MODULE RequestHistory ---------------------------
(***************************************************************************)
(* The request history of the control plane: what ServeProxy records, how  *)
(* much of it is kept, and how it is replayed (internal/controlplane/      *)
(* service.go, plan_limits.go, request_archive.go, request_replay*.go).    *)
(*                                                                         *)
(* Every proxied request runs in a goroutine of its own (proc).  It reads  *)
(* the tunnel's row, counts the day's rows of the tunnel's owner against   *)
(* the plan, is forwarded or refused, and either way writes a row in       *)
(* request_records, then the row's archive, and then prunes both tables,   *)
(* each with a statement of its own.  A replay is an API call that checks  *)
(* its own limits and then makes such a request itself, with the header    *)
(* X-Binboi-Replay-Of.                                                     *)
(*                                                                         *)
(* A row names its tunnel, not an owner: both counts join it with          *)
(* tunnel_records, so the rows of a deleted tunnel count no longer.  A     *)
(* tunnel keeps its id, its subdomain and its owner as long as it exists.  *)
(* Every tunnel here has an owner, as all that an account reserves or      *)
(* connects to have: those of local clients are left out.                  *)
(*                                                                         *)
(* Time shows in three places: which row is newer than which, which rows   *)
(* are of today, and which are older than the retention age.               *)
(***************************************************************************)
EXTENDS Naturals, FiniteSets

CONSTANTS
  Accounts,     \* owners of tunnels
  TunnelIds,    \* primary keys of tunnel_records
  Subdomains,   \* names of tunnels
  NoTunnel,     \* the tunnel of an idle slot
  Procs,        \* slots for simultaneous requests
  Ids,          \* primary keys of request_records
  NoId,         \* "no request"
  DailyLimit,   \* MaxRequestsPerDay, 0 = no limit
  StoredLimit,  \* storedRequestLimit()
  ReplayLimit,  \* requestReplayLimit()
  Retention     \* whether BINBOI_REQUEST_RETENTION_MAX_AGE is set

ASSUME HistoryAssumption ==
  /\ NoTunnel \notin [id : TunnelIds, subdomain : Subdomains, owner : Accounts]
  /\ NoId \notin Ids
  /\ DailyLimit \in Nat
  /\ StoredLimit \in Nat \ {0}
  /\ ReplayLimit \in Nat \ {0}
  /\ Retention \in BOOLEAN
  /\ IsFiniteSet(Procs)
  /\ IsFiniteSet(Ids)

VARIABLES
  tunnels,   \* tunnel_records
  rows,      \* request_records, by id
  archives,  \* request_archive_records: the ids that have one
  proc,      \* the requests under way
  today      \* history: how many admitted requests were recorded today, since
             \* a tunnel was deleted or a deleted one's request recorded

vars == <<tunnels, rows, archives, proc, today>>

Tunnel == [id : TunnelIds, subdomain : Subdomains, owner : Accounts]

Stored == DOMAIN rows

(* Retention ages are longer than a day.  newer: the rows created later.   *)
(* Two fields are history: replayed, how many replays of the request were  *)
(* recorded, and fate, how far its own recording got: it ended before the  *)
(* archive was written ("bare"), before the history was trimmed            *)
(* ("untrimmed"), or after that ("settled").                               *)
Ages == {"today", "kept", "old"}
Fates == {"writing", "bare", "untrimmed", "settled"}
Row == [tunnel : Tunnel, of : Ids \cup {NoId}, age : Ages, newer : SUBSET Ids,
        replayed : Nat, fate : Fates]

(* "loaded", "checked":  a replay before it enters ServeProxy.             *)
(* "found":              past lookupActiveTunnel, before the quota.        *)
(* "serving":            past the request quota, not recorded yet.         *)
(* "created" .. "trimming": between the statements of the recording.       *)
Pc == {"idle", "loaded", "checked", "found", "serving", "created", "archived",
       "purging", "purged", "trimming"}
Unrecorded == {"loaded", "checked", "found", "serving"}
Pruning == {"archived", "purging", "purged", "trimming"}

(* The verdict of enforceRequestQuota: "none" if the plan has no limit,    *)
(* "unchecked" if a statement failed; only a "refused" request is answered *)
(* without being forwarded.                                                *)
Quotas == {"none", "admitted", "refused", "unchecked"}

Idle == [pc |-> "idle", tunnel |-> NoTunnel, of |-> NoId, api |-> FALSE,
         quota |-> "none", row |-> NoId]

At(p, pc) == proc[p].pc = pc
GoTo(p, pc) == proc' = [proc EXCEPT ![p].pc = pc]
End(p) == proc' = [proc EXCEPT ![p] = Idle]

(* uuid.NewString, for tunnels and for requests.                           *)
FreshTunnelIds ==
  TunnelIds \ {t.id : t \in tunnels \cup {rows[i].tunnel : i \in Stored}
                             \cup ({proc[p].tunnel : p \in Procs} \ {NoTunnel})}

FreshIds ==
  (Ids \ (Stored \cup archives))
    \ ({rows[i].of : i \in Stored} \cup UNION {{proc[p].of, proc[p].row} : p \in Procs})

Old == {i \in Stored : rows[i].age = "old"}

(* Variant, not part of the model: ORDER BY created_at ASC: the newest     *)
(* rows go first.                                                          *)
ExcessAscending ==
  {i \in Stored : Cardinality({j \in Stored : i \in rows[j].newer}) >= StoredLimit}

(* ORDER BY created_at DESC LIMIT -1 OFFSET StoredLimit.                   *)
Excess == {i \in Stored : Cardinality(rows[i].newer) >= StoredLimit}

Delete(ids) ==
  [i \in Stored \ ids |-> [rows[i] EXCEPT !.newer = @ \ ids]]

(* The new row is newer than all; original is the request it replays.      *)
Insert(id, row, original) ==
  [i \in Stored \cup {id} |->
     IF i = id THEN row
     ELSE [rows[i] EXCEPT !.newer = @ \cup {id},
                          !.replayed = IF i = original THEN @ + 1 ELSE @]]

(* table with the fate of these requests set.                              *)
Mark(table, ids, fate) ==
  [i \in DOMAIN table |-> IF i \in ids THEN [table[i] EXCEPT !.fate = fate] ELSE table[i]]

RowsAt(pcs) == {proc[p].row : p \in {q \in Procs : proc[q].pc \in pcs}}

ReplaysOf(r) == {i \in Stored : rows[i].of = r}

(* JOIN tunnel_records ON tunnel_id, of the tunnels of a.                  *)
Joined(a) == {i \in Stored : rows[i].tunnel \in tunnels /\ rows[i].tunnel.owner = a}

TodaysRows(a) == {i \in Joined(a) : rows[i].age = "today"}

NoneToday == [a \in Accounts |-> 0]

Init ==
  /\ tunnels = {}
  /\ rows = [i \in {} |-> Idle]
  /\ archives = {}
  /\ proc = [p \in Procs |-> Idle]
  /\ today = NoneToday

-----------------------------------------------------------------------------
(* Tunnels.                                                                *)

(* createTunnel, or the first connection to the name: subdomain is unique. *)
Reserve(s, a) ==
  /\ \A t \in tunnels : t.subdomain # s
  /\ \E id \in FreshTunnelIds :
       tunnels' = tunnels \cup {[id |-> id, subdomain |-> s, owner |-> a]}
  /\ UNCHANGED <<rows, archives, proc, today>>

(* deleteTunnel; the rows of its requests stay.                            *)
DeleteTunnel(t) ==
  /\ tunnels' = tunnels \ {t}
  /\ today' = NoneToday
  /\ UNCHANGED <<rows, archives, proc>>

-----------------------------------------------------------------------------
(* Variant, not part of the model: off by one: the limit is tested with >  *)
(* instead of >=.                                                          *)
QuotaVerdictsOneMore(a) ==
  IF DailyLimit = 0 THEN {"none"}
  ELSE {IF Cardinality(TodaysRows(a)) <= DailyLimit THEN "admitted" ELSE "refused", "unchecked"}

(* enforceRequestQuota.                                                    *)
QuotaVerdicts(a) ==
  IF DailyLimit = 0 THEN {"none"}
  ELSE {IF Cardinality(TodaysRows(a)) < DailyLimit THEN "admitted" ELSE "refused", "unchecked"}

(* A public request, and lookupActiveTunnel for it.  Any request may carry *)
(* the replay header, as those do that an agent forwards to another        *)
(* tunnel.                                                                 *)
Arrive(p, t, r) ==
  /\ At(p, "idle")
  /\ proc' = [proc EXCEPT ![p] = [Idle EXCEPT !.pc = "found", !.tunnel = t, !.of = r]]
  /\ UNCHANGED <<tunnels, rows, archives, today>>

(* replayRecordedRequest reads the row, if the join still finds it a       *)
(* tunnel (the caller's); a replay is not replayed again.                  *)
ReplayLoad(p, r) ==
  /\ At(p, "idle")
  /\ rows[r].tunnel \in tunnels
  /\ rows[r].of = NoId
  /\ proc' = [proc EXCEPT ![p] = [Idle EXCEPT !.pc = "loaded", !.tunnel = rows[r].tunnel,
                                              !.of = r, !.api = TRUE]]
  /\ UNCHANGED <<tunnels, rows, archives, today>>

(* It reads the archive and counts the replays, with the same join.        *)
ReplayCheck(p) ==
  /\ At(p, "loaded")
  /\ proc[p].of \in archives
  /\ Cardinality(ReplaysOf(proc[p].of) \cap Joined(proc[p].tunnel.owner)) < ReplayLimit
  /\ GoTo(p, "checked")
  /\ UNCHANGED <<tunnels, rows, archives, today>>

(* Variant, not part of the model: the replay is sent without the header   *)
(* that says what it replays.                                              *)
ReplayServeUnmarked(p) ==
  /\ At(p, "checked")
  /\ \E t \in tunnels :
       /\ t.subdomain = proc[p].tunnel.subdomain
       /\ proc' = [proc EXCEPT ![p].pc = "found", ![p].tunnel = t, ![p].of = NoId]
  /\ UNCHANGED <<tunnels, rows, archives, today>>

(* The replay enters ServeProxy, which looks the tunnel up by its name: by *)
(* now it may be another one, of anybody.                                  *)
ReplayServe(p) ==
  /\ At(p, "checked")
  /\ \E t \in tunnels :
       /\ t.subdomain = proc[p].tunnel.subdomain
       /\ proc' = [proc EXCEPT ![p].pc = "found", ![p].tunnel = t]
  /\ UNCHANGED <<tunnels, rows, archives, today>>

(* It is refused before that: no archive, a truncated body, a limit, no    *)
(* tunnel, the rate limiter, a failing statement.                          *)
ReplayRefused(p) ==
  /\ At(p, "loaded") \/ At(p, "checked")
  /\ End(p)
  /\ UNCHANGED <<tunnels, rows, archives, today>>

(* The quota of the tunnel that was looked up.                             *)
EnforceQuota(p) ==
  /\ At(p, "found")
  /\ \E q \in QuotaVerdicts(proc[p].tunnel.owner) :
       proc' = [proc EXCEPT ![p].pc = "serving", ![p].quota = q]
  /\ UNCHANGED <<tunnels, rows, archives, today>>

-----------------------------------------------------------------------------
(* recordObservedRequest.                                                  *)

CreateRecord(p) ==
  LET x == proc[p]
      row == [tunnel |-> x.tunnel, of |-> x.of, age |-> "today", newer |-> {},
              replayed |-> 0, fate |-> "writing"]
  IN /\ At(p, "serving")
     /\ \E id \in FreshIds :
          /\ rows' = Insert(id, row, IF x.api THEN x.of ELSE NoId)
          /\ proc' = [proc EXCEPT ![p] = [Idle EXCEPT !.pc = "created", !.row = id]]
     /\ today' = IF x.tunnel \notin tunnels THEN NoneToday
                 ELSE IF x.quota = "admitted" THEN [today EXCEPT ![x.tunnel.owner] = @ + 1]
                 ELSE today
     /\ UNCHANGED <<tunnels, archives>>

UpsertArchive(p) ==
  /\ At(p, "created")
  /\ archives' = archives \cup {proc[p].row}
  /\ GoTo(p, "archived")
  /\ UNCHANGED <<tunnels, rows, today>>

(* Variant, not part of the model: the archives' cutoff is a day, the      *)
(* rows' the retention age.                                                *)
PurgeArchivesDaily(p) ==
  /\ At(p, "archived")
  /\ archives' = archives \ {i \in Stored : rows[i].age # "today"}
  /\ GoTo(p, "purging")
  /\ UNCHANGED <<tunnels, rows, today>>

(* pruneRequestRecords: first what is older than the retention age ...     *)
PurgeArchives(p) ==
  /\ At(p, "archived")
  /\ archives' = archives \ Old
  /\ GoTo(p, "purging")
  /\ UNCHANGED <<tunnels, rows, today>>

PurgeRecords(p) ==
  /\ At(p, "purging")
  /\ rows' = Delete(Old)
  /\ GoTo(p, "purged")
  /\ UNCHANGED <<tunnels, archives, today>>

(* ... then what exceeds the limit; the subquery is evaluated twice.       *)
TrimArchives(p) ==
  /\ At(p, "purged")
  /\ archives' = archives \ Excess
  /\ GoTo(p, "trimming")
  /\ UNCHANGED <<tunnels, rows, today>>

(* Variant, not part of the model: one row more than the limit is kept.    *)
TrimRecordsButOne(p) ==
  /\ At(p, "trimming")
  /\ rows' = Mark(Delete({i \in Stored : Cardinality(rows[i].newer) > StoredLimit}),
                  {proc[p].row}, "settled")
  /\ End(p)
  /\ UNCHANGED <<tunnels, archives, today>>

TrimRecords(p) ==
  /\ At(p, "trimming")
  /\ rows' = Mark(Delete(Excess), {proc[p].row}, "settled")
  /\ End(p)
  /\ UNCHANGED <<tunnels, archives, today>>

(* A statement fails: the rest is skipped and ServeProxy discards the      *)
(* error.                                                                  *)
CreateFails(p) ==
  /\ At(p, "serving")
  /\ End(p)
  /\ UNCHANGED <<tunnels, rows, archives, today>>

ArchiveFails(p) ==
  /\ At(p, "created")
  /\ rows' = Mark(rows, {proc[p].row}, "bare")
  /\ End(p)
  /\ UNCHANGED <<tunnels, archives, today>>

PruneFails(p) ==
  /\ proc[p].pc \in Pruning
  /\ rows' = Mark(rows, {proc[p].row}, "untrimmed")
  /\ End(p)
  /\ UNCHANGED <<tunnels, archives, today>>

Step(p) ==
  \/ ReplayCheck(p) \/ ReplayServe(p) \/ ReplayRefused(p) \/ EnforceQuota(p)
  \/ CreateRecord(p) \/ UpsertArchive(p)
  \/ PurgeArchives(p) \/ PurgeRecords(p) \/ TrimArchives(p) \/ TrimRecords(p)
  \/ CreateFails(p) \/ ArchiveFails(p) \/ PruneFails(p)

-----------------------------------------------------------------------------
(* The day ends (UTC).                                                     *)
Midnight ==
  /\ rows' = [i \in Stored |-> IF rows[i].age = "today" THEN [rows[i] EXCEPT !.age = "kept"]
                               ELSE rows[i]]
  /\ today' = NoneToday
  /\ UNCHANGED <<tunnels, archives, proc>>

(* The oldest row that is still kept exceeds the retention age.            *)
GrowOld(i) ==
  /\ Retention
  /\ rows[i].age = "kept"
  /\ \A j \in Stored : i \in rows[j].newer => rows[j].age = "old"
  /\ rows' = [rows EXCEPT ![i].age = "old"]
  /\ UNCHANGED <<tunnels, archives, proc, today>>

(* The process ends and starts again.                                      *)
Restart ==
  /\ proc' = [p \in Procs |-> Idle]
  /\ rows' = Mark(Mark(rows, RowsAt({"created"}), "bare"), RowsAt(Pruning), "untrimmed")
  /\ UNCHANGED <<tunnels, archives, today>>

Next ==
  \/ \E p \in Procs : Step(p)
  \/ \E s \in Subdomains, a \in Accounts : Reserve(s, a)
  \/ \E t \in tunnels : DeleteTunnel(t)
  \/ \E p \in Procs, t \in tunnels, r \in Stored \cup {NoId} : Arrive(p, t, r)
  \/ \E p \in Procs, r \in Stored : ReplayLoad(p, r)
  \/ Midnight
  \/ \E i \in Stored : GrowOld(i)
  \/ Restart

Spec == Init /\ [][Next]_vars

-----------------------------------------------------------------------------
(* Properties.                                                             *)

(* Tunnels differ in id and subdomain, newer rows are stored rows, any two *)
(* rows have an age order, a replay names its request, and a request has a *)
(* tunnel until it is recorded.                                            *)
TypeOK ==
  /\ tunnels \subseteq Tunnel
  /\ \A t, u \in tunnels : t.id = u.id \/ t.subdomain = u.subdomain => t = u
  /\ Stored \subseteq Ids
  /\ \A i \in Stored : rows[i] \in Row
  /\ \A i \in Stored : rows[i].newer \subseteq Stored \ {i}
  /\ \A i, j \in Stored : i # j => (j \in rows[i].newer <=> i \notin rows[j].newer)
  /\ archives \subseteq Ids
  /\ proc \in [Procs -> [pc : Pc, tunnel : Tunnel \cup {NoTunnel}, of : Ids \cup {NoId},
                         api : BOOLEAN, quota : Quotas, row : Ids \cup {NoId}]]
  /\ today \in [Accounts -> Nat]
  /\ \A p \in Procs : /\ proc[p].api => proc[p].of # NoId
                      /\ proc[p].pc \in Unrecorded => proc[p].tunnel \in Tunnel

(* The replays of r between the check of the limit and the write that      *)
(* counts.                                                                 *)
Replaying(r) ==
  {p \in Procs : proc[p].api /\ proc[p].of = r /\ proc[p].pc \in {"checked", "found", "serving"}}

(* "replay count is capped": concurrent replays of one request exceed      *)
(* BINBOI_REQUEST_REPLAY_LIMIT by no more than the requests that can be    *)
(* under way at once less one, and retention never lets the count forget   *)
(* a replay while its original can still be replayed: while its tunnel     *)
(* exists, as for a deleted one the join finds neither.                    *)
ReplayOvershootBounded ==
  \A r \in Stored :
    rows[r].tunnel \in tunnels =>
      rows[r].replayed + Cardinality(Replaying(r)) <= ReplayLimit + Cardinality(Procs) - 1

Admitted(a) ==
  {p \in Procs : proc[p].pc = "serving" /\ proc[p].tunnel.owner = a
                  /\ proc[p].quota = "admitted"}

(* On an instance with one account, whose rows nobody else's push out, the *)
(* requests a day that pass the quota are bounded in the same way, if the  *)
(* history holds as many rows as the plan allows requests.  The bound is   *)
(* one from each deletion of a tunnel to the next, as the rows of a        *)
(* deleted tunnel count no longer (nor does a request of one that is       *)
(* recorded late, and it pushes out a row that counts).  Requests whose    *)
(* check failed are forwarded on top of it.                                *)
DailyOvershootBounded ==
  DailyLimit \in 1 .. StoredLimit /\ Cardinality(Accounts) = 1 =>
    \A a \in Accounts :
      today[a] + Cardinality(Admitted(a)) <= DailyLimit + Cardinality(Procs) - 1

(* The plan limit as the refusal states it, "up to %d requests per day are *)
(* allowed", even between two deletions of tunnels.                        *)
DailyWithinPlan ==
  DailyLimit # 0 => \A a \in Accounts : today[a] <= DailyLimit

(* A request that is not due for deletion can be replayed: pruning, though *)
(* it takes two steps a table apart, only takes the archives of rows that  *)
(* stay due until they are gone.                                           *)
ArchivedOrDue ==
  \A i \in Stored :
    \/ i \in archives \cup Old \cup Excess \cup RowsAt({"created"})
    \/ rows[i].fate = "bare"

(* The history outgrows its limit only by requests whose recording is      *)
(* under way or has failed, whatever the order of concurrent prunes.       *)
SettledWithinLimit ==
  Cardinality({i \in Stored : rows[i].fate = "settled"}) <= StoredLimit
=============================================================================

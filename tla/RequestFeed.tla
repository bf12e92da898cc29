---------------------------- MODULE RequestFeed ----------------------------
(***************************************************************************)
(* The dashboard's live lists: the overview and the requests, webhooks,    *)
(* events, tunnel and tunnels pages of one tab poll the control plane      *)
(* through one SWR cache, keyed by the path they ask for, while traffic    *)
(* adds records and retention drops the oldest.  The webhooks page keeps a *)
(* selected record in a drawer, and explanations of failures, over a list  *)
(* that is replaced under them.                                            *)
(*                                                                         *)
(* A record is a number, newest highest, and a list, always newest first,  *)
(* is the set of its records; what a page tells of a record is its kind,   *)
(* whether it failed and the subdomain it came through.                    *)
(***************************************************************************)
EXTENDS Naturals, FiniteSets

CONSTANTS
    Traffic,        \* what arrives: [kind, failed, subdomain]
    MaxRecords,     \* bound: records that arrive
    Retained,       \* records the control plane keeps
    MaxVisits       \* bound: pages opened

ASSUME FeedAssumption ==
    MaxRecords \in Nat /\ MaxVisits \in Nat /\ Retained \in Nat \ {0}

VARIABLES
    history,        \* the control plane's records
    cache,          \* SWR: [key -> last data, last error]
    fetch,          \* SWR: [key -> the request in the air]
    tab             \* the page shown, and its own state

feedVars == <<history, cache, fetch, tab>>

Ids == 1..MaxRecords
Subdomains == {t.subdomain : t \in Traffic}
Record(n, t) == [id |-> n, kind |-> t.kind, failed |-> t.failed,
                 subdomain |-> t.subdomain]
Records == {Record(n, t) : n \in Ids, t \in Traffic}

Keys == {"requests", "requests?kind=WEBHOOK", "events"}
LogPages == {"tunnel", "tunnels"}
FeedPages == LogPages \cup {"overview", "requests", "webhooks", "events"}

KeyOf(p) == CASE p = "webhooks" -> "requests?kind=WEBHOOK"
              [] p = "events" -> "events"
              [] OTHER -> "requests"

NoData == [known |-> FALSE, list |-> {}]
Data(l) == [known |-> TRUE, list |-> l]

(* The status buttons; the search text is one more predicate of the kind.  *)
Filters == {"ALL", "SUCCESS", "ERROR"}

(* `explained` holds the cards whose explanation is open; it is the state  *)
(* of the card, and goes when the card is unmounted.                       *)
NoTab == [at |-> "elsewhere", filter |-> "ALL", selected |-> 0,
          drawer |-> FALSE, explained |-> {}, expanded |-> {}, visits |-> 0]

IdleFetch == [step |-> "idle", got |-> {}]

FeedInit ==
    /\ history = {}
    /\ cache = [k \in Keys |-> [data |-> NoData, error |-> FALSE]]
    /\ fetch = [k \in Keys |-> IdleFetch]
    /\ tab = NoTab

---------------------------------------------------------------------------
(* The control plane: a record more, and the newest ones kept.  Records    *)
(* are numbered as they arrive, so those are the last Retained numbers.    *)

\* The records of a list with no newer one in it: one, unless it is empty.
Latest(l) == {r \in l : \A q \in l : q.id <= r.id}
Newest == IF history = {} THEN 0 ELSE (CHOOSE r \in Latest(history) : TRUE).id

Kept(n, l) == {r \in l : n < r.id + Retained}

Arrive ==
    /\ Newest < MaxRecords
    /\ \E t \in Traffic :
           history' = Kept(Newest + 1, history \cup {Record(Newest + 1, t)})
    /\ UNCHANGED <<cache, fetch, tab>>

Webhooks(l) == {r \in l : r.kind = "WEBHOOK"}
FeedReply(k) == IF k = "requests?kind=WEBHOOK" THEN Webhooks(history) ELSE history

---------------------------------------------------------------------------
(* What the pages show.                                                    *)

Key == KeyOf(tab.at)
data == cache[Key].data
error == cache[Key].error

(* SWR's isLoading: a request is in the air and there is nothing yet.      *)
isValidating == fetch[Key].step # "idle"
isLoading == isValidating /\ ~data.known
(* useRequests has its own: nothing yet, and no error either.              *)
isLoadingHook == ~error /\ ~data.known

(* Array.isArray(data) ? data : []                                         *)
all == data.list

Passes(f, r) == f = "ALL" \/ r.failed = (f = "ERROR")
Matching(f, l) == {r \in l : Passes(f, r)}
filtered == Matching(tab.filter, all)

(* The figures above a list.  The requests page has none for an empty list, *)
(* the webhooks page none unless the last load was good, and the events    *)
(* page always has them: what is not loaded yet counts as nothing.         *)
Figures == [total |-> Cardinality(all), failed |-> Cardinality(Matching("ERROR", all))]
RequestStats == IF all = {} THEN {} ELSE {Figures}
WebhookStats == IF isLoadingHook \/ error \/ all = {} THEN {} ELSE {Figures}
EventStats == {Figures}
Stats == CASE tab.at = "requests" -> RequestStats
           [] tab.at = "webhooks" -> WebhookStats
           [] tab.at = "events" -> EventStats
           [] OTHER -> {}

(* Banner and body of the requests page and of the webhooks page.          *)
ErrorBanner == tab.at \in FeedPages /\ error

RequestsTable ==
    CASE isLoading -> "skeleton"
      [] ~isLoading /\ all = {} -> "none"
      [] all # {} /\ filtered = {} -> "no match"
      [] OTHER -> "rows"

EmptyState(isFiltered) == IF isFiltered THEN "no match" ELSE "none"

WebhooksFeed ==
    CASE isLoadingHook -> "skeleton"
      [] ~isLoadingHook /\ error -> "nothing"
      [] ~isLoadingHook /\ ~error /\ filtered = {} -> EmptyState(all # {})
      [] OTHER -> "rows"

EventLog ==
    CASE isLoading -> "skeleton"
      [] ~isLoading /\ all = {} -> "none"
      [] OTHER -> "rows"

(* The overview's five latest: an empty list, a failed one and one that is *)
(* still being loaded all read "Waiting for ingress".                      *)
Row(r, l) == Cardinality({q \in l : q.id >= r.id})
RecentTraffic == {r \in all : Row(r, all) <= 5}

Body == CASE tab.at = "requests" -> RequestsTable
          [] tab.at = "webhooks" -> WebhooksFeed
          [] tab.at = "events" -> EventLog
          [] OTHER -> "rows"

(* What the tunnel and tunnels pages show of a subdomain's requests: the   *)
(* latest one, and, when its log is open, those the page has.              *)
Hits(s) == {r \in all : r.subdomain = s}
lastRequestAt(s) == {r.id : r \in Latest(Hits(s))}
RequestLog(s) ==
    IF tab.at \in LogPages /\ s \in tab.expanded THEN Hits(s) ELSE {}

(* A plausible slip: the drawer keeps the row it was opened on.            *)
SelectedByRow ==
    IF \E r \in filtered : Row(r, filtered) = tab.selected
    THEN (CHOOSE r \in filtered : Row(r, filtered) = tab.selected).id ELSE 0

(* The drawer: the selected record, if the filtered list still holds it.   *)
Selected ==
    IF \E r \in filtered : r.id = tab.selected THEN tab.selected ELSE 0

DrawerShown == tab.at = "webhooks" /\ tab.drawer /\ Selected # 0

(* What an explanation is given: every explained record is a failure, and  *)
(* a webhook's comes with its delivery.                                    *)
buildAssistantContextForRequest(r) ==
    [request |-> r.id,
     delivery |-> IF r.kind # "WEBHOOK" THEN "none"
                  ELSE IF r.failed THEN "FAILED" ELSE "SUCCESS"]
Explainer(r) == IF r.failed THEN {buildAssistantContextForRequest(r)} ELSE {}

Drawer ==
    IF ~DrawerShown THEN {}
    ELSE LET r == CHOOSE x \in filtered : x.id = Selected IN
         {[record |-> r, explainer |-> Explainer(r),
           docs |-> IF r.kind = "WEBHOOK" THEN "webhooks" ELSE "requests"]}

(* A card: whether it is the selected one, and its record's failure to     *)
(* explain.  Cards are mounted while the page has a list and no error.     *)
Card(r) == [record |-> r, active |-> r.id = tab.selected, explainer |-> Explainer(r)]
Cards(entry, f) ==
    IF entry.error \/ ~entry.data.known THEN {}
    ELSE {r.id : r \in Matching(f, entry.data.list)}

(* The parts of a page tell the same of the list it has.                   *)
PageAgrees ==
    /\ \A f \in Stats : f.failed <= f.total /\ (Body = "none" => f.total = 0)
    /\ \A s \in Subdomains : RequestLog(s) # {} => lastRequestAt(s) # {}
    /\ \A d \in Drawer : d.record.id = tab.selected /\ Card(d.record).active
    /\ RecentTraffic = {} => all = {}

FeedTypeOK ==
    /\ history \subseteq Records /\ Cardinality(history) <= Retained
    /\ cache \in [Keys -> [data : [known : BOOLEAN, list : SUBSET Records],
                           error : BOOLEAN]]
    /\ fetch \in [Keys -> [step : {"idle", "sent", "answered", "failed"},
                           got : SUBSET Records]]
    /\ \A k \in Keys : Cardinality(cache[k].data.list) <= Retained
    /\ tab \in [at : FeedPages \cup {"elsewhere"}, filter : Filters,
                selected : Ids \cup {0}, drawer : BOOLEAN,
                explained : SUBSET Ids, expanded : SUBSET Subdomains, visits : 0..MaxVisits]
    /\ PageAgrees

---------------------------------------------------------------------------
(* The user.                                                               *)

(* The cards of the tunnel page open the log of a tunnel that is active,   *)
(* the rows of the tunnels page none.                                      *)
OpenFeed(p) ==
    /\ tab.at # p /\ tab.visits < MaxVisits
    /\ \E open \in IF p = "tunnel" THEN SUBSET Subdomains ELSE {{}} :
           tab' = [NoTab EXCEPT !.at = p, !.expanded = open,
                                !.visits = tab.visits + 1]
    /\ fetch' = IF fetch[KeyOf(p)].step = "idle"
                THEN [fetch EXCEPT ![KeyOf(p)].step = "sent"] ELSE fetch
    /\ UNCHANGED <<history, cache>>

LeaveFeed ==
    /\ tab.at # "elsewhere"
    /\ tab' = [NoTab EXCEPT !.visits = tab.visits]
    /\ UNCHANGED <<history, cache, fetch>>

SetFilter(f) ==
    /\ tab.at \in {"requests", "webhooks"} /\ f # tab.filter
    /\ tab' = [tab EXCEPT !.filter = f, !.explained = @ \cap Cards(cache[Key], f)]
    /\ UNCHANGED <<history, cache, fetch>>

Select(r) ==
    /\ tab.at = "webhooks" /\ WebhooksFeed = "rows"
    /\ tab' = [tab EXCEPT !.selected = r.id, !.drawer = TRUE]
    /\ UNCHANGED <<history, cache, fetch>>

CloseDrawer ==
    /\ DrawerShown
    /\ tab' = [tab EXCEPT !.drawer = FALSE]
    /\ UNCHANGED <<history, cache, fetch>>

(* Opening or closing an explanation is a click on its card as well: it    *)
(* selects the record and opens the drawer.                                *)
Explain(r) ==
    /\ tab.at = "webhooks" /\ WebhooksFeed = "rows"
    /\ Card(r).explainer # {}
    /\ tab' = [tab EXCEPT
                  !.selected = r.id, !.drawer = TRUE,
                  !.explained = IF r.id \in @ THEN @ \ {r.id} ELSE @ \cup {r.id}]
    /\ UNCHANGED <<history, cache, fetch>>

toggle(s) ==
    /\ tab.at \in LogPages
    /\ tab' = [tab EXCEPT !.expanded = IF s \in @ THEN @ \ {s} ELSE @ \cup {s}]
    /\ UNCHANGED <<history, cache, fetch>>

(* mutate() asks again, and SWR drops the answer to the earlier request.   *)
RefreshFeed ==
    /\ tab.at \in {"requests", "webhooks", "events"}
    /\ fetch' = [fetch EXCEPT ![Key] = [step |-> "sent", got |-> {}]]
    /\ UNCHANGED <<history, cache, tab>>

---------------------------------------------------------------------------
(* SWR: the poll of the mounted page, and the answers.                     *)

PollFeed ==
    /\ tab.at \in FeedPages /\ fetch[Key].step = "idle"
    /\ fetch' = [fetch EXCEPT ![Key].step = "sent"]
    /\ UNCHANGED <<history, cache, tab>>

FeedAnswer(k) ==
    /\ fetch[k].step = "sent"
    /\ \E ok \in BOOLEAN :
           fetch' = [fetch EXCEPT ![k] =
                        IF ok THEN [step |-> "answered", got |-> FeedReply(k)]
                        ELSE [step |-> "failed", got |-> {}]]
    /\ UNCHANGED <<history, cache, tab>>

(* The cards that the new answer leaves out are unmounted.                 *)
Unmount(k) ==
    tab' = IF tab.at = "webhooks" /\ k = Key
           THEN [tab EXCEPT !.explained = @ \cap Cards(cache'[k], tab.filter)]
           ELSE tab

(* A plausible slip: a failed request is dropped without a trace.          *)
FeedApplyQuietly(k) ==
    /\ fetch[k].step \in {"answered", "failed"}
    /\ cache' = IF fetch[k].step = "answered"
                THEN [cache EXCEPT ![k] =
                         [data |-> Data(fetch[k].got), error |-> FALSE]]
                ELSE cache
    /\ Unmount(k)
    /\ fetch' = [fetch EXCEPT ![k] = IdleFetch]
    /\ UNCHANGED history

(* A failure keeps the data; a success clears the error.                   *)
FeedApply(k) ==
    /\ fetch[k].step \in {"answered", "failed"}
    /\ cache' = [cache EXCEPT ![k] =
                    IF fetch[k].step = "answered"
                    THEN [data |-> Data(fetch[k].got), error |-> FALSE]
                    ELSE [data |-> cache[k].data, error |-> TRUE]]
    /\ Unmount(k)
    /\ fetch' = [fetch EXCEPT ![k] = IdleFetch]
    /\ UNCHANGED history

FeedNext ==
    \/ Arrive
    \/ \E p \in FeedPages : OpenFeed(p)
    \/ LeaveFeed
    \/ \E f \in Filters : SetFilter(f)
    \/ \E r \in filtered : Select(r) \/ Explain(r)
    \/ CloseDrawer
    \/ \E s \in Subdomains : toggle(s)
    \/ RefreshFeed \/ PollFeed
    \/ \E k \in Keys : FeedAnswer(k) \/ FeedApply(k)

FeedSpec == FeedInit /\ [][FeedNext]_feedVars

---------------------------------------------------------------------------
(* While the drawer stays open, whatever arrives, is dropped or is filtered *)
(* away, it goes on showing the record the user opened it on, until the    *)
(* user selects another (webhooks page: `selected` is looked up by id in   *)
(* the list of the moment).                                                *)
DrawerKeepsItsRecord ==
    [][(DrawerShown /\ DrawerShown' /\ tab'.selected = tab.selected)
           => Drawer' = Drawer]_feedVars

(* A page says that there is nothing only when the control plane said so,  *)
(* or with its error banner above: a failed poll is never shown as an      *)
(* empty account (body and banner of the requests, webhooks and events     *)
(* pages over SWR's data, error and isLoading).                            *)
EmptyIsExplained ==
    (tab.at \in FeedPages /\ Body = "none") =>
        \/ data.known
        \/ ErrorBanner

=============================================================================

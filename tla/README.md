# A verification project for Binboi

Binboi publishes local HTTP servers under public subdomains. An agent
(`cmd/binboi-client`, `internal/cli`, `internal/client`) connects to the control
plane (`cmd/binboi-server`, `internal/controlplane`), asks for a subdomain and
keeps one multiplexed connection open; the control plane's proxy forwards the
requests for that subdomain through it. The control plane is one Go process with a
SQLite database and no transactions: every handler is a sequence of single
statements, and all handlers run concurrently. Almost everything that can go wrong
lies in what happens between two statements, and that is what these TLA+ modules
describe. The dashboard in `web/` is a Next.js application in front of it: its pages
keep state of their own, poll, and let calls overlap, so that what a page shows and
what the control plane holds can drift apart; that is the second subject. TLC checks
the modules on small instances; TLAPS proves every safety property these checks
confirm, of the control plane, the web application and the packaging, for every
instance that meets the hypotheses named with the theorems.

Line numbers below are those of `src/internal/controlplane/service.go` unless
another file is named; files of the web application are under `src/web/`. `PROJECT.json` maps every definition to its lines.

## Inventory

| Component | State | Operations | Hard because |
|---|---|---|---|
| Tunnel sessions: `HandleTunnelConnection`, `upsertTunnelOnConnect`, `attachSession`, `detachSession`, `closeAllSessions` (773-856, 2031-2194), `cmd/binboi-server/main.go` | table `tunnel_records`; map `Service.sessions` under `Service.mu`; a yamux session per agent | connect, disconnect, reserve, delete, revoke, shut down, restart | reconnects overlap with the end of the old session; rows and map are updated separately; failed statements are ignored; the map dies with the process |
| Plan limits: `plan_limits.go`, `quota_snapshot.go` | counts over the tables | a check before each operation | the check and the write it guards are two statements; some counts are over rows that may be pruned |
| Custom domains: 2230-2311, `domain_verifier.go`, `tls.go` | table `domain_records` | create, verify, delete, the background verifier | whole rows are read, DNS is asked, and whole rows are written back |
| Request history: `recordObservedRequest`, `pruneRequestRecords` (2962-3045), `request_archive.go` | tables `request_records`, `request_archive_records` | record, archive, prune by age and by number | five statements per request, concurrent prunes, early returns on errors |
| Replay: `request_replay.go`, `request_replay_policy.go` | the same tables | replay a recorded request | limits counted before the replay is recorded; the answer is found by a query |
| Rate limiter: `rate_limit.go` | token buckets under a mutex | `allow`, `cleanup` | arithmetic over elapsed time; idle buckets are forgotten |
| Access tokens: `token_handlers.go`, `app/api/v1/tokens`, `app/dashboard/access-tokens`, the `TokenManager` card | table `access_token`; a list in each page | create, list, revoke | count, then an INSERT that is tried again; each statement may fail |
| Log stream: `audit.go`, `handleLogsSocket` (1055-1097) | backlog and websocket clients under `logMu` | log, subscribe, unsubscribe | a client is registered before its backlog is written, and without the lock; two goroutines may write to one connection |
| Accounts and GitHub link: `auth_provider.go`, `auth_handlers.go`, `auth_github_handler.go` | tables of users and linked accounts | register, sign in, link | first sign-ins that race |
| Web sign-in and session: `app/api/auth`, `proxy.ts`, `session-provider.tsx`, the login and register pages | cookies shared by all tabs; a copy of the session per tab | sign in, GitHub redirect and callback, sign out, expiry | one jar, many tabs, copies read once |
| Web billing console: `app/dashboard/billing`, `app/api/billing` | hooks of the page; the subscription behind the API | load, upgrade, cancel, leave | loads overlap calls; one slot for what is under way; made-up answers |
| Web tunnel pages and overview: `app/dashboard/{,tunnel,tunnels}`, `lib/use-controlplane.ts`, `pricing-plan-provider.tsx`, `BandwidthChart.tsx` | one SWR cache entry, the plan, forms, a chart's samples | poll, create, delete, change page | polls and reloads overtake calls |
| Web request and webhook pages: `app/dashboard/{requests,webhooks,events}` and their components | SWR entries by path, filters, an open drawer | poll, filter, search, open, explain | the list changes under what was opened |
| Web domains, set-up and user pages | lists loaded once, a copied command | load, add, verify, copy | overlapping loads arrive in any order, and others change what they list |
| Web profile page: `app/dashboard/profile` | two forms and a modal | save, change the password, delete the account | a modal that can be closed over a running call |
| Web assistant: `app/dashboard/ai`, `shared/ai-chat-widget.tsx`, `app/api/chat` | the conversation, one question at a time | ask, clear, leave, render | answers that arrive after the conversation changed |
| Web dashboard shell: `app/dashboard/layout.tsx`, header, sidebar | a fade, timers, the search | navigate, search, sign out | timers nobody cancels, the browser's own navigation |
| Web changelog page | a filter and open sections | filter, open | - |
| Packaging: `scripts/sync-*`, `sync-distribution-manifests.mjs`, the npm, cargo and Python launchers | some thirty generated files; a defaults file | synchronise, install, run | an interruption between two files; launchers of different releases |
| Agent: `internal/client`, `internal/cli`, `cmd/binboi-client` | connection, local counters | connect, relay, report | no reconnect; relays in both directions |
| Proxy and TLS: `ServeProxy` (858-1045), `tls.go` | - | forward, certificates | I/O; its state is the history's |
| Exports and operator views: `request_export.go`, `audit_export.go`, `export_transport.go`, `query_options.go`, `operator_*.go`, `observability.go`, `readiness.go` | - | read-only queries | - |
| Marketing site, documentation pages, SDK crate, Debian and Homebrew files | - | - | static |

They interact through the tables and the map. A tunnel handler writes
`tunnel_records` and `sessions`; the proxy reads both and writes the history; a
replay reads the history and calls the proxy in the same process; API calls read and
write all tables; the plan limits read whatever they limit. The web application reaches the
control plane by HTTP only, through its own route handlers; its pages share SWR's
cache, the cookie jar and the session provider. What makes each correct:

- sessions: a route leads to the agent that was told it has the subdomain; the map
  never keeps a session nobody will remove; a row keeps its owner; rows say ACTIVE
  when, and only when, somebody serves them; limits hold up to concurrency;
- domains: VERIFIED means the token was seen; a name passes to another account only
  after deletion; what is deleted stays deleted; a published token is found in the end;
- history and replay: limits hold up to concurrency; the history stays bounded; what
  is kept can be replayed;
- limiter: forgetting a bucket changes no decision; tokens: the plan holds up to
  concurrency, and a revocation the page believes in has happened; log stream: a
  subscriber gets each line once, without a gap between the backlog and what follows;
- the pages: nothing spins or loads for ever; an answer stands where it belongs; what
  a page was told is not taken back by an older answer; "none" is not said of what
  could not be asked; a tab that signed out shows nobody;
- packaging: a run after an interrupted one repairs the tree, and no file announces
  a release the others have not reached.

## Modules

| Module | Models | Used by |
|---|---|---|
| `TunnelRouting` | what the map of sessions promises: join, evict, forget, leave, reset | refined by `TunnelSessions` |
| `TunnelSessions` | tunnel handlers, tunnel API calls, revoke, shutdown, restart | `TunnelSessionsMC`, `TunnelSessionsProofs` |
| `CustomDomains` | the domain API, the background verifier, DNS, restart | `CustomDomainsMC` |
| `RequestHistory` | proxied requests and replays, their recording and pruning | `RequestHistoryMC` |
| `RateLimiter` | `allow`, refill, the sweep | `SafePartsMC` |
| `AccessTokens` | the token handlers, the routes, the page and the card, other browsers | `SafePartsMC` |
| `LogStream` | `writeEvent`'s fan-out, `handleLogsSocket`, the readers | `SafePartsMC` |
| `WebSignIn` | cookies, tabs, the form, GitHub, the proxy's gate, the session provider | `FairPartsMC` |
| `BillingConsole` | the billing page and its routes | `FairPartsMC` |
| `TunnelConsole` | three pages over one SWR entry, the plan provider | `FairPartsMC` |
| `Assistant` | the assistant page, the chat widget, the chat route | `FairPartsMC` |
| `DashboardShell` | layout, header, sidebar, the router as environment | `FairPartsMC` |
| `RequestFeed` | SWR's polled histories, six pages, the drawer, the explanations | `SafePartsMC` |
| `ListPages` | the domains, set-up and user pages | `SafePartsMC` |
| `ProfilePage` | the two forms and the deletion modal | `SafePartsMC` |
| `DistributionSync` | the two synchronisations, file by file | `SafePartsMC` |
| `PackageLaunchers` | the generated launchers | `SafePartsMC` |
| `AnswerText`, `ThroughputChart`, `ChangelogPage` | rendering of an answer, the chart's points, the changelog's filter | `SafePartsMC` |
| `FairPartsMC`, `SafePartsMC` | parts that share no state, side by side | - |
| `TunnelSessionsProofs`, `CustomDomainsProofs`, `RequestHistoryProofs`, `LogStreamProofs` | the theorems about each | - |
| `AccessProofs` | the theorems about `RateLimiter` and `AccessTokens` | `PartsProofs` |
| `WebProofs` | the theorems about `WebSignIn`, `BillingConsole`, `DashboardShell`, `Assistant`, `TunnelConsole` and `FairPartsMC` | - |
| `PagesProofs` | the theorems about `ProfilePage`, `ListPages` and `RequestFeed` | `PartsProofs` |
| `PartsProofs` | the theorems about `DistributionSync`, `PackageLaunchers`, `AnswerText`, `ThroughputChart`, `ChangelogPage` and `SafePartsMC` | - |

The modules of the control plane share conventions. A goroutine is a slot with a position
`pc` and the locals the code still reads; "idle" slots stand for later goroutines, so
the number of slots bounds how many run at once, not how many there are. Each SQL
statement is one step. A failing statement is a step of its own that takes the code's
error path. What is done under a mutex is one step, except in `closeAllSessions`,
which writes to the database while it holds `Service.mu`: there the lock is the guard
`MuFree`. UUIDs and verification tokens are members of a set of which a fresh one is
one that nothing refers to; when all are in use, nothing is inserted, which is the
bound the `.cfg` files set with `RowIds` and `Ids`. Handlers that are refused before they change
anything are left out.

The modules of the web application share others. JavaScript is single-threaded: what
a handler does up to its next `await` is one step, with the re-render that follows. A
call in flight is a slot with what was sent, the answer, and, where the code tells
them apart, whether the page that made it is still mounted: a page that has been left goes on
running its handlers and sets state nobody sees. The answer is computed by the
server in one step and applied in another, and calls overtake each other. React and
SWR are outside the repository; each module's head says what it keeps of them.
Texts are the few values that the code tells apart ("blank", "short", "changed").

A few definitions are marked "Variant, not part of the model". Each is a plausible
bug in a definition below it. Put in its place, it makes TLC find a
particular property violated, so that every property is known to depend on the code
it is about; `PROJECT.json` lists the pairs.

### TunnelSessions

`rows` is `tunnel_records` by its unique column `subdomain`, with id, owner and
status; targets, regions, traffic counters and time stamps are left out. `sessions`
is `Service.sessions`; `link[c]` is the yamux session connection `c` created.

`conn[c]` follows `HandleTunnelConnection`: `Handshake` (the quota check of 2071 is
the last condition it tests), `FindRow` (2078-2100), `CreateRow` or `UpdateRow`
(2080-2112, the UPDATE by primary key with the owner that was read), the
acknowledgement or `AckFails`, `YamuxFails`, `AttachSession` (2149), `AgentGone`,
`DetachSession` and `DetachMark` (2162). `api[a]` follows `createTunnel` and
`deleteTunnel`: read, unmap under the mutex, delete by primary key. `sweep` is
`closeAllSessions`, started by the revoke endpoint (only on instances without
accounts) and by `Service.Close`. `phase` is the shutdown: listeners closed, then the
service; tunnel handlers keep running throughout, because nothing waits for them.
`Restart` loses everything but the rows.

`TunnelRouting` is the abstract side of `ImplementsRouting`: an agent joins once and
cuts the agent it displaces, and it leaves only when it has been cut and no route
leads to it. It allows a route to be forgotten while its agent is still linked,
because the code does that; see the finding of `sessions_reconnect`.

### CustomDomains

`rows` is `domain_records` by name. `order` is the relation "was checked before, or
is", on the names that exist: the verifier's ORDER BY. A check takes its time stamp
before the DNS lookup, so it is in `order` itself from then on, by a mark, and the
name takes the place of the mark when the row is written. That the relation is
linear is part of `TypeOK`. The
verification token is the row's id until the row is VERIFIED and empty afterwards.
`txt` is the TXT record DNS returns. `db.Save` (outside the repository) is UPDATE by
primary key and, when that matches no row, INSERT with ON CONFLICT on the primary
key; the unique index on the name may refuse the insert. The managed base domain is
never changed by any of these operations and is left out. `seen` is a history
variable.

### RequestHistory

`rows` is `request_records`, `archives` the ids that have an archive. The order by
`created_at` is the field `newer`, the rows inserted later; insertion order and
`created_at` are taken to agree (the clock does not step back). `age` tells today's
rows, older ones, and those past the retention age; `Midnight` and `GrowOld` advance
it. `proc[p]` is a request in `ServeProxy`: `Arrive` is a public request for which
`lookupActiveTunnel` has found a tunnel, `EnforceQuota` the verdict of
`enforceRequestQuota` (200-225 of `plan_limits.go`; a failing count lets the request
through, 908), then follow the five statements of `recordObservedRequest`. Whether
the request was forwarded, refused, or found the tunnel offline makes no difference to the history:
all are recorded. A replay is loaded, checked, and becomes such a request, for
whichever tunnel has the name by then. Replay
refusals (hourly limit, truncated body, no archive, no tunnel, rate limiter) are one action, as all
they do is to end the call.

`tunnels` is `tunnel_records` with id, name and owner. A row of the history names its
tunnel, and the daily quota and the replay limit count rows through a join with
`tunnel_records` (`Joined`): when a tunnel is deleted its rows stay and count no
longer. So the daily limit holds from one deletion to the next only, and
`today`, which counts the admitted requests recorded today, begins anew with a deletion;
it does so too when a request of a deleted tunnel is recorded late, because the new row
does not count but may push out one that does. Requests whose check failed are
forwarded on top. Tunnels of local clients, which have no owner and whose requests are counted
tunnel by tunnel, are left out, and so are replays by the local operator, which count
without the join. `today` and the row fields `replayed` and `fate` are history.

### RateLimiter

`entries` is the limiter's map; a tick brings `Rate` units and a request costs `Cost`
of them, so that rates below one request per tick are whole numbers. `allow` is under
a mutex and one step, in three actions by how it goes; every `SweepEvery`-th hit
sweeps. `ideal` is the history of a limiter that never forgets. The clock moves
between steps and does not step back.

### AccessTokens

`tokens` is the column `status` of the rows; `request[c]` is a request with its
handler's position; `view` is the page, `card` the `TokenManager`. A create counts,
then tries its INSERT up to three times with a new prefix after any error, stored or
not. Other browsers of the account use the same slots. Two facts the model shows: the
answer to a create has no `tokens` field, so the page shows "NO ACTIVE TOKENS FOUND"
until it is loaded again (`access-tokens/page.tsx:96`), and the page's error hook is
set and never rendered.

### LogStream

A line is its number. `FanOutBegins` puts it at the head of the backlog under `logMu`,
and the writer goes through the registered clients one at a time while it holds the
lock. A new client is registered, and its backlog copied, under the lock; the backlog
is then sent without it. A line may so be written to a connection in the middle of a
write of its backlog. gorilla's websocket looks for a second writer before it sends
and after, and panics when it notices one
(`FanOutPanics`, `ReplayPanics`), and as `audit.go:127-139` does not defer its unlock, the lock is
then held for ever: a hazard without a property, since nothing in the repository
promises otherwise. When it does not notice, the two writes have shared the
connection's one buffer, into which each copied its line before looking: what either
sends may be its own line, the other's, or a mixture of the two (`Sent`). `EachLineOnce`
therefore promises the lines themselves only to connections without such an overlap,
and to the others as many messages as there are lines.

### WebSignIn

`jar` is the browser's cookies, `tab[t]` a tab's page, form, OAuth attempt and copy of
the session. `used` and `spoilt` are history. The control plane's answers to
a form and to GitHub's code are choices. `SessionProvider` does not ask again after a
form login, and the provider of plans reads a nested `subscription.plan` where the
billing page reads a flat `plan`; both are modelled as they are.

### BillingConsole

`account` is the subscription with a version that grows with each change; `nested`
says which of the two shapes the API answers in. GET never fails: it answers with a
made-up FREE plan (`MOCK`) when the API cannot be reached or refuses, which it may, as the
route sends no `Authorization` header. Upgrades go to Paddle and come back as a new
document.

### TunnelConsole, ThroughputChart

`rows` are the account's tunnels in the control plane, `swr` the cache entry with its
one request that counts (a page that opens and the poll join the one in the air,
`mutate()` forgets it), `pending` the browser's creates and deletes, `told` what it
was told of them. Agents connect and leave. What a page shows of the list
(`Inventory`, `freeLimitReached`) is an operator over its state. The overview, and the tunnel page's
"NO RESERVATIONS DETECTED", also appear when the list could not be loaded; only the
tunnels page says so. The chart is fed with a constant while a tunnel is active and
records changes only.

### Assistant, AnswerText

A question is a number and an answer bears the number of its question. Both surfaces
are one module with `surface` to choose: they differ in their default model, in what
locks, and in when they can be cleared. The route picks OpenAI or Anthropic by the model and
by the keys in its environment. `AnswerText` is the loop of
`renderMarkdown`: `cursor` is the line it is at, `elements` what it has made so far, each
with the lines it shows and its key; `Block` takes a fence up to the next line of
backticks, `Line` any other line. The text on a line that closes a block is
dropped. The copy button's timers are in it too. `AnswerIsShown` says what a reader
gets, and is checked within `PartsTypeOK`.

### RequestFeed

A record is a number, the newest the highest, with kind, success and subdomain. All
lists of the program are newest first, so that a list is the set of its records.
`history` is the control plane's, of which retention keeps the last numbers; `cache`
and `fetch` are SWR by key; `tab` is the page with its filters, search, drawer and explanations.
Abstractions: the four status buttons of the requests page are ALL, SUCCESS and ERROR;
the search text and the provider pills are one more predicate; the events' levels are
failed or not; selecting another record while the drawer's backdrop is up is
allowed, which is more than the browser allows; the drawer's own explanation and the
explainer's unused context are left out. The events page shows zero figures
while it loads, as in the code.

### ProfilePage, ListPages

`ProfilePage` has the busy flag and the message of each form, the modal, and the
session the page was rendered with. The web application has no PUT or DELETE handler
for `/api/auth/me`, so a save always fails and a failed deletion closes the modal
without a word; `MeAnswers` has these outcomes only.

`ListPages` has loads
(`sent`, `applied`) and commands that end in a load. The control plane's domains are
changed by others meanwhile: other windows and the command line add and delete
them, and checks save the row they read, PENDING over VERIFIED or in place of a deleted
one (`CheckReads`, `CheckSaves`; the user's own check is `VerifyReads` and
`CommandAnswer`). What a list says of a domain is therefore no measure of what it
reflects. `version` counts the user's commands that took effect, a list has the version
at which it was given, and `told` holds the version of each command the user was told
of with the number of the load it sent. The set-up page's copy timer is not cancelled by the next
copy. `ViewsAgree`, checked within `PartsTypeOK`, relates the figures to the list.

### DashboardShell, ChangelogPage

`timers` are the wishes whose quarter of a second is running, in order, `pushing` the
router's last navigation, `frame` the layout's class. The layout's effect runs when
the pathname changes. Timers survive a departure from the dashboard. Enter in the
search takes the first result even when the list is hidden. Links to any page
of the dashboard (`QuickLink`) may be followed from anywhere, which is more than the
pages offer. In `ChangelogPage` a filter leaves places of the fixed list, `showYear` is
the timeline's year above the first entry of each, and `isOpen` the open sections.

### DistributionSync, PackageLaunchers

A file's content is the release each of its inputs had when it was generated. Writing
is in place: an interruption leaves the file at hand cut off (`torn`). `make` is a run
of one of the Makefile's targets, with what it read. The launchers
answer two commands themselves and hand the rest to a native binary; the npm package's bundled
binary is absent, as nothing in the repository builds it. A binary that was killed by a
signal is reported as success by the npm and cargo launchers, the npm launcher ends
with 0 when the binary cannot be started, and launchers of several releases
overwrite each other's defaults file.

### FairPartsMC, SafePartsMC

Components that share no state are checked in one run each: `part` is chosen
initially and says which component runs; the others keep one initial state.
The behaviours are those of each component by itself, and every property is about
its own part. (Composed freely, independent components would only multiply their
states.) `FairPartsMC` extends the modules of its five parts, `SafePartsMC` those of
seven of its eleven, and takes the launchers and the three views as instances. The
properties are those of the parts' modules; the type invariants are collected by
`part`, in `WebTypeOK` and `PartsTypeOK`.

## Runs

| Run | Shows | Bounds |
|---|---|---|
| `sessions_accounts` | `TypeOK`, `MappedIsServed`, `OwnerKept`, `StaleActiveSources`, `ImplementsRouting` | 2 subdomains, 2 accounts, 2 agents, 1 API call, 3 ids |
| `sessions_quota` | `OvershootBounded` | no accounts (revoke possible), 3 subdomains, 2 agents, limit 1 |
| `sessions_liveness` | `ClosedHandlerEnds` under `FairSpec` | 2 subdomains, 2 agents, no symmetry |
| `sessions_reconnect` | violates `LiveAgentRouted` | 1 subdomain, 2 agents of one account |
| `sessions_plan` | violates `ActiveWithinPlan` | 2 subdomains, 2 agents, limit 1 |
| `sessions_owner` | violates `RoutedToOwner` | 1 subdomain, 2 accounts, 1 agent, 1 API call |
| `domains_verifier` | `TypeOK`, `VerifiedWasSeen`, `NeverDisplaced`, and `PublishedIsVerified` under `FairSpec` | 2 domains, one per cycle, 2 accounts, 1 API call, 2 ids, no symmetry |
| `domains_deleted` | violates `DeletedStaysDeleted` | 1 domain, 1 API call |
| `requests_history` | `TypeOK`, `ReplayOvershootBounded`, `DailyOvershootBounded`, `ArchivedOrDue`, `SettledWithinLimit` | 1 account, 2 tunnels, 2 names, 2 requests at a time, 2 ids, all limits 1, retention on |
| `requests_quota` | violates `DailyWithinPlan` | 2 accounts, 2 tunnels, 2 names, 1 request at a time, 3 ids, all limits 1, retention off |
| `web_fair` | `WebTypeOK`, `SlotMeansPending`, `CancelIsSeen`, `LoadingEnds` (billing); `MismatchHasCause`, `SignedOutIsForgotten` (sign-in); `AnswersFollowQuestions`, `ThinkingEnds` (assistant); `EmptyInventoryIsKnown`, `ListsFollowChanges`, `StaleLimitLifts` (tunnels); `FadeHasSuccessor`, `FadeEnds` (shell) | 2 billing calls, 2 versions; 2 tabs, 1 account, 2 OAuth states; 3 questions; 2 creates or deletes at a time, 1 tunnel; 2 links and the profile, 2 timers, 1 search result |
| `parts_safe` | `PartsTypeOK`; `TokensOvershootBounded`, `RevokeTakes` (tokens); `SweepIsInvisible` (limiter); `SyncHeals`, `ReleasesInOrder` (packaging); `EmptyIsExplained`, `DrawerKeepsItsRecord` (requests); `OneCallPerForm` (profile); `OwnCommandsAreShown` (domains); `EachLineOnce` (log) | 2 token requests, limit 1, 2 tries, 5 rows; 2 subjects, 12 ticks, sweep every 3 hits; 2 releases, 2 interruptions; 3 records, 2 retained, 2 visits; 2 profile calls; 1 domain, 2 calls, 3 loads, 2 commands; 2 subscribers, 2 writers, 3 lines, backlog 2; answers of 4 lines; 12 points |

The bounds are the smallest at which the interesting cases meet. Two agents on one
subdomain are a reconnect; with a second subdomain and account there is somebody
whose row, map entry and quota a mistake could touch. A third id lets a row be
deleted and created again while the first id is still held by a handler. A limit of
one is exceeded by two requests at once, and a history of one row is trimmed by the
second request, whose row may come between the two statements of the first one's
trim. A second tunnel of the account keeps counting when the first is deleted, and its
name can be reserved again under an id that is still free. In `domains_verifier` a cycle has room for one of two domains, so
the order of checks decides who is starved, and one API call is enough because the
verifier is the second party. (The theorems about domains hold for any batch.)

In the two runs of parts, two calls, tabs or subscribers are the least that overtake
each other. Three questions let one be cleared, one be asked after it, and an answer
arrive late. One tunnel is enough where the hazard is a list older than a create
or a delete of it, and the FREE plan's limit is one. Two tries of an INSERT show that
a stored failure is tried again; with limit 1 and two creates, four tokens exceed the plan,
and the fifth row can hold a revoked one. A bucket of four units fills in four ticks,
which is also `StaleAge`: the sweep meets buckets that have only just filled, in three
cycles within twelve ticks. Two releases and two interruptions let a run meet a tree
that an interrupted run has made of a tree left by an interrupted run. Three records of which
two are kept drop one that may be open in the drawer. A backlog of two drops the first of three
lines. Two commands and three loads let the list of a load sent before a command arrive
after the command's own, or be the one that is left. The chart's window and `Window` are the code's own. Symmetry is used in
`sessions_accounts`, `sessions_quota`, `requests_history` and, for the slots of token
requests and of page calls only, in `parts_safe`; never with a liveness property.

Deadlock is checked wherever the system cannot stop: an agent can always connect, DNS
can always change and a day can always end. In `web_fair` and `parts_safe` it is not,
because their bounds (versions, questions, visits, releases, ticks, lines) end
behaviours in states where the program would go on.

`StaleActiveSources` rules no failure out. It says that a row becomes ACTIVE without a
handler in the ways the code is known to leave open, and in no other: a failed
acknowledgement (838), a failed status write (2167), and a restart, which a
shutdown that does not wait for its handlers ends in too.

What the violations show:

- `sessions_reconnect`: `detachSession` (2164) deletes whatever the map holds. An agent that
  reconnects before its old handler has finished loses its entry to that
  handler, and its row becomes INACTIVE: connected, told so, and unreachable.
- `sessions_plan`: the active-tunnel limit is counted before the row is written.
  `OvershootBounded` is what does hold.
- `sessions_owner`: `deleteTunnel` unmaps before it deletes the row. A handshake in
  between leaves a session on a subdomain that another account can then reserve.
- `domains_deleted`: the write of a check inserts a deleted domain again.
- `requests_quota`: the daily limit counts rows, and rows are trimmed across
  accounts: 5000 are kept by default, PRO allows 10000 a day. Deleting a tunnel takes
  its rows out of the count as well; `today` leaves that aside, so that the run shows
  the trimming.

### Fairness

`sessions_liveness` assumes that the Go scheduler runs every goroutine that can run,
that a statement does not fail for ever, and, for the steps that need
`Service.mu`, strong fairness: a `sync.RWMutex` gives the lock to a waiting writer
before writers that come later, but operators may revoke sessions again and again, so
the lock is not continuously free. Agents, callers and the end of the process are not fair.

`domains_verifier` assumes that the ticker and the verifier's goroutine keep running.
`PublishedIsVerified` is about calm behaviours, in which from some point on lookups succeed,
statements do not fail and the process runs on. That includes the lookups of API
calls, and TLC shows why: a client that keeps asking for verification while its
lookups fail moves its domain to the back of the order each time, and the verifier
may never reach it.

`web_fair` assumes of the browser that what can run does: a call is answered or
fails and its handler runs on (`BillingProgress`, `ChatProgress`, as `fetch` settles and
the event loop is fair); SWR's interval goes on while a page is open (`Poll`), and what
has been answered is applied (`ListApply`); timers
go off and the router arrives (`TimerFires`, `Arrives`). Strong fairness is assumed of the tunnel list's
successful answers and of their application: they compete with reloads that make
SWR forget a request (of commands and of the refresh buttons), and with failures; the assumption is that a control plane which
is asked again and again answers again and again. Users, agents, Paddle and GitHub
need not do anything, and nothing is assumed of sign-in.
`StaleLimitLifts` is about behaviours in which the page stays open and no agent is
connected from some point on.

## Proofs

`TunnelSessionsProofs` proves, for every value of the constants that satisfies
`SessionsAssumption` (finite subdomains and connections, marks outside the sets they
extend):

| Theorem | Establishes | Along |
|---|---|---|
| `TypeCorrect` | `[]TypeOK` | `TypeOK` is inductive (`TypeStep`) |
| `MappedServed` | `[]MappedIsServed` | `RoutingInv` |
| `RefinesRouting` | `Spec => ImplementsRouting` | every step maps to a step of `TunnelRouting` or a stutter (`RoutingStep`), under `RoutingInv` |
| `OwnersKept` | `OwnerKept`, if every API caller is an account | `OwnerInv` |
| `OvershootIsBounded` | `[]OvershootBounded`, with accounts or a single operator | `PlanInv` |
| `StaleOnlyBySources` | `StaleActiveSources` | `RoutingInv` |

`RoutingInv` adds to `TypeOK` and `MappedIsServed` that a link is open or closed
exactly from `AttachSession` to the end of the handler (`LinkFollowsHandler`):
without it `AttachSession` could cut its own new session, and `DetachMark` could
leave a route to an agent that has gone.

`OwnerInv` says that a handler that read a row which is still there read its present
owner. It needs every reservation to name an account: rows reserved by a local
client have no owner, and two accounts that have both read such a row can both claim it.

`PlanInv` bounds the active tunnels of an account together with the subdomains of its
handshakes between the check and the write. A handshake that joins them saw fewer
than the limit, and the others are connections other than its own. The hypothesis on
accounts is needed because an UPDATE keeps the owner of the row it found; with
several accounts that are not enforced, one account's handshake may activate
another's row.

`CustomDomainsProofs` proves, for finite sets of names and everything else arbitrary:

| Theorem | Establishes | Along |
|---|---|---|
| `VerifiedMeansSeen` | `[]VerifiedWasSeen` | `DomainInv` |
| `NobodyDisplaced` | `NeverDisplaced` | `DomainInv` |
| `DomainTypeCorrect` | `[]TypeOK`, with the order of checks | `TypeInv` |

`DomainInv` is about all copies of rows (`Held`): those stored, those in the
verifier's batch and those of API calls. Every VERIFIED copy has its id in `seen`
(`CopiesSeen`), and copies with the same id name the same owner (`CopiesAgree`). It
has to speak of the copies of deleted rows as well, because a check may insert a
deleted row again and another check, holding an older copy, may then update it. A
step either passes copies on, with a status that is at most raised after the token
was seen, or inserts a row under an id no copy has.

`TypeInv` adds the order of checks. It is linear on the existing names and the marks
of the checks between their lookup and their write, and of nobody else
(`MarksListed`); and such a check is about a name and holds a row (`CallsAim`), so
that its write leaves a domain that exists. What the four things the code does to the
order make of a linear order are lemmas about any set and any relation: a new element
goes last (`AddLinear`), a part of a linear order is linear (`PartLinear`: deletion,
failure, restart), and an element may take another's place (`ReplaceLinear`: the write).

`RequestHistoryProofs` proves, for any finite number of ids and simultaneous
requests and all limits:

| Theorem | Establishes | Along |
|---|---|---|
| `TypeCorrect` | `[]TypeOK` | `HistoryInv` |
| `ArchivesStay` | `[]ArchivedOrDue` | `HistoryInv` |
| `HistoryBounded` | `[]SettledWithinLimit` | `HistoryInv` |
| `ReplaysBounded` | `[]ReplayOvershootBounded` | `HistoryInv` |
| `DailyBounded` | `[]DailyOvershootBounded`, for a finite set of accounts | `DayInv` |

`HistoryInv` says that tunnels differ in id and name (`TunnelsInv`), that `newer` is
a strict linear order along which rows grow old,
that the writer of a row has it for itself and its fate is open until then, and that
a replay is newer than its original. The first four results rest on one fact about
deletion: both pruning statements take a set of rows that contains every row older
than one of its own (`OldClosed`, `ExcessClosed`). Hence what stays keeps all its
newer rows (`DeletedRows`), what is due stays due, and the replays of a stored
request are all stored. They are of its tunnel as well while that exists, since nobody
else can have its name (`LoadedInv`), and a deleted tunnel's rows never get it back, as
no new tunnel takes its id (`NoneRevived`); so that counting joined rows does count replays. The limit itself
is a pigeonhole argument: rows differ in the number of newer rows, so at most
`StoredLimit` of them have fewer than `StoredLimit` (`FewNotExcess`).

`DayInv` adds that rows newer than one of today's are today's (`NewestToday`), and that
the history holds as many rows of today as requests were admitted, or `DailyLimit` at
least. Only the rows newer than all rows of deleted tunnels count for this (`TodayRows`): those
inserted since the count of admitted requests began anew, all of which the join
finds. Only a trim can break it, and a trim that takes one of them leaves
`StoredLimit` of them (`TrimLeavesFullDay`, by the same counting of newer rows).

`AccessProofs`, for any subjects, rates, bursts and times, if a stale bucket has had
time to fill (the last conjunct of `RateAssumption`; the defaults satisfy it by far, nothing
enforces it), and for any finite set of request slots, limits, tries and rows:

| Theorem | Establishes | Along |
|---|---|---|
| `RateTypeCorrect` | `[]RateTypeOK` | `RateInv` |
| `SweepsAreInvisible` | `[]SweepIsInvisible` | `RateInv`: no bucket was used in the future |
| `TokenTypeCorrect` | `[]TokenTypeOK` | `TokenInv` |
| `RevocationsTake` | `RevokeTakes` | `TokenInv` |
| `TokensOvershoot` | `[]TokensOvershootBounded`, if requests are possible at all (`TokenCalls # {}`) | `OvershootInv` |

`TokenInv` says that rows are filled without gaps, that no list tells of a row that is
not there, and that a revocation which is past its UPDATE has revoked its row.
`OvershootInv` counts, beside the active tokens, the tries that creates past their count
still have (`Owed`): a create that finds fewer tokens than its limit adds its tries, and every
INSERT turns one of them into a token. The sum stays below the largest limit plus the
tries of all slots.

`LogStreamProofs`, for any subscribers, writers and lines and any length of the backlog:

| Theorem | Establishes | Along |
|---|---|---|
| `LogTypesHold` | `[]LogTypeOK` | `LogInv` |
| `LinesReachReadersOnce` | `[]EachLineOnce` | `LogInv` |

`LogInv` says where each line of a connected subscriber is that was never written to
in the middle of a write: among those it got, among
those of the backlog still to be sent, or, the last line only, with the goroutine that
holds `logMu`. No line is in two of these places (`LinesApart`), and together they are
all lines from the oldest of the backlog on (`LinesWhole`). For a subscriber that was, what
remains is their number: what was sent, what is to be sent and what is owed add up
(`MessagesCounted`), as every write sends one message, whatever is in it. A subscriber
is registered
while nobody logs, with a backlog that ends at the last line (`MutexInv`, `BacklogInv`).

`WebProofs`, for any tabs, accounts, OAuth states, calls, tunnels, questions and results.
The theorems about billing, and `WebTypeCorrect`, ask for `MaxVersion \in Nat`; those
about the shell for `ShellConstants`: the links and the profile are non-empty texts.

| Theorem | Establishes | Along |
|---|---|---|
| `SignInTypeCorrect` | the jar, the tabs and the history variables keep their types | `SignInInv` |
| `MismatchesHaveCauses` | `[]MismatchHasCause` | `SignInInv` |
| `SignedOutForgets` | `[]SignedOutIsForgotten` | `SignInInv` |
| `BillingTypeCorrect` | `[]BillingTypeOK` | `BillingInv` |
| `SlotsMeanPending` | `[]SlotMeansPending` | `BillingInv` |
| `CancellationsAreSeen` | `CancelIsSeen` | `BillingInv` |
| `ShellTypeCorrect` | `[]ShellTypeOK` | `ShellInv` |
| `FadesHaveSuccessors` | `[]FadeHasSuccessor` | `ShellInv` |
| `ChatTypeCorrect` | `[]ChatTypeOK` | `ChatInv` |
| `AnswersStandUnderQuestions` | `[]AnswersFollowQuestions` | `ChatInv` |
| `ConsoleTypeCorrect` | `[]ConsoleTypeOK` | `ConsoleInv` |
| `EmptyInventoriesAreKnown` | `[]EmptyInventoryIsKnown` | `ConsoleInv` |
| `ListsKeepUp` | `ListsFollowChanges` | `ConsoleInv` |
| `WebTypeCorrect` | `Spec => []WebTypeOK`, of the run `web_fair` | the five above, by `part` |

`SignInInv` is one condition per tab over the jar and the spoilt states (`TabOK`): a
tab at GitHub has the jar's state or a spoilt one, and while a tab that signed out has
not been told otherwise, the jar names nobody. A tab that does nothing itself sees a
step of another as a `JarStep`, which keeps `TabOK`.

The slot of the billing page needs no more than its own statement: whoever ends clears
it. That a cancellation is seen rests on versions: the reload is sent after the
cancellation and is answered with something as new, or made up, whichever loads
overtake it. The argument about the shell follows the last wish: a new one becomes the
last and leads elsewhere, a timer that goes off hands it to the router, and an arrival
either is the last wish, and fades the page in, or leaves it pending.

`ChatInv`: a chat that is loading waits for one answer, to its last question, and that
question is at the end of the list or was cleared away with all of it. `ConsoleInv`
follows a change from the control plane to the list: what a call was told, the rows
have; what the browser was told, the rows have and so does every list on its way,
because `mutate()` makes SWR forget those read before.

`PagesProofs`, for any calls, visits, domains, loads, traffic, records and retention:

| Theorem | Establishes | Along |
|---|---|---|
| `ProfileTypeCorrect` | `[]ProfileTypeOK` | `ProfileInv` |
| `OneRequestAForm` | `[]OneCallPerForm` | `ProfileInv` |
| `ListPagesTypeCorrect` | `[](ListTypeOK /\ ViewsAgree)` | `ListInv` |
| `OwnCommandsAreListed` | `[]OwnCommandsAreShown` | `ListInv` |
| `FeedTypeCorrect` | `[]FeedTypeOK` | `FeedInv` |
| `EmptyPagesAreExplained` | `[]EmptyIsExplained` | `FeedInv` |
| `DrawerStays` | `DrawerKeepsItsRecord` | `FeedInv`, before and after the step |

`ProfileInv`: the spinners of the open page are its calls in the air, one each; calls of
earlier visits may be any number. `ListInv`: the control plane is never behind what the user was
told (`ToldOK`), and the load of a command is the newest when the user is told; so
every list in the air and the one shown is as new as a command, or came with an earlier
load than the command's (`Covers`, `CallOK`, `RowsOK`). `FeedInv`: in
the control plane's list, in the cache and in all answers in the air a number means one
record; their numbers lie within `Retained` of one another (`Close`), and a page that has nothing
waits for something (`Waits`).

`PartsProofs`, for any number of releases, interruptions, lines and points:

| Theorem | Establishes | Along |
|---|---|---|
| `SyncTypeCorrect` | `[]SyncTypeOK` | `SyncInv` |
| `RunsHeal` | `[]SyncHeals` | `SyncInv` |
| `ReleasesStayInOrder` | `[]ReleasesInOrder` | `SyncInv` |
| `PartsTypeCorrect` | `Spec => []PartsTypeOK`, of the run `parts_safe` | the type theorems of the parts, by `part` |
| `AnswersStandWhole` | whatever its lines, an answer satisfies `AnswerIsShown` | `AnswerInv` |

`SyncInv`: no file is ahead of the input it was made from (`Bounded`), none is behind one
that is written after it, torn or not (`InOrder`), and the files a run has passed are whole and
made from what it read (`ProjectRuns`, `DistributionRuns`). `AnswerInv` is a loop
invariant: the elements end above the line the loop is at and show every line above it
that has no backticks.

Only model-checked: the liveness properties `ClosedHandlerEnds`, `PublishedIsVerified`,
`LoadingEnds`, `ThinkingEnds`, `StaleLimitLifts` and `FadeEnds`, as fairness and ENABLED are
out of the prover's reach. What a recursive function or `SelectSeq` computes would need
an induction that the provers cannot instantiate; the modules do without them: the lists
of the feed are sets of numbered records, the order of checks is a relation, and
`renderMarkdown` is the loop it is in the code.

## Not modelled

The contents of requests and answers, headers, target and region strings; the traffic
counters; the quota snapshot; the managed base domain; the hourly replay limit beyond
its refusal; the attempt number of a replay and the row its answer names; parsing of
handshakes and names. Exports and operator views are read-only. The agent's relay and
`ServeProxy`'s streaming and certificates are I/O. Password hashing and the account
tables are external to `WebSignIn`, which has their outcomes.

Of the web application: the marketing, landing and documentation pages are static text
and animations (`laser-flow`, `card-animations`); `animate-ui` and `ui` are vendored
components; the wording of the chat's system prompt is data. Nothing mounts or
calls these, so that they have no behaviour to model: `hero`, `hero-flow`, `useTraffic`
and `api/stats`, `add-tunnel-madal`, `SetupInstallation`, `InitializeModal`, `welcome`,
`Animated-framework`, `data-stream`, the request and webhook debug workbenches with
`webhook-delivery-*` and `webhook-debug-data`, `CreateTunnelForm`, `terminal-log`,
`lib/paddle.ts`, `lib/access-tokens.ts`, `lib/auth-routing.ts`, `api/billing/change-plan`,
and `setPlan`, `consumeAiExplain` and `refreshPlan` of the plan provider. The SDK crate,
the Debian and the Homebrew files are generated or static; their generator is
`DistributionSync`.

## Plan

1. Sessions, domains, history, limiter, tokens, log stream, the web application's
   pages and the packaging: modelled and checked as above. Every safety property of
   a passing run is proved.
2. What holds in place of the violated properties, as invariants of their own: when
   a route to an agent can be lost (`sessions_reconnect`), and which copies a deleted
   domain can come back from (`domains_deleted`).
3. `RequestReplay`: the attempt number and the answered row; a retry of a replay
   that was refused.
4. The reservation quota, which agents that connect do not meet, and the domain
   quota's overshoot, with resurrected domains.
5. The agent's relay and its counters.

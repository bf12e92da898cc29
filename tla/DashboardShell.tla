---------------------------- MODULE DashboardShell ----------------------------
(***************************************************************************)
(* The frame around the dashboard's pages: web/app/dashboard/layout.tsx    *)
(* with its header and sidebar.  A wish to go elsewhere fades the page out *)
(* and, a quarter of a second later, pushes the new address; nothing       *)
(* cancels the timers, so several wishes, the browser's own Back button    *)
(* and a slow arrival may overlap, also after the dashboard was left.      *)
(*                                                                         *)
(* The router is external; of it the model keeps that the last navigation  *)
(* asked for is the one that happens, and that one to the page that is     *)
(* already open changes nothing.                                           *)
(***************************************************************************)
EXTENDS Naturals, Sequences, FiniteSets

CONSTANTS
  Links,       \* DASHBOARD_LINKS: a sequence of addresses
  Profile,     \* the address of the profile page, which is not among the links
  MaxResults,  \* how many pages the search lists
  MaxTimers    \* bound: wishes whose timer is running

\* There are links, and an address is not the empty text, which stands for none.
ShellConstants ==
  /\ Links \in Seq(STRING) /\ Links # <<>> /\ "" \notin {Links[i] : i \in DOMAIN Links}
  /\ Profile \in STRING \ {""}
  /\ MaxResults \in Nat /\ MaxTimers \in Nat

VARIABLES
  path,    \* usePathname: the page that is open
  timers,  \* the addresses whose timer is running, the oldest first
  pushing, \* the navigation that is on its way, or ""
  frame,   \* the layout: how the content is drawn, and whether the sidebar is collapsed
  search   \* the header: the links its text matches, and whether it has the focus

shellVars == <<path, timers, pushing, frame, search>>

Site == "/"
Listed == {Links[i] : i \in DOMAIN Links}
Hrefs == Listed \cup {Profile}
Places == Hrefs \cup {Site}
InDashboard == path \in Hrefs

Mounted == [content |-> "page-enter", collapsed |-> FALSE]
\* An empty text filters nothing, as a text that every link matches.
NoSearch == [matches |-> Listed, focused |-> FALSE]

ShellInit ==
  /\ path = Site
  /\ timers = <<>> /\ pushing = ""
  /\ frame = Mounted /\ search = NoSearch

(***************************************************************************)
(* The layout.                                                             *)
(***************************************************************************)
(* Variant, not part of the model: the page that is open is no exception.  *)
handleNavigateAlways(href) ==
  /\ Len(timers) < MaxTimers
  /\ frame' = [frame EXCEPT !.content = "page-exit"]
  /\ timers' = Append(timers, href)
  /\ UNCHANGED <<path, pushing>>

handleNavigate(href) ==
  \/ href = path /\ UNCHANGED <<path, timers, pushing, frame>>
  \/ /\ href # path
     /\ Len(timers) < MaxTimers
     /\ frame' = [frame EXCEPT !.content = "page-exit"]
     /\ timers' = Append(timers, href)
     /\ UNCHANGED <<path, pushing>>

\* The timer goes off: router.push, which takes the place of what was on its way.
TimerFires ==
  /\ timers # <<>>
  /\ pushing' = Head(timers)
  /\ timers' = Tail(timers)
  /\ UNCHANGED <<path, frame, search>>

(* Variant, not part of the model: the layout has no effect on the pathname. *)
OpenWithoutEffect(p) ==
  /\ path' = p
  /\ IF p = path \/ (InDashboard /\ p \in Hrefs)
     THEN UNCHANGED <<frame, search>>
     ELSE frame' = Mounted /\ search' = NoSearch

\* Another page is open.  Within the dashboard the layout stays, and its effect on the new
\* pathname fades the content in; leaving it, or coming from outside, mounts it anew.
Open(p) ==
  /\ path' = p
  /\ IF p = path \/ (InDashboard /\ p \in Hrefs)
     THEN /\ frame' = IF p = path THEN frame ELSE [frame EXCEPT !.content = "page-enter"]
          /\ UNCHANGED search
     ELSE frame' = Mounted /\ search' = NoSearch

Arrives ==
  /\ pushing # ""
  /\ Open(pushing)
  /\ pushing' = ""
  /\ UNCHANGED timers

\* Back, forward, a link of the page itself: what was being pushed is dropped.
OpenedOtherwise(p) ==
  /\ p # path
  /\ Open(p)
  /\ pushing' = ""
  /\ UNCHANGED timers

\* A new document: nothing of the old one is left, its timers included.
LoadDocument(p) ==
  /\ path' = p
  /\ timers' = <<>> /\ pushing' = ""
  /\ frame' = Mounted /\ search' = NoSearch

SidebarSignOut == InDashboard /\ LoadDocument(Site)

\* The quick links of the user-management page are plain ones, which the router does not see.
QuickLink(p) == InDashboard /\ LoadDocument(p)

(***************************************************************************)
(* The sidebar and the header.                                             *)
(***************************************************************************)
\* Which links are marked as the page that is open; no page's address begins another's.
isActiveRoute(href) == href = path
Marked == {href \in Listed : isActiveRoute(href)}

\* Its logo leads to the site; a click beside the search takes its focus away.
SidebarDocs(href) ==
  /\ InDashboard
  /\ handleNavigate(href)
  /\ search' = [search EXCEPT !.focused = FALSE]

onToggle ==
  /\ InDashboard
  /\ frame' = [frame EXCEPT !.collapsed = ~@]
  /\ search' = [search EXCEPT !.focused = FALSE]
  /\ UNCHANGED <<path, timers, pushing>>

\* The first few of the links that match, without that of the page that is open: their places
\* in the list.
searchItems == {i \in DOMAIN Links : Links[i] # path}
Hits == {i \in searchItems : Links[i] \in search.matches}
searchResults == {i \in Hits : Cardinality({j \in Hits : j < i}) < MaxResults}
ResultsShown == IF search.focused THEN {Links[i] : i \in searchResults} ELSE {}

Focus ==
  /\ InDashboard
  /\ search' = [search EXCEPT !.focused = TRUE]
  /\ UNCHANGED <<path, timers, pushing, frame>>

\* Typing does not bring back a list that Escape or a choice has closed.
Type(links) ==
  /\ InDashboard
  /\ search' = [search EXCEPT !.matches = links]
  /\ UNCHANGED <<path, timers, pushing, frame>>

\* Escape, or a press outside the search box.
Unfocus ==
  /\ InDashboard
  /\ search' = [search EXCEPT !.focused = FALSE]
  /\ UNCHANGED <<path, timers, pushing, frame>>

headerNavigate(href) ==
  /\ InDashboard
  /\ search' = NoSearch
  /\ handleNavigate(href)

\* Enter takes the first result, whether the list is shown or not.
Enter ==
  \E i \in searchResults :
    /\ \A j \in searchResults : i <= j
    /\ headerNavigate(Links[i])

Choose == \E href \in ResultsShown : headerNavigate(href)

\* The header's own two links, one of which is the assistant's.
handleActionClick(href) == headerNavigate(href)

DashboardHeader ==
  \/ onToggle \/ Focus \/ Unfocus \/ Enter \/ Choose
  \/ \E links \in SUBSET Listed : Type(links)
  \/ \E href \in {Profile, Links[Len(Links)]} : handleActionClick(href)

ShellTypeOK ==
  /\ path \in Places
  /\ timers \in Seq(Places) /\ Len(timers) <= MaxTimers
  /\ pushing \in Places \cup {""}
  /\ frame \in [content : {"page-enter", "page-exit"}, collapsed : BOOLEAN]
  /\ search \in [matches : SUBSET Listed, focused : BOOLEAN]
  \* A search never offers the page that the sidebar marks.
  /\ Marked \cap ResultsShown = {}

ShellNext ==
  \/ TimerFires \/ Arrives \/ SidebarSignOut \/ DashboardHeader
  \/ \E p \in Places : OpenedOtherwise(p) \/ SidebarDocs(p)
  \/ \E p \in Hrefs : QuickLink(p)

ShellSpec == ShellInit /\ [][ShellNext]_shellVars

(***************************************************************************)
(* Timers go off, and the router gets somewhere.                           *)
(***************************************************************************)
ShellFairness == WF_shellVars(TimerFires) /\ WF_shellVars(Arrives)

(***************************************************************************)
(* Properties                                                              *)
(***************************************************************************)
\* The navigation that will be the last, as things stand.
LastWish == IF timers # <<>> THEN timers[Len(timers)] ELSE pushing

\* A page that has been faded out has a successor: however clicks, Back and arrivals were
\* mixed, the navigation that will be the last leads to another page, so that the layout's
\* effect on the pathname will run.  (It runs on a change only: a wish for the open page
\* would leave the dashboard blank.)
FadeHasSuccessor ==
  frame.content = "page-exit" => InDashboard /\ LastWish \notin {"", path}

\* A page that has been faded out does not stay so.
FadeEnds == (frame.content = "page-exit") ~> (frame.content = "page-enter")
===============================================================================

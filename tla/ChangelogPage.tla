---------------------------- MODULE ChangelogPage ----------------------------
(***************************************************************************)
(* The changelog of the public site (web/app/(site)/changelog/page.tsx): a *)
(* filter over a fixed list, and the sections of its major entries, which  *)
(* keep their own state while their entry is in the filtered list.         *)
(***************************************************************************)
EXTENDS Naturals, Sequences

VARIABLES
    activeFilter,   \* the filter that is pressed
    isOpen          \* the open sections, as <<entry, section>>

changelogVars == <<activeFilter, isOpen>>

Tags == {"network", "cli", "dashboard", "perf", "fix"}
Sections == {"features", "fixes"}

(* The entries, the newest first: their year, whether they are major ones  *)
(* and their tags.                                                         *)
CHANGELOG_DATA ==
    <<[id |-> "v2-0",   year |-> 2026, major |-> TRUE,  tags |-> {"network", "dashboard"}],
      [id |-> "v1-5",   year |-> 2026, major |-> TRUE,  tags |-> {"dashboard", "cli"}],
      [id |-> "v1-4-2", year |-> 2026, major |-> FALSE, tags |-> {"perf", "network"}],
      [id |-> "v1-4-0", year |-> 2026, major |-> FALSE, tags |-> {"cli"}]>>

(* The places in the list that a filter leaves.                            *)
Filtered(filter) ==
    {i \in DOMAIN CHANGELOG_DATA : filter = "all" \/ filter \in CHANGELOG_DATA[i].tags}
filteredData == Filtered(activeFilter)

(* j is the entry right above i in the filtered list.                      *)
Above(j, i) == j < i /\ \A k \in filteredData : k <= j \/ k >= i

(* The timeline puts the year above the first of its entries.              *)
showYear(i) ==
    ~ \E j \in filteredData : Above(j, i) /\ CHANGELOG_DATA[j].year = CHANGELOG_DATA[i].year

(* The sections an entry has: every major one has both, no other has any.  *)
ChangelogEntry(item) == IF item.major THEN {<<item.id, s>> : s \in Sections} ELSE {}
Mounted(filter) == UNION {ChangelogEntry(CHANGELOG_DATA[i]) : i \in Filtered(filter)}

---------------------------------------------------------------------------
ChangelogInit == activeFilter = "all" /\ isOpen = {}

(* A section that the filter takes away comes back closed.                 *)
setActiveFilter ==
    \E filter \in Tags \cup {"all"} :
        /\ activeFilter' = filter
        /\ isOpen' = isOpen \cap Mounted(filter)

ExpandableSection(section) ==
    /\ section \in Mounted(activeFilter)
    /\ isOpen' = IF section \in isOpen THEN isOpen \ {section}
                 ELSE isOpen \cup {section}
    /\ UNCHANGED activeFilter

ChangelogNext ==
    \/ setActiveFilter
    \/ \E section \in Mounted("all") : ExpandableSection(section)

ChangelogSpec == ChangelogInit /\ [][ChangelogNext]_changelogVars

---------------------------------------------------------------------------
(* Every section that is open stands under an entry on the page, and the   *)
(* year of every entry stands above it once (the timeline of Changelog).   *)
ChangelogTypeOK ==
    /\ activeFilter \in Tags \cup {"all"}
    /\ isOpen \subseteq Mounted(activeFilter)
    /\ \A i \in filteredData :
           \E j \in filteredData : /\ j <= i /\ showYear(j)
                                   /\ CHANGELOG_DATA[j].year = CHANGELOG_DATA[i].year
    /\ \A i, j \in filteredData :
           (showYear(i) /\ showYear(j)
                /\ CHANGELOG_DATA[i].year = CHANGELOG_DATA[j].year) => i = j
===============================================================================

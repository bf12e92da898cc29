----------------------------- MODULE ListPages -----------------------------
(***************************************************************************)
(* The pages that load once when they are opened: the domains page, whose  *)
(* two commands reload the list themselves, the user-management page and   *)
(* the setup page.  None of them polls, so what the last load brought is   *)
(* what the user sees until the next click; loads may overlap, and their   *)
(* answers may come back in another order.                                 *)
(***************************************************************************)
EXTENDS Naturals, FiniteSets

CONSTANTS
    Domains,        \* the names the user may register
    PageCalls,      \* bound: calls in the air at once
    MaxLoads,       \* bound: loads sent while a page is open
    MaxCommands,    \* bound: commands of the user that take effect
    Steps           \* the setup page's commands

ASSUME ListAssumption == MaxLoads \in Nat \ {0} /\ MaxCommands \in Nat

VARIABLES
    registry,       \* the control plane's status of each domain
    checks,         \* PENDING rows that checks of others have read
    version,        \* how many commands of the user took effect
    told,           \* the commands the user knows to have succeeded
    shown,          \* the React state of the page that is open
    calls           \* [call -> what was asked and answered]

controlPlane == <<registry, checks, version>>
listVars == <<controlPlane, told, shown, calls>>

Statuses == {"absent", "PENDING", "VERIFIED"}
DomainRows == [Domains -> Statuses]
NoDomains == [d \in Domains |-> "absent"]

ListPageNames == {"domains", "user-management", "setup"}

(* `version` is that of the control plane when it gave the list: a list is *)
(* older than a command when its version is smaller.                       *)
Closed == [at |-> "closed", loading |-> FALSE, creating |-> FALSE,
           error |-> FALSE, rows |-> NoDomains, version |-> 0, loaded |-> FALSE,
           sent |-> 0, applied |-> 0, copied |-> {}, fading |-> {}]

(* `order` numbers the loads of the open page; `open` is cleared when the  *)
(* page that made the call is closed; `status` is what a check has read.   *)
NoCall == [kind |-> "none", domain |-> "none", step |-> "idle", order |-> 0,
           adding |-> FALSE, open |-> FALSE, status |-> "absent",
           got |-> NoDomains, version |-> 0]

(* The domains page asks for the list, the other two for the instance.     *)
Loads == {"list", "instance"}

(* A command the user was told of, and the load it sent: its number in the *)
(* page that is open, 0 when that page was closed since.                   *)
ToldCommands == [version : 1..MaxCommands, order : 0..MaxLoads]

ListTypeOK ==
    /\ registry \in DomainRows /\ checks \subseteq Domains
    /\ version \in 0..MaxCommands /\ told \subseteq ToldCommands
    /\ shown \in [at : ListPageNames \cup {"closed"}, loading : BOOLEAN,
                 creating : BOOLEAN, error : BOOLEAN, rows : DomainRows,
                 version : 0..MaxCommands, loaded : BOOLEAN,
                 sent : 0..MaxLoads, applied : 0..MaxLoads,
                 copied : SUBSET Steps, fading : SUBSET Steps]
    /\ calls \in [PageCalls ->
           [kind : {"none", "add", "verify"} \cup Loads,
            domain : Domains \cup {"none"},
            step : {"idle", "sent", "checking", "answered", "failed"},
            order : 0..MaxLoads, adding : BOOLEAN, open : BOOLEAN,
            status : Statuses, got : DomainRows, version : 0..MaxCommands]]

ListInit ==
    /\ registry = NoDomains /\ checks = {} /\ version = 0 /\ told = {}
    /\ shown = Closed
    /\ calls = [c \in PageCalls |-> NoCall]

IdleCall(c) == calls[c] = NoCall

---------------------------------------------------------------------------
(* What the pages show and offer.                                          *)

DomainRegistry ==
    IF shown.loading THEN "loading"
    ELSE IF shown.rows = NoDomains THEN "none" ELSE "rows"

VerifyShown(d) ==
    /\ shown.at = "domains" /\ DomainRegistry = "rows"
    /\ shown.rows[d] = "PENDING"
AddShown == shown.at = "domains" /\ ~shown.creating

(* The three figures over the list, and the note the last error replaces.  *)
DomainHighlights ==
    [verified |-> Cardinality({d \in Domains : shown.rows[d] = "VERIFIED"}),
     pending  |-> Cardinality({d \in Domains : shown.rows[d] = "PENDING"}),
     note     |-> IF shown.error THEN "error" ELSE "advice"]

InstanceCards ==
    IF shown.error THEN "error" ELSE IF shown.loading THEN "loading" ELSE "cards"

SetupHighlights ==
    IF shown.loaded THEN "instance" ELSE "placeholders"

(* The steps of the guide name the instance's public URL once it is known, *)
(* and a fixed one before, and when it cannot be loaded.                   *)
publicUrl == IF SetupHighlights = "instance" THEN "instance" ELSE "default"

(* One command is marked as copied at most, whichever was copied last; the *)
(* mark does not disable the button.                                       *)
StepDetails(i) == IF i \in shown.copied THEN "check" ELSE "copy"

(* What a user who reads the page can conclude from it.                    *)
ViewsAgree ==
    /\ DomainRegistry = "none" =>
           DomainHighlights.verified + DomainHighlights.pending = 0
    /\ publicUrl = "instance" => shown.applied > 0
    /\ \A i, j \in Steps :
           StepDetails(i) = "check" /\ StepDetails(j) = "check" => i = j

---------------------------------------------------------------------------
(* load(): the spinner goes on and the list is asked for.                  *)

LoadCall(p, n, adding) ==
    [NoCall EXCEPT !.kind = IF p = "domains" THEN "list" ELSE "instance",
                   !.step = "sent", !.order = n, !.adding = adding, !.open = TRUE]

OpenList(p, c) ==
    /\ shown.at = "closed" /\ IdleCall(c)
    /\ shown' = [Closed EXCEPT !.at = p, !.loading = p # "setup", !.sent = 1]
    /\ calls' = [calls EXCEPT ![c] = LoadCall(p, 1, FALSE)]
    /\ UNCHANGED <<controlPlane, told>>

(* Unmounted: a command goes on, what a load brings is dropped (the setup   *)
(* page does it with its `cancelled` flag), and so is the load here.       *)
CloseList ==
    /\ shown.at # "closed"
    /\ shown' = Closed
    /\ calls' = [c \in PageCalls |->
                   IF calls[c].kind \in Loads THEN NoCall
                   ELSE [calls[c] EXCEPT !.open = FALSE]]
    /\ told' = {[t EXCEPT !.order = 0] : t \in told}
    /\ UNCHANGED controlPlane

(* The refresh button is never disabled.                                   *)
RefreshList(c) ==
    /\ shown.at \in {"domains", "user-management"} /\ IdleCall(c)
    /\ shown.sent < MaxLoads
    /\ shown' = [shown EXCEPT !.loading = TRUE, !.sent = @ + 1]
    /\ calls' = [calls EXCEPT ![c] = LoadCall(shown.at, shown.sent + 1, FALSE)]
    /\ UNCHANGED <<controlPlane, told>>

addDomain(c, d) ==
    /\ AddShown /\ IdleCall(c)
    /\ shown' = [shown EXCEPT !.creating = TRUE]
    /\ calls' = [calls EXCEPT ![c] = [NoCall EXCEPT
           !.kind = "add", !.domain = d, !.step = "sent", !.open = TRUE]]
    /\ UNCHANGED <<controlPlane, told>>

(* Two seconds after any copy the mark goes, be it of a later copy: nothing *)
(* cancels the timer of the earlier one.                                   *)
copyCommand(i) ==
    /\ shown.at = "setup"
    /\ shown' = [shown EXCEPT !.copied = {i}, !.fading = @ \cup {i}]
    /\ UNCHANGED <<controlPlane, told, calls>>

CopiedFades(i) ==
    /\ i \in shown.fading
    /\ shown' = [shown EXCEPT !.copied = {}, !.fading = @ \ {i}]
    /\ UNCHANGED <<controlPlane, told, calls>>

verifyDomain(c, d) ==
    /\ VerifyShown(d) /\ IdleCall(c)
    /\ calls' = [calls EXCEPT ![c] = [NoCall EXCEPT
           !.kind = "verify", !.domain = d, !.step = "sent", !.open = TRUE]]
    /\ UNCHANGED <<controlPlane, told, shown>>

---------------------------------------------------------------------------
(* The control plane.  Others work on the same domains: other windows and  *)
(* the command line add and delete them, and they and the background       *)
(* worker check them.  (Two checks of one row by others are one here, and a *)
(* check of a VERIFIED row writes nothing that an earlier check could not:  *)
(* what checks may do to each other is CustomDomains' matter.)             *)

OthersAdd(d) ==
    /\ registry[d] = "absent"
    /\ registry' = [registry EXCEPT ![d] = "PENDING"]
    /\ UNCHANGED <<checks, version, told, shown, calls>>

OthersDelete(d) ==
    /\ registry[d] # "absent"
    /\ registry' = [registry EXCEPT ![d] = "absent"]
    /\ UNCHANGED <<checks, version, told, shown, calls>>

CheckReads(d) ==
    /\ registry[d] = "PENDING"
    /\ checks' = checks \cup {d}
    /\ UNCHANGED <<registry, version, told, shown, calls>>

(* A check saves the whole row it read, with the token found or not, and   *)
(* whatever became of the row: PENDING over VERIFIED, or a deleted row.    *)
Saved(status) == {status, "VERIFIED"}

CheckSaves(d) ==
    /\ d \in checks
    /\ \E s \in Saved("PENDING") : registry' = [registry EXCEPT ![d] = s]
    /\ checks' = checks \ {d}
    /\ UNCHANGED <<version, told, shown, calls>>

(* A call may fail after it took effect, and its answer is lost.           *)
Fails(c) ==
    /\ calls[c].step \in {"sent", "checking", "answered"}
    /\ calls' = [calls EXCEPT ![c].step = "failed", ![c].status = "absent",
                              ![c].got = NoDomains, ![c].version = 0]
    /\ UNCHANGED <<controlPlane, told, shown>>

InstanceAnswer(c) ==
    /\ calls[c].step = "sent" /\ calls[c].kind = "instance"
    /\ calls' = [calls EXCEPT ![c].step = "answered"]
    /\ UNCHANGED <<controlPlane, told, shown>>

ListAnswer(c) ==
    /\ calls[c].step = "sent" /\ calls[c].kind = "list"
    /\ calls' = [calls EXCEPT ![c].step = "answered", ![c].got = registry,
                              ![c].version = version]
    /\ UNCHANGED <<controlPlane, told, shown>>

(* verifyDomain reads the row (none: 404), looks the token up and saves    *)
(* the row it read.                                                        *)
VerifyReads(c) ==
    /\ calls[c].step = "sent" /\ calls[c].kind = "verify"
    /\ registry[calls[c].domain] # "absent"
    /\ calls' = [calls EXCEPT ![c].step = "checking",
                              ![c].status = registry[calls[c].domain]]
    /\ UNCHANGED <<controlPlane, told, shown>>

(* What the user's command writes.  A check that does not find the token   *)
(* is answered too, with the status it read.                               *)
Statement(call) ==
    CASE call.kind = "verify" /\ call.step = "checking" -> Saved(call.status)
      [] call.kind = "add" /\ call.step = "sent"
             /\ registry[call.domain] = "absent" -> {"PENDING"}
      [] OTHER -> {}

CommandAnswer(c) ==
    /\ version < MaxCommands
    /\ \E s \in Statement(calls[c]) :
          registry' = [registry EXCEPT ![calls[c].domain] = s]
    /\ version' = version + 1
    /\ calls' = [calls EXCEPT ![c].step = "answered", ![c].status = "absent",
                              ![c].version = version + 1]
    /\ UNCHANGED <<checks, told, shown>>

---------------------------------------------------------------------------
(* The answers reach the page.                                             *)

Finish(c) == calls' = [calls EXCEPT ![c] = NoCall]

(* try, catch and finally of load(); addDomain awaits its own load, which  *)
(* never throws, before its own finally.                                   *)
ListApply(c) ==
    LET ok == calls[c].step = "answered" IN
    /\ calls[c].step \in {"answered", "failed"} /\ calls[c].kind \in Loads
    /\ shown' = [shown EXCEPT
                    !.loading = FALSE,
                    !.error = ~ok,
                    !.rows = IF ok THEN calls[c].got ELSE @,
                    !.version = IF ok THEN calls[c].version ELSE @,
                    !.loaded = @ \/ ok,
                    !.applied = calls[c].order,
                    !.creating = @ /\ ~calls[c].adding]
    /\ Finish(c)
    /\ UNCHANGED <<controlPlane, told>>

Answered(c) ==
    calls[c].step = "answered" /\ calls[c].kind \in {"add", "verify"}

(* The user knows, and the load of the command will be the next one.       *)
Tell(c) ==
    told' = told \cup {[version |-> calls[c].version, order |-> shown.sent + 1]}

(* A plausible slip: the command is answered and the list is left as it is. *)
CommandSucceedsNoReload(c) ==
    /\ Answered(c) /\ calls[c].open /\ shown.sent < MaxLoads
    /\ Tell(c)
    /\ shown' = [shown EXCEPT !.creating = @ /\ calls[c].kind # "add"]
    /\ Finish(c)
    /\ UNCHANGED controlPlane

(* A command that succeeds goes on with load() in the same call.           *)
CommandSucceeds(c) ==
    /\ Answered(c) /\ calls[c].open /\ shown.sent < MaxLoads
    /\ Tell(c)
    /\ shown' = [shown EXCEPT !.loading = TRUE, !.sent = @ + 1]
    /\ calls' = [calls EXCEPT ![c] =
                    LoadCall("domains", shown.sent + 1, calls[c].kind = "add")]
    /\ UNCHANGED controlPlane

CommandUnheard(c) ==
    /\ Answered(c) /\ ~calls[c].open
    /\ Finish(c)
    /\ UNCHANGED <<controlPlane, told, shown>>

CommandFails(c) ==
    /\ calls[c].step = "failed" /\ calls[c].kind \in {"add", "verify"}
    /\ shown' = IF ~calls[c].open THEN shown
               ELSE [shown EXCEPT !.error = TRUE,
                                 !.creating = @ /\ calls[c].kind # "add"]
    /\ Finish(c)
    /\ UNCHANGED <<controlPlane, told>>

ListNext ==
    \/ CloseList
    \/ \E d \in Domains :
        OthersAdd(d) \/ OthersDelete(d) \/ CheckReads(d) \/ CheckSaves(d)
    \/ \E c \in PageCalls :
        \/ \E p \in ListPageNames : OpenList(p, c)
        \/ RefreshList(c)
        \/ \E d \in Domains : addDomain(c, d) \/ verifyDomain(c, d)
        \/ Fails(c) \/ InstanceAnswer(c) \/ ListAnswer(c) \/ VerifyReads(c) \/ CommandAnswer(c)
        \/ ListApply(c)
        \/ CommandSucceeds(c) \/ CommandUnheard(c) \/ CommandFails(c)
    \/ \E i \in Steps : copyCommand(i) \/ CopiedFades(i)

ListSpec == ListInit /\ [][ListNext]_listVars

---------------------------------------------------------------------------
(* The list on the domains page was given after every command the user     *)
(* knows to have succeeded, be the page still the same or opened since,    *)
(* unless it is the answer of a load that was sent before the command's    *)
(* own: that one is still in the air, or was overtaken, for loads overlap  *)
(* and are applied as they arrive (addDomain, verifyDomain and load of the *)
(* domains page).  What the list then says of the domain is up to others:  *)
(* a check of theirs may have written PENDING back, or they deleted it.    *)
OwnCommandsAreShown ==
    (shown.at = "domains" /\ shown.loaded /\ ~shown.error) =>
        \A t \in told :
            \/ t.version <= shown.version
            \/ shown.applied < t.order /\ t.order <= shown.sent

=============================================================================

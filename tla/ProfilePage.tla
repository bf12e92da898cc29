---------------------------- MODULE ProfilePage ----------------------------
(***************************************************************************)
(* The profile page: a form for the display name, a form for the password  *)
(* and a modal that deletes the account.  All three call /api/auth/me,     *)
(* while the user goes on typing, closes and reopens the modal, leaves the *)
(* page and comes back to a new one.                                       *)
(***************************************************************************)
EXTENDS Naturals, FiniteSets

CONSTANTS
    ProfileCalls,   \* bound: calls in the air at once
    MaxMounts       \* bound: times the page is mounted

ASSUME ProfileAssumption == MaxMounts \in Nat

VARIABLES
    session,        \* "loading", or the plan of the session provider's user
    profile,        \* the page's React state
    meCalls         \* [call -> the request, and the page that made it]

profileVars == <<session, profile, meCalls>>

Forms == {"name", "password", "delete"}
NameFields == {"blank", "unchanged", "changed"}
PasswordFields == {"incomplete", "short", "mismatch", "ready"}

Plans == {"FREE", "PRO"}

NoProfile == [mounted |-> FALSE, visit |-> 0, initialized |-> FALSE,
              name |-> "blank", passwords |-> "incomplete",
              busy |-> [f \in Forms |-> FALSE],
              told |-> [f \in Forms |-> "nothing"],
              modal |-> FALSE, typed |-> FALSE]

NoMeCall == [for |-> "none", visit |-> 0, step |-> "idle"]

ProfileTypeOK ==
    /\ session \in Plans \cup {"loading"}
    /\ profile \in [mounted : BOOLEAN, visit : 0..MaxMounts,
                    initialized : BOOLEAN, name : NameFields,
                    passwords : PasswordFields,
                    busy : [Forms -> BOOLEAN],
                    told : [Forms -> {"nothing", "error", "success"}],
                    modal : BOOLEAN, typed : BOOLEAN]
    /\ meCalls \in [ProfileCalls ->
           [for : Forms \cup {"none"}, visit : 0..MaxMounts,
            step : {"idle", "sent", "refused", "done"}]]

ProfileInit ==
    /\ session = "loading"
    /\ profile = NoProfile
    /\ meCalls = [c \in ProfileCalls |-> NoMeCall]

---------------------------------------------------------------------------
(* What the page lets the user do.                                         *)

SaveNameShown == ~profile.busy["name"] /\ profile.name = "changed"
ChangePasswordShown ==
    ~profile.busy["password"] /\ profile.passwords # "incomplete"

(* Until the session is known the page takes the user for a nameless one   *)
(* on the free plan.                                                       *)
plan == IF session = "loading" THEN "FREE" ELSE session
IdentityCard == [badge |-> plan, named |-> session # "loading"]
UpgradeShown == IdentityCard.badge = "FREE"

(* The modal's button: the phrase is typed, and no deletion is running.    *)
DeleteShown == profile.modal /\ profile.typed /\ ~profile.busy["delete"]

---------------------------------------------------------------------------
SessionLoads ==
    /\ session = "loading"
    /\ session' \in Plans
    /\ UNCHANGED <<profile, meCalls>>

OpenProfile ==
    /\ ~profile.mounted /\ profile.visit < MaxMounts
    /\ profile' = [NoProfile EXCEPT !.mounted = TRUE,
                                    !.visit = profile.visit + 1]
    /\ UNCHANGED <<session, meCalls>>

LeaveProfile ==
    /\ profile.mounted
    /\ profile' = [NoProfile EXCEPT !.visit = profile.visit]
    /\ UNCHANGED <<session, meCalls>>

(* The plan card's link to the billing page.                               *)
Upgrade == UpgradeShown /\ LeaveProfile

(* The effect copies the session's name into the field once.               *)
Initialize ==
    /\ profile.mounted /\ IdentityCard.named /\ ~profile.initialized
    /\ profile' = [profile EXCEPT !.name = "unchanged", !.initialized = TRUE]
    /\ UNCHANGED <<session, meCalls>>

TypeName ==
    /\ profile.mounted
    /\ \E v \in NameFields : profile' = [profile EXCEPT !.name = v]
    /\ UNCHANGED <<session, meCalls>>

TypePasswords ==
    /\ profile.mounted
    /\ \E v \in PasswordFields : profile' = [profile EXCEPT !.passwords = v]
    /\ UNCHANGED <<session, meCalls>>

OpenModal ==
    /\ profile.mounted /\ ~profile.modal
    /\ profile' = [profile EXCEPT !.modal = TRUE, !.typed = FALSE]
    /\ UNCHANGED <<session, meCalls>>

TypePhrase ==
    /\ profile.modal
    /\ profile' = [profile EXCEPT !.typed = ~profile.typed]
    /\ UNCHANGED <<session, meCalls>>

(* A plausible slip: closing the modal also resets its spinner.            *)
CancelModalAndSpinner ==
    /\ profile.modal
    /\ profile' = [profile EXCEPT !.modal = FALSE, !.typed = FALSE,
                                  !.busy["delete"] = FALSE]
    /\ UNCHANGED <<session, meCalls>>

(* Cancel, the cross and the backdrop work while the deletion runs.        *)
CancelModal ==
    /\ profile.modal
    /\ profile' = [profile EXCEPT !.modal = FALSE, !.typed = FALSE]
    /\ UNCHANGED <<session, meCalls>>

---------------------------------------------------------------------------
SendMe(c, f) ==
    /\ meCalls[c] = NoMeCall
    /\ meCalls' = [meCalls EXCEPT ![c] =
                      [for |-> f, visit |-> profile.visit, step |-> "sent"]]
    /\ profile' = [profile EXCEPT !.busy[f] = TRUE, !.told[f] = "nothing"]
    /\ UNCHANGED session

saveName(c) == SaveNameShown /\ SendMe(c, "name")

(* The checks before the request tell an error and send nothing.           *)
refusePassword ==
    /\ ChangePasswordShown /\ profile.passwords \in {"mismatch", "short"}
    /\ profile' = [profile EXCEPT !.told["password"] = "error"]
    /\ UNCHANGED <<session, meCalls>>

changePassword(c) ==
    ChangePasswordShown /\ profile.passwords = "ready" /\ SendMe(c, "password")

deleteAccount(c) == DeleteShown /\ SendMe(c, "delete")

(* Neither the web app nor the control plane serves PUT or DELETE on       *)
(* /api/auth/me: the answer is a 404, or no answer at all.                 *)
MeAnswers == {"refused"}

MeAnswer(c) ==
    /\ meCalls[c].step = "sent"
    /\ \E a \in MeAnswers : meCalls' = [meCalls EXCEPT ![c].step = a]
    /\ UNCHANGED <<session, profile>>

MeAnswered(c, f) ==
    /\ meCalls[c].step \in {"refused", "done"} /\ meCalls[c].for = f
    /\ meCalls' = [meCalls EXCEPT ![c] = NoMeCall]
    /\ UNCHANGED session

OnPage(c) == profile.mounted /\ meCalls[c].visit = profile.visit

(* catch and finally of saveName and of changePassword.                    *)
FormApply(c, f) ==
    /\ f # "delete"
    /\ LET done == meCalls[c].step = "done" IN
       profile' = IF ~OnPage(c) THEN profile
                  ELSE [profile EXCEPT
                           !.busy[f] = FALSE,
                           !.told[f] = IF done THEN "success" ELSE "error",
                           !.passwords = IF done /\ f = "password"
                                         THEN "incomplete" ELSE @]
    /\ MeAnswered(c, f)

(* A deletion that fails closes the modal and says nothing; one that       *)
(* succeeds leaves for the sign-in page.                                   *)
DeleteApply(c) ==
    /\ profile' = IF meCalls[c].step = "done"
                  THEN [NoProfile EXCEPT !.visit = profile.visit]
                  ELSE IF OnPage(c)
                  THEN [profile EXCEPT !.busy["delete"] = FALSE,
                                       !.modal = FALSE, !.typed = FALSE]
                  ELSE profile
    /\ MeAnswered(c, "delete")

ProfileNext ==
    \/ SessionLoads \/ OpenProfile \/ LeaveProfile \/ Upgrade
    \/ Initialize
    \/ TypeName \/ TypePasswords \/ OpenModal \/ TypePhrase \/ CancelModal
    \/ refusePassword
    \/ \E c \in ProfileCalls :
        \/ saveName(c) \/ changePassword(c) \/ deleteAccount(c)
        \/ MeAnswer(c)
        \/ \E f \in Forms : FormApply(c, f)
        \/ DeleteApply(c)

ProfileSpec == ProfileInit /\ [][ProfileNext]_profileVars

---------------------------------------------------------------------------
(* The page never has two requests of one form in the air, however the     *)
(* modal is closed and opened again while the first one runs (the disabled *)
(* buttons of the two forms and of DeleteModal are all that prevents it).  *)
OneCallPerForm ==
    profile.mounted =>
        \A f \in Forms :
            /\ Cardinality({c \in ProfileCalls :
                   meCalls[c].for = f /\ meCalls[c].visit = profile.visit}) <= 1
            /\ profile.busy[f] <=> \E c \in ProfileCalls :
                   meCalls[c].for = f /\ meCalls[c].visit = profile.visit

=============================================================================

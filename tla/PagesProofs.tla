----------------------------- MODULE PagesProofs -----------------------------
(***************************************************************************)
(* Theorems about the dashboard's pages that load, poll and save on their  *)
(* own: the profile page, the pages that load once and the live lists.     *)
(***************************************************************************)
EXTENDS ProfilePage, ListPages, RequestFeed, FiniteSetTheorems, WellFoundedInduction, TLAPS

-----------------------------------------------------------------------------
(***************************************************************************)
(* The profile page, for any number of calls and visits: one request of a  *)
(* form at a time.                                                         *)
(*                                                                         *)
(* What is inductive is that a mounted page's spinners are its calls in    *)
(* the air, one each, and that no call is of a visit that is still to      *)
(* come; calls of earlier visits may be in any number.                     *)
(***************************************************************************)

Profiles ==
  [mounted : BOOLEAN, visit : 0 .. MaxMounts, initialized : BOOLEAN,
   name : NameFields, passwords : PasswordFields, busy : [Forms -> BOOLEAN],
   told : [Forms -> {"nothing", "error", "success"}], modal : BOOLEAN, typed : BOOLEAN]

(* The calls of the page that is open, in cs.                              *)
InTheAir(c, f, cs) == cs[c].for = f /\ cs[c].visit = profile.visit

ProfileInv ==
  /\ ProfileTypeOK
  /\ ~profile.mounted => ~profile.modal /\ profile.name = "blank" /\ profile.passwords = "incomplete"
  /\ \A c \in ProfileCalls : /\ meCalls[c].visit <= profile.visit
                             /\ meCalls[c].step # "idle" => meCalls[c].for # "none"
                             /\ meCalls[c].step # "done"
  /\ profile.mounted => \A f \in Forms :
       /\ profile.busy[f] <=> \E c \in ProfileCalls : InTheAir(c, f, meCalls)
       /\ \A c, d \in ProfileCalls : InTheAir(c, f, meCalls) /\ InTheAir(d, f, meCalls) => c = d

LEMMA ProfileRecords ==
  ASSUME ProfileTypeOK
  PROVE  /\ NoMeCall \in [for : Forms \cup {"none"}, visit : 0 .. MaxMounts,
                          step : {"idle", "sent", "refused", "done"}]
         /\ NoMeCall.for = "none" /\ NoMeCall.visit = 0 /\ NoMeCall.step = "idle"
         /\ NoMeCall.for \notin Forms /\ profile.visit \in Nat
BY ProfileAssumption DEF ProfileTypeOK, NoMeCall, Forms

(* The page opens, or is left: what it knew of its calls is gone.          *)
LEMMA FreshPage ==
  ASSUME ProfileInv, session' = session, meCalls' = meCalls, profile' \in Profiles,
         profile'.visit >= profile.visit,
         profile'.mounted => profile'.visit > profile.visit,
         ~profile'.modal, profile'.name = "blank", profile'.passwords = "incomplete",
         \A f \in Forms : ~profile'.busy[f]
  PROVE  ProfileInv'
<1>1. ProfileTypeOK'
  BY DEF ProfileInv, ProfileTypeOK, Profiles
<1>2. \A c \in ProfileCalls : meCalls[c].visit \in Nat /\ meCalls[c].visit <= profile.visit
  BY DEF ProfileInv, ProfileTypeOK
<1>3. profile.visit \in Nat /\ profile'.visit \in Nat
  BY ProfileRecords DEF ProfileInv, Profiles
<1>4. profile'.mounted => \A c \in ProfileCalls, f \in Forms : ~InTheAir(c, f, meCalls)'
  BY <1>2, <1>3 DEF InTheAir
<1>5. \A c \in ProfileCalls : meCalls'[c].visit <= profile'.visit
  BY <1>2, <1>3
<1> QED BY <1>1, <1>4, <1>5 DEF ProfileInv, InTheAir

LEMMA VisitsKeep ==
  ASSUME ProfileInv, OpenProfile \/ LeaveProfile \/ Upgrade
  PROVE  ProfileInv'
<1>1. profile.visit \in Nat /\ profile.visit \in 0 .. MaxMounts
  BY ProfileAssumption DEF ProfileInv, ProfileTypeOK
<1>2. /\ NoProfile \in [mounted : {FALSE}, visit : {0}, initialized : BOOLEAN,
                        name : NameFields, passwords : PasswordFields, busy : [Forms -> BOOLEAN],
                        told : [Forms -> {"nothing", "error", "success"}],
                        modal : BOOLEAN, typed : BOOLEAN]
      /\ ~NoProfile.modal /\ NoProfile.name = "blank" /\ NoProfile.passwords = "incomplete"
      /\ \A f \in Forms : ~NoProfile.busy[f]
  BY DEF NoProfile, NameFields, PasswordFields
<1>3. /\ profile' \in Profiles
      /\ profile'.visit >= profile.visit /\ (profile'.mounted => profile'.visit > profile.visit)
      /\ ~profile'.modal /\ profile'.name = "blank" /\ profile'.passwords = "incomplete"
      /\ \A f \in Forms : ~profile'.busy[f]
  <2>1. CASE OpenProfile
    <3>1. profile.visit + 1 \in 0 .. MaxMounts
      BY <1>1, <2>1, ProfileAssumption DEF OpenProfile
    <3>2. profile' = [NoProfile EXCEPT !.mounted = TRUE, !.visit = profile.visit + 1]
      BY <2>1 DEF OpenProfile
    <3>3. profile' \in Profiles
      BY <1>2, <3>1, <3>2 DEF Profiles
    <3>4. /\ profile'.visit = profile.visit + 1 /\ profile'.modal = NoProfile.modal
          /\ profile'.name = NoProfile.name /\ profile'.passwords = NoProfile.passwords
          /\ profile'.busy = NoProfile.busy
      BY <1>2, <3>2
    <3> QED BY <1>1, <1>2, <3>3, <3>4
  <2>2. CASE LeaveProfile
    <3>1. profile' = [NoProfile EXCEPT !.visit = profile.visit]
      BY <2>2 DEF LeaveProfile
    <3>2. profile' \in Profiles
      BY <1>1, <1>2, <3>1 DEF Profiles
    <3>3. /\ profile'.visit = profile.visit /\ profile'.modal = NoProfile.modal
          /\ profile'.name = NoProfile.name /\ profile'.passwords = NoProfile.passwords
          /\ profile'.busy = NoProfile.busy /\ ~profile'.mounted
      BY <1>2, <3>1
    <3> QED BY <1>1, <1>2, <3>2, <3>3
  <2> QED BY <2>1, <2>2 DEF Upgrade
<1>4. UNCHANGED <<session, meCalls>>
  BY DEF OpenProfile, LeaveProfile, Upgrade
<1> QED BY <1>3, <1>4, FreshPage

(* The user types, and opens and closes the modal: no spinner moves.       *)
LEMMA SpinnersStay ==
  ASSUME ProfileInv, meCalls' = meCalls, ProfileTypeOK',
         profile'.mounted = profile.mounted, profile'.visit = profile.visit,
         profile'.busy = profile.busy,
         profile.mounted \/ profile' = profile
  PROVE  ProfileInv'
BY DEF ProfileInv, InTheAir

LEMMA TypingKeeps ==
  ASSUME ProfileInv,
         \/ SessionLoads \/ Initialize \/ TypeName \/ TypePasswords \/ OpenModal
         \/ TypePhrase \/ CancelModal \/ refusePassword
  PROVE  ProfileInv'
<1>1. /\ ProfileTypeOK /\ meCalls' = meCalls /\ (profile.modal => profile.mounted)
      /\ profile.passwords # "incomplete" => profile.mounted
  BY DEF ProfileInv, SessionLoads, Initialize, TypeName, TypePasswords, OpenModal, TypePhrase,
     CancelModal, refusePassword
<1>2. CASE SessionLoads
  BY <1>1, <1>2, SpinnersStay DEF SessionLoads, ProfileTypeOK
<1>3. CASE Initialize
  BY <1>1, <1>3, SpinnersStay DEF Initialize, ProfileTypeOK, NameFields
<1>4. CASE TypeName
  BY <1>1, <1>4, SpinnersStay DEF TypeName, ProfileTypeOK
<1>5. CASE TypePasswords
  BY <1>1, <1>5, SpinnersStay DEF TypePasswords, ProfileTypeOK
<1>6. CASE OpenModal
  BY <1>1, <1>6, SpinnersStay DEF OpenModal, ProfileTypeOK
<1>7. CASE TypePhrase
  BY <1>1, <1>7, SpinnersStay DEF TypePhrase, ProfileTypeOK
<1>8. CASE CancelModal
  BY <1>1, <1>8, SpinnersStay DEF CancelModal, ProfileTypeOK
<1>9. CASE refusePassword
  BY <1>1, <1>9, SpinnersStay DEF refusePassword, ChangePasswordShown, ProfileTypeOK, Forms
<1> QED BY <1>2, <1>3, <1>4, <1>5, <1>6, <1>7, <1>8, <1>9

LEMMA SendMeKeeps ==
  ASSUME ProfileInv, NEW c \in ProfileCalls, NEW f \in Forms, SendMe(c, f),
         profile.mounted, ~profile.busy[f]
  PROVE  ProfileInv'
<1> DEFINE call == [for |-> f, visit |-> profile.visit, step |-> "sent"]
<1>1. /\ ProfileTypeOK /\ profile.visit \in 0 .. MaxMounts
      /\ meCalls' = [meCalls EXCEPT ![c] = call] /\ session' = session
      /\ meCalls[c] = NoMeCall
  BY DEF ProfileInv, ProfileTypeOK, SendMe
<1>2. /\ profile'.mounted = profile.mounted /\ profile'.visit = profile.visit
      /\ profile'.modal = profile.modal
      /\ profile'.busy[f] /\ \A g \in Forms \ {f} : profile'.busy[g] = profile.busy[g]
      /\ profile' \in [mounted : BOOLEAN, visit : 0 .. MaxMounts, initialized : BOOLEAN,
                       name : NameFields, passwords : PasswordFields, busy : [Forms -> BOOLEAN],
                       told : [Forms -> {"nothing", "error", "success"}],
                       modal : BOOLEAN, typed : BOOLEAN]
  BY <1>1 DEF SendMe, ProfileTypeOK
<1>3. ProfileTypeOK'
  BY <1>1, <1>2 DEF ProfileTypeOK
<1>4. \A g \in Forms : ~InTheAir(c, g, meCalls)
  BY <1>1, ProfileRecords DEF InTheAir
<1>5. \A d \in ProfileCalls, g \in Forms :
        InTheAir(d, g, meCalls)' <=> (IF d = c THEN g = f ELSE InTheAir(d, g, meCalls))
  BY <1>1, <1>2 DEF InTheAir, ProfileTypeOK
<1>6. \A d \in ProfileCalls : ~InTheAir(d, f, meCalls)
  BY DEF ProfileInv
<1>7. \A d \in ProfileCalls : /\ meCalls'[d].visit <= profile'.visit
                              /\ meCalls'[d].step # "idle" => meCalls'[d].for # "none"
                              /\ meCalls'[d].step # "done"
  <2>1. f # "none" /\ profile.visit \in Nat
    BY ProfileRecords DEF ProfileInv, Forms
  <2> QED BY <1>1, <1>2, <2>1 DEF ProfileInv, ProfileTypeOK
<1>8. ASSUME NEW g \in Forms
      PROVE  /\ profile'.busy[g] <=> \E d \in ProfileCalls : InTheAir(d, g, meCalls)'
             /\ \A d, e \in ProfileCalls :
                   InTheAir(d, g, meCalls)' /\ InTheAir(e, g, meCalls)' => d = e
  <2>1. CASE g = f
    BY <1>2, <1>5, <1>6, <2>1
  <2>2. CASE g # f
    <3>1. \A d \in ProfileCalls : InTheAir(d, g, meCalls)' <=> InTheAir(d, g, meCalls)
      BY <1>4, <1>5, <2>2
    <3> QED BY <1>2, <2>2, <3>1 DEF ProfileInv
  <2> QED BY <2>1, <2>2
<1> QED BY <1>2, <1>3, <1>7, <1>8 DEF ProfileInv

LEMMA SendsKeep ==
  ASSUME ProfileInv, NEW c \in ProfileCalls, saveName(c) \/ changePassword(c) \/ deleteAccount(c)
  PROVE  ProfileInv'
<1>1. PICK f \in Forms : SendMe(c, f) /\ ~profile.busy[f] /\ (f = "delete" => profile.modal)
  BY DEF saveName, SaveNameShown, changePassword, ChangePasswordShown, deleteAccount, DeleteShown, Forms
<1>2. profile.mounted
  BY DEF saveName, SaveNameShown, changePassword, ChangePasswordShown, deleteAccount, DeleteShown, ProfileInv
<1> QED BY <1>1, <1>2, SendMeKeeps

(* An answer is taken off, and the spinner of its form with it, on the page *)
(* that asked.                                                             *)
LEMMA MeAnsweredKeeps ==
  ASSUME ProfileInv, NEW c \in ProfileCalls, NEW f \in Forms, MeAnswered(c, f),
         profile' \in Profiles, profile'.mounted = profile.mounted,
         profile'.visit = profile.visit,
         ~profile.mounted => profile' = profile,
         \A g \in Forms : profile'.busy[g] = IF OnPage(c) /\ g = f THEN FALSE ELSE profile.busy[g]
  PROVE  ProfileInv'
<1>1. /\ ProfileTypeOK /\ meCalls' = [meCalls EXCEPT ![c] = NoMeCall] /\ session' = session
      /\ meCalls[c].for = f
  BY DEF ProfileInv, MeAnswered
<1>2. ProfileTypeOK'
  BY <1>1, ProfileRecords DEF ProfileTypeOK, Profiles
<1>3. \A d \in ProfileCalls : /\ meCalls'[d].visit <= profile'.visit
                              /\ meCalls'[d].step # "idle" => meCalls'[d].for # "none"
                              /\ meCalls'[d].step # "done"
  <2> SUFFICES ASSUME NEW d \in ProfileCalls
               PROVE  /\ meCalls'[d].visit <= profile'.visit
                      /\ meCalls'[d].step # "idle" => meCalls'[d].for # "none"
                      /\ meCalls'[d].step # "done"
    OBVIOUS
  <2>1. CASE d = c
    <3>1. meCalls'[d] = NoMeCall
      BY <1>1, <2>1 DEF ProfileTypeOK
    <3> QED BY <1>1, <3>1, ProfileRecords
  <2>2. CASE d # c
    <3>1. meCalls'[d] = meCalls[d]
      BY <1>1, <2>2 DEF ProfileTypeOK
    <3> QED BY <3>1 DEF ProfileInv
  <2> QED BY <2>1, <2>2
<1>4. \A d \in ProfileCalls, g \in Forms :
        InTheAir(d, g, meCalls)' <=> d # c /\ InTheAir(d, g, meCalls)
  BY <1>1, ProfileRecords DEF InTheAir, ProfileTypeOK
<1>5. ASSUME profile.mounted, NEW g \in Forms
      PROVE  /\ profile'.busy[g] <=> \E d \in ProfileCalls : InTheAir(d, g, meCalls)'
             /\ \A d, e \in ProfileCalls :
                   InTheAir(d, g, meCalls)' /\ InTheAir(e, g, meCalls)' => d = e
  <2>1. /\ profile.busy[g] <=> \E d \in ProfileCalls : InTheAir(d, g, meCalls)
        /\ \A d, e \in ProfileCalls :
              InTheAir(d, g, meCalls) /\ InTheAir(e, g, meCalls) => d = e
    BY <1>5 DEF ProfileInv
  <2>2. CASE OnPage(c) /\ g = f
    <3>1. InTheAir(c, g, meCalls) /\ profile'.busy[g] = FALSE
      BY <1>1, <2>2 DEF OnPage, InTheAir
    <3> QED BY <1>4, <2>1, <3>1
  <2>3. CASE ~(OnPage(c) /\ g = f)
    <3>1. ~InTheAir(c, g, meCalls) /\ profile'.busy[g] = profile.busy[g]
      BY <1>1, <1>5, <2>3 DEF OnPage, InTheAir
    <3> QED BY <1>4, <2>1, <3>1
  <2> QED BY <2>2, <2>3
<1> QED BY <1>2, <1>3, <1>5 DEF ProfileInv

LEMMA MeAnswerKeeps ==
  ASSUME ProfileInv, NEW c \in ProfileCalls, MeAnswer(c)
  PROVE  ProfileInv'
<1>1. ProfileTypeOK /\ UNCHANGED <<session, profile>>
  BY DEF ProfileInv, MeAnswer
<1>2. PICK a \in {"refused"} : meCalls' = [meCalls EXCEPT ![c].step = a]
  BY DEF MeAnswer, MeAnswers
<1>3. ProfileTypeOK'
  BY <1>1, <1>2 DEF ProfileTypeOK
<1>4. \A d \in ProfileCalls : meCalls'[d].for = meCalls[d].for /\ meCalls'[d].visit = meCalls[d].visit
  BY <1>1, <1>2 DEF ProfileTypeOK
<1>5. \A d \in ProfileCalls : /\ meCalls'[d].step # "idle" => meCalls'[d].for # "none"
                              /\ meCalls'[d].step # "done"
  <2>1. meCalls[c].for # "none" /\ meCalls'[c].step = "refused"
    BY <1>1, <1>2 DEF ProfileInv, ProfileTypeOK, MeAnswer
  <2>2. \A d \in ProfileCalls \ {c} : meCalls'[d] = meCalls[d]
    BY <1>1, <1>2 DEF ProfileTypeOK
  <2> QED BY <1>4, <2>1, <2>2 DEF ProfileInv
<1> QED BY <1>1, <1>3, <1>4, <1>5 DEF ProfileInv, InTheAir

LEMMA ProfileAppliesKeep ==
  ASSUME ProfileInv, NEW c \in ProfileCalls, NEW f \in Forms, FormApply(c, f)
  PROVE  ProfileInv'
<1> DEFINE done == meCalls[c].step = "done"
           new == [profile EXCEPT !.busy[f] = FALSE,
                                  !.told[f] = IF done THEN "success" ELSE "error",
                                  !.passwords = IF done /\ f = "password"
                                                THEN "incomplete" ELSE @]
<1>1. /\ MeAnswered(c, f) /\ profile' = IF ~OnPage(c) THEN profile ELSE new
      /\ profile \in Profiles
  BY DEF FormApply, ProfileInv, ProfileTypeOK, Profiles
<1>2. /\ new \in Profiles /\ new.mounted = profile.mounted /\ new.visit = profile.visit
      /\ \A g \in Forms : new.busy[g] = IF g = f THEN FALSE ELSE profile.busy[g]
  BY <1>1 DEF Profiles, PasswordFields
<1>3. ~profile.mounted => profile' = profile
  BY <1>1 DEF OnPage
<1> HIDE DEF new
<1>4. profile' \in Profiles /\ profile'.mounted = profile.mounted /\ profile'.visit = profile.visit
      /\ \A g \in Forms : profile'.busy[g] = IF OnPage(c) /\ g = f THEN FALSE ELSE profile.busy[g]
  BY <1>1, <1>2
<1> QED BY <1>1, <1>3, <1>4, MeAnsweredKeeps

\* Nothing answers that a deletion is done: DELETE is not served.
LEMMA DeleteApplyKeeps ==
  ASSUME ProfileInv, NEW c \in ProfileCalls, DeleteApply(c)
  PROVE  ProfileInv'
<1> DEFINE new == [profile EXCEPT !.busy["delete"] = FALSE, !.modal = FALSE, !.typed = FALSE]
<1>1. /\ MeAnswered(c, "delete") /\ profile' = IF OnPage(c) THEN new ELSE profile
      /\ profile \in Profiles /\ "delete" \in Forms
  BY DEF DeleteApply, ProfileInv, ProfileTypeOK, Profiles, Forms
<1>2. /\ new \in Profiles /\ new.mounted = profile.mounted /\ new.visit = profile.visit
      /\ \A g \in Forms : new.busy[g] = IF g = "delete" THEN FALSE ELSE profile.busy[g]
  BY <1>1 DEF Profiles
<1>3. ~profile.mounted => profile' = profile
  BY <1>1 DEF OnPage
<1> HIDE DEF new
<1>4. profile' \in Profiles /\ profile'.mounted = profile.mounted /\ profile'.visit = profile.visit
      /\ \A g \in Forms : profile'.busy[g] = IF OnPage(c) /\ g = "delete" THEN FALSE ELSE profile.busy[g]
  BY <1>1, <1>2
<1> QED BY <1>1, <1>3, <1>4, MeAnsweredKeeps


LEMMA ProfileStep ==
  ASSUME ProfileInv, [ProfileNext]_profileVars
  PROVE  ProfileInv'
<1>1. CASE SessionLoads \/ Initialize \/ TypeName \/ TypePasswords \/ OpenModal
           \/ TypePhrase \/ CancelModal \/ refusePassword
  BY <1>1, TypingKeeps
<1>2. CASE OpenProfile \/ LeaveProfile \/ Upgrade
  BY <1>2, VisitsKeep
<1>3. CASE \E c \in ProfileCalls : saveName(c) \/ changePassword(c) \/ deleteAccount(c)
  BY <1>3, SendsKeep
<1>4. CASE \E c \in ProfileCalls : MeAnswer(c)
  BY <1>4, MeAnswerKeeps
<1>5. CASE \E c \in ProfileCalls, f \in Forms : FormApply(c, f)
  BY <1>5, ProfileAppliesKeep
<1>6. CASE \E c \in ProfileCalls : DeleteApply(c)
  BY <1>6, DeleteApplyKeeps
<1>7. CASE UNCHANGED profileVars
  BY <1>7 DEF profileVars, ProfileInv, ProfileTypeOK, InTheAir
<1> QED BY <1>1, <1>2, <1>3, <1>4, <1>5, <1>6, <1>7 DEF ProfileNext

LEMMA ProfileStarts ==
  ASSUME ProfileInit
  PROVE  ProfileInv
<1>1. /\ session = "loading" /\ profile = NoProfile
      /\ \A c \in ProfileCalls : meCalls[c] = NoMeCall
      /\ meCalls = [c \in ProfileCalls |-> NoMeCall]
  BY DEF ProfileInit
<1>2. ProfileTypeOK
  <2>1. profile \in Profiles
    BY <1>1, ProfileAssumption DEF Profiles, NoProfile, NameFields, PasswordFields
  <2>2. NoMeCall \in [for : Forms \cup {"none"}, visit : 0 .. MaxMounts,
                      step : {"idle", "sent", "refused", "done"}]
    BY ProfileAssumption DEF NoMeCall
  <2> QED BY <1>1, <2>1, <2>2 DEF ProfileTypeOK, Profiles
<1>3. /\ ~profile.mounted /\ ~profile.modal /\ profile.name = "blank"
      /\ profile.passwords = "incomplete" /\ profile.visit = 0
  BY <1>1 DEF NoProfile
<1>4. NoMeCall.visit = 0 /\ NoMeCall.step = "idle"
  BY DEF NoMeCall
<1> QED BY <1>1, <1>2, <1>3, <1>4 DEF ProfileInv

LEMMA ProfileInvariant == ProfileSpec => []ProfileInv
BY ProfileStarts, ProfileStep, PTL DEF ProfileSpec

(***************************************************************************)
(* THEOREM.  The page, its session and its calls keep their types.         *)
(***************************************************************************)
THEOREM ProfileTypeCorrect == ProfileSpec => []ProfileTypeOK
<1>1. ProfileInv => ProfileTypeOK
  BY DEF ProfileInv
<1> QED BY <1>1, ProfileInvariant, PTL

(* A set with no two elements has at most one.                             *)
LEMMA AtMostOne ==
  ASSUME NEW S, \A x, y \in S : x = y
  PROVE  Cardinality(S) <= 1
<1>1. CASE S = {}
  BY <1>1, FS_EmptySet
<1>2. CASE S # {}
  <2>1. PICK x \in S : TRUE
    BY <1>2
  <2>2. S = {x}
    BY <2>1
  <2> QED BY <2>2, FS_Singleton
<1> QED BY <1>1, <1>2

(***************************************************************************)
(* THEOREM.  However the user closes and reopens the modal, leaves the     *)
(* page and comes back, a page that is open has at most one request of     *)
(* each form in the air, and the form's spinner turns exactly then.        *)
(***************************************************************************)
THEOREM OneRequestAForm == ProfileSpec => []OneCallPerForm
<1>1. ASSUME ProfileInv PROVE OneCallPerForm
  <2>1. ASSUME profile.mounted, NEW f \in Forms
        PROVE  LET S == {c \in ProfileCalls : meCalls[c].for = f /\ meCalls[c].visit = profile.visit}
               IN  Cardinality(S) <= 1 /\ (profile.busy[f] <=> \E c \in ProfileCalls :
                      meCalls[c].for = f /\ meCalls[c].visit = profile.visit)
    <3> DEFINE S == {c \in ProfileCalls : meCalls[c].for = f /\ meCalls[c].visit = profile.visit}
    <3>1. \A x, y \in S : x = y
      BY <1>1, <2>1 DEF ProfileInv, InTheAir
    <3>2. profile.busy[f] <=> \E c \in ProfileCalls :
             meCalls[c].for = f /\ meCalls[c].visit = profile.visit
      BY <1>1, <2>1 DEF ProfileInv, InTheAir
    <3> HIDE DEF S
    <3>3. Cardinality(S) <= 1
      BY <3>1, AtMostOne
    <3> QED BY <3>2, <3>3 DEF S
  <2> QED BY <2>1 DEF OneCallPerForm
<1> QED BY <1>1, ProfileInvariant, PTL

-----------------------------------------------------------------------------
(***************************************************************************)
(* The pages that load once, for any number of domains, calls, commands    *)
(* and loads: a list that is older than a command the user was told of is  *)
(* the answer of a load sent before the command's own.                     *)
(*                                                                         *)
(* What is inductive is that this holds of every answer in the air too     *)
(* (CallOK), because the control plane is never behind what the user was   *)
(* told (ToldOK), and the load of a command is the newest when the user is *)
(* told.  What others do to the domains does not matter.                   *)
(***************************************************************************)
\* A list of version v that load number n brought.
Covers(v, n) == \A t \in told : t.version <= v \/ n < t.order

ToldOK == \A t \in told : t.version <= version /\ t.order <= shown.sent

CallOK(call) ==
  /\ call.version <= version
  /\ call.kind \in {"add", "verify"} =>
       /\ call.open => shown.at = "domains"
       /\ call.step = "answered" => call.version > 0
  /\ call.kind \in Loads =>
       /\ shown.at # "closed" /\ (shown.at = "domains" => call.kind = "list")
       /\ call.order \in 1 .. shown.sent
       /\ call.kind = "list" /\ call.step = "answered" => Covers(call.version, call.order)

RowsOK ==
  /\ shown.applied <= shown.sent /\ (shown.loaded => shown.applied > 0)
  /\ shown.at = "domains" /\ shown.loaded /\ ~shown.error
       => Covers(shown.version, shown.applied)
  /\ shown.at = "closed" => shown.sent = 0
  /\ \A i, j \in shown.copied : i = j

ListInv ==
  /\ ListTypeOK
  /\ ToldOK
  /\ \A c \in PageCalls : CallOK(calls[c])
  /\ RowsOK

Shown ==
  [at : ListPageNames \cup {"closed"}, loading : BOOLEAN, creating : BOOLEAN, error : BOOLEAN,
   rows : DomainRows, version : 0 .. MaxCommands, loaded : BOOLEAN, sent : 0 .. MaxLoads,
   applied : 0 .. MaxLoads, copied : SUBSET Steps, fading : SUBSET Steps]
ListCalls ==
  [kind : {"none", "add", "verify"} \cup Loads, domain : Domains \cup {"none"},
   step : {"idle", "sent", "checking", "answered", "failed"}, order : 0 .. MaxLoads,
   adding : BOOLEAN, open : BOOLEAN, status : Statuses, got : DomainRows,
   version : 0 .. MaxCommands]

LEMMA ListTypes ==
  ListTypeOK <=> /\ registry \in DomainRows /\ checks \subseteq Domains
                 /\ version \in 0 .. MaxCommands /\ told \subseteq ToldCommands
                 /\ shown \in Shown /\ calls \in [PageCalls -> ListCalls]
BY DEF ListTypeOK, Shown, ListCalls

\* The records a page and its calls start from.
LEMMA ListRecords ==
  /\ NoDomains \in DomainRows
  /\ Closed \in Shown /\ NoCall \in ListCalls
  /\ Closed.at = "closed" /\ ~Closed.error /\ ~Closed.loaded /\ Closed.sent = 0
  /\ Closed.applied = 0 /\ Closed.copied = {}
  /\ NoCall.kind = "none" /\ ~NoCall.open /\ NoCall.step = "idle" /\ NoCall.version = 0
<1>1. NoDomains \in DomainRows
  BY DEF NoDomains, DomainRows, Statuses
<1> QED BY <1>1, ListAssumption DEF Closed, Shown, NoCall, ListCalls, Statuses

LEMMA LoadCalls ==
  ASSUME NEW p, NEW n \in 0 .. MaxLoads, NEW adding \in BOOLEAN
  PROVE  /\ LoadCall(p, n, adding) \in ListCalls
         /\ LoadCall(p, n, adding).kind \in Loads
         /\ p = "domains" => LoadCall(p, n, adding).kind = "list"
         /\ LoadCall(p, n, adding).step = "sent"
         /\ LoadCall(p, n, adding).order = n /\ LoadCall(p, n, adding).version = 0
BY ListRecords DEF LoadCall, ListCalls, Loads

LEMMA ListNumbers ==
  ASSUME ListTypeOK
  PROVE  /\ version \in Nat
         /\ shown.sent \in Nat /\ shown.applied \in Nat /\ shown.version \in Nat
         /\ \A t \in told : t.version \in Nat /\ t.order \in Nat
         /\ \A c \in PageCalls : /\ calls[c] \in ListCalls
                                 /\ calls[c].version \in Nat /\ calls[c].order \in Nat
BY ListTypes, ListAssumption DEF Shown, ListCalls, ToldCommands

\* A call that is not touched stays right when the control plane only goes
\* on, and when what the user is told comes with a newer load.
LEMMA OtherCalls ==
  ASSUME ListTypeOK, ListTypeOK', NEW d \in PageCalls, calls'[d] = calls[d],
         CallOK(calls[d]), version' >= version, shown'.sent >= shown.sent,
         shown'.at = shown.at \/ shown.at = "closed",
         \A t \in told' : t \in told \/ t.order > shown.sent
  PROVE  CallOK(calls[d])'
<1>1. /\ version \in Nat /\ version' \in Nat /\ shown.sent \in Nat /\ shown'.sent \in Nat
      /\ calls[d].version \in Nat /\ calls[d].order \in Nat
      /\ \A t \in told' : t.order \in Nat
  <2>1. version' \in Nat /\ shown'.sent \in Nat /\ \A t \in told' : t.order \in Nat
    BY ListTypes, ListAssumption DEF ListTypeOK, ToldCommands
  <2> QED BY <2>1, ListNumbers
<1>2. calls[d].version <= version'
  BY <1>1 DEF CallOK
<1>3. ASSUME calls[d].kind \in Loads
      PROVE  /\ shown'.at = shown.at /\ calls[d].order \in 1 .. shown'.sent
             /\ Covers(calls[d].version, calls[d].order)
                  => \A t \in told' : t.version <= calls[d].version \/ calls[d].order < t.order
  <2>1. calls[d].order \in 1 .. shown.sent /\ shown.at # "closed"
    BY <1>3 DEF CallOK
  <2> QED BY <1>1, <2>1 DEF Covers
<1>4. calls[d].kind \in {"add", "verify"} => (calls[d].open => shown'.at = "domains")
  BY DEF CallOK
<1> QED BY <1>2, <1>3, <1>4 DEF CallOK, Covers

\* A step that changes one call, and neither the control plane nor what the
\* user was told.
LEMMA OneCallChanges ==
  ASSUME ListInv, shown' \in Shown, UNCHANGED <<controlPlane, told>>,
         NEW c \in PageCalls, NEW call \in ListCalls, calls' = [calls EXCEPT ![c] = call],
         shown'.sent >= shown.sent, shown'.at = shown.at \/ shown.at = "closed",
         CallOK(calls[c])', RowsOK'
  PROVE  ListInv'
<1>1. ListTypeOK /\ ListTypeOK'
  <2>1. calls \in [PageCalls -> ListCalls] /\ ListTypeOK
    BY ListTypes DEF ListInv
  <2>2. calls' \in [PageCalls -> ListCalls]
    BY <2>1
  <2> QED BY <2>1, <2>2, ListTypes DEF ListTypeOK, Shown, ListCalls, controlPlane
<1>2. /\ version' = version /\ told' = told
      /\ \A d \in PageCalls \ {c} : calls'[d] = calls[d]
      /\ version \in Nat /\ shown.sent \in Nat /\ shown'.sent \in Nat
      /\ \A t \in told : t.order \in Nat
  BY <1>1, ListNumbers, ListAssumption DEF ListTypeOK, controlPlane, Shown
<1>3. \A d \in PageCalls \ {c} : CallOK(calls[d])'
  BY <1>1, <1>2, OtherCalls DEF ListInv
<1>4. ToldOK'
  BY <1>2 DEF ToldOK, ListInv
<1> QED BY <1>1, <1>3, <1>4 DEF ListInv

\* A call is taken off.
LEMMA FinishKeeps ==
  ASSUME ListInv, shown' \in Shown, UNCHANGED <<controlPlane, told>>,
         NEW c \in PageCalls, Finish(c),
         shown'.at = shown.at, shown'.sent = shown.sent, RowsOK'
  PROVE  ListInv'
<1>1. /\ calls' = [calls EXCEPT ![c] = NoCall] /\ calls'[c] = NoCall
      /\ shown.sent \in Nat /\ version \in Nat /\ version' = version
  BY ListNumbers DEF Finish, ListInv, ListTypeOK, controlPlane
<1>2. CallOK(calls[c])'
  BY <1>1, ListRecords DEF CallOK, Loads
<1>3. NoCall \in ListCalls /\ shown'.sent >= shown.sent
  BY <1>1, ListRecords
<1> QED BY <1>1, <1>2, <1>3, OneCallChanges

LEMMA OpensKeep ==
  ASSUME ListInv, NEW c \in PageCalls, NEW p \in ListPageNames, OpenList(p, c)
  PROVE  ListInv'
<1> DEFINE page == [Closed EXCEPT !.at = p, !.loading = p # "setup", !.sent = 1]
           call == LoadCall(p, 1, FALSE)
<1>1. /\ shown' = page /\ calls' = [calls EXCEPT ![c] = call]
      /\ UNCHANGED <<controlPlane, told>> /\ shown.at = "closed"
  BY DEF OpenList
<1>2. 1 \in 0 .. MaxLoads /\ FALSE \in BOOLEAN
  BY ListAssumption
<1>3. /\ page \in Shown /\ page.at = p /\ page.sent = 1 /\ page.applied = 0
      /\ ~page.loaded /\ page.copied = {} /\ p # "closed"
  BY <1>2, ListRecords DEF Shown, ListPageNames
<1>4. /\ call \in ListCalls /\ call.kind \in Loads /\ (p = "domains" => call.kind = "list")
      /\ call.step = "sent" /\ call.order = 1 /\ call.version = 0
  BY <1>2, LoadCalls
<1> HIDE DEF page, call
<1>5. /\ calls'[c] = call /\ shown.sent = 0 /\ version \in Nat /\ version' = version
  BY <1>1, ListNumbers DEF ListInv, ListTypeOK, RowsOK, controlPlane
<1>6. RowsOK'
  BY <1>1, <1>3 DEF RowsOK
<1>7. CallOK(calls[c])'
  <2>1. shown'.at = p /\ shown'.sent = 1 /\ 1 \in 1 .. 1
    BY <1>1, <1>3
  <2> QED BY <1>3, <1>4, <1>5, <2>1 DEF CallOK, Loads
<1>8. shown' \in Shown /\ shown'.sent >= shown.sent
  BY <1>1, <1>3, <1>5
<1> QED BY <1>1, <1>4, <1>6, <1>7, <1>8, OneCallChanges

LEMMA ClosesKeep ==
  ASSUME ListInv, CloseList
  PROVE  ListInv'
<1>1. /\ shown' = Closed /\ UNCHANGED controlPlane /\ ListTypeOK
      /\ told' = {[t EXCEPT !.order = 0] : t \in told}
      /\ calls' = [c \in PageCalls |-> IF calls[c].kind \in Loads THEN NoCall
                                       ELSE [calls[c] EXCEPT !.open = FALSE]]
  BY DEF CloseList, ListInv
<1>2. ASSUME NEW c \in PageCalls
      PROVE  /\ calls'[c] \in ListCalls /\ ~calls'[c].open /\ calls'[c].kind \notin Loads
             /\ \/ calls'[c] = NoCall
                \/ /\ calls'[c].kind = calls[c].kind /\ calls'[c].step = calls[c].step
                   /\ calls'[c].version = calls[c].version
  <2>1. CASE calls[c].kind \in Loads
    BY <1>1, <2>1, ListRecords DEF Loads
  <2>2. CASE calls[c].kind \notin Loads
    <3>1. calls'[c] = [calls[c] EXCEPT !.open = FALSE] /\ calls[c] \in ListCalls
      BY <1>1, <2>2, ListTypes
    <3> QED BY <2>2, <3>1 DEF ListCalls
  <2> QED BY <2>1, <2>2
<1>3. ASSUME NEW t \in told'
      PROVE  t \in ToldCommands /\ t.order = 0 /\ \E u \in told : t.version = u.version
  <2>1. PICK u \in told : t = [u EXCEPT !.order = 0]
    BY <1>1
  <2>2. u \in ToldCommands /\ 0 \in 0 .. MaxLoads
    BY <1>1, ListTypes, ListAssumption
  <2> QED BY <2>1, <2>2 DEF ToldCommands
<1>4. ListTypeOK'
  <2>1. calls' \in [PageCalls -> ListCalls]
    BY <1>1, <1>2
  <2>2. told' \subseteq ToldCommands
    BY <1>3
  <2> QED BY <1>1, <2>1, <2>2, ListTypes, ListRecords
         DEF ListTypeOK, Shown, ListCalls, controlPlane
<1>5. version' = version /\ version \in Nat /\ shown'.sent = 0
  BY <1>1, ListNumbers, ListRecords DEF controlPlane
<1>6. ToldOK'
  BY <1>3, <1>5 DEF ToldOK, ListInv
<1>7. ASSUME NEW c \in PageCalls PROVE CallOK(calls[c])'
  <2>1. CallOK(calls[c])
    BY DEF ListInv
  <2>2. calls'[c].version <= version
    BY <1>2, <1>5, <2>1, ListRecords DEF CallOK
  <2>3. calls'[c].kind \in {"add", "verify"} /\ calls'[c].step = "answered"
          => calls'[c].version > 0
    BY <1>2, <2>1, ListRecords DEF CallOK
  <2> QED BY <1>2, <1>5, <2>2, <2>3 DEF CallOK
<1>8. RowsOK'
  BY <1>1, ListRecords DEF RowsOK
<1> QED BY <1>4, <1>6, <1>7, <1>8 DEF ListInv

\* A load is sent.
LEMMA NewLoad ==
  ASSUME ListInv, shown.sent < MaxLoads, shown.at # "closed",
         shown' = [shown EXCEPT !.loading = TRUE, !.sent = @ + 1]
  PROVE  /\ shown' \in Shown /\ shown'.sent = shown.sent + 1 /\ shown'.at = shown.at
         /\ shown'.applied = shown.applied /\ shown'.copied = shown.copied
         /\ shown'.loaded = shown.loaded /\ shown'.error = shown.error
         /\ shown'.version = shown.version
         /\ shown.sent \in Nat /\ shown.sent + 1 \in 0 .. MaxLoads
<1>1. shown \in Shown /\ shown.sent \in 0 .. MaxLoads
  BY ListTypes DEF ListInv, Shown
<1>2. shown.sent + 1 \in 0 .. MaxLoads /\ shown.sent \in Nat
  BY <1>1, ListAssumption
<1> QED BY <1>1, <1>2 DEF Shown

LEMMA RefreshKeeps ==
  ASSUME ListInv, NEW c \in PageCalls, RefreshList(c)
  PROVE  ListInv'
<1> DEFINE call == LoadCall(shown.at, shown.sent + 1, FALSE)
<1>1. /\ shown.sent < MaxLoads /\ shown.at # "closed" /\ UNCHANGED <<controlPlane, told>>
      /\ shown' = [shown EXCEPT !.loading = TRUE, !.sent = @ + 1]
      /\ calls' = [calls EXCEPT ![c] = call]
  BY DEF RefreshList
<1>2. /\ shown' \in Shown /\ shown'.sent = shown.sent + 1 /\ shown'.at = shown.at
      /\ shown'.applied = shown.applied /\ shown'.copied = shown.copied
      /\ shown'.loaded = shown.loaded /\ shown'.error = shown.error
      /\ shown'.version = shown.version
      /\ shown.sent \in Nat /\ shown.sent + 1 \in 0 .. MaxLoads
  BY <1>1, NewLoad
<1>3. /\ call \in ListCalls /\ call.kind \in Loads
      /\ (shown.at = "domains" => call.kind = "list")
      /\ call.step = "sent" /\ call.order = shown.sent + 1 /\ call.version = 0
  BY <1>2, LoadCalls
<1> HIDE DEF call
<1>4. calls'[c] = call /\ version' = version /\ version \in Nat /\ shown.applied \in Nat
  BY <1>1, ListNumbers DEF ListInv, ListTypeOK, controlPlane
<1>5. CallOK(calls[c])'
  <2>1. call.order \in 1 .. shown'.sent /\ shown'.at # "closed"
    BY <1>1, <1>2, <1>3
  <2> QED BY <1>2, <1>3, <1>4, <2>1 DEF CallOK, Loads
<1>6. RowsOK'
  BY <1>1, <1>2, <1>4 DEF ListInv, RowsOK, Covers
<1>7. shown'.sent >= shown.sent
  BY <1>2
<1> QED BY <1>1, <1>2, <1>3, <1>5, <1>6, <1>7, OneCallChanges

\* The two commands of the domains page are asked for.
LEMMA AsksKeep ==
  ASSUME ListInv, NEW c \in PageCalls, NEW d \in Domains, addDomain(c, d) \/ verifyDomain(c, d)
  PROVE  ListInv'
<1>1. PICK k \in {"add", "verify"} :
        calls' = [calls EXCEPT ![c] = [NoCall EXCEPT
           !.kind = k, !.domain = d, !.step = "sent", !.open = TRUE]]
  BY DEF addDomain, verifyDomain
<1> DEFINE call == [NoCall EXCEPT !.kind = k, !.domain = d, !.step = "sent", !.open = TRUE]
<1>2. call \in ListCalls /\ call.kind = k /\ call.step = "sent" /\ call.version = 0
  BY ListRecords DEF ListCalls
<1>3. /\ shown' = shown \/ shown' = [shown EXCEPT !.creating = TRUE]
      /\ shown.at = "domains" /\ UNCHANGED <<controlPlane, told>>
  BY DEF addDomain, AddShown, verifyDomain, VerifyShown
<1>0. shown \in Shown
  BY ListTypes DEF ListInv
<1>4. /\ shown' \in Shown /\ shown'.at = shown.at /\ shown'.sent = shown.sent
      /\ shown'.applied = shown.applied /\ shown'.loaded = shown.loaded
      /\ shown'.error = shown.error /\ shown'.version = shown.version
      /\ shown'.copied = shown.copied
  <2>1. CASE shown' = shown
    BY <1>0, <2>1
  <2>2. CASE shown' = [shown EXCEPT !.creating = TRUE]
    BY <1>0, <2>2 DEF Shown
  <2> QED BY <1>3, <2>1, <2>2
<1>5. RowsOK'
  BY <1>3, <1>4 DEF RowsOK, Covers, ListInv
<1>6. /\ calls' = [calls EXCEPT ![c] = call] /\ calls'[c] = call
      /\ version' = version /\ version \in Nat /\ shown.sent \in Nat
  BY <1>1, <1>3, ListNumbers DEF ListInv, ListTypeOK, controlPlane
<1> HIDE DEF call
<1>7. CallOK(calls[c])'
  BY <1>2, <1>3, <1>4, <1>6 DEF CallOK, Loads
<1>8. shown'.sent >= shown.sent
  BY <1>4, <1>6
<1> QED BY <1>2, <1>3, <1>4, <1>5, <1>6, <1>7, <1>8, OneCallChanges

LEMMA CopiesKeep ==
  ASSUME ListInv, NEW i \in Steps, copyCommand(i) \/ CopiedFades(i)
  PROVE  ListInv'
<1>1. /\ UNCHANGED <<controlPlane, told, calls>> /\ shown \in Shown /\ ListTypeOK
      /\ \/ shown' = [shown EXCEPT !.copied = {i}, !.fading = @ \cup {i}]
         \/ shown' = [shown EXCEPT !.copied = {}, !.fading = @ \ {i}]
  BY ListTypes DEF copyCommand, CopiedFades, ListInv
<1>2. /\ shown' \in Shown /\ shown'.at = shown.at /\ shown'.sent = shown.sent
      /\ shown'.applied = shown.applied /\ shown'.loaded = shown.loaded
      /\ shown'.error = shown.error /\ shown'.version = shown.version
      /\ \A j, k \in shown'.copied : j = k
  <2>1. CASE shown' = [shown EXCEPT !.copied = {i}, !.fading = shown.fading \cup {i}]
    BY <1>1, <2>1 DEF Shown
  <2>2. CASE shown' = [shown EXCEPT !.copied = {}, !.fading = shown.fading \ {i}]
    BY <1>1, <2>2 DEF Shown
  <2> QED BY <1>1, <2>1, <2>2
<1>3. ListTypeOK'
  BY <1>1, <1>2, ListTypes DEF ListTypeOK, Shown, ListCalls, controlPlane
<1>4. version' = version /\ told' = told /\ calls' = calls
  BY <1>1 DEF controlPlane
<1> QED BY <1>2, <1>3, <1>4 DEF ListInv, ToldOK, RowsOK, CallOK, Covers

-----------------------------------------------------------------------------
(* The control plane.                                                      *)

\* Whatever others do to the domains, the lists are as old as they were.
LEMMA OthersKeep ==
  ASSUME ListInv,
         NEW d \in Domains, OthersAdd(d) \/ OthersDelete(d) \/ CheckReads(d) \/ CheckSaves(d)
  PROVE  ListInv'
<1>1. ListTypeOK /\ UNCHANGED <<version, told, shown, calls>> /\ registry \in DomainRows
  BY DEF ListInv, ListTypeOK, OthersAdd, OthersDelete, CheckReads, CheckSaves
<1>2. registry' \in DomainRows /\ checks' \subseteq Domains
  BY <1>1 DEF ListTypeOK, DomainRows, Statuses, Saved,
              OthersAdd, OthersDelete, CheckReads, CheckSaves
<1>3. ListTypeOK'
  BY <1>1, <1>2, ListTypes DEF ListTypeOK, Shown, ListCalls
<1> QED BY <1>1, <1>3 DEF ListInv, ToldOK, RowsOK, CallOK, Covers

\* A call gets its answer: nothing of the page moves.
LEMMA AnswersKeep ==
  ASSUME ListInv, NEW c \in PageCalls,
         Fails(c) \/ InstanceAnswer(c) \/ ListAnswer(c) \/ VerifyReads(c)
  PROVE  ListInv'
<1> DEFINE failed == [calls[c] EXCEPT !.step = "failed", !.status = "absent",
                                      !.got = NoDomains, !.version = 0]
           instance == [calls[c] EXCEPT !.step = "answered"]
           answered == [calls[c] EXCEPT !.step = "answered", !.got = registry,
                                        !.version = version]
           checking(s) == [calls[c] EXCEPT !.step = "checking", !.status = s]
<1>1. /\ ListTypeOK /\ calls[c] \in ListCalls /\ CallOK(calls[c]) /\ RowsOK /\ ToldOK
      /\ UNCHANGED <<controlPlane, told, shown>> /\ version' = version
      /\ calls \in [PageCalls -> ListCalls] /\ shown \in Shown /\ registry \in DomainRows
      /\ version \in 0 .. MaxCommands /\ version \in Nat /\ shown.sent \in Nat
  BY ListTypes, ListNumbers DEF ListInv, Fails, InstanceAnswer, ListAnswer, VerifyReads,
                                controlPlane
<1>2. RowsOK' /\ shown' \in Shown /\ shown'.sent >= shown.sent /\ shown'.at = shown.at
  BY <1>1 DEF RowsOK, Covers
<1>3. CASE Fails(c)
  <2>1. calls' = [calls EXCEPT ![c] = failed] /\ calls'[c] = failed
    BY <1>1, <1>3 DEF Fails
  <2>2. /\ failed \in ListCalls /\ failed.step = "failed" /\ failed.kind = calls[c].kind
        /\ failed.open = calls[c].open /\ failed.order = calls[c].order /\ failed.version = 0
    BY <1>1, ListRecords, ListAssumption DEF ListCalls, Statuses
  <2> HIDE DEF failed
  <2>3. CallOK(calls[c])'
    BY <1>1, <2>1, <2>2 DEF CallOK
  <2> QED BY <1>1, <1>2, <2>1, <2>2, <2>3, OneCallChanges
<1>4. CASE InstanceAnswer(c)
  <2>1. calls' = [calls EXCEPT ![c] = instance] /\ calls'[c] = instance
    BY <1>1, <1>4 DEF InstanceAnswer
  <2>2. /\ instance \in ListCalls /\ instance.kind = "instance"
        /\ calls[c].kind = "instance" /\ instance.open = calls[c].open
        /\ instance.order = calls[c].order /\ instance.version = calls[c].version
    BY <1>1, <1>4 DEF ListCalls, InstanceAnswer
  <2> HIDE DEF instance
  <2>3. CallOK(calls[c])'
    BY <1>1, <2>1, <2>2 DEF CallOK, Loads
  <2> QED BY <1>1, <1>2, <2>1, <2>2, <2>3, OneCallChanges
<1>5. CASE ListAnswer(c)
  <2>1. calls' = [calls EXCEPT ![c] = answered] /\ calls'[c] = answered
    BY <1>1, <1>5 DEF ListAnswer
  <2>2. /\ answered \in ListCalls /\ answered.kind = "list" /\ calls[c].kind = "list"
        /\ answered.order = calls[c].order /\ answered.version = version
    BY <1>1, <1>5 DEF ListCalls, ListAnswer
  <2>3. Covers(version, calls[c].order)
    BY <1>1 DEF ToldOK, Covers
  <2> HIDE DEF answered
  <2>4. CallOK(calls[c])'
    BY <1>1, <2>1, <2>2, <2>3 DEF CallOK, Covers, Loads
  <2> QED BY <1>1, <1>2, <2>1, <2>2, <2>4, OneCallChanges
<1>6. CASE VerifyReads(c)
  <2> DEFINE s == registry[calls[c].domain]
             call == checking(s)
  <2>1. calls' = [calls EXCEPT ![c] = call] /\ calls'[c] = call
    BY <1>1, <1>6 DEF VerifyReads
  <2>2. s \in Statuses
    BY <1>1, <1>6 DEF VerifyReads, DomainRows, ListCalls, CallOK
  <2>3. /\ call \in ListCalls /\ call.kind = "verify" /\ call.step = "checking"
        /\ calls[c].kind = "verify" /\ call.open = calls[c].open
        /\ call.version = calls[c].version
    BY <1>1, <1>6, <2>2 DEF ListCalls, VerifyReads
  <2> HIDE DEF call
  <2>4. CallOK(calls[c])'
    BY <1>1, <2>1, <2>3 DEF CallOK, Loads
  <2> QED BY <1>1, <1>2, <2>1, <2>3, <2>4, OneCallChanges
<1> QED BY <1>3, <1>4, <1>5, <1>6

LEMMA CommandsKeep ==
  ASSUME ListInv, NEW c \in PageCalls, CommandAnswer(c)
  PROVE  ListInv'
<1> DEFINE call == [calls[c] EXCEPT !.step = "answered", !.status = "absent",
                                    !.version = version + 1]
<1>1. /\ ListTypeOK /\ calls[c] \in ListCalls /\ CallOK(calls[c]) /\ RowsOK /\ ToldOK
      /\ calls \in [PageCalls -> ListCalls] /\ shown \in Shown /\ registry \in DomainRows
      /\ version \in Nat /\ version + 1 \in 0 .. MaxCommands /\ version' = version + 1
      /\ shown.sent \in Nat /\ UNCHANGED <<checks, told, shown>>
      /\ calls[c].kind \in {"add", "verify"} /\ \A t \in told : t.version \in Nat
  BY ListTypes, ListNumbers, ListAssumption DEF ListInv, CommandAnswer, Statement
<1>2. PICK s \in Statement(calls[c]) : registry' = [registry EXCEPT ![calls[c].domain] = s]
  BY DEF CommandAnswer
<1>3. s \in Statuses
  BY <1>1, <1>2 DEF Statement, Saved, Statuses, ListCalls
<1>4. registry' \in DomainRows
  BY <1>1, <1>2, <1>3 DEF DomainRows
<1>5. calls' = [calls EXCEPT ![c] = call] /\ calls'[c] = call
  BY <1>1 DEF CommandAnswer
<1>6. /\ call \in ListCalls /\ call.kind = calls[c].kind /\ call.open = calls[c].open
      /\ call.version = version + 1
  BY <1>1 DEF ListCalls, Statuses
<1> HIDE DEF call
<1>7. ListTypeOK'
  <2>1. calls' \in [PageCalls -> ListCalls]
    BY <1>1, <1>5, <1>6
  <2> QED BY <1>1, <1>4, <2>1, ListTypes DEF ListTypeOK, Shown, ListCalls
<1>8. \A d \in PageCalls \ {c} : CallOK(calls[d])'
  <2> SUFFICES ASSUME NEW d \in PageCalls \ {c} PROVE CallOK(calls[d])'
    OBVIOUS
  <2>1. calls'[d] = calls[d] /\ CallOK(calls[d])
    BY <1>1, <1>5 DEF ListInv
  <2> QED BY <1>1, <1>7, <2>1, OtherCalls
<1>9. CallOK(calls[c])'
  BY <1>1, <1>5, <1>6 DEF CallOK, Loads
<1>10. ToldOK' /\ RowsOK'
  BY <1>1 DEF ToldOK, RowsOK, Covers
<1> QED BY <1>7, <1>8, <1>9, <1>10 DEF ListInv

-----------------------------------------------------------------------------
(* The answers reach the page.                                             *)

\* What the answer of a load brings was given after every command the user
\* was told of before the load was sent.
LEMMA AppliesList ==
  ASSUME ListInv, NEW c \in PageCalls, ListApply(c)
  PROVE  ListInv'
<1> DEFINE ok == calls[c].step = "answered"
           page == [shown EXCEPT !.loading = FALSE,
                                 !.error = ~ok,
                                 !.rows = IF ok THEN calls[c].got ELSE shown.rows,
                                 !.version = IF ok THEN calls[c].version ELSE shown.version,
                                 !.loaded = shown.loaded \/ ok,
                                 !.applied = calls[c].order,
                                 !.creating = shown.creating /\ ~calls[c].adding]
<1>1. /\ shown \in Shown /\ calls[c] \in ListCalls /\ CallOK(calls[c]) /\ RowsOK
      /\ UNCHANGED <<controlPlane, told>> /\ Finish(c)
      /\ calls[c].kind \in Loads /\ shown' = page
  BY ListTypes DEF ListInv, ListApply
<1>2. /\ shown.sent \in Nat /\ calls[c].order \in 1 .. shown.sent
      /\ shown.at # "closed" /\ (shown.at = "domains" => calls[c].kind = "list")
      /\ calls[c].kind = "list" /\ ok => Covers(calls[c].version, calls[c].order)
  BY <1>1 DEF CallOK, Shown
<1>3. /\ calls[c].order \in 0 .. MaxLoads /\ calls[c].got \in DomainRows
      /\ calls[c].adding \in BOOLEAN /\ calls[c].version \in 0 .. MaxCommands
  BY <1>1 DEF ListCalls
<1>4. page \in Shown
  BY <1>1, <1>3 DEF Shown
<1>5. /\ page.at = shown.at /\ page.sent = shown.sent /\ page.copied = shown.copied
      /\ page.applied = calls[c].order
      /\ page.error <=> ~ok
      /\ ok => page.version = calls[c].version
  BY <1>1, <1>3 DEF Shown
<1> HIDE DEF page
<1>6. RowsOK'
  BY <1>1, <1>2, <1>5 DEF RowsOK, Covers
<1> QED BY <1>1, <1>4, <1>5, <1>6, FinishKeeps

\* A command has succeeded: the user is told no more than the control plane
\* knows, and the load that is sent at once is the newest.
LEMMA SucceedsKeep ==
  ASSUME ListInv, NEW c \in PageCalls, CommandSucceeds(c)
  PROVE  ListInv'
<1> DEFINE t == [version |-> calls[c].version, order |-> shown.sent + 1]
           call == LoadCall("domains", shown.sent + 1, calls[c].kind = "add")
<1>1. /\ ListTypeOK /\ told \subseteq ToldCommands /\ calls \in [PageCalls -> ListCalls]
      /\ calls[c] \in ListCalls /\ CallOK(calls[c]) /\ RowsOK /\ ToldOK
      /\ UNCHANGED controlPlane /\ version' = version
      /\ calls[c].kind \in {"add", "verify"} /\ calls[c].step = "answered" /\ calls[c].open
      /\ shown.sent < MaxLoads
      /\ shown' = [shown EXCEPT !.loading = TRUE, !.sent = @ + 1]
      /\ told' = told \cup {t} /\ calls' = [calls EXCEPT ![c] = call]
      /\ version \in Nat /\ shown.applied \in Nat
  BY ListTypes, ListNumbers DEF ListInv, CommandSucceeds, Answered, Tell, controlPlane
<1>2. shown.at = "domains" /\ calls[c].version > 0 /\ calls[c].version <= version
  BY <1>1 DEF CallOK
<1>3. /\ shown' \in Shown /\ shown'.sent = shown.sent + 1 /\ shown'.at = shown.at
      /\ shown'.applied = shown.applied /\ shown'.copied = shown.copied
      /\ shown'.loaded = shown.loaded /\ shown'.error = shown.error
      /\ shown'.version = shown.version
      /\ shown.sent \in Nat /\ shown.sent + 1 \in 0 .. MaxLoads
  BY <1>1, <1>2, NewLoad
<1>4. /\ call \in ListCalls /\ call.kind = "list" /\ call.step = "sent"
      /\ call.order = shown.sent + 1 /\ call.version = 0
  BY <1>3, LoadCalls
<1>5. t \in ToldCommands /\ t.version = calls[c].version /\ t.order = shown.sent + 1
  <2>1. calls[c].version \in 1 .. MaxCommands
    BY <1>1, <1>2, ListAssumption DEF ListCalls
  <2> QED BY <1>3, <2>1 DEF ToldCommands
<1> HIDE DEF call, t
<1>6. ListTypeOK'
  <2>1. calls' \in [PageCalls -> ListCalls]
    BY <1>1, <1>4
  <2>2. told' \subseteq ToldCommands
    BY <1>1, <1>5
  <2> QED BY <1>1, <1>3, <2>1, <2>2, ListTypes DEF ListTypeOK, Shown, ListCalls, controlPlane
<1>7. ToldOK'
  <2>1. \A u \in told : u.version <= version /\ u.order <= shown.sent /\ u.order \in Nat
    BY <1>1, ListNumbers DEF ToldOK
  <2> QED BY <1>1, <1>2, <1>3, <1>5, <2>1 DEF ToldOK
<1>8. \A d \in PageCalls \ {c} : CallOK(calls[d])'
  <2> SUFFICES ASSUME NEW d \in PageCalls \ {c} PROVE CallOK(calls[d])'
    OBVIOUS
  <2>1. calls'[d] = calls[d] /\ CallOK(calls[d])
    BY <1>1 DEF ListInv
  <2>2. \A u \in told' : u \in told \/ u.order > shown.sent
    BY <1>1, <1>3, <1>5
  <2>3. version' >= version /\ shown'.sent >= shown.sent
    BY <1>1, <1>3
  <2> QED BY <1>1, <1>3, <1>6, <2>1, <2>2, <2>3, OtherCalls
<1>9. CallOK(calls[c])'
  <2>1. calls'[c] = call /\ call.order \in 1 .. shown'.sent /\ shown'.at = "domains"
    BY <1>1, <1>2, <1>3, <1>4
  <2> QED BY <1>1, <1>4, <2>1 DEF CallOK, Loads
<1>10. RowsOK'
  <2>1. \A v : Covers(v, shown.applied) => Covers(v, shown.applied)'
    <3>1. shown.applied < t.order
      BY <1>1, <1>3, <1>5 DEF RowsOK
    <3> QED BY <1>1, <1>3, <3>1 DEF Covers
  <2>2. shown.at = "domains" /\ shown.loaded /\ ~shown.error
           => Covers(shown.version, shown.applied)
    BY <1>1 DEF RowsOK
  <2> QED BY <1>1, <1>2, <1>3, <2>1, <2>2 DEF RowsOK, Covers
<1> QED BY <1>6, <1>7, <1>8, <1>9, <1>10 DEF ListInv

LEMMA UnheardKeeps ==
  ASSUME ListInv, NEW c \in PageCalls, CommandUnheard(c) \/ CommandFails(c)
  PROVE  ListInv'
<1> DEFINE page == [shown EXCEPT !.error = TRUE,
                                 !.creating = shown.creating /\ calls[c].kind # "add"]
<1>1. /\ shown \in Shown /\ RowsOK /\ UNCHANGED <<controlPlane, told>> /\ Finish(c)
      /\ shown' = shown \/ shown' = page
  BY ListTypes DEF ListInv, CommandUnheard, CommandFails
<1>2. CASE shown' = shown
  BY <1>1, <1>2, FinishKeeps DEF RowsOK, Covers
<1>3. CASE shown' = page
  <2>1. page \in Shown
    BY <1>1 DEF Shown
  <2>2. /\ page.at = shown.at /\ page.sent = shown.sent /\ page.copied = shown.copied
        /\ page.applied = shown.applied /\ page.error /\ page.loaded = shown.loaded
    <3>1. shown \in Shown
      BY <1>1
    <3> QED BY <3>1 DEF Shown
  <2> HIDE DEF page
  <2>3. RowsOK'
    BY <1>1, <1>3, <2>2 DEF RowsOK
  <2> QED BY <1>1, <1>3, <2>1, <2>2, <2>3, FinishKeeps
<1> QED BY <1>1, <1>2, <1>3

LEMMA ListStep ==
  ASSUME ListInv, [ListNext]_listVars
  PROVE  ListInv'
<1>1. CASE CloseList
  BY <1>1, ClosesKeep
<1>2. CASE \E d \in Domains :
             OthersAdd(d) \/ OthersDelete(d) \/ CheckReads(d) \/ CheckSaves(d)
  BY <1>2, OthersKeep
<1>3. CASE \E c \in PageCalls, p \in ListPageNames : OpenList(p, c)
  BY <1>3, OpensKeep
<1>4. CASE \E c \in PageCalls : RefreshList(c)
  BY <1>4, RefreshKeeps
<1>5. CASE \E c \in PageCalls, d \in Domains : addDomain(c, d) \/ verifyDomain(c, d)
  BY <1>5, AsksKeep
<1>6. CASE \E c \in PageCalls :
             Fails(c) \/ InstanceAnswer(c) \/ ListAnswer(c) \/ VerifyReads(c)
  BY <1>6, AnswersKeep
<1>7. CASE \E c \in PageCalls : CommandAnswer(c)
  BY <1>7, CommandsKeep
<1>8. CASE \E c \in PageCalls : ListApply(c)
  BY <1>8, AppliesList
<1>9. CASE \E c \in PageCalls : CommandSucceeds(c)
  BY <1>9, SucceedsKeep
<1>10. CASE \E c \in PageCalls : CommandUnheard(c) \/ CommandFails(c)
  BY <1>10, UnheardKeeps
<1>11. CASE \E i \in Steps : copyCommand(i) \/ CopiedFades(i)
  BY <1>11, CopiesKeep
<1>12. CASE UNCHANGED listVars
  BY <1>12 DEF listVars, controlPlane, ListInv, ListTypeOK, ToldOK, CallOK, RowsOK, Covers
<1> QED BY <1>1, <1>2, <1>3, <1>4, <1>5, <1>6, <1>7, <1>8, <1>9, <1>10, <1>11, <1>12 DEF ListNext

LEMMA ListStarts ==
  ASSUME ListInit
  PROVE  ListInv
<1>1. /\ registry = NoDomains /\ checks = {} /\ version = 0 /\ told = {} /\ shown = Closed
      /\ calls = [c \in PageCalls |-> NoCall]
  BY DEF ListInit
<1>2. ListTypeOK
  BY <1>1, ListTypes, ListRecords, ListAssumption
<1>3. ToldOK
  BY <1>1 DEF ToldOK
<1>4. \A c \in PageCalls : CallOK(calls[c])
  BY <1>1, ListRecords DEF CallOK, Loads
<1>5. RowsOK
  BY <1>1, ListRecords DEF RowsOK
<1> QED BY <1>2, <1>3, <1>4, <1>5 DEF ListInv

LEMMA ListInvariant == ListSpec => []ListInv
BY ListStarts, ListStep, PTL DEF ListSpec

(***************************************************************************)
(* THEOREM.  The pages that load once keep their types, and what a user    *)
(* can conclude from the parts of such a page holds together.              *)
(***************************************************************************)
THEOREM ListPagesTypeCorrect == ListSpec => [](ListTypeOK /\ ViewsAgree)
<1>1. ASSUME ListInv PROVE ListTypeOK /\ ViewsAgree
  <2>1. ASSUME DomainRegistry = "none"
        PROVE  DomainHighlights.verified + DomainHighlights.pending = 0
    <3>1. shown.rows = NoDomains
      BY <2>1 DEF DomainRegistry
    <3>2. \A d \in Domains : shown.rows[d] # "VERIFIED" /\ shown.rows[d] # "PENDING"
      BY <3>1 DEF NoDomains
    <3>3. /\ {d \in Domains : shown.rows[d] = "VERIFIED"} = {}
          /\ {d \in Domains : shown.rows[d] = "PENDING"} = {}
      BY <3>2
    <3> QED BY <3>3, FS_EmptySet DEF DomainHighlights
  <2>2. publicUrl = "instance" => shown.applied > 0
    BY <1>1 DEF publicUrl, SetupHighlights, ListInv, RowsOK
  <2>3. \A i, j \in Steps : StepDetails(i) = "check" /\ StepDetails(j) = "check" => i = j
    BY <1>1 DEF StepDetails, ListInv, RowsOK
  <2> QED BY <1>1, <2>1, <2>2, <2>3 DEF ViewsAgree, ListInv
<1> QED BY <1>1, ListInvariant, PTL

(***************************************************************************)
(* THEOREM.  For any number of domains, calls, commands and overlapping    *)
(* loads, and whatever others do to the domains meanwhile: the list on the *)
(* domains page is as new as every command the user was told of, unless    *)
(* it came with a load that was sent before the command's own.             *)
(***************************************************************************)
THEOREM OwnCommandsAreListed == ListSpec => []OwnCommandsAreShown
<1>1. ListInv => OwnCommandsAreShown
  BY DEF ListInv, RowsOK, ToldOK, Covers, OwnCommandsAreShown
<1> QED BY <1>1, ListInvariant, PTL

-----------------------------------------------------------------------------
(***************************************************************************)
(* The live lists, for any traffic, retention and number of visits: what   *)
(* the drawer shows stays what it is, and nothing is empty without a word. *)
(*                                                                         *)
(* Lists of many moments are about: the control plane's, the cached ones   *)
(* and the answers in the air.  What is inductive is that a number means   *)
(* one record in all of them, the newest of which the control plane has,   *)
(* that each list is of numbers that lie close together, and that a page   *)
(* that has nothing yet is waiting for something.                          *)
(***************************************************************************)
Caches ==
  [Keys -> [data : [known : BOOLEAN, list : SUBSET Records], error : BOOLEAN]]
Fetches ==
  [Keys -> [step : {"idle", "sent", "answered", "failed"}, got : SUBSET Records]]
Tabs ==
  [at : FeedPages \cup {"elsewhere"}, filter : Filters, selected : Ids \cup {0},
   drawer : BOOLEAN, explained : SUBSET Ids, expanded : SUBSET Subdomains, visits : 0 .. MaxVisits]

\* The records of all lists.
Seen ==
  {r \in Records : \/ r \in history
                   \/ \E k \in Keys : r \in cache[k].data.list \/ r \in fetch[k].got}

\* A list that retention may have left.
Close(l) == \E n \in Nat : \A r \in l : r.id \in n + 1 .. n + Retained

Waits(p) ==
  p \in FeedPages =>
    fetch[KeyOf(p)].step # "idle" \/ cache[KeyOf(p)].data.known \/ cache[KeyOf(p)].error

FeedInv ==
  /\ history \subseteq Records /\ cache \in Caches /\ fetch \in Fetches /\ tab \in Tabs
  /\ Close(history) /\ \A k \in Keys : Close(cache[k].data.list) /\ Close(fetch[k].got)
  /\ \A r, s \in Seen : r.id = s.id => r = s
  /\ history # {} => Latest(history) # {}
  /\ \A r \in Seen : r.id <= Newest
  /\ Waits(tab.at)

LEMMA FeedBasics ==
  /\ \A p : KeyOf(p) \in Keys
  /\ MaxRecords \in Nat /\ MaxVisits \in Nat /\ Retained \in Nat /\ Retained > 0
  /\ \A r \in Records : r.id \in Ids /\ r.id \in Nat /\ r.id > 0 /\ r.subdomain \in Subdomains
  /\ NoTab \in Tabs /\ NoTab.at = "elsewhere"
  /\ NoData.known = FALSE /\ NoData.list = {} /\ IdleFetch.step = "idle" /\ IdleFetch.got = {}
<1>1. \A p : KeyOf(p) \in Keys
  BY DEF KeyOf, Keys
<1>2. /\ MaxRecords \in Nat /\ MaxVisits \in Nat /\ Retained \in Nat /\ Retained > 0
      /\ \A r \in Records : r.id \in Ids /\ r.id \in Nat /\ r.id > 0 /\ r.subdomain \in Subdomains
  BY FeedAssumption DEF Records, Record, Ids, Subdomains
<1>3. NoTab \in Tabs /\ NoTab.at = "elsewhere"
  BY <1>2 DEF NoTab, Tabs, Filters
<1> QED BY <1>1, <1>2, <1>3 DEF NoData, IdleFetch

LEMMA CloseShrinks ==
  ASSUME NEW l, NEW m \in SUBSET l, Close(l)
  PROVE  Close(m)
BY DEF Close

\* What a list may become in one step, when the control plane is still.
LEMMA ListsMove ==
  ASSUME FeedInv, history' = history, cache' \in Caches, fetch' \in Fetches, tab' \in Tabs,
         \A k \in Keys : \/ cache'[k].data.list = cache[k].data.list
                         \/ cache'[k].data.list = fetch[k].got,
         \A k \in Keys : \/ fetch'[k].got = fetch[k].got
                         \/ fetch'[k].got \subseteq history,
         Waits(tab.at)'
  PROVE  FeedInv' /\ Seen' \subseteq Seen
<1>1. Seen' \subseteq Seen
  BY DEF Seen
<1>2. \A k \in Keys : Close(cache'[k].data.list) /\ Close(fetch'[k].got)
  BY CloseShrinks DEF FeedInv
<1>3. Close(history') /\ history' \subseteq Records
  BY DEF FeedInv
<1>4. \A r, s \in Seen' : r.id = s.id => r = s
  BY <1>1 DEF FeedInv
<1>5. (history # {} => Latest(history) # {})'
  BY DEF FeedInv, Latest
<1>6. Newest' = Newest
  BY DEF Newest, Latest
<1>7. \A r \in Seen' : r.id <= Newest'
  BY <1>1, <1>6 DEF FeedInv
<1> QED BY <1>1, <1>2, <1>3, <1>4, <1>5, <1>7 DEF FeedInv, Close

LEMMA NewestIs ==
  ASSUME FeedInv
  PROVE  /\ Newest \in Nat
         /\ \A r \in Seen : r \in Records /\ r.id \in Nat /\ r.id <= Newest
<1>1. CASE history = {}
  BY <1>1 DEF Newest, FeedInv, Seen, Records, Record, Ids
<1>2. CASE history # {}
  <2>1. PICK r \in Latest(history) : Newest = r.id
    BY <1>2 DEF FeedInv, Newest
  <2>2. r \in Records
    BY <2>1 DEF FeedInv, Latest
  <2> QED BY <2>1, <2>2, FeedBasics DEF FeedInv, Seen
<1> QED BY <1>1, <1>2

LEMMA ArriveKeeps ==
  ASSUME FeedInv, Arrive
  PROVE  FeedInv'
<1> DEFINE n == Newest + 1
<1>1. PICK t \in Traffic : history' = Kept(n, history \cup {Record(n, t)})
  BY DEF Arrive
<1> DEFINE new == Record(n, t)
<1>2. /\ n \in Nat /\ n \in Ids /\ UNCHANGED <<cache, fetch, tab>>
      /\ history \subseteq Records /\ history \subseteq Seen
  BY NewestIs, FeedBasics DEF Arrive, Ids, FeedInv, Seen
<1>3. new \in Records /\ new.id = n
  BY <1>2 DEF Records, Record
<1> HIDE DEF n, new
<1>4. \A r \in Seen : r.id \in Nat /\ r.id < n
  BY NewestIs DEF n
<1>5. new \in history' /\ history' \subseteq history \cup {new}
  BY <1>1, <1>2, <1>3, FeedBasics DEF Kept, new
<1>6. history' \subseteq Records
  BY <1>2, <1>3, <1>5
<1>7. Seen' \subseteq Seen \cup {new}
  BY <1>2, <1>5 DEF Seen
<1>8. \A r, s \in Seen' : r.id = s.id => r = s
  BY <1>3, <1>4, <1>7 DEF FeedInv
<1>9. Latest(history') = {new}
  <2>1. \A q \in history' : q.id \in Nat /\ q.id <= n /\ (q # new => q.id < n)
    BY <1>2, <1>3, <1>4, <1>5
  <2>2. new \in Latest(history')
    BY <1>3, <1>5, <2>1 DEF Latest
  <2>3. ASSUME NEW q \in Latest(history') PROVE q = new
    BY <1>2, <1>3, <1>5, <2>1 DEF Latest
  <2> QED BY <2>2, <2>3
<1>10. Newest' = n
  BY <1>3, <1>5, <1>9 DEF Newest, Latest
<1>11. \A r \in Seen' : r.id <= Newest'
  BY <1>2, <1>3, <1>4, <1>7, <1>10
<1>12. Close(history')
  <2> DEFINE m == IF n >= Retained THEN n - Retained ELSE 0
  <2>1. m \in Nat /\ Retained \in Nat
    BY <1>2, FeedBasics
  <2>2. ASSUME NEW r \in history' PROVE r.id \in m + 1 .. m + Retained
    <3>1. r.id \in Nat /\ r.id <= n /\ r.id > 0 /\ n < r.id + Retained
      BY <1>1, <1>2, <1>3, <1>4, <1>5, <1>6, FeedBasics DEF Kept, new
    <3> QED BY <1>2, <2>1, <3>1
  <2> QED BY <2>1, <2>2 DEF Close
<1>13. (history # {} => Latest(history) # {})'
  BY <1>9 DEF Latest
<1>14. /\ cache' \in Caches /\ fetch' \in Fetches /\ tab' \in Tabs /\ Waits(tab.at)'
       /\ \A k \in Keys : Close(cache'[k].data.list) /\ Close(fetch'[k].got)
  BY <1>2 DEF FeedInv, Waits
<1> QED BY <1>6, <1>8, <1>11, <1>12, <1>13, <1>14 DEF FeedInv, Close

\* The page and its own state change, and nothing else.
LEMMA TabMoves ==
  ASSUME FeedInv, UNCHANGED <<history, cache, fetch>>, tab' \in Tabs,
         tab'.at = tab.at \/ tab'.at \notin FeedPages
  PROVE  FeedInv' /\ Seen' \subseteq Seen
<1>1. Waits(tab.at)'
  BY DEF FeedInv, Waits
<1> QED BY <1>1, ListsMove DEF FeedInv

LEMMA UserKeeps ==
  ASSUME FeedInv,
         \/ LeaveFeed \/ CloseDrawer
         \/ \E f \in Filters : SetFilter(f)
         \/ \E r \in filtered : Select(r) \/ Explain(r)
         \/ \E s \in Subdomains : toggle(s)
  PROVE  FeedInv' /\ Seen' \subseteq Seen
<1>1. tab \in Tabs /\ cache \in Caches
  BY DEF FeedInv
<1>2. CASE LeaveFeed
  <2>1. tab' = [NoTab EXCEPT !.visits = tab.visits] /\ UNCHANGED <<history, cache, fetch>>
    BY <1>2 DEF LeaveFeed
  <2>2. tab' \in Tabs /\ tab'.at = "elsewhere"
    BY <1>1, <2>1, FeedBasics DEF Tabs
  <2>3. "elsewhere" \notin FeedPages
    BY DEF FeedPages, LogPages
  <2> QED BY <2>1, <2>2, <2>3, TabMoves
<1>3. CASE CloseDrawer
  <2>1. tab' \in Tabs /\ tab'.at = tab.at /\ UNCHANGED <<history, cache, fetch>>
    BY <1>1, <1>3 DEF CloseDrawer, Tabs
  <2> QED BY <2>1, TabMoves
<1>4. CASE \E f \in Filters : SetFilter(f)
  <2>1. PICK f \in Filters : SetFilter(f)
    BY <1>4
  <2> DEFINE cards == tab.explained \cap Cards(cache[Key], f)
  <2>2. tab' = [tab EXCEPT !.filter = f, !.explained = cards] /\ UNCHANGED <<history, cache, fetch>>
    BY <2>1 DEF SetFilter
  <2>3. cards \in SUBSET Ids
    BY <1>1 DEF Tabs
  <2> HIDE DEF cards
  <2>4. tab' \in Tabs /\ tab'.at = tab.at
    BY <1>1, <2>2, <2>3 DEF Tabs
  <2> QED BY <2>2, <2>4, TabMoves
<1>5. CASE \E r \in filtered : Select(r) \/ Explain(r)
  <2>1. PICK r \in filtered : Select(r) \/ Explain(r)
    BY <1>5
  <2>2. r.id \in Ids
    BY <1>1, FeedBasics DEF filtered, Matching, all, data, Key, Caches
  <2> DEFINE open == IF r.id \in tab.explained THEN tab.explained \ {r.id}
                     ELSE tab.explained \cup {r.id}
  <2>3. open \in SUBSET Ids
    BY <1>1, <2>2 DEF Tabs
  <2>4. /\ \/ tab' = [tab EXCEPT !.selected = r.id, !.drawer = TRUE]
           \/ tab' = [tab EXCEPT !.selected = r.id, !.drawer = TRUE, !.explained = open]
        /\ UNCHANGED <<history, cache, fetch>>
    BY <2>1 DEF Select, Explain
  <2> HIDE DEF open
  <2>5. tab' \in Tabs /\ tab'.at = tab.at /\ UNCHANGED <<history, cache, fetch>>
    <3>1. CASE tab' = [tab EXCEPT !.selected = r.id, !.drawer = TRUE]
      BY <1>1, <2>2, <2>4, <3>1 DEF Tabs
    <3>2. CASE tab' = [tab EXCEPT !.selected = r.id, !.drawer = TRUE, !.explained = open]
      BY <1>1, <2>2, <2>3, <2>4, <3>2 DEF Tabs
    <3> QED BY <2>4, <3>1, <3>2
  <2> QED BY <2>5, TabMoves
<1>6. CASE \E s \in Subdomains : toggle(s)
  <2>1. tab' \in Tabs /\ tab'.at = tab.at /\ UNCHANGED <<history, cache, fetch>>
    BY <1>1, <1>6 DEF toggle, Tabs
  <2> QED BY <2>1, TabMoves
<1> QED BY <1>2, <1>3, <1>4, <1>5, <1>6

\* A page opens or polls, or the user asks again: a request is in the air.
LEMMA AsksFeedKeeps ==
  ASSUME FeedInv, (\E p \in FeedPages : OpenFeed(p)) \/ RefreshFeed \/ PollFeed
  PROVE  FeedInv' /\ Seen' \subseteq Seen
<1>1. tab \in Tabs /\ cache \in Caches /\ fetch \in Fetches /\ UNCHANGED <<history, cache>>
  BY DEF FeedInv, OpenFeed, RefreshFeed, PollFeed
<1> DEFINE asked(k) == [fetch EXCEPT ![k].step = "sent"]
           again(k) == [fetch EXCEPT ![k] = [step |-> "sent", got |-> {}]]
<1>2. ASSUME NEW k \in Keys
      PROVE  /\ asked(k) \in Fetches /\ again(k) \in Fetches
             /\ asked(k)[k].step = "sent" /\ again(k)[k].step = "sent"
             /\ \A j \in Keys : /\ asked(k)[j].got = fetch[j].got
                                /\ again(k)[j].got = fetch[j].got \/ again(k)[j].got = {}
  BY <1>1 DEF Fetches
<1>3. Key \in Keys
  BY FeedBasics DEF Key
<1> HIDE DEF asked, again
<1>4. CASE \E p \in FeedPages : OpenFeed(p)
  <2>1. PICK p \in FeedPages : OpenFeed(p)
    BY <1>4
  <2>2. PICK open \in SUBSET Subdomains :
          tab' = [NoTab EXCEPT !.at = p, !.expanded = open, !.visits = tab.visits + 1]
    BY <2>1 DEF OpenFeed
  <2>3. tab.visits + 1 \in 0 .. MaxVisits
    <3>1. tab.visits \in 0 .. MaxVisits /\ tab.visits < MaxVisits
      BY <1>1, <2>1 DEF OpenFeed, Tabs
    <3> QED BY <3>1, FeedBasics
  <2>4. tab' \in Tabs /\ tab'.at = p
    BY <2>2, <2>3, FeedBasics DEF Tabs
  <2>5. KeyOf(p) \in Keys
    BY FeedBasics
  <2>6. /\ fetch' = IF fetch[KeyOf(p)].step = "idle" THEN asked(KeyOf(p)) ELSE fetch
    BY <2>1 DEF OpenFeed, asked
  <2>7. fetch' \in Fetches /\ fetch'[KeyOf(p)].step # "idle"
        /\ \A j \in Keys : fetch'[j].got = fetch[j].got
    BY <1>1, <1>2, <2>5, <2>6
  <2>8. Waits(tab.at)'
    BY <2>4, <2>7 DEF Waits
  <2> QED BY <1>1, <2>4, <2>7, <2>8, ListsMove
<1>5. CASE RefreshFeed \/ PollFeed
  <2>1. UNCHANGED tab /\ (fetch' = asked(Key) \/ fetch' = again(Key))
    BY <1>5 DEF RefreshFeed, PollFeed, asked, again
  <2>2. fetch' \in Fetches /\ fetch'[KeyOf(tab.at)].step = "sent"
        /\ \A j \in Keys : fetch'[j].got = fetch[j].got \/ fetch'[j].got \subseteq history
    <3>1. asked(Key) \in Fetches /\ again(Key) \in Fetches
          /\ asked(Key)[Key].step = "sent" /\ again(Key)[Key].step = "sent"
          /\ \A j \in Keys : /\ asked(Key)[j].got = fetch[j].got
                             /\ again(Key)[j].got = fetch[j].got \/ again(Key)[j].got = {}
      BY <1>2, <1>3
    <3>2. fetch' \in Fetches /\ fetch'[Key].step = "sent"
      BY <2>1, <3>1
    <3>3. \A j \in Keys : fetch'[j].got = fetch[j].got \/ fetch'[j].got \subseteq history
      BY <2>1, <3>1
    <3> QED BY <3>2, <3>3 DEF Key
  <2>3. Waits(tab.at)'
    BY <2>1, <2>2 DEF Waits
  <2> QED BY <1>1, <2>1, <2>2, <2>3, ListsMove
<1> QED BY <1>4, <1>5

LEMMA FeedAnswerKeeps ==
  ASSUME FeedInv, NEW k \in Keys, FeedAnswer(k)
  PROVE  FeedInv' /\ Seen' \subseteq Seen
<1>1. /\ tab \in Tabs /\ cache \in Caches /\ fetch \in Fetches /\ UNCHANGED <<history, cache, tab>>
      /\ history \subseteq Records
  BY DEF FeedInv, FeedAnswer
<1>2. FeedReply(k) \subseteq history
  BY DEF FeedReply, Webhooks
<1> DEFINE good == [step |-> "answered", got |-> FeedReply(k)]
           bad == [step |-> "failed", got |-> {}]
           Answers == [step : {"answered", "failed"}, got : SUBSET Records]
<1>3. /\ good \in Answers /\ bad \in Answers
      /\ good.got = FeedReply(k) /\ bad.got = {}
  BY <1>1, <1>2
<1>4. fetch' = [fetch EXCEPT ![k] = good] \/ fetch' = [fetch EXCEPT ![k] = bad]
  BY DEF FeedAnswer
<1> HIDE DEF good, bad
<1>5. PICK f \in Answers : fetch' = [fetch EXCEPT ![k] = f] /\ (f.got = {} \/ f.got = FeedReply(k))
  BY <1>3, <1>4
<1>6. fetch' \in Fetches /\ fetch'[k] = f /\ \A j \in Keys \ {k} : fetch'[j] = fetch[j]
  BY <1>1, <1>5 DEF Fetches
<1>7. \A j \in Keys : fetch'[j].got = fetch[j].got \/ fetch'[j].got \subseteq history
  BY <1>2, <1>5, <1>6
<1>8. f.step # "idle"
  BY <1>5
<1>9. Waits(tab.at)'
  BY <1>1, <1>6, <1>8, FeedBasics DEF Waits, FeedInv
<1> QED BY <1>1, <1>6, <1>7, <1>9, ListsMove

LEMMA FeedApplyKeeps ==
  ASSUME FeedInv, NEW k \in Keys, FeedApply(k)
  PROVE  FeedInv' /\ Seen' \subseteq Seen
<1>1. /\ tab \in Tabs /\ cache \in Caches /\ fetch \in Fetches /\ UNCHANGED history
      /\ cache[k].data \in [known : BOOLEAN, list : SUBSET Records]
      /\ fetch[k].got \in SUBSET Records
  BY DEF FeedInv, FeedApply, Caches, Fetches
<1> DEFINE good == [data |-> Data(fetch[k].got), error |-> FALSE]
           bad == [data |-> cache[k].data, error |-> TRUE]
           Entries == [data : [known : BOOLEAN, list : SUBSET Records], error : BOOLEAN]
<1>2. /\ Data(fetch[k].got) \in [known : BOOLEAN, list : SUBSET Records]
      /\ Data(fetch[k].got).known /\ Data(fetch[k].got).list = fetch[k].got
  BY <1>1 DEF Data
<1>3. /\ good \in Entries /\ good.data.known /\ good.data.list = fetch[k].got
      /\ bad \in Entries /\ bad.error /\ bad.data.list = cache[k].data.list
  BY <1>1, <1>2
<1>4. cache' = [cache EXCEPT ![k] = good] \/ cache' = [cache EXCEPT ![k] = bad]
  BY DEF FeedApply
<1> HIDE DEF good, bad
<1>5. PICK e \in Entries :
        /\ cache' = [cache EXCEPT ![k] = e]
        /\ e.data.known \/ e.error
        /\ e.data.list = cache[k].data.list \/ e.data.list = fetch[k].got
  BY <1>3, <1>4
<1>6. cache' \in Caches /\ cache'[k] = e /\ \A j \in Keys \ {k} : cache'[j] = cache[j]
  BY <1>1, <1>5 DEF Caches
<1>7. /\ fetch' = [fetch EXCEPT ![k] = IdleFetch]
      /\ IdleFetch \in [step : {"idle", "sent", "answered", "failed"}, got : SUBSET Records]
  BY DEF FeedApply, IdleFetch
<1>8. fetch' \in Fetches /\ fetch'[k] = IdleFetch /\ \A j \in Keys \ {k} : fetch'[j] = fetch[j]
  BY <1>1, <1>7 DEF Fetches
<1>9. tab' \in Tabs /\ tab'.at = tab.at
  <2> DEFINE cards == tab.explained \cap Cards(cache'[k], tab.filter)
  <2>1. tab' = tab \/ tab' = [tab EXCEPT !.explained = cards]
    BY DEF FeedApply, Unmount
  <2>2. cards \in SUBSET Ids
    BY <1>1 DEF Tabs
  <2> HIDE DEF cards
  <2>3. CASE tab' = [tab EXCEPT !.explained = cards]
    BY <1>1, <2>2, <2>3 DEF Tabs
  <2> QED BY <1>1, <2>1, <2>3
<1>10. Waits(tab.at)'
  <2>1. CASE KeyOf(tab.at) = k
    BY <1>5, <1>6, <1>9, <2>1 DEF Waits
  <2>2. CASE KeyOf(tab.at) # k
    BY <1>6, <1>8, <1>9, <2>2, FeedBasics DEF Waits, FeedInv
  <2> QED BY <2>1, <2>2
<1>11. \A j \in Keys : cache'[j].data.list = cache[j].data.list \/ cache'[j].data.list = fetch[j].got
  BY <1>5, <1>6
<1>12. \A j \in Keys : fetch'[j].got = fetch[j].got \/ fetch'[j].got \subseteq history
  BY <1>8, FeedBasics
<1> QED BY <1>1, <1>6, <1>8, <1>9, <1>10, <1>11, <1>12, ListsMove

\* All but an arrival: only records that are known are about.
LEMMA FeedStepBut ==
  ASSUME FeedInv, [FeedNext]_feedVars
  PROVE  FeedInv' /\ (Arrive \/ Seen' \subseteq Seen)
<1>1. CASE Arrive
  BY <1>1, ArriveKeeps
<1>2. CASE \/ LeaveFeed \/ CloseDrawer
           \/ \E f \in Filters : SetFilter(f)
           \/ \E r \in filtered : Select(r) \/ Explain(r)
           \/ \E s \in Subdomains : toggle(s)
  BY <1>2, UserKeeps
<1>3. CASE (\E p \in FeedPages : OpenFeed(p)) \/ RefreshFeed \/ PollFeed
  BY <1>3, AsksFeedKeeps
<1>4. CASE \E k \in Keys : FeedAnswer(k)
  BY <1>4, FeedAnswerKeeps
<1>5. CASE \E k \in Keys : FeedApply(k)
  BY <1>5, FeedApplyKeeps
<1>6. CASE UNCHANGED feedVars
  <2>1. UNCHANGED <<history, cache, fetch, tab>>
    BY <1>6 DEF feedVars
  <2> QED BY <2>1, TabMoves DEF FeedInv
<1> QED BY <1>1, <1>2, <1>3, <1>4, <1>5, <1>6 DEF FeedNext

LEMMA FeedStarts ==
  ASSUME FeedInit
  PROVE  FeedInv
<1>1. /\ history = {} /\ tab = NoTab
      /\ cache = [k \in Keys |-> [data |-> NoData, error |-> FALSE]]
      /\ fetch = [k \in Keys |-> IdleFetch]
  BY DEF FeedInit
<1>2. cache \in Caches /\ fetch \in Fetches
  BY <1>1 DEF Caches, Fetches, NoData, IdleFetch
<1>3. \A k \in Keys : cache[k].data.list = {} /\ fetch[k].got = {}
  BY <1>1, FeedBasics
<1>4. Seen = {}
  BY <1>1, <1>3 DEF Seen
<1>5. "elsewhere" \notin FeedPages
  BY DEF FeedPages, LogPages
<1>6. Close({})
  BY DEF Close
<1> QED BY <1>1, <1>2, <1>3, <1>4, <1>5, <1>6, FeedBasics DEF FeedInv, Waits

LEMMA FeedInvariant == FeedSpec => []FeedInv
BY FeedStarts, FeedStepBut, PTL DEF FeedSpec

(***************************************************************************)
(* THEOREM.  However the polls of the pages fail, overlap and are asked    *)
(* again, a page that reads "nothing yet" has been told so, or says that   *)
(* the list could not be loaded.                                           *)
(***************************************************************************)
THEOREM EmptyPagesAreExplained == FeedSpec => []EmptyIsExplained
<1>1. ASSUME FeedInv PROVE EmptyIsExplained
  <2>1. Waits(tab.at)
    BY <1>1 DEF FeedInv
  <2> QED BY <2>1 DEF Waits, EmptyIsExplained, Body, RequestsTable, WebhooksFeed, EmptyState,
       EventLog, ErrorBanner, isLoading, isLoadingHook, isValidating, data, error, Key
<1> QED BY <1>1, FeedInvariant, PTL

\* The least number of a set of numbers, by well-founded induction.
LEMMA NatOrder ==
  \E R : IsWellFoundedOn(R, Nat) /\ \A x, y \in Nat : <<y, x>> \in R <=> y < x
<1>1. \A x, y \in Nat : <<y, x>> \in OpToRel(<, Nat) <=> y < x
  BY DEF OpToRel
<1> QED BY <1>1, NatLessThanWellFounded, Zenon

LEMMA LeastNumber ==
  ASSUME NEW T \in SUBSET Nat, T # {}
  PROVE  \E x \in T : \A y \in T : x <= y
<1>1. PICK R : IsWellFoundedOn(R, Nat) /\ \A x, y \in Nat : <<y, x>> \in R <=> y < x
  BY NatOrder
<1>2. PICK x \in T : \A y \in T : ~(<<y, x>> \in R)
  BY <1>1, WFMin
<1>3. ASSUME NEW y \in T PROVE x <= y
  <2>1. x \in Nat /\ y \in Nat /\ ~(y < x)
    BY <1>1, <1>2
  <2> QED BY <2>1
<1> QED BY <1>3

\* A list that is not empty has a newest record.
LEMMA LatestExists ==
  ASSUME NEW l \in SUBSET Records, Close(l), l # {}
  PROVE  Latest(l) # {}
<1>1. PICK n \in Nat : \A r \in l : r.id \in n + 1 .. n + Retained
  BY DEF Close
<1> DEFINE T == {n + Retained - r.id : r \in l}
<1>2. \A r \in l : r.id \in Nat /\ n + Retained - r.id \in Nat
  BY <1>1, FeedBasics
<1>3. PICK x \in T : \A y \in T : x <= y
  <2>1. T \in SUBSET Nat
    BY <1>2
  <2>2. T # {}
    OBVIOUS
  <2> HIDE DEF T
  <2> QED BY <2>1, <2>2, LeastNumber
<1>4. PICK r \in l : x = n + Retained - r.id
  BY <1>3
<1>5. ASSUME NEW q \in l PROVE q.id <= r.id
  <2>1. x <= n + Retained - q.id
    BY <1>3
  <2> QED BY <1>2, <1>4, <2>1, FeedBasics
<1> QED BY <1>5 DEF Latest

\* A list whose numbers are close together is not longer than retention lets it be.
LEMMA CloseIsShort ==
  ASSUME NEW l, Close(l), \A r, s \in l : r.id = s.id => r = s
  PROVE  IsFiniteSet(l) /\ Cardinality(l) <= Retained
<1>1. PICK n \in Nat : \A r \in l : r.id \in n + 1 .. n + Retained
  BY DEF Close
<1> DEFINE Window == n + 1 .. n + Retained
           f == [r \in l |-> r.id]
<1>2. f \in Injection(l, Window)
  BY <1>1 DEF Injection, IsInjective
<1>3. IsFiniteSet(Window) /\ Cardinality(Window) = Retained
  <2>1. n + 1 \in Int /\ n + Retained \in Int /\ ~(n + 1 > n + Retained)
        /\ (n + Retained) - (n + 1) + 1 = Retained
    BY FeedBasics
  <2> QED BY <2>1, FS_Interval
<1> QED BY <1>2, <1>3, FS_Injection

LEMMA ListsAreShort ==
  ASSUME FeedInv
  PROVE  /\ IsFiniteSet(history) /\ Cardinality(history) <= Retained
         /\ \A k \in Keys : /\ IsFiniteSet(cache[k].data.list)
                            /\ Cardinality(cache[k].data.list) <= Retained
<1>1. history \subseteq Seen /\ \A k \in Keys : cache[k].data.list \subseteq Seen
  BY DEF FeedInv, Seen, Caches
<1>2. \A r, s \in Seen : r.id = s.id => r = s
  BY DEF FeedInv
<1>3. IsFiniteSet(history) /\ Cardinality(history) <= Retained
  BY <1>1, <1>2, CloseIsShort DEF FeedInv
<1>4. ASSUME NEW k \in Keys
      PROVE  IsFiniteSet(cache[k].data.list) /\ Cardinality(cache[k].data.list) <= Retained
  <2>1. Close(cache[k].data.list)
    BY DEF FeedInv
  <2> QED BY <1>1, <1>2, <2>1, CloseIsShort
<1> QED BY <1>3, <1>4

\* What the drawer shows is the record of the list that has the number.
LEMMA DrawerIs ==
  ASSUME FeedInv, NEW d \in Drawer
  PROVE  d.record \in filtered /\ d.record.id = tab.selected
<1> DEFINE r == CHOOSE x \in filtered : x.id = Selected
<1>1. DrawerShown /\ d.record = r
  BY DEF Drawer
<1>2. \A x \in filtered : x.id \in Nat /\ x.id > 0
  BY FeedBasics DEF filtered, Matching, all, data, Key, FeedInv, Caches
<1>3. PICK x \in filtered : x.id = tab.selected
  BY <1>1, <1>2 DEF DrawerShown, Selected
<1>4. Selected = tab.selected
  BY <1>3 DEF Selected
<1> QED BY <1>1, <1>3, <1>4

LEMMA PartsAgree ==
  ASSUME FeedInv
  PROVE  PageAgrees
<1>1. Key \in Keys
  BY FeedBasics DEF Key
<1>2. /\ all \in SUBSET Records /\ Close(all) /\ IsFiniteSet(all) /\ all \subseteq Seen
  BY <1>1, ListsAreShort DEF all, data, FeedInv, Caches, Seen
<1>3. \A r, s \in all : r.id = s.id => r = s
  BY <1>2 DEF FeedInv
<1>4. ASSUME NEW f \in Stats
      PROVE  f.failed <= f.total /\ (Body = "none" => f.total = 0)
  <2>1. f = Figures
    BY DEF Stats, RequestStats, WebhookStats, EventStats
  <2>2. Matching("ERROR", all) \subseteq all
    BY DEF Matching
  <2>3. f.failed <= f.total
    BY <1>2, <2>1, <2>2, FS_Subset DEF Figures
  <2>4. Body = "none" => all = {} \/ Stats = {}
    BY DEF Body, RequestsTable, WebhooksFeed, EventLog, EmptyState, Stats
  <2>5. Body = "none" => f.total = 0
    BY <2>1, <2>4, FS_EmptySet DEF Figures
  <2> QED BY <2>3, <2>5
<1>5. ASSUME NEW s \in Subdomains, RequestLog(s) # {}
      PROVE  lastRequestAt(s) # {}
  <2>1. Hits(s) # {} /\ Hits(s) \in SUBSET all
    BY <1>5 DEF RequestLog, Hits
  <2>2. Latest(Hits(s)) # {}
    BY <1>2, <2>1, CloseShrinks, LatestExists
  <2> QED BY <2>2 DEF lastRequestAt
<1>6. ASSUME NEW d \in Drawer
      PROVE  d.record.id = tab.selected /\ Card(d.record).active
  BY DrawerIs DEF Card
<1>7. ASSUME all # {}
      PROVE  RecentTraffic # {}
  <2>1. PICK r \in Latest(all) : TRUE
    BY <1>2, <1>7, LatestExists
  <2>2. \A q \in all : q.id \in Nat
    BY <1>2, FeedBasics
  <2>3. {q \in all : q.id >= r.id} = {r}
    BY <1>3, <2>1, <2>2 DEF Latest
  <2>4. Row(r, all) = 1
    BY <2>3, FS_Singleton DEF Row
  <2> QED BY <2>1, <2>4 DEF RecentTraffic, Latest
<1> QED BY <1>4, <1>5, <1>6, <1>7 DEF PageAgrees

(***************************************************************************)
(* THEOREM.  The live lists keep their types and are never longer than     *)
(* retention lets the control plane's be; and the parts of the page that   *)
(* is shown agree.                                                         *)
(***************************************************************************)
THEOREM FeedTypeCorrect == FeedSpec => []FeedTypeOK
<1>1. ASSUME FeedInv PROVE FeedTypeOK
  <2>1. history \subseteq Records /\ cache \in Caches /\ fetch \in Fetches /\ tab \in Tabs
    BY <1>1 DEF FeedInv
  <2> QED BY <1>1, <2>1, ListsAreShort, PartsAgree DEF FeedTypeOK, Caches, Fetches, Tabs
<1> QED BY <1>1, FeedInvariant, PTL

\* What an open drawer tells of a record.
Told(r) == [record |-> r, explainer |-> Explainer(r),
            docs |-> IF r.kind = "WEBHOOK" THEN "webhooks" ELSE "requests"]
DrawerTells ==
  DrawerShown => \E r \in Seen : r.id = tab.selected /\ Drawer = {Told(r)}

LEMMA DrawerTellsIt ==
  ASSUME FeedInv
  PROVE  DrawerTells
<1> SUFFICES ASSUME DrawerShown PROVE \E r \in Seen : r.id = tab.selected /\ Drawer = {Told(r)}
  BY DEF DrawerTells
<1> DEFINE r == CHOOSE x \in filtered : x.id = Selected
<1>1. Drawer = {Told(r)}
  BY DEF Drawer, Told
<1>2. Told(r).record = r
  BY DEF Told
<1> HIDE DEF r
<1>3. r \in filtered /\ r.id = tab.selected
  BY <1>1, <1>2, DrawerIs
<1>4. filtered \subseteq Seen
  BY FeedBasics DEF filtered, Matching, all, data, Key, FeedInv, Caches, Seen
<1> QED BY <1>1, <1>3, <1>4

(***************************************************************************)
(* THEOREM.  Whatever arrives, is dropped or is filtered away under it, an *)
(* open drawer goes on showing the record it was opened on, and the same   *)
(* of it, until the user selects another.                                  *)
(***************************************************************************)
THEOREM DrawerStays == FeedSpec => DrawerKeepsItsRecord
<1>1. ASSUME FeedInv, DrawerTells, DrawerTells', [FeedNext]_feedVars
      PROVE  [(DrawerShown /\ DrawerShown' /\ tab'.selected = tab.selected)
                => Drawer' = Drawer]_feedVars
  <2> SUFFICES ASSUME DrawerShown, DrawerShown', tab'.selected = tab.selected
               PROVE  Drawer' = Drawer
    OBVIOUS
  <2>1. CASE Arrive
    BY <2>1 DEF Arrive, Drawer, DrawerShown, Selected, filtered, Matching, all, data, Key
  <2>2. CASE Seen' \subseteq Seen
    <3>1. PICK r \in Seen : r.id = tab.selected /\ Drawer = {Told(r)}
      BY <1>1 DEF DrawerTells
    <3>2. PICK q \in Seen' : q.id = tab'.selected /\ Drawer' = {Told(q)}
      BY <1>1 DEF DrawerTells
    <3>3. q = r
      BY <1>1, <2>2, <3>1, <3>2 DEF FeedInv
    <3> QED BY <3>1, <3>2, <3>3
  <2> QED BY <1>1, <2>1, <2>2, FeedStepBut
<1>2. FeedInv => DrawerTells
  BY DrawerTellsIt
<1> QED BY <1>1, <1>2, FeedInvariant, PTL DEF DrawerKeepsItsRecord, FeedSpec
==============================================================================

------------------------------ MODULE Accounts ------------------------------
(***************************************************************************)
(* The account of a user in two services: the rows of auth.users, and the  *)
(* default settings and tags of the finance service, with everything that  *)
(* creates, changes and erases them.                                       *)
(*                                                                         *)
(* A request is the sequence of statements its service function makes      *)
(* (todo); another request, a failure or a crash may come between any two. *)
(* A row of auth.users and a tag are their positions in users and tags.    *)
(***************************************************************************)
EXTENDS Naturals, Sequences, FiniteSets

CONSTANTS Handlers,
          Texts, Folded,      \* user names, addresses and tag names; lower()
          UserNames, Mails,   \* what people type
          DefaultTags,        \* a sequence
          CustomTags,
          Ann,                \* name and address of the first user
          MaxUsers, MaxTags,  \* bounds: rows that are inserted
          MaxRequests,        \* bound: requests other than onboarding
          MaxFaults           \* bound: failed statements, lost answers, crashes

ASSUME AccountsAssumption ==
  /\ Folded \in [Texts -> Texts] /\ \A x \in Texts : Folded[Folded[x]] = Folded[x]
  /\ UserNames \subseteq Texts /\ Mails \subseteq Texts /\ CustomTags \subseteq Texts
  /\ DefaultTags \in Seq(Texts) /\ Ann \in Texts /\ Folded[Ann] = Ann
  /\ MaxUsers \in Nat /\ MaxTags \in Nat /\ MaxRequests \in Nat /\ MaxFaults \in Nat

VARIABLES users,     \* auth.users
          removed,   \* the users whose row was deleted
          settings,  \* the users with a row in finance.default_settings
          tags,      \* finance.tags
          dropped,   \* the tags that were deleted
          spent,     \* the tags of active expenses
          planned,   \* the tags of pending schedules
          erased,    \* history: users whose finance data was erased
          req,       \* the request of each handler
          requests, faults

authVars == <<users, removed>>
financeVars == <<settings, tags, dropped, erased>>
ledgerVars == <<spent, planned>>
vars == <<authVars, financeVars, ledgerVars, req, requests, faults>>

Idle == [op |-> "list", user |-> 0, name |-> Ann, mail |-> Ann, tag |-> 0, todo |-> << >>,
         status |-> "idle", inUse |-> FALSE, faulty |-> FALSE]

\* One user has registered.
Init ==
  /\ users = <<[name |-> Ann, mail |-> Ann, role |-> "user", onboarded |-> FALSE]>>
  /\ removed = {} /\ settings = {} /\ tags = << >> /\ dropped = {} /\ erased = {}
  /\ spent = {} /\ planned = {}
  /\ req = [c \in Handlers |-> Idle]
  /\ requests = 0 /\ faults = 0
-----------------------------------------------------------------------------
(* The service functions, as the statements they make.                     *)

Register == <<"userByMail", "userByName", "createUser">>
UpdateProfile == <<"userByMail", "userByName", "updateUser">>
SeedAdmin == <<"userByName", "createUser", "completeOnboarding">>
UpdateDefaults == <<"upsertDefaults">>
ListTags == <<"countTags", "seedTags", "listTags">>
CreateTag == <<"createTag">>
UpdateTag == <<"updateTag">>

\* Mutated function: pending schedules are not counted.
DeleteTagUncounted == <<"getTag", "countExpenses", "deleteTag">>

DeleteTag == <<"getTag", "countExpenses", "countSchedules", "deleteTag">>

\* Mutated client: the two calls are swapped.
OnboardSwapped == <<"completeOnboarding", "onboarding">>

\* The onboarding page: POST /api/finance/onboarding, then /api/auth/onboarding-complete.
Onboard == <<"onboarding", "completeOnboarding">>
-----------------------------------------------------------------------------
(* Requests.                                                               *)

Begin(c, r, todo) ==
  /\ req[c].status = "idle"
  /\ req' = [req EXCEPT ![c] = [r EXCEPT !.todo = todo, !.status = "running"]]
  /\ UNCHANGED <<authVars, financeVars, ledgerVars, faults>>

Counted == requests < MaxRequests /\ requests' = requests + 1

Present == DOMAIN users \ removed

\* A session of a user.
As(u, op) == [Idle EXCEPT !.op = op, !.user = u]

\* Mutated normalization: the address is stored as it was typed.
NormalizedAsTyped(mail) == mail

\* strings.ToLower(strings.TrimSpace(email))
Normalized(mail) == Folded[mail]

AskRegister(c, name, mail) ==
  Counted /\ Begin(c, [Idle EXCEPT !.op = "register", !.name = name, !.mail = Normalized(mail)], Register)

AskUpdateProfile(c, u, name, mail) ==
  Counted /\ Begin(c, [As(u, "profile") EXCEPT !.name = name, !.mail = Normalized(mail)], UpdateProfile)

\* The seed-admin command; the address is taken from the environment as it is.
AskSeedAdmin(c, name, mail) ==
  Counted /\ Begin(c, [Idle EXCEPT !.op = "seed", !.name = name, !.mail = mail], SeedAdmin)

AskOnboarding(c, u) ==
  /\ ~ users[u].onboarded
  /\ Begin(c, As(u, "onboard"), Onboard) /\ UNCHANGED requests

AskUpdateDefaults(c, u) == Counted /\ Begin(c, As(u, "defaults"), UpdateDefaults)

AskListTags(c, u) == Counted /\ Begin(c, As(u, "list"), ListTags)

AskCreateTag(c, u, name) == Counted /\ Begin(c, [As(u, "create") EXCEPT !.name = name], CreateTag)

AskUpdateTag(c, t, name) ==
  Counted /\ Begin(c, [As(tags[t].user, "rename") EXCEPT !.tag = t, !.name = name], UpdateTag)

AskDeleteTag(c, t) ==
  Counted /\ Begin(c, [As(tags[t].user, "delete") EXCEPT !.tag = t, !.inUse = t \in spent \cup planned],
                   DeleteTag)

Ask(c) ==
  \/ \E name \in UserNames, mail \in Mails :
       \/ AskRegister(c, name, mail) \/ AskSeedAdmin(c, name, mail)
       \/ \E u \in DOMAIN users : AskUpdateProfile(c, u, name, mail)
  \/ \E u \in DOMAIN users :
       /\ users[u].role = "user"
       /\ \/ AskOnboarding(c, u) \/ AskUpdateDefaults(c, u) \/ AskListTags(c, u)
          \/ \E name \in CustomTags : AskCreateTag(c, u, name)
  \/ \E t \in DOMAIN tags :
       \/ AskDeleteTag(c, t)
       \/ \E name \in CustomTags : AskUpdateTag(c, t, name)
-----------------------------------------------------------------------------
(* Statements.                                                             *)

At(c, statement) == req[c].status = "running" /\ req[c].todo # << >> /\ Head(req[c].todo) = statement

Proceed(c) == req' = [req EXCEPT ![c].todo = Tail(@)]
Answer(c, status) == req' = [req EXCEPT ![c].status = status, ![c].todo = << >>]

\* The row with this address, or this name, that is not the caller's own.
OtherByMail(c) == {u \in Present \ {req[c].user} : users[u].mail = req[c].mail}
OtherByName(c) == {u \in Present \ {req[c].user} : users[u].name = req[c].name}

GetUserByEmail(c) ==
  /\ At(c, "userByMail")
  /\ IF OtherByMail(c) # {} THEN Answer(c, "conflict") ELSE Proceed(c)
  /\ UNCHANGED <<authVars, financeVars, ledgerVars, requests, faults>>

\* To the seeder an existing name means that its work was done before.
GetUserByUsername(c) ==
  /\ At(c, "userByName")
  /\ IF OtherByName(c) = {} THEN Proceed(c)
     ELSE Answer(c, IF req[c].op = "seed" THEN "ok" ELSE "conflict")
  /\ UNCHANGED <<authVars, financeVars, ledgerVars, requests, faults>>

\* The two unique constraints of auth.users.
Duplicate(c) == OtherByMail(c) # {} \/ OtherByName(c) # {}

\* Mutated repository: the constraint's violation is passed on as it is.
DuplicateStatusUnmapped(op) == "error"

\* DuplicateError: a conflict to the handlers, an error of the seeder.
DuplicateStatus(op) == IF op = "seed" THEN "error" ELSE "conflict"

CreateUser(c) ==
  /\ At(c, "createUser")
  /\ IF Duplicate(c)
     THEN Answer(c, DuplicateStatus(req[c].op)) /\ UNCHANGED users
     ELSE /\ Len(users) < MaxUsers
          /\ users' = Append(users, [name |-> req[c].name, mail |-> req[c].mail, onboarded |-> FALSE,
                                     role |-> IF req[c].op = "seed" THEN "admin" ELSE "user"])
          /\ req' = [req EXCEPT ![c].todo = Tail(@), ![c].user = Len(users) + 1]
  /\ UNCHANGED <<removed, financeVars, ledgerVars, requests, faults>>

UpdateUser(c) ==
  /\ At(c, "updateUser")
  /\ CASE req[c].user \notin Present -> Answer(c, "refused") /\ UNCHANGED users
       [] req[c].user \in Present /\ Duplicate(c) ->
            Answer(c, DuplicateStatus(req[c].op)) /\ UNCHANGED users
       [] OTHER -> /\ users' = [users EXCEPT ![req[c].user].name = req[c].name,
                                             ![req[c].user].mail = req[c].mail]
                   /\ Proceed(c)
  /\ UNCHANGED <<removed, financeVars, ledgerVars, requests, faults>>

CompleteOnboarding(c) ==
  /\ At(c, "completeOnboarding")
  /\ IF req[c].user \in Present
     THEN users' = [users EXCEPT ![req[c].user].onboarded = TRUE] /\ Proceed(c)
     ELSE Answer(c, "refused") /\ UNCHANGED users
  /\ UNCHANGED <<removed, financeVars, ledgerVars, requests, faults>>

Live == DOMAIN tags \ dropped
TagsOf(u) == {t \in Live : tags[t].user = u}

\* UNIQUE (user_id, lower(name))
NameTaken(u, name) == \E t \in TagsOf(u) : Folded[tags[t].name] = Folded[name]

DefaultRows(u) ==
  [i \in DOMAIN DefaultTags |-> [user |-> u, name |-> DefaultTags[i], isDefault |-> TRUE]]

\* The default tags that come before the first one that collides.
FreePrefix(u) ==
  {i \in DOMAIN DefaultTags : \A j \in 1..i : ~ NameTaken(u, DefaultTags[j])}

\* Mutated transaction: each insert is committed by itself.
SeededPiecemeal(u) ==
  SubSeq(DefaultRows(u), 1, Cardinality(FreePrefix(u)))

\* What one transaction inserts: all default tags, or none when one collides.
Seeded(u) == IF FreePrefix(u) = DOMAIN DefaultTags THEN DefaultRows(u) ELSE << >>

SeedAll(c) ==
  LET rows == Seeded(req[c].user)
  IN /\ Len(tags) + Len(rows) <= MaxTags
     /\ tags' = tags \o rows
     /\ IF Len(rows) = Len(DefaultTags) THEN Proceed(c) ELSE Answer(c, "error")

\* The transaction of the defaults and the tags.
CompleteFinanceOnboarding(c) ==
  /\ At(c, "onboarding")
  /\ SeedAll(c)
  /\ settings' = IF Len(tags') = Len(tags) + Len(DefaultTags) THEN settings \cup {req[c].user} ELSE settings
  /\ UNCHANGED <<authVars, dropped, erased, ledgerVars, requests, faults>>

UpsertDefaults(c) ==
  /\ At(c, "upsertDefaults")
  /\ settings' = settings \cup {req[c].user}
  /\ Proceed(c)
  /\ UNCHANGED <<authVars, tags, dropped, erased, ledgerVars, requests, faults>>

CountUserTags(c) ==
  /\ At(c, "countTags")
  /\ req' = [req EXCEPT ![c].todo = IF TagsOf(req[c].user) = {} THEN Tail(@) ELSE Tail(Tail(@))]
  /\ UNCHANGED <<authVars, financeVars, ledgerVars, requests, faults>>

SeedTags(c) ==
  /\ At(c, "seedTags")
  /\ SeedAll(c)
  /\ UNCHANGED <<authVars, settings, dropped, erased, ledgerVars, requests, faults>>

ReadTags(c) ==
  /\ At(c, "listTags") /\ Proceed(c)
  /\ UNCHANGED <<authVars, financeVars, ledgerVars, requests, faults>>

InsertTag(c) ==
  /\ At(c, "createTag")
  /\ IF NameTaken(req[c].user, req[c].name)
     THEN Answer(c, "conflict") /\ UNCHANGED tags
     ELSE /\ Len(tags) < MaxTags
          /\ tags' = Append(tags, [user |-> req[c].user, name |-> req[c].name, isDefault |-> FALSE])
          /\ Proceed(c)
  /\ UNCHANGED <<authVars, settings, dropped, erased, ledgerVars, requests, faults>>

RenameTag(c) ==
  LET t == req[c].tag
  IN /\ At(c, "updateTag")
     /\ CASE t \notin Live -> Answer(c, "refused") /\ UNCHANGED tags
          [] t \in Live /\ \E o \in TagsOf(req[c].user) \ {t} : Folded[tags[o].name] = Folded[req[c].name] ->
               Answer(c, "conflict") /\ UNCHANGED tags
          [] OTHER -> tags' = [tags EXCEPT ![t].name = req[c].name] /\ Proceed(c)
     /\ UNCHANGED <<authVars, settings, dropped, erased, ledgerVars, requests, faults>>

\* A default tag is only renamed.
GetTag(c) ==
  /\ At(c, "getTag")
  /\ IF req[c].tag \in Live /\ ~ tags[req[c].tag].isDefault THEN Proceed(c) ELSE Answer(c, "refused")
  /\ UNCHANGED <<authVars, financeVars, ledgerVars, requests, faults>>

\* A request that saw an expense is refused, whatever it counts next.
CountExpensesByTag(c) ==
  /\ At(c, "countExpenses")
  /\ IF req[c].tag \in spent THEN Answer(c, "conflict") ELSE Proceed(c)
  /\ UNCHANGED <<authVars, financeVars, ledgerVars, requests, faults>>

CountTagInProRata(c) ==
  /\ At(c, "countSchedules")
  /\ IF req[c].tag \in planned THEN Answer(c, "conflict") ELSE Proceed(c)
  /\ UNCHANGED <<authVars, financeVars, ledgerVars, requests, faults>>

RemoveTag(c) ==
  /\ At(c, "deleteTag")
  /\ dropped' = dropped \cup {req[c].tag}
  /\ Proceed(c)
  /\ UNCHANGED <<authVars, settings, tags, erased, ledgerVars, requests, faults>>

Statement(c) ==
  \/ GetUserByEmail(c) \/ GetUserByUsername(c) \/ CreateUser(c) \/ UpdateUser(c)
  \/ CompleteOnboarding(c) \/ CompleteFinanceOnboarding(c) \/ UpsertDefaults(c)
  \/ CountUserTags(c) \/ SeedTags(c) \/ ReadTags(c) \/ InsertTag(c) \/ RenameTag(c)
  \/ GetTag(c) \/ CountExpensesByTag(c) \/ CountTagInProRata(c) \/ RemoveTag(c)

Succeed(c) ==
  /\ req[c].status = "running" /\ req[c].todo = << >>
  /\ req' = [req EXCEPT ![c].status = "ok"]
  /\ UNCHANGED <<authVars, financeVars, ledgerVars, requests, faults>>

\* The client has the answer.
Finish(c) ==
  /\ req[c].status \notin {"idle", "running"}
  /\ req' = [req EXCEPT ![c] = Idle]
  /\ UNCHANGED <<authVars, financeVars, ledgerVars, requests, faults>>

\* A statement fails, an answer is lost or the process dies; nothing is undone.
Fail(c) ==
  /\ req[c].status = "running"
  /\ faults < MaxFaults /\ faults' = faults + 1
  /\ req' = [req EXCEPT ![c].status = "error", ![c].todo = << >>, ![c].faulty = TRUE]
  /\ UNCHANGED <<authVars, financeVars, ledgerVars, requests>>
-----------------------------------------------------------------------------
(* The other services.                                                     *)

\* The tags of the requests that delete one, after the references changed.
Unused(ts) == [c \in Handlers |-> [req[c] EXCEPT !.inUse = @ /\ req[c].tag \notin ts]]

\* An expense or a plan names a tag; neither service looks it up.
Spend(t) ==
  /\ ~ tags[t].isDefault /\ spent' = spent \cup {t}
  /\ UNCHANGED <<authVars, financeVars, planned, req, requests, faults>>

Plan(t) ==
  /\ ~ tags[t].isDefault /\ planned' = planned \cup {t}
  /\ UNCHANGED <<authVars, financeVars, spent, req, requests, faults>>

\* An expense is deleted or corrected to another tag.
Unspend(t) ==
  /\ t \in spent /\ spent' = spent \ {t}
  /\ req' = IF t \in planned THEN req ELSE Unused({t})
  /\ UNCHANGED <<authVars, financeVars, planned, requests, faults>>

\* A schedule is settled: its installment was written (Spend) or was refused.
Settle(t) ==
  /\ t \in planned /\ planned' = planned \ {t}
  /\ req' = Unused({t})
  /\ UNCHANGED <<authVars, financeVars, spent, requests, faults>>

\* finance DeleteAllUserData, one transaction.
DeleteAllUserData(u) ==
  /\ settings' = settings \ {u}
  /\ dropped' = dropped \cup TagsOf(u)
  /\ planned' = {t \in planned : tags[t].user # u}
  /\ erased' = erased \cup {u}
  /\ req' = Unused({t \in DOMAIN tags : tags[t].user = u})
  /\ UNCHANGED <<authVars, tags, spent, requests, faults>>

\* The account is the last provider of a deletion job.
FinanceErased(u) == u \in erased

\* auth DeleteUserData.
DeleteUser(u) ==
  /\ u \in Present /\ FinanceErased(u)
  /\ removed' = removed \cup {u}
  /\ UNCHANGED <<users, financeVars, ledgerVars, req, requests, faults>>

Environment ==
  \/ \E t \in Live : Spend(t) \/ Plan(t)
  \/ \E t \in DOMAIN tags : Unspend(t) \/ Settle(t)
  \/ \E u \in DOMAIN users : users[u].role = "user" /\ (DeleteAllUserData(u) \/ DeleteUser(u))

Next ==
  \/ \E c \in Handlers : Ask(c) \/ Statement(c) \/ Succeed(c) \/ Finish(c) \/ Fail(c)
  \/ Environment

Spec == Init /\ [][Next]_vars

\* The services make progress and the first user keeps submitting the onboarding form.
SpecRetried ==
  /\ Spec
  /\ \A c \in Handlers : WF_vars(Statement(c) \/ Succeed(c) \/ Finish(c))
  /\ \A c \in Handlers : SF_vars(1 \in Present /\ AskOnboarding(c, 1))
-----------------------------------------------------------------------------
(* Properties.                                                             *)

\* Register, UpdateProfile, Login: however people type their address when they
\* register or change it, the login, which folds it, finds their row and no other.
UsersCanLogIn ==
  \A u \in Present : users[u].role = "user" =>
    {v \in Present : users[v].mail = Folded[users[u].mail]} = {u}

\* CreateUser, DuplicateError: of overlapping registrations and profile changes
\* that want the same name the later is told so; only a failure is an error.
LosersAreTold ==
  \A c \in Handlers : req[c].op \in {"register", "profile"} /\ req[c].status = "error" => req[c].faulty

\* CompleteOnboarding in both services: nobody counts as onboarded without the
\* settings a new budget period needs, except after their erasure.
OnboardedHaveSettings ==
  \A u \in DOMAIN users : users[u].role = "user" /\ users[u].onboarded => u \in settings \cup erased

\* CompleteOnboarding, ListTags: the default tags of a user come in whole sets,
\* whatever overlaps or collides.  (One set, unless all of them are renamed before
\* the user is given the tags again.)
DefaultTagsTogether ==
  \A u \in DOMAIN users : \E sets \in 0..Len(tags) :
    Cardinality({t \in TagsOf(u) : tags[t].isDefault}) = sets * Len(DefaultTags)

\* DeleteTag: a tag that expenses or pending schedules refer to all through the
\* request, none of its schedules being settled meanwhile, is not deleted.
TagsInUseStay ==
  [][\A c \in Handlers : At(c, "deleteTag") /\ req[c].tag \in dropped' \ dropped => ~ req[c].inUse]_vars

\* Onboarding: a user who submits the form again after a failure gets through it
\* in the end, unless their data is erased.
OnboardingCompletes == <>(users[1].onboarded \/ 1 \in erased)
=============================================================================

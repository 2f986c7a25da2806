--------------------------- MODULE AccountsProofs ---------------------------
(***************************************************************************)
(* What the accounts keep for any number of overlapping requests, users,   *)
(* tags and failures: people can log in, losers of a race are told so,     *)
(* onboarded users have settings, default tags come in whole sets, and a   *)
(* tag in use stays.                                                       *)
(***************************************************************************)
EXTENDS Accounts, SequenceTheorems, FiniteSetTheorems, TLAPS

User == [name : Texts, mail : Texts, role : {"user", "admin"}, onboarded : BOOLEAN]
Tag == [user : Nat, name : Texts, isDefault : BOOLEAN]
Op == {"register", "profile", "seed", "onboard", "defaults", "list", "create", "rename", "delete"}
Status == {"idle", "running", "ok", "conflict", "refused", "error"}
StatementName == {"userByMail", "userByName", "createUser", "updateUser", "completeOnboarding",
                  "onboarding", "upsertDefaults", "countTags", "seedTags", "listTags", "createTag",
                  "updateTag", "getTag", "countExpenses", "countSchedules", "deleteTag"}
Request == [op : Op, user : Nat, name : Texts, mail : Texts, tag : Nat, todo : Seq(StatementName),
            status : Status, inUse : BOOLEAN, faulty : BOOLEAN]

\* What a request of each kind may have left to do.
Doing(op, todo) ==
  \/ todo = << >>
  \/ op = "register" /\ todo \in {Register, <<"userByName", "createUser">>, <<"createUser">>}
  \/ op = "profile" /\ todo \in {UpdateProfile, <<"userByName", "updateUser">>, <<"updateUser">>}
  \/ op = "seed" /\ todo \in {SeedAdmin, <<"createUser", "completeOnboarding">>,
                             <<"completeOnboarding">>}
  \/ op = "onboard" /\ todo \in {Onboard, <<"completeOnboarding">>}
  \/ op = "defaults" /\ todo = UpdateDefaults
  \/ op = "list" /\ todo \in {ListTags, <<"seedTags", "listTags">>, <<"listTags">>}
  \/ op = "create" /\ todo = CreateTag
  \/ op = "rename" /\ todo = UpdateTag
  \/ op = "delete" /\ todo \in {DeleteTag, <<"countExpenses", "countSchedules", "deleteTag">>,
                               <<"countSchedules", "deleteTag">>, <<"deleteTag">>}

\* A new user has no row yet; the seeder's has one when it is to be flagged.
CreatesOK(r) ==
  /\ r.op = "register" /\ r.todo # << >> => r.user = 0
  /\ r.op = "seed" /\ r.todo \notin {<< >>, <<"completeOnboarding">>} => r.user = 0
  /\ r.op = "seed" /\ r.todo = <<"completeOnboarding">> =>
       r.user \in DOMAIN users /\ users[r.user].role = "admin"
  /\ r.op \in {"register", "profile"} => Folded[r.mail] = r.mail

OnboardingOK(r) ==
  r.op = "onboard" /\ r.todo = <<"completeOnboarding">> => r.user \in settings \cup erased

ErrorOK(r) == r.op \in {"register", "profile"} /\ r.status = "error" => r.faulty

\* What a deletion knows of its tag, and what follows when the tag is in use.
DeletionOK(r) ==
  /\ r.op = "delete" => r.tag \in DOMAIN tags
  /\ r.op = "delete" /\ r.todo \notin {<< >>, DeleteTag} => ~ tags[r.tag].isDefault
  /\ r.inUse => /\ r.op = "delete" /\ r.tag \in spent \cup planned
                /\ r.todo = <<"countSchedules", "deleteTag">> => r.tag \in planned
                /\ r.todo # <<"deleteTag">>

RequestOK(r) ==
  /\ Doing(r.op, r.todo) /\ CreatesOK(r) /\ OnboardingOK(r) /\ ErrorOK(r) /\ DeletionOK(r)

RequestsOK == \A c \in Handlers : RequestOK(req[c])

MailsDiffer == \A u, v \in Present : users[u].mail = users[v].mail => u = v

MailsAreFolded ==
  \A u \in DOMAIN users : users[u].role = "user" => Folded[users[u].mail] = users[u].mail

Defaults(u) == {t \in TagsOf(u) : tags[t].isDefault}

Whole(u) == \E sets \in 0..Len(tags) : Cardinality(Defaults(u)) = sets * Len(DefaultTags)

TablesOK ==
  /\ users \in Seq(User) /\ tags \in Seq(Tag) /\ dropped \subseteq DOMAIN tags
  /\ MailsDiffer /\ MailsAreFolded /\ OnboardedHaveSettings
  /\ \A u \in Nat : Whole(u)

AccountsInv == req \in [Handlers -> Request] /\ RequestsOK /\ TablesOK
-----------------------------------------------------------------------------
(* Statements.                                                             *)

LEMMA PlansType ==
  /\ Register \in Seq(StatementName)
  /\ UpdateProfile \in Seq(StatementName)
  /\ SeedAdmin \in Seq(StatementName)
  /\ Onboard \in Seq(StatementName)
  /\ UpdateDefaults \in Seq(StatementName)
  /\ ListTags \in Seq(StatementName)
  /\ CreateTag \in Seq(StatementName)
  /\ UpdateTag \in Seq(StatementName)
  /\ DeleteTag \in Seq(StatementName)
<1>1. Register \in Seq(StatementName)
  BY DEF Register, StatementName
<1>2. UpdateProfile \in Seq(StatementName)
  BY DEF UpdateProfile, StatementName
<1>3. SeedAdmin \in Seq(StatementName)
  BY DEF SeedAdmin, StatementName
<1>4. Onboard \in Seq(StatementName)
  BY DEF Onboard, StatementName
<1>5. UpdateDefaults \in Seq(StatementName)
  BY DEF UpdateDefaults, StatementName
<1>6. ListTags \in Seq(StatementName)
  BY DEF ListTags, StatementName
<1>7. CreateTag \in Seq(StatementName)
  BY DEF CreateTag, StatementName
<1>8. UpdateTag \in Seq(StatementName)
  BY DEF UpdateTag, StatementName
<1>9. DeleteTag \in Seq(StatementName)
  BY DEF DeleteTag, StatementName
<1>. QED
  BY <1>1, <1>2, <1>3, <1>4, <1>5, <1>6, <1>7, <1>8, <1>9

\* The statement at the head says whose request it is and what is left.
Continues(op, todo) ==
  /\ Doing(op, Tail(todo))
  /\ Head(todo) = "createUser" =>
       /\ op \in {"register", "seed"} /\ todo # <<"completeOnboarding">>
       /\ op = "register" => Tail(todo) = << >>
       /\ op = "seed" => Tail(todo) = <<"completeOnboarding">>
  /\ Head(todo) = "updateUser" => op = "profile"
  /\ Head(todo) = "completeOnboarding" =>
       todo = <<"completeOnboarding">> /\ op \in {"seed", "onboard"}
  /\ Head(todo) = "onboarding" => op = "onboard"
  /\ Head(todo) = "seedTags" => op = "list"
  /\ Head(todo) = "countTags" => op = "list" /\ Tail(Tail(todo)) = <<"listTags">>
  /\ Head(todo) \in {"getTag", "countExpenses", "countSchedules", "deleteTag"} => op = "delete"
  /\ Head(todo) = "deleteTag" => todo = <<"deleteTag">>
  /\ Tail(todo) = <<"completeOnboarding">> => Head(todo) \in {"createUser", "onboarding"}
  /\ op = "delete" =>
       /\ todo = DeleteTag => Head(todo) = "getTag"
       /\ Tail(todo) # DeleteTag
       /\ Head(todo) = "countSchedules" => todo = <<"countSchedules", "deleteTag">>
       /\ Tail(todo) = <<"countSchedules", "deleteTag">> => Head(todo) = "countExpenses"
       /\ Tail(todo) = <<"deleteTag">> => Head(todo) = "countSchedules"

LEMMA EachContinues ==
  /\ Continues("register", Register)
  /\ Continues("register", <<"userByName", "createUser">>)
  /\ Continues("register", <<"createUser">>)
  /\ Continues("profile", UpdateProfile)
  /\ Continues("profile", <<"userByName", "updateUser">>)
  /\ Continues("profile", <<"updateUser">>)
  /\ Continues("seed", SeedAdmin)
  /\ Continues("seed", <<"createUser", "completeOnboarding">>)
  /\ Continues("seed", <<"completeOnboarding">>)
  /\ Continues("onboard", Onboard)
  /\ Continues("onboard", <<"completeOnboarding">>)
  /\ Continues("defaults", UpdateDefaults)
  /\ Continues("list", ListTags)
  /\ Continues("list", <<"seedTags", "listTags">>)
  /\ Continues("list", <<"listTags">>)
  /\ Continues("create", CreateTag)
  /\ Continues("rename", UpdateTag)
  /\ Continues("delete", DeleteTag)
  /\ Continues("delete", <<"countExpenses", "countSchedules", "deleteTag">>)
  /\ Continues("delete", <<"countSchedules", "deleteTag">>)
  /\ Continues("delete", <<"deleteTag">>)
<1>. USE DEF Continues, Doing, Register, UpdateProfile, SeedAdmin, Onboard, UpdateDefaults, ListTags,
             CreateTag, UpdateTag, DeleteTag
<1>1. Continues("register", Register)
  OBVIOUS
<1>2. Continues("register", <<"userByName", "createUser">>)
  OBVIOUS
<1>3. Continues("register", <<"createUser">>)
  OBVIOUS
<1>4. Continues("profile", UpdateProfile)
  OBVIOUS
<1>5. Continues("profile", <<"userByName", "updateUser">>)
  OBVIOUS
<1>6. Continues("profile", <<"updateUser">>)
  OBVIOUS
<1>7. Continues("seed", SeedAdmin)
  OBVIOUS
<1>8. Continues("seed", <<"createUser", "completeOnboarding">>)
  OBVIOUS
<1>9. Continues("seed", <<"completeOnboarding">>)
  OBVIOUS
<1>10. Continues("onboard", Onboard)
  OBVIOUS
<1>11. Continues("onboard", <<"completeOnboarding">>)
  OBVIOUS
<1>12. Continues("defaults", UpdateDefaults)
  OBVIOUS
<1>13. Continues("list", ListTags)
  OBVIOUS
<1>14. Continues("list", <<"seedTags", "listTags">>)
  OBVIOUS
<1>15. Continues("list", <<"listTags">>)
  OBVIOUS
<1>16. Continues("create", CreateTag)
  OBVIOUS
<1>17. Continues("rename", UpdateTag)
  OBVIOUS
<1>18. Continues("delete", DeleteTag)
  OBVIOUS
<1>19. Continues("delete", <<"countExpenses", "countSchedules", "deleteTag">>)
  OBVIOUS
<1>20. Continues("delete", <<"countSchedules", "deleteTag">>)
  OBVIOUS
<1>21. Continues("delete", <<"deleteTag">>)
  OBVIOUS
<1>. QED
  BY <1>1, <1>2, <1>3, <1>4, <1>5, <1>6, <1>7, <1>8, <1>9, <1>10, <1>11, <1>12, <1>13, <1>14, <1>15, <1>16, <1>17, <1>18, <1>19, <1>20, <1>21

LEMMA NextStatement ==
  ASSUME NEW op, NEW todo, Doing(op, todo), todo # << >>
  PROVE  Continues(op, todo)
BY EachContinues DEF Doing
-----------------------------------------------------------------------------
(* The requests.                                                           *)

\* What the steps of a request may do to the tables.
Grows ==
  /\ DOMAIN users \subseteq DOMAIN users'
  /\ \A u \in DOMAIN users : users'[u].role = users[u].role
  /\ settings \cup erased \subseteq settings' \cup erased'
  /\ DOMAIN tags \subseteq DOMAIN tags'
  /\ \A t \in DOMAIN tags : tags'[t].isDefault = tags[t].isDefault
  /\ spent \subseteq spent' /\ planned \subseteq planned'

LEMMA OthersStayOK ==
  ASSUME RequestsOK, Grows, NEW d \in Handlers, req'[d] = req[d]
  PROVE  RequestOK(req[d])'
<1>1. RequestOK(req[d])
  BY DEF RequestsOK
<1>. QED
  BY <1>1 DEF RequestOK, Doing, CreatesOK, OnboardingOK, ErrorOK, DeletionOK, Grows

\* A request is answered.
LEMMA AnswersOK ==
  ASSUME AccountsInv, Grows, NEW c \in Handlers, NEW status \in Status, Answer(c, status),
         status = "error" => req[c].op \notin {"register", "profile"}
  PROVE  RequestsOK' /\ req' \in [Handlers -> Request]
<1>1. /\ req \in [Handlers -> Request] /\ RequestOK(req[c]) /\ RequestsOK
      /\ req' = [req EXCEPT ![c] = [req[c] EXCEPT !.status = status, !.todo = << >>]]
  BY DEF AccountsInv, RequestsOK, Answer
<1>2. /\ req'[c] \in Request /\ req'[c].op = req[c].op /\ req'[c].todo = << >>
      /\ req'[c].status = status /\ req'[c].mail = req[c].mail /\ req'[c].tag = req[c].tag
      /\ req'[c].inUse = req[c].inUse
  BY <1>1, EmptySeq DEF Request
<1>3. RequestOK(req[c])'
  <2>1. ~ (<< >> = <<"completeOnboarding">> \/ << >> = <<"deleteTag">>
           \/ << >> = <<"countSchedules", "deleteTag">>)
    OBVIOUS
  <2>2. (Doing(req[c].op, req[c].todo) /\ CreatesOK(req[c]) /\ OnboardingOK(req[c]) /\ ErrorOK(req[c]))'
    BY <1>1, <1>2, <2>1 DEF RequestOK, Doing, CreatesOK, OnboardingOK, ErrorOK
  <2>3. DeletionOK(req[c])'
    BY <1>1, <1>2, <2>1 DEF RequestOK, DeletionOK, Grows
  <2>. QED
    BY <2>2, <2>3 DEF RequestOK
<1>4. \A d \in Handlers : d # c => req'[d] = req[d]
  BY <1>1
<1>. QED
  BY <1>1, <1>2, <1>3, <1>4, OthersStayOK DEF RequestsOK

\* A request goes on to its next statement.
LEMMA ProceedsOK ==
  ASSUME AccountsInv, Grows, NEW c \in Handlers, Proceed(c), req[c].todo # << >>,
         Head(req[c].todo) # "createUser",
         Head(req[c].todo) = "onboarding" => req[c].user \in settings' \cup erased',
         Head(req[c].todo) = "getTag" => ~ tags[req[c].tag].isDefault,
         Head(req[c].todo) = "countExpenses" => req[c].tag \notin spent,
         Head(req[c].todo) = "countSchedules" => req[c].tag \notin planned
  PROVE  RequestsOK' /\ req' \in [Handlers -> Request]
<1>1. /\ req \in [Handlers -> Request] /\ RequestOK(req[c]) /\ RequestsOK
      /\ req' = [req EXCEPT ![c] = [req[c] EXCEPT !.todo = Tail(req[c].todo)]]
  BY DEF AccountsInv, RequestsOK, Proceed
<1>2. Continues(req[c].op, req[c].todo)
  BY <1>1, NextStatement DEF RequestOK
<1>3. Tail(req[c].todo) \in Seq(StatementName)
  <2>1. req[c].todo \in Seq(StatementName)
    BY <1>1 DEF Request
  <2>. QED
    BY <2>1, HeadTailProperties
<1>4. /\ req'[c] \in Request /\ req'[c].op = req[c].op /\ req'[c].todo = Tail(req[c].todo)
      /\ req'[c].status = req[c].status /\ req'[c].mail = req[c].mail /\ req'[c].tag = req[c].tag
      /\ req'[c].inUse = req[c].inUse /\ req'[c].user = req[c].user /\ req'[c].faulty = req[c].faulty
  BY <1>1, <1>3 DEF Request
<1>5. Doing(req[c].op, req[c].todo)'
  BY <1>2, <1>4 DEF Continues
<1>6. CreatesOK(req[c])'
  <2>1. req[c].op \in {"register", "profile"} => Folded[req[c].mail] = req[c].mail
    BY <1>1 DEF RequestOK, CreatesOK
  <2>2. req[c].op = "register" => req[c].user = 0
    BY <1>1 DEF RequestOK, CreatesOK
  <2>3. req[c].op = "seed" =>
          /\ Tail(req[c].todo) # <<"completeOnboarding">>
          /\ Tail(req[c].todo) # << >> => req[c].user = 0
    <3>1. req[c].op = "seed" => Head(req[c].todo) # "createUser" /\ Head(req[c].todo) # "onboarding"
      BY <1>2 DEF Continues
    <3>2. req[c].todo = <<"completeOnboarding">> => Tail(req[c].todo) = << >>
      OBVIOUS
    <3>. QED
      BY <1>1, <1>2, <3>1, <3>2 DEF Continues, RequestOK, CreatesOK
  <2>. QED
    BY <1>4, <2>1, <2>2, <2>3 DEF CreatesOK
<1>7. OnboardingOK(req[c])'
  <2>1. req[c].op = "onboard" /\ Tail(req[c].todo) = <<"completeOnboarding">> =>
          Head(req[c].todo) = "onboarding"
    BY <1>2 DEF Continues
  <2>. QED
    BY <1>4, <2>1 DEF OnboardingOK
<1>8. ErrorOK(req[c])'
  BY <1>1, <1>4 DEF RequestOK, ErrorOK
<1>9. DeletionOK(req[c])'
  <2>1. CASE req[c].op = "delete"
    <3>1. /\ req[c].tag \in DOMAIN tags
          /\ req[c].todo = DeleteTag => Head(req[c].todo) = "getTag"
          /\ ~ tags[req[c].tag].isDefault
      BY <1>1, <1>2, <2>1 DEF RequestOK, DeletionOK, Continues
    <3>2. ASSUME req[c].inUse
          PROVE  /\ req[c].tag \in spent \cup planned
                 /\ Tail(req[c].todo) = <<"countSchedules", "deleteTag">> => req[c].tag \in planned
                 /\ Tail(req[c].todo) # <<"deleteTag">>
      <4>1. /\ req[c].tag \in spent \cup planned
            /\ req[c].todo = <<"countSchedules", "deleteTag">> => req[c].tag \in planned
            /\ req[c].todo # <<"deleteTag">>
        BY <1>1, <3>2 DEF RequestOK, DeletionOK
      <4>2. Tail(req[c].todo) = <<"countSchedules", "deleteTag">> => req[c].tag \in planned
        BY <1>2, <2>1, <4>1 DEF Continues
      <4>3. ASSUME Tail(req[c].todo) = <<"deleteTag">> PROVE FALSE
        <5>1. Head(req[c].todo) = "countSchedules" /\ req[c].tag \notin planned
          BY <1>2, <2>1, <4>3 DEF Continues
        <5>2. req[c].todo = <<"countSchedules", "deleteTag">>
          BY <1>2, <2>1, <5>1 DEF Continues
        <5>. QED
          BY <4>1, <5>1, <5>2
      <4>. QED
        BY <4>1, <4>2, <4>3
    <3>. QED
      BY <1>4, <2>1, <3>1, <3>2 DEF DeletionOK, Grows
  <2>2. CASE req[c].op # "delete"
    BY <1>1, <1>4, <2>2 DEF RequestOK, DeletionOK
  <2>. QED
    BY <2>1, <2>2
<1>10. RequestOK(req[c])'
  BY <1>5, <1>6, <1>7, <1>8, <1>9 DEF RequestOK
<1>11. \A d \in Handlers : d # c => req'[d] = req[d]
  BY <1>1
<1>. QED
  BY <1>1, <1>4, <1>10, <1>11, OthersStayOK DEF RequestsOK

\* A request begins.
LEMMA BeginsOK ==
  ASSUME AccountsInv, NEW c \in Handlers, UNCHANGED <<authVars, financeVars, ledgerVars>>,
         req' = [req EXCEPT ![c] = req'[c]], req'[c] \in Request, RequestOK(req'[c])
  PROVE  RequestsOK' /\ req' \in [Handlers -> Request]
<1>1. Grows
  BY DEF Grows, authVars, financeVars, ledgerVars
<1>2. req \in [Handlers -> Request] /\ RequestsOK
  BY DEF AccountsInv, TablesOK
<1>3. \A d \in Handlers : d # c => req'[d] = req[d]
  BY <1>2
<1>4. RequestOK(req[c])'
  BY DEF authVars, financeVars, ledgerVars, RequestOK, Doing, CreatesOK, OnboardingOK, ErrorOK, DeletionOK
<1>. QED
  BY <1>1, <1>2, <1>3, <1>4, OthersStayOK DEF RequestsOK

LEMMA IdleType == Idle \in Request
BY AccountsAssumption, EmptySeq DEF Idle, Request, Op, Status

LEMMA AsType ==
  ASSUME NEW u \in Nat, NEW op \in Op
  PROVE  As(u, op) \in Request /\ As(u, op).op = op /\ As(u, op).inUse = FALSE
BY IdleType DEF As, Idle, Request

LEMMA DeletionBegins ==
  ASSUME NEW r, r.op = "delete", r.todo = DeleteTag, r.status = "running", r.tag \in DOMAIN tags,
         r.inUse => r.tag \in spent \cup planned
  PROVE  RequestOK(r)
<1>1. DeleteTag # <<"countSchedules", "deleteTag">> /\ DeleteTag # <<"deleteTag">>
  BY DEF DeleteTag
<1>2. DeletionOK(r)
  BY <1>1 DEF DeletionOK
<1>3. Doing(r.op, r.todo) /\ CreatesOK(r) /\ OnboardingOK(r) /\ ErrorOK(r)
  BY DEF Doing, CreatesOK, OnboardingOK, ErrorOK
<1>. QED
  BY <1>2, <1>3 DEF RequestOK

LEMMA AskOK ==
  ASSUME AccountsInv, NEW c \in Handlers, Ask(c)
  PROVE  RequestsOK' /\ req' \in [Handlers -> Request] /\ UNCHANGED <<authVars, financeVars, ledgerVars>>
<1>1. /\ req \in [Handlers -> Request] /\ tags \in Seq(Tag) /\ DOMAIN tags = 1..Len(tags)
      /\ DOMAIN users = 1..Len(users) /\ Len(users) \in Nat /\ Len(tags) \in Nat
      /\ \A t \in DOMAIN tags : tags[t] \in Tag
      /\ \A u \in DOMAIN users : u \in Nat
  BY LenProperties, ElementOfSeq DEF AccountsInv, TablesOK
<1>2. UNCHANGED <<authVars, financeVars, ledgerVars>>
  BY DEF Ask, AskRegister, AskSeedAdmin, AskUpdateProfile, AskOnboarding, AskUpdateDefaults, AskListTags,
         AskCreateTag, AskUpdateTag, AskDeleteTag, Begin
<1>3. req' = [req EXCEPT ![c] = req'[c]]
  BY <1>1 DEF Ask, AskRegister, AskSeedAdmin, AskUpdateProfile, AskOnboarding, AskUpdateDefaults,
              AskListTags, AskCreateTag, AskUpdateTag, AskDeleteTag, Begin
<1>4. \A r \in Request : r.todo # << >> /\ Doing(r.op, r.todo) /\ r.status = "running" /\ ~ r.inUse
         /\ r.op \notin {"register", "seed", "profile", "onboard", "delete"} => RequestOK(r)
  BY DEF RequestOK, CreatesOK, OnboardingOK, ErrorOK, DeletionOK
<1>5. ASSUME NEW name \in UserNames, NEW mail \in Mails, AskRegister(c, name, mail)
      PROVE  req'[c] \in Request /\ RequestOK(req'[c])
  <2>1. Folded[mail] \in Texts /\ Folded[Folded[mail]] = Folded[mail] /\ name \in Texts
    BY AccountsAssumption
  <2>2. /\ req'[c] \in Request /\ req'[c].op = "register" /\ req'[c].todo = Register /\ req'[c].user = 0
        /\ req'[c].mail = Folded[mail] /\ req'[c].status = "running" /\ req'[c].inUse = FALSE
    BY <1>1, <1>5, <2>1, IdleType, PlansType
       DEF AskRegister, Begin, Request, Op, Status, Idle, Normalized
  <2>. QED
    BY <2>1, <2>2 DEF RequestOK, Doing, CreatesOK, OnboardingOK, ErrorOK, DeletionOK
<1>6. ASSUME NEW name \in UserNames, NEW mail \in Mails, AskSeedAdmin(c, name, mail)
      PROVE  req'[c] \in Request /\ RequestOK(req'[c])
  <2>1. mail \in Texts /\ name \in Texts
    BY AccountsAssumption
  <2>2. /\ req'[c] \in Request /\ req'[c].op = "seed" /\ req'[c].todo = SeedAdmin /\ req'[c].user = 0
        /\ req'[c].status = "running" /\ req'[c].inUse = FALSE
    BY <1>1, <1>6, <2>1, IdleType, PlansType DEF AskSeedAdmin, Begin, Request, Op, Status, Idle
  <2>3. SeedAdmin # <<"completeOnboarding">>
    BY DEF SeedAdmin
  <2>. QED
    BY <2>2, <2>3 DEF RequestOK, Doing, CreatesOK, OnboardingOK, ErrorOK, DeletionOK
<1>7. ASSUME NEW u \in DOMAIN users, NEW name \in UserNames, NEW mail \in Mails,
             AskUpdateProfile(c, u, name, mail)
      PROVE  req'[c] \in Request /\ RequestOK(req'[c])
  <2>1. Folded[mail] \in Texts /\ Folded[Folded[mail]] = Folded[mail] /\ name \in Texts
    BY AccountsAssumption
  <2>2. /\ req'[c] \in Request /\ req'[c].op = "profile" /\ req'[c].todo = UpdateProfile
        /\ req'[c].mail = Folded[mail] /\ req'[c].status = "running" /\ req'[c].inUse = FALSE
    <3>. DEFINE r == [As(u, "profile") EXCEPT !.name = name, !.mail = Folded[mail]]
    <3>1. u \in Nat /\ "profile" \in Op
      BY <1>1 DEF Op
    <3>2. As(u, "profile") \in Request /\ As(u, "profile").op = "profile" /\ As(u, "profile").inUse = FALSE
      BY <3>1, AsType
    <3>3. r \in Request /\ r.op = "profile" /\ r.inUse = FALSE /\ r.mail = Folded[mail]
      BY <2>1, <3>2 DEF Request
    <3>4. req'[c] = [r EXCEPT !.todo = UpdateProfile, !.status = "running"]
      BY <1>1, <1>7 DEF AskUpdateProfile, Begin, Normalized
    <3>. HIDE DEF r
    <3>. QED
      BY <3>3, <3>4, PlansType DEF Request, Status
  <2>. QED
    BY <2>1, <2>2 DEF RequestOK, Doing, CreatesOK, OnboardingOK, ErrorOK, DeletionOK
<1>8. ASSUME NEW u \in DOMAIN users, AskOnboarding(c, u)
      PROVE  req'[c] \in Request /\ RequestOK(req'[c])
  <2>1. /\ req'[c] \in Request /\ req'[c].op = "onboard" /\ req'[c].todo = Onboard
        /\ req'[c].status = "running" /\ req'[c].inUse = FALSE
    <3>1. u \in Nat /\ "onboard" \in Op
      BY <1>1 DEF Op
    <3>2. req'[c] = [As(u, "onboard") EXCEPT !.todo = Onboard, !.status = "running"]
      BY <1>1, <1>8 DEF AskOnboarding, Begin
    <3>3. As(u, "onboard") \in Request /\ As(u, "onboard").op = "onboard" /\ As(u, "onboard").inUse = FALSE
      BY <3>1, AsType
    <3>. QED
      BY <3>2, <3>3, PlansType DEF Request, Status
  <2>2. Onboard # <<"completeOnboarding">>
    BY DEF Onboard
  <2>. QED
    BY <2>1, <2>2 DEF RequestOK, Doing, CreatesOK, OnboardingOK, ErrorOK, DeletionOK
<1>9. ASSUME NEW u \in DOMAIN users, NEW name \in CustomTags, AskCreateTag(c, u, name)
      PROVE  req'[c] \in Request /\ RequestOK(req'[c])
  <2>1. name \in Texts
    BY AccountsAssumption
  <2>2. /\ req'[c] \in Request /\ req'[c].status = "running" /\ req'[c].inUse = FALSE
        /\ req'[c].op = "create" /\ req'[c].todo = CreateTag
    <3>. DEFINE r == [As(u, "create") EXCEPT !.name = name]
    <3>1. u \in Nat /\ "create" \in Op
      BY <1>1 DEF Op
    <3>2. As(u, "create") \in Request /\ As(u, "create").op = "create" /\ As(u, "create").inUse = FALSE
      BY <3>1, AsType
    <3>3. r \in Request /\ r.op = "create" /\ r.inUse = FALSE
      BY <2>1, <3>2 DEF Request
    <3>4. req'[c] = [r EXCEPT !.todo = CreateTag, !.status = "running"]
      BY <1>1, <1>9 DEF AskCreateTag, Begin
    <3>. HIDE DEF r
    <3>. QED
      BY <3>3, <3>4, PlansType DEF Request, Status
  <2>3. CreateTag # << >>
    BY DEF CreateTag
  <2>. QED
    BY <1>4, <2>2, <2>3 DEF Doing
<1>10. ASSUME NEW u \in DOMAIN users, AskUpdateDefaults(c, u) \/ AskListTags(c, u)
       PROVE  req'[c] \in Request /\ RequestOK(req'[c])
  <2>1. /\ req'[c] \in Request /\ req'[c].status = "running" /\ req'[c].inUse = FALSE
        /\ \/ req'[c].op = "defaults" /\ req'[c].todo = UpdateDefaults
           \/ req'[c].op = "list" /\ req'[c].todo = ListTags
    <3>1. u \in Nat /\ "defaults" \in Op /\ "list" \in Op
      BY <1>1 DEF Op
    <3>2. \/ req'[c] = [As(u, "defaults") EXCEPT !.todo = UpdateDefaults, !.status = "running"]
          \/ req'[c] = [As(u, "list") EXCEPT !.todo = ListTags, !.status = "running"]
      BY <1>1, <1>10 DEF AskUpdateDefaults, AskListTags, Begin
    <3>3. /\ As(u, "defaults") \in Request /\ As(u, "defaults").op = "defaults"
          /\ As(u, "defaults").inUse = FALSE
          /\ As(u, "list") \in Request /\ As(u, "list").op = "list" /\ As(u, "list").inUse = FALSE
      BY <3>1, AsType
    <3>. QED
      BY <3>2, <3>3, PlansType DEF Request, Status
  <2>2. UpdateDefaults # << >> /\ ListTags # << >>
    BY DEF UpdateDefaults, ListTags
  <2>. QED
    BY <1>4, <2>1, <2>2 DEF Doing
<1>11. ASSUME NEW t \in DOMAIN tags, NEW name \in CustomTags, AskUpdateTag(c, t, name)
       PROVE  req'[c] \in Request /\ RequestOK(req'[c])
  <2>1. name \in Texts /\ tags[t].user \in Nat /\ t \in Nat
    BY <1>1, AccountsAssumption DEF Tag
  <2>2. /\ req'[c] \in Request /\ req'[c].op = "rename" /\ req'[c].todo = UpdateTag
        /\ req'[c].status = "running" /\ req'[c].inUse = FALSE
    BY <1>1, <1>11, <2>1, IdleType, PlansType DEF AskUpdateTag, Begin, Request, Op, Status, Idle, As
  <2>3. UpdateTag # << >>
    BY DEF UpdateTag
  <2>. QED
    BY <1>4, <2>2, <2>3 DEF Doing
<1>12. ASSUME NEW t \in DOMAIN tags, AskDeleteTag(c, t)
       PROVE  req'[c] \in Request /\ RequestOK(req'[c])
  <2>1. tags[t].user \in Nat /\ t \in Nat
    BY <1>1 DEF Tag
  <2>2. /\ req'[c] \in Request /\ req'[c].op = "delete" /\ req'[c].todo = DeleteTag
        /\ req'[c].status = "running" /\ req'[c].tag = t
        /\ req'[c].inUse => t \in spent \cup planned
    <3>1. As(tags[t].user, "delete") \in Request /\ As(tags[t].user, "delete").op = "delete"
      <4>1. "delete" \in Op
        BY DEF Op
      <4>. QED
        BY <2>1, <4>1, AsType
    <3>2. CASE t \in spent \cup planned
      <4>. DEFINE r == [As(tags[t].user, "delete") EXCEPT !.tag = t, !.inUse = TRUE]
      <4>1. r \in Request /\ r.op = "delete" /\ r.tag = t
        BY <2>1, <3>1 DEF Request
      <4>2. req'[c] = [r EXCEPT !.todo = DeleteTag, !.status = "running"]
        BY <1>1, <1>12, <3>2 DEF AskDeleteTag, Begin
      <4>. HIDE DEF r
      <4>. QED
        BY <3>2, <4>1, <4>2, PlansType DEF Request, Status
    <3>3. CASE t \notin spent \cup planned
      <4>. DEFINE r == [As(tags[t].user, "delete") EXCEPT !.tag = t, !.inUse = FALSE]
      <4>1. r \in Request /\ r.op = "delete" /\ r.tag = t /\ r.inUse = FALSE
        BY <2>1, <3>1 DEF Request
      <4>2. req'[c] = [r EXCEPT !.todo = DeleteTag, !.status = "running"]
        <5>1. (t \in spent \cup planned) = FALSE
          BY <3>3
        <5>. QED
          BY <1>1, <1>12, <5>1 DEF AskDeleteTag, Begin
      <4>. HIDE DEF r
      <4>. QED
        BY <4>1, <4>2, PlansType DEF Request, Status
    <3>. QED
      BY <3>2, <3>3
  <2>3. req'[c].tag \in DOMAIN tags
    BY <2>2
  <2>. QED
    BY <2>2, <2>3, DeletionBegins
<1>13. req'[c] \in Request /\ RequestOK(req'[c])
  BY <1>5, <1>6, <1>7, <1>8, <1>9, <1>10, <1>11, <1>12 DEF Ask
<1>. QED
  BY <1>2, <1>3, <1>13, BeginsOK
-----------------------------------------------------------------------------
(* Statements that only read, and the end of a request.                    *)

LEMMA TablesStay ==
  ASSUME TablesOK, UNCHANGED <<authVars, financeVars>>
  PROVE  TablesOK'
<1>1. \A u \in Nat : Defaults(u)' = Defaults(u)
  BY DEF financeVars, Defaults, TagsOf, Live
<1>2. \A u \in Nat : Whole(u)'
  BY <1>1 DEF TablesOK, financeVars, Whole
<1>3. (MailsDiffer /\ MailsAreFolded /\ OnboardedHaveSettings)'
  BY DEF TablesOK, authVars, financeVars, MailsDiffer, Present, MailsAreFolded, OnboardedHaveSettings
<1>. QED
  BY <1>2, <1>3 DEF TablesOK, authVars, financeVars

LEMMA NothingShrinks ==
  ASSUME UNCHANGED <<authVars, financeVars, ledgerVars>>
  PROVE  Grows
BY DEF Grows, authVars, financeVars, ledgerVars

\* What a request knows at a statement.
LEMMA Here ==
  ASSUME AccountsInv, NEW c \in Handlers, NEW statement, At(c, statement)
  PROVE  /\ req[c] \in Request /\ req[c].todo # << >> /\ Head(req[c].todo) = statement
         /\ Continues(req[c].op, req[c].todo) /\ RequestOK(req[c])
BY NextStatement DEF AccountsInv, RequestsOK, RequestOK, At

LEMMA ReadsOK ==
  ASSUME AccountsInv, NEW c \in Handlers,
         \/ GetUserByEmail(c) \/ GetUserByUsername(c) \/ CountUserTags(c) \/ ReadTags(c)
         \/ GetTag(c) \/ CountExpensesByTag(c) \/ CountTagInProRata(c)
  PROVE  AccountsInv'
<1>1. UNCHANGED <<authVars, financeVars, ledgerVars>>
  BY DEF GetUserByEmail, GetUserByUsername, CountUserTags, ReadTags, GetTag, CountExpensesByTag,
         CountTagInProRata
<1>2. TablesOK' /\ Grows
  BY <1>1, TablesStay, NothingShrinks DEF AccountsInv
<1>3. CASE GetUserByEmail(c) \/ GetUserByUsername(c) \/ ReadTags(c)
  <2>1. PICK statement \in {"userByMail", "userByName", "listTags"} : At(c, statement)
    BY <1>3 DEF GetUserByEmail, GetUserByUsername, ReadTags
  <2>2. Answer(c, "conflict") \/ Answer(c, "ok") \/ Proceed(c)
    BY <1>3 DEF GetUserByEmail, GetUserByUsername, ReadTags
  <2>3. "conflict" \in Status /\ "ok" \in Status
    BY DEF Status
  <2>4. RequestsOK' /\ req' \in [Handlers -> Request]
    BY <1>2, <2>1, <2>2, <2>3, Here, AnswersOK, ProceedsOK
  <2>. QED
    BY <1>2, <2>4 DEF AccountsInv
<1>4. CASE GetTag(c)
  <2>1. At(c, "getTag") /\ "refused" \in Status
    BY <1>4 DEF GetTag, Status
  <2>2. Answer(c, "refused") \/ (Proceed(c) /\ ~ tags[req[c].tag].isDefault)
    BY <1>4 DEF GetTag
  <2>3. RequestsOK' /\ req' \in [Handlers -> Request]
    BY <1>2, <2>1, <2>2, Here, AnswersOK, ProceedsOK
  <2>. QED
    BY <1>2, <2>3 DEF AccountsInv
<1>5. CASE CountExpensesByTag(c)
  <2>1. At(c, "countExpenses") /\ "conflict" \in Status
    BY <1>5 DEF CountExpensesByTag, Status
  <2>2. Answer(c, "conflict") \/ (Proceed(c) /\ req[c].tag \notin spent)
    BY <1>5 DEF CountExpensesByTag
  <2>3. RequestsOK' /\ req' \in [Handlers -> Request]
    BY <1>2, <2>1, <2>2, Here, AnswersOK, ProceedsOK
  <2>. QED
    BY <1>2, <2>3 DEF AccountsInv
<1>6. CASE CountTagInProRata(c)
  <2>1. At(c, "countSchedules") /\ "conflict" \in Status
    BY <1>6 DEF CountTagInProRata, Status
  <2>2. Answer(c, "conflict") \/ (Proceed(c) /\ req[c].tag \notin planned)
    BY <1>6 DEF CountTagInProRata
  <2>3. RequestsOK' /\ req' \in [Handlers -> Request]
    BY <1>2, <2>1, <2>2, Here, AnswersOK, ProceedsOK
  <2>. QED
    BY <1>2, <2>3 DEF AccountsInv
<1>7. CASE CountUserTags(c)
  <2>1. At(c, "countTags") /\ req \in [Handlers -> Request]
    BY <1>7 DEF CountUserTags, AccountsInv
  <2>2. CASE TagsOf(req[c].user) = {}
    <3>1. Proceed(c)
      BY <1>7, <2>2 DEF CountUserTags, Proceed
    <3>2. RequestsOK' /\ req' \in [Handlers -> Request]
      BY <1>2, <2>1, <3>1, Here, ProceedsOK
    <3>. QED
      BY <1>2, <3>2 DEF AccountsInv
  <2>3. CASE TagsOf(req[c].user) # {}
    <3>1. req[c] \in Request /\ req[c].op = "list" /\ Tail(Tail(req[c].todo)) = <<"listTags">> /\ ~ req[c].inUse
      BY <2>1, Here DEF Continues, RequestOK, DeletionOK
    <3>2. req' = [req EXCEPT ![c] = [req[c] EXCEPT !.todo = <<"listTags">>]]
      BY <1>7, <2>1, <2>3, <3>1 DEF CountUserTags
    <3>3. <<"listTags">> \in Seq(StatementName)
      BY DEF StatementName
    <3>4. /\ req'[c] \in Request /\ req'[c].op = "list" /\ req'[c].todo = <<"listTags">> /\ ~ req'[c].inUse
          /\ req' = [req EXCEPT ![c] = req'[c]]
      BY <2>1, <3>1, <3>2, <3>3 DEF Request
    <3>5. RequestOK(req'[c])
      BY <3>4 DEF RequestOK, Doing, CreatesOK, OnboardingOK, ErrorOK, DeletionOK
    <3>6. RequestsOK' /\ req' \in [Handlers -> Request]
      BY <1>1, <3>4, <3>5, BeginsOK
    <3>. QED
      BY <1>2, <3>6 DEF AccountsInv
  <2>. QED
    BY <2>2, <2>3
<1>. QED
  BY <1>3, <1>4, <1>5, <1>6, <1>7

LEMMA EndsOK ==
  ASSUME AccountsInv, NEW c \in Handlers, Succeed(c) \/ Finish(c) \/ Fail(c)
  PROVE  AccountsInv'
<1>1. UNCHANGED <<authVars, financeVars, ledgerVars>> /\ req \in [Handlers -> Request] /\ req[c] \in Request
      /\ RequestOK(req[c])
  BY DEF Succeed, Finish, Fail, AccountsInv, RequestsOK
<1>2. TablesOK'
  BY <1>1, TablesStay DEF AccountsInv
<1>3. CASE Succeed(c)
  <2>1. /\ req' = [req EXCEPT ![c] = req'[c]] /\ req'[c] = [req[c] EXCEPT !.status = "ok"]
    BY <1>1, <1>3 DEF Succeed
  <2>2. req'[c] \in Request
    BY <1>1, <2>1 DEF Request, Status
  <2>3. RequestOK(req'[c])
    <3>1. /\ req'[c].op = req[c].op /\ req'[c].todo = req[c].todo /\ req'[c].user = req[c].user
          /\ req'[c].mail = req[c].mail /\ req'[c].tag = req[c].tag /\ req'[c].inUse = req[c].inUse
          /\ req'[c].status = "ok"
      BY <1>1, <2>1 DEF Request
    <3>. QED
      BY <1>1, <3>1 DEF RequestOK, CreatesOK, OnboardingOK, ErrorOK, DeletionOK
  <2>. QED
    BY <1>1, <1>2, <2>1, <2>2, <2>3, BeginsOK DEF AccountsInv
<1>4. CASE Finish(c)
  <2>1. req' = [req EXCEPT ![c] = req'[c]] /\ req'[c] = Idle
    BY <1>1, <1>4 DEF Finish
  <2>2. RequestOK(Idle)
    BY DEF Idle, RequestOK, Doing, CreatesOK, OnboardingOK, ErrorOK, DeletionOK
  <2>. QED
    BY <1>1, <1>2, <2>1, <2>2, IdleType, BeginsOK DEF AccountsInv
<1>5. CASE Fail(c)
  <2>1. /\ req' = [req EXCEPT ![c] = req'[c]]
        /\ req'[c] = [req[c] EXCEPT !.status = "error", !.todo = << >>, !.faulty = TRUE]
    BY <1>1, <1>5 DEF Fail
  <2>2. /\ req'[c] \in Request /\ req'[c].op = req[c].op /\ req'[c].todo = << >> /\ req'[c].faulty
        /\ req'[c].mail = req[c].mail /\ req'[c].tag = req[c].tag /\ req'[c].inUse = req[c].inUse
    <3>1. << >> \in Seq(StatementName) /\ "error" \in Status
      BY DEF Status
    <3>. QED
      BY <1>1, <2>1, <3>1 DEF Request
  <2>3. << >> # <<"completeOnboarding">> /\ << >> # <<"deleteTag">> /\ << >> # <<"countSchedules", "deleteTag">>
    OBVIOUS
  <2>4. RequestOK(req'[c])
    BY <1>1, <2>2, <2>3 DEF RequestOK, Doing, CreatesOK, OnboardingOK, ErrorOK, DeletionOK
  <2>. QED
    BY <1>1, <1>2, <2>1, <2>2, <2>4, BeginsOK DEF AccountsInv
<1>. QED
  BY <1>3, <1>4, <1>5
-----------------------------------------------------------------------------
(* Statements that write users.                                            *)

\* The rows of the users, whatever happens to tags.
UsersOK == users \in Seq(User) /\ MailsDiffer /\ MailsAreFolded /\ OnboardedHaveSettings

TagsOK == tags \in Seq(Tag) /\ dropped \subseteq DOMAIN tags /\ \A u \in Nat : Whole(u)

LEMMA UsersStay ==
  ASSUME TablesOK, UNCHANGED <<authVars>>, settings \cup erased \subseteq settings' \cup erased'
  PROVE  UsersOK'
BY DEF UsersOK, TablesOK, authVars, MailsDiffer, Present, MailsAreFolded, OnboardedHaveSettings

LEMMA TagsStay ==
  ASSUME TablesOK, UNCHANGED <<tags, dropped>>
  PROVE  TagsOK'
<1>1. \A u \in Nat : Defaults(u)' = Defaults(u)
  BY DEF Defaults, TagsOf, Live
<1>. QED
  BY <1>1 DEF TablesOK, TagsOK, Whole

LEMMA UsersAre ==
  ASSUME TablesOK
  PROVE  /\ DOMAIN users = 1..Len(users) /\ Len(users) \in Nat
         /\ \A u \in DOMAIN users : users[u] \in User /\ u \in Nat
BY LenProperties, ElementOfSeq DEF TablesOK

LEMMA CreateUserOK ==
  ASSUME AccountsInv, NEW c \in Handlers, CreateUser(c)
  PROVE  AccountsInv'
<1>1. At(c, "createUser") /\ UNCHANGED <<removed, financeVars, ledgerVars>> /\ TablesOK
      /\ req \in [Handlers -> Request]
  BY DEF CreateUser, AccountsInv
<1>2. /\ req[c] \in Request /\ req[c].op \in {"register", "seed"} /\ req[c].user = 0
      /\ req[c].op = "register" => Tail(req[c].todo) = << >> /\ Folded[req[c].mail] = req[c].mail
      /\ req[c].op = "seed" => Tail(req[c].todo) = <<"completeOnboarding">>
      /\ ~ req[c].inUse /\ ErrorOK(req[c]) /\ Doing(req[c].op, Tail(req[c].todo))
      /\ req[c].todo # << >>
  <2>1. req[c] \in Request /\ Continues(req[c].op, req[c].todo) /\ RequestOK(req[c]) /\ req[c].todo # << >>
        /\ Head(req[c].todo) = "createUser"
    BY <1>1, Here
  <2>. QED
    BY <2>1 DEF Continues, RequestOK, CreatesOK, DeletionOK
<1>3. TagsOK'
  BY <1>1, TagsStay DEF financeVars
<1>4. CASE Duplicate(c)
  <2>1. users' = users /\ Answer(c, DuplicateStatus(req[c].op))
    BY <1>4 DEF CreateUser
  <2>2. Grows /\ TablesOK'
    BY <1>1, <2>1, NothingShrinks, TablesStay DEF authVars
  <2>3. /\ DuplicateStatus(req[c].op) \in Status
        /\ DuplicateStatus(req[c].op) = "error" => req[c].op \notin {"register", "profile"}
    BY <1>2 DEF DuplicateStatus, Status
  <2>. QED
    BY <2>1, <2>2, <2>3, AnswersOK DEF AccountsInv
<1>5. CASE ~ Duplicate(c)
  <2>. DEFINE n == Len(users) + 1
              row == [name |-> req[c].name, mail |-> req[c].mail, onboarded |-> FALSE,
                      role |-> IF req[c].op = "seed" THEN "admin" ELSE "user"]
  <2>1. /\ users' = Append(users, row)
        /\ req' = [req EXCEPT ![c] = [req[c] EXCEPT !.todo = Tail(req[c].todo), !.user = n]]
    BY <1>1, <1>5 DEF CreateUser
  <2>2. row \in User
    BY <1>2 DEF User, Request
  <2>3. /\ users' \in Seq(User) /\ DOMAIN users' = DOMAIN users \cup {n} /\ n \in Nat /\ n \notin DOMAIN users
        /\ users'[n] = row /\ \A u \in DOMAIN users : users'[u] = users[u]
    <3>1. users \in Seq(User) /\ DOMAIN users = 1..Len(users) /\ Len(users) \in Nat
      BY <1>1, UsersAre DEF TablesOK
    <3>2. /\ users' \in Seq(User) /\ Len(users') = Len(users) + 1 /\ users'[Len(users) + 1] = row
          /\ \A u \in 1..Len(users) : users'[u] = users[u]
      BY <2>1, <2>2, <3>1, AppendProperties
    <3>3. DOMAIN users' = 1..Len(users')
      BY <3>2, LenProperties
    <3>. QED
      BY <3>1, <3>2, <3>3
  <2>. HIDE DEF n
  <2>4. Grows
    BY <1>1, <2>3 DEF Grows, financeVars, ledgerVars
  <2>5. UsersOK'
    <3>1. MailsDiffer'
      <4>1. \A u \in Present : users[u].mail # req[c].mail
        <5>1. \A u \in Present : u # 0
          BY <1>1, UsersAre DEF Present
        <5>. QED
          BY <1>2, <1>5, <5>1 DEF Duplicate, OtherByMail
      <4>. QED
        BY <1>1, <2>3, <4>1 DEF TablesOK, MailsDiffer, Present
    <3>2. MailsAreFolded'
      BY <1>1, <1>2, <2>3 DEF TablesOK, MailsAreFolded
    <3>3. OnboardedHaveSettings'
      BY <1>1, <2>3 DEF TablesOK, OnboardedHaveSettings, financeVars
    <3>. QED
      BY <2>3, <3>1, <3>2, <3>3 DEF UsersOK
  <2>6. Tail(req[c].todo) \in Seq(StatementName)
    BY <1>2, HeadTailProperties DEF Request
  <2>7. /\ req'[c] \in Request /\ req'[c].op = req[c].op /\ req'[c].todo = Tail(req[c].todo)
        /\ req'[c].user = n /\ req'[c].mail = req[c].mail /\ req'[c].inUse = req[c].inUse
        /\ req'[c].status = req[c].status /\ req'[c].faulty = req[c].faulty
    BY <1>1, <1>2, <2>1, <2>3, <2>6 DEF Request
  <2>8. RequestOK(req[c])'
    <3>1. n \in DOMAIN users' /\ (req[c].op = "seed" => users'[n].role = "admin")
      BY <2>3
    <3>2. Doing(req[c].op, req[c].todo)'
      BY <1>2, <2>7
    <3>3. CreatesOK(req[c])'
      BY <1>2, <2>7, <3>1 DEF CreatesOK
    <3>4. (OnboardingOK(req[c]) /\ ErrorOK(req[c]) /\ DeletionOK(req[c]))'
      BY <1>2, <2>7 DEF OnboardingOK, ErrorOK, DeletionOK
    <3>. QED
      BY <3>2, <3>3, <3>4 DEF RequestOK
  <2>9. \A d \in Handlers : d # c => req'[d] = req[d]
    BY <1>1, <2>1
  <2>10. RequestsOK' /\ req' \in [Handlers -> Request]
    BY <1>1, <2>1, <2>4, <2>7, <2>8, <2>9, OthersStayOK DEF RequestsOK, AccountsInv
  <2>. QED
    BY <1>3, <2>5, <2>10 DEF AccountsInv, TablesOK, UsersOK, TagsOK
<1>. QED
  BY <1>4, <1>5

LEMMA UpdateUserOK ==
  ASSUME AccountsInv, NEW c \in Handlers, UpdateUser(c)
  PROVE  AccountsInv'
<1>. DEFINE u == req[c].user
<1>1. At(c, "updateUser") /\ UNCHANGED <<removed, financeVars, ledgerVars>> /\ TablesOK
  BY DEF UpdateUser, AccountsInv
<1>2. /\ req[c] \in Request /\ req[c].op = "profile" /\ Folded[req[c].mail] = req[c].mail
      /\ req[c].todo # << >> /\ Head(req[c].todo) = "updateUser"
  BY <1>1, Here DEF Continues, RequestOK, CreatesOK
<1>3. TagsOK'
  BY <1>1, TagsStay DEF financeVars
<1>4. CASE users' = users
  <2>1. Grows /\ TablesOK'
    BY <1>1, <1>4, NothingShrinks, TablesStay DEF authVars
  <2>2. DuplicateStatus("profile") = "conflict" /\ {"conflict", "refused"} \subseteq Status
    BY DEF DuplicateStatus, Status
  <2>3. Answer(c, "refused") \/ Answer(c, "conflict") \/ Proceed(c)
    BY <1>2, <2>2 DEF UpdateUser
  <2>4. RequestsOK' /\ req' \in [Handlers -> Request]
    BY <1>2, <2>1, <2>2, <2>3, AnswersOK, ProceedsOK
  <2>. QED
    BY <2>1, <2>4 DEF AccountsInv
<1>5. CASE users' # users
  <2>1. /\ u \in Present /\ ~ Duplicate(c) /\ Proceed(c)
        /\ users' = [users EXCEPT ![u].name = req[c].name, ![u].mail = req[c].mail]
    BY <1>5 DEF UpdateUser
  <2>2. /\ DOMAIN users = 1..Len(users) /\ Len(users) \in Nat /\ u \in DOMAIN users
        /\ users[u] \in User /\ users \in Seq(User)
    BY <1>1, <2>1, UsersAre DEF Present, TablesOK
  <2>. DEFINE row == [users[u] EXCEPT !.name = req[c].name, !.mail = req[c].mail]
  <2>3. row \in User /\ row.mail = req[c].mail /\ row.role = users[u].role /\ row.onboarded = users[u].onboarded
    BY <1>2, <2>2 DEF User, Request
  <2>4. users' = [users EXCEPT ![u] = row]
    BY <2>1, <2>2 DEF User
  <2>. HIDE DEF row
  <2>5. /\ users' \in Seq(User) /\ DOMAIN users' = DOMAIN users /\ users'[u] = row
        /\ \A v \in DOMAIN users : v # u => users'[v] = users[v]
    BY <2>2, <2>3, <2>4, ExceptSeq
  <2>6. Grows
    BY <1>1, <2>2, <2>3, <2>5 DEF Grows, financeVars, ledgerVars
  <2>7. UsersOK'
    <3>1. \A v \in Present : v # u => users[v].mail # req[c].mail
      BY <2>1 DEF Duplicate, OtherByMail
    <3>2. MailsDiffer'
      BY <1>1, <2>1, <2>3, <2>5, <3>1 DEF TablesOK, MailsDiffer, Present
    <3>3. MailsAreFolded'
      BY <1>1, <1>2, <2>3, <2>5 DEF TablesOK, MailsAreFolded
    <3>4. OnboardedHaveSettings'
      BY <1>1, <2>2, <2>3, <2>5 DEF TablesOK, OnboardedHaveSettings, financeVars
    <3>. QED
      BY <2>5, <3>2, <3>3, <3>4 DEF UsersOK
  <2>8. RequestsOK' /\ req' \in [Handlers -> Request]
    BY <1>2, <2>1, <2>6, ProceedsOK
  <2>. QED
    BY <1>3, <2>7, <2>8 DEF AccountsInv, TablesOK, UsersOK, TagsOK
<1>. QED
  BY <1>4, <1>5

LEMMA CompleteOnboardingOK ==
  ASSUME AccountsInv, NEW c \in Handlers, CompleteOnboarding(c)
  PROVE  AccountsInv'
<1>. DEFINE u == req[c].user
<1>1. /\ At(c, "completeOnboarding") /\ UNCHANGED <<removed, financeVars, ledgerVars>> /\ TablesOK
      /\ TagsOK'
  BY TagsStay DEF CompleteOnboarding, AccountsInv, financeVars
<1>2. /\ req[c].todo # << >> /\ Head(req[c].todo) = "completeOnboarding"
      /\ u \in DOMAIN users => users[u].role = "admin" \/ u \in settings \cup erased
      /\ req[c].op \in {"seed", "onboard"}
  BY <1>1, Here DEF Continues, RequestOK, CreatesOK, OnboardingOK
<1>3. CASE u \notin Present
  <2>1. Answer(c, "refused") /\ users' = users /\ "refused" \in Status
    BY <1>3 DEF CompleteOnboarding, Status
  <2>2. Grows /\ TablesOK'
    BY <1>1, <2>1, NothingShrinks, TablesStay DEF authVars
  <2>. QED
    BY <2>1, <2>2, AnswersOK DEF AccountsInv
<1>4. CASE u \in Present
  <2>1. users' = [users EXCEPT ![u].onboarded = TRUE] /\ Proceed(c)
    BY <1>4 DEF CompleteOnboarding
  <2>2. /\ DOMAIN users = 1..Len(users) /\ Len(users) \in Nat /\ u \in DOMAIN users
        /\ users[u] \in User /\ users \in Seq(User)
    BY <1>1, <1>4, UsersAre DEF Present, TablesOK
  <2>. DEFINE row == [users[u] EXCEPT !.onboarded = TRUE]
  <2>3. row \in User /\ row.mail = users[u].mail /\ row.role = users[u].role
    BY <2>2 DEF User
  <2>4. users' = [users EXCEPT ![u] = row]
    BY <2>1, <2>2 DEF User
  <2>. HIDE DEF row
  <2>5. /\ users' \in Seq(User) /\ DOMAIN users' = DOMAIN users /\ users'[u] = row
        /\ \A v \in DOMAIN users : v # u => users'[v] = users[v]
    BY <2>2, <2>3, <2>4, ExceptSeq
  <2>6. Grows
    BY <1>1, <2>2, <2>3, <2>5 DEF Grows, financeVars, ledgerVars
  <2>7. UsersOK'
    <3>1. \A v \in DOMAIN users : users'[v].mail = users[v].mail /\ users'[v].role = users[v].role
      BY <2>3, <2>5
    <3>2. MailsDiffer' /\ MailsAreFolded'
      BY <1>1, <2>5, <3>1 DEF TablesOK, MailsDiffer, Present, MailsAreFolded
    <3>3. OnboardedHaveSettings'
      <4>1. users[u].role # "user" \/ u \in settings \cup erased
        BY <1>2, <2>2
      <4>. QED
        BY <1>1, <2>5, <3>1, <4>1 DEF TablesOK, OnboardedHaveSettings, financeVars
    <3>. QED
      BY <2>5, <3>2, <3>3 DEF UsersOK
  <2>8. RequestsOK' /\ req' \in [Handlers -> Request]
    BY <1>2, <2>1, <2>6, ProceedsOK
  <2>. QED
    BY <1>1, <2>7, <2>8 DEF AccountsInv, TablesOK, UsersOK, TagsOK
<1>. QED
  BY <1>3, <1>4
-----------------------------------------------------------------------------
(* Statements that write tags and settings.                                *)

LEMMA TagsAre ==
  ASSUME TablesOK
  PROVE  /\ tags \in Seq(Tag) /\ DOMAIN tags = 1..Len(tags) /\ Len(tags) \in Nat
         /\ \A t \in DOMAIN tags : tags[t] \in Tag /\ t \in Nat
BY LenProperties, ElementOfSeq DEF TablesOK

LEMMA DefaultRowsAre ==
  ASSUME NEW u \in Nat
  PROVE  /\ DefaultRows(u) \in Seq(Tag) /\ Len(DefaultRows(u)) = Len(DefaultTags)
         /\ Len(DefaultTags) \in Nat
         /\ \A i \in 1..Len(DefaultTags) : DefaultRows(u)[i].user = u /\ DefaultRows(u)[i].isDefault
<1>1. /\ DefaultTags \in Seq(Texts) /\ DOMAIN DefaultTags = 1..Len(DefaultTags) /\ Len(DefaultTags) \in Nat
      /\ \A i \in 1..Len(DefaultTags) : DefaultTags[i] \in Texts
  BY AccountsAssumption, LenProperties, ElementOfSeq
<1>2. DefaultRows(u) \in [1..Len(DefaultTags) -> Tag]
  BY <1>1 DEF DefaultRows, Tag
<1>3. DefaultRows(u) \in Seq(Tag)
  BY <1>1, <1>2, SeqDef
<1>4. Len(DefaultRows(u)) = Len(DefaultTags)
  BY <1>1, <1>2, <1>3, LenProperties
<1>5. \A i \in 1..Len(DefaultTags) : DefaultRows(u)[i].user = u /\ DefaultRows(u)[i].isDefault
  BY <1>1 DEF DefaultRows
<1>. QED
  BY <1>1, <1>3, <1>4, <1>5

\* Sets of default tags are added up.
LEMMA OneSetMore ==
  ASSUME NEW n \in Nat, NEW sets \in Nat
  PROVE  sets * n + n = (sets + 1) * n
OBVIOUS

\* A whole set of default tags is added, all in one statement.
LEMMA SeedKeepsSetsWhole ==
  ASSUME TablesOK, NEW u \in Nat, tags' = tags \o DefaultRows(u), dropped' = dropped
  PROVE  /\ TagsOK' /\ DOMAIN tags \subseteq DOMAIN tags'
         /\ \A t \in DOMAIN tags : tags'[t] = tags[t]
         /\ Len(tags') = Len(tags) + Len(DefaultTags)
<1>. DEFINE m == Len(tags)
            n == Len(DefaultTags)
<1>1. /\ tags \in Seq(Tag) /\ DOMAIN tags = 1..m /\ m \in Nat
      /\ dropped \subseteq DOMAIN tags /\ \A v \in Nat : Whole(v)
  BY TagsAre DEF TablesOK
<1>2. /\ DefaultRows(u) \in Seq(Tag) /\ Len(DefaultRows(u)) = n /\ n \in Nat
      /\ \A i \in 1..n : DefaultRows(u)[i].user = u /\ DefaultRows(u)[i].isDefault
  BY DefaultRowsAre
<1>3. /\ tags' \in Seq(Tag) /\ Len(tags') = m + n
      /\ \A i \in 1..m + n : tags'[i] = IF i <= m THEN tags[i] ELSE DefaultRows(u)[i - m]
  <2>. DEFINE rows == DefaultRows(u)
  <2>. HIDE DEF rows
  <2>1. rows \in Seq(Tag) /\ Len(rows) = n /\ tags' = tags \o rows
    BY <1>2 DEF rows
  <2>2. /\ tags \o rows \in Seq(Tag) /\ Len(tags \o rows) = Len(tags) + Len(rows)
        /\ \A i \in 1..Len(tags) + Len(rows) :
             (tags \o rows)[i] = IF i <= Len(tags) THEN tags[i] ELSE rows[i - Len(tags)]
    BY <1>1, <2>1, ConcatProperties
  <2>. QED
    BY <2>1, <2>2 DEF rows
<1>4. DOMAIN tags' = 1..m + n
  BY <1>3, LenProperties
<1>5. \A t \in 1..m : tags'[t] = tags[t]
  BY <1>1, <1>2, <1>3
<1>6. \A t \in m + 1..m + n : tags'[t].user = u /\ tags'[t].isDefault
  BY <1>1, <1>2, <1>3
<1>7. DOMAIN tags' = (1..m) \cup (m + 1..m + n)
  BY <1>1, <1>2, <1>4
<1>. HIDE DEF m, n
<1>8. \A v \in Nat : v # u => Defaults(v)' = Defaults(v)
  BY <1>1, <1>5, <1>6, <1>7 DEF Defaults, TagsOf, Live
<1>9. Defaults(u)' = Defaults(u) \cup (m + 1..m + n)
  <2>1. \A t \in m + 1..m + n : t \notin 1..m
    BY <1>1, <1>2
  <2>. QED
    BY <1>1, <1>5, <1>6, <1>7, <2>1 DEF Defaults, TagsOf, Live
<1>10. ASSUME NEW v \in Nat PROVE Whole(v)'
  <2>1. PICK sets \in 0..m : Cardinality(Defaults(v)) = sets * n
    BY <1>1 DEF Whole, m, n
  <2>2. CASE v # u \/ n = 0
    <3>1. Defaults(v)' = Defaults(v)
      <4>1. n = 0 => m + 1..m + n = {}
        BY <1>1
      <4>. QED
        BY <1>8, <1>9, <2>2, <4>1
    <3>2. sets \in 0..Len(tags')
      BY <1>1, <1>2, <1>3, <2>1
    <3>. QED
      BY <2>1, <3>1, <3>2 DEF Whole, n
  <2>3. CASE v = u /\ n # 0
    <3>1. IsFiniteSet(Defaults(u)) /\ Defaults(u) \subseteq 1..m
      <4>1. Defaults(u) \subseteq 1..m
        BY <1>1 DEF Defaults, TagsOf, Live
      <4>2. 1 \in Int /\ m \in Int
        BY <1>1
      <4>3. IsFiniteSet(1..m)
        BY <4>2, FS_Interval
      <4>. QED
        BY <4>1, <4>3, FS_Subset
    <3>2. IsFiniteSet(m + 1..m + n) /\ Cardinality(m + 1..m + n) = n
      <4>1. m + 1 \in Int /\ m + n \in Int /\ ~ (m + 1 > m + n) /\ (m + n) - (m + 1) + 1 = n
        BY <1>1, <1>2, <2>3
      <4>. QED
        BY <4>1, FS_Interval
    <3>3. Defaults(u) \cap (m + 1..m + n) = {}
      BY <1>1, <1>2, <3>1
    <3>4. Cardinality(Defaults(u)') = Cardinality(Defaults(u)) + n
      <4>1. /\ Cardinality({}) = 0 /\ Cardinality(Defaults(u)) \in Nat
        BY <3>1, FS_EmptySet, FS_CardinalityType
      <4>2. Cardinality(Defaults(u) \cup (m + 1..m + n))
              = Cardinality(Defaults(u)) + Cardinality(m + 1..m + n) - Cardinality(Defaults(u) \cap (m + 1..m + n))
        BY <3>1, <3>2, FS_Union
      <4>3. Cardinality(Defaults(u)') = Cardinality(Defaults(u)) + n - 0
        BY <1>9, <3>2, <3>3, <4>1, <4>2
      <4>. QED
        BY <1>2, <4>1, <4>3
    <3>5. Cardinality(Defaults(u)') = (sets + 1) * n
      BY <1>2, <2>1, <2>3, <3>4, OneSetMore
    <3>6. sets + 1 \in 0..Len(tags')
      BY <1>1, <1>2, <1>3, <2>1, <2>3
    <3>. QED
      BY <2>3, <3>5, <3>6 DEF Whole, n
  <2>. QED
    BY <2>2, <2>3
<1>11. DOMAIN tags \subseteq DOMAIN tags' /\ \A t \in DOMAIN tags : tags'[t] = tags[t]
  BY <1>1, <1>5, <1>7
<1>. QED
  BY <1>1, <1>3, <1>10, <1>11 DEF TagsOK, m, n

\* The default tags are inserted, all of them or none.
LEMMA SeedAllOK ==
  ASSUME AccountsInv, NEW c \in Handlers, SeedAll(c), UNCHANGED <<authVars, dropped, erased, ledgerVars>>,
         settings \subseteq settings', req[c].todo # << >>,
         (Head(req[c].todo) = "onboarding" /\ req[c].op = "onboard"
            /\ (Len(tags') = Len(tags) + Len(DefaultTags) => req[c].user \in settings'))
           \/ (Head(req[c].todo) = "seedTags" /\ req[c].op = "list")
  PROVE  AccountsInv'
<1>. DEFINE u == req[c].user
<1>1. u \in Nat /\ TablesOK
  BY DEF AccountsInv, Request
<1>2. UsersOK'
  BY <1>1, UsersStay
<1>3. /\ DefaultRows(u) \in Seq(Tag) /\ Len(DefaultRows(u)) = Len(DefaultTags) /\ Len(DefaultTags) \in Nat
  BY <1>1, DefaultRowsAre
<1>4. CASE tags' = tags \o DefaultRows(u)
  <2>1. /\ TagsOK' /\ DOMAIN tags \subseteq DOMAIN tags'
        /\ \A t \in DOMAIN tags : tags'[t] = tags[t]
        /\ Len(tags') = Len(tags) + Len(DefaultTags)
    BY <1>1, <1>4, SeedKeepsSetsWhole
  <2>2. Grows
    BY <2>1 DEF Grows, authVars, ledgerVars
  <2>3. Proceed(c) \/ Answer(c, "error")
    BY DEF SeedAll
  <2>4. "error" \in Status
    BY DEF Status
  <2>5. RequestsOK' /\ req' \in [Handlers -> Request]
    BY <2>1, <2>2, <2>3, <2>4, AnswersOK, ProceedsOK
  <2>. QED
    BY <1>2, <2>1, <2>5 DEF AccountsInv, TablesOK, UsersOK, TagsOK
<1>5. CASE tags' # tags \o DefaultRows(u)
  <2>1. Seeded(u) = << >> /\ tags' = tags \o << >>
    BY <1>5 DEF SeedAll, Seeded
  <2>2. tags' = tags
    BY <1>1, <2>1, ConcatEmptySeq DEF TablesOK
  <2>3. TagsOK' /\ Grows
    BY <1>1, <2>2, TagsStay DEF Grows, authVars, ledgerVars
  <2>4. Len(DefaultTags) # 0
    <3>1. ASSUME Len(DefaultTags) = 0 PROVE FALSE
      <4>1. DefaultRows(u) = << >>
        BY <1>3, <3>1, EmptySeq
      <4>. QED
        BY <1>5, <2>1, <4>1
    <3>. QED
      BY <3>1
  <2>5. Answer(c, "error") /\ "error" \in Status
    BY <2>1, <2>4 DEF SeedAll, Status
  <2>6. RequestsOK' /\ req' \in [Handlers -> Request]
    BY <2>3, <2>5, AnswersOK
  <2>. QED
    BY <1>2, <2>3, <2>6 DEF AccountsInv, TablesOK, UsersOK, TagsOK
<1>. QED
  BY <1>4, <1>5

LEMMA SeedsOK ==
  ASSUME AccountsInv, NEW c \in Handlers, CompleteFinanceOnboarding(c) \/ SeedTags(c) \/ UpsertDefaults(c)
  PROVE  AccountsInv'
<1>1. CASE CompleteFinanceOnboarding(c)
  <2>1. At(c, "onboarding") /\ SeedAll(c) /\ UNCHANGED <<authVars, dropped, erased, ledgerVars>>
        /\ settings \subseteq settings'
        /\ (Len(tags') = Len(tags) + Len(DefaultTags) => req[c].user \in settings')
    BY <1>1 DEF CompleteFinanceOnboarding
  <2>2. req[c].op = "onboard" /\ req[c].todo # << >> /\ Head(req[c].todo) = "onboarding"
    BY <2>1, Here DEF Continues
  <2>. QED
    BY <2>1, <2>2, SeedAllOK
<1>2. CASE SeedTags(c)
  <2>1. At(c, "seedTags") /\ SeedAll(c) /\ UNCHANGED <<authVars, settings, dropped, erased, ledgerVars>>
    BY <1>2 DEF SeedTags
  <2>2. req[c].op = "list" /\ req[c].todo # << >> /\ Head(req[c].todo) = "seedTags"
    BY <2>1, Here DEF Continues
  <2>. QED
    BY <2>1, <2>2, SeedAllOK
<1>3. CASE UpsertDefaults(c)
  <2>1. /\ At(c, "upsertDefaults") /\ Proceed(c) /\ UNCHANGED <<authVars, tags, dropped, erased, ledgerVars>>
        /\ settings \subseteq settings' /\ TablesOK
    BY <1>3 DEF UpsertDefaults, AccountsInv
  <2>2. Grows /\ UsersOK' /\ TagsOK'
    BY <2>1, UsersStay, TagsStay DEF Grows, authVars, ledgerVars
  <2>3. RequestsOK' /\ req' \in [Handlers -> Request]
    BY <2>1, <2>2, Here, ProceedsOK
  <2>. QED
    BY <2>2, <2>3 DEF AccountsInv, TablesOK, UsersOK, TagsOK
<1>. QED
  BY <1>1, <1>2, <1>3

\* Default tags stay as they are when the others and their names change.
LEMMA OtherTagsChange ==
  ASSUME TablesOK, tags' \in Seq(Tag), DOMAIN tags \subseteq DOMAIN tags', Len(tags) <= Len(tags'),
         \A t \in DOMAIN tags : tags'[t].user = tags[t].user /\ tags'[t].isDefault = tags[t].isDefault,
         \A t \in DOMAIN tags' \ DOMAIN tags : ~ tags'[t].isDefault,
         dropped \subseteq dropped', dropped' \subseteq DOMAIN tags',
         \A t \in dropped' \ dropped : ~ tags'[t].isDefault
  PROVE  TagsOK'
<1>1. dropped \subseteq DOMAIN tags /\ Len(tags) \in Nat /\ Len(tags') \in Nat
  BY TagsAre, LenProperties DEF TablesOK
<1>2. \A u \in Nat : Defaults(u)' = Defaults(u)
  BY <1>1 DEF Defaults, TagsOf, Live
<1>3. ASSUME NEW u \in Nat PROVE Whole(u)'
  <2>1. PICK sets \in 0..Len(tags) : Cardinality(Defaults(u)) = sets * Len(DefaultTags)
    BY DEF TablesOK, Whole
  <2>2. sets \in 0..Len(tags')
    BY <1>1, <2>1
  <2>. QED
    BY <1>2, <2>1, <2>2 DEF Whole
<1>. QED
  BY <1>3 DEF TagsOK

LEMMA InsertTagOK ==
  ASSUME AccountsInv, NEW c \in Handlers, InsertTag(c)
  PROVE  AccountsInv'
<1>1. /\ At(c, "createTag") /\ UNCHANGED <<authVars, settings, dropped, erased, ledgerVars>> /\ TablesOK
      /\ req[c] \in Request
  BY DEF InsertTag, AccountsInv
<1>2. UsersOK' /\ req[c].todo # << >> /\ Head(req[c].todo) = "createTag" /\ "conflict" \in Status
  BY <1>1, Here, UsersStay DEF Status
<1>3. CASE tags' = tags /\ Answer(c, "conflict")
  <2>1. Grows /\ TagsOK'
    BY <1>1, <1>3, TagsStay DEF Grows, authVars, ledgerVars
  <2>2. RequestsOK' /\ req' \in [Handlers -> Request]
    BY <1>2, <1>3, <2>1, AnswersOK
  <2>. QED
    BY <1>2, <2>1, <2>2 DEF AccountsInv, TablesOK, UsersOK, TagsOK
<1>4. CASE ~ (tags' = tags /\ Answer(c, "conflict"))
  <2>. DEFINE row == [user |-> req[c].user, name |-> req[c].name, isDefault |-> FALSE]
  <2>1. tags' = Append(tags, row) /\ Proceed(c)
    BY <1>4 DEF InsertTag
  <2>2. row \in Tag /\ row.isDefault = FALSE
    BY <1>1 DEF Tag, Request
  <2>. HIDE DEF row
  <2>3. tags \in Seq(Tag) /\ DOMAIN tags = 1..Len(tags) /\ Len(tags) \in Nat /\ dropped \subseteq DOMAIN tags
    BY <1>1, TagsAre DEF TablesOK
  <2>4. /\ tags' \in Seq(Tag) /\ Len(tags') = Len(tags) + 1 /\ tags'[Len(tags) + 1] = row
        /\ \A t \in 1..Len(tags) : tags'[t] = tags[t]
    BY <2>1, <2>2, <2>3, AppendProperties
  <2>5. DOMAIN tags' = 1..Len(tags')
    BY <2>4, LenProperties
  <2>6. /\ DOMAIN tags \subseteq DOMAIN tags' /\ Len(tags) <= Len(tags')
        /\ \A t \in DOMAIN tags' \ DOMAIN tags : t = Len(tags) + 1
    BY <2>3, <2>4, <2>5
  <2>7. TagsOK'
    BY <1>1, <2>2, <2>3, <2>4, <2>6, OtherTagsChange
  <2>8. Grows
    BY <1>1, <2>3, <2>4, <2>6 DEF Grows, authVars, ledgerVars
  <2>9. RequestsOK' /\ req' \in [Handlers -> Request]
    BY <1>2, <2>1, <2>8, ProceedsOK
  <2>. QED
    BY <1>2, <2>7, <2>9 DEF AccountsInv, TablesOK, UsersOK, TagsOK
<1>. QED
  BY <1>3, <1>4

LEMMA RenameTagOK ==
  ASSUME AccountsInv, NEW c \in Handlers, RenameTag(c)
  PROVE  AccountsInv'
<1>. DEFINE t == req[c].tag
<1>1. /\ At(c, "updateTag") /\ UNCHANGED <<authVars, settings, dropped, erased, ledgerVars>> /\ TablesOK
      /\ req[c] \in Request
  BY DEF RenameTag, AccountsInv
<1>2. /\ UsersOK' /\ req[c].todo # << >> /\ Head(req[c].todo) = "updateTag"
      /\ {"conflict", "refused"} \subseteq Status
  BY <1>1, Here, UsersStay DEF Status
<1>3. /\ Answer(c, "refused") \/ Answer(c, "conflict") \/ Proceed(c)
      /\ tags' = tags \/ (t \in Live /\ tags' = [tags EXCEPT ![t].name = req[c].name])
  BY DEF RenameTag
<1>4. /\ tags \in Seq(Tag) /\ DOMAIN tags = 1..Len(tags) /\ Len(tags) \in Nat /\ dropped \subseteq DOMAIN tags
      /\ \A i \in DOMAIN tags : tags[i] \in Tag
  BY <1>1, TagsAre DEF TablesOK
<1>5. /\ tags' \in Seq(Tag) /\ DOMAIN tags' = DOMAIN tags /\ Len(tags') = Len(tags)
      /\ \A i \in DOMAIN tags : tags'[i].user = tags[i].user /\ tags'[i].isDefault = tags[i].isDefault
  <2>1. CASE tags' = tags
    BY <1>4, <2>1
  <2>2. CASE t \in Live /\ tags' = [tags EXCEPT ![t].name = req[c].name]
    <3>. DEFINE row == [tags[t] EXCEPT !.name = req[c].name]
    <3>1. t \in DOMAIN tags /\ tags[t] \in Tag /\ req[c].name \in Texts
      BY <1>1, <1>4, <2>2 DEF Live, Request
    <3>2. row \in Tag /\ row.user = tags[t].user /\ row.isDefault = tags[t].isDefault
      BY <3>1 DEF Tag
    <3>3. tags' = [tags EXCEPT ![t] = row]
      BY <2>2, <3>1
    <3>. HIDE DEF row
    <3>4. /\ tags' \in Seq(Tag) /\ DOMAIN tags' = DOMAIN tags /\ Len(tags') = Len(tags)
          /\ \A i \in DOMAIN tags : tags'[i] = IF i = t THEN row ELSE tags[i]
      BY <1>4, <3>1, <3>2, <3>3, ExceptSeq
    <3>. QED
      BY <3>2, <3>4
  <2>. QED
    BY <1>3, <2>1, <2>2
<1>6. TagsOK'
  BY <1>1, <1>4, <1>5, OtherTagsChange
<1>7. Grows
  BY <1>1, <1>5 DEF Grows, authVars, ledgerVars
<1>8. RequestsOK' /\ req' \in [Handlers -> Request]
  BY <1>2, <1>3, <1>7, AnswersOK, ProceedsOK
<1>. QED
  BY <1>2, <1>6, <1>8 DEF AccountsInv, TablesOK, UsersOK, TagsOK

LEMMA RemoveTagOK ==
  ASSUME AccountsInv, NEW c \in Handlers, RemoveTag(c)
  PROVE  AccountsInv'
<1>1. /\ At(c, "deleteTag") /\ UNCHANGED <<authVars, settings, tags, erased, ledgerVars>> /\ TablesOK
      /\ dropped' = dropped \cup {req[c].tag} /\ Proceed(c)
  BY DEF RemoveTag, AccountsInv
<1>2. /\ UsersOK' /\ req[c].todo # << >> /\ Head(req[c].todo) = "deleteTag"
      /\ req[c].tag \in DOMAIN tags /\ ~ tags[req[c].tag].isDefault
  <2>1. req[c].op = "delete" /\ req[c].todo = <<"deleteTag">>
    BY <1>1, Here DEF Continues
  <2>2. <<"deleteTag">> # DeleteTag
    BY DEF DeleteTag
  <2>. QED
    BY <1>1, <2>1, <2>2, Here, UsersStay DEF RequestOK, DeletionOK
<1>3. TagsOK'
  BY <1>1, <1>2, TagsAre, OtherTagsChange DEF TablesOK
<1>4. Grows
  BY <1>1 DEF Grows, authVars, ledgerVars
<1>5. RequestsOK' /\ req' \in [Handlers -> Request]
  BY <1>1, <1>2, <1>4, ProceedsOK
<1>. QED
  BY <1>2, <1>3, <1>5 DEF AccountsInv, TablesOK, UsersOK, TagsOK
-----------------------------------------------------------------------------
(* The other services.                                                     *)

\* References to tags are given up, and the deletions of these tags with them.
LEMMA ReferencesGivenUp ==
  ASSUME AccountsInv, NEW ts, req' = Unused(ts), UNCHANGED <<authVars, tags>>,
         settings \cup erased \subseteq settings' \cup erased',
         \A t \in DOMAIN tags \ ts : (t \in spent => t \in spent') /\ (t \in planned => t \in planned')
  PROVE  RequestsOK' /\ req' \in [Handlers -> Request]
<1>1. ASSUME NEW d \in Handlers PROVE req'[d] \in Request /\ RequestOK(req[d])'
  <2>1. req[d] \in Request /\ RequestOK(req[d])
    BY DEF AccountsInv, RequestsOK
  <2>2. req'[d] = [req[d] EXCEPT !.inUse = req[d].inUse /\ req[d].tag \notin ts]
    BY DEF Unused
  <2>3. CASE req[d].inUse /\ req[d].tag \notin ts
    <3>1. (req[d].inUse /\ req[d].tag \notin ts) = TRUE
      BY <2>3
    <3>2. req'[d] = [req[d] EXCEPT !.inUse = TRUE]
      BY <2>2, <3>1
    <3>3. req'[d] = req[d]
      BY <2>1, <2>3, <3>2 DEF Request
    <3>4. (Doing(req[d].op, req[d].todo) /\ CreatesOK(req[d]) /\ OnboardingOK(req[d]) /\ ErrorOK(req[d]))'
      BY <2>1, <3>3 DEF RequestOK, Doing, CreatesOK, OnboardingOK, ErrorOK, authVars
    <3>5. DeletionOK(req[d])'
      BY <2>1, <2>3, <3>3 DEF RequestOK, DeletionOK
    <3>. QED
      BY <2>1, <3>3, <3>4, <3>5 DEF RequestOK
  <2>4. CASE ~ (req[d].inUse /\ req[d].tag \notin ts)
    <3>1. (req[d].inUse /\ req[d].tag \notin ts) = FALSE
      BY <2>4
    <3>2. req'[d] = [req[d] EXCEPT !.inUse = FALSE]
      BY <2>2, <3>1
    <3>3. /\ req'[d] \in Request /\ req'[d].op = req[d].op /\ req'[d].todo = req[d].todo
          /\ req'[d].user = req[d].user /\ req'[d].mail = req[d].mail /\ req'[d].tag = req[d].tag
          /\ req'[d].status = req[d].status /\ req'[d].faulty = req[d].faulty /\ req'[d].inUse = FALSE
      BY <2>1, <3>2 DEF Request
    <3>4. (Doing(req[d].op, req[d].todo) /\ CreatesOK(req[d]) /\ OnboardingOK(req[d]) /\ ErrorOK(req[d]))'
      BY <2>1, <3>3 DEF RequestOK, Doing, CreatesOK, OnboardingOK, ErrorOK, authVars
    <3>5. DeletionOK(req[d])'
      BY <2>1, <3>3 DEF RequestOK, DeletionOK
    <3>. QED
      BY <3>3, <3>4, <3>5 DEF RequestOK
  <2>. QED
    BY <2>3, <2>4
<1>2. req' = [d \in Handlers |-> req'[d]]
  BY DEF Unused
<1>. QED
  BY <1>1, <1>2 DEF RequestsOK

\* Requests go on when nothing happens but that a tag is referred to.
LEMMA ReferencesGrow ==
  ASSUME AccountsInv, UNCHANGED <<authVars, financeVars, req>>, spent \subseteq spent', planned \subseteq planned'
  PROVE  AccountsInv'
<1>1. Grows /\ TablesOK'
  BY TablesStay DEF Grows, authVars, financeVars, AccountsInv
<1>2. \A d \in Handlers : RequestOK(req[d])'
  BY <1>1, OthersStayOK DEF AccountsInv
<1>. QED
  BY <1>1, <1>2 DEF AccountsInv, RequestsOK

LEMMA UnspendOK ==
  ASSUME AccountsInv, NEW t, Unspend(t)
  PROVE  AccountsInv'
<1>1. UNCHANGED <<authVars, financeVars, planned>> /\ spent' = spent \ {t}
  BY DEF Unspend
<1>2. TablesOK'
  BY <1>1, TablesStay DEF AccountsInv
<1>3. CASE t \in planned
  <2>1. req' = req
    BY <1>3 DEF Unspend
  <2>2. ASSUME NEW d \in Handlers PROVE RequestOK(req[d])'
    <3>1. RequestOK(req[d])
      BY DEF AccountsInv, RequestsOK
    <3>2. (Doing(req[d].op, req[d].todo) /\ CreatesOK(req[d]) /\ OnboardingOK(req[d]) /\ ErrorOK(req[d]))'
      BY <1>1, <2>1, <3>1 DEF RequestOK, Doing, CreatesOK, OnboardingOK, ErrorOK, authVars, financeVars
    <3>3. DeletionOK(req[d])'
      BY <1>1, <1>3, <2>1, <3>1 DEF RequestOK, DeletionOK, financeVars
    <3>. QED
      BY <3>2, <3>3 DEF RequestOK
  <2>. QED
    BY <1>2, <2>1, <2>2 DEF AccountsInv, RequestsOK
<1>4. CASE t \notin planned
  <2>1. req' = Unused({t})
    BY <1>4 DEF Unspend
  <2>2. RequestsOK' /\ req' \in [Handlers -> Request]
    BY <1>1, <2>1, ReferencesGivenUp DEF financeVars
  <2>. QED
    BY <1>2, <2>2 DEF AccountsInv
<1>. QED
  BY <1>3, <1>4

LEMMA SettleOK ==
  ASSUME AccountsInv, NEW t, Settle(t)
  PROVE  AccountsInv'
<1>1. /\ UNCHANGED <<authVars, financeVars, spent>> /\ planned' = planned \ {t} /\ req' = Unused({t})
  BY DEF Settle
<1>2. TablesOK'
  BY <1>1, TablesStay DEF AccountsInv
<1>3. RequestsOK' /\ req' \in [Handlers -> Request]
  BY <1>1, ReferencesGivenUp DEF financeVars
<1>. QED
  BY <1>2, <1>3 DEF AccountsInv

LEMMA DeleteAllUserDataOK ==
  ASSUME AccountsInv, NEW u, DeleteAllUserData(u)
  PROVE  AccountsInv'
<1>. DEFINE ts == {t \in DOMAIN tags : tags[t].user = u}
<1>1. /\ UNCHANGED <<authVars, tags, spent>> /\ settings' = settings \ {u} /\ erased' = erased \cup {u}
      /\ dropped' = dropped \cup TagsOf(u) /\ planned' = {t \in planned : tags[t].user # u}
      /\ req' = Unused(ts) /\ TablesOK
  BY DEF DeleteAllUserData, AccountsInv
<1>2. RequestsOK' /\ req' \in [Handlers -> Request]
  <2>1. settings \cup erased \subseteq settings' \cup erased'
    BY <1>1
  <2>2. \A t \in DOMAIN tags \ ts : (t \in spent => t \in spent') /\ (t \in planned => t \in planned')
    BY <1>1
  <2>. HIDE DEF ts
  <2>. QED
    BY <1>1, <2>1, <2>2, ReferencesGivenUp
<1>3. UsersOK'
  BY <1>1, UsersStay
<1>4. TagsOK'
  <2>1. dropped' \subseteq DOMAIN tags'
    BY <1>1 DEF TablesOK, TagsOf, Live
  <2>2. \A v \in Nat : v # u => Defaults(v)' = Defaults(v)
    BY <1>1 DEF Defaults, TagsOf, Live
  <2>3. Defaults(u)' = {}
    BY <1>1 DEF Defaults, TagsOf, Live
  <2>4. ASSUME NEW v \in Nat PROVE Whole(v)'
    <3>1. CASE v # u
      BY <1>1, <2>2, <3>1 DEF Whole, TablesOK
    <3>2. CASE v = u
      <4>1. Len(DefaultTags) \in Nat /\ Len(tags') \in Nat
        BY <1>1, TagsAre, AccountsAssumption, LenProperties
      <4>2. Cardinality(Defaults(v)') = 0 /\ 0 * Len(DefaultTags) = 0 /\ 0 \in 0..Len(tags')
        BY <2>3, <3>2, <4>1, FS_EmptySet
      <4>. QED
        BY <4>2 DEF Whole
    <3>. QED
      BY <3>1, <3>2
  <2>. QED
    BY <1>1, <2>1, <2>4 DEF TagsOK, TablesOK
<1>. QED
  BY <1>2, <1>3, <1>4 DEF AccountsInv, TablesOK, UsersOK, TagsOK

LEMMA DeleteUserOK ==
  ASSUME AccountsInv, NEW u, DeleteUser(u)
  PROVE  AccountsInv'
<1>1. UNCHANGED <<users, financeVars, ledgerVars, req>> /\ removed' = removed \cup {u}
  BY DEF DeleteUser
<1>2. UsersOK' /\ TagsOK'
  BY <1>1, TagsStay DEF AccountsInv, TablesOK, UsersOK, MailsDiffer, Present, MailsAreFolded,
     OnboardedHaveSettings, financeVars
<1>3. Grows
  BY <1>1 DEF Grows, financeVars, ledgerVars
<1>4. \A d \in Handlers : RequestOK(req[d])'
  BY <1>1, <1>3, OthersStayOK DEF AccountsInv
<1>. QED
  BY <1>1, <1>2, <1>4 DEF AccountsInv, RequestsOK, TablesOK, UsersOK, TagsOK
-----------------------------------------------------------------------------
(* The invariant.                                                          *)

LEMMA AccountsInvInit == Init => AccountsInv
<1>. SUFFICES ASSUME Init PROVE AccountsInv
  OBVIOUS
<1>1. req \in [Handlers -> Request] /\ \A c \in Handlers : req[c] = Idle
  BY IdleType DEF Init
<1>2. RequestOK(Idle)
  BY DEF Idle, RequestOK, Doing, CreatesOK, OnboardingOK, ErrorOK, DeletionOK
<1>3. RequestsOK
  BY <1>1, <1>2 DEF RequestsOK
<1>. DEFINE ann == [name |-> Ann, mail |-> Ann, role |-> "user", onboarded |-> FALSE]
<1>4. ann \in User
  BY AccountsAssumption DEF User
<1>. HIDE DEF ann
<1>5. users = <<ann>> /\ users \in Seq(User)
  BY <1>4 DEF Init, ann
<1>6. DOMAIN users = {1} /\ users[1] = ann
  BY <1>5
<1>7. ann.mail = Ann /\ ann.onboarded = FALSE
  BY DEF ann
<1>8. MailsDiffer /\ MailsAreFolded /\ OnboardedHaveSettings
  BY <1>6, <1>7, AccountsAssumption DEF MailsDiffer, MailsAreFolded, OnboardedHaveSettings, Present
<1>9. tags \in Seq(Tag) /\ dropped \subseteq DOMAIN tags /\ DOMAIN tags = {} /\ Len(tags) = 0
  BY EmptySeq DEF Init
<1>10. \A u \in Nat : Whole(u)
  <2>1. \A u \in Nat : Defaults(u) = {}
    BY <1>9 DEF Defaults, TagsOf, Live
  <2>2. Len(DefaultTags) \in Nat
    BY AccountsAssumption, LenProperties
  <2>3. Cardinality({}) = 0 * Len(DefaultTags) /\ 0 \in 0..Len(tags)
    BY <1>9, <2>2, FS_EmptySet
  <2>. QED
    BY <2>1, <2>3 DEF Whole
<1>. QED
  BY <1>1, <1>3, <1>5, <1>8, <1>9, <1>10 DEF AccountsInv, TablesOK

LEMMA AccountsInvNext == AccountsInv /\ [Next]_vars => AccountsInv'
<1>. SUFFICES ASSUME AccountsInv, [Next]_vars PROVE AccountsInv'
  OBVIOUS
<1>1. ASSUME NEW c \in Handlers, Ask(c) PROVE AccountsInv'
  BY <1>1, AskOK, TablesStay DEF AccountsInv
<1>2. ASSUME NEW c \in Handlers, Statement(c) PROVE AccountsInv'
  BY <1>2, ReadsOK, CreateUserOK, UpdateUserOK, CompleteOnboardingOK, SeedsOK, InsertTagOK, RenameTagOK,
     RemoveTagOK DEF Statement
<1>3. ASSUME NEW c \in Handlers, Succeed(c) \/ Finish(c) \/ Fail(c) PROVE AccountsInv'
  BY <1>3, EndsOK
<1>4. ASSUME NEW t, Spend(t) \/ Plan(t) PROVE AccountsInv'
  BY <1>4, ReferencesGrow DEF Spend, Plan
<1>5. CASE Environment
  BY <1>4, <1>5, UnspendOK, SettleOK, DeleteAllUserDataOK, DeleteUserOK DEF Environment
<1>6. CASE UNCHANGED vars
  BY <1>6, ReferencesGrow DEF vars, ledgerVars
<1>. QED
  BY <1>1, <1>2, <1>3, <1>5, <1>6 DEF Next

LEMMA AccountsInvAlways == Spec => []AccountsInv
BY AccountsInvInit, AccountsInvNext, PTL DEF Spec
-----------------------------------------------------------------------------
(* The theorems.                                                           *)

\* Register, UpdateProfile, Login: whatever overlaps, the login finds the row of
\* everyone who registered, and no other, however the address was typed.
THEOREM EveryoneCanLogIn == Spec => []UsersCanLogIn
<1>1. AccountsInv => UsersCanLogIn
  <2>. SUFFICES ASSUME AccountsInv, NEW u \in Present, users[u].role = "user"
                PROVE  {v \in Present : users[v].mail = Folded[users[u].mail]} = {u}
    BY DEF UsersCanLogIn
  <2>1. Folded[users[u].mail] = users[u].mail /\ MailsDiffer
    BY DEF AccountsInv, TablesOK, MailsAreFolded, Present
  <2>. QED
    BY <2>1 DEF MailsDiffer
<1>. QED
  BY <1>1, AccountsInvAlways, PTL

\* CreateUser, DuplicateError: who loses a race for a name or an address is told
\* so; a registration or a profile change ends in an error after a failure only.
THEOREM RaceLosersAreTold == Spec => []LosersAreTold
<1>1. AccountsInv => LosersAreTold
  BY DEF AccountsInv, RequestsOK, RequestOK, ErrorOK, LosersAreTold
<1>. QED
  BY <1>1, AccountsInvAlways, PTL

\* CompleteOnboarding: the flag in the auth service is set after the settings
\* in the finance service, for all users and whatever fails in between.
THEOREM SettingsComeFirst == Spec => []OnboardedHaveSettings
<1>1. AccountsInv => OnboardedHaveSettings
  BY DEF AccountsInv, TablesOK
<1>. QED
  BY <1>1, AccountsInvAlways, PTL

\* SeedDefaultTags: the default tags of a user come in whole sets, in every
\* overlap of onboarding, listing, renaming, deleting and erasing.
THEOREM DefaultTagsAreWhole == Spec => []DefaultTagsTogether
<1>1. AccountsInv => DefaultTagsTogether
  <2>. SUFFICES ASSUME AccountsInv, NEW u \in DOMAIN users
                PROVE  \E sets \in 0..Len(tags) :
                         Cardinality({t \in TagsOf(u) : tags[t].isDefault}) = sets * Len(DefaultTags)
    BY DEF DefaultTagsTogether
  <2>1. u \in Nat
    BY UsersAre DEF AccountsInv
  <2>. QED
    BY <2>1 DEF AccountsInv, TablesOK, Whole, Defaults
<1>. QED
  BY <1>1, AccountsInvAlways, PTL

\* DeleteTag: two counts at two moments are enough for a tag that is referred to
\* all the time, in whichever of the two services.
THEOREM TagsInUseAreKept == Spec => TagsInUseStay
<1>1. AccountsInv /\ [Next]_vars =>
        [\A c \in Handlers : At(c, "deleteTag") /\ req[c].tag \in dropped' \ dropped => ~ req[c].inUse]_vars
  <2>. SUFFICES ASSUME AccountsInv, NEW c \in Handlers, At(c, "deleteTag") PROVE ~ req[c].inUse
    OBVIOUS
  <2>. QED
    BY Here DEF Continues, RequestOK, DeletionOK
<1>. QED
  BY <1>1, AccountsInvAlways, PTL DEF Spec, TagsInUseStay
=============================================================================

--------------------------- MODULE SessionsProofs ---------------------------
(***************************************************************************)
(* A refresh token is exchanged once, a revocation ends the access of      *)
(* every earlier second, and the calls of a tab share one refresh: for any *)
(* users, tabs, calls, lifetimes and resolution of the clock, whatever     *)
(* overlaps, fails or is lost.                                             *)
(***************************************************************************)
EXTENDS Sessions, SequenceTheorems, TLAPS

Pair == [user : Users, assumedBy : Users \cup {NoUser}, issued : Nat, parent : Nat]

CallKind == {"api", "login", "password", "assume", "restore", "logout"}
Status == {"none", "ok", "unauthorized", "refused", "replayed"}
Point == {"idle", "gateway", "handle", "compare", "revoke", "reissue", "refresh", "consume", "read",
          "answer", "waiting"}
Request == [kind : CallKind, tab : Tabs \cup {NoTab}, sent : Nat, since : Nat, retried : BOOLEAN,
            refreshing : BOOLEAN, named : Users \cup {NoUser}, status : Status, pair : Nat]

TypeInv ==
  /\ now \in Nat /\ accounts \subseteq Users
  /\ revokedAt \in [Users -> Nat] /\ (\A u \in Users : revokedAt[u] <= now)
  /\ blacklist \subseteq DOMAIN pairs
  /\ pairs \in Seq(Pair) /\ Len(pairs) <= MaxPairs
  /\ cookie \in 0..Len(pairs)
  /\ pc \in [Calls -> Point] /\ req \in [Calls -> Request]
  /\ takenBy \in [Jtis -> Tabs \cup {NoTab}]

\* The calls whose handler looks into the pair they were sent with.
Behind(point, kind) ==
  point \in {"consume", "read", "revoke", "reissue"} \/ (point = "handle" /\ kind # "login")

\* What may be said of a call with locals r at a point.
CallOK(point, r) ==
  /\ r.sent <= Len(pairs) /\ r.pair <= Len(pairs)
  /\ point # "idle" => r.tab \in Tabs
  /\ Behind(point, r.kind) => r.sent # 0
  /\ r.kind \in {"login", "assume"} => r.named \in Users
  /\ point = "compare" => r.kind = "login"
  /\ r.refreshing <=> point \in {"refresh", "consume", "read"} \/ (point = "answer" /\ r.refreshing)
  /\ r.sent # 0 => r.since <= revokedAt[pairs[r.sent].user]
  /\ point \in {"handle", "revoke"} /\ r.kind # "login" /\ pairs[r.sent].user \in accounts =>
       Second(pairs[r.sent].issued) >= Second(r.since)

CallsOK == \A c \in Calls : CallOK(pc[c], req[c])

Erased(p) == pairs[p].user \in forgotten

\* A consumed token stays in the blacklist until it is expired or its user erased.
ConsumedIsKept ==
  \A p \in Jtis : takenBy[p] # NoTab =>
    /\ p \in DOMAIN pairs
    /\ p \in blacklist \/ RefreshExpiry(p) < now \/ Erased(p)

\* The refreshes between ConsumeToken and the new pair.
Rotating(c, p) == pc[c] = "read" /\ req[c].sent = p

RotatingHaveConsumed == \A c \in Calls : pc[c] = "read" => takenBy[req[c].sent] # NoTab

OneRotates ==
  \A c, d \in Calls, p \in DOMAIN pairs : Rotating(c, p) /\ Rotating(d, p) =>
    c = d \/ RefreshExpiry(p) < now \/ Erased(p)

ChildrenAreOfConsumed ==
  \A i \in DOMAIN pairs : pairs[i].parent # 0 =>
    /\ pairs[i].parent \in DOMAIN pairs
    /\ takenBy[pairs[i].parent] # NoTab
    /\ pairs[i].user = pairs[pairs[i].parent].user

RotatingHaveNoChild ==
  \A c \in Calls, i \in DOMAIN pairs : Rotating(c, pairs[i].parent) =>
    RefreshExpiry(pairs[i].parent) < now \/ Erased(i)

SessionsInv ==
  /\ TypeInv /\ CallsOK
  /\ ConsumedIsKept /\ RotatingHaveConsumed /\ OneRotates
  /\ ChildrenAreOfConsumed /\ RotatingHaveNoChild /\ RotatedOnce
-----------------------------------------------------------------------------
(* Arithmetic of the clock.                                                *)

LEMMA SecondsAreOrdered ==
  ASSUME NEW a \in Nat, NEW b \in Nat, a <= b
  PROVE  Second(a) \in Nat /\ Second(b) \in Nat /\ Second(a) <= Second(b)
BY SessionsAssumption DEF Second

LEMMA ExpiryType ==
  ASSUME TypeInv, NEW p \in DOMAIN pairs
  PROVE  pairs[p] \in Pair /\ RefreshExpiry(p) \in Nat
<1>1. pairs[p] \in Pair
  BY ElementOfSeq, LenProperties DEF TypeInv
<1>2. pairs[p].issued \in Nat
  BY <1>1 DEF Pair
<1>3. Second(pairs[p].issued) \in Nat
  BY <1>2, SecondsAreOrdered
<1>. QED
  BY <1>1, <1>3, SessionsAssumption DEF RefreshExpiry

LEMMA Issued ==
  ASSUME TypeInv
  PROVE  /\ DOMAIN pairs = 1..Len(pairs) /\ Len(pairs) \in Nat
         /\ DOMAIN pairs \subseteq Jtis /\ 0 \notin DOMAIN pairs
         /\ cookie = 0 \/ cookie \in DOMAIN pairs
BY LenProperties, SessionsAssumption DEF TypeInv, Jtis
-----------------------------------------------------------------------------
\* What the tables and the history may do in a step without a new pair.
Steady ==
  /\ pairs' = pairs /\ takenBy' = takenBy /\ forgotten \subseteq forgotten'
  /\ now' \in Nat /\ now <= now'
  /\ blacklist' \subseteq DOMAIN pairs
  /\ \A p \in blacklist : p \in blacklist' \/ RefreshExpiry(p) < now \/ pairs[p].user \in forgotten'

\* The rotation of a token is disturbed by no step that consumes and signs nothing.
LEMMA RotationStays ==
  ASSUME SessionsInv, Steady, pc' \in [Calls -> Point], req' \in [Calls -> Request],
         \A c \in Calls : pc'[c] = "read" => pc[c] = "read" /\ req'[c].sent = req[c].sent
  PROVE  /\ ConsumedIsKept' /\ RotatingHaveConsumed' /\ OneRotates'
         /\ ChildrenAreOfConsumed' /\ RotatingHaveNoChild' /\ RotatedOnce'
<1>1. \A p : RefreshExpiry(p)' = RefreshExpiry(p) /\ (Erased(p) => Erased(p)')
  BY DEF Steady, RefreshExpiry, Erased
<1>2. \A p \in DOMAIN pairs : RefreshExpiry(p) < now => RefreshExpiry(p) < now'
  BY ExpiryType DEF Steady, SessionsInv, TypeInv
<1>3. ConsumedIsKept'
  BY <1>1, <1>2 DEF SessionsInv, ConsumedIsKept, Steady, Erased
<1>4. RotatingHaveConsumed'
  BY DEF SessionsInv, RotatingHaveConsumed, Steady
<1>5. OneRotates'
  BY <1>1, <1>2 DEF SessionsInv, OneRotates, Rotating, Steady
<1>6. ChildrenAreOfConsumed'
  BY DEF SessionsInv, ChildrenAreOfConsumed, Steady
<1>7. RotatingHaveNoChild'
  <2>1. ASSUME NEW c \in Calls, NEW i \in DOMAIN pairs, Rotating(c, pairs[i].parent)'
        PROVE  (RefreshExpiry(pairs[i].parent) < now \/ Erased(i))'
    <3>1. Rotating(c, pairs[i].parent)
      BY <2>1 DEF Rotating, Steady
    <3>2. CASE pairs[i].parent = 0
      BY <3>1, <3>2 DEF Rotating, SessionsInv, CallsOK, CallOK, Behind
    <3>3. CASE pairs[i].parent # 0
      <4>1. pairs[i].parent \in DOMAIN pairs
        BY <3>3 DEF SessionsInv, ChildrenAreOfConsumed
      <4>2. RefreshExpiry(pairs[i].parent) < now \/ Erased(i)
        BY <3>1 DEF SessionsInv, RotatingHaveNoChild
      <4>. QED
        BY <1>1, <1>2, <4>1, <4>2 DEF Steady, RefreshExpiry, Erased
    <3>. QED
      BY <3>2, <3>3
  <2>. QED
    BY <2>1 DEF RotatingHaveNoChild, Steady
<1>8. RotatedOnce'
  BY <1>1 DEF SessionsInv, RotatedOnce, Steady
<1>. QED
  BY <1>3, <1>4, <1>5, <1>6, <1>7, <1>8

\* A step of one call.
LEMMA CallStep ==
  ASSUME SessionsInv, Steady, NEW c \in Calls, NEW point \in Point, NEW r \in Request,
         pc' = [pc EXCEPT ![c] = point], req' = [req EXCEPT ![c] = r],
         accounts' = accounts, cookie' \in 0..Len(pairs),
         revokedAt' \in [Users -> Nat],
         \A u \in Users : revokedAt[u] <= revokedAt'[u] /\ revokedAt'[u] <= now',
         CallOK(point, r),
         point = "read" => pc[c] = "read" /\ r.sent = req[c].sent
  PROVE  SessionsInv'
<1>1. /\ pc \in [Calls -> Point] /\ req \in [Calls -> Request] /\ revokedAt \in [Users -> Nat]
      /\ pairs' = pairs
  BY DEF SessionsInv, TypeInv, Steady
<1>2. /\ pc' \in [Calls -> Point] /\ req' \in [Calls -> Request]
      /\ pc'[c] = point /\ req'[c] = r
      /\ \A d \in Calls : d # c => pc'[d] = pc[d] /\ req'[d] = req[d]
  BY <1>1
<1>3. TypeInv'
  BY <1>1, <1>2 DEF SessionsInv, TypeInv, Steady
<1>4. ASSUME NEW at \in Point, NEW q \in Request, CallOK(at, q)
      PROVE  CallOK(at, q)'
  <2>1. q.sent # 0 => q.since <= revokedAt'[pairs[q.sent].user]
    <3>1. ASSUME q.sent # 0 PROVE q.since <= revokedAt'[pairs[q.sent].user]
      <4>1. q.sent \in DOMAIN pairs /\ q.since \in Nat
        BY <1>4, <3>1, Issued DEF CallOK, SessionsInv, Request
      <4>2. pairs[q.sent].user \in Users
        BY <4>1, ExpiryType DEF SessionsInv, Pair
      <4>3. /\ q.since <= revokedAt[pairs[q.sent].user]
            /\ revokedAt[pairs[q.sent].user] <= revokedAt'[pairs[q.sent].user]
            /\ revokedAt[pairs[q.sent].user] \in Nat /\ revokedAt'[pairs[q.sent].user] \in Nat
        BY <1>1, <1>4, <3>1, <4>2 DEF CallOK
      <4>. QED
        BY <4>1, <4>3
    <3>. QED
      BY <3>1
  <2>. QED
    BY <1>1, <1>4, <2>1 DEF CallOK, Behind, Second
<1>5. CallsOK'
  BY <1>1, <1>2, <1>4 DEF SessionsInv, CallsOK
<1>. QED
  BY <1>2, <1>3, <1>5, RotationStays DEF SessionsInv

\* A step of the calls that share a refresh.
LEMMA SharersStep ==
  ASSUME SessionsInv, Steady, pc' \in [Calls -> Point], req' \in [Calls -> Request],
         accounts' = accounts, revokedAt' = revokedAt, cookie' \in 0..Len(pairs),
         \A d \in Calls : pc'[d] # "read" \/ (pc[d] = "read" /\ req'[d].sent = req[d].sent),
         \A d \in Calls : CallOK(pc'[d], req'[d])
  PROVE  SessionsInv'
<1>1. TypeInv'
  BY DEF SessionsInv, TypeInv, Steady
<1>2. CallsOK'
  BY DEF CallsOK, CallOK, Behind, Second, Steady
<1>. QED
  BY <1>1, <1>2, RotationStays DEF SessionsInv

\* A step of the auth service's surroundings.
LEMMA QuietStep ==
  ASSUME SessionsInv, Steady, pc' = pc, req' = req, accounts' \subseteq accounts,
         revokedAt' = revokedAt, cookie' = cookie
  PROVE  SessionsInv'
<1>1. TypeInv'
  BY DEF SessionsInv, TypeInv, Steady
<1>2. CallsOK'
  BY DEF SessionsInv, CallsOK, CallOK, Behind, Second, Steady
<1>3. pc \in [Calls -> Point] /\ req \in [Calls -> Request]
  BY DEF SessionsInv, TypeInv
<1>. QED
  BY <1>1, <1>2, <1>3, RotationStays DEF SessionsInv

\* A request that leaves with the browser's cookies.
LEMMA FetchIs ==
  ASSUME SessionsInv, NEW c, NEW r \in Request, cookie' \in 0..Len(pairs)
  PROVE  /\ Fetch(c, r) \in Request /\ Fetch(c, r).sent = cookie' /\ Fetch(c, r).pair = 0
         /\ Fetch(c, r).kind = r.kind /\ Fetch(c, r).tab = r.tab /\ Fetch(c, r).named = r.named
         /\ Fetch(c, r).refreshing = FALSE
         /\ Fetch(c, r).sent # 0 =>
              /\ Fetch(c, r).sent \in DOMAIN pairs
              /\ Fetch(c, r).since <= revokedAt[pairs[Fetch(c, r).sent].user]
<1>. DEFINE since == IF cookie' = 0 THEN 0 ELSE revokedAt[pairs[cookie'].user]
<1>1. cookie' \in Nat /\ (cookie' # 0 => cookie' \in DOMAIN pairs)
  BY Issued DEF SessionsInv
<1>2. since \in Nat /\ (cookie' # 0 => since <= revokedAt[pairs[cookie'].user])
  <2>1. CASE cookie' = 0
    BY <2>1
  <2>2. CASE cookie' # 0
    <3>1. pairs[cookie'] \in Pair
      BY <1>1, <2>2, ExpiryType DEF SessionsInv
    <3>2. pairs[cookie'].user \in Users
      BY <3>1 DEF Pair
    <3>3. revokedAt[pairs[cookie'].user] \in Nat
      BY <3>2 DEF SessionsInv, TypeInv
    <3>. QED
      BY <2>2, <3>3
  <2>. QED
    BY <2>1, <2>2
<1>. HIDE DEF since
<1>. DEFINE r1 == [r EXCEPT !.sent = cookie']
            r2 == [r1 EXCEPT !.since = since]
            r3 == [r2 EXCEPT !.status = "none"]
            r4 == [r3 EXCEPT !.pair = 0]
            r5 == [r4 EXCEPT !.refreshing = FALSE]
<1>3. Fetch(c, r) = r5
  BY DEF Fetch, since
<1>4. /\ r1 \in Request /\ r1.sent = cookie'
      /\ r1.kind = r.kind /\ r1.tab = r.tab /\ r1.named = r.named
  BY <1>1 DEF Request
<1>. HIDE DEF r1
<1>5. /\ r2 \in Request /\ r2.sent = cookie' /\ r2.since = since
      /\ r2.kind = r.kind /\ r2.tab = r.tab /\ r2.named = r.named
  BY <1>2, <1>4 DEF Request
<1>. HIDE DEF r2
<1>6. /\ r3 \in Request /\ r3.sent = cookie' /\ r3.since = since
      /\ r3.kind = r.kind /\ r3.tab = r.tab /\ r3.named = r.named
  BY <1>5 DEF Request, Status
<1>. HIDE DEF r3
<1>7. /\ r4 \in Request /\ r4.sent = cookie' /\ r4.since = since /\ r4.pair = 0
      /\ r4.kind = r.kind /\ r4.tab = r.tab /\ r4.named = r.named
  BY <1>6 DEF Request
<1>. HIDE DEF r4
<1>8. /\ r5 \in Request /\ r5.sent = cookie' /\ r5.since = since /\ r5.pair = 0
      /\ r5.kind = r.kind /\ r5.tab = r.tab /\ r5.named = r.named /\ r5.refreshing = FALSE
  BY <1>7 DEF Request
<1>. HIDE DEF r5
<1>. QED
  BY <1>1, <1>2, <1>3, <1>8

\* What the user asks for.
LEMMA UseStep ==
  ASSUME SessionsInv, NEW c \in Calls, NEW t \in Tabs, Use(c, t)
  PROVE  SessionsInv'
<1>1. PICK kind \in CallKind, u \in Users \cup {NoUser} :
        Ask(c, t, kind, u) /\ (kind \in {"login", "assume"} => u \in Users)
  BY DEF Use, AskLogin, AskApi, AskPassword, AskAssume, AskRestore, AskLogout, CallKind
<1>. DEFINE base == [NoRequest EXCEPT !.kind = kind, !.tab = t, !.named = u]
            r == Fetch(c, base)
            point == IF kind = "login" THEN "handle" ELSE "gateway"
<1>2. /\ pc' = [pc EXCEPT ![c] = point] /\ req' = [req EXCEPT ![c] = r]
      /\ cookie' = cookie /\ accounts' = accounts /\ revokedAt' = revokedAt
      /\ pairs' = pairs /\ takenBy' = takenBy /\ forgotten' = forgotten /\ blacklist' = blacklist
      /\ now' = now
  BY <1>1 DEF Ask, Goto, auth
<1>3. base \in Request /\ base.kind = kind /\ base.tab = t /\ base.named = u
  <2>. DEFINE r1 == [NoRequest EXCEPT !.kind = kind]
              r2 == [r1 EXCEPT !.tab = t]
              r3 == [r2 EXCEPT !.named = u]
  <2>1. NoRequest \in Request /\ base = r3
    BY DEF NoRequest, Request, CallKind, Status
  <2>2. r1 \in Request /\ r1.kind = kind
    BY <2>1 DEF Request
  <2>. HIDE DEF r1
  <2>3. r2 \in Request /\ r2.kind = kind /\ r2.tab = t
    BY <2>2 DEF Request
  <2>. HIDE DEF r2
  <2>4. r3 \in Request /\ r3.kind = kind /\ r3.tab = t /\ r3.named = u
    BY <2>3 DEF Request
  <2>. HIDE DEF r3, base
  <2>. QED
    BY <2>1, <2>4
<1>4. cookie' \in 0..Len(pairs)
  BY <1>2 DEF SessionsInv, TypeInv
<1>. HIDE DEF base
<1>5. /\ r \in Request /\ r.sent = cookie' /\ r.pair = 0 /\ r.refreshing = FALSE
      /\ r.kind = kind /\ r.tab = t /\ r.named = u
      /\ r.sent # 0 => r.since <= revokedAt[pairs[r.sent].user]
  BY <1>3, <1>4, FetchIs
<1>. HIDE DEF r
<1>6. CallOK(point, r)
  BY <1>1, <1>4, <1>5, Issued DEF CallOK, Behind, SessionsInv
<1>7. Steady
  BY <1>2 DEF Steady, SessionsInv, TypeInv
<1>8. /\ revokedAt' \in [Users -> Nat]
      /\ \A v \in Users : revokedAt[v] <= revokedAt'[v] /\ revokedAt'[v] <= now'
  BY <1>2 DEF SessionsInv, TypeInv
<1>9. point \in Point /\ point # "read"
  BY DEF Point
<1>. HIDE DEF point
<1>. QED
  BY <1>2, <1>4, <1>5, <1>6, <1>7, <1>8, <1>9, CallStep

\* A call that changes no table but the blacklist, which grows.
LEMMA CallAlone ==
  ASSUME SessionsInv, NEW c \in Calls, NEW point \in Point, NEW r \in Request,
         pc' = [pc EXCEPT ![c] = point], req' = [req EXCEPT ![c] = r], CallOK(point, r),
         point # "read",
         pairs' = pairs, takenBy' = takenBy, forgotten' = forgotten, now' = now,
         blacklist \subseteq blacklist', blacklist' \subseteq DOMAIN pairs,
         accounts' = accounts, cookie' \in 0..Len(pairs), revokedAt' = revokedAt
  PROVE  SessionsInv'
<1>1. Steady
  BY DEF Steady, SessionsInv, TypeInv
<1>2. /\ revokedAt' \in [Users -> Nat]
      /\ \A u \in Users : revokedAt[u] <= revokedAt'[u] /\ revokedAt'[u] <= now'
  BY DEF SessionsInv, TypeInv
<1>. QED
  BY <1>1, <1>2, CallStep

\* What is known of a call.
LEMMA CallIs ==
  ASSUME SessionsInv, NEW c \in Calls
  PROVE  /\ req[c] \in Request /\ CallOK(pc[c], req[c]) /\ pc[c] \in Point
         /\ pc \in [Calls -> Point] /\ req \in [Calls -> Request]
         /\ NoRequest \in Request /\ CallOK("idle", NoRequest)
         /\ cookie \in 0..Len(pairs) /\ blacklist \subseteq DOMAIN pairs
         /\ req[c].sent # 0 => req[c].sent \in DOMAIN pairs
<1>1. /\ req[c] \in Request /\ CallOK(pc[c], req[c]) /\ pc[c] \in Point
      /\ pc \in [Calls -> Point] /\ req \in [Calls -> Request]
      /\ cookie \in 0..Len(pairs) /\ blacklist \subseteq DOMAIN pairs
  BY DEF SessionsInv, TypeInv, CallsOK
<1>2. NoRequest \in Request
  BY DEF NoRequest, Request, CallKind, Status
<1>3. CallOK("idle", NoRequest)
  BY Issued DEF CallOK, NoRequest, Behind, SessionsInv
<1>4. req[c].sent # 0 => req[c].sent \in DOMAIN pairs
  BY <1>1, Issued DEF CallOK, Request, SessionsInv
<1>. QED
  BY <1>1, <1>2, <1>3, <1>4

\* The locals of a call that was answered with a pair.
Answered(r, status, n) == [r EXCEPT !.status = status, !.pair = n]

LEMMA AnswersType ==
  ASSUME NEW r \in Request, NEW status \in Status, NEW n \in Nat, NEW q, q = Answered(r, status, n)
  PROVE  /\ q \in Request /\ q.sent = r.sent /\ q.pair = n /\ q.kind = r.kind /\ q.tab = r.tab
         /\ q.named = r.named /\ q.refreshing = r.refreshing /\ q.since = r.since
<1>. DEFINE q1 == [r EXCEPT !.status = status]
            q2 == [q1 EXCEPT !.pair = n]
<1>1. /\ q1 \in Request /\ q1.sent = r.sent /\ q1.kind = r.kind /\ q1.tab = r.tab
      /\ q1.named = r.named /\ q1.refreshing = r.refreshing /\ q1.since = r.since
  BY DEF Request
<1>. HIDE DEF q1
<1>2. /\ q2 \in Request /\ q2.sent = r.sent /\ q2.pair = n /\ q2.kind = r.kind /\ q2.tab = r.tab
      /\ q2.named = r.named /\ q2.refreshing = r.refreshing /\ q2.since = r.since
  BY <1>1 DEF Request
<1>3. q = q2
  BY DEF Answered, q1
<1>. QED
  BY <1>2, <1>3

\* A response, after tables were changed or not.
LEMMA AnswerStep ==
  ASSUME SessionsInv, NEW c \in Calls, NEW status \in Status, Answer(c, status),
         pc[c] \notin {"idle", "waiting", "answer"},
         pairs' = pairs, takenBy' = takenBy, forgotten' = forgotten, now' = now,
         blacklist \subseteq blacklist', blacklist' \subseteq DOMAIN pairs,
         accounts' = accounts, cookie' = cookie, revokedAt' = revokedAt
  PROVE  SessionsInv'
<1>. DEFINE r == Answered(req[c], status, 0)
<1>1. req[c] \in Request /\ CallOK(pc[c], req[c]) /\ cookie \in 0..Len(pairs)
  BY CallIs
<1>2. /\ r \in Request /\ r.sent = req[c].sent /\ r.pair = 0 /\ r.kind = req[c].kind
      /\ r.tab = req[c].tab /\ r.named = req[c].named /\ r.refreshing = req[c].refreshing
      /\ r.since = req[c].since
  BY <1>1, AnswersType
<1>3. pc' = [pc EXCEPT ![c] = "answer"] /\ req' = [req EXCEPT ![c] = r]
  BY DEF Answer, Goto, Answered
<1>. HIDE DEF r
<1>4. CallOK("answer", r)
  BY <1>1, <1>2, Issued DEF CallOK, Behind, SessionsInv
<1>5. "answer" \in Point
  BY DEF Point
<1>. QED
  BY <1>1, <1>2, <1>3, <1>4, <1>5, CallAlone

\* A call goes on, and changes nothing else.
LEMMA GotoStep ==
  ASSUME SessionsInv, NEW c \in Calls, NEW point \in Point, Goto(c, point), req' = req,
         point # "read", CallOK(point, req[c]), UNCHANGED <<auth, takenBy, now, cookie>>
  PROVE  SessionsInv'
<1>1. req' = [req EXCEPT ![c] = req[c]] /\ req[c] \in Request
  BY CallIs
<1>2. cookie' \in 0..Len(pairs) /\ blacklist \subseteq DOMAIN pairs
  BY CallIs
<1>. QED
  BY <1>1, <1>2, CallAlone DEF Goto, auth

\* The gateway.
LEMMA GatewayStep ==
  ASSUME SessionsInv, NEW c \in Calls, Refuse(c) \/ Forbid(c) \/ Admit(c)
  PROVE  SessionsInv'
<1>1. CASE Refuse(c) \/ Forbid(c)
  <2>1. /\ \E status \in {"unauthorized", "refused"} : Answer(c, status)
        /\ pc[c] = "gateway"
        /\ pairs' = pairs /\ takenBy' = takenBy /\ forgotten' = forgotten /\ now' = now
        /\ blacklist' = blacklist /\ accounts' = accounts /\ cookie' = cookie /\ revokedAt' = revokedAt
    BY <1>1 DEF Refuse, Forbid, auth, clock, browser
  <2>2. {"unauthorized", "refused"} \subseteq Status
    BY DEF Status
  <2>. QED
    BY <2>1, <2>2, CallIs, AnswerStep
<1>2. CASE Admit(c)
  <2>1. /\ pc[c] = "gateway" /\ AccessValid(req[c].sent) /\ Goto(c, "handle") /\ req' = req
        /\ UNCHANGED <<auth, takenBy, now, cookie>>
    BY <1>2 DEF Admit, clock, browser
  <2>2. /\ req[c].sent # 0 /\ req[c].sent \in DOMAIN pairs /\ CallOK("gateway", req[c])
        /\ req[c] \in Request
    BY <2>1, CallIs DEF AccessValid
  <2>3. pairs[req[c].sent].user \in accounts =>
          Second(pairs[req[c].sent].issued) >= Second(req[c].since)
    <3>1. SUFFICES ASSUME pairs[req[c].sent].user \in accounts
                   PROVE  Second(pairs[req[c].sent].issued) >= Second(req[c].since)
      OBVIOUS
    <3>. DEFINE issued == pairs[req[c].sent].issued
                revoked == revokedAt[pairs[req[c].sent].user]
    <3>2. issued \in Nat /\ revoked \in Nat /\ req[c].since \in Nat /\ req[c].since <= revoked
      BY <2>2, ExpiryType DEF Pair, Request, CallOK, SessionsInv, TypeInv
    <3>3. ~ (Second(issued) < Second(revoked))
      BY <2>1, <3>1 DEF AccessValid, Revoked
    <3>. HIDE DEF issued, revoked
    <3>4. /\ Second(req[c].since) <= Second(revoked) /\ Second(issued) \in Nat
          /\ Second(revoked) \in Nat /\ Second(req[c].since) \in Nat
      BY <3>2, SecondsAreOrdered
    <3>. QED
      BY <3>3, <3>4 DEF issued
  <2>4. CallOK("handle", req[c])
    BY <2>2, <2>3 DEF CallOK, Behind
  <2>5. "handle" \in Point
    BY DEF Point
  <2>. QED
    BY <2>1, <2>4, <2>5, GotoStep
<1>. QED
  BY <1>1, <1>2

\* A new pair: of a session that was refreshed, or the first of a session.
LEMMA SignStep ==
  ASSUME SessionsInv, NEW c \in Calls, NEW subject \in Users, NEW actor \in Users \cup {NoUser},
         Sign(c, subject, actor), pc[c] \notin {"idle", "waiting", "answer"},
         req[c].refreshing => pc[c] = "read" /\ subject = pairs[req[c].sent].user,
         takenBy' = takenBy, forgotten' = forgotten, now' = now, blacklist' = blacklist,
         accounts' = accounts, cookie' = cookie, revokedAt' = revokedAt
  PROVE  SessionsInv'
<1>. DEFINE parent == IF req[c].refreshing THEN req[c].sent ELSE 0
            pair == [user |-> subject, assumedBy |-> actor, issued |-> now, parent |-> parent]
            n == Len(pairs) + 1
            r == Answered(req[c], "ok", n)
<1>1. /\ req[c] \in Request /\ CallOK(pc[c], req[c]) /\ pc \in [Calls -> Point]
      /\ req \in [Calls -> Request] /\ now \in Nat /\ Len(pairs) \in Nat /\ pairs \in Seq(Pair)
      /\ req[c].sent # 0 => req[c].sent \in DOMAIN pairs
      /\ DOMAIN pairs = 1..Len(pairs)
  BY CallIs, Issued DEF SessionsInv, TypeInv
<1>2. /\ Len(pairs) < MaxPairs /\ pairs' = Append(pairs, pair)
      /\ pc' = [pc EXCEPT ![c] = "answer"] /\ req' = [req EXCEPT ![c] = r]
  BY DEF Sign, Goto, Answered
<1>3. parent \in Nat /\ (parent # 0 => req[c].refreshing /\ parent = req[c].sent /\ parent \in DOMAIN pairs)
  BY <1>1 DEF Request
<1>4. pair \in Pair /\ pair.user = subject /\ pair.issued = now /\ pair.parent = parent
  BY <1>1, <1>3 DEF Pair
<1>. HIDE DEF pair, parent
<1>5. /\ pairs' \in Seq(Pair) /\ Len(pairs') = n
      /\ \A i \in DOMAIN pairs : pairs'[i] = pairs[i]
      /\ pairs'[n] = pair /\ DOMAIN pairs' = DOMAIN pairs \cup {n}
  <2>1. /\ pairs' \in Seq(Pair) /\ Len(pairs') = n
        /\ \A i \in 1..Len(pairs) : pairs'[i] = pairs[i]
        /\ pairs'[n] = pair
    BY <1>1, <1>2, <1>4, AppendProperties
  <2>2. DOMAIN pairs' = 1..n
    BY <2>1, LenProperties
  <2>. QED
    BY <1>1, <2>1, <2>2
<1>6. /\ n \in Nat /\ n # 0 /\ n \notin DOMAIN pairs /\ n \in Jtis
      /\ \A i \in DOMAIN pairs : i < n
      /\ Len(pairs') = n /\ n <= MaxPairs /\ Len(pairs) <= n
  BY <1>1, <1>2, <1>5, SessionsAssumption DEF Jtis
<1>7. "ok" \in Status /\ "answer" \in Point
  BY DEF Status, Point
<1>8. /\ r \in Request /\ r.sent = req[c].sent /\ r.pair = n /\ r.kind = req[c].kind
      /\ r.tab = req[c].tab /\ r.named = req[c].named /\ r.refreshing = req[c].refreshing
      /\ r.since = req[c].since
  BY <1>1, <1>6, <1>7, AnswersType
<1>. HIDE DEF r, n
<1>9. /\ pc'[c] = "answer" /\ req'[c] = r
      /\ pc' \in [Calls -> Point] /\ req' \in [Calls -> Request]
      /\ \A d \in Calls : d # c => pc'[d] = pc[d] /\ req'[d] = req[d]
  BY <1>1, <1>2, <1>7, <1>8
<1>10. TypeInv'
  <2>1. cookie \in 0..Len(pairs) /\ cookie' \in 0..Len(pairs')
    BY <1>1, <1>6 DEF SessionsInv, TypeInv
  <2>. QED
    BY <1>5, <1>6, <1>9, <2>1 DEF SessionsInv, TypeInv
<1>11. CallsOK'
  <2>1. ASSUME NEW point, NEW q \in Request, CallOK(point, q)
        PROVE  CallOK(point, q)'
    <3>1. q.sent # 0 => q.sent \in DOMAIN pairs /\ pairs'[q.sent] = pairs[q.sent]
      BY <1>1, <1>5, <2>1 DEF CallOK, Request
    <3>2. q.sent <= Len(pairs') /\ q.pair <= Len(pairs')
      BY <1>1, <1>6, <2>1 DEF CallOK, Request
    <3>. QED
      BY <2>1, <3>1, <3>2 DEF CallOK, Behind, Second
  <2>2. ASSUME NEW q \in Request, q = r
        PROVE  CallOK("answer", q)'
    <3>1. q.sent # 0 => q.sent \in DOMAIN pairs /\ pairs'[q.sent] = pairs[q.sent]
      BY <1>1, <1>5, <1>8, <2>2
    <3>2. q.sent <= Len(pairs') /\ q.pair <= Len(pairs')
      BY <1>1, <1>6, <1>8, <2>2 DEF CallOK, Request
    <3>. QED
      BY <1>1, <1>8, <2>2, <3>1, <3>2 DEF CallOK, Behind
  <2>. QED
    BY <1>8, <1>9, <2>1, <2>2, CallIs DEF CallsOK
<1>12. \A p \in DOMAIN pairs : RefreshExpiry(p)' = RefreshExpiry(p) /\ Erased(p)' = Erased(p)
  BY <1>5 DEF RefreshExpiry, Erased, Second
<1>13. ConsumedIsKept'
  BY <1>5, <1>12 DEF SessionsInv, ConsumedIsKept
<1>14. RotatingHaveConsumed'
  BY <1>9 DEF SessionsInv, RotatingHaveConsumed
<1>15. \A d \in Calls : \A p : Rotating(d, p)' => d # c /\ Rotating(d, p) /\ p \in DOMAIN pairs
  BY <1>9, CallIs DEF Rotating, CallOK, Behind
<1>16. OneRotates'
  BY <1>12, <1>15 DEF SessionsInv, OneRotates
<1>17. parent # 0 => /\ takenBy[parent] # NoTab /\ subject = pairs[parent].user
                     /\ Rotating(c, parent)
  BY <1>3 DEF SessionsInv, RotatingHaveConsumed, Rotating
<1>18. ChildrenAreOfConsumed'
  BY <1>3, <1>4, <1>5, <1>17 DEF SessionsInv, ChildrenAreOfConsumed
<1>19. RotatingHaveNoChild'
  <2>1. ASSUME NEW d \in Calls, NEW i \in DOMAIN pairs', Rotating(d, pairs[i].parent)'
        PROVE  (RefreshExpiry(pairs[i].parent) < now \/ Erased(i))'
    <3>1. CASE i \in DOMAIN pairs
      BY <1>5, <1>12, <1>15, <2>1, <3>1 DEF SessionsInv, RotatingHaveNoChild
    <3>2. CASE i = n
      <4>1. /\ d # c /\ Rotating(d, parent) /\ parent \in DOMAIN pairs /\ parent # 0
        BY <1>4, <1>5, <1>15, <2>1, <3>2, Issued DEF SessionsInv
      <4>2. RefreshExpiry(parent) < now \/ Erased(parent)
        BY <1>17, <4>1 DEF SessionsInv, OneRotates
      <4>3. Erased(parent) => Erased(i)'
        BY <1>4, <1>5, <1>17, <3>2, <4>1 DEF Erased
      <4>4. ASSUME NEW p \in DOMAIN pairs, p = parent
            PROVE  RefreshExpiry(p)' = RefreshExpiry(p) /\ pairs'[i].parent = p
        BY <1>4, <1>5, <1>12, <3>2, <4>4
      <4>. QED
        BY <4>1, <4>2, <4>3, <4>4
    <3>. QED
      BY <1>5, <3>1, <3>2
  <2>. QED
    BY <2>1 DEF RotatingHaveNoChild
<1>20. RotatedOnce'
  <2>1. ASSUME NEW i \in DOMAIN pairs', NEW j \in DOMAIN pairs', i < j,
               pairs'[i].parent = pairs'[j].parent, pairs'[i].parent # 0,
               pairs'[i].user \notin forgotten
        PROVE  pairs'[j].issued >= RefreshExpiry(pairs[i].parent)'
    <3>1. i \in DOMAIN pairs /\ i \in Nat /\ pairs'[i] = pairs[i]
      BY <1>1, <1>5, <1>6, <2>1
    <3>2. pairs[i].parent \in DOMAIN pairs
      BY <2>1, <3>1 DEF SessionsInv, ChildrenAreOfConsumed
    <3>3. CASE j \in DOMAIN pairs
      BY <1>5, <1>12, <2>1, <3>1, <3>2, <3>3 DEF SessionsInv, RotatedOnce
    <3>4. CASE j = n
      <4>1. pairs[i].parent = parent /\ parent # 0 /\ pairs'[j].issued = now
        BY <1>4, <1>5, <2>1, <3>1, <3>4
      <4>2. RefreshExpiry(parent) < now \/ Erased(i)
        BY <1>17, <3>1, <4>1 DEF SessionsInv, RotatingHaveNoChild
      <4>3. ~ Erased(i) /\ RefreshExpiry(parent) \in Nat
        BY <2>1, <3>1, <3>2, <4>1, ExpiryType DEF Erased, SessionsInv
      <4>. QED
        BY <1>1, <1>12, <3>1, <3>2, <4>1, <4>2, <4>3
    <3>. QED
      BY <1>5, <3>3, <3>4
  <2>. QED
    BY <2>1 DEF RotatedOnce
<1>. QED
  BY <1>10, <1>11, <1>13, <1>14, <1>16, <1>18, <1>19, <1>20 DEF SessionsInv

\* The handlers that only answer or go on.
LEMMA AnsweringSteps ==
  ASSUME SessionsInv, NEW c \in Calls,
         ServeApi(c) \/ Login(c) \/ ChangePassword(c) \/ Logout(c) \/ ValidateRefresh(c) \/ Fail(c)
  PROVE  SessionsInv'
<1>1. ASSUME NEW status \in {"ok", "unauthorized", "refused"}, Answer(c, status),
             pc[c] \notin {"idle", "waiting", "answer"},
             blacklist \subseteq blacklist', blacklist' \subseteq DOMAIN pairs,
             UNCHANGED <<now, accounts, revokedAt, pairs, forgotten, cookie, takenBy>>
      PROVE  SessionsInv'
  <2>1. status \in Status
    BY DEF Status
  <2>. QED
    BY <1>1, <2>1, AnswerStep
<1>2. blacklist \subseteq DOMAIN pairs
  BY CallIs
<1>3. ASSUME NEW point \in {"compare", "revoke", "consume"}, Goto(c, point), req' = req,
             pc[c] \in {"handle", "refresh"},
             UNCHANGED <<now, auth, cookie, takenBy>>,
             point = "compare" => req[c].kind = "login",
             point = "revoke" => pc[c] = "handle" /\ req[c].kind = "password",
             point = "consume" => pc[c] = "refresh" /\ req[c].sent # 0,
             point = "compare" => pc[c] = "handle"
      PROVE  SessionsInv'
  <2>1. CallOK(point, req[c])
    BY <1>3, CallIs DEF CallOK, Behind
  <2>2. point \in Point
    BY DEF Point
  <2>. QED
    BY <1>3, <2>1, <2>2, GotoStep
<1>4. CASE ServeApi(c)
  BY <1>1, <1>2, <1>4 DEF ServeApi, clock, auth, browser
<1>5. CASE Login(c)
  BY <1>1, <1>2, <1>3, <1>5 DEF Login, clock, auth, browser
<1>6. CASE ChangePassword(c)
  BY <1>1, <1>2, <1>3, <1>6 DEF ChangePassword, clock, auth, browser
<1>7. CASE Logout(c)
  <2>1. blacklist \subseteq blacklist' /\ blacklist' \subseteq DOMAIN pairs
    BY <1>2, <1>7, CallIs DEF Logout, RefreshValid
  <2>. QED
    BY <1>1, <1>7, <2>1 DEF Logout, clock, browser
<1>8. CASE ValidateRefresh(c)
  BY <1>1, <1>2, <1>3, <1>8 DEF ValidateRefresh, RefreshValid, clock, auth, browser
<1>9. CASE Fail(c)
  <2>1. \E status \in {"unauthorized", "refused"} : Answer(c, status)
    BY <1>9 DEF Fail
  <2>. QED
    BY <1>1, <1>2, <1>9, <2>1 DEF Fail, auth, browser
<1>. QED
  BY <1>4, <1>5, <1>6, <1>7, <1>8, <1>9

\* The handlers that end with a new pair, or without.
LEMMA SigningSteps ==
  ASSUME SessionsInv, NEW c \in Calls,
         ComparePassword(c) \/ Reissue(c) \/ AssumeIdentity(c) \/ RestoreIdentity(c) \/ ReadUser(c)
  PROVE  SessionsInv'
<1>1. /\ pc[c] \notin {"idle", "waiting", "answer"}
      /\ UNCHANGED <<now, accounts, revokedAt, blacklist, forgotten, cookie, takenBy>>
  BY DEF ComparePassword, Reissue, AssumeIdentity, RestoreIdentity, ReadUser, clock, browser
<1>2. /\ accounts \subseteq Users /\ blacklist \subseteq DOMAIN pairs /\ CallOK(pc[c], req[c])
      /\ req[c].sent # 0 => req[c].sent \in DOMAIN pairs
  BY CallIs DEF SessionsInv, TypeInv
<1>3. ASSUME NEW status \in {"unauthorized", "refused"}, Answer(c, status), UNCHANGED pairs
      PROVE  SessionsInv'
  <2>1. status \in Status
    BY DEF Status
  <2>. QED
    BY <1>1, <1>2, <1>3, <2>1, AnswerStep
<1>4. ASSUME NEW subject \in Users, NEW actor \in Users \cup {NoUser}, Sign(c, subject, actor),
             pc[c] # "read"
      PROVE  SessionsInv'
  <2>1. ~ req[c].refreshing \/ pc[c] \in {"refresh", "consume"}
    BY <1>1, <1>2, <1>4 DEF CallOK
  <2>2. pc[c] \notin {"refresh", "consume"}
    BY <1>4 DEF ComparePassword, Reissue, AssumeIdentity, RestoreIdentity, ReadUser
  <2>. QED
    BY <1>1, <1>4, <2>1, <2>2, SignStep
<1>5. CASE ComparePassword(c)
  <2>1. req[c].named \in Users /\ pc[c] = "compare"
    BY <1>2, <1>5 DEF ComparePassword, CallOK
  <2>. QED
    BY <1>3, <1>4, <1>5, <2>1 DEF ComparePassword
<1>6. ASSUME pc[c] \in {"reissue", "handle", "read"}, req[c].kind # "login" \/ pc[c] # "handle"
      PROVE  Caller(c) \in Users /\ AssumedBy(c) \in Users \cup {NoUser}
  <2>1. req[c].sent \in DOMAIN pairs
    BY <1>2, <1>6 DEF CallOK, Behind
  <2>. QED
    BY <2>1, ExpiryType DEF SessionsInv, Caller, AssumedBy, Pair
<1>7. CASE Reissue(c)
  BY <1>4, <1>6, <1>7 DEF Reissue
<1>8. CASE AssumeIdentity(c)
  BY <1>2, <1>3, <1>4, <1>6, <1>8 DEF AssumeIdentity
<1>9. CASE RestoreIdentity(c)
  BY <1>2, <1>3, <1>4, <1>9 DEF RestoreIdentity
<1>10. CASE ReadUser(c)
  <2>1. CASE Answer(c, "unauthorized") /\ UNCHANGED pairs
    BY <1>3, <2>1
  <2>2. CASE Sign(c, Caller(c), NoUser)
    <3>1. Caller(c) \in Users /\ pc[c] = "read" /\ Caller(c) = pairs[req[c].sent].user
      BY <1>6, <1>10 DEF ReadUser, Caller
    <3>. HIDE DEF Caller
    <3>. QED
      BY <1>1, <2>2, <3>1, SignStep
  <2>. QED
    BY <1>10, <2>1, <2>2 DEF ReadUser
<1>. QED
  BY <1>5, <1>7, <1>8, <1>9, <1>10

\* A revocation: it is not before any other, nor after the clock.
LEMMA RevokeStep ==
  ASSUME SessionsInv, NEW c \in Calls, RevokeAllUserTokens(c)
  PROVE  SessionsInv'
<1>1. /\ pc' = [pc EXCEPT ![c] = "reissue"] /\ req' = [req EXCEPT ![c] = req[c]]
      /\ req[c] \in Request /\ pc[c] = "revoke" /\ accounts' = accounts /\ cookie' = cookie
      /\ cookie \in 0..Len(pairs)
  BY CallIs DEF RevokeAllUserTokens, Goto, browser
<1>2. Steady
  BY DEF RevokeAllUserTokens, Steady, SessionsInv, TypeInv, clock
<1>3. /\ revokedAt' \in [Users -> Nat]
      /\ \A u \in Users : revokedAt[u] <= revokedAt'[u] /\ revokedAt'[u] <= now'
  BY DEF RevokeAllUserTokens, SessionsInv, TypeInv, clock
<1>4. CallOK("reissue", req[c])
  BY <1>1, CallIs DEF CallOK, Behind
<1>5. "reissue" \in Point
  BY DEF Point
<1>. QED
  BY <1>1, <1>2, <1>3, <1>4, <1>5, CallStep

\* ConsumeToken: the second to consume a token comes after its expiry.
LEMMA ConsumeStep ==
  ASSUME SessionsInv, NEW c \in Calls, ConsumeToken(c)
  PROVE  SessionsInv'
<1>. DEFINE p == req[c].sent
<1>1. /\ req[c] \in Request /\ CallOK("consume", req[c]) /\ pc[c] = "consume"
      /\ p \in DOMAIN pairs /\ p \in Jtis /\ blacklist \subseteq DOMAIN pairs
      /\ pc \in [Calls -> Point] /\ req[c].tab \in Tabs
      /\ UNCHANGED <<now, accounts, revokedAt, pairs, forgotten, cookie>>
  BY CallIs, Issued DEF ConsumeToken, SessionsInv, CallOK, Behind, clock, browser
<1>2. CASE \/ Answer(c, "refused") /\ UNCHANGED <<blacklist, takenBy>>
           \/ Answer(c, "replayed") /\ UNCHANGED <<blacklist, takenBy>>
  <2>1. {"refused", "replayed"} \subseteq Status
    BY DEF Status
  <2>. QED
    BY <1>1, <1>2, <2>1, AnswerStep
<1>3. CASE /\ pairs[p].user \in accounts /\ Unconsumed(p) /\ blacklist' = blacklist \cup {p}
           /\ takenBy' = [takenBy EXCEPT ![p] = req[c].tab] /\ Goto(c, "read") /\ req' = req
  <2>1. /\ pc' \in [Calls -> Point] /\ pc'[c] = "read" /\ (\A d \in Calls : d # c => pc'[d] = pc[d])
    BY <1>1, <1>3 DEF Goto, Point
  <2>2. /\ takenBy' \in [Jtis -> Tabs \cup {NoTab}] /\ takenBy'[p] # NoTab
        /\ \A i \in Jtis : i # p => takenBy'[i] = takenBy[i]
        /\ \A i \in Jtis : takenBy[i] # NoTab => takenBy'[i] # NoTab
    BY <1>1, <1>3, SessionsAssumption DEF SessionsInv, TypeInv
  <2>3. \A i : RefreshExpiry(i)' = RefreshExpiry(i) /\ Erased(i)' = Erased(i)
    BY <1>1 DEF RefreshExpiry, Erased, Second
  <2>4. takenBy[p] # NoTab => RefreshExpiry(p) < now \/ Erased(p)
    BY <1>1, <1>3 DEF Unconsumed, SessionsInv, ConsumedIsKept
  <2>5. TypeInv'
    BY <1>1, <1>3, <2>1, <2>2 DEF SessionsInv, TypeInv
  <2>6. CallsOK'
    <3>1. ASSUME NEW point, NEW q, CallOK(point, q)
          PROVE  CallOK(point, q)'
      BY <1>1, <3>1 DEF CallOK, Behind, Second
    <3>2. CallOK("read", req[c])
      BY <1>1 DEF CallOK, Behind
    <3>. QED
      BY <1>3, <2>1, <3>1, <3>2 DEF SessionsInv, CallsOK
  <2>7. ConsumedIsKept'
    BY <1>1, <1>3, <2>2, <2>3 DEF SessionsInv, ConsumedIsKept
  <2>8. RotatingHaveConsumed'
    <3>1. \A d \in Calls : pc[d] = "read" => req[d].sent \in Jtis
      BY CallIs, Issued DEF SessionsInv, CallOK, Behind
    <3>. QED
      BY <1>3, <2>1, <2>2, <3>1 DEF SessionsInv, RotatingHaveConsumed
  <2>9. OneRotates'
    <3>1. ASSUME NEW d \in Calls, d # c, Rotating(d, p)
          PROVE  RefreshExpiry(p) < now \/ Erased(p)
      BY <2>4, <3>1 DEF SessionsInv, RotatingHaveConsumed, Rotating
    <3>. QED
      BY <1>1, <1>3, <2>1, <2>3, <3>1 DEF SessionsInv, OneRotates, Rotating
  <2>10. ChildrenAreOfConsumed'
    BY <1>1, <2>2, Issued DEF SessionsInv, ChildrenAreOfConsumed
  <2>11. RotatingHaveNoChild'
    <3>1. ASSUME NEW i \in DOMAIN pairs, pairs[i].parent = p
          PROVE  RefreshExpiry(p) < now \/ Erased(i)
      <4>1. p # 0
        BY <1>1, Issued DEF SessionsInv
      <4>2. takenBy[p] # NoTab /\ pairs[i].user = pairs[p].user
        BY <3>1, <4>1 DEF SessionsInv, ChildrenAreOfConsumed
      <4>. QED
        BY <2>4, <4>2 DEF Erased
    <3>. QED
      BY <1>1, <1>3, <2>1, <2>3, <3>1 DEF SessionsInv, RotatingHaveNoChild, Rotating
  <2>12. RotatedOnce'
    BY <1>1, <2>3 DEF SessionsInv, RotatedOnce
  <2>. QED
    BY <2>5, <2>6, <2>7, <2>8, <2>9, <2>10, <2>11, <2>12 DEF SessionsInv
<1>. QED
  BY <1>1, <1>2, <1>3 DEF ConsumeToken

\* The cookie that a response leaves.
LEMMA CookieAfterType ==
  ASSUME SessionsInv, NEW c \in Calls
  PROVE  CookieAfter(c) \in 0..Len(pairs)
BY CallIs, Issued DEF CookieAfter, CallOK, Request, SessionsInv

\* The steps of the browser that concern one call.
LEMMA ClientSteps ==
  ASSUME SessionsInv, NEW c \in Calls, Receive(c) \/ StartRefresh(c) \/ AwaitRefresh(c)
  PROVE  SessionsInv'
<1>1. /\ UNCHANGED <<now, auth, takenBy>> /\ pc[c] = "answer" /\ ~ req[c].refreshing
      /\ cookie \in 0..Len(pairs) /\ blacklist \subseteq DOMAIN pairs
      /\ req[c] \in Request /\ CallOK("answer", req[c])
  BY CallIs DEF Receive, StartRefresh, AwaitRefresh, clock
<1>2. {"idle", "refresh", "waiting"} \subseteq Point
  BY DEF Point
<1>3. CASE Receive(c)
  <2>1. /\ pc' = [pc EXCEPT ![c] = "idle"] /\ req' = [req EXCEPT ![c] = NoRequest]
        /\ cookie' \in 0..Len(pairs) /\ NoRequest \in Request /\ CallOK("idle", NoRequest)
    BY <1>3, CallIs, CookieAfterType DEF Receive, Done
  <2>. HIDE DEF NoRequest
  <2>. QED
    BY <1>1, <1>2, <2>1, CallAlone DEF auth
<1>4. CASE StartRefresh(c)
  <2>. DEFINE f == Fetch(c, req[c])
              r == [f EXCEPT !.refreshing = TRUE]
  <2>1. /\ pc' = [pc EXCEPT ![c] = "refresh"] /\ req' = [req EXCEPT ![c] = r] /\ cookie' = cookie
    BY <1>4 DEF StartRefresh, Goto
  <2>2. /\ f \in Request /\ f.sent = cookie /\ f.pair = 0
        /\ f.kind = req[c].kind /\ f.tab = req[c].tab /\ f.named = req[c].named
        /\ f.sent # 0 => f.since <= revokedAt[pairs[f.sent].user]
    BY <1>1, <2>1, FetchIs
  <2>. HIDE DEF f
  <2>3. /\ r \in Request /\ r.sent = cookie /\ r.pair = 0 /\ r.refreshing = TRUE
        /\ r.kind = req[c].kind /\ r.tab = req[c].tab /\ r.named = req[c].named
        /\ r.sent # 0 => r.since <= revokedAt[pairs[r.sent].user]
    BY <2>2 DEF Request
  <2>. HIDE DEF r
  <2>4. CallOK("refresh", r)
    BY <1>1, <2>3, Issued DEF CallOK, Behind, SessionsInv
  <2>. QED
    BY <1>1, <1>2, <2>1, <2>3, <2>4, CallAlone DEF auth
<1>5. CASE AwaitRefresh(c)
  <2>1. Goto(c, "waiting") /\ req' = req /\ cookie' = cookie
    BY <1>5 DEF AwaitRefresh, browser
  <2>2. CallOK("waiting", req[c])
    BY <1>1 DEF CallOK, Behind
  <2>. QED
    BY <1>1, <1>2, <2>1, <2>2, GotoStep
<1>. QED
  BY <1>3, <1>4, <1>5

\* The calls that shared a refresh leave again with the new cookies.
LEMMA RefreshedStep ==
  ASSUME SessionsInv, NEW c \in Calls, Refreshed(c)
  PROVE  SessionsInv'
<1>. DEFINE again(d) == [Fetch(d, req[d]) EXCEPT !.retried = TRUE]
<1>1. /\ UNCHANGED <<now, auth, takenBy>> /\ pc[c] = "answer" /\ cookie' \in 0..Len(pairs)
      /\ pc' = [d \in Calls |-> IF d \in Sharers(c) THEN "gateway" ELSE pc[d]]
      /\ req' = [d \in Calls |-> IF d \in Sharers(c) THEN again(d) ELSE req[d]]
      /\ \A d \in Sharers(c) : d \in Calls /\ pc[d] \in {"answer", "waiting"}
  BY CookieAfterType DEF Refreshed, Sharers, clock
<1>2. ASSUME NEW d \in Sharers(c)
      PROVE  again(d) \in Request /\ CallOK("gateway", again(d))
  <2>. DEFINE f == Fetch(d, req[d])
              r == [f EXCEPT !.retried = TRUE]
  <2>1. req[d] \in Request /\ CallOK(pc[d], req[d]) /\ pc[d] \in {"answer", "waiting"}
    BY <1>1, <1>2, CallIs
  <2>2. /\ f \in Request /\ f.sent = cookie' /\ f.pair = 0 /\ f.refreshing = FALSE
        /\ f.kind = req[d].kind /\ f.tab = req[d].tab /\ f.named = req[d].named
        /\ f.sent # 0 => f.since <= revokedAt[pairs[f.sent].user]
    BY <1>1, <2>1, FetchIs
  <2>. HIDE DEF f
  <2>3. /\ r \in Request /\ r.sent = cookie' /\ r.pair = 0 /\ r.refreshing = FALSE
        /\ r.kind = req[d].kind /\ r.tab = req[d].tab /\ r.named = req[d].named
        /\ r.sent # 0 => r.since <= revokedAt[pairs[r.sent].user]
    BY <2>2 DEF Request
  <2>. HIDE DEF r
  <2>4. CallOK("gateway", r)
    BY <1>1, <2>1, <2>3, Issued DEF CallOK, Behind, SessionsInv
  <2>. QED
    BY <2>3, <2>4 DEF r, f
<1>. HIDE DEF again
<1>3. \A d \in Calls : /\ pc'[d] \in Point /\ req'[d] \in Request /\ CallOK(pc'[d], req'[d])
                       /\ pc'[d] # "read" \/ (pc[d] = "read" /\ req'[d].sent = req[d].sent)
  <2>1. ASSUME NEW d \in Calls, d \in Sharers(c)
        PROVE  /\ pc'[d] = "gateway" /\ req'[d] = again(d)
    BY <1>1, <2>1
  <2>2. ASSUME NEW d \in Calls, d \notin Sharers(c)
        PROVE  pc'[d] = pc[d] /\ req'[d] = req[d]
    BY <1>1, <2>2
  <2>3. "gateway" \in Point
    BY DEF Point
  <2>. QED
    BY <1>2, <2>1, <2>2, <2>3, CallIs
<1>4. pc' \in [Calls -> Point] /\ req' \in [Calls -> Request]
  BY <1>1, <1>3
<1>5. Steady
  BY <1>1 DEF Steady, SessionsInv, TypeInv, auth
<1>. QED
  BY <1>1, <1>3, <1>4, <1>5, SharersStep DEF auth

\* The tab is sent to the login page: its calls end.
LEMMA GoToLoginStep ==
  ASSUME SessionsInv, NEW c \in Calls, GoToLogin(c), now' = now
  PROVE  SessionsInv'
<1>1. /\ UNCHANGED <<now, auth, takenBy, cookie>>
      /\ pc' = [d \in Calls |-> IF d \in Sharers(c) THEN "idle" ELSE pc[d]]
      /\ req' = [d \in Calls |-> IF d \in Sharers(c) THEN NoRequest ELSE req[d]]
  BY DEF GoToLogin
<1>. HIDE DEF NoRequest
<1>2. \A d \in Calls : /\ pc'[d] \in Point /\ req'[d] \in Request /\ CallOK(pc'[d], req'[d])
                       /\ pc'[d] # "read" \/ (pc[d] = "read" /\ req'[d].sent = req[d].sent)
  <2>1. "idle" \in Point
    BY DEF Point
  <2>2. ASSUME NEW d \in Calls
        PROVE  \/ pc'[d] = "idle" /\ req'[d] = NoRequest
               \/ pc'[d] = pc[d] /\ req'[d] = req[d]
    BY <1>1
  <2>. QED
    BY <2>1, <2>2, CallIs
<1>3. pc' \in [Calls -> Point] /\ req' \in [Calls -> Request]
  BY <1>1, <1>2
<1>4. Steady /\ cookie' \in 0..Len(pairs)
  BY <1>1 DEF Steady, SessionsInv, TypeInv, auth
<1>. QED
  BY <1>1, <1>2, <1>3, <1>4, SharersStep DEF auth

\* A lost answer.
LEMMA LoseStep ==
  ASSUME SessionsInv, NEW c \in Calls, Lose(c)
  PROVE  SessionsInv'
<1>1. now' = now
  BY DEF Lose
<1>2. CASE GoToLogin(c)
  BY <1>1, <1>2, GoToLoginStep
<1>3. CASE Done(c) /\ UNCHANGED <<auth, browser, takenBy>>
  <2>1. /\ pc' = [pc EXCEPT ![c] = "idle"] /\ req' = [req EXCEPT ![c] = NoRequest]
        /\ NoRequest \in Request /\ CallOK("idle", NoRequest) /\ "idle" \in Point
        /\ cookie \in 0..Len(pairs) /\ blacklist \subseteq DOMAIN pairs
    BY <1>3, CallIs DEF Done, Point
  <2>. HIDE DEF NoRequest
  <2>. QED
    BY <1>1, <1>3, <2>1, CallAlone DEF auth, browser
<1>. QED
  BY <1>2, <1>3 DEF Lose

\* Time, the cleanup of the blacklist and the erasure of users.
LEMMA SurroundingSteps ==
  ASSUME SessionsInv,
         \/ Tick \/ CleanupExpired
         \/ \E u \in Users : DeleteRefreshTokenBlacklist(u) \/ DeleteUserRow(u)
  PROVE  SessionsInv'
<1>1. now \in Nat /\ blacklist \subseteq DOMAIN pairs
  BY DEF SessionsInv, TypeInv
<1>2. CASE Tick
  <2>1. Steady
    BY <1>1, <1>2 DEF Tick, Steady, auth
  <2>. QED
    BY <1>2, <2>1, QuietStep DEF Tick, auth, browser
<1>3. CASE CleanupExpired
  <2>1. Steady
    BY <1>1, <1>3 DEF CleanupExpired, Outdated, Steady, clock
  <2>. QED
    BY <1>3, <2>1, QuietStep DEF CleanupExpired, browser
<1>4. ASSUME NEW u \in Users, DeleteRefreshTokenBlacklist(u) \/ DeleteUserRow(u)
      PROVE  SessionsInv'
  <2>1. Steady
    BY <1>1, <1>4 DEF DeleteRefreshTokenBlacklist, DeleteUserRow, Steady, clock
  <2>. QED
    BY <1>4, <2>1, QuietStep DEF DeleteRefreshTokenBlacklist, DeleteUserRow, browser
<1>. QED
  BY <1>2, <1>3, <1>4
-----------------------------------------------------------------------------
LEMMA SessionsInvInit == Init => SessionsInv
<1>. SUFFICES ASSUME Init PROVE SessionsInv
  OBVIOUS
<1>1. pairs = << >> /\ pairs \in Seq(Pair) /\ Len(pairs) = 0 /\ DOMAIN pairs = {}
  BY EmptySeq DEF Init
<1>2. NoRequest \in Request /\ NoRequest.sent = 0 /\ NoRequest.pair = 0 /\ NoRequest.kind = "api"
      /\ NoRequest.refreshing = FALSE
  BY DEF NoRequest, Request, CallKind, Status
<1>. HIDE DEF NoRequest
<1>3. TypeInv
  BY <1>1, <1>2, SessionsAssumption DEF Init, TypeInv, Point
<1>4. CallsOK
  BY <1>1, <1>2 DEF Init, CallsOK, CallOK, Behind
<1>5. /\ ConsumedIsKept /\ RotatingHaveConsumed /\ OneRotates
      /\ ChildrenAreOfConsumed /\ RotatingHaveNoChild /\ RotatedOnce
  BY <1>1 DEF Init, ConsumedIsKept, RotatingHaveConsumed, OneRotates, Rotating,
              ChildrenAreOfConsumed, RotatingHaveNoChild, RotatedOnce
<1>. QED
  BY <1>3, <1>4, <1>5 DEF SessionsInv

LEMMA SessionsInvNext == SessionsInv /\ [Next]_vars => SessionsInv'
<1>. SUFFICES ASSUME SessionsInv, [Next]_vars PROVE SessionsInv'
  OBVIOUS
<1>1. CASE \E c \in Calls, t \in Tabs : Use(c, t)
  BY <1>1, UseStep
<1>2. CASE \E c \in Calls : Serve(c)
  BY <1>2, GatewayStep, AnsweringSteps, SigningSteps, RevokeStep, ConsumeStep DEF Serve
<1>3. CASE \E c \in Calls : Client(c)
  <2>1. PICK c \in Calls : Client(c)
    BY <1>3
  <2>2. CASE RefreshRefused(c)
    BY <2>2, GoToLoginStep DEF RefreshRefused, clock
  <2>. QED
    BY <2>1, <2>2, ClientSteps, RefreshedStep DEF Client
<1>4. CASE \E c \in Calls : Lose(c) \/ Fail(c)
  BY <1>4, LoseStep, AnsweringSteps
<1>5. CASE \/ Tick \/ CleanupExpired
           \/ \E u \in Users : DeleteRefreshTokenBlacklist(u) \/ DeleteUserRow(u)
  BY <1>5, SurroundingSteps
<1>6. CASE UNCHANGED vars
  <2>1. Steady /\ UNCHANGED <<pc, req, accounts, revokedAt, cookie>>
    BY <1>6 DEF vars, clock, auth, browser, Steady, SessionsInv, TypeInv
  <2>. QED
    BY <2>1, QuietStep
<1>. QED
  BY <1>1, <1>2, <1>3, <1>4, <1>5, <1>6 DEF Next

LEMMA SessionsInvariant == Spec => []SessionsInv
BY SessionsInvInit, SessionsInvNext, PTL DEF Spec

\* A refresh token is exchanged for one pair, whatever overlaps and is lost;
\* for a second one only after its expiry, or when its user is being erased.
THEOREM TokensAreRotatedOnce == Spec => []RotatedOnce
<1>1. SessionsInv => RotatedOnce
  BY DEF SessionsInv
<1>. QED
  BY <1>1, SessionsInvariant, PTL

\* No request that was sent after a revocation is let through with a pair of
\* an earlier second, unless the user was erased with the revocation.
THEOREM RevocationEndsAccess == Spec => []OldAccessEnds
<1>1. SessionsInv => OldAccessEnds
  BY DEF SessionsInv, CallsOK, CallOK, OldAccessEnds, Caller
<1>. QED
  BY <1>1, SessionsInvariant, PTL

\* A pair of the revocation's second or later is not taken for a revoked one,
\* at any resolution of the clock.
THEOREM FreshPairsPass == Spec => []FreshPairsAreAccepted
<1>1. SessionsInv => FreshPairsAreAccepted
  <2>. SUFFICES ASSUME SessionsInv, NEW p \in DOMAIN pairs, pairs[p].user \in accounts,
                       pairs[p].issued >= revokedAt[pairs[p].user]
                PROVE  ~ Revoked(p)
    BY DEF FreshPairsAreAccepted
  <2>1. pairs[p].issued \in Nat /\ revokedAt[pairs[p].user] \in Nat
    BY ExpiryType DEF SessionsInv, TypeInv, Pair
  <2>. QED
    BY <2>1, SecondsAreOrdered DEF Revoked
<1>. QED
  BY <1>1, SessionsInvariant, PTL
-----------------------------------------------------------------------------
(* One refresh of a tab at a time.                                         *)

\* The refresh that a tab's calls share is the one call's that runs it.
RefreshesLead ==
  /\ leader \in [Tabs -> Calls \cup {NoCall}]
  /\ \A c \in Calls : req[c].refreshing => leader[req[c].tab] = c

\* A pair on its way to the browser is known to no one else yet.
Undelivered(c, p) ==
  /\ p # cookie /\ takenBy[p] = NoTab
  /\ \A d \in Calls : req[d].sent # p /\ (d # c => req[d].pair # p)

PairsAreUndelivered == \A c \in Calls : req[c].pair # 0 => Undelivered(c, req[c].pair)

\* What a refresh was answered with: a pair, or that its token was consumed.
AnswersOK ==
  \A c \in Calls : pc[c] = "answer" =>
    /\ req[c].refreshing /\ req[c].status = "ok" => req[c].pair # 0
    /\ req[c].status = "replayed" => req[c].refreshing /\ req[c].sent # 0

\* The refresh that consumed the token in the cookies is about to replace it.
Succeeding(c) == pc[c] = "read" \/ (pc[c] = "answer" /\ req[c].status = "ok")

ReplacesCookie(c) == c \in Calls /\ req[c].refreshing /\ req[c].sent = cookie /\ Succeeding(c)

\* The refreshes whose token was not consumed by their own tab.
Fresh(c) ==
  \/ pc[c] \in {"refresh", "consume"} /\ req[c].sent # 0
  \/ pc[c] = "answer" /\ req[c].status = "replayed"

\* Without a lost answer, a server error or an erasure.
Faultless ==
  /\ accounts = Users
  /\ \A t \in Tabs : cookie # 0 /\ takenBy[cookie] = t => ReplacesCookie(leader[t])
  /\ \A c \in Calls : Fresh(c) => takenBy[req[c].sent] # req[c].tab

RefreshInv ==
  /\ faults \in Nat
  /\ RefreshesLead /\ PairsAreUndelivered /\ AnswersOK
  /\ faults = 0 => Faultless /\ forgotten = {}
-----------------------------------------------------------------------------
\* A step of one call that keeps its request, and may be answered with a new pair.
LEMMA MoveStep ==
  ASSUME SessionsInv, RefreshInv, NEW c \in Calls, NEW point, NEW r \in Request,
         pc' = [pc EXCEPT ![c] = point], req' = [req EXCEPT ![c] = r],
         r.tab = req[c].tab, r.sent = req[c].sent, r.refreshing = req[c].refreshing,
         \/ r.pair \in {0, req[c].pair}
         \/ r.pair = Len(pairs) + 1 /\ Len(pairs) < MaxPairs,
         UNCHANGED <<cookie, leader, takenBy, accounts, forgotten>>,
         faults' \in Nat, faults' = 0 => faults = 0,
         point = "answer" =>
           /\ r.refreshing /\ r.status = "ok" => r.pair # 0
           /\ r.status = "replayed" => r.refreshing /\ r.sent # 0,
         faults' = 0 => (Fresh(c)' => takenBy[r.sent] # r.tab),
         faults' = 0 /\ r.refreshing /\ Succeeding(c) => Succeeding(c)'
  PROVE  RefreshInv'
<1>1. /\ pc \in [Calls -> Point] /\ req \in [Calls -> Request]
      /\ pc'[c] = point /\ req'[c] = r
      /\ \A d \in Calls : d # c => pc'[d] = pc[d] /\ req'[d] = req[d]
  BY CallIs
<1>2. RefreshesLead'
  BY <1>1 DEF RefreshInv, RefreshesLead
<1>3. AnswersOK'
  BY <1>1 DEF RefreshInv, AnswersOK
<1>4. ASSUME NEW d \in Calls, req'[d].pair # 0 PROVE Undelivered(d, req[d].pair)'
  <2>1. CASE r.pair \in {0, req[c].pair}
    BY <1>1, <1>4, <2>1 DEF RefreshInv, PairsAreUndelivered, Undelivered
  <2>2. CASE r.pair = Len(pairs) + 1 /\ Len(pairs) < MaxPairs
    <3>. DEFINE n == Len(pairs) + 1
    <3>1. Len(pairs) \in Nat /\ DOMAIN pairs = 1..Len(pairs) /\ MaxPairs \in Nat
      BY Issued, SessionsAssumption DEF SessionsInv
    <3>2. n \in Jtis /\ n \notin DOMAIN pairs /\ n # 0
      BY <2>2, <3>1 DEF Jtis
    <3>3. n # cookie
      BY <3>1 DEF SessionsInv, TypeInv
    <3>4. takenBy[n] = NoTab
      BY <3>2 DEF SessionsInv, ConsumedIsKept
    <3>5. \A e \in Calls : req[e].sent # n /\ req[e].pair # n
      BY <1>1, <3>1 DEF SessionsInv, CallsOK, CallOK, Request
    <3>. HIDE DEF n
    <3>6. r.pair = n
      BY <2>2 DEF n
    <3>7. CASE d = c
      BY <1>1, <3>3, <3>4, <3>5, <3>6, <3>7 DEF Undelivered
    <3>8. CASE d # c
      BY <1>1, <1>4, <3>5, <3>6, <3>8 DEF Undelivered, RefreshInv, PairsAreUndelivered
    <3>. QED
      BY <3>7, <3>8
  <2>. QED
    BY <2>1, <2>2
<1>5. ASSUME faults' = 0 PROVE Faultless' /\ forgotten' = {}
  <2>1. Faultless /\ forgotten = {}
    BY <1>5 DEF RefreshInv
  <2>2. ASSUME NEW d, ReplacesCookie(d) PROVE ReplacesCookie(d)'
    BY <1>1, <1>5, <2>2 DEF ReplacesCookie, Succeeding
  <2>3. ASSUME NEW d \in Calls, Fresh(d)' PROVE takenBy'[req'[d].sent] # req'[d].tab
    BY <1>1, <1>5, <2>1, <2>3 DEF Faultless, Fresh
  <2>. QED
    BY <2>1, <2>2, <2>3 DEF Faultless
<1>. QED
  BY <1>2, <1>3, <1>4, <1>5 DEF RefreshInv, PairsAreUndelivered

\* A step that ends calls or sends them again, and delivers at most one pair.
LEMMA DeliveryStep ==
  ASSUME SessionsInv, RefreshInv,
         UNCHANGED <<takenBy, accounts, forgotten>>,
         faults' \in Nat, faults' = 0 => faults = 0,
         \A d \in Calls :
           \/ pc'[d] = pc[d] /\ req'[d] = req[d]
           \/ /\ pc'[d] \in {"idle", "gateway", "handle"}
              /\ req'[d].refreshing = FALSE /\ req'[d].pair = 0 /\ req'[d].sent \in {0, cookie'},
         RefreshesLead',
         \/ cookie' \in {0, cookie}
         \/ \E c \in Calls : cookie' = req[c].pair /\ req[c].pair # 0 /\ req'[c].pair = 0,
         faults' = 0 => \A t \in Tabs : cookie' = cookie /\ ReplacesCookie(leader[t]) =>
           /\ leader'[t] = leader[t]
           /\ pc'[leader[t]] = pc[leader[t]] /\ req'[leader[t]] = req[leader[t]]
  PROVE  RefreshInv'
<1>1. AnswersOK'
  BY DEF RefreshInv, AnswersOK
<1>2. ASSUME NEW d \in Calls, req'[d].pair # 0 PROVE Undelivered(d, req[d].pair)'
  <2>1. pc'[d] = pc[d] /\ req'[d] = req[d]
    BY <1>2
  <2>2. Undelivered(d, req[d].pair)
    BY <1>2, <2>1 DEF RefreshInv, PairsAreUndelivered
  <2>3. cookie' # req[d].pair
    BY <1>2, <2>1, <2>2 DEF Undelivered
  <2>. QED
    BY <1>2, <2>1, <2>2, <2>3 DEF Undelivered
<1>3. ASSUME faults' = 0 PROVE Faultless' /\ forgotten' = {}
  <2>1. Faultless /\ forgotten = {}
    BY <1>3 DEF RefreshInv
  <2>2. ASSUME NEW t \in Tabs, cookie' # 0, takenBy'[cookie'] = t PROVE ReplacesCookie(leader[t])'
    <3>1. cookie' = cookie
      BY <2>2, SessionsAssumption DEF RefreshInv, PairsAreUndelivered, Undelivered
    <3>2. ReplacesCookie(leader[t])
      BY <2>1, <2>2, <3>1 DEF Faultless
    <3>. QED
      BY <1>3, <3>1, <3>2 DEF ReplacesCookie, Succeeding
  <2>3. ASSUME NEW d \in Calls, Fresh(d)' PROVE takenBy'[req'[d].sent] # req'[d].tab
    BY <2>1, <2>3 DEF Faultless, Fresh
  <2>. QED
    BY <2>1, <2>2, <2>3 DEF Faultless
<1>. QED
  BY <1>1, <1>2, <1>3 DEF RefreshInv, PairsAreUndelivered

\* What the user asks for.
LEMMA UseRefreshes ==
  ASSUME SessionsInv, RefreshInv, NEW c \in Calls, NEW t \in Tabs, Use(c, t)
  PROVE  RefreshInv'
<1>1. PICK kind, u : Ask(c, t, kind, u)
  BY DEF Use, AskLogin, AskApi, AskPassword, AskAssume, AskRestore, AskLogout
<1>. DEFINE base == [NoRequest EXCEPT !.kind = kind, !.tab = t, !.named = u]
            r == Fetch(c, base)
<1>2. /\ pc[c] = "idle" /\ cookie' = cookie
      /\ pc' = [pc EXCEPT ![c] = IF kind = "login" THEN "handle" ELSE "gateway"]
      /\ req' = [req EXCEPT ![c] = r]
      /\ UNCHANGED <<leader, takenBy, accounts, forgotten, faults>>
  BY <1>1 DEF Ask, Goto, auth
<1>3. r.refreshing = FALSE /\ r.pair = 0 /\ r.sent = cookie'
  BY DEF Fetch, NoRequest
<1>. HIDE DEF r
<1>4. /\ pc'[c] \in {"idle", "gateway", "handle"} /\ req'[c] = r
      /\ \A d \in Calls : d # c => pc'[d] = pc[d] /\ req'[d] = req[d]
      /\ req[c].refreshing = FALSE
  BY <1>2, CallIs DEF CallOK, Request
<1>5. RefreshesLead'
  BY <1>2, <1>3, <1>4 DEF RefreshInv, RefreshesLead
<1>6. \A d : ReplacesCookie(d) => d # c
  BY <1>4 DEF ReplacesCookie
<1>7. \A d : ReplacesCookie(d) => d \in Calls
  BY DEF ReplacesCookie
<1>8. faults \in Nat
  BY DEF RefreshInv
<1>. QED
  BY <1>2, <1>3, <1>4, <1>5, <1>6, <1>7, <1>8, DeliveryStep

\* A call of another kind is answered or goes on.
LEMMA ServiceRefreshes ==
  ASSUME SessionsInv, RefreshInv, NEW c \in Calls,
         \/ Refuse(c) \/ Forbid(c) \/ Admit(c) \/ ServeApi(c) \/ Login(c) \/ ComparePassword(c)
         \/ ChangePassword(c) \/ RevokeAllUserTokens(c) \/ Reissue(c) \/ AssumeIdentity(c)
         \/ RestoreIdentity(c) \/ Logout(c)
  PROVE  RefreshInv'
<1>1. /\ pc[c] \in {"gateway", "handle", "compare", "revoke", "reissue"}
      /\ UNCHANGED <<cookie, leader, takenBy, accounts, forgotten, faults>>
      /\ \/ \E status \in {"ok", "unauthorized", "refused"} : Answer(c, status)
         \/ \E point \in {"handle", "compare", "revoke", "reissue"} : Goto(c, point) /\ req' = req
         \/ \E subject, actor : Sign(c, subject, actor)
  BY DEF Refuse, Forbid, Admit, ServeApi, Login, ComparePassword, ChangePassword,
         RevokeAllUserTokens, Reissue, AssumeIdentity, RestoreIdentity, Logout, clock, auth, browser
<1>2. /\ req[c] \in Request /\ req[c].refreshing = FALSE
      /\ pc \in [Calls -> Point] /\ req \in [Calls -> Request] /\ faults \in Nat
      /\ Len(pairs) \in Nat
  BY <1>1, CallIs, Issued DEF CallOK, Request, RefreshInv, SessionsInv
<1>3. ASSUME NEW status \in {"ok", "unauthorized", "refused"}, Answer(c, status) PROVE RefreshInv'
  <2>. DEFINE r == Answered(req[c], status, 0)
  <2>1. pc' = [pc EXCEPT ![c] = "answer"] /\ req' = [req EXCEPT ![c] = r]
    BY <1>3 DEF Answer, Goto, Answered
  <2>2. status \in Status
    BY DEF Status
  <2>3. /\ r \in Request /\ r.sent = req[c].sent /\ r.pair = 0 /\ r.tab = req[c].tab
        /\ r.refreshing = req[c].refreshing
    BY <1>2, <2>2, AnswersType
  <2>4. r.status = status
    BY <1>2 DEF Answered, Request
  <2>. HIDE DEF r
  <2>5. ~ Fresh(c)'
    BY <1>2, <2>1, <2>3, <2>4 DEF Fresh
  <2>. QED
    BY <1>1, <1>2, <2>1, <2>3, <2>4, <2>5, MoveStep
<1>4. ASSUME NEW point \in {"handle", "compare", "revoke", "reissue"}, Goto(c, point), req' = req
      PROVE  RefreshInv'
  <2>1. pc' = [pc EXCEPT ![c] = point] /\ req' = [req EXCEPT ![c] = req[c]]
    BY <1>2, <1>4 DEF Goto
  <2>2. ~ Fresh(c)'
    BY <1>2, <2>1 DEF Fresh
  <2>. QED
    BY <1>1, <1>2, <2>1, <2>2, MoveStep
<1>5. ASSUME NEW subject, NEW actor, Sign(c, subject, actor) PROVE RefreshInv'
  <2>. DEFINE n == Len(pairs) + 1
              r == Answered(req[c], "ok", n)
  <2>1. /\ pc' = [pc EXCEPT ![c] = "answer"] /\ req' = [req EXCEPT ![c] = r]
        /\ Len(pairs) < MaxPairs
    BY <1>5 DEF Sign, Goto, Answered
  <2>2. "ok" \in Status /\ n \in Nat
    BY <1>2 DEF Status
  <2>3. /\ r \in Request /\ r.sent = req[c].sent /\ r.pair = n /\ r.tab = req[c].tab
        /\ r.refreshing = req[c].refreshing
    BY <1>2, <2>2, AnswersType
  <2>4. r.status = "ok"
    BY <1>2 DEF Answered, Request
  <2>. HIDE DEF r
  <2>5. ~ Fresh(c)'
    BY <1>2, <2>1, <2>3, <2>4 DEF Fresh
  <2>. QED
    BY <1>1, <1>2, <2>1, <2>3, <2>4, <2>5, MoveStep
<1>. QED
  BY <1>1, <1>3, <1>4, <1>5

\* The refresh without the insert that consumes the token.
LEMMA HandlerRefreshes ==
  ASSUME SessionsInv, RefreshInv, NEW c \in Calls,
         \/ ValidateRefresh(c) \/ ReadUser(c) \/ Fail(c)
         \/ ConsumeToken(c) /\ pc' # [pc EXCEPT ![c] = "read"]
  PROVE  RefreshInv'
<1>1. /\ UNCHANGED <<cookie, leader, takenBy, accounts, forgotten>>
      /\ \/ faults' = faults
         \/ faults' = faults + 1 /\ \E status \in {"refused", "unauthorized"} : Answer(c, status)
  BY DEF ValidateRefresh, ReadUser, Fail, ConsumeToken, Goto, clock, auth, browser
<1>2. /\ req[c] \in Request /\ CallOK(pc[c], req[c])
      /\ pc \in [Calls -> Point] /\ req \in [Calls -> Request]
      /\ faults \in Nat /\ faults' \in Nat /\ (faults' = 0 => faults = 0 /\ faults' = faults)
      /\ Len(pairs) \in Nat
  BY <1>1, CallIs, Issued DEF RefreshInv, SessionsInv
<1>3. ASSUME NEW status \in {"unauthorized", "refused", "replayed"}, Answer(c, status),
             faults' = 0 => pc[c] \in {"refresh", "consume"},
             status = "replayed" => pc[c] = "consume"
      PROVE  RefreshInv'
  <2>. DEFINE r == Answered(req[c], status, 0)
  <2>1. pc' = [pc EXCEPT ![c] = "answer"] /\ req' = [req EXCEPT ![c] = r]
    BY <1>3 DEF Answer, Goto, Answered
  <2>2. status \in Status
    BY DEF Status
  <2>3. /\ r \in Request /\ r.sent = req[c].sent /\ r.pair = 0 /\ r.tab = req[c].tab
        /\ r.refreshing = req[c].refreshing
    BY <1>2, <2>2, AnswersType
  <2>4. r.status = status
    BY <1>2 DEF Answered, Request
  <2>. HIDE DEF r
  <2>5. faults' = 0 => (Fresh(c)' => takenBy[r.sent] # r.tab)
    <3>1. SUFFICES ASSUME faults' = 0, Fresh(c)' PROVE takenBy[r.sent] # r.tab
      OBVIOUS
    <3>2. pc[c] = "consume"
      BY <1>2, <1>3, <2>1, <2>3, <2>4, <3>1 DEF Fresh
    <3>3. Fresh(c)
      BY <1>2, <3>2 DEF Fresh, CallOK, Behind
    <3>. QED
      BY <1>2, <2>3, <3>1, <3>3 DEF RefreshInv, Faultless
  <2>6. faults' = 0 => ~ Succeeding(c)
    BY <1>3 DEF Succeeding
  <2>7. status = "replayed" => r.refreshing /\ r.sent # 0
    BY <1>2, <1>3, <2>3 DEF CallOK, Behind
  <2>. QED
    BY <1>1, <1>2, <2>1, <2>3, <2>4, <2>5, <2>6, <2>7, MoveStep
<1>4. CASE ValidateRefresh(c)
  <2>1. pc[c] = "refresh"
    BY <1>4 DEF ValidateRefresh
  <2>2. CASE Goto(c, "consume") /\ req' = req /\ RefreshValid(req[c].sent)
    <3>1. pc' = [pc EXCEPT ![c] = "consume"] /\ req' = [req EXCEPT ![c] = req[c]]
      BY <1>2, <2>2 DEF Goto
    <3>2. Fresh(c) /\ ~ Succeeding(c)
      BY <2>1, <2>2 DEF Fresh, RefreshValid, Succeeding
    <3>3. faults' = 0 => takenBy[req[c].sent] # req[c].tab
      BY <1>2, <3>2 DEF RefreshInv, Faultless
    <3>. QED
      BY <1>1, <1>2, <3>1, <3>2, <3>3, MoveStep
  <2>. QED
    BY <1>3, <1>4, <2>1, <2>2 DEF ValidateRefresh
<1>5. CASE ReadUser(c)
  <2>1. pc[c] = "read" /\ faults' = faults
    BY <1>5 DEF ReadUser, clock
  <2>2. CASE Sign(c, Caller(c), NoUser)
    <3>. DEFINE n == Len(pairs) + 1
                r == Answered(req[c], "ok", n)
    <3>1. /\ pc' = [pc EXCEPT ![c] = "answer"] /\ req' = [req EXCEPT ![c] = r]
          /\ Len(pairs) < MaxPairs
      BY <2>2 DEF Sign, Goto, Answered
    <3>2. "ok" \in Status /\ n \in Nat /\ n # 0
      BY <1>2 DEF Status
    <3>3. /\ r \in Request /\ r.sent = req[c].sent /\ r.pair = n /\ r.tab = req[c].tab
          /\ r.refreshing = req[c].refreshing
      BY <1>2, <3>2, AnswersType
    <3>4. r.status = "ok"
      BY <1>2 DEF Answered, Request
    <3>. HIDE DEF r
    <3>5. ~ Fresh(c)' /\ Succeeding(c)'
      BY <1>2, <3>1, <3>4 DEF Fresh, Succeeding
    <3>. QED
      BY <1>1, <1>2, <3>1, <3>2, <3>3, <3>4, <3>5, MoveStep
  <2>3. CASE Answer(c, "unauthorized") /\ Caller(c) \notin accounts
    <3>1. Caller(c) \in Users
      <4>1. req[c].sent \in DOMAIN pairs
        BY <1>2, <2>1, CallIs DEF CallOK, Behind
      <4>. QED
        BY <4>1, ExpiryType DEF SessionsInv, Caller, Pair
    <3>2. faults' # 0
      BY <2>1, <2>3, <3>1 DEF RefreshInv, Faultless
    <3>. QED
      BY <1>3, <2>3, <3>2
  <2>. QED
    BY <1>5, <2>2, <2>3 DEF ReadUser
<1>6. CASE Fail(c)
  <2>1. faults' # 0
    BY <1>2, <1>6 DEF Fail
  <2>2. Answer(c, "refused") \/ Answer(c, "unauthorized")
    BY <1>6 DEF Fail
  <2>. QED
    BY <1>3, <2>1, <2>2
<1>7. CASE ConsumeToken(c) /\ pc' # [pc EXCEPT ![c] = "read"]
  <2>1. pc[c] = "consume" /\ (Answer(c, "refused") \/ Answer(c, "replayed"))
    BY <1>7 DEF ConsumeToken, Goto
  <2>. QED
    BY <1>3, <2>1
<1>. QED
  BY <1>4, <1>5, <1>6, <1>7

\* ConsumeToken: the token is taken by the tab whose refresh this is.
LEMMA ConsumeRefreshes ==
  ASSUME SessionsInv, RefreshInv, NEW c \in Calls, ConsumeToken(c), pc' = [pc EXCEPT ![c] = "read"]
  PROVE  RefreshInv'
<1>. DEFINE p == req[c].sent
            t == req[c].tab
<1>1. /\ pc[c] = "consume" /\ UNCHANGED <<cookie, leader, accounts, forgotten, faults>>
      /\ pc \in [Calls -> Point]
  BY CallIs DEF ConsumeToken, clock, browser
<1>2. pc'[c] = "read" /\ \A d \in Calls : d # c => pc'[d] = pc[d]
  BY <1>1
<1>3. takenBy' = [takenBy EXCEPT ![p] = t] /\ req' = req
  BY <1>2 DEF ConsumeToken, Answer, Goto
<1>4. /\ p \in Jtis /\ p # 0 /\ t \in Tabs /\ req[c].refreshing /\ req[c] \in Request
      /\ takenBy \in [Jtis -> Tabs \cup {NoTab}]
  BY <1>1, CallIs, Issued DEF CallOK, Behind, SessionsInv, TypeInv
<1>5. takenBy'[p] = t /\ \A q \in Jtis : q # p => takenBy'[q] = takenBy[q]
  BY <1>3, <1>4
<1>6. leader[t] = c /\ \A d \in Calls : d # c /\ req[d].refreshing => req[d].tab # t
  BY <1>4 DEF RefreshInv, RefreshesLead
<1>7. RefreshesLead' /\ AnswersOK'
  BY <1>1, <1>2, <1>3 DEF RefreshInv, RefreshesLead, AnswersOK
<1>8. ASSUME NEW d \in Calls, req'[d].pair # 0 PROVE Undelivered(d, req[d].pair)'
  <2>1. Undelivered(d, req[d].pair)
    BY <1>3, <1>8 DEF RefreshInv, PairsAreUndelivered
  <2>2. req[d].pair # p
    BY <2>1 DEF Undelivered
  <2>3. takenBy'[req[d].pair] = takenBy[req[d].pair]
    BY <1>3, <2>2, <1>4, SessionsAssumption
  <2>. QED
    BY <1>1, <1>3, <2>1, <2>3 DEF Undelivered
<1>9. ASSUME faults = 0 PROVE Faultless'
  <2>1. Faultless
    BY <1>9 DEF RefreshInv
  <2>2. ASSUME NEW u \in Tabs, cookie' # 0, takenBy'[cookie'] = u PROVE ReplacesCookie(leader[u])'
    <3>1. CASE cookie = p
      BY <1>1, <1>2, <1>3, <1>4, <1>5, <1>6, <2>2, <3>1 DEF ReplacesCookie, Succeeding
    <3>2. CASE cookie # p
      <4>1. takenBy[cookie] = u
        BY <1>1, <1>3, <1>4, <2>2, <3>2
      <4>2. ReplacesCookie(leader[u]) /\ leader[u] # c
        BY <1>1, <2>1, <2>2, <3>2, <4>1 DEF Faultless, ReplacesCookie
      <4>. QED
        BY <1>1, <1>2, <1>3, <4>2 DEF ReplacesCookie, Succeeding
    <3>. QED
      BY <3>1, <3>2
  <2>3. ASSUME NEW d \in Calls, Fresh(d)' PROVE takenBy'[req'[d].sent] # req'[d].tab
    <3>1. d # c
      BY <1>2, <2>3 DEF Fresh
    <3>2. Fresh(d)
      BY <1>2, <1>3, <2>3, <3>1 DEF Fresh
    <3>3. takenBy[req[d].sent] # req[d].tab
      BY <2>1, <3>2 DEF Faultless
    <3>4. req[d].refreshing
      BY <3>2, CallIs DEF Fresh, CallOK, RefreshInv, AnswersOK
    <3>5. req[d].tab # t
      BY <1>6, <3>1, <3>4
    <3>. QED
      BY <1>3, <1>4, <3>3, <3>5
  <2>. QED
    BY <1>1, <2>1, <2>2, <2>3 DEF Faultless
<1>. QED
  BY <1>1, <1>3, <1>7, <1>8, <1>9 DEF RefreshInv, PairsAreUndelivered

\* A response is delivered, or the call waits for the refresh of its tab.
LEMMA ReceiveRefreshes ==
  ASSUME SessionsInv, RefreshInv, NEW c \in Calls, Receive(c) \/ AwaitRefresh(c)
  PROVE  RefreshInv'
<1>1. /\ pc[c] = "answer" /\ req[c].refreshing = FALSE /\ req[c] \in Request
      /\ UNCHANGED <<takenBy, accounts, forgotten, faults, leader>> /\ faults \in Nat
      /\ pc \in [Calls -> Point] /\ req \in [Calls -> Request]
  BY CallIs DEF Receive, AwaitRefresh, clock, auth, browser, Request, RefreshInv
<1>2. CASE Receive(c)
  <2>1. /\ pc' = [pc EXCEPT ![c] = "idle"] /\ req' = [req EXCEPT ![c] = NoRequest]
        /\ cookie' = CookieAfter(c)
    BY <1>2 DEF Receive, Done
  <2>2. NoRequest.refreshing = FALSE /\ NoRequest.pair = 0 /\ NoRequest.sent = 0
    BY DEF NoRequest
  <2>. HIDE DEF NoRequest
  <2>3. /\ pc'[c] = "idle" /\ req'[c] = NoRequest
        /\ \A d \in Calls : d # c => pc'[d] = pc[d] /\ req'[d] = req[d]
    BY <1>1, <2>1
  <2>4. cookie' \in {0, cookie} \/ (cookie' = req[c].pair /\ req[c].pair # 0 /\ req'[c].pair = 0)
    BY <2>1, <2>2, <2>3 DEF CookieAfter
  <2>5. RefreshesLead'
    BY <1>1, <2>2, <2>3 DEF RefreshInv, RefreshesLead
  <2>6. \A d : ReplacesCookie(d) => d # c /\ d \in Calls
    BY <1>1 DEF ReplacesCookie
  <2>. QED
    BY <1>1, <2>2, <2>3, <2>4, <2>5, <2>6, DeliveryStep
<1>3. CASE AwaitRefresh(c)
  <2>1. /\ pc' = [pc EXCEPT ![c] = "waiting"] /\ req' = [req EXCEPT ![c] = req[c]] /\ cookie' = cookie
    BY <1>1, <1>3 DEF AwaitRefresh, Goto, browser
  <2>2. ~ Fresh(c)'
    BY <1>1, <2>1 DEF Fresh
  <2>. QED
    BY <1>1, <2>1, <2>2, MoveStep
<1>. QED
  BY <1>2, <1>3

\* refreshTokens: no refresh of the tab runs, so none of its refreshes has consumed
\* the token in the cookies.
LEMMA StartRefreshes ==
  ASSUME SessionsInv, RefreshInv, NEW c \in Calls, StartRefresh(c)
  PROVE  RefreshInv'
<1>. DEFINE f == Fetch(c, req[c])
            r == [f EXCEPT !.refreshing = TRUE]
            t == req[c].tab
<1>1. /\ pc[c] = "answer" /\ req[c].refreshing = FALSE /\ req[c] \in Request /\ t \in Tabs
      /\ UNCHANGED <<takenBy, accounts, forgotten, faults, cookie>> /\ faults \in Nat
      /\ pc \in [Calls -> Point] /\ req \in [Calls -> Request]
      /\ leader[t] = NoCall /\ leader' = [leader EXCEPT ![t] = c]
      /\ pc' = [pc EXCEPT ![c] = "refresh"] /\ req' = [req EXCEPT ![c] = r]
      /\ cookie \in 0..Len(pairs) /\ leader \in [Tabs -> Calls \cup {NoCall}]
  BY CallIs DEF StartRefresh, RefreshInFlight, Goto, CallOK, clock, auth, Request, RefreshInv,
                RefreshesLead
<1>2. f \in Request /\ f.sent = cookie /\ f.pair = 0 /\ f.tab = t
  BY <1>1, FetchIs
<1>. HIDE DEF f
<1>3. r.sent = cookie /\ r.pair = 0 /\ r.tab = t /\ r.refreshing = TRUE
  BY <1>2 DEF Request
<1>. HIDE DEF r
<1>4. /\ pc'[c] = "refresh" /\ req'[c] = r
      /\ \A d \in Calls : d # c => pc'[d] = pc[d] /\ req'[d] = req[d]
      /\ leader'[t] = c /\ \A u \in Tabs : u # t => leader'[u] = leader[u]
  BY <1>1
<1>5. \A d \in Calls : req[d].refreshing => req[d].tab # t
  BY <1>1, SessionsAssumption DEF RefreshInv, RefreshesLead
<1>6. \A d \in Calls : req[d].refreshing => req[d].tab \in Tabs
  BY CallIs DEF CallOK
<1>7. RefreshesLead'
  BY <1>1, <1>3, <1>4, <1>5, <1>6 DEF RefreshInv, RefreshesLead
<1>8. AnswersOK'
  BY <1>4 DEF RefreshInv, AnswersOK
<1>9. PairsAreUndelivered'
  BY <1>1, <1>3, <1>4 DEF RefreshInv, PairsAreUndelivered, Undelivered
<1>10. ASSUME faults = 0 PROVE Faultless'
  <2>1. Faultless
    BY <1>10 DEF RefreshInv
  <2>2. cookie # 0 => takenBy[cookie] # t
    BY <1>1, <2>1, SessionsAssumption DEF Faultless, ReplacesCookie
  <2>3. ASSUME NEW u \in Tabs, cookie' # 0, takenBy'[cookie'] = u PROVE ReplacesCookie(leader[u])'
    <3>1. u # t /\ ReplacesCookie(leader[u])
      BY <1>1, <2>1, <2>2, <2>3 DEF Faultless
    <3>2. leader[u] # c /\ leader[u] \in Calls /\ leader'[u] = leader[u]
      BY <1>1, <1>4, <3>1 DEF ReplacesCookie
    <3>. QED
      BY <1>1, <1>4, <3>1, <3>2 DEF ReplacesCookie, Succeeding
  <2>4. ASSUME NEW d \in Calls, Fresh(d)' PROVE takenBy'[req'[d].sent] # req'[d].tab
    <3>1. CASE d = c
      BY <1>1, <1>3, <1>4, <2>2, <2>4, <3>1 DEF Fresh
    <3>2. CASE d # c
      BY <1>1, <1>4, <2>1, <2>4, <3>2 DEF Fresh, Faultless
    <3>. QED
      BY <3>1, <3>2
  <2>. QED
    BY <1>1, <2>1, <2>3, <2>4 DEF Faultless
<1>. QED
  BY <1>1, <1>7, <1>8, <1>9, <1>10 DEF RefreshInv

\* The end of a refresh, with new cookies or at the login page; a lost answer.
LEMMA EndRefreshes ==
  ASSUME SessionsInv, RefreshInv, NEW c \in Calls, Refreshed(c) \/ RefreshRefused(c) \/ Lose(c)
  PROVE  RefreshInv'
<1>1. /\ pc[c] = "answer" /\ req[c] \in Request /\ req[c].tab \in Tabs
      /\ UNCHANGED <<takenBy, accounts, forgotten>>
      /\ faults' \in Nat /\ (faults' = 0 => faults = 0)
      /\ pc \in [Calls -> Point] /\ req \in [Calls -> Request]
      /\ leader \in [Tabs -> Calls \cup {NoCall}]
  <2>1. pc[c] = "answer" /\ UNCHANGED <<takenBy, accounts, forgotten>>
    BY DEF Refreshed, RefreshRefused, Lose, GoToLogin, auth
  <2>2. faults' = faults \/ faults' = faults + 1
    BY DEF Refreshed, RefreshRefused, Lose, clock
  <2>3. faults \in Nat /\ leader \in [Tabs -> Calls \cup {NoCall}]
    BY DEF RefreshInv, RefreshesLead
  <2>. QED
    BY <2>1, <2>2, <2>3, CallIs DEF CallOK
<1>2. NoRequest.refreshing = FALSE /\ NoRequest.pair = 0 /\ NoRequest.sent = 0
  BY DEF NoRequest
<1>. HIDE DEF NoRequest
<1>3. ASSUME req[c].refreshing,
             leader' = [leader EXCEPT ![req[c].tab] = NoCall],
             \A d \in Calls :
               IF d \in Sharers(c)
               THEN /\ pc'[d] \in {"idle", "gateway"}
                    /\ req'[d].refreshing = FALSE /\ req'[d].pair = 0 /\ req'[d].sent \in {0, cookie'}
               ELSE pc'[d] = pc[d] /\ req'[d] = req[d],
             \/ cookie' = cookie /\ (faults' = 0 => req[c].status # "ok")
             \/ cookie' = req[c].pair /\ req[c].pair # 0
      PROVE  RefreshInv'
  <2>1. leader[req[c].tab] = c /\ c \in Sharers(c)
    BY <1>3 DEF RefreshInv, RefreshesLead, Sharers
  <2>2. \A d \in Sharers(c) : d = c \/ (d \in Calls /\ req[d].refreshing = FALSE)
    BY CallIs DEF Sharers, CallOK, Request
  <2>3. RefreshesLead'
    <3>1. leader' \in [Tabs -> Calls \cup {NoCall}]
      BY <1>1, <1>3
    <3>2. ASSUME NEW d \in Calls, req'[d].refreshing PROVE leader'[req'[d].tab] = d
      <4>1. d \notin Sharers(c) /\ req'[d] = req[d]
        BY <1>3, <3>2
      <4>2. leader[req[d].tab] = d /\ d # c
        BY <2>1, <3>2, <4>1 DEF RefreshInv, RefreshesLead
      <4>3. req[d].tab # req[c].tab
        BY <2>1, <4>2
      <4>. QED
        BY <1>1, <1>3, <4>1, <4>2, <4>3, CallIs DEF CallOK
    <3>. QED
      BY <3>1, <3>2 DEF RefreshesLead
  <2>4. ASSUME faults' = 0, NEW t \in Tabs, cookie' = cookie, ReplacesCookie(leader[t])
        PROVE  /\ leader'[t] = leader[t]
               /\ pc'[leader[t]] = pc[leader[t]] /\ req'[leader[t]] = req[leader[t]]
    <3>1. cookie' # req[c].pair \/ req[c].pair = 0
      BY <2>4 DEF RefreshInv, PairsAreUndelivered, Undelivered
    <3>2. req[c].status # "ok"
      BY <1>3, <2>4, <3>1
    <3>3. leader[t] # c /\ leader[t] \in Calls /\ req[leader[t]].refreshing
      BY <1>1, <2>4, <3>2 DEF ReplacesCookie, Succeeding
    <3>4. leader[t] \notin Sharers(c) /\ t # req[c].tab
      BY <2>1, <2>2, <3>3
    <3>. QED
      BY <1>1, <1>3, <3>3, <3>4
  <2>5. cookie' \in {0, cookie} \/ (cookie' = req[c].pair /\ req[c].pair # 0 /\ req'[c].pair = 0)
    BY <1>3, <2>1
  <2>. QED
    BY <1>1, <1>3, <2>3, <2>4, <2>5, DeliveryStep
<1>4. CASE Refreshed(c)
  <2>1. req[c].refreshing /\ req[c].status = "ok" /\ req[c].pair # 0
    BY <1>1, <1>4 DEF Refreshed, RefreshInv, AnswersOK
  <2>2. cookie' = req[c].pair
    BY <1>4, <2>1 DEF Refreshed, CookieAfter
  <2>. DEFINE again(d) == [Fetch(d, req[d]) EXCEPT !.retried = TRUE]
  <2>3. \A d : again(d).refreshing = FALSE /\ again(d).pair = 0 /\ again(d).sent = cookie'
    <3>. TAKE d
    <3>1. req[d] \in Request \/ d \notin Calls
      BY CallIs
    <3>. QED
      BY DEF Fetch
  <2>4. /\ leader' = [leader EXCEPT ![req[c].tab] = NoCall]
        /\ pc' = [d \in Calls |-> IF d \in Sharers(c) THEN "gateway" ELSE pc[d]]
        /\ req' = [d \in Calls |-> IF d \in Sharers(c) THEN again(d) ELSE req[d]]
    BY <1>4 DEF Refreshed
  <2>. HIDE DEF again
  <2>. QED
    BY <1>3, <2>1, <2>2, <2>3, <2>4
<1>5. ASSUME req[c].refreshing, GoToLogin(c), faults' = 0 => req[c].status # "ok" PROVE RefreshInv'
  <2>1. /\ leader' = [leader EXCEPT ![req[c].tab] = NoCall] /\ cookie' = cookie
        /\ pc' = [d \in Calls |-> IF d \in Sharers(c) THEN "idle" ELSE pc[d]]
        /\ req' = [d \in Calls |-> IF d \in Sharers(c) THEN NoRequest ELSE req[d]]
    BY <1>5 DEF GoToLogin
  <2>. QED
    BY <1>2, <1>3, <1>5, <2>1
<1>6. CASE RefreshRefused(c)
  BY <1>5, <1>6 DEF RefreshRefused
<1>7. CASE Lose(c)
  <2>1. faults' # 0
    BY <1>7 DEF Lose, RefreshInv
  <2>2. CASE ~ req[c].refreshing /\ Done(c) /\ UNCHANGED browser
    <3>1. /\ pc'[c] = "idle" /\ req'[c] = NoRequest /\ UNCHANGED <<cookie, leader>>
          /\ \A d \in Calls : d # c => pc'[d] = pc[d] /\ req'[d] = req[d]
      BY <1>1, <2>2 DEF Done, browser
    <3>2. RefreshesLead'
      BY <1>2, <3>1 DEF RefreshInv, RefreshesLead
    <3>. QED
      BY <1>1, <1>2, <2>1, <3>1, <3>2, DeliveryStep
  <2>. QED
    BY <1>5, <1>7, <2>1, <2>2 DEF Lose
<1>. QED
  BY <1>4, <1>6, <1>7

\* Every step: a user is erased only after a fault.
LEMMA RefreshInvNext == SessionsInv /\ RefreshInv /\ [Next]_vars => RefreshInv'
<1>. SUFFICES ASSUME SessionsInv, RefreshInv, [Next]_vars PROVE RefreshInv'
  OBVIOUS
<1>1. CASE \E c \in Calls, t \in Tabs : Use(c, t)
  BY <1>1, UseRefreshes
<1>2. CASE \E c \in Calls : Serve(c)
  BY <1>2, ServiceRefreshes, HandlerRefreshes, ConsumeRefreshes DEF Serve
<1>3. CASE \E c \in Calls : Client(c) \/ Lose(c) \/ Fail(c)
  BY <1>3, ReceiveRefreshes, StartRefreshes, EndRefreshes, HandlerRefreshes DEF Client
<1>4. ASSUME UNCHANGED <<cookie, leader, pc, req, takenBy>>,
             faults' \in Nat, faults' = 0 => faults = 0 /\ UNCHANGED <<accounts, forgotten>>
      PROVE  RefreshInv'
  BY <1>4 DEF RefreshInv, RefreshesLead, PairsAreUndelivered, Undelivered, AnswersOK, Faultless,
              ReplacesCookie, Succeeding, Fresh
<1>5. faults \in Nat
  BY DEF RefreshInv
<1>6. CASE Tick \/ CleanupExpired \/ UNCHANGED vars
  BY <1>4, <1>5, <1>6 DEF Tick, CleanupExpired, vars, clock, auth, browser
<1>7. ASSUME NEW u \in Users, DeleteRefreshTokenBlacklist(u) PROVE RefreshInv'
  BY <1>4, <1>5, <1>7 DEF DeleteRefreshTokenBlacklist, browser
<1>8. ASSUME NEW u \in Users, DeleteUserRow(u) PROVE RefreshInv'
  <2>1. faults # 0
    BY <1>8 DEF DeleteUserRow, RefreshInv
  <2>. QED
    BY <1>4, <1>5, <1>8, <2>1 DEF DeleteUserRow, clock, browser
<1>. QED
  BY <1>1, <1>2, <1>3, <1>6, <1>7, <1>8 DEF Next

\* The calls of a tab share one refresh: while no answer is lost, nothing fails and
\* no one is erased, a refresh whose token was consumed already had it consumed by
\* another tab or by a logout, never by its own tab.
THEOREM TabsDoNotRaceThemselves == Spec => []RefreshesDoNotCollide
<1>1. Init => RefreshInv
  BY SessionsAssumption
  DEF Init, RefreshInv, RefreshesLead, PairsAreUndelivered, AnswersOK, Faultless, Fresh, NoRequest
<1>2. RefreshInv => RefreshesDoNotCollide
  BY DEF RefreshInv, Faultless, Fresh, RefreshesDoNotCollide
<1>. QED
  BY <1>1, <1>2, RefreshInvNext, SessionsInvariant, PTL DEF Spec
=============================================================================

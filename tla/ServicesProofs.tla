--------------------------- MODULE ServicesProofs ---------------------------
(***************************************************************************)
(* Proofs about the parts that Services composes: the immudb session, the  *)
(* cache of rates, the arithmetic of a conversion, an export with its      *)
(* stream, the stored scores, the pages of listings, the dashboard's       *)
(* figures, the score of a month, and the gateway.  Each part is reached   *)
(* through its instance, so that what is proved is said of the composition *)
(* that TLC checks.                                                        *)
(***************************************************************************)
EXTENDS Services, SequenceTheorems, FiniteLemmas

\* A step of one part leaves the variables of the others alone.
LEMMA OnlyOnePart ==
  ASSUME [Next]_vars
  PROVE  /\ E!Next \/ UNCHANGED exportVars
         /\ I!Next \/ UNCHANGED immudbVars
         /\ R!Next \/ UNCHANGED fxVars
         /\ S!Next \/ UNCHANGED scoreVars
<1>1. CASE Next
  BY <1>1 DEF Next, ExportStep, ImmudbStep, FxStep, StoredScoreStep, Choose
<1>2. CASE UNCHANGED vars
  BY <1>2 DEF vars, exportVars, immudbVars, fxVars, scoreVars
<1>. QED
  BY <1>1, <1>2
-----------------------------------------------------------------------------
(* The session that the statements share.                                  *)

Use == [client : Nat, generation : Nat]

SessionTypeInv ==
  /\ opened \in Nat /\ client \in Nat /\ generation \in Nat
  /\ losses \in Nat /\ failures \in Nat
  /\ DOMAIN pc = Statements
  /\ seen \in [Statements -> Use]

\* No fault but the loss of one session.
Calm == failures = 0 /\ losses <= 1 /\ ~ hasty

First == [client |-> 1, generation |-> 0]

Living ==
  /\ losses = 0 /\ alive = {1} /\ closed = {} /\ opened = 1
  /\ client = 1 /\ generation = 0 /\ holder = 0
  /\ \A q \in Statements : /\ pc[q] \in {"idle", "call", "ok"}
                           /\ pc[q] = "call" => seen[q] = First

\* Who holds the mutex has closed the client.
Lost ==
  /\ losses = 1 /\ alive = {} /\ closed = (IF holder = 0 THEN {} ELSE {1}) /\ opened = 1
  /\ client = 1 /\ generation = 0
  /\ \A q \in Statements : /\ pc[q] \in {"idle", "call", "ok", "lock", "refused"}
                           /\ pc[q] \in {"call", "lock", "refused"} => seen[q] = First
                           /\ holder = q => pc[q] = "lock"

Replaced ==
  /\ losses = 1 /\ alive = {2} /\ closed = {1} /\ opened = 2
  /\ client = 2 /\ generation = 1 /\ holder = 0
  /\ \A q \in Statements : /\ pc[q] \in {"idle", "call", "ok", "lock", "retry", "refused"}
                           /\ pc[q] \in {"lock", "refused"} => seen[q].generation = 0
                           /\ pc[q] = "call" => seen[q] \in {First, [client |-> 2, generation |-> 1]}
                           /\ pc[q] = "retry" => seen[q].client = 2

SessionInv == SessionTypeInv /\ (Calm => Living \/ Lost \/ Replaced)
-----------------------------------------------------------------------------
\* The client with the session that was opened first.
LEMMA SessionInvInit == I!Init => SessionInv
BY DEF I!Init, SessionInv, SessionTypeInv, Use, Living, First

\* A statement that takes the client of the moment, and its call.
LEMMA CallSteps ==
  ASSUME SessionInv, NEW q \in Statements, I!Begin(q) \/ I!Call(q) \/ I!CallAgain(q)
  PROVE  SessionInv'
<1>1. DOMAIN pc = Statements /\ seen \in [Statements -> Use]
  BY DEF SessionInv, SessionTypeInv
<1>2. SessionTypeInv'
  BY DEF SessionInv, SessionTypeInv, Use, I!Begin, I!Call, I!CallAgain
<1>3. UNCHANGED <<alive, closed, opened, client, generation, holder, losses, failures, hasty>>
  BY DEF I!Begin, I!Call, I!CallAgain
<1>4. Calm' = Calm
  BY <1>3 DEF Calm
<1>5. CASE I!Begin(q)
  <2>1. /\ pc' = [pc EXCEPT ![q] = "call"] /\ holder = 0
        /\ seen' = [seen EXCEPT ![q] = [client |-> client, generation |-> generation]]
    BY <1>5 DEF I!Begin
  <2>2. Living => Living'
    BY <1>1, <1>3, <2>1 DEF Living, First
  <2>3. Lost => Lost'
    BY <1>1, <1>3, <1>5, <2>1 DEF Lost, First, I!Begin
  <2>4. Replaced => Replaced'
    BY <1>1, <1>3, <2>1 DEF Replaced
  <2>. QED
    BY <1>2, <1>4, <2>2, <2>3, <2>4 DEF SessionInv
<1>6. CASE I!Call(q)
  <2>1. /\ pc[q] = "call" /\ seen' = seen
        /\ pc' = [pc EXCEPT ![q] = I!Outcome(seen[q].client)]
    BY <1>6 DEF I!Call
  <2>2. Living => Living'
    <3>1. Living => I!Outcome(seen[q].client) = "ok"
      BY <2>1 DEF Living, First, I!Outcome
    <3>. QED
      BY <1>1, <1>3, <2>1, <3>1 DEF Living
  <2>3. Lost => Lost'
    <3>1. Lost => I!Outcome(seen[q].client) \in {"lock", "refused"} /\ (holder # q)
      BY <2>1 DEF Lost, I!Outcome
    <3>. QED
      BY <1>1, <1>3, <2>1, <3>1 DEF Lost
  <2>4. Replaced => Replaced'
    <3>1. Replaced /\ seen[q] = First => I!Outcome(seen[q].client) = "refused"
      BY DEF Replaced, First, I!Outcome
    <3>2. Replaced /\ seen[q] # First => I!Outcome(seen[q].client) = "ok"
      BY <2>1 DEF Replaced, I!Outcome
    <3>. QED
      BY <1>1, <1>3, <2>1, <3>1, <3>2 DEF Replaced, First
  <2>. QED
    BY <1>2, <1>4, <2>2, <2>3, <2>4 DEF SessionInv
<1>7. CASE I!CallAgain(q)
  <2>1. /\ pc[q] = "retry" /\ seen' = seen
        /\ pc' = [pc EXCEPT ![q] = IF seen[q].client \in alive THEN "ok" ELSE "error"]
    BY <1>7 DEF I!CallAgain
  <2>2. ~ Living /\ ~ Lost
    BY <2>1 DEF Living, Lost
  <2>3. Replaced => Replaced'
    BY <1>1, <1>3, <2>1 DEF Replaced
  <2>. QED
    BY <1>2, <1>4, <2>2, <2>3 DEF SessionInv
<1>. QED
  BY <1>5, <1>6, <1>7

\* An opening that succeeds, for whoever holds the mutex of a lost session.
LEMMA OpenAfterLoss ==
  ASSUME Lost, SessionTypeInv, I!Open, holder # 0, losses' = losses, NEW q,
         \/ q \in Statements /\ I!Retry(q)
         \/ UNCHANGED <<pc, seen>>
  PROVE  Replaced'
<1>1. DOMAIN pc = Statements /\ seen \in [Statements -> Use]
  BY DEF SessionTypeInv
<1>2. /\ opened' = 2 /\ alive' = {2} /\ client' = 2 /\ generation' = 1 /\ holder' = 0
      /\ losses' = 1 /\ closed' = {1}
  BY DEF Lost, I!Open
<1>3. CASE UNCHANGED <<pc, seen>>
  BY <1>2, <1>3 DEF Lost, Replaced, First
<1>4. CASE q \in Statements /\ I!Retry(q)
  <2>1. pc' = [pc EXCEPT ![q] = "retry"] /\ seen' = [seen EXCEPT ![q].client = client']
    BY <1>4 DEF I!Retry
  <2>2. /\ pc'[q] = "retry" /\ seen'[q].client = 2
        /\ \A p \in Statements \ {q} : pc'[p] = pc[p] /\ seen'[p] = seen[p]
    BY <1>1, <1>2, <1>4, <2>1 DEF Use
  <2>. QED
    BY <1>2, <2>2 DEF Lost, Replaced, First
<1>. QED
  BY <1>3, <1>4

\* reconnectLocked for a statement: it skips the session that replaced its own,
\* and closes and replaces only the one that was lost.
LEMMA ReconnectSteps ==
  ASSUME SessionInv, NEW q \in Statements,
         I!SkipReconnect(q) \/ I!StartReconnect(q) \/ I!FinishReconnect(q)
  PROVE  SessionInv'
<1>1. /\ DOMAIN pc = Statements /\ seen \in [Statements -> Use]
      /\ opened \in Nat /\ client \in Nat /\ generation \in Nat /\ losses \in Nat /\ failures \in Nat
      /\ q # 0
  BY ImmudbAssumption DEF SessionInv, SessionTypeInv
<1>2. CASE I!SkipReconnect(q)
  <2>1. /\ pc[q] = "lock" /\ generation # seen[q].generation
        /\ pc' = [pc EXCEPT ![q] = "retry"] /\ seen' = [seen EXCEPT ![q].client = client]
        /\ UNCHANGED <<alive, closed, opened, client, generation, holder, losses, failures, hasty>>
    BY <1>2 DEF I!SkipReconnect, I!AlreadyReconnected, I!Retry
  <2>2. SessionTypeInv' /\ Calm' = Calm
    BY <1>1, <2>1 DEF SessionTypeInv, Use, Calm
  <2>3. ~ Living /\ ~ Lost
    BY <2>1 DEF Living, Lost, First
  <2>4. Replaced => Replaced'
    <3>1. /\ pc'[q] = "retry" /\ seen'[q].client = client
          /\ \A p \in Statements \ {q} : pc'[p] = pc[p] /\ seen'[p] = seen[p]
      BY <1>1, <2>1 DEF Use
    <3>. QED
      BY <2>1, <3>1 DEF Replaced
  <2>. QED
    BY <2>2, <2>3, <2>4 DEF SessionInv
<1>3. CASE I!StartReconnect(q)
  <2>1. /\ pc[q] = "lock" /\ generation = seen[q].generation
        /\ alive' = alive \ {client} /\ closed' = closed \cup {client} /\ holder' = q
        /\ UNCHANGED <<opened, client, generation, pc, seen, losses, failures, hasty>>
    BY <1>3 DEF I!StartReconnect, I!AlreadyReconnected, I!Close
  <2>2. SessionTypeInv' /\ Calm' = Calm
    BY <1>1, <2>1 DEF SessionTypeInv, Calm
  <2>3. ~ Living /\ ~ Replaced
    BY <2>1 DEF Living, Replaced
  <2>4. Lost => Lost'
    BY <1>1, <2>1 DEF Lost
  <2>. QED
    BY <2>2, <2>3, <2>4 DEF SessionInv
<1>4. CASE I!FinishReconnect(q)
  <2>1. holder = q /\ UNCHANGED <<losses, hasty>>
    BY <1>4 DEF I!FinishReconnect
  <2>2. ~ Living /\ ~ Replaced
    BY <1>1, <2>1 DEF Living, Replaced
  <2>3. CASE I!Open /\ I!Retry(q)
    <3>1. SessionTypeInv'
      BY <1>1, <2>1, <2>3 DEF SessionTypeInv, I!Open, I!Retry, Use
    <3>2. Calm' = Calm
      BY <2>1, <2>3 DEF Calm, I!Open
    <3>3. Lost => Replaced'
      BY <1>1, <2>1, <2>3, OpenAfterLoss DEF SessionInv
    <3>. QED
      BY <2>2, <3>1, <3>2, <3>3 DEF SessionInv
  <2>4. CASE I!OpenFails /\ pc' = [pc EXCEPT ![q] = "error"] /\ UNCHANGED <<seen, beat>>
    BY <1>1, <2>1, <2>4 DEF I!OpenFails, I!Fault, SessionInv, SessionTypeInv, Calm
  <2>. QED
    BY <1>4, <2>3, <2>4 DEF I!FinishReconnect
<1>. QED
  BY <1>2, <1>3, <1>4

\* The heartbeat: a reconnect that finds the client's session alive is hasty.
LEMMA HeartbeatSteps ==
  ASSUME SessionInv, NEW s \in I!Sessions,
         I!Miss(s) \/ I!StartProactive(s) \/ I!FinishProactive(s)
  PROVE  SessionInv'
<1>1. /\ DOMAIN pc = Statements /\ seen \in [Statements -> Use]
      /\ opened \in Nat /\ client \in Nat /\ generation \in Nat /\ losses \in Nat /\ failures \in Nat
      /\ s \in 0..MaxSessions /\ s # 0
      /\ Statements \cap (0..MaxSessions) = {} /\ MaxSessions \in Nat
  BY ImmudbAssumption DEF SessionInv, SessionTypeInv, I!Sessions
<1>2. CASE I!Miss(s)
  BY <1>2 DEF I!Miss, SessionInv, SessionTypeInv, Calm, Living, Lost, Replaced
<1>3. CASE I!StartProactive(s)
  <2>1. /\ hasty' = (hasty \/ client \in alive) /\ alive' = alive \ {client} /\ holder' = s
        /\ closed' = closed \cup {client}
        /\ UNCHANGED <<opened, client, generation, pc, seen, losses, failures>>
    BY <1>3 DEF I!StartProactive
  <2>2. SessionTypeInv'
    BY <1>1, <2>1 DEF SessionTypeInv
  <2>3. Calm' => Calm /\ client \notin alive
    BY <2>1 DEF Calm
  <2>4. client \notin alive => ~ Living /\ ~ Replaced
    BY DEF Living, Replaced
  <2>5. Lost => Lost'
    BY <1>1, <2>1 DEF Lost
  <2>. QED
    BY <2>2, <2>3, <2>4, <2>5 DEF SessionInv
<1>4. CASE I!FinishProactive(s)
  <2>1. holder = s /\ UNCHANGED <<pc, seen, losses, hasty>>
    BY <1>4 DEF I!FinishProactive
  <2>2. CASE I!OpenFails
    BY <1>1, <2>1, <2>2 DEF I!OpenFails, I!Fault, SessionInv, SessionTypeInv, Calm
  <2>3. CASE I!Open
    <3>1. SessionTypeInv' /\ Calm' = Calm
      BY <1>1, <2>1, <2>3 DEF SessionTypeInv, Calm, I!Open
    <3>2. Lost => Replaced'
      BY <1>1, <2>1, <2>3, OpenAfterLoss DEF SessionInv
    <3>3. ~ Living /\ ~ Replaced
      BY <1>1, <2>1 DEF Living, Replaced
    <3>. QED
      BY <3>1, <3>2, <3>3 DEF SessionInv
  <2>. QED
    BY <1>4, <2>2, <2>3 DEF I!FinishProactive
<1>. QED
  BY <1>2, <1>3, <1>4

\* Every step of the statements, the heartbeats and immudb.
LEMMA SessionInvNext ==
  SessionInv /\ [Next]_vars => SessionInv'
<1>. SUFFICES ASSUME SessionInv, [Next]_vars PROVE SessionInv'
  OBVIOUS
<1>1. ASSUME NEW q \in Statements, I!CallFails(q) PROVE SessionInv'
  BY <1>1 DEF I!CallFails, I!Fault, SessionInv, SessionTypeInv, Calm
<1>2. ASSUME I!LoseSession PROVE SessionInv'
  <2>1. /\ client \in alive /\ losses' = losses + 1 /\ alive' = alive \ {client}
        /\ UNCHANGED <<closed, opened, client, generation, holder, pc, seen, failures, hasty>>
    BY <1>2 DEF I!LoseSession
  <2>2. SessionTypeInv' /\ (Calm' => Calm /\ losses = 0)
    BY <2>1 DEF SessionInv, SessionTypeInv, Calm
  <2>3. ~ Lost /\ (losses = 0 => ~ Replaced)
    BY <2>1 DEF Lost, Replaced
  <2>4. ASSUME Living PROVE Lost'
    <3>1. /\ losses' = 1 /\ alive' = {} /\ opened' = 1 /\ client' = 1 /\ generation' = 0
          /\ holder' = 0 /\ closed' = {}
      BY <2>1, <2>4 DEF Living
    <3>2. \A q \in Statements : holder' # q
      BY <2>1, <2>4, ImmudbAssumption DEF Living
    <3>. QED
      BY <2>1, <2>4, <3>1, <3>2 DEF Living, Lost
  <2>. QED
    BY <2>2, <2>3, <2>4 DEF SessionInv
<1>3. ASSUME UNCHANGED immudbVars PROVE SessionInv'
  BY <1>3 DEF immudbVars, SessionInv, SessionTypeInv, Calm, Living, Lost, Replaced
<1>4. ASSUME I!Next PROVE SessionInv'
  BY <1>1, <1>2, <1>4, CallSteps, ReconnectSteps, HeartbeatSteps DEF I!Next
<1>. QED
  BY <1>3, <1>4, OnlyOnePart

\* SQLExec, SQLQuery, reconnectLocked: a lost session fails no statement that finds
\* it, for any number of statements that find it at once, and none that takes the
\* new client; the generation keeps them from closing the session that one of them
\* has opened for all.  Refused are those only that held the first client.
THEOREM OneLossIsSurvived == Spec => []FoundLossFailsNoStatement
<1>1. SessionInv => FoundLossFailsNoStatement
  <2>. SUFFICES ASSUME SessionInv, Calm, NEW q \in Statements
                PROVE  /\ pc[q] # "error"
                       /\ pc[q] = "refused" => losses = 1 /\ seen[q].generation = 0
    BY DEF SessionInv, SessionTypeInv, Calm, FoundLossFailsNoStatement, I!FoundLossFailsNoStatement
  <2>1. CASE Living
    BY <2>1 DEF Living
  <2>2. CASE Lost
    BY <2>2 DEF Lost, First
  <2>3. CASE Replaced
    BY <2>3 DEF Replaced
  <2>. QED
    BY <2>1, <2>2, <2>3 DEF SessionInv
<1>2. Init => SessionInv
  BY SessionInvInit DEF Init
<1>. QED
  BY <1>1, <1>2, SessionInvNext, PTL DEF Spec
-----------------------------------------------------------------------------
(* The fx service's cache.                                                 *)

Snapshot == [offer : Nat, captured : Nat, expires : Nat]

\* No snapshot names an expiry beyond MaxAge after its capture.
Expiring(snapshot) == snapshot.expires <= snapshot.captured + MaxAge

\* What is known of one request: until it is done it has served nothing, the
\* snapshot it is about to store is newer than its reading of the clock, and
\* what it served was fresh.
RequestOK(r) ==
  /\ looked[r] \in Nat /\ looked[r] <= time
  /\ fetched[r] \in Snapshot /\ Expiring(fetched[r])
  /\ DOMAIN result[r] = {"error", "amount", "from", "servedAt"}
  /\ rpc[r] # "done" => result[r].from = "none"
  /\ rpc[r] = "store" => fetched[r].captured >= looked[r]
  /\ R!Served(r) =>
       /\ result[r].from = "hit" => result[r].servedAt - fetched[r].captured < MaxAge
       /\ result[r].from = "miss" => fetched[r].captured >= looked[r]

CacheInv ==
  /\ time \in Nat
  /\ cached \in Snapshot /\ Expiring(cached)
  /\ DOMAIN rpc = Requests /\ DOMAIN looked = Requests /\ DOMAIN fetched = Requests
  /\ DOMAIN result = Requests
  /\ \A r \in Requests : RequestOK(r)

\* RFC3339 never names a later time.
LEMMA FormattingRoundsDown ==
  ASSUME NEW tick \in Nat
  PROVE  R!Formatted(tick) \in Nat /\ R!Formatted(tick) <= tick
<1>. DEFINE s == TicksPerSecond
            n == tick \div s
<1>1. s \in Nat /\ s > 0
  BY FxAssumption
<1>. HIDE DEF s
<1>2. n \in Nat /\ tick = s * n + (tick % s) /\ tick % s \in 0..s-1
  BY <1>1
<1>. HIDE DEF n
<1>3. n * s \in Nat /\ n * s = s * n
  BY <1>1, <1>2
<1>4. n * s <= tick
  BY <1>1, <1>2, <1>3
<1>. QED
  BY <1>3, <1>4 DEF R!Formatted, n, s

\* The cache before the first request.
LEMMA CacheInvInit == R!Init => CacheInv
<1>. SUFFICES ASSUME R!Init PROVE CacheInv
  OBVIOUS
<1>1. R!NoSnapshot \in Snapshot /\ Expiring(R!NoSnapshot)
  BY FxAssumption DEF R!NoSnapshot, Snapshot, Expiring
<1>2. ASSUME NEW r \in Requests PROVE RequestOK(r)
  <2>1. looked[r] = 0 /\ rpc[r] = "idle" /\ fetched[r] = R!NoSnapshot /\ result[r] = R!NoResult
    BY DEF R!Init
  <2>2. DOMAIN R!NoResult = {"error", "amount", "from", "servedAt"} /\ R!NoResult.from = "none"
    BY DEF R!NoResult
  <2>. QED
    BY <1>1, <2>1, <2>2 DEF RequestOK, R!Init, R!Served
<1>. QED
  BY <1>1, <1>2 DEF R!Init, CacheInv

\* A step of one request that leaves the clock alone and keeps the cache expiring.
LEMMA RequestStep ==
  ASSUME CacheInv, NEW r \in Requests, time' = time,
         cached' \in Snapshot, Expiring(cached)',
         DOMAIN rpc' = Requests, DOMAIN looked' = Requests, DOMAIN fetched' = Requests,
         DOMAIN result' = Requests,
         \A q \in Requests \ {r} : /\ rpc'[q] = rpc[q] /\ looked'[q] = looked[q]
                                   /\ fetched'[q] = fetched[q] /\ result'[q] = result[q],
         RequestOK(r)'
  PROVE  CacheInv'
<1>1. ASSUME NEW q \in Requests \ {r} PROVE RequestOK(q)'
  <2>1. RequestOK(q)
    BY DEF CacheInv
  <2>. QED
    BY <2>1 DEF RequestOK, Expiring, R!Served
<1>. QED
  BY <1>1 DEF CacheInv, Expiring

\* An answer from a snapshot: fresh when it is the cache's, newer than the request
\* when it was fetched for it.
LEMMA AnswerStep ==
  ASSUME CacheInv, NEW r \in Requests, NEW snapshot \in Snapshot, Expiring(snapshot),
         NEW from \in {"hit", "miss"}, R!Answer(r, snapshot, from), UNCHANGED time,
         cached' \in Snapshot, Expiring(cached)',
         DOMAIN looked' = Requests, \A q \in Requests \ {r} : looked'[q] = looked[q],
         looked'[r] \in Nat, looked'[r] <= time,
         from = "hit" => time - snapshot.captured < MaxAge,
         from = "miss" => snapshot.captured >= looked'[r]
  PROVE  CacheInv'
<1>1. PICK error, amount :
        /\ rpc' = [rpc EXCEPT ![r] = "done"]
        /\ fetched' = [fetched EXCEPT ![r] = snapshot]
        /\ result' = [result EXCEPT ![r] = [error |-> error, from |-> from, servedAt |-> time, amount |-> amount]]
  BY DEF R!Answer, R!Goto
<1>2. /\ rpc'[r] = "done" /\ fetched'[r] = snapshot /\ result'[r].from = from
      /\ result'[r].servedAt = time
      /\ DOMAIN result'[r] = {"error", "amount", "from", "servedAt"}
  BY <1>1 DEF CacheInv
<1>3. RequestOK(r)'
  BY <1>2 DEF RequestOK, Expiring, R!Served
<1>. QED
  BY <1>1, <1>3, RequestStep DEF CacheInv

\* A hit: the age that GetFresh compares is not less than the true one.
LEMMA HitsAreFresh ==
  ASSUME CacheInv, R!GetFresh(time)
  PROVE  time - cached.captured < MaxAge
BY FormattingRoundsDown, FxAssumption DEF R!GetFresh, CacheInv, Snapshot

\* Every step of a request keeps what is known of it.
LEMMA CacheStep ==
  ASSUME CacheInv, NEW r \in Requests,
         \/ \E i \in Inputs : R!Ask(r, i)
         \/ R!Look(r) \/ R!FetchFails(r) \/ R!Store(r) \/ R!LookAgain(r)
         \/ \E n \in DOMAIN Offers : R!Fetch(r, n)
         \/ \E error : R!FetchRefused(r, error)
  PROVE  CacheInv'
<1>1. /\ DOMAIN rpc = Requests /\ DOMAIN looked = Requests /\ DOMAIN fetched = Requests
      /\ DOMAIN result = Requests /\ RequestOK(r)
      /\ time \in Nat /\ cached \in Snapshot /\ Expiring(cached)
  BY DEF CacheInv
<1>2. ASSUME rpc[r] # "done", UNCHANGED <<time, cached, looked, fetched>>,
             NEW point \in {"done", "look", "fetch", "look again"}, rpc' = [rpc EXCEPT ![r] = point],
             \/ result' = result
             \/ \E error : result' = [result EXCEPT ![r].error = error]
             \/ /\ point = "done"
                /\ \E amount : result' = [result EXCEPT ![r].amount = amount, ![r].from = "identity"]
      PROVE  CacheInv'
  <2>1. /\ DOMAIN result'[r] = {"error", "amount", "from", "servedAt"}
        /\ result'[r].from \notin {"hit", "miss"}
        /\ point # "done" => result'[r].from = "none"
    <3>1. /\ r \in DOMAIN result /\ DOMAIN result[r] = {"error", "amount", "from", "servedAt"}
          /\ result[r].from = "none"
      BY <1>1, <1>2 DEF RequestOK
    <3>2. CASE result' = result
      BY <3>1, <3>2
    <3>3. ASSUME NEW error, result' = [result EXCEPT ![r].error = error]
          PROVE  /\ DOMAIN result'[r] = {"error", "amount", "from", "servedAt"}
                 /\ result'[r].from = "none"
      BY <3>1, <3>3
    <3>4. ASSUME point = "done", NEW amount,
                 result' = [result EXCEPT ![r].amount = amount, ![r].from = "identity"]
          PROVE  /\ DOMAIN result'[r] = {"error", "amount", "from", "servedAt"}
                 /\ result'[r].from = "identity"
      BY <3>1, <3>4
    <3>5. CASE \E error : result' = [result EXCEPT ![r].error = error]
      BY <3>3, <3>5
    <3>6. CASE point = "done" /\ \E amount : result' = [result EXCEPT ![r].amount = amount, ![r].from = "identity"]
      BY <3>4, <3>6
    <3>. QED
      BY <1>2, <3>2, <3>1, <3>5, <3>6
  <2>2. RequestOK(r)'
    BY <1>1, <1>2, <2>1 DEF RequestOK, Expiring, R!Served
  <2>. QED
    BY <1>1, <1>2, <2>2, RequestStep DEF Expiring
<1>3. ASSUME NEW i, R!Ask(r, i) PROVE CacheInv'
  <2>1. /\ rpc[r] = "idle" /\ UNCHANGED <<time, cached, looked, attempt, fetched>>
        /\ \/ \E error : R!Refuse(r, error)
           \/ /\ R!Goto(r, "done")
              /\ result' = [result EXCEPT ![r].amount = i.amount, ![r].from = "identity"]
           \/ R!Goto(r, "look") /\ UNCHANGED result
    BY <1>3, Zenon DEF R!Ask
  <2>. QED
    BY <1>2, <2>1 DEF R!Refuse, R!Goto
<1>4. ASSUME R!Look(r) PROVE CacheInv'
  <2>1. rpc[r] = "look" /\ looked' = [looked EXCEPT ![r] = time] /\ UNCHANGED <<time, cached, input>>
    BY <1>4 DEF R!Look
  <2>2. CASE R!GetFresh(time)
    <3>1. R!Answer(r, cached, "hit")
      BY <1>4, <2>2 DEF R!Look
    <3>. QED
      BY <1>1, <2>1, <2>2, <3>1, AnswerStep, HitsAreFresh DEF Expiring
  <2>3. CASE ~ R!GetFresh(time)
    <3>1. rpc' = [rpc EXCEPT ![r] = "fetch"] /\ UNCHANGED <<fetched, result>>
      BY <1>4, <2>3 DEF R!Look, R!Goto
    <3>2. RequestOK(r)'
      BY <1>1, <2>1, <3>1 DEF RequestOK, Expiring, R!Served
    <3>. QED
      BY <1>1, <2>1, <3>1, <3>2, RequestStep DEF Expiring
  <2>. QED
    BY <2>2, <2>3
<1>5. ASSUME NEW n \in DOMAIN Offers, R!Fetch(r, n) PROVE CacheInv'
  <2>. DEFINE s == [offer |-> n, captured |-> time, expires |-> R!Formatted(looked[r] + MaxAge)]
  <2>1. /\ rpc[r] = "fetch" /\ rpc' = [rpc EXCEPT ![r] = "store"]
        /\ fetched' = [fetched EXCEPT ![r] = s]
        /\ UNCHANGED <<time, cached, input, looked, attempt, result>>
    BY <1>5 DEF R!Fetch, R!Goto
  <2>2. s \in Snapshot /\ Expiring(s)
    <3>1. looked[r] + MaxAge \in Nat
      BY <1>1, FxAssumption DEF RequestOK
    <3>2. R!Formatted(looked[r] + MaxAge) \in Nat /\ R!Formatted(looked[r] + MaxAge) <= looked[r] + MaxAge
      BY <3>1, FormattingRoundsDown
    <3>3. n \in Nat
      BY <1>5, FxAssumption
    <3>. QED
      <4>1. s.offer = n /\ s.captured = time /\ s.expires = R!Formatted(looked[r] + MaxAge)
        OBVIOUS
      <4>2. s \in Snapshot
        BY <1>1, <3>2, <3>3 DEF Snapshot
      <4>3. looked[r] \in Nat /\ looked[r] <= time /\ time \in Nat /\ MaxAge \in Nat
        BY <1>1, FxAssumption DEF RequestOK
      <4>4. R!Formatted(looked[r] + MaxAge) <= time + MaxAge
        BY <3>2, <4>3
      <4>. QED
        BY <4>1, <4>2, <4>4 DEF Expiring
  <2>3. RequestOK(r)'
    BY <1>1, <2>1, <2>2 DEF RequestOK, Expiring, R!Served
  <2>. QED
    BY <1>1, <2>1, <2>3, RequestStep DEF Expiring
<1>6. ASSUME R!FetchFails(r) PROVE CacheInv'
  <2>1. rpc[r] = "fetch" /\ UNCHANGED <<time, cached, input, looked, fetched>>
    BY <1>6 DEF R!FetchFails
  <2>2. CASE UNCHANGED <<rpc, result>>
    <3>1. RequestOK(r)'
      BY <1>1, <2>1, <2>2 DEF RequestOK, Expiring, R!Served
    <3>. QED
      BY <1>1, <2>1, <2>2, <3>1, RequestStep DEF Expiring
  <2>3. CASE R!Goto(r, "look again") /\ result' = [result EXCEPT ![r].error = "CONVERSION_UNAVAILABLE"]
    BY <1>2, <2>1, <2>3 DEF R!Goto
  <2>. QED
    BY <1>6, <2>2, <2>3 DEF R!FetchFails
<1>7. ASSUME NEW error, R!FetchRefused(r, error) PROVE CacheInv'
  BY <1>2, <1>7 DEF R!FetchRefused, R!Goto
<1>8. ASSUME R!Store(r) PROVE CacheInv'
  <2>1. /\ rpc[r] = "store" /\ cached' = fetched[r] /\ R!Answer(r, fetched[r], "miss")
        /\ UNCHANGED <<time, input, looked, attempt>>
    BY <1>8 DEF R!Store
  <2>2. /\ fetched[r] \in Snapshot /\ Expiring(fetched[r]) /\ fetched[r].captured >= looked[r]
        /\ looked[r] \in Nat /\ looked[r] <= time
    BY <1>1, <2>1 DEF RequestOK
  <2>3. cached' \in Snapshot /\ Expiring(cached)'
    BY <2>1, <2>2 DEF Expiring
  <2>. QED
    BY <1>1, <2>1, <2>2, <2>3, AnswerStep
<1>9. ASSUME R!LookAgain(r) PROVE CacheInv'
  <2>1. rpc[r] = "look again" /\ UNCHANGED <<time, cached, input, looked, attempt>>
    BY <1>9 DEF R!LookAgain
  <2>2. CASE R!GetFresh(time)
    <3>1. R!Answer(r, cached, "hit")
      BY <1>9, <2>2 DEF R!LookAgain, R!SecondReading
    <3>2. DOMAIN looked' = Requests /\ looked'[r] \in Nat /\ looked'[r] <= time
      BY <1>1, <2>1 DEF RequestOK
    <3>. QED
      BY <1>1, <2>1, <2>2, <3>1, <3>2, AnswerStep, HitsAreFresh DEF Expiring
  <2>3. CASE ~ R!GetFresh(time)
    BY <1>2, <1>9, <2>1, <2>3 DEF R!LookAgain, R!SecondReading, R!Goto
  <2>. QED
    BY <2>2, <2>3
<1>. QED
  BY <1>3, <1>4, <1>5, <1>6, <1>7, <1>8, <1>9

\* Every step of the fx service, and of any other part.
LEMMA CacheInvNext == CacheInv /\ [Next]_vars => CacheInv'
<1>. SUFFICES ASSUME CacheInv, [Next]_vars PROVE CacheInv'
  OBVIOUS
<1>1. ASSUME UNCHANGED fxVars PROVE CacheInv'
  BY <1>1 DEF fxVars, CacheInv, RequestOK, Expiring, R!Served
<1>2. ASSUME R!Tick PROVE CacheInv'
  <2>1. time' = time + 1 /\ UNCHANGED <<cached, rpc, input, looked, attempt, fetched, result>>
    BY <1>2 DEF R!Tick
  <2>2. ASSUME NEW r \in Requests PROVE RequestOK(r)'
    BY <2>1 DEF CacheInv, RequestOK, Expiring, R!Served
  <2>. QED
    BY <2>1, <2>2 DEF CacheInv, Expiring
<1>3. ASSUME R!Next PROVE CacheInv'
  BY <1>2, <1>3, CacheStep DEF R!Next
<1>. QED
  BY <1>1, <1>3, OnlyOnePart

\* GetFresh, providerSnapshot: rates that are served are no older than MaxAge, for
\* any number of requests that overlap, retries, and resolution of the clock.
THEOREM ServedRatesAreFresh == Spec => []RatesAreFresh
<1>1. CacheInv => RatesAreFresh
  BY DEF CacheInv, RequestOK, Expiring, RatesAreFresh, R!RatesAreFresh, R!Served
<1>2. Init => CacheInv
  BY CacheInvInit DEF Init
<1>. QED
  BY <1>1, <1>2, CacheInvNext, PTL DEF Spec
-----------------------------------------------------------------------------
(* The fx service's arithmetic.                                            *)

\* A quotient that is rounded up exactly when the remainder is half of the divisor
\* or more.
Rounded(num, den) ==
  IF 2 * (num % den) >= den THEN (num \div den) + 1 ELSE num \div den

\* What div and mod are.
LEMMA QuotientAndRemainder ==
  ASSUME NEW num \in Nat, NEW den \in Nat \ {0}
  PROVE  /\ num \div den \in Nat /\ num % den \in Nat /\ num % den < den
         /\ num = den * (num \div den) + (num % den)
OBVIOUS

\* Multiplying keeps the order.
LEMMA ProductsGrow ==
  ASSUME NEW den \in Nat \ {0}, NEW m \in Nat, NEW n \in Nat, m <= n
  PROVE  den * m <= den * n /\ den * (m + 1) = den * m + den /\ den * m \in Nat
<1>1. PICK d \in Nat : n = m + d
  <2>. WITNESS n - m \in Nat
  <2>. QED
    OBVIOUS
<1>2. den * n = den * m + den * d /\ den * d \in Nat /\ den * m \in Nat
  BY <1>1
<1>3. den * (m + 1) = den * m + den
  OBVIOUS
<1>. QED
  BY <1>2, <1>3

\* roundHalfAwayFromZero: between half a unit below and half a unit above.
LEMMA RoundedIsNearest ==
  ASSUME NEW num \in Nat, NEW den \in Nat \ {0}
  PROVE  /\ Rounded(num, den) \in Nat
         /\ 2 * num < 2 * (den * Rounded(num, den)) + den
         /\ 2 * num + den >= 2 * (den * Rounded(num, den))
         /\ \A n \in Nat : Rounded(num, den) > n => num >= den * n
<1>. DEFINE q == num \div den
            r == num % den
<1>1. q \in Nat /\ r \in Nat /\ r < den /\ num = den * q + r /\ den * q \in Nat
  BY QuotientAndRemainder
<1>2. Rounded(num, den) = IF 2 * r >= den THEN q + 1 ELSE q
  BY DEF Rounded
<1>. HIDE DEF q, r
<1>3. den * (q + 1) = den * q + den
  BY <1>1
<1>4. ASSUME NEW n \in Nat, Rounded(num, den) > n PROVE num >= den * n
  <2>1. n <= q
    BY <1>1, <1>2, <1>4
  <2>2. den * n <= den * q /\ den * n \in Nat
    BY <1>1, <2>1, ProductsGrow
  <2>. QED
    BY <1>1, <2>2
<1>5. CASE 2 * r >= den
  <2>1. Rounded(num, den) = q + 1
    BY <1>2, <1>5
  <2>. QED
    BY <1>1, <1>3, <1>4, <1>5, <2>1
<1>6. CASE ~ (2 * r >= den)
  <2>1. Rounded(num, den) = q
    BY <1>2, <1>6
  <2>. QED
    BY <1>1, <1>4, <1>6, <2>1
<1>. QED
  BY <1>5, <1>6

\* A larger quotient is rounded to no smaller amount.
LEMMA RoundedGrows ==
  ASSUME NEW den \in Nat \ {0}, NEW num \in Nat, NEW more \in Nat, num <= more
  PROVE  Rounded(num, den) <= Rounded(more, den)
<1>. DEFINE q == num \div den
            r == num % den
            p == more \div den
            s == more % den
<1>1. /\ q \in Nat /\ r \in Nat /\ r < den /\ num = den * q + r
      /\ p \in Nat /\ s \in Nat /\ s < den /\ more = den * p + s
  BY QuotientAndRemainder
<1>2. /\ Rounded(num, den) = IF 2 * r >= den THEN q + 1 ELSE q
      /\ Rounded(more, den) = IF 2 * s >= den THEN p + 1 ELSE p
  BY DEF Rounded
<1>. HIDE DEF q, r, p, s
<1>3. q <= p
  <2>. SUFFICES ASSUME p + 1 <= q PROVE FALSE
    BY <1>1
  <2>1. den * (p + 1) <= den * q /\ den * (p + 1) = den * p + den /\ den * p \in Nat
    BY <1>1, ProductsGrow
  <2>2. den * q \in Nat
    BY <1>1
  <2>. QED
    BY <1>1, <2>1, <2>2
<1>4. CASE q = p
  <2>1. r <= s
    BY <1>1, <1>4
  <2>. QED
    BY <1>1, <1>2, <1>4, <2>1
<1>5. CASE q < p
  BY <1>1, <1>2, <1>5
<1>. QED
  BY <1>1, <1>3, <1>4, <1>5

\* convertFromRates, for every positive rate of every precision.
LEMMA EveryConversionIsNearest ==
  ASSUME NEW amount \in 1..MaxAmount, NEW source \in Currencies, NEW target \in Currencies,
         NEW rates \in [Currencies -> Nat \ {0}]
  PROVE  C!IsNearest(amount, source, target, rates)
<1>. DEFINE den == rates[source] * MinorUnits[source]
            factor == rates[target] * MinorUnits[target]
            num(a) == a * rates[target] * MinorUnits[target]
            converted(a) == C!Converted(a, source, target, rates)
<1>1. /\ amount \in Nat /\ MaxAmount \in Nat /\ amount <= MaxAmount
      /\ rates[source] \in Nat \ {0} /\ rates[target] \in Nat \ {0}
      /\ MinorUnits[source] \in Nat \ {0} /\ MinorUnits[target] \in Nat \ {0}
  BY FxAssumption
<1>2. den \in Nat \ {0} /\ factor \in Nat \ {0}
  BY <1>1
<1>3. ASSUME NEW a \in Nat PROVE num(a) \in Nat /\ num(a) = factor * a
  BY <1>1, <1>3
<1>4. ASSUME source # target, NEW a \in Nat
      PROVE  converted(a) = IF Rounded(num(a), den) > MaxAmount THEN MaxAmount
                            ELSE Rounded(num(a), den)
  BY <1>4 DEF C!Converted, C!Exact, C!Ratio, C!RoundHalfAwayFromZero, Rounded
<1>5. ASSUME source # target
      PROVE  C!NearestTo(converted(amount), C!Exact(amount, source, target, rates))
  <2>1. /\ C!Exact(amount, source, target, rates).num = num(amount)
        /\ C!Exact(amount, source, target, rates).den = den
    BY DEF C!Exact, C!Ratio
  <2>. DEFINE rounded == Rounded(num(amount), den)
  <2>2. num(amount) \in Nat
    BY <1>1, <1>3
  <2>. HIDE DEF num, den
  <2>3. /\ rounded \in Nat /\ 2 * num(amount) < 2 * (den * rounded) + den
        /\ 2 * num(amount) + den >= 2 * (den * rounded)
        /\ rounded > MaxAmount => num(amount) >= den * MaxAmount
    BY <1>1, <1>2, <2>2, RoundedIsNearest
  <2>4. converted(amount) = IF rounded > MaxAmount THEN MaxAmount ELSE rounded
    BY <1>1, <1>4, <1>5
  <2>. HIDE DEF rounded, converted
  <2>5. CASE rounded > MaxAmount
    <3>1. den * MaxAmount = MaxAmount * den
      BY <1>1, <1>2
    <3>. QED
      BY <2>1, <2>3, <2>4, <2>5, <3>1 DEF C!NearestTo
  <2>6. CASE rounded <= MaxAmount
    <3>1. /\ (2 * rounded + 1) * den = 2 * (den * rounded) + den
          /\ 2 * rounded * den = 2 * (den * rounded)
      BY <1>2, <2>3
    <3>2. converted(amount) = rounded
      BY <1>1, <2>3, <2>4, <2>6
    <3>. QED
      BY <2>1, <2>3, <2>6, <3>1, <3>2 DEF C!NearestTo
  <2>. QED
    BY <1>1, <2>3, <2>5, <2>6
<1>6. converted(amount) <= converted(amount + 1)
  <2>1. CASE source = target
    BY <1>1, <2>1 DEF C!Converted
  <2>2. CASE source # target
    <3>1. num(amount) \in Nat /\ num(amount + 1) \in Nat /\ num(amount) <= num(amount + 1)
      <4>1. factor * (amount + 1) = factor * amount + factor
        BY <1>1, <1>2
      <4>2. num(amount) = factor * amount /\ num(amount + 1) = factor * (amount + 1)
        BY <1>1, <1>3
      <4>3. num(amount) \in Nat /\ num(amount + 1) \in Nat
        BY <1>1, <1>3
      <4>. HIDE DEF num, factor
      <4>. QED
        BY <1>2, <4>1, <4>2, <4>3
    <3>2. /\ converted(amount) = IF Rounded(num(amount), den) > MaxAmount THEN MaxAmount
                                 ELSE Rounded(num(amount), den)
          /\ converted(amount + 1) = IF Rounded(num(amount + 1), den) > MaxAmount THEN MaxAmount
                                     ELSE Rounded(num(amount + 1), den)
      BY <1>1, <1>4, <2>2
    <3>. HIDE DEF num, den, converted
    <3>3. /\ Rounded(num(amount), den) <= Rounded(num(amount + 1), den)
          /\ Rounded(num(amount), den) \in Nat /\ Rounded(num(amount + 1), den) \in Nat
      BY <1>2, <3>1, RoundedGrows, RoundedIsNearest
    <3>. QED
      BY <1>1, <3>2, <3>3
  <2>. QED
    BY <2>1, <2>2
<1>7. source = target => converted(amount) = amount
  BY DEF C!Converted
<1>. QED
  BY <1>5, <1>6, <1>7 DEF C!IsNearest

\* The inputs of the calculations are of the given sets.
SampleInv ==
  /\ Chosen("conversion") => sample \in ConversionInputs
  /\ Chosen("figures") => sample \in FigureInputs
  /\ Chosen("score") => sample \in ScoreInputs
  /\ Chosen("listing") => sample \in ListingInputs
  /\ Chosen("request") => sample \in RequestInputs

LEMMA SampleInvInit == Init => SampleInv
BY DEF Init, SampleInv, Chosen

LEMMA SampleInvNext == SampleInv /\ [Next]_vars => SampleInv'
<1>. SUFFICES ASSUME SampleInv, [Next]_vars PROVE SampleInv'
  OBVIOUS
<1>1. CASE UNCHANGED <<part, sample>>
  BY <1>1 DEF SampleInv, Chosen
<1>2. CASE Choose("conversion", ConversionInputs)
  BY <1>2 DEF SampleInv, Choose, Chosen
<1>3. CASE Choose("listing", ListingInputs)
  BY <1>3 DEF SampleInv, Choose, Chosen
<1>4. CASE Choose("request", RequestInputs)
  BY <1>4 DEF SampleInv, Choose, Chosen
<1>5. CASE Choose("score", ScoreInputs)
  BY <1>5 DEF SampleInv, Choose, Chosen
<1>6. CASE Choose("figures", FigureInputs)
  BY <1>6 DEF SampleInv, Choose, Chosen
<1>7. CASE UNCHANGED vars
  BY <1>1, <1>7 DEF vars
<1>. QED
  BY <1>1, <1>2, <1>3, <1>4, <1>5, <1>6, <1>7 DEF Next, ExportStep, ImmudbStep, FxStep, StoredScoreStep

\* convertFromRates, roundHalfAwayFromZero: an amount converts to the nearest amount
\* of the other currency, and a larger one to no smaller, for any currencies,
\* minor units, rates and largest amount.
THEOREM ConversionsAreNearest == Spec => []ConversionIsNearest
<1>1. SampleInv => ConversionIsNearest
  <2>. SUFFICES ASSUME SampleInv, Chosen("conversion")
       PROVE  C!IsNearest(sample.amount, sample.source, sample.target, sample.rates)
    BY DEF ConversionIsNearest
  <2>. QED
    BY FxAssumption, EveryConversionIsNearest DEF SampleInv
<1>. QED
  BY <1>1, SampleInvInit, SampleInvNext, PTL DEF Spec
-----------------------------------------------------------------------------
(* Rows in the order of the stream.                                        *)

\* A sequence in the stream's order, and the cursors between its rows.
Sorted(s) == \A i, j \in DOMAIN s : i < j => E!Before(s[i], s[j])
Cursor == [at : Nat, id : Nat]

\* The order of (created_at, id) among rows with different ids.
LEMMA RowOrder ==
  ASSUME NEW r \in E!Row, NEW s \in E!Row, NEW t \in E!Row
  PROVE  /\ ~ E!Before(r, r)
         /\ E!Before(r, s) /\ E!Before(s, t) => E!Before(r, t)
         /\ E!Before(r, s) => ~ E!Before(s, r)
         /\ r.id # s.id => E!Before(r, s) \/ E!Before(s, r)
<1>1. \A row \in E!Row : row.at \in Nat /\ row.id \in Nat
  BY ExportAssumption DEF E!Row
<1>. QED
  BY <1>1 DEF E!Before

\* What is behind a cursor, and a cursor that is put on a row.
LEMMA CursorOrder ==
  ASSUME NEW r \in E!Row, NEW s \in E!Row, NEW c \in Cursor
  PROVE  /\ E!After(r, c) /\ E!Before(r, s) => E!After(s, c)
         /\ ~ E!After(r, c) /\ E!After(s, c) => E!Before(r, s)
         /\ [at |-> s.at, id |-> s.id] \in Cursor
         /\ E!After(r, [at |-> s.at, id |-> s.id]) <=> E!Before(s, r)
         /\ ~ E!After(r, c) /\ E!After(s, c) => ~ E!After(r, [at |-> s.at, id |-> s.id])
<1>1. \A row \in E!Row : row.at \in Nat /\ row.id \in Nat
  BY ExportAssumption DEF E!Row
<1>2. c.at \in Nat /\ c.id \in Nat
  BY DEF Cursor
<1>3. /\ E!After(r, c) /\ E!Before(r, s) => E!After(s, c)
      /\ ~ E!After(r, c) /\ E!After(s, c) => E!Before(r, s)
  BY <1>1, <1>2 DEF E!Before, E!After
<1>4. /\ [at |-> s.at, id |-> s.id] \in Cursor
      /\ E!After(r, [at |-> s.at, id |-> s.id]) <=> E!Before(s, r)
  BY <1>1 DEF E!Before, E!After, Cursor
<1>. QED
  BY <1>3, <1>4, RowOrder

\* The place of a row counts a finite set of rows from 1 in that order.
LEMMA RowPlacesCount ==
  ASSUME NEW rs, rs \subseteq E!Row, IsFiniteSet(rs), E!DistinctIds(rs)
  PROVE  LET At(r) == 1 + Cardinality({s \in rs : E!Before(s, r)})
             n == Cardinality(rs)
         IN /\ n \in Nat
            /\ \A r \in rs : At(r) \in 1..n
            /\ \A r, s \in rs : At(r) < At(s) <=> E!Before(r, s)
            /\ \A i \in 1..n : \E r \in rs : At(r) = i
<1>. DEFINE At(r) == 1 + Cardinality({s \in rs : E!Before(s, r)})
            n == Cardinality(rs)
            B == {p \in rs \X rs : E!Before(p[1], p[2])}
<1>1. \A r, s \in rs : <<r, s>> \in B <=> E!Before(r, s)
  OBVIOUS
<1>2. \A r \in rs : At(r) = Place(B, rs, r)
  <2>. TAKE r \in rs
  <2>1. {s \in rs : E!Before(s, r)} = {s \in rs : <<s, r>> \in B}
    BY <1>1
  <2>. QED
    BY <2>1 DEF Place
<1>. HIDE DEF B, At, n
<1>3. Orders(B, rs)
  <2>1. \A r, s \in rs : r = s \/ E!Before(r, s) \/ E!Before(s, r)
    BY RowOrder DEF E!DistinctIds
  <2>2. \A r, s, t \in rs : ~ E!Before(r, r) /\ (E!Before(r, s) /\ E!Before(s, t) => E!Before(r, t))
    BY RowOrder
  <2>. QED
    BY <1>1, <2>1, <2>2 DEF Orders
<1>4. /\ n \in Nat
      /\ \A r \in rs : Place(B, rs, r) \in 1..n
      /\ \A r, s \in rs : Place(B, rs, r) < Place(B, rs, s) <=> <<r, s>> \in B
      /\ \A i \in 1..n : \E r \in rs : Place(B, rs, r) = i
  BY <1>3, PlacesCount DEF n
<1>5. /\ n \in Nat
      /\ \A r \in rs : At(r) \in 1..n
      /\ \A r, s \in rs : At(r) < At(s) <=> E!Before(r, s)
      /\ \A i \in 1..n : \E r \in rs : At(r) = i
  BY <1>1, <1>2, <1>4
<1>. QED
  BY <1>5 DEF n, At

\* FirstRows takes the first rows of a set in order, all of them or "limit".
LEMMA FirstRowsAreFirst ==
  ASSUME NEW rs, rs \subseteq E!Row, IsFiniteSet(rs), E!DistinctIds(rs), NEW limit \in Nat
  PROVE  LET f == E!FirstRows(rs, limit)
         IN /\ f \in Seq(rs) /\ Len(f) \in 0..limit /\ Sorted(f)
            /\ \A r \in rs : \/ \E k \in 1..Len(f) : f[k] = r
                             \/ Len(f) = limit /\ \A k \in 1..Len(f) : E!Before(f[k], r)
<1>. DEFINE At(r) == 1 + Cardinality({s \in rs : E!Before(s, r)})
            n == Cardinality(rs)
            size == IF n < limit THEN n ELSE limit
            f == E!FirstRows(rs, limit)
<1>1. /\ n \in Nat
      /\ \A r \in rs : At(r) \in 1..n
      /\ \A r, s \in rs : At(r) < At(s) <=> E!Before(r, s)
      /\ \A i \in 1..n : \E r \in rs : At(r) = i
  BY RowPlacesCount
<1>2. f = [i \in 1..size |-> CHOOSE r \in rs : At(r) = i]
  BY DEF E!FirstRows, E!Cardinality, Cardinality
<1>. HIDE DEF n, At, f
<1>3. size \in Nat /\ size <= limit /\ (size = n \/ size = limit) /\ \A i \in 1..size : i \in 1..n
  BY <1>1
<1>. HIDE DEF size
<1>4. \A i \in 1..size : f[i] \in rs /\ At(f[i]) = i
  <2>. TAKE i \in 1..size
  <2>1. \E r \in rs : At(r) = i
    BY <1>1, <1>3
  <2>2. f[i] = CHOOSE r \in rs : At(r) = i
    BY <1>2
  <2>. QED
    BY <2>1, <2>2
<1>5. f \in [1..size -> rs]
  BY <1>2, <1>4
<1>6. f \in Seq(rs)
  BY <1>3, <1>5, SeqDef
<1>7. Len(f) = size /\ DOMAIN f = 1..size
  <2>1. DOMAIN f = 1..size
    BY <1>5
  <2>2. DOMAIN f = 1..Len(f) /\ Len(f) \in Nat
    BY <1>6, LenProperties
  <2>. QED
    BY <1>3, <2>1, <2>2
<1>8. Sorted(f)
  BY <1>1, <1>3, <1>4, <1>7 DEF Sorted
<1>9. ASSUME NEW r \in rs
      PROVE  \/ \E k \in 1..size : f[k] = r
             \/ size = limit /\ \A k \in 1..size : E!Before(f[k], r)
  <2>1. At(r) \in 1..n
    BY <1>1
  <2>2. CASE At(r) \in 1..size
    <3>1. f[At(r)] \in rs /\ At(f[At(r)]) = At(r)
      BY <1>4, <2>2
    <3>2. f[At(r)] = r
      <4>. DEFINE s == f[At(r)]
      <4>1. s \in rs /\ At(s) = At(r) /\ At(r) \in Nat
        BY <1>3, <2>2, <3>1
      <4>. HIDE DEF s
      <4>2. ~ E!Before(s, r) /\ ~ E!Before(r, s)
        BY <1>1, <4>1
      <4>3. s.id = r.id
        BY <4>1, <4>2, RowOrder
      <4>. QED
        BY <4>1, <4>3 DEF E!DistinctIds, s
    <3>. QED
      BY <2>2, <3>2
  <2>3. CASE At(r) \notin 1..size
    <3>1. size = limit /\ size < At(r)
      BY <1>1, <1>3, <2>1, <2>3
    <3>2. \A k \in 1..size : E!Before(f[k], r)
      <4>. TAKE k \in 1..size
      <4>1. f[k] \in rs /\ At(f[k]) < At(r)
        BY <1>1, <1>3, <1>4, <2>1, <3>1
      <4>. QED
        BY <1>1, <4>1
    <3>. QED
      BY <3>1, <3>2
  <2>. QED
    BY <2>2, <2>3
<1>. QED
  BY <1>3, <1>6, <1>7, <1>8, <1>9 DEF f

\* What a sequence lists.
Listed(s) == {s[k] : k \in DOMAIN s}

\* GetExpensesByUserAfter: the page starts where the cursor is, in order, and what it
\* leaves out is behind the next cursor, which there is if there is more.
LEMMA PageIsNext ==
  ASSUME table \subseteq E!Row, IsFiniteSet(table), E!DistinctIds(table), NEW c \in Cursor
  PROVE  LET p == E!Page(c)
         IN /\ p.page \in Seq(table) /\ Sorted(p.page)
            /\ p.more \in BOOLEAN /\ (p.more => p.page # << >>)
            /\ p.cursor \in Cursor
            /\ \A r \in Listed(p.page) : E!After(r, c) /\ ~ E!After(r, p.cursor)
            /\ \A r \in E!Row : ~ E!After(r, c) => ~ E!After(r, p.cursor)
            /\ \A r \in table : E!After(r, c) =>
                 r \in Listed(p.page) \/ (p.more /\ E!After(r, p.cursor))
<1>. DEFINE behind == {r \in table : E!After(r, c)}
            found == E!FirstRows(behind, PageSize + 1)
            more == Len(found) > PageSize
            page == IF more THEN SubSeq(found, 1, PageSize) ELSE found
            last == page[Len(page)]
            p == E!Page(c)
            next == IF page = << >> THEN c ELSE [at |-> last.at, id |-> last.id]
<1>1. p.page = page /\ p.more = more /\ p.cursor = next
  BY DEF E!Page
<1>2. PageSize \in Nat /\ PageSize # 0
  BY ExportAssumption
<1>3. behind \subseteq E!Row /\ IsFiniteSet(behind) /\ E!DistinctIds(behind)
  BY FS_Subset DEF E!DistinctIds
<1>. HIDE DEF behind, p
<1>4. /\ found \in Seq(behind) /\ Len(found) \in 0..(PageSize + 1) /\ Sorted(found)
      /\ \A r \in behind : \/ \E k \in 1..Len(found) : found[k] = r
                           \/ /\ Len(found) = PageSize + 1
                              /\ \A k \in 1..Len(found) : E!Before(found[k], r)
  <2>1. PageSize + 1 \in Nat
    BY <1>2
  <2>. QED
    BY <1>3, <2>1, FirstRowsAreFirst
<1>. HIDE DEF found
<1>5. DOMAIN found = 1..Len(found) /\ \A k \in 1..Len(found) : found[k] \in behind
  BY <1>4, LenProperties, ElementOfSeq
<1>6. more \in BOOLEAN /\ (more => Len(found) = PageSize + 1) /\ (~ more => Len(found) <= PageSize)
  BY <1>2, <1>4
<1>7. /\ page \in Seq(behind)
      /\ Len(page) = (IF more THEN PageSize ELSE Len(found))
      /\ \A k \in 1..Len(page) : k \in 1..Len(found) /\ page[k] = found[k]
  <2>1. CASE more
    <3>1. \A k \in 1..PageSize : k \in 1..Len(found) /\ found[k] \in behind
      BY <1>2, <1>5, <1>6, <2>1
    <3>2. /\ SubSeq(found, 1, PageSize) \in Seq(behind)
          /\ Len(SubSeq(found, 1, PageSize)) = PageSize
          /\ \A k \in 1..PageSize : SubSeq(found, 1, PageSize)[k] = found[k]
      BY <1>2, <3>1, SubSeqProperties
    <3>. QED
      BY <2>1, <3>1, <3>2
  <2>2. CASE ~ more
    BY <1>4, <2>2
  <2>. QED
    BY <2>1, <2>2
<1>. HIDE DEF more, page
<1>8. /\ DOMAIN page = 1..Len(page) /\ Len(page) \in Nat
      /\ \A k \in 1..Len(page) : page[k] \in behind
      /\ page = << >> <=> Len(page) = 0
  BY <1>7, LenProperties, ElementOfSeq, EmptySeq
<1>9. Sorted(page)
  BY <1>4, <1>5, <1>7, <1>8 DEF Sorted
<1>10. more => page # << >>
  BY <1>2, <1>7, <1>8
<1>11. ASSUME page # << >>
       PROVE  /\ last \in behind /\ Len(page) \in 1..Len(page)
              /\ \A k \in 1..Len(page) : page[k] = last \/ E!Before(page[k], last)
  <2>1. Len(page) \in 1..Len(page)
    BY <1>8, <1>11
  <2>2. \A k \in 1..Len(page) : k = Len(page) \/ k < Len(page)
    <3>1. Len(page) \in Nat
      BY <1>8
    <3>. QED
      BY <3>1
  <2>. QED
    BY <1>8, <1>9, <2>1, <2>2 DEF Sorted
<1>12. \A r \in behind : r \in E!Row /\ r \in table /\ E!After(r, c)
  BY <1>3 DEF behind
<1>. HIDE DEF last
<1>13. next \in Cursor /\ \A r \in E!Row : ~ E!After(r, c) => ~ E!After(r, next)
  <2>1. CASE page = << >>
    BY <2>1
  <2>2. CASE page # << >>
    BY <1>11, <1>12, <2>2, CursorOrder
  <2>. QED
    BY <2>1, <2>2
<1>14. ASSUME NEW r \in Listed(page) PROVE E!After(r, c) /\ ~ E!After(r, next)
  <2>1. page # << >> /\ r \in behind /\ (r = last \/ E!Before(r, last))
    BY <1>8, <1>11, <1>14 DEF Listed
  <2>2. last \in E!Row /\ r \in E!Row /\ E!After(r, c)
    BY <1>11, <1>12, <2>1
  <2>3. ~ E!Before(last, r)
    BY <2>1, <2>2, RowOrder
  <2>. QED
    BY <2>1, <2>2, <2>3, CursorOrder
<1>15. ASSUME NEW r \in table, E!After(r, c), r \notin Listed(page)
       PROVE  more /\ E!After(r, next)
  <2>1. r \in behind
    BY <1>15 DEF behind
  <2>2. CASE \E k \in 1..Len(found) : found[k] = r
    <3>1. PICK k \in 1..Len(found) : found[k] = r
      BY <2>2
    <3>2. k \notin 1..Len(page)
      BY <1>7, <1>8, <1>15, <3>1 DEF Listed
    <3>3. more /\ k = PageSize + 1 /\ Len(page) = PageSize /\ PageSize \in 1..Len(found)
      <4>1. k \in Nat /\ Len(found) \in Nat /\ k <= Len(found) /\ 1 <= k
        BY <1>2, <1>4
      <4>2. more
        BY <1>7, <3>2
      <4>3. Len(found) = PageSize + 1 /\ Len(page) = PageSize
        BY <1>6, <1>7, <4>2
      <4>. QED
        BY <1>2, <3>2, <4>1, <4>2, <4>3
    <3>4. E!Before(found[PageSize], r)
      <4>1. PageSize < k
        BY <1>2, <3>3
      <4>2. PageSize \in DOMAIN found /\ k \in DOMAIN found
        BY <1>5, <3>1, <3>3
      <4>3. Sorted(found)
        BY <1>4
      <4>. QED
        BY <3>1, <4>1, <4>2, <4>3 DEF Sorted
    <3>5. last = found[PageSize]
      BY <1>7, <1>11, <1>10, <3>3 DEF last
    <3>. QED
      BY <1>10, <1>11, <1>12, <2>1, <3>3, <3>4, <3>5, CursorOrder
  <2>3. CASE Len(found) = PageSize + 1 /\ \A k \in 1..Len(found) : E!Before(found[k], r)
    <3>1. more
      BY <1>2, <1>6, <2>3
    <3>2. Len(page) \in 1..Len(page) /\ last = page[Len(page)]
      BY <1>10, <1>11, <3>1 DEF last
    <3>3. E!Before(last, r)
      BY <1>7, <2>3, <3>2
    <3>. QED
      BY <1>10, <1>11, <1>12, <2>1, <3>1, <3>3, CursorOrder
  <2>. QED
    BY <1>4, <2>1, <2>2, <2>3
<1>16. page \in Seq(table)
  <2>1. behind \subseteq table
    BY <1>12
  <2>. QED
    BY <1>7, <2>1, SeqMonotonic
<1>. QED
  BY <1>1, <1>6, <1>9, <1>10, <1>13, <1>14, <1>15, <1>16 DEF p
-----------------------------------------------------------------------------
(* Rows that move from one sequence to the next.                           *)

\* Taking the first row of one to the end of the other leaves both together as they are.
LEMMA HeadMoves ==
  ASSUME NEW set, NEW s \in Seq(set), NEW t \in Seq(set), t # << >>
  PROVE  /\ Append(s, Head(t)) \in Seq(set) /\ Tail(t) \in Seq(set)
         /\ Append(s, Head(t)) \o Tail(t) = s \o t
<1>. DEFINE u == Append(s, Head(t))
            v == Tail(t)
<1>1. /\ Head(t) \in set /\ Head(t) = t[1]
      /\ v \in Seq(set) /\ Len(v) = Len(t) - 1 /\ \A i \in 1..Len(v) : v[i] = t[i + 1]
  BY HeadTailProperties
<1>2. /\ u \in Seq(set) /\ Len(u) = Len(s) + 1
      /\ \A i \in 1..Len(s) : u[i] = s[i]
      /\ u[Len(s) + 1] = t[1]
  BY <1>1, AppendProperties
<1>3. Len(s) \in Nat /\ Len(t) \in Nat \ {0}
  BY EmptySeq, LenProperties
<1>. HIDE DEF u, v
<1>4. /\ u \o v \in Seq(set) /\ Len(u \o v) = Len(u) + Len(v)
      /\ \A i \in 1..(Len(u) + Len(v)) : (u \o v)[i] = IF i <= Len(u) THEN u[i] ELSE v[i - Len(u)]
  BY <1>1, <1>2, ConcatProperties
<1>5. /\ s \o t \in Seq(set) /\ Len(s \o t) = Len(s) + Len(t)
      /\ \A i \in 1..(Len(s) + Len(t)) : (s \o t)[i] = IF i <= Len(s) THEN s[i] ELSE t[i - Len(s)]
  BY ConcatProperties
<1>6. ASSUME NEW i \in 1..Len(u \o v) PROVE (u \o v)[i] = (s \o t)[i]
  <2>0. i \in 1..(Len(s) + Len(t)) /\ i \in 1..(Len(u) + Len(v))
    BY <1>1, <1>2, <1>3, <1>4
  <2>1. CASE i <= Len(s)
    <3>1. i \in 1..Len(s) /\ i <= Len(u)
      BY <1>2, <1>3, <2>0, <2>1
    <3>. QED
      BY <1>2, <1>4, <1>5, <2>0, <2>1, <3>1
  <2>2. CASE i = Len(s) + 1
    <3>1. i <= Len(u) /\ ~ (i <= Len(s)) /\ i - Len(s) = 1
      BY <1>2, <1>3, <2>2
    <3>. QED
      BY <1>2, <1>4, <1>5, <2>0, <2>2, <3>1
  <2>3. CASE i > Len(s) + 1
    <3>1. /\ ~ (i <= Len(u)) /\ ~ (i <= Len(s))
          /\ i - Len(u) \in 1..Len(v) /\ (i - Len(u)) + 1 = i - Len(s)
      BY <1>1, <1>2, <1>3, <2>0, <2>3
    <3>. QED
      BY <1>1, <1>4, <1>5, <2>0, <3>1
  <2>. QED
    BY <1>3, <2>0, <2>1, <2>2, <2>3
<1>7. Len(u \o v) = Len(s \o t)
  BY <1>1, <1>2, <1>3, <1>4, <1>5
<1>8. u \o v = s \o t
  BY <1>4, <1>5, <1>6, <1>7, SeqEqual
<1>. QED
  BY <1>1, <1>2, <1>8 DEF u, v

\* Names that keep the sequences of rows whole in the leaves of the proofs.
OfRows(s) == s \in Seq(E!Row)
Joined(x, s, t) == (x \o s) \o t

\* Taking a row to the end of the sequence in the middle leaves all three as they are.
LEMMA HeadMovesBehind ==
  ASSUME NEW x, NEW s, NEW t, OfRows(x), OfRows(s), OfRows(t), t # << >>
  PROVE  Joined(x, Append(s, Head(t)), Tail(t)) = Joined(x, s, t)
<1>. DEFINE set == E!Row
            u == Append(s, Head(t))
            v == Tail(t)
<1>1. x \in Seq(set) /\ s \in Seq(set) /\ t \in Seq(set)
  BY DEF OfRows
<1>. HIDE DEF set
<1>2. u \in Seq(set) /\ v \in Seq(set)
  BY <1>1, HeadMoves
<1>3. u \o v = s \o t
  BY <1>1, HeadMoves
<1>. HIDE DEF u, v
<1>4. (x \o u) \o v = x \o (u \o v)
  <2>1. \A y \in Seq(set), z \in Seq(set) : (x \o y) \o z = x \o (y \o z)
    BY <1>1, ConcatAssociative
  <2>. QED
    BY <1>2, <2>1, Zenon
<1>5. (x \o s) \o t = x \o (s \o t)
  BY <1>1, ConcatAssociative
<1>. QED
  BY <1>3, <1>4, <1>5 DEF u, v, Joined

\* What two sequences list together.
LEMMA ListedTogether ==
  ASSUME NEW set, NEW s \in Seq(set), NEW t \in Seq(set)
  PROVE  Listed(s \o t) = Listed(s) \cup Listed(t) /\ Listed(s) \subseteq set
<1>. DEFINE u == s \o t
<1>1. /\ DOMAIN s = 1..Len(s) /\ Len(s) \in Nat /\ DOMAIN t = 1..Len(t) /\ Len(t) \in Nat
      /\ \A i \in DOMAIN s : s[i] \in set
  BY LenProperties, ElementOfSeq
<1>2. /\ u \in Seq(set) /\ Len(u) = Len(s) + Len(t)
      /\ \A i \in 1..(Len(s) + Len(t)) : u[i] = IF i <= Len(s) THEN s[i] ELSE t[i - Len(s)]
  BY ConcatProperties
<1>. HIDE DEF u
<1>3. DOMAIN u = 1..(Len(s) + Len(t))
  BY <1>2, LenProperties
<1>4. \A i \in DOMAIN s : i \in DOMAIN u /\ u[i] = s[i]
  BY <1>1, <1>2, <1>3
<1>5. ASSUME NEW i \in DOMAIN t PROVE i + Len(s) \in DOMAIN u /\ u[i + Len(s)] = t[i]
  <2>1. i + Len(s) \in 1..(Len(s) + Len(t)) /\ ~ (i + Len(s) <= Len(s)) /\ (i + Len(s)) - Len(s) = i
    BY <1>1
  <2>. QED
    BY <1>2, <1>3, <2>1
<1>6. ASSUME NEW i \in DOMAIN u PROVE u[i] \in Listed(s) \cup Listed(t)
  <2>1. CASE i <= Len(s)
    <3>1. i \in DOMAIN s
      BY <1>1, <1>3, <2>1
    <3>. QED
      BY <1>2, <1>3, <2>1, <3>1 DEF Listed
  <2>2. CASE ~ (i <= Len(s))
    <3>1. i - Len(s) \in DOMAIN t
      BY <1>1, <1>3, <2>2
    <3>. QED
      BY <1>2, <1>3, <2>2, <3>1 DEF Listed
  <2>. QED
    BY <2>1, <2>2
<1>7. \A x \in Listed(u) : x \in Listed(s) \cup Listed(t)
  BY <1>6 DEF Listed
<1>8. Listed(s) \subseteq Listed(u)
  BY <1>4 DEF Listed
<1>9. Listed(t) \subseteq Listed(u)
  BY <1>5 DEF Listed
<1>10. Listed(s) \subseteq set
  BY <1>1 DEF Listed
<1>. QED
  BY <1>7, <1>8, <1>9, <1>10 DEF u

\* Sorted sequences, one before the other, are sorted together, and only they are.
LEMMA SortedTogether ==
  ASSUME NEW set, NEW s \in Seq(set), NEW t \in Seq(set)
  PROVE  Sorted(s \o t) <=> /\ Sorted(s) /\ Sorted(t)
                            /\ \A r \in Listed(s) : \A q \in Listed(t) : E!Before(r, q)
<1>. DEFINE u == s \o t
<1>1. /\ DOMAIN s = 1..Len(s) /\ Len(s) \in Nat /\ DOMAIN t = 1..Len(t) /\ Len(t) \in Nat
  BY LenProperties
<1>2. /\ u \in Seq(set) /\ Len(u) = Len(s) + Len(t)
      /\ \A i \in 1..(Len(s) + Len(t)) : u[i] = IF i <= Len(s) THEN s[i] ELSE t[i - Len(s)]
  BY ConcatProperties
<1>. HIDE DEF u
<1>3. DOMAIN u = 1..(Len(s) + Len(t))
  BY <1>2, LenProperties
<1>4. \A i \in DOMAIN s : i \in DOMAIN u /\ u[i] = s[i]
  BY <1>1, <1>2, <1>3
<1>5. ASSUME NEW i \in DOMAIN t PROVE i + Len(s) \in DOMAIN u /\ u[i + Len(s)] = t[i]
  <2>1. i + Len(s) \in 1..(Len(s) + Len(t)) /\ ~ (i + Len(s) <= Len(s)) /\ (i + Len(s)) - Len(s) = i
    BY <1>1
  <2>. QED
    BY <1>2, <1>3, <2>1
<1>6. ASSUME Sorted(u)
      PROVE  /\ Sorted(s) /\ Sorted(t)
             /\ \A r \in Listed(s) : \A q \in Listed(t) : E!Before(r, q)
  <2>1. Sorted(s)
    BY <1>4, <1>6 DEF Sorted
  <2>2. \A i, j \in DOMAIN t : i < j => i + Len(s) < j + Len(s)
    BY <1>1
  <2>3. Sorted(t)
    BY <1>5, <1>6, <2>2 DEF Sorted
  <2>4. \A i \in DOMAIN s : \A j \in DOMAIN t : i < j + Len(s)
    BY <1>1
  <2>5. \A r \in Listed(s) : \A q \in Listed(t) : E!Before(r, q)
    BY <1>4, <1>5, <1>6, <2>4 DEF Sorted, Listed
  <2>. QED
    BY <2>1, <2>3, <2>5
<1>7. ASSUME Sorted(s), Sorted(t),
             \A r \in Listed(s) : \A q \in Listed(t) : E!Before(r, q),
             NEW i \in DOMAIN u, NEW j \in DOMAIN u, i < j
      PROVE  E!Before(u[i], u[j])
  <2>1. \A k \in DOMAIN u : \/ k \in DOMAIN s /\ k <= Len(s) /\ u[k] = s[k]
                            \/ k - Len(s) \in DOMAIN t /\ ~ (k <= Len(s)) /\ u[k] = t[k - Len(s)]
    <3>. TAKE k \in DOMAIN u
    <3>1. k <= Len(s) => k \in DOMAIN s
      BY <1>1, <1>3
    <3>2. ~ (k <= Len(s)) => k - Len(s) \in DOMAIN t
      BY <1>1, <1>3
    <3>. QED
      BY <1>2, <1>3, <3>1, <3>2
  <2>2. i \in Nat /\ j \in Nat
    BY <1>3
  <2>3. CASE j <= Len(s)
    <3>1. i <= Len(s)
      BY <1>1, <1>7, <2>2, <2>3
    <3>. QED
      BY <1>7, <2>1, <2>3, <3>1 DEF Sorted
  <2>4. CASE ~ (j <= Len(s)) /\ i <= Len(s)
    BY <1>7, <2>1, <2>4 DEF Listed
  <2>5. CASE ~ (i <= Len(s))
    <3>1. ~ (j <= Len(s)) /\ i - Len(s) < j - Len(s)
      BY <1>1, <1>7, <2>2, <2>5
    <3>. QED
      BY <1>7, <2>1, <2>5, <3>1 DEF Sorted
  <2>. QED
    BY <2>3, <2>4, <2>5
<1>. QED
  BY <1>6, <1>7 DEF Sorted, u

-----------------------------------------------------------------------------
(* The faults of an export.                                                *)

Points == {"off", "read", "feed", "report", "closed"}

\* The types of the export's variables, as far as its steps rely on them.
ExportTypeInv ==
  /\ table \subseteq E!Row /\ IsFiniteSet(table) /\ E!DistinctIds(table)
  /\ collected \in [E!Providers -> {"waiting", "running", "done", "failed"}]
  /\ producer \in [pc : Points, page : Seq(E!Row), more : BOOLEAN, cursor : Cursor, result : {"ok", "error"}]
  /\ producer.pc = "feed" => producer.page # << >>
  /\ rows \in Seq(E!Row) /\ wire \in Seq(E!Row)
  /\ archive \in Seq([row : E!Row, tagName : Tags \cup {"Unknown"}])
  /\ errc \in {<< >>, <<"ok">>, <<"error">>}
  /\ consumer \in {"off", "receive", "ok", "error"}

\* How far the job is: nothing runs before the response of finance is there and
\* nothing after the barrier, and who gets past it had no failure.
Progress ==
  /\ job = "fetch" => /\ first = "none" /\ consumer = "off" /\ producer.pc = "off"
                      /\ \A p \in E!Providers : collected[p] = "waiting"
  /\ producer.pc = "off" <=> consumer = "off"
  /\ IF consumer = "off" THEN producer.result = "ok" /\ errc = << >>
     ELSE collected["expenses"] # "waiting"
  /\ \A p \in E!Providers : collected[p] = "failed" => first # "none"
  /\ job \notin {"fetch", "collect"} => \A p \in E!Providers : collected[p] # "running"
  /\ job \in {"mail", "sent", "not mailed"} => first = "none"
  /\ job \in {"mail", "sent"} => collected["expenses"] = "done"
  /\ consumer = "ok" => producer.pc = "closed"

\* A reason for which the stream may end in an error.
Excused ==
  late \/ first # "none" \/ "expenses" \in broken \/ collected["expenses"] \notin {"waiting", "running"}

Reasons ==
  /\ first = "none" \/ late \/ first \in broken
  /\ producer.result = "error" \/ errc = <<"error">> \/ consumer = "error" => Excused

\* What the blame of a failed job rests on.
FaultInv == ExportTypeInv /\ Progress /\ Reasons /\ FailuresAreNamed

\* Nothing has failed before the job begins.
LEMMA FaultInvInit == Init => FaultInv
<1>. SUFFICES ASSUME Init PROVE FaultInv
  OBVIOUS
<1>1. E!Init
  BY DEF Init
<1>2. /\ table \in SUBSET [id : RowIds, at : Seconds, tag : OldTags \cup GoneTags]
      /\ E!DistinctIds(table)
  BY <1>1 DEF E!Init
<1>3. table \subseteq E!Row
  BY <1>2, ExportAssumption DEF E!Row
<1>4. IsFiniteSet(table)
  <2>. DEFINE ids == [r \in table |-> r.id]
  <2>1. ids \in Injection(table, RowIds)
    BY <1>2 DEF E!DistinctIds, Injection, IsInjective
  <2>. HIDE DEF ids
  <2>. QED
    BY <2>1, ExportAssumption, FS_Injection
<1>5. ExportTypeInv
  <2>1. << >> \in Seq(E!Row) /\ << >> \in Seq([row : E!Row, tagName : Tags \cup {"Unknown"}])
    BY EmptySeq
  <2>2. producer \in [pc : Points, page : Seq(E!Row), more : BOOLEAN, cursor : Cursor, result : {"ok", "error"}]
    BY <1>1, <2>1 DEF E!Init, E!NoCursor, Cursor, Points
  <2>3. collected \in [E!Providers -> {"waiting", "running", "done", "failed"}]
    BY <1>1 DEF E!Init
  <2>. QED
    BY <1>1, <1>2, <1>3, <1>4, <2>1, <2>2, <2>3 DEF E!Init, ExportTypeInv
<1>6. Progress /\ Reasons
  <2>1. "expenses" \in E!Providers
    BY DEF E!Providers
  <2>. QED
    BY <1>1, <2>1 DEF E!Init, Progress, Reasons
<1>. QED
  BY <1>1, <1>5, <1>6 DEF E!Init, FaultInv, FailuresAreNamed, E!FailuresAreNamed

\* A sequence of one.
LEMMA OneResult ==
  ASSUME NEW x
  PROVE  /\ Append(<< >>, x) = <<x>> /\ <<x>> # << >>
         /\ Head(<<x>>) = x /\ Tail(<<x>>) = << >>
         /\ \A y : <<x>> = <<y>> <=> x = y
OBVIOUS

\* The steps of the export keep the types.
LEMMA ExportTypesNext ==
  ASSUME ExportTypeInv, E!Next
  PROVE  ExportTypeInv'
<1>. DEFINE Producers == [pc : Points, page : Seq(E!Row), more : BOOLEAN, cursor : Cursor,
                          result : {"ok", "error"}]
            Entries == [row : E!Row, tagName : Tags \cup {"Unknown"}]
<1>1. /\ collected \in [E!Providers -> {"waiting", "running", "done", "failed"}]
      /\ producer \in Producers
      /\ rows \in Seq(E!Row) /\ wire \in Seq(E!Row) /\ archive \in Seq(Entries)
      /\ table \subseteq E!Row /\ IsFiniteSet(table) /\ E!DistinctIds(table)
  BY DEF ExportTypeInv
<1>2. /\ producer.page \in Seq(E!Row) /\ producer.cursor \in Cursor /\ producer.more \in BOOLEAN
      /\ "expenses" \in E!Providers
  BY <1>1 DEF E!Providers
<1>3. ASSUME NEW page \in Seq(E!Row), NEW more \in BOOLEAN
      PROVE  E!Phase(page, more) \in Points /\ (E!Phase(page, more) = "feed" => page # << >>)
  BY DEF E!Phase, Points
<1>4. ASSUME UNCHANGED <<table, producer, rows, wire, archive, errc, consumer>>,
             \/ UNCHANGED collected
             \/ \E p \in E!Providers, s \in {"done", "failed"} : collected' = [collected EXCEPT ![p] = s]
      PROVE  ExportTypeInv'
  <2>1. collected' \in [E!Providers -> {"waiting", "running", "done", "failed"}]
    BY <1>1, <1>4
  <2>. QED
    BY <1>4, <2>1 DEF ExportTypeInv
<1>5. CASE E!FetchFinance
  <2>1. producer' \in Producers
    BY <1>1, <1>5 DEF E!FetchFinance, Points
  <2>2. collected' \in [E!Providers -> {"waiting", "running", "done", "failed"}]
    BY <1>5 DEF E!FetchFinance
  <2>. QED
    BY <1>5, <2>1, <2>2 DEF E!FetchFinance, ExportTypeInv
<1>6. CASE E!FetchFails \/ E!Wait \/ E!SendExportEmail \/ E!MailFails \/ E!Timeout
           \/ (\E t \in Tags : E!DeleteTag(t))
  BY <1>4, <1>6 DEF E!FetchFails, E!Wait, E!SendExportEmail, E!MailFails, E!Timeout,
                    E!DeleteTag, E!stream
<1>7. CASE (\E p \in Mappers : E!CollectMapper(p)) \/ E!EndStream
  <2>1. \E p \in E!Providers : collected' = [collected EXCEPT ![p] = "done"]
    BY <1>2, <1>7 DEF E!CollectMapper, E!EndStream, E!Providers
  <2>. QED
    BY <1>4, <1>7, <2>1 DEF E!CollectMapper, E!EndStream, E!stream
<1>8. ASSUME NEW p \in E!Providers,
             E!Break(p) \/ E!GiveUp(p) \/ (p = "expenses" /\ E!StreamFails)
      PROVE  ExportTypeInv'
  BY <1>4, <1>8 DEF E!Break, E!GiveUp, E!StreamFails, E!Stop, E!stream
<1>9. CASE E!ReadPage
  <2>. DEFINE p == E!Page(producer.cursor)
  <2>1. p.page \in Seq(E!Row) /\ p.more \in BOOLEAN /\ p.cursor \in Cursor
    <3>1. p.page \in Seq(table) /\ p.more \in BOOLEAN /\ p.cursor \in Cursor
      BY <1>1, <1>2, PageIsNext
    <3>. QED
      BY <1>1, <3>1, SeqMonotonic
  <2>2. producer' = [producer EXCEPT !.pc = E!Phase(p.page, p.more), !.page = p.page, !.more = p.more,
                                     !.cursor = p.cursor]
    BY <1>9 DEF E!ReadPage
  <2>. HIDE DEF p
  <2>3. producer' \in Producers /\ (producer'.pc = "feed" => producer'.page # << >>)
    BY <1>1, <1>3, <2>1, <2>2
  <2>. QED
    BY <1>9, <2>3 DEF E!ReadPage, ExportTypeInv
<1>10. CASE E!ReadFails \/ E!StopFeeding \/ E!Report
  <2>1. producer' \in Producers /\ producer'.pc # "feed"
    BY <1>1, <1>10 DEF E!ReadFails, E!StopFeeding, E!Report, Points
  <2>2. errc' \in {<< >>, <<"ok">>, <<"error">>}
    <3>1. CASE E!ReadFails \/ E!StopFeeding
      BY <3>1 DEF E!ReadFails, E!StopFeeding, ExportTypeInv
    <3>2. CASE E!Report
      <4>1. producer.result \in {"ok", "error"} /\ errc' = <<producer.result>>
        BY <1>1, <3>2, OneResult DEF E!Report, E!ErrcHasRoom
      <4>. QED
        BY <4>1
    <3>. QED
      BY <1>10, <3>1, <3>2
  <2>. QED
    BY <1>10, <2>1, <2>2 DEF E!ReadFails, E!StopFeeding, E!Report, ExportTypeInv
<1>11. CASE E!Feed
  <2>1. producer.page # << >>
    BY <1>11 DEF E!Feed, ExportTypeInv
  <2>2. Append(rows, Head(producer.page)) \in Seq(E!Row) /\ Tail(producer.page) \in Seq(E!Row)
    BY <1>1, <1>2, <2>1, HeadMoves
  <2>3. producer' = [producer EXCEPT !.page = Tail(producer.page),
                                     !.pc = E!Phase(Tail(producer.page), producer.more)]
    BY <1>1, <1>11 DEF E!Feed
  <2>4. producer' \in Producers /\ (producer'.pc = "feed" => producer'.page # << >>)
    BY <1>1, <1>2, <1>3, <2>2, <2>3
  <2>. QED
    BY <1>11, <2>2, <2>4 DEF E!Feed, ExportTypeInv
<1>12. CASE E!SendRow
  <2>1. wire' \in Seq(E!Row) /\ rows' \in Seq(E!Row)
    BY <1>1, <1>12, HeadMoves DEF E!SendRow
  <2>. QED
    BY <1>12, <2>1 DEF E!SendRow, ExportTypeInv
<1>13. CASE E!StopSending
  <2>1. rows' \in Seq(E!Row)
    BY <1>1, <1>13, HeadTailProperties DEF E!StopSending
  <2>. QED
    BY <1>13, <2>1 DEF E!StopSending, ExportTypeInv
<1>14. CASE E!ReturnResult
  <2>1. PICK x \in {"ok", "error"} : errc = <<x>>
    BY <1>14 DEF E!ReturnResult, ExportTypeInv
  <2>2. consumer' = x /\ errc' = << >>
    BY <1>14, <2>1, OneResult DEF E!ReturnResult
  <2>. QED
    BY <1>14, <2>2 DEF E!ReturnResult, ExportTypeInv
<1>15. CASE E!ReceiveRow
  <2>1. Head(wire) \in E!Row /\ Tail(wire) \in Seq(E!Row)
    BY <1>1, <1>15, HeadTailProperties DEF E!ReceiveRow
  <2>2. E!Shown(Head(wire).tag) \in Tags \cup {"Unknown"}
    BY <2>1 DEF E!Shown, E!Row
  <2>3. [row |-> Head(wire), tagName |-> E!Shown(Head(wire).tag)] \in Entries
    BY <2>1, <2>2
  <2>4. archive' \in Seq(Entries)
    <3>. HIDE DEF Entries
    <3>. QED
      BY <1>1, <1>15, <2>3, AppendProperties DEF E!ReceiveRow
  <2>. QED
    BY <1>15, <2>1, <2>4 DEF E!ReceiveRow, E!stream, ExportTypeInv
<1>16. ASSUME NEW r \in E!Row, E!InsertExpense(r) PROVE ExportTypeInv'
  <2>1. table' = table \cup {r} /\ \A s \in table : s.id # r.id
    BY <1>16 DEF E!InsertExpense
  <2>2. IsFiniteSet(table') /\ table' \subseteq E!Row
    BY <1>1, <2>1, FS_AddElement
  <2>3. E!DistinctIds(table')
    BY <1>1, <2>1 DEF E!DistinctIds
  <2>. QED
    BY <1>16, <2>2, <2>3 DEF E!InsertExpense, E!stream, ExportTypeInv
<1>17. CASE E!Program
  BY <1>2, <1>5, <1>6, <1>7, <1>8, <1>9, <1>10, <1>11, <1>12, <1>13, <1>14, <1>15, <1>17 DEF E!Program
<1>. QED
  BY <1>6, <1>8, <1>10, <1>16, <1>17 DEF E!Next, E!Providers

\* The types that the steps of the export rely on.
LEMMA ExportTypes ==
  ASSUME ExportTypeInv
  PROVE  /\ collected \in [E!Providers -> {"waiting", "running", "done", "failed"}]
         /\ "expenses" \in E!Providers /\ "none" \notin E!Providers
         /\ producer = [pc |-> producer.pc, page |-> producer.page, more |-> producer.more,
                        cursor |-> producer.cursor, result |-> producer.result]
         /\ producer.result \in {"ok", "error"}
         /\ \A p \in Mappers : p \in E!Providers /\ p # "expenses"
BY ExportAssumption DEF ExportTypeInv, E!Providers

\* Steps of the job, of its providers and of the user keep a reason once there is one.
LEMMA JobStepsFault ==
  ASSUME FaultInv, E!FetchFinance \/ E!FetchFails \/ E!Wait \/ E!SendExportEmail \/ E!MailFails \/ E!Timeout
  PROVE  Progress' /\ Reasons' /\ FailuresAreNamed'
<1>. USE DEF FaultInv, Progress, Reasons, Excused, FailuresAreNamed, E!FailuresAreNamed
<1>1. /\ collected \in [E!Providers -> {"waiting", "running", "done", "failed"}]
      /\ "expenses" \in E!Providers /\ "none" \notin E!Providers
      /\ producer = [pc |-> producer.pc, page |-> producer.page, more |-> producer.more,
                     cursor |-> producer.cursor, result |-> producer.result]
  BY ExportTypes
<1>2. CASE E!FetchFinance
  <2>1. /\ producer'.pc = "read" /\ producer'.result = producer.result
        /\ \A p \in E!Providers : collected'[p] = "running"
    BY <1>1, <1>2 DEF E!FetchFinance
  <2>. QED
    BY <1>1, <1>2, <2>1 DEF E!FetchFinance
<1>3. CASE E!FetchFails
  <2>1. /\ first = "none" /\ consumer = "off" /\ producer.pc = "off"
        /\ \A p \in E!Providers : collected[p] = "waiting"
    BY <1>3 DEF E!FetchFails
  <2>2. /\ job' \in {"timed out", "not fetched"}
        /\ UNCHANGED <<first, late, collected, producer, errc, consumer>>
    BY <1>3 DEF E!FetchFails, E!stream
  <2>3. Progress'
    BY <1>1, <2>1, <2>2
  <2>4. Reasons'
    <3>1. producer.result = "ok" /\ errc = << >>
      BY <2>1
    <3>. QED
      BY <2>1, <2>2, <3>1, OneResult
  <2>5. FailuresAreNamed'
    BY <1>1, <2>1, <2>2
  <2>. QED
    BY <2>3, <2>4, <2>5
<1>4. CASE E!Wait
  <2>1. \A p \in E!Providers : collected[p] # "running"
    BY <1>4 DEF E!Wait
  <2>2. first = "none" => collected["expenses"] = "done"
    BY <1>1, <1>4 DEF E!Wait
  <2>. QED
    BY <1>1, <1>4, <2>1, <2>2 DEF E!Wait, E!stream
<1>5. CASE E!SendExportEmail
  BY <1>1, <1>5 DEF E!SendExportEmail, E!stream
<1>6. CASE E!MailFails
  BY <1>1, <1>6 DEF E!MailFails, E!stream
<1>7. CASE E!Timeout
  BY <1>1, <1>7 DEF E!Timeout, E!stream
<1>. QED
  BY <1>2, <1>3, <1>4, <1>5, <1>6, <1>7

\* A provider that stops gives the job its reason, unless it has one.
LEMMA StopsFault ==
  ASSUME FaultInv, NEW p \in E!Providers, E!Stop(p),
         late \/ first # "none" \/ p \in broken',
         broken \subseteq broken',
         UNCHANGED <<job, late, producer, rows, errc, consumer>>
  PROVE  Progress' /\ Reasons' /\ FailuresAreNamed'
<1>. USE DEF FaultInv, Progress, Reasons, Excused, FailuresAreNamed, E!FailuresAreNamed
<1>1. /\ collected \in [E!Providers -> {"waiting", "running", "done", "failed"}]
      /\ "expenses" \in E!Providers /\ p # "none"
  BY ExportTypes
<1>2. /\ collected[p] = "running" /\ job = "collect"
      /\ first' = (IF first = "none" THEN p ELSE first) /\ first' # "none"
      /\ collected' = [collected EXCEPT ![p] = "failed"]
  BY <1>1 DEF E!Stop, E!KeepFirst
<1>3. \A q \in E!Providers : collected'[q] = IF q = p THEN "failed" ELSE collected[q]
  BY <1>1, <1>2
<1>4. Progress'
  BY <1>1, <1>2, <1>3
<1>5. Reasons' /\ FailuresAreNamed'
  BY <1>1, <1>2, <1>3
<1>. QED
  BY <1>4, <1>5

\* A provider ends well, or with a reason.
LEMMA ProviderStepsFault ==
  ASSUME FaultInv, NEW p \in E!Providers,
         \/ p # "expenses" /\ E!CollectMapper(p)
         \/ E!Break(p) \/ E!GiveUp(p)
         \/ p = "expenses" /\ (E!StreamFails \/ E!EndStream)
  PROVE  Progress' /\ Reasons' /\ FailuresAreNamed'
<1>1. /\ collected \in [E!Providers -> {"waiting", "running", "done", "failed"}]
      /\ "expenses" \in E!Providers
  BY ExportTypes DEF FaultInv
<1>2. CASE E!Break(p)
  BY <1>2, StopsFault DEF E!Break, E!stream
<1>3. CASE E!GiveUp(p)
  BY <1>3, StopsFault DEF E!GiveUp, E!Cancelled, E!stream
<1>4. CASE p = "expenses" /\ E!StreamFails
  <2>1. late \/ first # "none" \/ "expenses" \in broken
    BY <1>4 DEF E!StreamFails, E!Stop, FaultInv, Reasons, Excused
  <2>. QED
    BY <1>4, <2>1, StopsFault DEF E!StreamFails, E!stream
<1>5. CASE (p # "expenses" /\ E!CollectMapper(p)) \/ (p = "expenses" /\ E!EndStream)
  <2>1. /\ collected' = [collected EXCEPT ![p] = "done"] /\ collected[p] = "running"
        /\ UNCHANGED <<job, first, late, producer, rows, errc, consumer, broken>>
    BY <1>5 DEF E!CollectMapper, E!EndStream, E!stream
  <2>2. \A q \in E!Providers : collected'[q] = IF q = p THEN "done" ELSE collected[q]
    BY <1>1, <2>1
  <2>3. job = "collect"
    BY <2>1 DEF FaultInv, Progress
  <2>4. Progress'
    BY <1>1, <2>1, <2>2, <2>3 DEF FaultInv, Progress
  <2>5. Reasons' /\ FailuresAreNamed'
    BY <1>1, <2>1, <2>2 DEF FaultInv, Reasons, Excused, FailuresAreNamed, E!FailuresAreNamed
  <2>. QED
    BY <2>4, <2>5
<1>. QED
  BY <1>2, <1>3, <1>4, <1>5

\* A stream that is over for the producer has a reason, or the consumer is done with it.
LEMMA DoneIsExcused ==
  ASSUME FaultInv, E!StreamDone, producer.pc \in {"read", "feed"} \/ consumer = "receive"
  PROVE  Excused
BY ExportTypes DEF FaultInv, Progress, Reasons, Excused, E!StreamDone, E!Cancelled

\* The stream ends in an error for a reason only.
LEMMA StreamStepsFault ==
  ASSUME FaultInv,
         \/ E!ReadPage \/ E!ReadFails \/ E!Feed \/ E!StopFeeding \/ E!Report
         \/ E!SendRow \/ E!StopSending \/ E!ReturnResult \/ E!ReceiveRow
  PROVE  Progress' /\ Reasons' /\ FailuresAreNamed'
<1>1. /\ producer = [pc |-> producer.pc, page |-> producer.page, more |-> producer.more,
                     cursor |-> producer.cursor, result |-> producer.result]
      /\ producer.result \in {"ok", "error"}
      /\ errc \in {<< >>, <<"ok">>, <<"error">>}
  BY ExportTypes DEF FaultInv, ExportTypeInv
<1>2. UNCHANGED <<job, collected, first, late>> /\ broken \subseteq broken'
  BY DEF E!ReadPage, E!ReadFails, E!Feed, E!StopFeeding, E!Report, E!SendRow, E!StopSending,
         E!ReturnResult, E!ReceiveRow, E!stream
<1>3. FailuresAreNamed' /\ (Excused => Excused')
  BY <1>2 DEF FaultInv, FailuresAreNamed, E!FailuresAreNamed, Excused
<1>4. ASSUME producer'.pc # "off" <=> producer.pc # "off",
             consumer' # "off" <=> consumer # "off",
             producer.pc = "off" => UNCHANGED <<producer, errc>>,
             consumer' = "ok" => producer'.pc = "closed",
             (producer'.result = "error" \/ errc' = <<"error">> \/ consumer' = "error") =>
                Excused' \/ producer.result = "error" \/ errc = <<"error">> \/ consumer = "error"
      PROVE  Progress' /\ Reasons'
  <2>1. Progress'
    BY <1>2, <1>4 DEF FaultInv, Progress
  <2>2. Reasons'
    BY <1>2, <1>3, <1>4 DEF FaultInv, Reasons
  <2>. QED
    BY <2>1, <2>2
<1>5. CASE E!ReadPage \/ E!Feed
  <2>1. /\ producer.pc \in {"read", "feed"} /\ producer'.pc \in {"read", "feed", "report"}
        /\ producer'.result = producer.result /\ errc' = errc /\ consumer' = consumer
    BY <1>1, <1>5 DEF E!ReadPage, E!Feed, E!Phase
  <2>2. consumer # "ok"
    BY <2>1 DEF FaultInv, Progress
  <2>. QED
    BY <1>3, <1>4, <2>1, <2>2
<1>6. CASE E!ReadFails \/ E!StopFeeding
  <2>1. /\ producer.pc \in {"read", "feed"} /\ producer'.pc = "report"
        /\ errc' = errc /\ consumer' = consumer
    BY <1>1, <1>6 DEF E!ReadFails, E!StopFeeding
  <2>2. consumer # "ok"
    BY <2>1 DEF FaultInv, Progress
  <2>3. Excused'
    <3>1. CASE E!StreamDone
      BY <1>3, <2>1, <3>1, DoneIsExcused
    <3>2. CASE "expenses" \in broken'
      BY <3>2 DEF Excused
    <3>. QED
      BY <1>6, <3>1, <3>2 DEF E!ReadFails, E!StopFeeding
  <2>. QED
    BY <1>3, <1>4, <2>1, <2>2, <2>3
<1>7. CASE E!Report
  <2>1. /\ producer.pc = "report" /\ producer'.pc = "closed" /\ producer'.result = producer.result
        /\ errc' = <<producer.result>> /\ consumer' = consumer
    BY <1>1, <1>7, OneResult DEF E!Report, E!ErrcHasRoom
  <2>2. errc' = <<"error">> <=> producer.result = "error"
    BY <2>1, OneResult
  <2>. QED
    BY <1>3, <1>4, <2>1, <2>2
<1>8. CASE E!SendRow \/ E!ReceiveRow
  BY <1>3, <1>4, <1>8 DEF E!SendRow, E!ReceiveRow, E!stream, FaultInv, Progress
<1>9. CASE E!StopSending
  <2>1. Excused
    BY <1>9, DoneIsExcused DEF E!StopSending
  <2>. QED
    BY <1>3, <1>4, <1>9, <2>1 DEF E!StopSending
<1>10. CASE E!ReturnResult
  <2>1. PICK x \in {"ok", "error"} : errc = <<x>>
    BY <1>1, <1>10 DEF E!ReturnResult
  <2>2. consumer = "receive" /\ consumer' = x /\ errc' = << >> /\ producer' = producer /\ producer.pc = "closed"
    BY <1>10, <2>1, OneResult DEF E!ReturnResult
  <2>3. errc = <<"error">> <=> x = "error"
    BY <2>1, OneResult
  <2>4. errc' # <<"error">>
    BY <2>2, OneResult
  <2>. QED
    BY <1>3, <1>4, <2>2, <2>3, <2>4
<1>. QED
  BY <1>3, <1>5, <1>6, <1>7, <1>8, <1>9, <1>10

\* Every step keeps the reasons.
LEMMA FaultInvNext == FaultInv /\ [Next]_vars => FaultInv'
<1>. SUFFICES ASSUME FaultInv, E!Next PROVE Progress' /\ Reasons' /\ FailuresAreNamed'
  <2>. SUFFICES ASSUME FaultInv, [Next]_vars PROVE FaultInv'
    OBVIOUS
  <2>1. CASE E!Next
    BY <2>1, ExportTypesNext DEF FaultInv
  <2>2. CASE UNCHANGED exportVars
    <3>1. ExportTypeInv'
      BY <2>2 DEF exportVars, FaultInv, ExportTypeInv
    <3>2. Progress'
      BY <2>2 DEF exportVars, FaultInv, Progress
    <3>3. Reasons' /\ FailuresAreNamed'
      BY <2>2 DEF exportVars, FaultInv, Reasons, Excused, FailuresAreNamed, E!FailuresAreNamed
    <3>. QED
      BY <3>1, <3>2, <3>3 DEF FaultInv
  <2>. QED
    BY <2>1, <2>2, OnlyOnePart
<1>1. \A p \in Mappers : p \in E!Providers /\ p # "expenses"
  BY ExportTypes DEF FaultInv
<1>2. "expenses" \in E!Providers
  BY ExportTypes DEF FaultInv
<1>3. CASE \/ \E r \in E!Row : E!InsertExpense(r)
           \/ \E t \in Tags : E!DeleteTag(t)
  <2>1. UNCHANGED <<job, collected, first, late, producer, rows, errc, consumer, broken>>
    BY <1>3 DEF E!InsertExpense, E!DeleteTag, E!stream
  <2>. QED
    BY <2>1 DEF FaultInv, Progress, Reasons, Excused, FailuresAreNamed, E!FailuresAreNamed
<1>4. CASE E!Program
  BY <1>1, <1>2, <1>4, JobStepsFault, ProviderStepsFault, StreamStepsFault DEF E!Program
<1>. QED
  BY <1>1, <1>2, <1>3, <1>4, JobStepsFault, ProviderStepsFault, StreamStepsFault DEF E!Next, E!Providers

\* A job that fails while it collects blames a provider that failed by itself, not one
\* that was stopped for another's failure, for any number of providers and errors.
THEOREM BlamesAreDeserved == Spec => []FailuresAreNamed
<1>1. FaultInv => FailuresAreNamed
  BY DEF FaultInv
<1>. QED
  BY <1>1, FaultInvInit, FaultInvNext, PTL DEF Spec

-----------------------------------------------------------------------------
(* What the archive holds.                                                 *)

\* The rows of the archive, with those on the wire, and with all that were read and
\* not dropped, in the order in which they were read.
RowsOf(entries) == [k \in DOMAIN entries |-> entries[k].row]
Sent == RowsOf(archive) \o wire
Line == (Sent \o rows) \o producer.page

\* Who reads has handed on what it read before; who says that all is read has nothing
\* in hand, and no row that is owed behind its cursor.
Produced ==
  /\ producer.pc \in {"off", "read"} => producer.page = << >>
  /\ producer.pc \in {"report", "closed"} /\ producer.result = "ok" =>
       producer.page = << >> /\ ~ producer.more
  /\ producer.pc \notin {"off", "read"} /\ producer.result = "ok" /\ ~ producer.more =>
       \A r \in owed : ~ E!After(r, producer.cursor)
  /\ errc # << >> => producer.pc = "closed" /\ errc = <<producer.result>>

\* While the consumer receives, no row that is owed is lost between the table and the
\* archive, and none is out of order.
Flowing ==
  consumer \in {"off", "receive"} =>
    /\ Sorted(Line)
    /\ \A r \in Listed(Line) : ~ E!After(r, producer.cursor)
    /\ \A r \in owed : r \in Listed(Line) \/ E!After(r, producer.cursor)

\* Afterwards what was sent stays in order, and is all that is owed if the stream
\* ended well.
Delivered ==
  /\ Sorted(Sent)
  /\ consumer = "ok" => owed \subseteq Listed(Sent)
  /\ collected["expenses"] = "done" => owed \subseteq Listed(RowsOf(archive))

\* The tags that rows carried when the job began.
Carried == OldTags \cup GoneTags

\* The response of finance names those of them that are still there, and none that
\* was deleted before.
Named ==
  /\ owed \subseteq table /\ \A r \in owed : r.tag \in Carried
  /\ tags \cap GoneTags = {}
  /\ collected["expenses"] # "waiting" => names \cap GoneTags = {} /\ OldTags \cap tags \subseteq names
  /\ \A k \in DOMAIN archive :
       archive[k].row.tag \in Carried => archive[k].tagName \in E!Truthful(archive[k].row.tag)

\* What the archive's completeness rests on.
ArchiveInv == FaultInv /\ Produced /\ Flowing /\ Delivered /\ Named

\* The rows of entries, and of entries with one more.
LEMMA RowsOfEntries ==
  ASSUME NEW shown, NEW a \in Seq([row : E!Row, tagName : shown])
  PROVE  /\ RowsOf(a) \in Seq(E!Row) /\ DOMAIN RowsOf(a) = DOMAIN a
         /\ \A k \in DOMAIN a : RowsOf(a)[k] = a[k].row /\ a[k] = [row |-> a[k].row, tagName |-> a[k].tagName]
         /\ \A e \in [row : E!Row, tagName : shown] : RowsOf(Append(a, e)) = Append(RowsOf(a), e.row)
<1>. DEFINE Entries == [row : E!Row, tagName : shown]
<1>1. /\ DOMAIN a = 1..Len(a) /\ Len(a) \in Nat /\ \A k \in DOMAIN a : a[k] \in Entries
  BY LenProperties, ElementOfSeq
<1>2. \A k \in DOMAIN a : a[k].row \in E!Row /\ a[k] = [row |-> a[k].row, tagName |-> a[k].tagName]
  BY <1>1
<1>3. /\ RowsOf(a) \in Seq(E!Row) /\ Len(RowsOf(a)) = Len(a)
      /\ DOMAIN RowsOf(a) = 1..Len(a) /\ \A k \in 1..Len(a) : RowsOf(a)[k] = a[k].row
  <2>1. RowsOf(a) \in [1..Len(a) -> E!Row]
    BY <1>1, <1>2 DEF RowsOf
  <2>2. RowsOf(a) \in Seq(E!Row)
    BY <1>1, <2>1, SeqDef
  <2>3. DOMAIN RowsOf(a) = 1..Len(RowsOf(a)) /\ Len(RowsOf(a)) \in Nat
    BY <2>2, LenProperties
  <2>4. Len(RowsOf(a)) = Len(a)
    BY <1>1, <2>1, <2>3
  <2>. QED
    BY <1>1, <2>1, <2>2, <2>4 DEF RowsOf
<1>4. ASSUME NEW e \in Entries PROVE RowsOf(Append(a, e)) = Append(RowsOf(a), e.row)
  <2>. DEFINE b == Append(a, e)
              c == Append(RowsOf(a), e.row)
  <2>1. /\ b \in Seq(Entries) /\ Len(b) = Len(a) + 1
        /\ \A k \in 1..Len(a) : b[k] = a[k]
        /\ b[Len(a) + 1] = e
    <3>. HIDE DEF Entries
    <3>. QED
      BY <1>4, AppendProperties DEF Entries
  <2>2. /\ c \in Seq(E!Row) /\ Len(c) = Len(a) + 1
        /\ \A k \in 1..Len(a) : c[k] = RowsOf(a)[k]
        /\ c[Len(a) + 1] = e.row
    <3>1. e.row \in E!Row
      BY <1>4
    <3>. HIDE DEF Entries
    <3>. QED
      BY <1>3, <3>1, AppendProperties
  <2>. HIDE DEF b, c, Entries
  <2>3. DOMAIN b = 1..(Len(a) + 1) /\ DOMAIN c = 1..(Len(a) + 1)
    BY <2>1, <2>2, LenProperties
  <2>4. \A k \in 1..(Len(a) + 1) : k \in 1..Len(a) \/ k = Len(a) + 1
    BY <1>1
  <2>5. \A k \in 1..(Len(a) + 1) : b[k].row = c[k]
    BY <1>3, <2>1, <2>2, <2>4
  <2>6. RowsOf(b) = [k \in 1..(Len(a) + 1) |-> c[k]]
    BY <2>3, <2>5 DEF RowsOf
  <2>7. c = [k \in 1..(Len(a) + 1) |-> c[k]]
    <3>1. c \in [1..(Len(a) + 1) -> E!Row]
      <4>1. c \in [1..Len(c) -> E!Row]
        BY <2>2, LenProperties
      <4>. QED
        BY <2>2, <4>1
    <3>. QED
      BY <3>1
  <2>. QED
    BY <2>6, <2>7 DEF b, c
<1>. QED
  BY <1>1, <1>2, <1>3, <1>4

\* One more entry is one more row.
LEMMA EntryAppended ==
  ASSUME NEW shown, NEW a \in Seq([row : E!Row, tagName : shown]), NEW e \in [row : E!Row, tagName : shown]
  PROVE  RowsOf(Append(a, e)) = Append(RowsOf(a), e.row)
<1>1. \A x \in [row : E!Row, tagName : shown] : RowsOf(Append(a, x)) = Append(RowsOf(a), x.row)
  BY RowsOfEntries
<1>. QED
  BY <1>1, Zenon

\* An entry of a sequence with one more is the new one, or an earlier one.
LEMMA LastEntry ==
  ASSUME NEW set, NEW a \in Seq(set), NEW e, NEW k \in DOMAIN Append(a, e)
  PROVE  Append(a, e)[k] = e \/ (k \in DOMAIN a /\ Append(a, e)[k] = a[k])
OBVIOUS

\* The line in its parts.
LEMMA LineParts ==
  ASSUME ExportTypeInv
  PROVE  /\ RowsOf(archive) \in Seq(E!Row) /\ wire \in Seq(E!Row) /\ Sent \in Seq(E!Row)
         /\ rows \in Seq(E!Row) /\ Sent \o rows \in Seq(E!Row)
         /\ producer.page \in Seq(E!Row) /\ producer.cursor \in Cursor /\ producer.more \in BOOLEAN
         /\ Listed(Sent) = Listed(RowsOf(archive)) \cup Listed(wire)
         /\ Listed(Line) = (Listed(Sent) \cup Listed(rows)) \cup Listed(producer.page)
         /\ Listed(Line) \subseteq E!Row
         /\ Sorted(Line) => Sorted(Sent)
         /\ Sorted(Sent) => Sorted(RowsOf(archive))
<1>1. /\ RowsOf(archive) \in Seq(E!Row) /\ wire \in Seq(E!Row) /\ rows \in Seq(E!Row)
      /\ producer.page \in Seq(E!Row) /\ producer.cursor \in Cursor /\ producer.more \in BOOLEAN
  BY RowsOfEntries DEF ExportTypeInv
<1>2. Sent \in Seq(E!Row)
  BY <1>1, ConcatProperties DEF Sent
<1>3. Sent \o rows \in Seq(E!Row)
  BY <1>1, <1>2, ConcatProperties
<1>4. /\ Listed(Sent) = Listed(RowsOf(archive)) \cup Listed(wire)
      /\ Sorted(Sent) => Sorted(RowsOf(archive))
  BY <1>1, ListedTogether, SortedTogether DEF Sent
<1>5. /\ Listed(Sent \o rows) = Listed(Sent) \cup Listed(rows)
      /\ Sorted(Sent \o rows) => Sorted(Sent)
  BY <1>1, <1>2, ListedTogether, SortedTogether
<1>6. /\ Listed(Line) = Listed(Sent \o rows) \cup Listed(producer.page)
      /\ Sorted(Line) => Sorted(Sent \o rows)
  <2>. DEFINE page == producer.page
  <2>1. page \in Seq(E!Row) /\ Line = (Sent \o rows) \o page
    BY <1>1 DEF Line
  <2>. DEFINE queued == Sent \o rows
  <2>2. queued \in Seq(E!Row) /\ Line = queued \o page
    BY <1>3, <2>1
  <2>. HIDE DEF page, queued
  <2>3. Listed(queued \o page) = Listed(queued) \cup Listed(page)
    BY <2>1, <2>2, ListedTogether
  <2>4. Sorted(queued \o page) => Sorted(queued)
    BY <2>1, <2>2, SortedTogether
  <2>. QED
    BY <2>2, <2>3, <2>4 DEF page, queued
<1>7. Listed(Line) \subseteq E!Row
  <2>1. Listed(Sent \o rows) \subseteq E!Row /\ Listed(producer.page) \subseteq E!Row
    BY <1>1, <1>3, ListedTogether
  <2>. QED
    BY <1>6, <2>1
<1>. QED
  BY <1>1, <1>2, <1>3, <1>4, <1>5, <1>6, <1>7

\* The same of the next state: who sorted the line has sorted what was sent.
LEMMA SortedLineNext == (ExportTypeInv => (Sorted(Line) => Sorted(Sent)))'
<1>1. ExportTypeInv => (Sorted(Line) => Sorted(Sent))
  BY LineParts
<1>. QED
  BY <1>1, PTL

\* Nothing is listed by nothing.
LEMMA NothingListed ==
  /\ Listed(<< >>) = {} /\ Sorted(<< >>)
  /\ \A s \in Seq(E!Row) : s \o << >> = s
<1>1. DOMAIN << >> = {}
  OBVIOUS
<1>2. Listed(<< >>) = {} /\ Sorted(<< >>)
  BY <1>1 DEF Listed, Sorted
<1>3. \A s \in Seq(E!Row) : s \o << >> = s
  BY ConcatEmptySeq
<1>. QED
  BY <1>2, <1>3

\* Before the job all that is owed is behind the cursor.
LEMMA ArchiveInvInit == Init => ArchiveInv
<1>. SUFFICES ASSUME Init PROVE Produced /\ Flowing /\ Delivered /\ Named
  BY FaultInvInit DEF ArchiveInv
<1>1. E!Init
  BY DEF Init
<1>2. /\ producer.pc = "off" /\ producer.page = << >> /\ rows = << >> /\ wire = << >> /\ archive = << >>
      /\ errc = << >> /\ owed = table /\ producer.cursor = E!NoCursor /\ consumer = "off"
      /\ collected["expenses"] = "waiting"
  BY <1>1 DEF E!Init, E!Providers
<1>3. RowsOf(archive) = << >>
  BY <1>2 DEF RowsOf
<1>4. Sent = << >> /\ Line = << >>
  <2>1. << >> \o << >> = << >>
    BY NothingListed, EmptySeq
  <2>. QED
    BY <1>2, <1>3, <2>1 DEF Sent, Line
<1>5. table \subseteq [id : RowIds, at : Seconds, tag : Carried] /\ tags = OldTags
  BY <1>1 DEF E!Init, Carried
<1>6. \A r \in owed : E!After(r, producer.cursor)
  <2>1. \A r \in owed : r.at \in Nat \ {0}
    BY <1>2, <1>5, ExportAssumption
  <2>. QED
    BY <1>2, <2>1 DEF E!After, E!NoCursor
<1>7. Named
  <2>1. DOMAIN archive = {} /\ (\A r \in owed : r.tag \in Carried) /\ OldTags \cap GoneTags = {}
    BY <1>2, <1>5, ExportAssumption
  <2>. QED
    BY <1>2, <1>5, <2>1 DEF Named
<1>. QED
  BY <1>2, <1>3, <1>4, <1>6, <1>7, NothingListed DEF Produced, Flowing, Delivered

\* What may be said of a tag may be said for good: ids of deleted tags do not come back.
LEMMA TruthStays ==
  ASSUME tags' \cap Carried \subseteq tags, NEW t \in Carried, NEW n \in E!Truthful(t)
  PROVE  n \in E!Truthful(t)'
BY DEF E!Truthful

\* Names of the archive stay as they are while tags are deleted.
LEMMA NamesStay ==
  ASSUME Named, tags' \cap Carried \subseteq tags, UNCHANGED archive
  PROVE  (\A k \in DOMAIN archive :
            archive[k].row.tag \in Carried => archive[k].tagName \in E!Truthful(archive[k].row.tag))'
<1>. SUFFICES ASSUME NEW k \in DOMAIN archive, archive[k].row.tag \in Carried
              PROVE  archive[k].tagName \in E!Truthful(archive[k].row.tag)'
  BY DEF Carried
<1>1. archive[k].tagName \in E!Truthful(archive[k].row.tag)
  BY DEF Named
<1>. QED
  BY <1>1, TruthStays

\* Steps that change neither tags nor the archive's entries.
LEMMA NamedStays ==
  ASSUME Named, UNCHANGED <<table, tags, names, archive, owed>>,
         collected["expenses"] # "waiting" \/ collected'["expenses"] = "waiting"
  PROVE  Named'
<1>1. tags' \cap Carried \subseteq tags
  OBVIOUS
<1>2. (\A k \in DOMAIN archive :
         archive[k].row.tag \in Carried => archive[k].tagName \in E!Truthful(archive[k].row.tag))'
  BY <1>1, NamesStay
<1>3. /\ owed' \subseteq table' /\ \A r \in owed' : r.tag \in Carried
      /\ tags' \cap GoneTags = {}
      /\ collected'["expenses"] # "waiting" => names' \cap GoneTags = {} /\ OldTags \cap tags' \subseteq names'
  BY DEF Named
<1>. QED
  BY <1>2, <1>3 DEF Named, Carried

\* A step of the job, of a provider or of the user leaves the stream as it is.
LEMMA OtherStepsKeepTheStream ==
  ASSUME ArchiveInv,
         UNCHANGED <<producer, rows, errc, consumer, wire, archive, owed>>,
         UNCHANGED table \/ (\E r \in E!Row : table' = table \cup {r}),
         tags' \cap Carried \subseteq tags,
         UNCHANGED names \/ (names' = tags /\ collected["expenses"] = "waiting"),
         collected["expenses"] = "waiting" => collected'["expenses"] = "waiting" \/ names' = tags,
         collected'["expenses"] = "done" => collected["expenses"] = "done"
  PROVE  Produced' /\ Flowing' /\ Delivered' /\ Named'
<1>1. Line' = Line /\ Sent' = Sent /\ RowsOf(archive)' = RowsOf(archive)
  BY DEF Line, Sent, RowsOf
<1>2. Produced' /\ Flowing' /\ Delivered'
  BY <1>1 DEF ArchiveInv, Produced, Flowing, Delivered
<1>3. collected'["expenses"] # "waiting" => names' \cap GoneTags = {} /\ OldTags \cap tags' \subseteq names'
  BY DEF ArchiveInv, Named, Carried
<1>4. owed' \subseteq table' /\ (\A r \in owed' : r.tag \in Carried) /\ tags' \cap GoneTags = {}
  BY DEF ArchiveInv, Named, Carried
<1>5. (\A k \in DOMAIN archive :
         archive[k].row.tag \in Carried => archive[k].tagName \in E!Truthful(archive[k].row.tag))'
  BY NamesStay DEF ArchiveInv
<1>6. Named'
  BY <1>3, <1>4, <1>5 DEF Named, Carried
<1>. QED
  BY <1>2, <1>6

\* The producer has a page of rows that no one has seen, from the cursor on.
LEMMA ReadPageArchive ==
  ASSUME ArchiveInv, E!ReadPage
  PROVE  Produced' /\ Flowing' /\ Delivered' /\ Named'
<1>. DEFINE p == E!Page(producer.cursor)
<1>1. /\ producer.pc = "read" /\ producer.page = << >> /\ errc = << >>
      /\ UNCHANGED <<table, tags, names, collected, rows, errc, consumer, wire, archive, owed>>
  BY DEF E!ReadPage, ArchiveInv, Produced
<1>2. /\ producer'.pc = E!Phase(p.page, p.more) /\ producer'.page = p.page
      /\ producer'.more = p.more /\ producer'.cursor = p.cursor
  BY DEF E!ReadPage, ArchiveInv, FaultInv, ExportTypeInv
<1>3. /\ table \subseteq E!Row /\ IsFiniteSet(table) /\ E!DistinctIds(table) /\ producer.cursor \in Cursor
      /\ Listed(Line) \subseteq E!Row /\ Sent \o rows \in Seq(E!Row)
      /\ owed \subseteq table
  BY LineParts DEF ArchiveInv, FaultInv, ExportTypeInv, Named
<1>4. /\ p.page \in Seq(table) /\ Sorted(p.page) /\ p.more \in BOOLEAN
      /\ \A r \in Listed(p.page) : E!After(r, producer.cursor) /\ ~ E!After(r, p.cursor)
      /\ \A r \in E!Row : ~ E!After(r, producer.cursor) => ~ E!After(r, p.cursor)
      /\ \A r \in table : E!After(r, producer.cursor) =>
           r \in Listed(p.page) \/ (p.more /\ E!After(r, p.cursor))
  BY <1>3, PageIsNext
<1>. HIDE DEF p
<1>5. p.page \in Seq(E!Row) /\ Listed(p.page) \subseteq E!Row
  <2>1. p.page \in Seq(E!Row)
    BY <1>3, <1>4, SeqMonotonic
  <2>. QED
    BY <2>1, ListedTogether
<1>6. Produced'
  <2>1. p.page = << >> /\ p.more => producer'.pc = "read"
    BY <1>2 DEF E!Phase
  <2>2. p.page # << >> => producer'.pc = "feed"
    BY <1>2 DEF E!Phase
  <2>3. p.page = << >> /\ ~ p.more => producer'.pc = "report"
    BY <1>2 DEF E!Phase
  <2>4. ~ p.more => \A r \in owed : ~ E!After(r, p.cursor)
    BY <1>3, <1>4
  <2>. QED
    BY <1>1, <1>2, <1>4, <2>1, <2>2, <2>3, <2>4 DEF Produced
<1>7. Line = Sent \o rows /\ Line' = Line \o p.page /\ Sent' = Sent
  <2>1. (Sent \o rows) \o << >> = Sent \o rows
    BY <1>3, NothingListed
  <2>. QED
    BY <1>1, <1>2, <2>1 DEF Line, Sent, RowsOf
<1>8. Flowing'
  <2>. SUFFICES ASSUME consumer \in {"off", "receive"}
                PROVE  /\ Sorted(Line')
                       /\ \A r \in Listed(Line') : ~ E!After(r, p.cursor)
                       /\ \A r \in owed : r \in Listed(Line') \/ E!After(r, p.cursor)
    BY <1>1, <1>2 DEF Flowing, Listed, Sorted
  <2>1. /\ Sorted(Line)
        /\ \A r \in Listed(Line) : ~ E!After(r, producer.cursor)
        /\ \A r \in owed : r \in Listed(Line) \/ E!After(r, producer.cursor)
    BY DEF ArchiveInv, Flowing
  <2>2. Line \in Seq(E!Row) /\ Listed(Line') = Listed(Line) \cup Listed(p.page)
    <3>. DEFINE page == p.page
    <3>1. Line \in Seq(E!Row) /\ page \in Seq(E!Row) /\ Line' = Line \o page
      BY <1>3, <1>5, <1>7
    <3>. HIDE DEF page
    <3>2. Listed(Line \o page) = Listed(Line) \cup Listed(page)
      BY <3>1, ListedTogether
    <3>. QED
      BY <3>1, <3>2 DEF page
  <2>3. \A r \in Listed(Line) : \A q \in Listed(p.page) : E!Before(r, q)
    BY <1>3, <1>4, <1>5, <2>1, CursorOrder
  <2>4. Sorted(Line')
    <3>. DEFINE page == p.page
    <3>1. page \in Seq(E!Row) /\ Sorted(page) /\ Line' = Line \o page
      BY <1>4, <1>5, <1>7
    <3>2. \A r \in Listed(Line) : \A q \in Listed(page) : E!Before(r, q)
      BY <2>3
    <3>. HIDE DEF page
    <3>3. Sorted(Line \o page)
      BY <2>1, <2>2, <3>1, <3>2, SortedTogether
    <3>. QED
      BY <3>1, <3>3
  <2>5. \A r \in Listed(Line') : ~ E!After(r, p.cursor)
    BY <1>3, <1>4, <2>1, <2>2
  <2>6. \A r \in owed : r \in Listed(Line') \/ E!After(r, p.cursor)
    BY <1>3, <1>4, <2>1, <2>2
  <2>. QED
    BY <2>4, <2>5, <2>6
<1>9. Delivered'
  BY <1>1, <1>7 DEF ArchiveInv, Delivered, RowsOf
<1>10. Named'
  BY <1>1, NamedStays DEF ArchiveInv
<1>. QED
  BY <1>6, <1>8, <1>9, <1>10

\* What goes on to the next place stays in line.
LEMMA MovesStayInLine ==
  ASSUME ArchiveInv, E!Feed \/ E!SendRow \/ E!ReceiveRow
  PROVE  Line' = Line /\ (Sent' = Sent \/ E!SendRow)
<1>. DEFINE filed == RowsOf(archive)
            page == producer.page
            rest == producer'.page
<1>1. /\ filed \in Seq(E!Row) /\ wire \in Seq(E!Row) /\ Sent \in Seq(E!Row)
      /\ rows \in Seq(E!Row) /\ page \in Seq(E!Row)
  BY LineParts DEF ArchiveInv, FaultInv
<1>2. Sent = filed \o wire /\ Line = (Sent \o rows) \o page /\ Line' = (Sent' \o rows') \o rest
  BY DEF Sent, Line
<1>. HIDE DEF filed
<1>3. CASE E!Feed
  <2>1. /\ page # << >> /\ rows' = Append(rows, Head(page))
        /\ rest = Tail(page) /\ UNCHANGED <<wire, archive>>
    BY <1>3 DEF E!Feed, ArchiveInv, FaultInv, ExportTypeInv
  <2>2. Sent' = Sent
    BY <2>1 DEF Sent, RowsOf
  <2>. HIDE DEF page, rest
  <2>3. Joined(Sent, Append(rows, Head(page)), Tail(page)) = Joined(Sent, rows, page)
    <3>1. OfRows(Sent) /\ OfRows(rows) /\ OfRows(page)
      BY <1>1 DEF OfRows
    <3>2. page # << >>
      BY <2>1
    <3>. QED
      BY <3>1, <3>2, HeadMovesBehind
  <2>. QED
    BY <1>2, <2>1, <2>2, <2>3 DEF Joined
<1>4. CASE E!SendRow
  <2>1. /\ rows # << >> /\ wire' = Append(wire, Head(rows)) /\ rows' = Tail(rows)
        /\ UNCHANGED archive /\ rest = page
    BY <1>4 DEF E!SendRow
  <2>. HIDE DEF page, rest
  <2>2. Sent' = filed \o wire'
    BY <2>1 DEF Sent, RowsOf, filed
  <2>3. Joined(filed, Append(wire, Head(rows)), Tail(rows)) = Joined(filed, wire, rows)
    <3>1. OfRows(filed) /\ OfRows(wire) /\ OfRows(rows)
      BY <1>1 DEF OfRows
    <3>2. rows # << >>
      BY <2>1
    <3>. QED
      BY <3>1, <3>2, HeadMovesBehind
  <2>4. Sent' \o rows' = Sent \o rows
    BY <1>2, <2>1, <2>2, <2>3 DEF Joined
  <2>. QED
    BY <1>2, <1>4, <2>1, <2>4
<1>5. CASE E!ReceiveRow
  <2>. DEFINE entry == [row |-> Head(wire), tagName |-> E!Shown(Head(wire).tag)]
  <2>1. /\ wire # << >> /\ archive' = Append(archive, entry) /\ wire' = Tail(wire)
        /\ UNCHANGED rows /\ rest = page
    BY <1>5 DEF E!ReceiveRow, E!stream
  <2>. HIDE DEF page, rest
  <2>2. entry \in [row : E!Row, tagName : Tags \cup {"Unknown"}]
    <3>1. Head(wire) \in E!Row
      BY <1>1, <2>1, HeadTailProperties
    <3>. QED
      BY <3>1 DEF E!Shown, E!Row
  <2>3. entry.row = Head(wire)
    OBVIOUS
  <2>. HIDE DEF entry
  <2>4. archive \in Seq([row : E!Row, tagName : Tags \cup {"Unknown"}])
    BY DEF ArchiveInv, FaultInv, ExportTypeInv
  <2>5. RowsOf(archive') = Append(filed, Head(wire))
    <3>1. RowsOf(Append(archive, entry)) = Append(RowsOf(archive), entry.row)
      <4>. DEFINE shown == Tags \cup {"Unknown"}
      <4>1. archive \in Seq([row : E!Row, tagName : shown]) /\ entry \in [row : E!Row, tagName : shown]
        BY <2>2, <2>4
      <4>. HIDE DEF shown
      <4>. QED
        BY <4>1, EntryAppended
    <3>. QED
      BY <2>1, <2>3, <3>1 DEF filed
  <2>6. Append(filed, Head(wire)) \o Tail(wire) = filed \o wire
    BY <1>1, <2>1, HeadMoves
  <2>7. Sent' = RowsOf(archive') \o wire'
    BY DEF Sent, RowsOf
  <2>8. Sent' = Sent
    BY <1>2, <2>1, <2>5, <2>6, <2>7
  <2>. QED
    BY <1>2, <2>1, <2>8
<1>. QED
  BY <1>3, <1>4, <1>5

\* The steps that take a row one place further lose none.
LEMMA MovesArchive ==
  ASSUME ArchiveInv, E!Feed \/ E!SendRow \/ E!ReceiveRow
  PROVE  Produced' /\ Flowing' /\ Delivered' /\ Named'
<1>1. Line' = Line /\ (Sent' = Sent \/ E!SendRow)
  BY MovesStayInLine
<1>2. /\ UNCHANGED <<table, tags, names, collected, errc, consumer, owed>>
      /\ producer'.cursor = producer.cursor /\ producer'.more = producer.more
      /\ producer'.result = producer.result
  BY DEF E!Feed, E!SendRow, E!ReceiveRow, E!stream, ArchiveInv, FaultInv, ExportTypeInv
<1>3. Produced'
  <2>1. CASE E!SendRow \/ E!ReceiveRow
    <3>1. UNCHANGED <<producer, errc, owed>>
      BY <2>1 DEF E!SendRow, E!ReceiveRow, E!stream
    <3>. QED
      BY <3>1 DEF ArchiveInv, Produced
  <2>2. CASE E!Feed
    <3>1. /\ producer.pc = "feed" /\ producer'.page = Tail(producer.page)
          /\ producer'.pc = E!Phase(Tail(producer.page), producer.more)
      BY <2>2 DEF E!Feed, ArchiveInv, FaultInv, ExportTypeInv
    <3>2. /\ producer'.pc = "feed" \/ producer'.page = << >>
          /\ producer'.pc \in {"feed", "read"} \/ ~ producer.more
          /\ producer'.pc \notin {"off", "closed"}
      <4>1. producer.more \in BOOLEAN
        BY LineParts DEF ArchiveInv, FaultInv
      <4>. QED
        BY <3>1, <4>1 DEF E!Phase
    <3>3. errc = << >>
      BY <3>1 DEF ArchiveInv, Produced
    <3>4. producer'.result = "ok" /\ ~ producer'.more => \A r \in owed : ~ E!After(r, producer'.cursor)
      BY <1>2, <3>1 DEF ArchiveInv, Produced
    <3>. QED
      BY <1>2, <3>2, <3>3, <3>4 DEF Produced
  <2>. QED
    BY <2>1, <2>2
<1>4. Flowing'
  BY <1>1, <1>2 DEF ArchiveInv, Flowing
<1>5. Delivered'
  <2>1. CASE E!SendRow
    <3>1. consumer = "receive" /\ Sorted(Line)
      BY <2>1 DEF E!SendRow, ArchiveInv, Flowing
    <3>2. Sorted(Sent')
      <4>1. ExportTypeInv'
        BY <2>1, ExportTypesNext DEF ArchiveInv, FaultInv, E!Next, E!Program
      <4>2. Sorted(Line') => Sorted(Sent')
        BY <4>1, SortedLineNext
      <4>. QED
        BY <1>1, <3>1, <4>2
    <3>3. UNCHANGED archive
      BY <2>1 DEF E!SendRow
    <3>. QED
      BY <1>2, <3>1, <3>2, <3>3 DEF ArchiveInv, Delivered, RowsOf
  <2>2. CASE ~ E!SendRow
    <3>1. Sent' = Sent
      BY <1>1, <2>2
    <3>2. collected["expenses"] = "running" \/ UNCHANGED archive
      BY <2>2 DEF E!Feed, E!ReceiveRow
    <3>. QED
      BY <1>2, <3>1, <3>2 DEF ArchiveInv, Delivered, RowsOf
  <2>. QED
    BY <2>1, <2>2
<1>6. Named'
  <2>1. CASE UNCHANGED <<archive, names>>
    BY <1>2, <2>1, NamedStays DEF ArchiveInv
  <2>2. CASE E!ReceiveRow
    <3>. DEFINE entry == [row |-> Head(wire), tagName |-> E!Shown(Head(wire).tag)]
    <3>1. archive' = Append(archive, entry) /\ collected["expenses"] = "running"
      BY <2>2 DEF E!ReceiveRow
    <3>2. names \cap GoneTags = {} /\ OldTags \cap tags \subseteq names /\ tags \cap GoneTags = {}
      BY <3>1 DEF ArchiveInv, Named
    <3>3. \A t \in Carried : E!Shown(t) \in E!Truthful(t)
      BY <3>2 DEF E!Shown, E!Truthful, Carried
    <3>4. entry.row.tag \in Carried => entry.tagName \in E!Truthful(entry.row.tag)
      BY <3>3
    <3>. HIDE DEF entry
    <3>5. \A k \in DOMAIN archive' : archive'[k] = entry \/ (k \in DOMAIN archive /\ archive'[k] = archive[k])
      <4>1. archive \in Seq([row : E!Row, tagName : Tags \cup {"Unknown"}])
        BY DEF ArchiveInv, FaultInv, ExportTypeInv
      <4>. QED
        BY <3>1, <4>1, LastEntry
    <3>6. \A k \in DOMAIN archive' :
            archive'[k].row.tag \in Carried => archive'[k].tagName \in E!Truthful(archive'[k].row.tag)
      BY <3>4, <3>5 DEF ArchiveInv, Named
    <3>7. \A t : E!Truthful(t)' = E!Truthful(t)
      BY <1>2 DEF E!Truthful
    <3>8. UNCHANGED names
      BY <2>2 DEF E!ReceiveRow
    <3>. QED
      BY <1>2, <3>6, <3>7, <3>8 DEF ArchiveInv, Named, Carried
  <2>. QED
    BY <2>1, <2>2 DEF E!Feed, E!SendRow
<1>. QED
  BY <1>3, <1>4, <1>5, <1>6

\* A stream that ends for a reason loses its last rows, and ends in an error.
LEMMA EndsArchive ==
  ASSUME ArchiveInv,
         E!ReadFails \/ E!StopFeeding \/ E!Report \/ E!StopSending \/ E!ReturnResult \/ E!EndStream
  PROVE  Produced' /\ Flowing' /\ Delivered' /\ Named'
<1>1. /\ UNCHANGED <<table, tags, names, wire, archive, owed>>
      /\ producer'.cursor = producer.cursor /\ producer'.more = producer.more
      /\ producer'.page = producer.page
      /\ collected["expenses"] # "waiting" \/ UNCHANGED collected
  BY DEF E!ReadFails, E!StopFeeding, E!Report, E!StopSending, E!ReturnResult, E!EndStream, E!stream,
         ArchiveInv, FaultInv, ExportTypeInv
<1>2. Sent' = Sent /\ RowsOf(archive)' = RowsOf(archive)
  BY <1>1 DEF Sent, RowsOf
<1>3. Named'
  BY <1>1, NamedStays DEF ArchiveInv
<1>4. CASE E!ReadFails \/ E!StopFeeding
  <2>1. /\ producer'.pc = "report" /\ producer'.result = "error" /\ producer.pc \in {"read", "feed"}
        /\ UNCHANGED <<collected, rows, errc, consumer>>
    BY <1>4 DEF E!ReadFails, E!StopFeeding, ArchiveInv, FaultInv, ExportTypeInv
  <2>2. Line' = Line
    BY <1>1, <1>2, <2>1 DEF Line
  <2>. QED
    BY <1>1, <1>2, <1>3, <2>1, <2>2 DEF ArchiveInv, Produced, Flowing, Delivered
<1>5. CASE E!Report
  <2>1. /\ producer.pc = "report" /\ producer'.pc = "closed" /\ producer'.result = producer.result
        /\ errc' = <<producer'.result>> /\ UNCHANGED <<collected, rows, consumer>>
    BY <1>5, OneResult DEF E!Report, E!ErrcHasRoom, ArchiveInv, FaultInv, ExportTypeInv
  <2>2. Line' = Line
    BY <1>1, <1>2, <2>1 DEF Line
  <2>3. Produced'
    BY <1>1, <2>1 DEF ArchiveInv, Produced
  <2>4. Flowing' /\ Delivered'
    BY <1>1, <1>2, <2>1, <2>2 DEF ArchiveInv, Flowing, Delivered
  <2>. QED
    BY <1>3, <2>3, <2>4
<1>6. CASE E!StopSending
  BY <1>1, <1>2, <1>3, <1>6 DEF E!StopSending, ArchiveInv, Produced, Flowing, Delivered
<1>7. CASE E!ReturnResult
  <2>1. /\ consumer = "receive" /\ rows = << >> /\ producer.pc = "closed"
        /\ errc = <<producer.result>> /\ UNCHANGED <<producer, collected, rows>>
    BY <1>7 DEF E!ReturnResult, ArchiveInv, Produced
  <2>2. consumer' = producer.result /\ errc' = << >>
    BY <1>7, <2>1, OneResult DEF E!ReturnResult
  <2>3. producer.result \in {"ok", "error"}
    BY ExportTypes DEF ArchiveInv, FaultInv
  <2>4. producer.result = "ok" => owed \subseteq Listed(Sent)
    <3>. SUFFICES ASSUME producer.result = "ok" PROVE owed \subseteq Listed(Sent)
      OBVIOUS
    <3>1. producer.page = << >> /\ ~ producer.more
      BY <2>1 DEF ArchiveInv, Produced
    <3>2. \A r \in owed : ~ E!After(r, producer.cursor)
      BY <2>1, <3>1 DEF ArchiveInv, Produced
    <3>3. owed \subseteq Listed(Line)
      BY <2>1, <3>2 DEF ArchiveInv, Flowing
    <3>4. Listed(Line) = (Listed(Sent) \cup Listed(rows)) \cup Listed(producer.page)
      BY LineParts DEF ArchiveInv, FaultInv
    <3>. QED
      BY <2>1, <3>1, <3>3, <3>4, NothingListed
  <2>5. Produced' /\ Flowing'
    BY <1>1, <2>1, <2>2, <2>3 DEF ArchiveInv, Produced, Flowing
  <2>6. Delivered'
    BY <1>1, <1>2, <2>1, <2>2, <2>4 DEF ArchiveInv, Delivered
  <2>. QED
    BY <1>3, <2>5, <2>6
<1>8. CASE E!EndStream
  <2>1. wire = << >> /\ consumer = "ok" /\ UNCHANGED <<producer, rows, errc, consumer>>
    BY <1>8 DEF E!EndStream, E!stream
  <2>2. Line' = Line
    BY <1>1, <1>2, <2>1 DEF Line
  <2>3. Listed(RowsOf(archive)) = Listed(Sent)
    BY <2>1, LineParts, NothingListed DEF ArchiveInv, FaultInv
  <2>4. Produced' /\ Flowing'
    BY <1>1, <2>1, <2>2 DEF ArchiveInv, Produced, Flowing
  <2>5. Delivered'
    BY <1>1, <1>2, <2>1, <2>3 DEF ArchiveInv, Delivered
  <2>. QED
    BY <1>3, <2>4, <2>5
<1>. QED
  BY <1>4, <1>5, <1>6, <1>7, <1>8

\* The stream begins when the tags of the user's response are known.
LEMMA FetchArchive ==
  ASSUME ArchiveInv, E!FetchFinance
  PROVE  Produced' /\ Flowing' /\ Delivered' /\ Named'
<1>1. /\ UNCHANGED <<table, tags, rows, errc, wire, archive, owed>>
      /\ names' = tags /\ consumer' = "receive" /\ job = "fetch" /\ "expenses" \in E!Providers
      /\ collected' = [p \in E!Providers |-> "running"]
  BY DEF E!FetchFinance, E!Providers
<1>2. consumer = "off" /\ producer.pc = "off" /\ errc = << >>
  BY <1>1 DEF ArchiveInv, FaultInv, Progress
<1>3. /\ producer'.pc = "read" /\ producer'.page = producer.page /\ producer'.more = producer.more
      /\ producer'.cursor = producer.cursor /\ producer'.result = producer.result
  BY DEF E!FetchFinance, ArchiveInv, FaultInv, ExportTypeInv
<1>4. Line' = Line /\ Sent' = Sent
  BY <1>1, <1>3 DEF Line, Sent, RowsOf
<1>5. Produced' /\ Flowing'
  BY <1>1, <1>2, <1>3, <1>4 DEF ArchiveInv, Produced, Flowing
<1>6. Delivered'
  BY <1>1, <1>4 DEF ArchiveInv, Delivered
<1>7. Named'
  <2>1. tags' \cap Carried \subseteq tags
    BY <1>1
  <2>2. (\A k \in DOMAIN archive :
           archive[k].row.tag \in Carried => archive[k].tagName \in E!Truthful(archive[k].row.tag))'
    BY <1>1, <2>1, NamesStay DEF ArchiveInv
  <2>3. /\ owed' \subseteq table' /\ (\A r \in owed' : r.tag \in Carried) /\ tags' \cap GoneTags = {}
        /\ names' \cap GoneTags = {} /\ OldTags \cap tags' \subseteq names'
    BY <1>1 DEF ArchiveInv, Named
  <2>. QED
    BY <2>2, <2>3 DEF Named, Carried
<1>. QED
  BY <1>5, <1>6, <1>7

\* Every step keeps what is owed in line.
LEMMA ArchiveInvNext == ArchiveInv /\ [Next]_vars => ArchiveInv'
<1>. SUFFICES ASSUME ArchiveInv, E!Next PROVE Produced' /\ Flowing' /\ Delivered' /\ Named'
  <2>. SUFFICES ASSUME ArchiveInv, [Next]_vars PROVE ArchiveInv'
    OBVIOUS
  <2>1. FaultInv'
    BY FaultInvNext DEF ArchiveInv
  <2>2. CASE E!Next
    BY <2>1, <2>2 DEF ArchiveInv
  <2>3. CASE UNCHANGED exportVars
    <3>1. UNCHANGED <<table, tags, names, collected, producer, rows, errc, consumer, wire, archive, owed>>
      BY <2>3 DEF exportVars
    <3>2. Produced' /\ Flowing' /\ Delivered' /\ Named'
      BY <3>1, OtherStepsKeepTheStream
    <3>. QED
      BY <2>1, <3>2 DEF ArchiveInv
  <2>. QED
    BY <2>2, <2>3, OnlyOnePart
<1>1. \A p \in Mappers : p \in E!Providers /\ p # "expenses"
  BY ExportTypes DEF ArchiveInv, FaultInv
<1>2. collected \in [E!Providers -> {"waiting", "running", "done", "failed"}] /\ "expenses" \in E!Providers
  BY ExportTypes DEF ArchiveInv, FaultInv
<1>3. CASE E!FetchFails \/ E!Wait \/ E!SendExportEmail \/ E!MailFails \/ E!Timeout
  BY <1>3, OtherStepsKeepTheStream
     DEF E!FetchFails, E!Wait, E!SendExportEmail, E!MailFails, E!Timeout, E!stream
<1>4. ASSUME NEW p \in E!Providers,
             \/ E!Break(p) \/ E!GiveUp(p)
             \/ p = "expenses" /\ E!StreamFails
             \/ p # "expenses" /\ E!CollectMapper(p)
      PROVE  Produced' /\ Flowing' /\ Delivered' /\ Named'
  <2>1. /\ UNCHANGED <<table, tags, names, producer, rows, errc, consumer, wire, archive, owed>>
        /\ collected[p] = "running"
        /\ \/ collected' = [collected EXCEPT ![p] = "failed"]
           \/ p # "expenses" /\ collected' = [collected EXCEPT ![p] = "done"]
    BY <1>4 DEF E!Break, E!GiveUp, E!StreamFails, E!CollectMapper, E!Stop, E!stream
  <2>2. /\ collected'["expenses"] = "done" => collected["expenses"] = "done"
        /\ collected["expenses"] = "waiting" => collected'["expenses"] = "waiting"
    BY <1>2, <2>1
  <2>. QED
    BY <2>1, <2>2, OtherStepsKeepTheStream
<1>5. ASSUME NEW r \in E!Row, E!InsertExpense(r)
      PROVE  Produced' /\ Flowing' /\ Delivered' /\ Named'
  BY <1>5, OtherStepsKeepTheStream DEF E!InsertExpense, E!stream
<1>6. ASSUME NEW t \in Tags, E!DeleteTag(t)
      PROVE  Produced' /\ Flowing' /\ Delivered' /\ Named'
  <2>1. tags' \cap Carried \subseteq tags
    BY <1>6 DEF E!DeleteTag, Carried
  <2>2. UNCHANGED <<table, names, collected, producer, rows, errc, consumer, wire, archive, owed>>
    BY <1>6 DEF E!DeleteTag, E!stream
  <2>. QED
    BY <2>1, <2>2, OtherStepsKeepTheStream
<1>7. CASE E!ReadFails
  BY <1>7, EndsArchive
<1>8. CASE E!Program
  BY <1>1, <1>2, <1>3, <1>4, <1>7, <1>8, ReadPageArchive, MovesArchive, EndsArchive, FetchArchive DEF E!Program
<1>. QED
  BY <1>1, <1>2, <1>3, <1>4, <1>5, <1>6, <1>7, <1>8 DEF E!Next, E!Providers

\* StreamAllUserExpenses, resolveTagName: an archive that was sent lists every expense
\* that the user had when the job began, once and in the stream's order, for any table,
\* page size, and writes and tag changes meanwhile: under its tag's name if the user
\* kept the tag, as "Unknown" if the tag had been deleted.
THEOREM ArchivesAreWhole == Spec => []ArchiveIsComplete
<1>1. ArchiveInv => ArchiveIsComplete
  <2>. SUFFICES ASSUME ArchiveInv PROVE ArchiveIsComplete
    OBVIOUS
  <2>1. archive \in Seq([row : E!Row, tagName : Tags \cup {"Unknown"}])
    BY DEF ArchiveInv, FaultInv, ExportTypeInv
  <2>2. /\ DOMAIN RowsOf(archive) = DOMAIN archive
        /\ \A k \in DOMAIN archive : /\ RowsOf(archive)[k] = archive[k].row
                                     /\ archive[k] = [row |-> archive[k].row, tagName |-> archive[k].tagName]
    BY <2>1, RowsOfEntries
  <2>3. Sorted(RowsOf(archive))
    BY LineParts DEF ArchiveInv, FaultInv, Delivered
  <2>4. \A i, j \in DOMAIN archive : i < j => E!Before(archive[i].row, archive[j].row)
    BY <2>2, <2>3 DEF Sorted
  <2>5. ASSUME job = "sent", NEW r \in owed
        PROVE  \E i \in DOMAIN archive :
                 archive[i].row = r /\ archive[i].tagName \in E!Truthful(r.tag)
    <3>1. collected["expenses"] = "done"
      BY <2>5 DEF ArchiveInv, FaultInv, Progress
    <3>2. PICK i \in DOMAIN archive : archive[i].row = r
      BY <2>2, <2>5, <3>1 DEF ArchiveInv, Delivered, Listed
    <3>3. archive[i].tagName \in E!Truthful(r.tag)
      BY <2>5, <3>2 DEF ArchiveInv, Named
    <3>. QED
      BY <3>2, <3>3
  <2>. QED
    BY <2>4, <2>5 DEF ArchiveIsComplete, E!ArchiveIsComplete
<1>. QED
  BY <1>1, ArchiveInvInit, ArchiveInvNext, PTL DEF Spec
-----------------------------------------------------------------------------
(* The stored scores.                                                      *)

\* What a request holds.
Request ==
  [pc : {"idle", "scalars", "next", "resolve", "look up", "expenses", "periods", "window"},
   periods : [S!Months -> Nat], todo : SUBSET S!Months, month : Nat, spent : Nat,
   unread : SUBSET S!Months, window : SUBSET (S!Months \X Nat), overtaken : BOOLEAN]

\* What a row holds.
Scored == [version : Nat, budget : Nat, spent : Nat, window : SUBSET (S!Months \X Nat)]

\* The types of the variables.
ScoreTypeInv ==
  /\ today \in Nat /\ formula \in Nat \ {0}
  /\ budgets \in [S!Months -> Nat] /\ spending \in [S!Months -> Nat]
  /\ scores \in [S!Months -> Scored]
  /\ \A m \in S!Months : scores[m].version <= formula
  /\ reader \in [Readers -> Request]
  /\ editing \in S!Months \cup {0}

\* The window of month m under budgets b in month t, and what is spent in months of it.
Eligible(b, t, m) == {k \in 1..m : b[k] # S!NoPeriod /\ k # t}
Latest(es) == {k \in es : S!Cardinality({l \in es : l > k}) < WindowMonths}
WindowAt(b, t, m) == Latest(Eligible(b, t, m))
Totals(s, months) == {<<k, s[k]>> : k \in months}

\* A request that was not overtaken holds what is there, budgets b and spending s in
\* month t, and has a month that is over once it computes.
Resolving == {"resolve", "look up", "expenses", "periods", "window"}
Computing == Resolving \ {"resolve"}

InStep(x, b, s, t) ==
  /\ x.pc \in Resolving => x.month \in S!Months
  /\ x.pc = "idle" => x = S!Idle
  /\ x.pc # "window" => x.window = {}
  /\ ~ x.overtaken =>
       /\ \A k \in x.todo : x.periods[k] = b[k]
       /\ x.pc \in Resolving => x.periods[x.month] = b[x.month]
       /\ x.pc \in Computing => x.month < t
       /\ x.pc \in {"periods", "window"} => x.spent = s[x.month]
       /\ x.pc = "window" => /\ x.unread \subseteq WindowAt(b, t, x.month)
                             /\ x.window = Totals(s, WindowAt(b, t, x.month) \ x.unread)

\* The row of month m, of version v, is of a month that is over and up to date.
Final(m, row, v, out, b, s, t) ==
  row.version = v /\ m \notin out =>
    /\ m < t
    /\ row.budget = b[m] /\ row.spent = s[m] /\ row.window = Totals(s, WindowAt(b, t, m))

\* What the stored scores rest on.
ScoreInv ==
  /\ ScoreTypeInv
  /\ \A r \in Readers : InStep(reader[r], budgets, spending, today)
  /\ \A m \in S!Months : Final(m, scores[m], formula, outdated, budgets, spending, today)

\* The window of a month that is over depends on the budgets up to it only.
LEMMA WindowKept ==
  ASSUME NEW b, NEW b2, NEW t \in Nat, NEW t2 \in Nat, NEW m \in S!Months,
         m < t, t <= t2, \A k \in 1..m : b[k] = S!NoPeriod <=> b2[k] = S!NoPeriod
  PROVE  /\ WindowAt(b2, t2, m) = WindowAt(b, t, m)
         /\ WindowAt(b, t, m) \subseteq 1..m /\ 1..m \subseteq S!Months
         /\ \A k \in 1..m : k \in S!Months /\ k <= m
<1>1. m \in Nat /\ LastMonth \in Nat /\ m <= LastMonth
  BY ScoresAssumption DEF S!Months
<1>2. \A k \in 1..m : k # t /\ k # t2 /\ k <= m /\ k \in S!Months
  BY <1>1 DEF S!Months
<1>3. Eligible(b, t, m) = Eligible(b2, t2, m)
  BY <1>2 DEF Eligible
<1>4. WindowAt(b, t, m) \subseteq 1..m
  BY DEF WindowAt, Latest, Eligible
<1>. QED
  BY <1>2, <1>3, <1>4 DEF WindowAt

\* Window, as it is and as it will be.
LEMMA WindowIs ==
  ASSUME NEW m
  PROVE  /\ S!Window(m) = WindowAt(budgets, today, m)
         /\ S!Window(m)' = WindowAt(budgets', today', m)
BY DEF S!Window, WindowAt, Latest, Eligible, S!IsProvisional

\* Months only pass.
LEMMA RequestKept ==
  ASSUME NEW x \in Request, NEW b, NEW s, NEW t \in Nat, NEW t2 \in Nat, t <= t2, InStep(x, b, s, t)
  PROVE  InStep(x, b, s, t2)
<1>1. ASSUME ~ x.overtaken, x.pc \in Computing
      PROVE  x.month < t2 /\ WindowAt(b, t2, x.month) = WindowAt(b, t, x.month)
  <2>1. x.month \in S!Months /\ x.month < t /\ x.month \in Nat
    BY <1>1 DEF InStep, Computing, Request
  <2>2. x.month < t2
    BY <2>1
  <2>. QED
    BY <2>1, <2>2, WindowKept
<1>2. "window" \in Computing
  BY DEF Computing, Resolving
<1>. QED
  BY <1>1, <1>2 DEF InStep

\* An idle request.
LEMMA IdleIsInStep ==
  ASSUME NEW b, NEW s, NEW t
  PROVE  S!Idle \in Request /\ InStep(S!Idle, b, s, t)
<1>1. S!Idle \in Request
  BY DEF Request, S!Idle, S!NoPeriod
<1>. QED
  BY <1>1 DEF S!Idle, InStep, Resolving, Computing

\* A request that is overtaken promises nothing.
LEMMA OvertakenIsInStep ==
  ASSUME NEW x \in Request, NEW b, NEW s, NEW t, NEW b2, NEW s2, NEW t2, InStep(x, b, s, t)
  PROVE  LET y == IF x = S!Idle THEN S!Idle ELSE [x EXCEPT !.overtaken = TRUE]
         IN y \in Request /\ InStep(y, b2, s2, t2)
<1>1. CASE x = S!Idle
  BY <1>1, IdleIsInStep
<1>2. CASE x # S!Idle
  <2>. DEFINE y == [x EXCEPT !.overtaken = TRUE]
  <2>1. y \in Request /\ y.overtaken /\ y.pc = x.pc /\ y.month = x.month /\ y.window = x.window
    BY DEF Request
  <2>2. /\ x.pc # "idle" /\ (x.pc \in Resolving => x.month \in S!Months)
        /\ x.pc # "window" => x.window = {}
    BY <1>2 DEF InStep
  <2>. HIDE DEF y
  <2>3. InStep(y, b2, s2, t2)
    BY <2>1, <2>2 DEF InStep
  <2>. QED
    BY <1>2, <2>1, <2>3 DEF y
<1>. QED
  BY <1>1, <1>2

\* The periods that a request goes on with.
LEMMA KeptPeriods ==
  ASSUME NEW periods \in [S!Months -> Nat], NEW ms \in SUBSET S!Months
  PROVE  /\ S!Kept(periods, ms) \in [S!Months -> Nat]
         /\ \A k \in ms : S!Kept(periods, ms)[k] = periods[k]
BY DEF S!Kept, S!NoPeriod

\* A request that has its answer for a month.
Answer(x) ==
  IF x.todo = {} THEN S!Idle
  ELSE [S!Idle EXCEPT !.pc = "next", !.periods = S!Kept(x.periods, x.todo),
                      !.todo = x.todo, !.overtaken = x.overtaken]

\* It goes on with what it held before.
LEMMA AnswerIsInStep ==
  ASSUME NEW x \in Request, NEW b, NEW s, NEW t, InStep(x, b, s, t)
  PROVE  Answer(x) \in Request /\ InStep(Answer(x), b, s, t)
<1>1. CASE x.todo = {}
  BY <1>1, IdleIsInStep DEF Answer
<1>2. CASE x.todo # {}
  <2>. DEFINE y == Answer(x)
              kept == S!Kept(x.periods, x.todo)
  <2>1. x.periods \in [S!Months -> Nat] /\ x.todo \in SUBSET S!Months /\ x.overtaken \in BOOLEAN
    BY DEF Request
  <2>2. kept \in [S!Months -> Nat] /\ \A k \in x.todo : kept[k] = x.periods[k]
    BY <2>1, KeptPeriods
  <2>. HIDE DEF kept
  <2>3. y = [S!Idle EXCEPT !.pc = "next", !.periods = kept, !.todo = x.todo, !.overtaken = x.overtaken]
    BY <1>2 DEF Answer, kept
  <2>4. S!Idle \in Request
    BY IdleIsInStep
  <2>5. /\ y \in Request /\ y.pc = "next" /\ y.periods = kept /\ y.todo = x.todo
        /\ y.overtaken = x.overtaken /\ y.window = S!Idle.window
    BY <2>1, <2>2, <2>3, <2>4 DEF Request
  <2>6. S!Idle.window = {}
    BY DEF S!Idle
  <2>. HIDE DEF y
  <2>7. InStep(y, b, s, t)
    BY <2>2, <2>5, <2>6 DEF InStep, Resolving, Computing
  <2>. QED
    BY <2>5, <2>7 DEF y
<1>. QED
  BY <1>1, <1>2

\* A write to month k, which makes the rows of later months out of date if it is over.
LEMMA FinalKept ==
  ASSUME NEW m \in S!Months, NEW k \in S!Months, NEW row, NEW v, NEW out, NEW b, NEW b2, NEW s, NEW s2,
         NEW t \in Nat, Final(m, row, v, out, b, s, t),
         \A l \in S!Months : l # k => b2[l] = b[l] /\ s2[l] = s[l]
  PROVE  Final(m, row, v, out \cup {l \in S!Months : k <= l /\ k < t}, b2, s2, t)
<1>. SUFFICES ASSUME row.version = v, m \notin out, ~ (k <= m /\ k < t)
              PROVE  /\ m < t
                     /\ row.budget = b2[m] /\ row.spent = s2[m]
                     /\ row.window = Totals(s2, WindowAt(b2, t, m))
  BY DEF Final
<1>1. /\ m < t /\ row.budget = b[m] /\ row.spent = s[m]
      /\ row.window = Totals(s, WindowAt(b, t, m))
  BY DEF Final
<1>2. m \in Nat /\ k \in Nat
  BY ScoresAssumption DEF S!Months
<1>3. m < k
  BY <1>1, <1>2
<1>4. \A l \in 1..m : l \in S!Months /\ l # k
  <2>1. LastMonth \in Nat /\ m <= LastMonth
    BY ScoresAssumption DEF S!Months
  <2>. QED
    BY <1>2, <1>3, <2>1 DEF S!Months
<1>5. \A l \in 1..m : b2[l] = b[l] /\ s2[l] = s[l]
  BY <1>4
<1>6. m \in 1..m
  BY <1>2 DEF S!Months
<1>7. WindowAt(b2, t, m) = WindowAt(b, t, m) /\ WindowAt(b, t, m) \subseteq 1..m
  <2>1. t <= t /\ \A l \in 1..m : b[l] = S!NoPeriod <=> b2[l] = S!NoPeriod
    BY <1>5
  <2>. QED
    BY <1>1, <2>1, WindowKept
<1>8. Totals(s2, WindowAt(b, t, m)) = Totals(s, WindowAt(b, t, m))
  <2>. DEFINE w == WindowAt(b, t, m)
  <2>1. \A l \in w : s2[l] = s[l]
    BY <1>5, <1>7
  <2>. HIDE DEF w
  <2>2. Totals(s2, w) = Totals(s, w)
    BY <2>1 DEF Totals
  <2>. QED
    BY <2>2 DEF w
<1>. QED
  BY <1>1, <1>5, <1>6, <1>7, <1>8

\* One request goes on, the others and what they read stay as they are.
LEMMA OneRequest ==
  ASSUME ScoreInv, NEW r \in Readers, NEW y, reader' = [reader EXCEPT ![r] = y],
         y \in Request, InStep(y, budgets, spending, today),
         UNCHANGED <<today, budgets, spending, scores, formula, editing, outdated>>
  PROVE  ScoreInv'
<1>1. reader \in [Readers -> Request]
  BY DEF ScoreInv, ScoreTypeInv
<1>2. /\ reader' \in [Readers -> Request]
      /\ \A q \in Readers : reader'[q] = IF q = r THEN y ELSE reader[q]
  BY <1>1
<1>3. ScoreTypeInv'
  BY <1>2 DEF ScoreInv, ScoreTypeInv
<1>4. \A q \in Readers : InStep(reader'[q], budgets', spending', today')
  BY <1>2 DEF ScoreInv
<1>5. \A m \in S!Months : Final(m, scores'[m], formula', outdated', budgets', spending', today')
  BY DEF ScoreInv
<1>. QED
  BY <1>3, <1>4, <1>5 DEF ScoreInv

\* The steps of a request that reads.
LEMMA ReadingSteps ==
  ASSUME ScoreInv, NEW r \in Readers,
         \/ \E m \in S!Months : S!AskForCard(r, m) \/ S!AskForTrend(r, m)
         \/ S!ListScalars(r) \/ S!NextMonth(r) \/ S!Resolve(r) \/ S!LookUp(r)
         \/ S!ReadExpenses(r) \/ S!ListPeriods(r) \/ S!UpsertFails(r)
         \/ \E m \in S!Months : S!ReadWindow(r, m)
  PROVE  ScoreInv'
<1>. DEFINE x == reader[r]
<1>1. x \in Request /\ InStep(x, budgets, spending, today)
  BY DEF ScoreInv, ScoreTypeInv
<1>2. /\ today \in Nat /\ budgets \in [S!Months -> Nat] /\ spending \in [S!Months -> Nat]
      /\ reader \in [Readers -> Request]
  BY DEF ScoreInv, ScoreTypeInv
<1>3. /\ S!Months \subseteq Nat /\ S!NoPeriod \in Nat
      /\ S!Idle \in Request
  BY IdleIsInStep DEF S!Months, S!NoPeriod
<1>4. /\ S!Idle.overtaken = FALSE /\ S!Idle.todo = {} /\ S!Idle.window = {} /\ S!Idle.unread = {}
  BY DEF S!Idle
<1>5. CASE \E m \in S!Months : S!AskForCard(r, m)
  <2>1. PICK m \in S!Months : S!AskForCard(r, m)
    BY <1>5
  <2>. DEFINE kept == S!Kept(budgets, {m})
              y == [S!Idle EXCEPT !.pc = "resolve", !.periods = kept, !.month = m]
  <2>2. reader' = [reader EXCEPT ![r] = y]
    BY <2>1 DEF S!AskForCard
  <2>3. kept \in [S!Months -> Nat] /\ kept[m] = budgets[m]
    BY <1>2, KeptPeriods
  <2>. HIDE DEF kept
  <2>4. y \in Request /\ y.pc = "resolve" /\ y.periods = kept /\ y.month = m /\ y.todo = {} /\ y.window = {}
    BY <1>3, <1>4, <2>3 DEF Request
  <2>. HIDE DEF y
  <2>5. InStep(y, budgets, spending, today)
    BY <2>3, <2>4 DEF InStep, Resolving, Computing
  <2>. QED
    BY <2>1, <2>2, <2>4, <2>5, OneRequest DEF S!AskForCard
<1>6. CASE \E m \in S!Months : S!AskForTrend(r, m)
  <2>1. PICK m \in S!Months : S!AskForTrend(r, m)
    BY <1>6
  <2>. DEFINE asked == {k \in 1..m : budgets[k] \notin {S!NoPeriod, 0}}
              kept == S!Kept(budgets, asked)
              y == [S!Idle EXCEPT !.pc = "scalars", !.periods = kept, !.todo = asked]
  <2>2. reader' = [reader EXCEPT ![r] = y]
    BY <2>1 DEF S!AskForTrend
  <2>3. asked \in SUBSET S!Months
    BY ScoresAssumption DEF S!Months
  <2>. HIDE DEF asked
  <2>4. kept \in [S!Months -> Nat] /\ \A k \in asked : kept[k] = budgets[k]
    BY <1>2, <2>3, KeptPeriods
  <2>. HIDE DEF kept
  <2>5. y \in Request /\ y.pc = "scalars" /\ y.periods = kept /\ y.todo = asked /\ y.window = {}
    BY <1>3, <1>4, <2>3, <2>4 DEF Request
  <2>. HIDE DEF y
  <2>6. InStep(y, budgets, spending, today)
    BY <2>4, <2>5 DEF InStep, Resolving, Computing
  <2>. QED
    BY <2>1, <2>2, <2>5, <2>6, OneRequest DEF S!AskForTrend
<1>7. CASE S!ListScalars(r)
  <2>. DEFINE left == {m \in x.todo : S!IsProvisional(m) \/ ~ S!IsCurrent(scores[m])}
              kept == S!Kept(x.periods, left)
              y == IF left = {} THEN S!Idle
                   ELSE [x EXCEPT !.pc = "next", !.todo = left, !.periods = kept]
  <2>1. reader' = [reader EXCEPT ![r] = y]
    BY <1>7 DEF S!ListScalars
  <2>2. left \in SUBSET x.todo /\ left \in SUBSET S!Months /\ x.periods \in [S!Months -> Nat]
    BY <1>1 DEF Request
  <2>. HIDE DEF left
  <2>3. kept \in [S!Months -> Nat] /\ \A k \in left : kept[k] = x.periods[k]
    BY <2>2, KeptPeriods
  <2>. HIDE DEF kept
  <2>4. y \in Request /\ InStep(y, budgets, spending, today)
    <3>1. CASE left = {}
      BY <3>1, IdleIsInStep
    <3>2. CASE left # {}
      <4>1. /\ y \in Request /\ y.pc = "next" /\ y.todo = left /\ y.periods = kept
            /\ y.overtaken = x.overtaken /\ y.window = x.window /\ x.pc = "scalars"
        BY <1>1, <1>7, <2>2, <2>3, <3>2 DEF Request, S!ListScalars
      <4>. HIDE DEF y
      <4>2. InStep(y, budgets, spending, today)
        BY <1>1, <2>2, <2>3, <4>1 DEF InStep, Resolving, Computing
      <4>. QED
        BY <4>1, <4>2
    <3>. QED
      BY <3>1, <3>2
  <2>. QED
    BY <1>7, <2>1, <2>4, OneRequest DEF S!ListScalars
<1>8. CASE S!NextMonth(r)
  <2>1. PICK m \in x.todo : reader' = [reader EXCEPT ![r].pc = "resolve", ![r].month = m, ![r].todo = @ \ {m}]
    BY <1>8 DEF S!NextMonth
  <2>. DEFINE y == [x EXCEPT !.pc = "resolve", !.month = m, !.todo = @ \ {m}]
  <2>2. reader' = [reader EXCEPT ![r] = y]
    BY <1>2, <2>1 DEF Request
  <2>3. /\ y \in Request /\ y.pc = "resolve" /\ y.month = m /\ y.todo = x.todo \ {m} /\ m \in S!Months
        /\ y.periods = x.periods /\ y.overtaken = x.overtaken /\ y.window = x.window /\ x.pc = "next"
    BY <1>1, <1>3, <1>8 DEF Request, S!NextMonth
  <2>. HIDE DEF y
  <2>4. InStep(y, budgets, spending, today)
    BY <1>1, <2>1, <2>3 DEF InStep, Resolving, Computing
  <2>. QED
    BY <1>8, <2>2, <2>3, <2>4, OneRequest DEF S!NextMonth
<1>9. S!Answered(r) = [reader EXCEPT ![r] = Answer(x)]
  BY DEF S!Answered, Answer
<1>10. Answer(x) \in Request /\ InStep(Answer(x), budgets, spending, today)
  BY <1>1, AnswerIsInStep
<1>11. CASE S!Resolve(r)
  <2>. DEFINE over == x.overtaken \/ x.month > today
              y == [x EXCEPT !.pc = "look up", !.overtaken = over]
  <2>1. CASE S!IsProvisional(x.month)
    BY <1>9, <1>10, <1>11, <2>1, OneRequest DEF S!Resolve
  <2>2. CASE ~ S!IsProvisional(x.month)
    <3>1. reader' = [reader EXCEPT ![r] = y]
      BY <1>2, <1>11, <2>2 DEF S!Resolve, Request
    <3>2. /\ y \in Request /\ y.pc = "look up" /\ y.overtaken = over
          /\ y.month = x.month /\ y.todo = x.todo /\ y.periods = x.periods /\ x.month \in Nat
          /\ x.pc = "resolve" /\ y.window = x.window
      BY <1>1, <1>11 DEF S!Resolve, Request
    <3>3. ~ over => ~ x.overtaken /\ x.month < today
      BY <1>2, <2>2, <3>2 DEF S!IsProvisional
    <3>. HIDE DEF y, over
    <3>4. InStep(y, budgets, spending, today)
      BY <1>1, <3>2, <3>3 DEF InStep, Resolving, Computing
    <3>. QED
      BY <1>11, <3>1, <3>2, <3>4, OneRequest DEF S!Resolve
  <2>. QED
    BY <2>1, <2>2
<1>12. CASE S!LookUp(r)
  <2>. DEFINE y == [x EXCEPT !.pc = "expenses"]
  <2>1. CASE S!IsCurrent(scores[x.month])
    BY <1>9, <1>10, <1>12, <2>1, OneRequest DEF S!LookUp
  <2>2. CASE ~ S!IsCurrent(scores[x.month])
    <3>1. reader' = [reader EXCEPT ![r] = y]
      BY <1>2, <1>12, <2>2 DEF S!LookUp, Request
    <3>2. /\ y \in Request /\ y.pc = "expenses" /\ x.pc = "look up" /\ y.overtaken = x.overtaken
          /\ y.month = x.month /\ y.todo = x.todo /\ y.periods = x.periods /\ y.window = x.window
      BY <1>1, <1>12 DEF S!LookUp, Request
    <3>. HIDE DEF y
    <3>3. InStep(y, budgets, spending, today)
      BY <1>1, <3>2 DEF InStep, Resolving, Computing
    <3>. QED
      BY <1>12, <3>1, <3>2, <3>3, OneRequest DEF S!LookUp
  <2>. QED
    BY <2>1, <2>2
<1>13. CASE S!ReadExpenses(r)
  <2>. DEFINE y == [x EXCEPT !.pc = "periods", !.spent = spending[x.month]]
  <2>1. reader' = [reader EXCEPT ![r] = y]
    BY <1>2, <1>13 DEF S!ReadExpenses, Request
  <2>2. x.pc = "expenses" /\ x.month \in S!Months /\ spending[x.month] \in Nat
    BY <1>1, <1>2, <1>13 DEF S!ReadExpenses, InStep, Resolving
  <2>3. /\ y \in Request /\ y.pc = "periods" /\ y.spent = spending[x.month] /\ y.overtaken = x.overtaken
        /\ y.month = x.month /\ y.todo = x.todo /\ y.periods = x.periods /\ y.window = x.window
    BY <1>1, <2>2 DEF Request
  <2>. HIDE DEF y
  <2>4. InStep(y, budgets, spending, today)
    BY <1>1, <2>2, <2>3 DEF InStep, Resolving, Computing
  <2>. QED
    BY <1>13, <2>1, <2>3, <2>4, OneRequest DEF S!ReadExpenses
<1>14. CASE S!ListPeriods(r)
  <2>. DEFINE w == S!Window(x.month)
              y == [x EXCEPT !.pc = "window", !.unread = w]
  <2>1. reader' = [reader EXCEPT ![r] = y]
    BY <1>2, <1>14 DEF S!ListPeriods, Request
  <2>2. x.pc = "periods" /\ x.month \in S!Months
    BY <1>1, <1>14 DEF S!ListPeriods, InStep, Resolving
  <2>3. w = WindowAt(budgets, today, x.month)
    BY WindowIs
  <2>4. w \in SUBSET S!Months
    <3>1. \A k \in 1..x.month : k \in S!Months
      BY <2>2, ScoresAssumption DEF S!Months
    <3>. QED
      BY <2>3, <3>1 DEF WindowAt, Latest, Eligible
  <2>5. x.window = {}
    BY <1>1, <2>2 DEF InStep
  <2>. HIDE DEF w
  <2>6. /\ y \in Request /\ y.pc = "window" /\ y.unread = w /\ y.overtaken = x.overtaken /\ y.spent = x.spent
        /\ y.month = x.month /\ y.todo = x.todo /\ y.periods = x.periods /\ y.window = {}
    BY <1>1, <2>4, <2>5 DEF Request
  <2>. HIDE DEF y
  <2>7. {} = Totals(spending, w \ w)
    BY DEF Totals
  <2>8. InStep(y, budgets, spending, today)
    BY <1>1, <2>2, <2>3, <2>6, <2>7 DEF InStep, Resolving, Computing
  <2>. QED
    BY <1>14, <2>1, <2>6, <2>8, OneRequest DEF S!ListPeriods
<1>15. CASE \E m \in S!Months : S!ReadWindow(r, m)
  <2>1. PICK m \in S!Months : S!ReadWindow(r, m)
    BY <1>15
  <2>. DEFINE y == [x EXCEPT !.unread = @ \ {m}, !.window = @ \cup {<<m, spending[m]>>}]
              w == WindowAt(budgets, today, x.month)
  <2>2. reader' = [reader EXCEPT ![r] = y] /\ x.pc = "window" /\ m \in x.unread
    BY <1>2, <2>1 DEF S!ReadWindow, Request
  <2>3. /\ x.unread \in SUBSET S!Months /\ x.window \in SUBSET (S!Months \X Nat)
        /\ <<m, spending[m]>> \in S!Months \X Nat
    BY <1>1, <1>2 DEF Request
  <2>4. /\ y \in Request /\ y.pc = "window" /\ y.unread = x.unread \ {m} /\ y.overtaken = x.overtaken
        /\ y.window = x.window \cup {<<m, spending[m]>>}
        /\ y.month = x.month /\ y.todo = x.todo /\ y.periods = x.periods /\ y.spent = x.spent
    BY <1>1, <2>2, <2>3 DEF Request
  <2>. HIDE DEF y, w
  <2>5. m \in w => Totals(spending, w \ (x.unread \ {m})) = Totals(spending, w \ x.unread) \cup {<<m, spending[m]>>}
    BY <2>2 DEF Totals
  <2>6. InStep(y, budgets, spending, today)
    BY <1>1, <2>2, <2>4, <2>5 DEF InStep, Resolving, Computing, w
  <2>. QED
    BY <2>1, <2>2, <2>4, <2>6, OneRequest DEF S!ReadWindow
<1>16. CASE S!UpsertFails(r)
  BY <1>9, <1>10, <1>16, OneRequest DEF S!UpsertFails
<1>. QED
  BY <1>5, <1>6, <1>7, <1>8, <1>11, <1>12, <1>13, <1>14, <1>15, <1>16

\* The row that a request stores is up to date, unless the request was overtaken.
LEMMA UpsertStep ==
  ASSUME ScoreInv, NEW r \in Readers, S!Upsert(r)
  PROVE  ScoreInv'
<1>. DEFINE x == reader[r]
            m == x.month
            row == [version |-> formula, budget |-> x.periods[m], spent |-> x.spent, window |-> x.window]
<1>1. /\ today \in Nat /\ formula \in Nat /\ reader \in [Readers -> Request]
      /\ scores \in [S!Months -> Scored]
      /\ x \in Request /\ InStep(x, budgets, spending, today)
  BY DEF ScoreInv, ScoreTypeInv
<1>2. x.pc = "window" /\ x.unread = {} /\ m \in S!Months
  BY <1>1 DEF S!Upsert, InStep, Resolving
<1>3. /\ scores' = [scores EXCEPT ![m] = row]
      /\ outdated' = IF x.overtaken THEN outdated \cup {m} ELSE outdated \ {m}
      /\ reader' = S!Answered(r)
      /\ UNCHANGED <<today, budgets, spending, formula, editing>>
  BY DEF S!Upsert
<1>4. row \in Scored
  BY <1>1, <1>2 DEF Scored, Request
<1>5. Answer(x) \in Request /\ InStep(Answer(x), budgets, spending, today)
  BY <1>1, AnswerIsInStep
<1>6. reader' = [reader EXCEPT ![r] = Answer(x)]
  BY <1>3 DEF S!Answered, Answer
<1>7. Final(m, row, formula, outdated', budgets, spending, today)
  <2>1. CASE x.overtaken
    BY <1>3, <2>1 DEF Final
  <2>2. CASE ~ x.overtaken
    <3>1. /\ x.periods[m] = budgets[m] /\ m < today /\ x.spent = spending[m]
          /\ x.window = Totals(spending, WindowAt(budgets, today, m) \ x.unread)
      BY <1>1, <1>2, <2>2 DEF InStep, Resolving, Computing
    <3>2. WindowAt(budgets, today, m) \ x.unread = WindowAt(budgets, today, m)
      BY <1>2
    <3>. QED
      BY <3>1, <3>2 DEF Final
  <2>. QED
    BY <2>1, <2>2
<1>. HIDE DEF row
<1>8. row.version = formula
  BY DEF row
<1>. HIDE DEF m, x
<1>9. /\ scores' \in [S!Months -> Scored]
      /\ \A l \in S!Months : scores'[l] = IF l = m THEN row ELSE scores[l]
  BY <1>1, <1>3, <1>4
<1>10. /\ reader' \in [Readers -> Request]
       /\ \A q \in Readers : reader'[q] = IF q = r THEN Answer(x) ELSE reader[q]
  BY <1>1, <1>5, <1>6
<1>11. ScoreTypeInv'
  BY <1>1, <1>3, <1>8, <1>9, <1>10 DEF ScoreInv, ScoreTypeInv
<1>12. \A q \in Readers : InStep(reader'[q], budgets', spending', today')
  BY <1>3, <1>5, <1>10 DEF ScoreInv
<1>13. ASSUME NEW l \in S!Months
       PROVE  Final(l, scores'[l], formula', outdated', budgets', spending', today')
  <2>1. CASE l = m
    BY <1>3, <1>7, <1>9, <2>1
  <2>2. CASE l # m
    BY <1>3, <1>9, <2>2 DEF ScoreInv, Final
  <2>. QED
    BY <2>1, <2>2
<1>. QED
  BY <1>11, <1>12, <1>13 DEF ScoreInv

\* A write to month k, or its period's creation.
LEMMA OvertakeStep ==
  ASSUME ScoreInv, NEW k \in S!Months, S!Overtake(k),
         budgets' \in [S!Months -> Nat], spending' \in [S!Months -> Nat],
         \A l \in S!Months : l # k => budgets'[l] = budgets[l] /\ spending'[l] = spending[l],
         UNCHANGED <<today, scores, formula>>, editing' \in {editing, 0}
  PROVE  ScoreInv'
<1>1. /\ today \in Nat /\ reader \in [Readers -> Request]
      /\ \A q \in Readers : reader[q] \in Request /\ InStep(reader[q], budgets, spending, today)
  BY DEF ScoreInv, ScoreTypeInv
<1>2. \A q \in Readers :
        /\ reader'[q] = (IF reader[q] = S!Idle THEN S!Idle ELSE [reader[q] EXCEPT !.overtaken = TRUE])
        /\ reader'[q] \in Request /\ InStep(reader'[q], budgets', spending', today')
  <2>. TAKE q \in Readers
  <2>1. reader'[q] = (IF reader[q] = S!Idle THEN S!Idle ELSE [reader[q] EXCEPT !.overtaken = TRUE])
    BY DEF S!Overtake
  <2>. QED
    BY <1>1, <2>1, OvertakenIsInStep
<1>3. reader' \in [Readers -> Request]
  BY <1>2 DEF S!Overtake
<1>4. ScoreTypeInv'
  BY <1>3 DEF ScoreInv, ScoreTypeInv
<1>5. outdated' = outdated \cup {l \in S!Months : k <= l /\ k < today}
  BY DEF S!Overtake, S!Closed
<1>6. \A m \in S!Months : Final(m, scores'[m], formula', outdated', budgets', spending', today')
  BY <1>1, <1>5, FinalKept DEF ScoreInv
<1>. QED
  BY <1>2, <1>4, <1>6 DEF ScoreInv

\* Nothing is stored in the first month.
LEMMA ScoreInvInit == Init => ScoreInv
<1>. SUFFICES ASSUME Init PROVE ScoreInv
  OBVIOUS
<1>1. S!Init
  BY DEF Init
<1>2. /\ today = 1 /\ formula = 1 /\ editing = 0 /\ reader = [r \in Readers |-> S!Idle]
      /\ \A m \in S!Months : scores[m] = S!NoScore
      /\ budgets = [m \in S!Months |-> IF m = 1 THEN 1 ELSE S!NoPeriod]
      /\ spending = [m \in S!Months |-> 0] /\ scores = [m \in S!Months |-> S!NoScore]
  BY <1>1 DEF S!Init
<1>3. S!NoScore \in Scored /\ S!NoScore.version = 0
  BY DEF S!NoScore, Scored
<1>4. ScoreTypeInv
  <2>1. reader \in [Readers -> Request]
    BY <1>2, IdleIsInStep
  <2>2. budgets \in [S!Months -> Nat] /\ spending \in [S!Months -> Nat]
    BY <1>2 DEF S!NoPeriod
  <2>3. scores \in [S!Months -> Scored] /\ \A m \in S!Months : scores[m].version <= formula
    BY <1>2, <1>3
  <2>. QED
    BY <1>2, <2>1, <2>2, <2>3 DEF ScoreTypeInv
<1>5. \A r \in Readers : InStep(reader[r], budgets, spending, today)
  BY <1>2, IdleIsInStep
<1>6. \A m \in S!Months : Final(m, scores[m], formula, outdated, budgets, spending, today)
  BY <1>2, <1>3 DEF Final
<1>. QED
  BY <1>4, <1>5, <1>6 DEF ScoreInv

\* Every step keeps stored scores final.
LEMMA ScoreInvNext == ScoreInv /\ [Next]_vars => ScoreInv'
<1>. SUFFICES ASSUME ScoreInv, [Next]_vars PROVE ScoreInv'
  OBVIOUS
<1>1. CASE UNCHANGED scoreVars
  <2>1. UNCHANGED <<today, budgets, spending, scores, formula, reader, editing, outdated>>
    BY <1>1 DEF scoreVars
  <2>. QED
    BY <2>1 DEF ScoreInv, ScoreTypeInv
<1>2. /\ today \in Nat /\ formula \in Nat \ {0} /\ editing \in S!Months \cup {0}
      /\ budgets \in [S!Months -> Nat] /\ spending \in [S!Months -> Nat]
      /\ scores \in [S!Months -> Scored] /\ reader \in [Readers -> Request]
      /\ \A m \in S!Months : scores[m].version \in Nat /\ scores[m].version <= formula
  BY DEF ScoreInv, ScoreTypeInv, Scored
<1>3. CASE \E m \in S!Months : S!WriteExpense(m)
  <2>1. PICK m \in S!Months : S!WriteExpense(m)
    BY <1>3
  <2>2. /\ spending' \in [S!Months -> Nat] /\ \A l \in S!Months : l # m => spending'[l] = spending[l]
        /\ UNCHANGED <<today, budgets, scores, formula, editing>> /\ S!Overtake(m)
    BY <1>2, <2>1 DEF S!WriteExpense, S!Write
  <2>. QED
    BY <1>2, <2>2, OvertakeStep
<1>4. CASE S!UpdatePeriod
  <2>1. /\ editing \in S!Months /\ S!Overtake(editing) /\ editing' = 0
        /\ budgets' \in [S!Months -> Nat] /\ \A l \in S!Months : l # editing => budgets'[l] = budgets[l]
        /\ UNCHANGED <<today, spending, scores, formula>>
    BY <1>2, <1>4 DEF S!UpdatePeriod, S!Write
  <2>2. PICK k \in S!Months : k = editing
    BY <2>1
  <2>. QED
    BY <1>2, <2>1, <2>2, OvertakeStep
<1>5. CASE \E m \in S!Months : S!CreatePeriod(m, 0) \/ S!CreatePeriod(m, 1)
  <2>1. PICK m \in S!Months, b \in {0, 1} : S!CreatePeriod(m, b)
    BY <1>5
  <2>2. /\ budgets' \in [S!Months -> Nat] /\ \A l \in S!Months : l # m => budgets'[l] = budgets[l]
        /\ UNCHANGED <<today, spending, scores, formula, editing>> /\ S!Overtake(m)
    BY <1>2, <2>1 DEF S!CreatePeriod
  <2>. QED
    BY <1>2, <2>2, OvertakeStep
<1>6. CASE \E m \in S!Months : S!LetThrough(m)
  <2>1. /\ UNCHANGED <<today, budgets, spending, scores, formula, reader, outdated>>
        /\ editing' \in S!Months \cup {0}
    BY <1>6 DEF S!LetThrough
  <2>. QED
    BY <2>1 DEF ScoreInv, ScoreTypeInv
<1>7. CASE S!NextMonthBegins
  <2>1. /\ UNCHANGED <<budgets, spending, scores, formula, reader, editing, outdated>>
        /\ today' \in Nat /\ today <= today'
    BY <1>2, <1>7 DEF S!NextMonthBegins
  <2>2. ScoreTypeInv'
    BY <2>1 DEF ScoreInv, ScoreTypeInv
  <2>3. \A r \in Readers : InStep(reader'[r], budgets', spending', today')
    BY <1>2, <2>1, RequestKept DEF ScoreInv
  <2>4. ASSUME NEW m \in S!Months
        PROVE  Final(m, scores'[m], formula', outdated', budgets', spending', today')
    <3>1. m < today => m < today' /\ WindowAt(budgets, today', m) = WindowAt(budgets, today, m)
      <4>1. m \in Nat
        BY DEF S!Months
      <4>2. m < today => m < today'
        BY <1>2, <2>1, <4>1
      <4>. QED
        BY <1>2, <2>1, <4>2, WindowKept
    <3>. QED
      BY <2>1, <3>1 DEF ScoreInv, Final
  <2>. QED
    BY <2>2, <2>3, <2>4 DEF ScoreInv
<1>8. CASE S!Deploy
  <2>1. /\ formula' = formula + 1 /\ reader' = [r \in Readers |-> S!Idle] /\ editing' = 0
        /\ UNCHANGED <<today, budgets, spending, scores, outdated>>
    BY <1>8 DEF S!Deploy
  <2>2. \A m \in S!Months : scores'[m].version <= formula' /\ scores'[m].version # formula'
    BY <1>2, <2>1
  <2>3. ScoreTypeInv'
    <3>1. reader' \in [Readers -> Request]
      BY <2>1, IdleIsInStep
    <3>2. formula' \in Nat \ {0}
      BY <1>2, <2>1
    <3>. QED
      BY <1>2, <2>1, <2>2, <3>1, <3>2 DEF ScoreTypeInv
  <2>4. \A r \in Readers : InStep(reader'[r], budgets', spending', today')
    BY <2>1, IdleIsInStep
  <2>5. \A m \in S!Months : Final(m, scores'[m], formula', outdated', budgets', spending', today')
    BY <2>2 DEF Final
  <2>. QED
    BY <2>3, <2>4, <2>5 DEF ScoreInv
<1>9. CASE S!Next
  BY <1>3, <1>4, <1>5, <1>6, <1>7, <1>8, <1>9, ReadingSteps, UpsertStep DEF S!Next
<1>. QED
  BY <1>1, <1>9, OnlyOnePart

\* A stored score of the deployed version is what would be computed now, unless
\* something was written too late for it, for any requests that overlap, months,
\* window, calendars that are ahead and versions.
THEOREM StoredScoresAreFinal == Spec => []StoredScoreIsFinal
<1>1. ScoreInv => StoredScoreIsFinal
  BY WindowIs DEF ScoreInv, Final, Totals, StoredScoreIsFinal, S!StoredScoreIsFinal, S!IsCurrent
<1>. QED
  BY <1>1, ScoreInvInit, ScoreInvNext, PTL DEF Spec
-----------------------------------------------------------------------------
(* A finite set in an order, and its pages.                                *)

\* A list that has the elements of T in the order B.
InItsOrder(list, T, B) ==
  /\ list \in Seq(T) /\ Len(list) = Cardinality(T)
  /\ {list[i] : i \in DOMAIN list} = T
  /\ \A i, j \in DOMAIN list : i < j <=> <<list[i], list[j]>> \in B

\* A function that puts each element at its place is such a list.
LEMMA PlacesAreInOrder ==
  ASSUME NEW T, IsFiniteSet(T), NEW B, Orders(B, T),
         NEW f, DOMAIN f = 1..Cardinality(T), f \in [1..Cardinality(T) -> T],
         \A i \in 1..Cardinality(T) : f[i] \in T /\ Place(B, T, f[i]) = i
  PROVE  InItsOrder(f, T, B)
<1>1. Cardinality(T) \in Nat
  BY FS_CardinalityType
<1>3. f \in Seq(T)
  BY <1>1, SeqDef
<1>4. Len(f) = Cardinality(T)
  BY <1>1, <1>3, LenProperties
<1>5. /\ {f[i] : i \in DOMAIN f} = T
      /\ \A i, j \in DOMAIN f : i < j <=> <<f[i], f[j]>> \in B
  BY PlacesList
<1>. QED
  BY <1>3, <1>4, <1>5 DEF InItsOrder

\* The pages of a list: page p takes what is behind the reach of page p - 1.
ArePages(answers, list, reach) ==
  /\ reach[0] = 0
  /\ \A p \in DOMAIN answers :
       /\ reach[p] \in Nat /\ reach[p - 1] \in Nat /\ p <= reach[p] /\ reach[p - 1] < reach[p]
       /\ answers[p].hasMore <=> reach[p] < Len(list)
       /\ answers[p].data = SubSeq(list, reach[p - 1] + 1, IF reach[p] < Len(list) THEN reach[p] ELSE Len(list))

\* Following the pages ends at the first that reaches the end of the list.
LEMMA PagesEnd ==
  ASSUME NEW T, NEW list \in Seq(T), NEW reach, NEW max \in Nat, Len(list) < max,
         NEW answers, DOMAIN answers = 1..max, ArePages(answers, list, reach)
  PROVE  \E k \in 1..max : /\ D!PagesFollowed(answers) = 1..k
                           /\ Len(list) <= reach[k]
                           /\ \A p \in 1..(k - 1) : reach[p] < Len(list)
<1>. DEFINE n == Len(list)
            Ends == {p \in 1..max : n <= reach[p]}
<1>1. n \in Nat /\ \A p \in 1..max : reach[p] \in Nat /\ p <= reach[p]
  BY LenProperties DEF ArePages
<1>2. max \in Ends
  BY <1>1
<1>3. PICK k \in Ends : \A p \in Ends : k <= p
  <2>1. Ends \in SUBSET (1..max)
    OBVIOUS
  <2>. HIDE DEF Ends
  <2>. QED
    BY <1>2, <2>1, LeastElement
<1>4. \A p \in 1..max : p < k => reach[p] < n
  BY <1>1, <1>3
<1>5. D!PagesFollowed(answers) = 1..k
  <2>1. \A p \in 1..max : answers[p].hasMore <=> reach[p] < n
    BY DEF ArePages
  <2>2. \A p \in 1..max : (\A q \in 1..(p - 1) : answers[q].hasMore) <=> p <= k
    <3>. TAKE p \in 1..max
    <3>1. CASE p <= k
      BY <1>3, <1>4, <2>1, <3>1
    <3>2. CASE ~ (p <= k)
      <4>1. k \in 1..(p - 1) /\ ~ answers[k].hasMore
        BY <1>1, <1>3, <2>1, <3>2
      <4>. QED
        BY <3>2, <4>1
    <3>. QED
      BY <3>1, <3>2
  <2>. QED
    BY <1>3, <2>2 DEF D!PagesFollowed
<1>. QED
  BY <1>3, <1>4, <1>5

\* The pages that are followed, put together, are the list.
LEMMA PagesJoin ==
  ASSUME NEW T, NEW list \in Seq(T), NEW reach, NEW max \in Nat, Len(list) < max,
         NEW answers, DOMAIN answers = 1..max, ArePages(answers, list, reach)
  PROVE  D!Seen(answers) = list
<1>. DEFINE n == Len(list)
            End(p) == IF reach[p] < n THEN reach[p] ELSE n
            Upto(p) == SubSeq(list, 1, End(p))
<1>1. n \in Nat /\ DOMAIN list = 1..n
  BY LenProperties
<1>2. PICK k \in 1..max : /\ D!PagesFollowed(answers) = 1..k
                          /\ n <= reach[k]
                          /\ \A p \in 1..(k - 1) : reach[p] < n
  BY PagesEnd
<1>. DEFINE pages == [p \in 1..k |-> answers[p].data]
            Joins(f) == f = [p \in 1..k |-> IF p = 1 THEN pages[p] ELSE f[p - 1] \o pages[p]]
            joined == [p \in 1..k |-> Upto(p)]
            flatten == CHOOSE f : Joins(f)
<1>3. k \in Nat /\ 1 <= k /\ k <= max /\ Cardinality(1..k) = k
  BY FS_Interval
<1>4. Len(pages) = k
  <2>1. pages \in Seq({answers[p].data : p \in 1..k})
    BY <1>3, SeqDef
  <2>2. DOMAIN pages = 1..k
    OBVIOUS
  <2>. HIDE DEF pages
  <2>. QED
    BY <1>3, <2>1, <2>2, LenProperties
<1>5. D!Seen(answers) = flatten[k]
  <2>1. D!Seen(answers) = D!FlattenSeq(pages)
    BY <1>2, <1>3 DEF D!Seen, D!Cardinality, Cardinality
  <2>. HIDE DEF pages
  <2>2. Len(pages) # 0
    BY <1>3, <1>4
  <2>. QED
    BY <1>4, <2>1, <2>2 DEF D!FlattenSeq
<1>6. \A p \in 1..k : pages[p] = SubSeq(list, reach[p - 1] + 1, End(p))
  BY <1>3 DEF ArePages
<1>7. Upto(1) = pages[1]
  <2>1. 1 \in 1..k /\ 1 - 1 = 0 /\ 0 + 1 = 1 /\ reach[0] = 0
    BY <1>3 DEF ArePages
  <2>. HIDE DEF pages, End
  <2>. QED
    BY <1>6, <2>1
<1>8. ASSUME NEW p \in 2..k PROVE Upto(p - 1) \o pages[p] = Upto(p)
  <2>. DEFINE m == reach[p - 1]
  <2>1. m \in Nat /\ m < n /\ m <= reach[p] /\ p \in 1..k /\ p - 1 \in 1..(k - 1) /\ reach[p] \in Nat
    <3>1. p - 1 \in 1..(k - 1) /\ p \in 1..k /\ p \in 1..max
      BY <1>3
    <3>2. m \in Nat /\ m <= reach[p] /\ reach[p] \in Nat
      BY <3>1 DEF ArePages
    <3>. QED
      BY <1>2, <3>1, <3>2
  <2>2. Upto(p - 1) = SubSeq(list, 1, m) /\ pages[p] = SubSeq(list, m + 1, End(p))
    BY <1>6, <2>1
  <2>3. End(p) \in m..n
    <3>. DEFINE e == reach[p]
    <3>1. e \in Nat /\ m <= e /\ m \in Nat /\ m < n
      BY <2>1
    <3>. HIDE DEF e, m
    <3>. QED
      BY <1>1, <3>1 DEF e
  <2>. HIDE DEF m, pages
  <2>. DEFINE e == End(p)
  <2>. HIDE DEF End
  <2>4. 1 \in 1..(n + 1) /\ m \in (1 - 1)..n /\ e \in m..n
    BY <1>1, <2>1, <2>3 DEF e
  <2>. HIDE DEF e
  <2>5. SubSeq(list, 1, m) \o SubSeq(list, m + 1, e) = SubSeq(list, 1, e)
    BY <2>4, ConcatAdjacentSubSeq, Zenon
  <2>. QED
    BY <2>2, <2>5 DEF e
<1>. HIDE DEF pages, Upto
<1>9. Joins(joined)
  <2>1. \A p \in 1..k : joined[p] = IF p = 1 THEN pages[p] ELSE joined[p - 1] \o pages[p]
    <3>. TAKE p \in 1..k
    <3>1. CASE p = 1
      BY <1>3, <1>7, <3>1
    <3>2. CASE p # 1
      <4>1. p \in 2..k /\ p - 1 \in 1..k
        BY <1>3, <3>2
      <4>. QED
        BY <1>8, <3>2, <4>1
    <3>. QED
      BY <3>1, <3>2
  <2>. QED
    BY <2>1
<1>. HIDE DEF joined
<1>10. Joins(flatten)
  BY <1>9
<1>11. joined = [p \in 1..k |-> Upto(p)]
  BY DEF joined
<1>. HIDE DEF flatten
<1>12. \A p \in 1..k : flatten[p] = joined[p]
  <2>. DEFINE Wrong == {p \in 1..k : flatten[p] # joined[p]}
  <2>. SUFFICES ASSUME Wrong # {} PROVE FALSE
    OBVIOUS
  <2>1. PICK p \in Wrong : \A q \in Wrong : p <= q
    <3>1. Wrong \in SUBSET (1..k)
      OBVIOUS
    <3>. HIDE DEF Wrong
    <3>. QED
      BY <1>3, <3>1, LeastElement
  <2>2. /\ flatten[p] = IF p = 1 THEN pages[p] ELSE flatten[p - 1] \o pages[p]
        /\ joined[p] = IF p = 1 THEN pages[p] ELSE joined[p - 1] \o pages[p]
    BY <1>9, <1>10
  <2>3. p # 1 => flatten[p - 1] = joined[p - 1]
    <3>1. p # 1 => p - 1 \in 1..k /\ ~ (p <= p - 1)
      BY <1>3
    <3>. QED
      BY <2>1, <3>1
  <2>. QED
    BY <2>1, <2>2, <2>3
<1>13. Upto(k) = list
  <2>1. End(k) = n
    <3>1. reach[k] \in Nat
      BY <1>3 DEF ArePages
    <3>. QED
      BY <1>1, <1>2, <3>1
  <2>. QED
    BY <2>1, SubSeqFull DEF Upto
<1>. QED
  BY <1>3, <1>5, <1>11, <1>12, <1>13

\* No page that was promised is empty.
LEMMA PromisesHold ==
  ASSUME NEW T, NEW list \in Seq(T), NEW reach, NEW max \in Nat, Len(list) < max,
         NEW answers, DOMAIN answers = 1..max, ArePages(answers, list, reach),
         NEW p \in D!PagesFollowed(answers), p > 1
  PROVE  answers[p].data # << >>
<1>. DEFINE n == Len(list)
            m == reach[p - 1]
            e == IF reach[p] < n THEN reach[p] ELSE n
            data == SubSeq(list, m + 1, e)
<1>1. n \in Nat /\ DOMAIN list = 1..n /\ \A i \in 1..n : list[i] \in T
  BY LenProperties, ElementOfSeq
<1>2. PICK k \in 1..max : /\ D!PagesFollowed(answers) = 1..k
                          /\ n <= reach[k]
                          /\ \A q \in 1..(k - 1) : reach[q] < n
  BY PagesEnd
<1>3. p \in 1..max /\ p - 1 \in 1..(k - 1)
  BY <1>2
<1>4. /\ reach[p] \in Nat /\ m \in Nat /\ m < n /\ m < reach[p]
      /\ answers[p].data = data
  BY <1>2, <1>3 DEF ArePages
<1>. HIDE DEF m
<1>5. e \in Nat /\ m < e /\ e <= n
  BY <1>1, <1>4
<1>. HIDE DEF e
<1>6. \A i \in (m + 1)..e : list[i] \in T
  BY <1>1, <1>4, <1>5
<1>7. data \in Seq(T) /\ Len(data) = e - (m + 1) + 1
  BY <1>4, <1>5, <1>6, SubSeqProperties
<1>8. Len(data) # 0
  BY <1>4, <1>5, <1>7
<1>. HIDE DEF data
<1>. QED
  BY <1>4, <1>7, <1>8, EmptySeq

\* The multiples of a page size.
LEMMA MultiplesGrow ==
  ASSUME NEW p \in Nat, NEW size \in Nat \ {0}
  PROVE  p * size \in Nat /\ p <= p * size /\ (p + 1) * size = p * size + size
OBVIOUS

\* The pages of a size behind one another.
LEMMA SizesReach ==
  ASSUME NEW size \in Nat \ {0}, NEW p \in Nat \ {0}
  PROVE  /\ p * size \in Nat /\ (p - 1) * size \in Nat /\ p <= p * size /\ (p - 1) * size < p * size
         /\ (p - 1) * size = 0 <=> p = 1
<1>1. p - 1 \in Nat /\ p = (p - 1) + 1
  OBVIOUS
<1>2. (p - 1) * size \in Nat /\ p * size = (p - 1) * size + size
  BY <1>1, MultiplesGrow
<1>3. p - 1 <= (p - 1) * size /\ p <= p * size
  BY <1>1, MultiplesGrow
<1>4. p = 1 => (p - 1) * size = 0
  OBVIOUS
<1>. DEFINE m == (p - 1) * size
            e == p * size
<1>. HIDE DEF m, e
<1>5. m \in Nat /\ e = m + size /\ p - 1 <= m /\ p <= e /\ (p = 1 => m = 0)
  BY <1>2, <1>3, <1>4 DEF m, e
<1>6. m < e /\ e \in Nat /\ (m = 0 <=> p = 1)
  BY <1>5
<1>. QED
  BY <1>5, <1>6 DEF m, e
-----------------------------------------------------------------------------
(* Listing a month, and the installments of a plan.                        *)

\* ORDER BY expense_date DESC, created_at DESC, and the rest by id, is an order.
ListingOrder(T) == {p \in T \X T : D!ListedBefore(p[1], p[2])}

\* DateNumber is the order of the dates.
LEMMA DatesAreNumbered ==
  ASSUME NEW d \in Nat \X (1..12) \X (1..31), NEW e \in Nat \X (1..12) \X (1..31)
  PROVE  /\ D!DateNumber(d) \in Nat
         /\ D!DateNumber(d) = D!DateNumber(e) => d = e
<1>1. PICK y \in Nat, m \in 1..12, t \in 1..31 : d = <<y, m, t>>
  OBVIOUS
<1>2. PICK y2 \in Nat, m2 \in 1..12, t2 \in 1..31 : e = <<y2, m2, t2>>
  OBVIOUS
<1>3. D!DateNumber(d) = 10000 * y + 100 * m + t /\ D!DateNumber(e) = 10000 * y2 + 100 * m2 + t2
  BY <1>1, <1>2 DEF D!DateNumber
<1>4. 10000 * y + 100 * m + t = 10000 * y2 + 100 * m2 + t2 => y = y2 /\ m = m2 /\ t = t2
  OBVIOUS
<1>. QED
  BY <1>1, <1>2, <1>3, <1>4

LEMMA ListingOrders ==
  ASSUME NEW T, AreExpenses(T)
  PROVE  Orders(ListingOrder(T), T)
<1>. DEFINE N(r) == D!DateNumber(r.date)
<1>1. \A r \in T : N(r) \in Nat /\ r.at \in Int /\ r.id \in Nat
  BY DatesAreNumbered DEF AreExpenses
<1>2. \A r, s \in T : <<r, s>> \in ListingOrder(T) <=>
        N(r) > N(s) \/ (N(r) = N(s) /\ (r.at > s.at \/ (r.at = s.at /\ r.id < s.id)))
  <2>. TAKE r, s \in T
  <2>1. N(r) = N(s) <=> r.date = s.date
    BY DatesAreNumbered DEF AreExpenses
  <2>2. <<r, s>> \in ListingOrder(T) <=> D!ListedBefore(r, s)
    BY DEF ListingOrder
  <2>. HIDE DEF N
  <2>. QED
    BY <2>1, <2>2 DEF D!ListedBefore, N
<1>3. \A r, s \in T : r.id = s.id => r = s
  BY DEF AreExpenses
<1>. HIDE DEF N
<1>4. \A r \in T : <<r, r>> \notin ListingOrder(T)
  BY <1>1, <1>2
<1>5. \A r, s, t \in T : <<r, s>> \in ListingOrder(T) /\ <<s, t>> \in ListingOrder(T) => <<r, t>> \in ListingOrder(T)
  BY <1>1, <1>2
<1>6. \A r, s \in T : r = s \/ <<r, s>> \in ListingOrder(T) \/ <<s, r>> \in ListingOrder(T)
  <2>. TAKE r, s \in T
  <2>1. /\ N(r) \in Nat /\ r.at \in Int /\ r.id \in Nat /\ N(s) \in Nat /\ s.at \in Int /\ s.id \in Nat
        /\ r.id = s.id => r = s
    BY <1>1, <1>3
  <2>. QED
    BY <1>2, <2>1
<1>. QED
  BY <1>4, <1>5, <1>6 DEF Orders

\* InOrder lists the month.
LEMMA ListingIsInOrder ==
  ASSUME NEW T, AreExpenses(T)
  PROVE  InItsOrder(D!InOrder(T, D!ListedBefore), T, ListingOrder(T))
<1>. DEFINE f == D!InOrder(T, D!ListedBefore)
            B == ListingOrder(T)
            n == Cardinality(T)
            At(r) == 1 + Cardinality({s \in T : D!ListedBefore(s, r)})
            Pick(i) == CHOOSE r \in T : At(r) = i
<1>1. IsFiniteSet(T) /\ Orders(B, T)
  BY ListingOrders DEF AreExpenses
<1>2. f = [i \in 1..n |-> Pick(i)]
  BY DEF D!InOrder, D!Cardinality, Cardinality
<1>3. \A r \in T : At(r) = Place(B, T, r)
  <2>. TAKE r \in T
  <2>1. {s \in T : D!ListedBefore(s, r)} = {s \in T : <<s, r>> \in B}
    BY DEF ListingOrder
  <2>. QED
    BY <2>1 DEF Place
<1>4. \A i \in 1..n : \E r \in T : At(r) = i
  BY <1>1, <1>3, PlacesCount
<1>. HIDE DEF f, B, n, At
<1>5. \A i \in 1..n : Pick(i) \in T /\ At(Pick(i)) = i
  BY <1>4
<1>. HIDE DEF Pick
<1>6. f \in [1..n -> T] /\ \A i \in 1..n : Place(B, T, f[i]) = i
  BY <1>2, <1>3, <1>5
<1>7. InItsOrder(f, T, B)
  BY <1>1, <1>6, PlacesAreInOrder DEF n
<1>. QED
  BY <1>7 DEF f, B

\* GetExpenses answers with the pages of the listing.
LEMMA ExpensesArePaged ==
  ASSUME NEW held, AreExpenses(held), NEW year, NEW month, NEW size \in Int
  PROVE  D!Lists([p \in 1..(Cardinality(held) + 1) |-> D!GetExpenses(held, year, month, p, size)],
                 D!ActiveOfPeriod(held, year, month), D!ListedBefore)
<1>. DEFINE T == D!ActiveOfPeriod(held, year, month)
            B == ListingOrder(T)
            list == D!InOrder(T, D!ListedBefore)
            max == Cardinality(held) + 1
            used == D!PageSizeUsed(D!SizeAsked(size))
            answers == [p \in 1..max |-> D!GetExpenses(held, year, month, p, size)]
            reach == [p \in 0..max |-> p * used]
<1>1. AreExpenses(T) /\ IsFiniteSet(T) /\ max \in Nat /\ Cardinality(T) < max
  <2>1. T \in SUBSET held /\ IsFiniteSet(held)
    BY DEF D!ActiveOfPeriod, D!Active, AreExpenses
  <2>. HIDE DEF T
  <2>2. IsFiniteSet(T) /\ Cardinality(T) <= Cardinality(held)
    BY <2>1, FS_Subset
  <2>3. Cardinality(T) \in Nat /\ Cardinality(held) \in Nat
    BY <2>1, <2>2, FS_CardinalityType
  <2>4. AreExpenses(T)
    BY <2>1, <2>2 DEF AreExpenses
  <2>. QED
    BY <2>2, <2>3, <2>4
<1>2. InItsOrder(list, T, B)
  BY <1>1, ListingIsInOrder
<1>3. used \in Nat \ {0}
  BY ReadsAssumption DEF D!PageSizeUsed, D!SizeAsked
<1>4. ASSUME NEW p \in 1..max
      PROVE  /\ answers[p].hasMore <=> p * used < Len(list)
             /\ answers[p].data = SubSeq(list, (p - 1) * used + 1, IF p * used < Len(list) THEN p * used ELSE Len(list))
  <2>1. D!PageAsked(p) = p /\ D!PageAsked(D!PageAsked(p)) = p
    BY DEF D!PageAsked
  <2>2. answers[p] = [data |-> D!PageOf(list, p, used), total |-> Len(list), page |-> p, pageSize |-> used,
                      hasMore |-> D!HasMore(p, used, Len(list))]
    BY <2>1, Zenon DEF D!GetExpenses, D!GetActiveExpensesForPeriod
  <2>. HIDE DEF answers, used, list
  <2>3. answers[p].data = D!PageOf(list, p, used) /\ answers[p].hasMore = D!HasMore(p, used, Len(list))
    BY <2>2
  <2>. QED
    BY <2>3 DEF D!PageOf, D!HasMore
<1>. HIDE DEF T, B, list, used, max
<1>5. ArePages(answers, list, reach)
  <2>1. reach[0] = 0
    BY <1>1, <1>3
  <2>2. ASSUME NEW p \in 1..max
        PROVE  /\ reach[p] \in Nat /\ reach[p - 1] \in Nat /\ p <= reach[p] /\ reach[p - 1] < reach[p]
               /\ reach[p] = p * used /\ reach[p - 1] = (p - 1) * used
    <3>1. p \in Nat \ {0} /\ p \in 0..max /\ p - 1 \in 0..max
      BY <1>1
    <3>2. reach[p] = p * used /\ reach[p - 1] = (p - 1) * used
      BY <3>1
    <3>. HIDE DEF reach
    <3>. QED
      BY <1>3, <3>1, <3>2, SizesReach
  <2>3. DOMAIN answers = 1..max
    OBVIOUS
  <2>. HIDE DEF answers, reach
  <2>. QED
    BY <1>4, <2>1, <2>2, <2>3 DEF ArePages
<1>6. DOMAIN answers = 1..max
  OBVIOUS
<1>. HIDE DEF answers, reach
<1>7. /\ D!ToSet(D!Seen(answers)) = T
      /\ DOMAIN D!Seen(answers) = DOMAIN list
      /\ \A i \in DOMAIN list : D!Seen(answers)[i] \in T
      /\ \A i, j \in DOMAIN D!Seen(answers) : i < j => <<D!Seen(answers)[i], D!Seen(answers)[j]>> \in B
      /\ \A p \in D!PagesFollowed(answers) : p > 1 => answers[p].data # << >>
  <2>1. list \in Seq(T) /\ Len(list) < max /\ max \in Nat
    BY <1>1, <1>2 DEF InItsOrder
  <2>2. D!Seen(answers) = list
    BY <1>5, <1>6, <2>1, PagesJoin
  <2>3. ASSUME NEW p \in D!PagesFollowed(answers), p > 1
        PROVE  answers[p].data # << >>
    BY <1>5, <1>6, <2>1, <2>3, PromisesHold
  <2>4. \A i \in DOMAIN list : list[i] \in T
    BY <2>1, ElementOfSeq, LenProperties
  <2>. QED
    BY <1>2, <2>2, <2>3, <2>4 DEF InItsOrder, D!ToSet
<1>8. \A i, j \in DOMAIN D!Seen(answers) : i < j => D!ListedBefore(D!Seen(answers)[i], D!Seen(answers)[j])
  BY <1>7 DEF B, ListingOrder
<1>9. D!Lists(answers, T, D!ListedBefore)
  BY <1>7, <1>8 DEF D!Lists
<1>. QED
  BY <1>9 DEF answers, T, max

\* The rows of a plan.
PlanOrder(T) == {p \in T \X T : D!IndexedBefore(p[1], p[2])}

LEMMA PlansOrder ==
  ASSUME NEW T, AreExpenses(T)
  PROVE  Orders(PlanOrder(T), T)
<1>1. \A r, s \in T : <<r, s>> \in PlanOrder(T) <=> r.index < s.index \/ (r.index = s.index /\ r.id < s.id)
  BY DEF PlanOrder, D!IndexedBefore
<1>2. \A r \in T : r.index \in Int /\ r.id \in Nat
  BY DEF AreExpenses
<1>3. \A r \in T : <<r, r>> \notin PlanOrder(T)
  BY <1>1, <1>2
<1>4. \A r, s, t \in T : <<r, s>> \in PlanOrder(T) /\ <<s, t>> \in PlanOrder(T) => <<r, t>> \in PlanOrder(T)
  BY <1>1, <1>2
<1>5. \A r, s \in T : r = s \/ <<r, s>> \in PlanOrder(T) \/ <<s, r>> \in PlanOrder(T)
  <2>. TAKE r, s \in T
  <2>1. /\ r.index \in Int /\ r.id \in Nat /\ s.index \in Int /\ s.id \in Nat
        /\ r.id = s.id => r = s
    BY DEF AreExpenses
  <2>. QED
    BY <1>1, <2>1
<1>. QED
  BY <1>3, <1>4, <1>5 DEF Orders

\* InOrder lists the rows of a plan.
LEMMA PlanIsInOrder ==
  ASSUME NEW T, AreExpenses(T)
  PROVE  InItsOrder(D!InOrder(T, D!IndexedBefore), T, PlanOrder(T))
<1>. DEFINE f == D!InOrder(T, D!IndexedBefore)
            B == PlanOrder(T)
            n == Cardinality(T)
            At(r) == 1 + Cardinality({s \in T : D!IndexedBefore(s, r)})
            Pick(i) == CHOOSE r \in T : At(r) = i
<1>1. IsFiniteSet(T) /\ Orders(B, T)
  BY PlansOrder DEF AreExpenses
<1>2. f = [i \in 1..n |-> Pick(i)]
  BY DEF D!InOrder, D!Cardinality, Cardinality
<1>3. \A r \in T : At(r) = Place(B, T, r)
  <2>. TAKE r \in T
  <2>1. {s \in T : D!IndexedBefore(s, r)} = {s \in T : <<s, r>> \in B}
    BY DEF PlanOrder
  <2>. QED
    BY <2>1 DEF Place
<1>4. \A i \in 1..n : \E r \in T : At(r) = i
  BY <1>1, <1>3, PlacesCount
<1>. HIDE DEF f, B, n, At
<1>5. \A i \in 1..n : Pick(i) \in T /\ At(Pick(i)) = i
  BY <1>4
<1>. HIDE DEF Pick
<1>6. f \in [1..n -> T] /\ \A i \in 1..n : Place(B, T, f[i]) = i
  BY <1>2, <1>3, <1>5
<1>7. InItsOrder(f, T, B)
  BY <1>1, <1>6, PlacesAreInOrder DEF n
<1>. QED
  BY <1>7 DEF f, B

\* A row is listed with its plan and counted under its tag.
LEMMA RowsAreFound ==
  ASSUME NEW held, AreExpenses(held), NEW year, NEW month, NEW r \in D!ActiveOfPeriod(held, year, month)
  PROVE  LET listed == D!ActiveOfPeriod(held, year, month)
         IN /\ D!CountExpensesByTag(held, r.tag) >= Cardinality({s \in listed : s.tag = r.tag})
            /\ r \in D!ToSet(D!GetExpensesInProRataGroup(held, r.group))
<1>. DEFINE listed == D!ActiveOfPeriod(held, year, month)
            tagged == {s \in D!Active(held) : s.tag = r.tag}
            plan == {s \in held : s.group = r.group}
<1>1. /\ plan \in SUBSET held /\ tagged \in SUBSET held /\ {s \in listed : s.tag = r.tag} \in SUBSET tagged
      /\ r \in plan /\ IsFiniteSet(held)
  BY DEF D!ActiveOfPeriod, D!Active, AreExpenses
<1>2. D!CountExpensesByTag(held, r.tag) = Cardinality(tagged)
  BY DEF D!CountExpensesByTag, D!Cardinality, Cardinality
<1>. HIDE DEF tagged, plan, listed
<1>3. Cardinality({s \in listed : s.tag = r.tag}) <= Cardinality(tagged)
  BY <1>1, FS_Subset
<1>4. /\ IsFiniteSet({s \in listed : s.tag = r.tag}) /\ IsFiniteSet(tagged)
  BY <1>1, FS_Subset
<1>5. Cardinality({s \in listed : s.tag = r.tag}) \in Nat /\ Cardinality(tagged) \in Nat
  BY <1>4, FS_CardinalityType
<1>6. AreExpenses(plan)
  <2>1. IsFiniteSet(plan)
    BY <1>1, FS_Subset
  <2>. QED
    BY <1>1, <2>1 DEF AreExpenses
<1>. DEFINE list == D!InOrder(plan, D!IndexedBefore)
<1>7. InItsOrder(list, plan, PlanOrder(plan))
  BY <1>6, PlanIsInOrder
<1>8. D!GetExpensesInProRataGroup(held, r.group) = list
  BY Zenon DEF D!GetExpensesInProRataGroup, plan
<1>. HIDE DEF list
<1>9. r \in D!ToSet(list)
  BY <1>1, <1>7 DEF InItsOrder, D!ToSet
<1>. QED
  BY <1>2, <1>3, <1>5, <1>8, <1>9 DEF listed
-----------------------------------------------------------------------------
(* Suggestions.                                                            *)

\* The later of two rows.
AgeOrder(T) == {p \in T \X T : D!IsNewer(p[2], p[1])}

LEMMA AgesOrder ==
  ASSUME NEW T, AreExpenses(T)
  PROVE  Orders(AgeOrder(T), T)
<1>1. \A r, s \in T : <<r, s>> \in AgeOrder(T) <=> s.at > r.at \/ (s.at = r.at /\ s.id > r.id)
  BY DEF AgeOrder, D!IsNewer
<1>2. \A r \in T : r.at \in Int /\ r.id \in Nat
  BY DEF AreExpenses
<1>3. \A r \in T : <<r, r>> \notin AgeOrder(T)
  BY <1>1, <1>2
<1>4. \A r, s, t \in T : <<r, s>> \in AgeOrder(T) /\ <<s, t>> \in AgeOrder(T) => <<r, t>> \in AgeOrder(T)
  BY <1>1, <1>2
<1>5. \A r, s \in T : r = s \/ <<r, s>> \in AgeOrder(T) \/ <<s, r>> \in AgeOrder(T)
  <2>. TAKE r, s \in T
  <2>1. /\ r.at \in Int /\ r.id \in Nat /\ s.at \in Int /\ s.id \in Nat
        /\ r.id = s.id => r = s
    BY DEF AreExpenses
  <2>. QED
    BY <1>1, <2>1
<1>. QED
  BY <1>3, <1>4, <1>5 DEF Orders

\* The installments of a plan count once, so what is used at all counts, and no more
\* often than it is used.
LEMMA FrequencyCounts ==
  ASSUME NEW uses, IsFiniteSet(uses), uses # {}
  PROVE  D!Frequency(uses) \in 1..Cardinality(uses)
<1>. DEFINE single == {r \in uses : r.group = D!NoGroup}
            rest == uses \ single
            groups == {r.group : r \in uses} \ {D!NoGroup}
            of == [r \in rest |-> r.group]
<1>1. D!Frequency(uses) = Cardinality(single) + Cardinality(groups)
  BY DEF D!Frequency, D!Cardinality, Cardinality
<1>2. single \in SUBSET uses /\ rest \in SUBSET uses /\ single \cup rest = uses /\ single \cap rest = {}
  OBVIOUS
<1>3. of \in Surjection(rest, groups)
  <2>1. \A r \in rest : r.group \in groups
    OBVIOUS
  <2>2. \A g \in groups : \E r \in rest : r.group = g
    OBVIOUS
  <2>. HIDE DEF rest, groups
  <2>3. of \in [rest -> groups] /\ \A g \in groups : \E r \in rest : of[r] = g
    BY <2>1, <2>2
  <2>. HIDE DEF of
  <2>. QED
    BY <2>3 DEF Surjection
<1>4. groups = {} => rest = {}
  OBVIOUS
<1>. HIDE DEF single, rest, groups, of
<1>5. /\ IsFiniteSet(single) /\ IsFiniteSet(rest) /\ Cardinality(single) \in Nat /\ Cardinality(rest) \in Nat
      /\ Cardinality(uses) \in Nat
  <2>1. IsFiniteSet(single) /\ IsFiniteSet(rest)
    BY <1>2, FS_Subset
  <2>. QED
    BY <2>1, FS_CardinalityType
<1>6. Cardinality(uses) = Cardinality(single) + Cardinality(rest)
  <2>1. Cardinality(single \cup rest) = Cardinality(single) + Cardinality(rest) - Cardinality({})
    BY <1>2, <1>5, FS_Union
  <2>. QED
    BY <1>2, <1>5, <2>1, FS_EmptySet
<1>7. IsFiniteSet(groups) /\ Cardinality(groups) <= Cardinality(rest) /\ Cardinality(groups) \in Nat
  BY <1>3, <1>5, FS_Surjection, FS_CardinalityType
<1>8. Cardinality(single) # 0 \/ Cardinality(groups) # 0
  BY <1>2, <1>4, <1>5, <1>7, FS_EmptySet
<1>. QED
  BY <1>1, <1>5, <1>6, <1>7, <1>8

\* A suggestion is its name's.
LEMMA SuggestionIs ==
  ASSUME NEW uses, AreExpenses(uses), uses # {}, NEW name, \A r \in uses : r.name = name, NEW now \in Int
  PROVE  LET s == D!Suggestion(uses, now)
         IN s.name = name /\ s.lastUsed \in Int /\ s.score \in Int /\ s.frequency \in 1..Cardinality(uses)
<1>. DEFINE IsLatest(r) == \A s \in uses : s = r \/ D!IsNewer(r, s)
            latest == CHOOSE r \in uses : IsLatest(r)
            frequency == D!Frequency(uses)
            weight == D!Weight(latest.at, now)
            s == D!Suggestion(uses, now)
<1>1. \E r \in uses : IsLatest(r)
  <2>1. PICK r \in uses : \A t \in uses : t = r \/ <<t, r>> \in AgeOrder(uses)
    BY AgesOrder, GreatestElement DEF AreExpenses
  <2>. QED
    BY <2>1 DEF AgeOrder
<1>. HIDE DEF IsLatest
<1>2. latest \in uses
  BY <1>1
<1>3. /\ s.name = latest.name /\ s.lastUsed = latest.at /\ s.frequency = frequency /\ s.score = frequency * weight
  BY DEF D!Suggestion, IsLatest
<1>4. weight \in {1, 2, 4, 8}
  BY DEF D!Weight
<1>5. frequency \in 1..Cardinality(uses) /\ frequency \in Nat
  <2>1. frequency \in 1..Cardinality(uses) /\ Cardinality(uses) \in Nat
    BY FrequencyCounts, FS_CardinalityType DEF AreExpenses
  <2>. QED
    BY <2>1
<1>. HIDE DEF latest, frequency, weight, s
<1>6. frequency * weight \in Int
  BY <1>4, <1>5
<1>7. latest.name = name /\ latest.at \in Int
  BY <1>2 DEF AreExpenses
<1>. QED
  BY <1>3, <1>5, <1>6, <1>7 DEF s

\* The active rows of a name.
UsesOf(held, name) == {r \in D!Active(held) : r.name = name}

\* Every name in use has one suggestion.
LEMMA SuggestionsAre ==
  ASSUME NEW held, AreExpenses(held), NEW now \in Int
  PROVE  /\ IsFiniteSet(D!AggregateSuggestions(held, now))
         /\ Cardinality(D!AggregateSuggestions(held, now)) <= Cardinality(held)
         /\ \A s \in D!AggregateSuggestions(held, now) : s.name \in Nat /\ s.lastUsed \in Int /\ s.score \in Int
         /\ \A s, t \in D!AggregateSuggestions(held, now) : s.name = t.name => s = t
         /\ \A r \in D!Active(held) : \E s \in D!AggregateSuggestions(held, now) : s.name = r.name
         /\ \A s \in D!AggregateSuggestions(held, now) :
              s.frequency \in 1..Cardinality(UsesOf(held, s.name))
<1>. DEFINE live == D!Active(held)
            Uses(name) == {r \in live : r.name = name}
            T == D!AggregateSuggestions(held, now)
            given == [r \in live |-> D!Suggestion(Uses(r.name), now)]
<1>1. live \in SUBSET held /\ IsFiniteSet(held) /\ IsFiniteSet(live) /\ Cardinality(live) <= Cardinality(held)
  <2>1. live \in SUBSET held /\ IsFiniteSet(held)
    BY DEF D!Active, AreExpenses
  <2>. HIDE DEF live
  <2>. QED
    BY <2>1, FS_Subset
<1>2. T = {D!Suggestion(Uses(r.name), now) : r \in live}
  BY DEF D!AggregateSuggestions
<1>. HIDE DEF live, T
<1>3. ASSUME NEW r \in live
      PROVE  /\ r.name \in Nat /\ AreExpenses(Uses(r.name)) /\ Uses(r.name) # {}
             /\ \A u \in Uses(r.name) : u.name = r.name
  <2>1. Uses(r.name) \in SUBSET live /\ r \in Uses(r.name)
    OBVIOUS
  <2>2. IsFiniteSet(Uses(r.name))
    BY <1>1, <2>1, FS_Subset
  <2>. QED
    BY <1>1, <2>1, <2>2 DEF AreExpenses
<1>4. ASSUME NEW r \in live
      PROVE  LET s == D!Suggestion(Uses(r.name), now)
             IN /\ s.name = r.name /\ s.name \in Nat /\ s.lastUsed \in Int /\ s.score \in Int
                /\ s.frequency \in 1..Cardinality(Uses(r.name))
  <2>. HIDE DEF Uses
  <2>. QED
    BY <1>3, SuggestionIs
<1>5. given \in Surjection(live, T)
  <2>. HIDE DEF Uses
  <2>. QED
    BY <1>2 DEF Surjection
<1>6. IsFiniteSet(T) /\ Cardinality(T) <= Cardinality(live)
  <2>. HIDE DEF given
  <2>. QED
    BY <1>1, <1>5, FS_Surjection
<1>7. Cardinality(T) \in Nat /\ Cardinality(live) \in Nat /\ Cardinality(held) \in Nat
  BY <1>1, <1>6, FS_CardinalityType
<1>8. ASSUME NEW s \in T
      PROVE  \E r \in live : s = D!Suggestion(Uses(r.name), now) /\ s.name = r.name
  <2>1. PICK r \in live : s = D!Suggestion(Uses(r.name), now)
    BY <1>2
  <2>. QED
    BY <1>4, <2>1
<1>9. \A s, t \in T : s.name = t.name => s = t
  <2>1. \A s \in T : s = D!Suggestion(Uses(s.name), now)
    <3>. HIDE DEF Uses
    <3>. QED
      BY <1>8
  <2>. HIDE DEF Uses
  <2>. QED
    BY <2>1, Zenon
<1>10. \A s \in T : /\ s.name \in Nat /\ s.lastUsed \in Int /\ s.score \in Int
                    /\ s.frequency \in 1..Cardinality(Uses(s.name))
  <2>. TAKE s \in T
  <2>1. PICK r \in live : s = D!Suggestion(Uses(r.name), now) /\ s.name = r.name
    BY <1>8
  <2>. HIDE DEF Uses
  <2>. QED
    BY <1>4, <2>1
<1>11. \A r \in live : \E s \in T : s.name = r.name
  BY <1>2, <1>4
<1>12. Cardinality(T) <= Cardinality(held)
  BY <1>1, <1>6, <1>7
<1>. QED
  BY <1>6, <1>9, <1>10, <1>11, <1>12, Zenon DEF T, live, Uses, UsesOf

\* The suggestions.
SuggestionOrder(T) == {p \in T \X T : D!SuggestedBefore(p[1], p[2])}

LEMMA SuggestionsOrder ==
  ASSUME NEW T, \A s \in T : s.name \in Nat /\ s.lastUsed \in Int /\ s.score \in Int,
         \A s, t \in T : s.name = t.name => s = t
  PROVE  Orders(SuggestionOrder(T), T)
<1>1. \A s, t \in T : <<s, t>> \in SuggestionOrder(T) <=>
        \/ s.score > t.score
        \/ s.score = t.score /\ (s.lastUsed > t.lastUsed \/ (s.lastUsed = t.lastUsed /\ s.name < t.name))
  BY DEF SuggestionOrder, D!SuggestedBefore
<1>2. \A s \in T : <<s, s>> \notin SuggestionOrder(T)
  BY <1>1
<1>3. \A r, s, t \in T : <<r, s>> \in SuggestionOrder(T) /\ <<s, t>> \in SuggestionOrder(T) => <<r, t>> \in SuggestionOrder(T)
  BY <1>1
<1>4. \A r, s \in T : r = s \/ <<r, s>> \in SuggestionOrder(T) \/ <<s, r>> \in SuggestionOrder(T)
  <2>. TAKE r, s \in T
  <2>1. /\ r.name \in Nat /\ r.lastUsed \in Int /\ r.score \in Int
        /\ s.name \in Nat /\ s.lastUsed \in Int /\ s.score \in Int
        /\ r.name = s.name => r = s
    OBVIOUS
  <2>. QED
    BY <1>1, <2>1
<1>. QED
  BY <1>2, <1>3, <1>4 DEF Orders

\* InOrder lists the suggestions.
LEMMA SuggestionsAreInOrder ==
  ASSUME NEW T, IsFiniteSet(T), \A s \in T : s.name \in Nat /\ s.lastUsed \in Int /\ s.score \in Int,
         \A s, t \in T : s.name = t.name => s = t
  PROVE  InItsOrder(D!InOrder(T, D!SuggestedBefore), T, SuggestionOrder(T))
<1>. DEFINE f == D!InOrder(T, D!SuggestedBefore)
            B == SuggestionOrder(T)
            n == Cardinality(T)
            At(r) == 1 + Cardinality({s \in T : D!SuggestedBefore(s, r)})
            Pick(i) == CHOOSE r \in T : At(r) = i
<1>1. IsFiniteSet(T) /\ Orders(B, T)
  BY SuggestionsOrder
<1>2. f = [i \in 1..n |-> Pick(i)]
  BY DEF D!InOrder, D!Cardinality, Cardinality
<1>3. \A r \in T : At(r) = Place(B, T, r)
  <2>. TAKE r \in T
  <2>1. {s \in T : D!SuggestedBefore(s, r)} = {s \in T : <<s, r>> \in B}
    BY DEF SuggestionOrder
  <2>. QED
    BY <2>1 DEF Place
<1>4. \A i \in 1..n : \E r \in T : At(r) = i
  BY <1>1, <1>3, PlacesCount
<1>. HIDE DEF f, B, n, At
<1>5. \A i \in 1..n : Pick(i) \in T /\ At(Pick(i)) = i
  BY <1>4
<1>. HIDE DEF Pick
<1>6. f \in [1..n -> T] /\ \A i \in 1..n : Place(B, T, f[i]) = i
  BY <1>2, <1>3, <1>5
<1>7. InItsOrder(f, T, B)
  BY <1>1, <1>6, PlacesAreInOrder DEF n
<1>. QED
  BY <1>7 DEF f, B

\* GetExpenseSuggestions answers with the pages of the suggestions.
LEMMA SuggestionsArePaged ==
  ASSUME NEW held, AreExpenses(held), NEW now \in Int, NEW size \in Int
  PROVE  D!Lists([p \in 1..(Cardinality(held) + 1) |-> D!GetExpenseSuggestions(held, now, p, D!PageSizeUsed(size))],
                 D!AggregateSuggestions(held, now), D!SuggestedBefore)
<1>. DEFINE T == D!AggregateSuggestions(held, now)
            B == SuggestionOrder(T)
            list == D!InOrder(T, D!SuggestedBefore)
            max == Cardinality(held) + 1
            used == D!PageSizeUsed(size)
            answers == [p \in 1..max |-> D!GetExpenseSuggestions(held, now, p, used)]
            reach == [p \in 0..max |-> p * used]
<1>1. /\ IsFiniteSet(T) /\ Cardinality(T) <= Cardinality(held)
      /\ \A s \in T : s.name \in Nat /\ s.lastUsed \in Int /\ s.score \in Int
      /\ \A s, t \in T : s.name = t.name => s = t
  BY SuggestionsAre
<1>2. InItsOrder(list, T, B)
  BY <1>1, SuggestionsAreInOrder
<1>3. used \in Nat \ {0}
  BY ReadsAssumption DEF D!PageSizeUsed
<1>4. max \in Nat /\ Cardinality(T) < max /\ Len(list) \in Nat
  <2>1. Cardinality(T) \in Nat /\ Cardinality(held) \in Nat
    BY <1>1, FS_CardinalityType DEF AreExpenses
  <2>. HIDE DEF T, list
  <2>2. Len(list) = Cardinality(T)
    BY <1>2 DEF InItsOrder
  <2>. QED
    BY <1>1, <2>1, <2>2
<1>5. ASSUME NEW p \in 1..max
      PROVE  /\ answers[p].hasMore <=> (p - 1) * used < Len(list) /\ p * used < Len(list)
             /\ answers[p].data = IF (p - 1) * used >= Len(list) THEN << >>
                                  ELSE SubSeq(list, (p - 1) * used + 1,
                                              IF p * used < Len(list) THEN p * used ELSE Len(list))
  <2>. DEFINE end == IF p * used < Len(list) THEN p * used ELSE Len(list)
              beyond == (p - 1) * used >= Len(list)
              within == (p - 1) * used < Len(list)
              page == D!PageOf(list, p, used)
  <2>1. answers[p] = D!GetExpenseSuggestions(held, now, p, used)
    OBVIOUS
  <2>. DEFINE data == IF beyond THEN << >> ELSE page
              more == within /\ end < Len(list)
  <2>2. answers[p] = [data |-> data, total |-> Len(list), hasMore |-> more]
    BY <2>1, Zenon DEF D!GetExpenseSuggestions
  <2>. HIDE DEF answers, used, list, end, beyond, within, page, data, more
  <2>3. answers[p].data = data /\ answers[p].hasMore = more
    BY <2>2
  <2>4. p * used \in Nat
    BY <1>3, SizesReach
  <2>5. end < Len(list) <=> p * used < Len(list)
    BY <1>4, <2>4 DEF end
  <2>. QED
    BY <2>3, <2>5, Zenon DEF D!PageOf, beyond, within, page, data, more
<1>. HIDE DEF T, B, list, used, max
<1>6. ArePages(answers, list, reach)
  <2>1. reach[0] = 0
    BY <1>3, <1>4
  <2>2. ASSUME NEW p \in 1..max
        PROVE  /\ reach[p] \in Nat /\ reach[p - 1] \in Nat /\ p <= reach[p] /\ reach[p - 1] < reach[p]
               /\ reach[p] = p * used /\ reach[p - 1] = (p - 1) * used
    <3>1. p \in Nat \ {0} /\ p \in 0..max /\ p - 1 \in 0..max
      BY <1>4
    <3>2. reach[p] = p * used /\ reach[p - 1] = (p - 1) * used
      BY <3>1
    <3>. HIDE DEF reach
    <3>. QED
      BY <1>3, <3>1, <3>2, SizesReach
  <2>3. DOMAIN answers = 1..max
    OBVIOUS
  <2>. HIDE DEF answers, reach
  <2>4. ASSUME NEW p \in 1..max
        PROVE  /\ answers[p].hasMore <=> reach[p] < Len(list)
               /\ answers[p].data = SubSeq(list, reach[p - 1] + 1, IF reach[p] < Len(list) THEN reach[p] ELSE Len(list))
    <3>. DEFINE m == reach[p - 1]
                e == reach[p]
                n == Len(list)
    <3>1. m \in Nat /\ e \in Nat /\ m < e /\ n \in Nat
      BY <1>4, <2>2
    <3>2. /\ answers[p].hasMore <=> m < n /\ e < n
          /\ answers[p].data = IF m >= n THEN << >> ELSE SubSeq(list, m + 1, IF e < n THEN e ELSE n)
      BY <1>5, <2>2
    <3>. HIDE DEF m, e, n
    <3>3. m >= n => SubSeq(list, m + 1, IF e < n THEN e ELSE n) = << >>
      BY <3>1, SubSeqEmpty
    <3>4. answers[p].hasMore <=> e < n
      BY <3>1, <3>2
    <3>5. answers[p].data = SubSeq(list, m + 1, IF e < n THEN e ELSE n)
      BY <3>2, <3>3
    <3>. QED
      BY <3>4, <3>5 DEF m, e, n
  <2>. QED
    BY <2>1, <2>2, <2>3, <2>4 DEF ArePages
<1>7. DOMAIN answers = 1..max
  OBVIOUS
<1>. HIDE DEF answers, reach
<1>8. /\ D!ToSet(D!Seen(answers)) = T
      /\ DOMAIN D!Seen(answers) = DOMAIN list
      /\ \A i \in DOMAIN list : D!Seen(answers)[i] \in T
      /\ \A i, j \in DOMAIN D!Seen(answers) : i < j => <<D!Seen(answers)[i], D!Seen(answers)[j]>> \in B
      /\ \A p \in D!PagesFollowed(answers) : p > 1 => answers[p].data # << >>
  <2>1. IsFiniteSet(T) /\ Cardinality(T) < max /\ max \in Nat
    BY <1>1, <1>4
  <2>2. list \in Seq(T) /\ Len(list) < max
    BY <1>2, <2>1 DEF InItsOrder
  <2>3. D!Seen(answers) = list
    BY <1>6, <1>7, <2>1, <2>2, PagesJoin
  <2>4. ASSUME NEW p \in D!PagesFollowed(answers), p > 1
        PROVE  answers[p].data # << >>
    BY <1>6, <1>7, <2>1, <2>2, <2>4, PromisesHold
  <2>5. \A i \in DOMAIN list : list[i] \in T
    BY <2>2, ElementOfSeq, LenProperties
  <2>. QED
    BY <1>2, <2>3, <2>4, <2>5 DEF InItsOrder, D!ToSet
<1>9. \A i, j \in DOMAIN D!Seen(answers) : i < j => D!SuggestedBefore(D!Seen(answers)[i], D!Seen(answers)[j])
  BY <1>8 DEF B, SuggestionOrder
<1>10. D!Lists(answers, T, D!SuggestedBefore)
  BY <1>8, <1>9 DEF D!Lists
<1>. QED
  BY <1>10 DEF answers, T, max, used

\* GetActiveExpensesForPeriod, GetExpenseSuggestions: a client that follows the pages
\* sees every expense of the month, or every name, once and in order, for any
\* expenses, page size and limits.
THEOREM ListingsAreWhole == Spec => []ListingsArePaged
<1>1. SampleInv => ListingsArePaged
  <2>. SUFFICES ASSUME sample \in ListingInputs
                PROVE  D!ListingsArePaged(sample.held, sample.year, sample.month, sample.today, sample.size)
    BY DEF SampleInv, ListingsArePaged
  <2>. DEFINE held == sample.held
              year == sample.year
              month == sample.month
              now == sample.today
              size == sample.size
  <2>1. AreExpenses(held) /\ now \in Int /\ size \in Int
    BY ReadsAssumption
  <2>. HIDE DEF held, year, month, now, size
  <2>2. D!Lists([p \in 1..(Cardinality(held) + 1) |-> D!GetExpenses(held, year, month, p, size)],
                D!ActiveOfPeriod(held, year, month), D!ListedBefore)
    BY <2>1, ExpensesArePaged
  <2>3. D!Lists([p \in 1..(Cardinality(held) + 1) |-> D!GetExpenseSuggestions(held, now, p, D!PageSizeUsed(size))],
                D!AggregateSuggestions(held, now), D!SuggestedBefore)
    BY <2>1, SuggestionsArePaged
  <2>4. \A r \in D!ActiveOfPeriod(held, year, month) :
          /\ D!CountExpensesByTag(held, r.tag) >= Cardinality({s \in D!ActiveOfPeriod(held, year, month) : s.tag = r.tag})
          /\ r \in D!ToSet(D!GetExpensesInProRataGroup(held, r.group))
    BY <2>1, RowsAreFound
  <2>5. /\ \A r \in D!Active(held) : \E s \in D!AggregateSuggestions(held, now) : s.name = r.name
        /\ \A s \in D!AggregateSuggestions(held, now) :
             s.frequency \in 1..Cardinality(UsesOf(held, s.name))
    BY <2>1, SuggestionsAre
  <2>6. D!ListingsArePaged(held, year, month, now, size)
    BY <2>2, <2>3, <2>4, <2>5, Zenon DEF UsesOf, D!ListingsArePaged, D!Cardinality, Cardinality
  <2>. QED
    BY <2>6 DEF held, year, month, now, size
<1>. QED
  BY <1>1, SampleInvInit, SampleInvNext, PTL DEF Spec
-----------------------------------------------------------------------------
(* The figures of a month, on the cards that show them.                    *)

\* What SumAmounts is.
LEMMA AmountsUnfold ==
  ASSUME NEW X
  PROVE  D!SumAmounts(X) =
           (CHOOSE g : g = [s \in SUBSET X |->
              IF s = {} THEN 0
              ELSE (CHOOSE x \in s : TRUE).amount + g[s \ {CHOOSE x \in s : TRUE}]])[X]
BY Zenon DEF D!SumAmounts, D!FoldSet, D!MapThenFoldSet

\* SumAmounts adds up amounts.
LEMMA AmountsAdd ==
  ASSUME NEW all, IsFiniteSet(all), \A r \in all : r.amount \in Int
  PROVE  Additive([X \in SUBSET all |-> D!SumAmounts(X)], [r \in all |-> r.amount], all)
<1>. DEFINE w == [r \in all |-> r.amount]
            amounts == [X \in SUBSET all |-> D!SumAmounts(X)]
<1>1. PICK big : Sums(big, w, all)
  BY SumsExist
<1>2. ASSUME NEW X \in SUBSET all PROVE D!SumAmounts(X) = big[X]
  <2>. DEFINE Step(g, s) == IF s = {} THEN 0 ELSE (CHOOSE x \in s : TRUE).amount + g[s \ {CHOOSE x \in s : TRUE}]
              IsSum(g) == g = [s \in SUBSET X |-> Step(g, s)]
              sum == CHOOSE g : IsSum(g)
  <2>1. ASSUME NEW g, NEW s \in SUBSET X PROVE Step(g, s) = AddOne(g, w, s)
    BY DEF AddOne
  <2>2. D!SumAmounts(X) = sum[X]
    BY AmountsUnfold, Zenon
  <2>. HIDE DEF Step
  <2>3. ASSUME NEW g PROVE IsSum(g) <=> Sums(g, w, X)
    <3>1. [s \in SUBSET X |-> Step(g, s)] = [s \in SUBSET X |-> AddOne(g, w, s)]
      BY <2>1
    <3>. QED
      BY <3>1 DEF Sums
  <2>4. IsFiniteSet(X)
    BY FS_Subset
  <2>. HIDE DEF IsSum, w
  <2>5. \E g : IsSum(g)
    BY <2>3, <2>4, SumsExist
  <2>6. Sums(sum, w, X)
    BY <2>3, <2>5
  <2>. HIDE DEF sum, amounts
  <2>7. sum[X] = big[X]
    <3>1. Sums(big, w, all) /\ X \subseteq all
      BY <1>1 DEF w
    <3>. QED
      BY <2>6, <3>1, SumsAgree
  <2>. QED
    BY <2>2, <2>7
<1>3. \A r \in all : w[r] \in Int
  OBVIOUS
<1>4. Additive(big, w, all)
  BY <1>1, <1>3, SumsAdd
<1>. HIDE DEF w
<1>5. \A X \in SUBSET all : amounts[X] = big[X]
  BY <1>2
<1>. HIDE DEF amounts
<1>6. Additive(amounts, w, all)
  BY <1>4, <1>5 DEF Additive
<1>. QED
  BY <1>6 DEF amounts, w

\* The first page of a listing holds expenses of the month.
LEMMA FetchedAreOfTheMonth ==
  ASSUME NEW held, AreExpenses(held), NEW year, NEW month
  PROVE  D!Fetched(held, year, month) \subseteq D!ActiveOfPeriod(held, year, month)
<1>. DEFINE T == D!ActiveOfPeriod(held, year, month)
            list == D!InOrder(T, D!ListedBefore)
            used == D!PageSizeUsed(RequestedPageSize)
            page == D!PageOf(list, 1, used)
<1>1. AreExpenses(T)
  <2>1. T \in SUBSET held /\ IsFiniteSet(held)
    BY DEF D!ActiveOfPeriod, D!Active, AreExpenses
  <2>. HIDE DEF T
  <2>2. IsFiniteSet(T)
    BY <2>1, FS_Subset
  <2>. QED
    BY <2>1, <2>2 DEF AreExpenses
<1>2. list \in Seq(T)
  BY <1>1, ListingIsInOrder DEF InItsOrder
<1>3. used \in Nat \ {0}
  BY ReadsAssumption DEF D!PageSizeUsed
<1>4. D!Fetched(held, year, month) = D!ToSet(page)
  <2>1. D!PageAsked(1) = 1
    BY DEF D!PageAsked
  <2>2. D!GetActiveExpensesForPeriod(held, year, month, 1, RequestedPageSize) =
          [data |-> page, total |-> Len(list), page |-> 1,
           pageSize |-> used, hasMore |-> D!HasMore(1, used, Len(list))]
    BY <2>1, Zenon DEF D!GetActiveExpensesForPeriod
  <2>. HIDE DEF page, used, list, T
  <2>. QED
    BY <2>2 DEF D!Fetched
<1>. HIDE DEF used, list, T
<1>5. page = SubSeq(list, 1, IF used < Len(list) THEN used ELSE Len(list))
  <2>1. (1 - 1) * used + 1 = 1 /\ 1 * used = used
    BY <1>3
  <2>. QED
    BY <2>1, Zenon DEF D!PageOf
<1>. HIDE DEF page
<1>6. \A i \in DOMAIN page : page[i] \in T
  <2>. DEFINE last == IF used < Len(list) THEN used ELSE Len(list)
  <2>1. Len(list) \in Nat /\ last \in Nat /\ last <= Len(list)
    BY <1>2, <1>3, LenProperties
  <2>. HIDE DEF last
  <2>2. page = SubSeq(list, 1, last)
    BY <1>5 DEF last
  <2>3. \A i \in 1..last : list[i] \in T
    BY <1>2, <2>1, ElementOfSeq
  <2>4. page \in Seq(T)
    BY <1>2, <2>1, <2>2, <2>3, SubSeqProperties
  <2>. QED
    BY <2>4, ElementOfSeq, LenProperties
<1>. QED
  BY <1>4, <1>6 DEF D!ToSet, T

\* Every expense has one of the three types.
LEMMA TypesPartition ==
  ASSUME NEW F, IsFiniteSet(F), \A r \in F : r.amount \in Int /\ r.type \in D!ExpenseTypes
  PROVE  /\ D!SumAmounts(F) = D!SumAmounts(D!OfType(F, "essentials")) + D!SumAmounts(D!OfType(F, "desires"))
                                + D!SumAmounts(D!OfType(F, "savings"))
         /\ \A X \in SUBSET F : D!SumAmounts(X) \in Int
<1>. DEFINE amounts == [X \in SUBSET F |-> D!SumAmounts(X)]
            w == [r \in F |-> r.amount]
            Of(type) == D!OfType(F, type)
<1>1. Additive(amounts, w, F)
  BY AmountsAdd
<1>3. /\ Of("essentials") \in SUBSET F /\ Of("desires") \in SUBSET F /\ Of("savings") \in SUBSET F
      /\ Of("essentials") \cap Of("desires") = {}
      /\ Of("essentials") \cup Of("desires") \in SUBSET F
      /\ (Of("essentials") \cup Of("desires")) \cap Of("savings") = {}
      /\ (Of("essentials") \cup Of("desires")) \cup Of("savings") = F
  BY DEF D!OfType, D!ExpenseTypes
<1>4. \A X \in SUBSET F : amounts[X] = D!SumAmounts(X)
  OBVIOUS
<1>. HIDE DEF w, amounts, Of
<1>5. amounts[Of("essentials") \cup Of("desires")] = amounts[Of("essentials")] + amounts[Of("desires")]
  BY <1>1, <1>3, AdditiveUnion
<1>6. amounts[(Of("essentials") \cup Of("desires")) \cup Of("savings")]
        = amounts[Of("essentials") \cup Of("desires")] + amounts[Of("savings")]
  BY <1>1, <1>3, AdditiveUnion
<1>7. amounts[F] = amounts[Of("essentials")] + amounts[Of("desires")] + amounts[Of("savings")]
  BY <1>3, <1>5, <1>6
<1>8. F \in SUBSET F
  OBVIOUS
<1>9. D!SumAmounts(F) = D!SumAmounts(Of("essentials")) + D!SumAmounts(Of("desires")) + D!SumAmounts(Of("savings"))
  BY <1>3, <1>4, <1>7, <1>8
<1>10. \A X \in SUBSET F : D!SumAmounts(X) \in Int
  BY <1>1, <1>4 DEF Additive
<1>. QED
  BY <1>9, <1>10 DEF Of

\* Every expense is counted under its tag.
LEMMA TagsPartition ==
  ASSUME NEW F, IsFiniteSet(F), \A r \in F : r.amount \in Int, NEW tagNames
  PROVE  D!SumAmounts(D!ComputeTagSpending(F, tagNames)) = D!SumAmounts(F)
<1>. DEFINE amounts == [X \in SUBSET F |-> D!SumAmounts(X)]
            w == [r \in F |-> r.amount]
            OfTag(tag) == {r \in F : r.tag = tag}
            Percent(tag) == IF D!SumAmounts(F) > 0
                            THEN D!Nearest(10000 * D!SumAmounts(OfTag(tag)), D!SumAmounts(F)) ELSE 0
            Entry(tag) == [tag |-> tag, name |-> IF tag \in tagNames THEN tag ELSE "Unknown",
                          amount |-> D!SumAmounts(OfTag(tag)), percent |-> Percent(tag)]
            T == {Entry(tag) : tag \in {r.tag : r \in F}}
            lines == [X \in SUBSET T |-> D!SumAmounts(X)]
            v == [t \in T |-> t.amount]
            c == [r \in F |-> Entry(r.tag)]
<1>1. D!ComputeTagSpending(F, tagNames) = T
  BY DEF D!ComputeTagSpending
<1>2. Additive(amounts, w, F)
  BY AmountsAdd
<1>3. \A tag : Entry(tag).tag = tag /\ Entry(tag).amount = D!SumAmounts(OfTag(tag)) /\ OfTag(tag) \in SUBSET F
  <2>. HIDE DEF Percent
  <2>. QED
    OBVIOUS
<1>. HIDE DEF Entry, OfTag
<1>4. c \in [F -> T] /\ \A t \in T : \E r \in F : c[r] = t
  OBVIOUS
<1>5. \A t \in T : v[t] = t.amount
  OBVIOUS
<1>6. \A r \in F : c[r] = Entry(r.tag)
  OBVIOUS
<1>7. IsFiniteSet(T)
  <2>1. c \in Surjection(F, T)
    <3>. HIDE DEF c, T
    <3>. QED
      BY <1>4 DEF Surjection
  <2>. HIDE DEF c, T
  <2>. QED
    BY <2>1, FS_Surjection
<1>8. \A X \in SUBSET F : amounts[X] = D!SumAmounts(X) /\ D!SumAmounts(X) \in Int
  <2>1. \A X \in SUBSET F : amounts[X] = D!SumAmounts(X)
    OBVIOUS
  <2>. HIDE DEF amounts, w
  <2>. QED
    BY <1>2, <2>1 DEF Additive
<1>9. ASSUME NEW t \in T
      PROVE  /\ t.amount \in Int
             /\ v[t] = amounts[{r \in F : c[r] = t}]
  <2>1. PICK r \in F : t = Entry(r.tag)
    BY <1>4, <1>6
  <2>2. {q \in F : c[q] = t} = OfTag(r.tag)
    <3>1. \A q \in F : c[q] = t <=> q.tag = r.tag
      <4>. HIDE DEF c, T
      <4>. QED
        BY <1>3, <1>6, <2>1
    <3>. HIDE DEF c, T
    <3>. QED
      BY <3>1 DEF OfTag
  <2>3. t.amount = D!SumAmounts(OfTag(r.tag)) /\ OfTag(r.tag) \in SUBSET F
    BY <1>3, <2>1
  <2>. HIDE DEF c, T, v, amounts
  <2>. QED
    BY <1>5, <1>8, <2>2, <2>3
<1>. HIDE DEF T, c, amounts, w
<1>10. Additive(lines, v, T)
  BY <1>7, <1>9, AmountsAdd
<1>11. lines[T] = D!SumAmounts(T)
  OBVIOUS
<1>. HIDE DEF v, lines
<1>12. lines[T] = amounts[F]
  <2>1. Partitions(c, F, T, amounts, v)
    BY <1>4, <1>9 DEF Partitions
  <2>. QED
    BY <1>2, <1>7, <1>10, <2>1, AdditivePartition
<1>. QED
  BY <1>1, <1>8, <1>11, <1>12

\* allocateCategories: the remainder goes to one of the three.
LEMMA AllocationsSpread ==
  ASSUME NEW budget \in Nat, NEW percent \in [D!ExpenseTypes -> Nat]
  PROVE  LET allocated == D!AllocateCategories(budget, percent)
         IN  /\ allocated["essentials"] \in Int /\ allocated["desires"] \in Int /\ allocated["savings"] \in Int
             /\ allocated["essentials"] + allocated["desires"] + allocated["savings"] = budget
<1>. DEFINE floor == [t \in D!ExpenseTypes |-> (budget * percent[t]) \div 100]
            remainder == budget - (floor["essentials"] + floor["desires"] + floor["savings"])
            Largest(t) == \A s \in D!ExpenseTypes : percent[s] <= percent[t]
            target == CASE Largest("essentials") -> "essentials"
                        [] ~ Largest("essentials") /\ Largest("desires") -> "desires"
                        [] OTHER -> "savings"
            allocated == [floor EXCEPT ![target] = @ + remainder]
<1>1. D!AllocateCategories(budget, percent) = allocated
  BY Zenon DEF D!AllocateCategories
<1>2. target \in D!ExpenseTypes
  <2>. HIDE DEF Largest
  <2>. QED
    BY DEF D!ExpenseTypes
<1>3. ASSUME NEW t \in D!ExpenseTypes PROVE floor[t] \in Nat
  <2>1. budget * percent[t] \in Nat
    OBVIOUS
  <2>. QED
    BY <2>1, QuotientAndRemainder
<1>. HIDE DEF target
<1>4. DOMAIN floor = D!ExpenseTypes
  OBVIOUS
<1>. HIDE DEF floor
<1>5. \A t \in D!ExpenseTypes : allocated[t] = IF t = target THEN floor[t] + remainder ELSE floor[t]
  BY <1>4
<1>6. floor["essentials"] \in Nat /\ floor["desires"] \in Nat /\ floor["savings"] \in Nat
  BY <1>3 DEF D!ExpenseTypes
<1>. HIDE DEF allocated
<1>7. /\ allocated["essentials"] = IF "essentials" = target THEN floor["essentials"] + remainder ELSE floor["essentials"]
      /\ allocated["desires"] = IF "desires" = target THEN floor["desires"] + remainder ELSE floor["desires"]
      /\ allocated["savings"] = IF "savings" = target THEN floor["savings"] + remainder ELSE floor["savings"]
      /\ target = "essentials" \/ target = "desires" \/ target = "savings"
  BY <1>2, <1>5 DEF D!ExpenseTypes
<1>8. /\ allocated["essentials"] \in Int /\ allocated["desires"] \in Int /\ allocated["savings"] \in Int
      /\ allocated["essentials"] + allocated["desires"] + allocated["savings"] = budget
  BY <1>6, <1>7
<1>. QED
  BY <1>1, <1>8

\* A month has 28 to 31 days.
LEMMA MonthsHaveDays ==
  ASSUME NEW year, NEW month
  PROVE  D!DaysInMonth(year, month) \in {28, 29, 30, 31}
BY DEF D!DaysInMonth

\* ComputeCumulativeSpend: the line ends at the whole spending and the whole budget.
LEMMA LineEnds ==
  ASSUME NEW F, \A r \in F : r.date \in Nat \X (1..12) \X (1..31) /\ r.date[3] <= D!DaysInMonth(r.date[1], r.date[2]),
         NEW period, period.budget \in Nat,
         NEW line, line = D!ComputeCumulativeSpend(F, period)
  PROVE  line[Len(line)].actual = D!SumAmounts(F) /\ line[Len(line)].ideal = period.budget
<1>. DEFINE days == D!DaysInMonth(period.year, period.month)
            Spent(day) == {r \in F : D!ParseDayForPeriod(r.date, period) \in 1..day}
            Point(day) == [actual |-> D!SumAmounts(Spent(day)), ideal |-> D!Nearest(period.budget * day, days)]
<1>1. line = [day \in 1..days |-> Point(day)]
  BY Zenon DEF D!ComputeCumulativeSpend
<1>2. days \in {28, 29, 30, 31}
  BY MonthsHaveDays
<1>3. Spent(days) = F
  <2>1. ASSUME NEW r \in F PROVE D!ParseDayForPeriod(r.date, period) \in 1..days
    <3>1. r.date[3] \in 1..31 /\ r.date[3] <= D!DaysInMonth(r.date[1], r.date[2])
      OBVIOUS
    <3>. QED
      BY <1>2, <3>1 DEF D!ParseDayForPeriod
  <2>. HIDE DEF days
  <2>. QED
    BY <2>1
<1>4. D!Nearest(period.budget * days, days) = period.budget
  <2>. HIDE DEF days
  <2>1. CASE days = 28
    BY <2>1 DEF D!Nearest
  <2>2. CASE days = 29
    BY <2>2 DEF D!Nearest
  <2>3. CASE days = 30
    BY <2>3 DEF D!Nearest
  <2>4. CASE days = 31
    BY <2>4 DEF D!Nearest
  <2>. QED
    BY <1>2, <2>1, <2>2, <2>3, <2>4
<1>. HIDE DEF days, Spent
<1>5. Point(days).actual = D!SumAmounts(F) /\ Point(days).ideal = period.budget
  BY <1>3, <1>4
<1>. HIDE DEF Point
<1>6. Len(line) = days /\ line[days] = Point(days)
  <2>1. days \in Nat /\ days \in 1..days
    BY <1>2
  <2>2. line \in Seq({Point(day) : day \in 1..days}) /\ DOMAIN line = 1..days
    BY <1>1, <2>1, SeqDef
  <2>3. Len(line) = days
    BY <2>1, <2>2, LenProperties
  <2>. QED
    BY <1>1, <2>1, <2>3
<1>. QED
  BY <1>5, <1>6

\* ComputePeriodSummary: its parts add up, and the pace stays within what remains.
LEMMA SummaryAddsUp ==
  ASSUME NEW F, IsFiniteSet(F), \A r \in F : r.amount \in Int /\ r.type \in D!ExpenseTypes,
         NEW period, period.budget \in Nat, period.percent \in [D!ExpenseTypes -> Nat],
         NEW now, now \in Nat \X (1..12) \X (1..31),
         NEW summary, summary = D!ComputePeriodSummary(period, F, now)
  PROVE  /\ summary.totalSpent = D!SumAmounts(F)
         /\ summary.totalSpent = summary.categories["essentials"].spent + summary.categories["desires"].spent
                                   + summary.categories["savings"].spent
         /\ summary.categories["essentials"].allocated + summary.categories["desires"].allocated
              + summary.categories["savings"].allocated = period.budget
         /\ summary.categories["essentials"].remaining + summary.categories["desires"].remaining
              + summary.categories["savings"].remaining = summary.remaining
         /\ summary.remaining >= 0
              => summary.budgetPace * (summary.daysInPeriod - summary.daysElapsed) <= summary.remaining
<1>. DEFINE days == D!DaysInMonth(period.year, period.month)
            elapsed == D!ComputeDaysElapsed(period, now)
            total == D!SumAmounts(F)
            remaining == period.budget - total
            rate == IF elapsed > 0 THEN total \div elapsed ELSE 0
            allocated == D!AllocateCategories(period.budget, period.percent)
            pace == IF days > elapsed THEN D!Truncated(remaining, days - elapsed) ELSE 0
            Category(t) == D!BuildCategorySummary(allocated[t], D!SumAmounts(D!OfType(F, t)))
            categories == [t \in D!ExpenseTypes |-> Category(t)]
            onTrack == rate * days <= period.budget
<1>1. summary = [totalSpent |-> total, remaining |-> remaining, daysInPeriod |-> days, daysElapsed |-> elapsed,
                 dailySpendRate |-> rate, budgetPace |-> pace, isOnTrack |-> onTrack, categories |-> categories]
  BY Zenon DEF D!ComputePeriodSummary
<1>. HIDE DEF total, days, elapsed, rate, allocated, pace, categories, onTrack
<1>2. /\ summary.totalSpent = total /\ summary.remaining = remaining /\ summary.daysInPeriod = days
      /\ summary.daysElapsed = elapsed /\ summary.budgetPace = pace /\ summary.categories = categories
  BY <1>1
<1>3. \A t \in D!ExpenseTypes : /\ categories[t].allocated = allocated[t]
                                /\ categories[t].spent = D!SumAmounts(D!OfType(F, t))
                                /\ categories[t].remaining = allocated[t] - D!SumAmounts(D!OfType(F, t))
  BY DEF D!BuildCategorySummary, categories
<1>4. /\ total = D!SumAmounts(D!OfType(F, "essentials")) + D!SumAmounts(D!OfType(F, "desires"))
                   + D!SumAmounts(D!OfType(F, "savings"))
      /\ total \in Int
      /\ \A t \in D!ExpenseTypes : D!SumAmounts(D!OfType(F, t)) \in Int
  BY TypesPartition DEF total, D!OfType
<1>5. /\ allocated["essentials"] \in Int /\ allocated["desires"] \in Int /\ allocated["savings"] \in Int
      /\ allocated["essentials"] + allocated["desires"] + allocated["savings"] = period.budget
  BY AllocationsSpread DEF allocated
<1>6. "essentials" \in D!ExpenseTypes /\ "desires" \in D!ExpenseTypes /\ "savings" \in D!ExpenseTypes
  BY DEF D!ExpenseTypes
<1>7. /\ total = categories["essentials"].spent + categories["desires"].spent + categories["savings"].spent
      /\ categories["essentials"].allocated + categories["desires"].allocated
           + categories["savings"].allocated = period.budget
      /\ categories["essentials"].remaining + categories["desires"].remaining
           + categories["savings"].remaining = remaining
  BY <1>3, <1>4, <1>5, <1>6
<1>8. remaining >= 0 => pace * (days - elapsed) <= remaining
  <2>. HIDE DEF remaining
  <2>1. remaining \in Int
    BY <1>4 DEF remaining
  <2>2. days \in Nat
    BY MonthsHaveDays DEF days
  <2>3. elapsed \in Nat
    BY <2>2, MonthsHaveDays DEF elapsed, D!ComputeDaysElapsed
  <2>4. CASE days > elapsed /\ remaining >= 0
    <3>. DEFINE left == days - elapsed
    <3>1. left \in Nat \ {0} /\ remaining \in Nat
      BY <2>1, <2>2, <2>3, <2>4
    <3>2. pace = remaining \div left
      BY <2>4, <3>1 DEF pace, D!Truncated
    <3>. HIDE DEF left
    <3>3. /\ remaining = left * (remaining \div left) + (remaining % left)
          /\ remaining % left \in Nat /\ remaining \div left \in Nat
      BY <3>1, QuotientAndRemainder
    <3>4. left * (remaining \div left) = (remaining \div left) * left /\ left * (remaining \div left) \in Nat
      BY <3>1, <3>3
    <3>5. pace * left <= remaining
      BY <3>1, <3>2, <3>3, <3>4
    <3>. QED
      BY <3>5 DEF left
  <2>5. CASE ~ (days > elapsed)
    <3>1. pace = 0
      BY <2>5 DEF pace
    <3>2. pace * (days - elapsed) = 0
      BY <2>2, <2>3, <3>1
    <3>. QED
      BY <2>1, <3>2
  <2>. QED
    BY <2>4, <2>5
<1>. HIDE DEF remaining
<1>. QED
  BY <1>2, <1>7, <1>8 DEF total

\* Months are counted back through the years.
LEMMA MonthsCount ==
  ASSUME NEW year \in Nat, NEW month \in 1..12, NEW k \in Nat
  PROVE  LET a == D!MonthsBefore(year, month, k)
         IN  /\ D!MonthsBefore(year, month, 0) = <<year, month>>
             /\ D!MonthsBefore(a[1], a[2], 1) = D!MonthsBefore(year, month, k + 1)
<1>. DEFINE n == 12 * year + month - 1
            q == (n - k) \div 12
            r == (n - k) % 12
<1>1. D!MonthsBefore(year, month, k) = <<q, r + 1>>
  BY DEF D!MonthsBefore
<1>2. D!MonthsBefore(year, month, 0) = <<year, month>>
  <2>1. (12 * year + month - 1 - 0) \div 12 = year /\ ((12 * year + month - 1 - 0) % 12) + 1 = month
    OBVIOUS
  <2>. QED
    BY <2>1 DEF D!MonthsBefore
<1>3. D!MonthsBefore(q, r + 1, 1) = D!MonthsBefore(year, month, k + 1)
  <2>1. n \in Int /\ n - k \in Int /\ n - (k + 1) \in Int
    OBVIOUS
  <2>2. q \in Int /\ r \in 0..11 /\ n - k = 12 * q + r
    <3>. HIDE DEF n
    <3>. QED
      BY <2>1
  <2>3. 12 * q + (r + 1) - 1 - 1 = 12 * year + month - 1 - (k + 1)
    <3>. HIDE DEF q, r
    <3>. QED
      BY <2>2
  <2>. QED
    BY <2>3, Zenon DEF D!MonthsBefore
<1>. QED
  BY <1>1, <1>2, <1>3

\* A trend whose last month has that total.
EndsWith(trend, total) ==
  /\ trend[Len(trend)].totalSpent = total
  /\ \A k \in 2..Len(trend) :
       <<trend[k - 1].year, trend[k - 1].month>> = D!MonthsBefore(trend[k].year, trend[k].month, 1)

\* GetSpendingTrends: the last point is the month asked for, and each follows the one before.
LEMMA TrendsFollow ==
  ASSUME NEW held, NEW periods, NEW months \in Int,
         NEW period \in D!ToSet(periods), period.year \in Nat, period.month \in 1..12,
         NEW trend, trend = D!GetSpendingTrends(held, periods, period.year, period.month, months)
  PROVE  EndsWith(trend, D!SumAmounts(D!Fetched(held, period.year, period.month)))
<1>. DEFINE year == period.year
            month == period.month
            n == D!MonthsAsked(months)
            At(k) == D!MonthsBefore(year, month, n - k)
            Point(k) == D!TrendPoint(held, periods, At(k)[1], At(k)[2])
<1>1. trend = [k \in 1..n |-> Point(k)]
  BY Zenon DEF D!GetSpendingTrends
<1>2. n \in 1..12
  BY DEF D!MonthsAsked
<1>3. ASSUME NEW a, NEW b
      PROVE  /\ D!TrendPoint(held, periods, a, b).year = a
             /\ D!TrendPoint(held, periods, a, b).month = b
             /\ D!TrendPoint(held, periods, a, b).totalSpent
                  = D!SumAmounts(IF {p \in D!ToSet(periods) : p.year = a /\ p.month = b} = {} THEN {}
                                 ELSE D!Fetched(held, a, b))
  BY DEF D!TrendPoint
<1>4. Point(n).totalSpent = D!SumAmounts(D!Fetched(held, year, month))
  <2>1. At(n) = <<year, month>>
    <3>1. n - n = 0
      BY <1>2
    <3>. QED
      BY <3>1, MonthsCount
  <2>2. period \in {p \in D!ToSet(periods) : p.year = year /\ p.month = month}
    OBVIOUS
  <2>3. Point(n) = D!TrendPoint(held, periods, year, month)
    BY <2>1
  <2>. QED
    BY <1>3, <2>2, <2>3
<1>5. ASSUME NEW k \in 2..n
      PROVE  <<Point(k - 1).year, Point(k - 1).month>> = D!MonthsBefore(Point(k).year, Point(k).month, 1)
  <2>1. n - k \in Nat /\ n - (k - 1) = (n - k) + 1
    BY <1>2
  <2>2. D!MonthsBefore(At(k)[1], At(k)[2], 1) = At(k - 1)
    BY <2>1, MonthsCount
  <2>3. At(k - 1) = <<At(k - 1)[1], At(k - 1)[2]>>
    BY DEF D!MonthsBefore
  <2>4. ASSUME NEW j PROVE Point(j).year = At(j)[1] /\ Point(j).month = At(j)[2]
    <3>. HIDE DEF At
    <3>. QED
      BY <1>3
  <2>. HIDE DEF At, Point
  <2>. QED
    BY <2>2, <2>3, <2>4, Zenon
<1>. HIDE DEF n, Point
<1>6. Len(trend) = n /\ \A k \in 1..n : trend[k] = Point(k)
  <2>1. trend \in Seq({Point(k) : k \in 1..n}) /\ DOMAIN trend = 1..n
    BY <1>1, <1>2, SeqDef
  <2>2. Len(trend) = n
    BY <1>2, <2>1, LenProperties
  <2>. QED
    BY <1>1, <2>2
<1>7. trend[Len(trend)].totalSpent = D!SumAmounts(D!Fetched(held, year, month))
  BY <1>2, <1>4, <1>6
<1>8. ASSUME NEW k \in 2..Len(trend)
      PROVE  <<trend[k - 1].year, trend[k - 1].month>> = D!MonthsBefore(trend[k].year, trend[k].month, 1)
  <2>1. k \in 2..n /\ k \in 1..n /\ k - 1 \in 1..n
    BY <1>2, <1>6
  <2>. QED
    BY <1>5, <1>6, <2>1
<1>. QED
  BY <1>7, <1>8, Zenon DEF EndsWith

\* What the cards show of one month.
LEMMA EveryFigureAgrees ==
  ASSUME NEW held, AreExpenses(held),
         \A r \in held : r.type \in D!ExpenseTypes /\ r.date[3] <= D!DaysInMonth(r.date[1], r.date[2]),
         NEW periods, NEW i \in DOMAIN periods, i \in Nat,
         periods[i].year \in Nat, periods[i].month \in 1..12, periods[i].budget \in Nat,
         periods[i].percent \in [D!ExpenseTypes -> Nat],
         NEW tagNames, NEW now \in Nat \X (1..12) \X (1..31), NEW months \in Int
  PROVE  D!FiguresAgree(held, periods, i, tagNames, now, months)
<1>. DEFINE period == periods[i]
            F == D!Fetched(held, period.year, period.month)
            summary == D!GetPeriodSummary(held, period, now)
            lines == D!GetSpendingByTag(held, period, tagNames)
            line == D!GetCumulativeSpend(held, period)
            trend == D!GetSpendingTrends(held, periods, period.year, period.month, months)
            left == summary.daysInPeriod - summary.daysElapsed
            OverTypes(field) == summary.categories["essentials"][field] + summary.categories["desires"][field]
                                  + summary.categories["savings"][field]
<1>1. /\ IsFiniteSet(F)
      /\ \A r \in F : /\ r.amount \in Int /\ r.type \in D!ExpenseTypes
                      /\ r.date \in Nat \X (1..12) \X (1..31)
                      /\ r.date[3] <= D!DaysInMonth(r.date[1], r.date[2])
  <2>1. F \in SUBSET held
    BY FetchedAreOfTheMonth DEF D!ActiveOfPeriod, D!Active
  <2>2. IsFiniteSet(held) /\ \A r \in held : r.amount \in Nat /\ r.date \in Nat \X (1..12) \X (1..31)
    BY DEF AreExpenses
  <2>. HIDE DEF F
  <2>3. IsFiniteSet(F)
    BY <2>1, <2>2, FS_Subset
  <2>. QED
    BY <2>1, <2>2, <2>3
<1>2. /\ summary = D!ComputePeriodSummary(period, F, now)
      /\ lines = D!ComputeTagSpending(F, tagNames)
      /\ line = D!ComputeCumulativeSpend(F, period)
  BY Zenon DEF D!GetPeriodSummary, D!GetSpendingByTag, D!GetCumulativeSpend
<1>3. /\ period.year \in Nat /\ period.month \in 1..12 /\ period.budget \in Nat
      /\ period.percent \in [D!ExpenseTypes -> Nat]
      /\ period = periods[i]
  OBVIOUS
<1>4. D!SumAmounts(F) = D!GetHistoricalComparison(held, periods, i).currentSpent
  <2>. DEFINE Spent(k) == D!GetTotalSpentForPeriod(held, periods[i + k])
              hasPrevious == Len(periods) > i
              comparable == hasPrevious => periods[i + 1].currency = periods[i].currency
              hasAverage == /\ Len(periods) >= i + 3
                            /\ D!AllSameReportingCurrency(periods[i].currency, SubSeq(periods, i + 1, i + 3))
              previous == IF hasPrevious THEN Spent(1) ELSE 0
              change == CASE hasPrevious /\ comparable /\ Spent(1) > 0 ->
                               D!Nearest(10000 * (Spent(0) - Spent(1)), Spent(1))
                          [] hasPrevious /\ comparable /\ Spent(1) = 0 /\ Spent(0) > 0 -> 10000
                          [] OTHER -> 0
              average == IF hasAverage THEN <<(Spent(1) + Spent(2) + Spent(3)) \div 3>> ELSE << >>
  <2>1. D!GetHistoricalComparison(held, periods, i) =
          [currentSpent |-> Spent(0), previousSpent |-> previous, comparable |-> comparable,
           changePercent |-> change, rollingAverage |-> average]
    BY DEF D!GetHistoricalComparison
  <2>2. Spent(0) = D!SumAmounts(F)
    <3>1. i + 0 = i
      OBVIOUS
    <3>. QED
      BY <3>1, Zenon DEF D!GetTotalSpentForPeriod
  <2>. HIDE DEF Spent, previous, comparable, change, average
  <2>. QED
    BY <2>1, <2>2
<1>. HIDE DEF F, summary, lines, line
<1>5. /\ summary.totalSpent = D!SumAmounts(F)
      /\ summary.totalSpent = OverTypes("spent")
      /\ OverTypes("allocated") = period.budget /\ OverTypes("remaining") = summary.remaining
      /\ summary.remaining >= 0 => summary.budgetPace * left <= summary.remaining
  <2>. HIDE DEF period
  <2>. QED
    BY <1>1, <1>2, <1>3, SummaryAddsUp
<1>6. D!SumAmounts(lines) = D!SumAmounts(F)
  BY <1>1, <1>2, TagsPartition
<1>7. line[Len(line)].actual = D!SumAmounts(F) /\ line[Len(line)].ideal = period.budget
  <2>. HIDE DEF period
  <2>. QED
    <3>1. \A r \in F : r.date \in Nat \X (1..12) \X (1..31) /\ r.date[3] <= D!DaysInMonth(r.date[1], r.date[2])
      BY <1>1
    <3>2. period.budget \in Nat /\ line = D!ComputeCumulativeSpend(F, period)
      BY <1>2, <1>3
    <3>. QED
      BY <3>1, <3>2, LineEnds
<1>8. EndsWith(trend, D!SumAmounts(F))
  <2>1. period \in D!ToSet(periods)
    BY DEF D!ToSet
  <2>2. trend = D!GetSpendingTrends(held, periods, period.year, period.month, months)
    OBVIOUS
  <2>. HIDE DEF period, trend, left, OverTypes
  <2>. QED
    BY <1>3, <2>1, <2>2, TrendsFollow DEF F
<1>. HIDE DEF trend
<1>9. /\ summary.totalSpent = OverTypes("spent")
      /\ summary.totalSpent = D!SumAmounts(lines)
      /\ summary.totalSpent = line[Len(line)].actual
      /\ summary.totalSpent = trend[Len(trend)].totalSpent
      /\ summary.totalSpent = D!GetHistoricalComparison(held, periods, i).currentSpent
      /\ OverTypes("allocated") = period.budget /\ OverTypes("remaining") = summary.remaining
      /\ line[Len(line)].ideal = period.budget
      /\ summary.remaining >= 0 => summary.budgetPace * left <= summary.remaining
      /\ \A k \in 2..Len(trend) :
           <<trend[k - 1].year, trend[k - 1].month>> = D!MonthsBefore(trend[k].year, trend[k].month, 1)
  BY <1>4, <1>5, <1>6, <1>7, <1>8, Zenon DEF EndsWith
<1>. QED
  BY <1>9, Zenon DEF D!FiguresAgree, summary, lines, line, trend

\* GetPeriodSummary, GetSpendingByTag, GetCumulativeSpend, GetSpendingTrends,
\* GetHistoricalComparison: the cards of a month show the same total, spread the
\* whole budget and never advise a pace above what remains, for any expenses,
\* periods, dates and limits of the listing.
THEOREM FiguresAreOne == Spec => []FiguresAgree
<1>1. SampleInv => FiguresAgree
  <2>. SUFFICES ASSUME sample \in FigureInputs
                PROVE  D!FiguresAgree(sample.held, sample.periods, sample.of, sample.tags, sample.now, sample.months)
    BY DEF SampleInv, FiguresAgree
  <2>1. /\ AreExpenses(sample.held)
        /\ \A r \in sample.held : r.type \in D!ExpenseTypes /\ r.date[3] <= D!DaysInMonth(r.date[1], r.date[2])
        /\ sample.of \in DOMAIN sample.periods /\ sample.of \in Nat
        /\ sample.periods[sample.of].year \in Nat /\ sample.periods[sample.of].month \in 1..12
        /\ sample.periods[sample.of].budget \in Nat /\ sample.periods[sample.of].percent \in [D!ExpenseTypes -> Nat]
        /\ sample.now \in Nat \X (1..12) \X (1..31) /\ sample.months \in Int
    BY FiguresAssumption
  <2>. DEFINE held == sample.held
              periods == sample.periods
              of == sample.of
              tagNames == sample.tags
              now == sample.now
              months == sample.months
  <2>. HIDE DEF held, periods, of, tagNames, now, months
  <2>2. D!FiguresAgree(held, periods, of, tagNames, now, months)
    BY <2>1, EveryFigureAgrees DEF held, periods, of, now, months
  <2>. QED
    BY <2>2 DEF held, periods, of, tagNames, now, months
<1>. QED
  BY <1>1, SampleInvInit, SampleInvNext, PTL DEF Spec
-----------------------------------------------------------------------------
(* The score of a month.                                                   *)

\* What Total is.
LEMMA TotalUnfold ==
  ASSUME NEW X, NEW f
  PROVE  H!Total(f, X) =
           (CHOOSE g : g = [s \in SUBSET X |->
              IF s = {} THEN 0
              ELSE f[CHOOSE x \in s : TRUE] + g[s \ {CHOOSE x \in s : TRUE}]])[X]
BY Zenon DEF H!Total, H!FoldSet, H!MapThenFoldSet

\* Total adds up.
LEMMA TotalAdds ==
  ASSUME NEW all, IsFiniteSet(all), NEW f, \A x \in all : f[x] \in Int
  PROVE  Additive([X \in SUBSET all |-> H!Total(f, X)], f, all)
<1>. DEFINE sums == [X \in SUBSET all |-> H!Total(f, X)]
<1>1. PICK big : Sums(big, f, all)
  BY SumsExist
<1>2. ASSUME NEW X \in SUBSET all PROVE H!Total(f, X) = big[X]
  <2>. DEFINE Step(g, s) == IF s = {} THEN 0 ELSE f[CHOOSE x \in s : TRUE] + g[s \ {CHOOSE x \in s : TRUE}]
              IsSum(g) == g = [s \in SUBSET X |-> Step(g, s)]
              sum == CHOOSE g : IsSum(g)
  <2>1. ASSUME NEW g, NEW s \in SUBSET X PROVE Step(g, s) = AddOne(g, f, s)
    BY DEF AddOne
  <2>2. H!Total(f, X) = sum[X]
    BY TotalUnfold, Zenon
  <2>. HIDE DEF Step
  <2>3. ASSUME NEW g PROVE IsSum(g) <=> Sums(g, f, X)
    <3>1. [s \in SUBSET X |-> Step(g, s)] = [s \in SUBSET X |-> AddOne(g, f, s)]
      BY <2>1
    <3>. QED
      BY <3>1 DEF Sums
  <2>4. IsFiniteSet(X)
    BY FS_Subset
  <2>. HIDE DEF IsSum
  <2>5. \E g : IsSum(g)
    BY <2>3, <2>4, SumsExist
  <2>6. Sums(sum, f, X)
    BY <2>3, <2>5
  <2>. HIDE DEF sum
  <2>7. sum[X] = big[X]
    BY <1>1, <2>6, SumsAgree
  <2>. QED
    BY <2>2, <2>7
<1>3. Additive(big, f, all)
  BY <1>1, SumsAdd
<1>4. \A X \in SUBSET all : sums[X] = big[X]
  BY <1>2
<1>. HIDE DEF sums
<1>5. Additive(sums, f, all)
  BY <1>3, <1>4 DEF Additive
<1>. QED
  BY <1>5 DEF sums

\* Sets that are listed are finite.
LEMMA FewAreFinite ==
  ASSUME NEW a, NEW b, NEW c, NEW d
  PROVE  IsFiniteSet({a, b}) /\ IsFiniteSet({a, b, c}) /\ IsFiniteSet({a, b, c, d})
<1>1. IsFiniteSet({a})
  BY FS_Singleton
<1>2. IsFiniteSet({a} \cup {b})
  BY <1>1, FS_AddElement
<1>3. IsFiniteSet(({a} \cup {b}) \cup {c})
  BY <1>2, FS_AddElement
<1>4. IsFiniteSet((({a} \cup {b}) \cup {c}) \cup {d})
  BY <1>3, FS_AddElement
<1>5. /\ {a} \cup {b} = {a, b} /\ ({a} \cup {b}) \cup {c} = {a, b, c}
      /\ (({a} \cup {b}) \cup {c}) \cup {d} = {a, b, c, d}
  OBVIOUS
<1>. QED
  BY <1>1, <1>2, <1>3, <1>4, <1>5, Zenon

\* Totals of few and of many.
LEMMA TotalTwo ==
  ASSUME NEW f, NEW a, NEW b, a # b, f[a] \in Int, f[b] \in Int
  PROVE  H!Total(f, {a, b}) = f[a] + f[b]
<1>. DEFINE X == {a, b}
            sums == [Y \in SUBSET X |-> H!Total(f, Y)]
<1>1. IsFiniteSet(X) /\ \A x \in X : f[x] \in Int
  <2>1. IsFiniteSet(X)
    BY FewAreFinite, Zenon
  <2>2. \A x \in X : f[x] \in Int
    OBVIOUS
  <2>. QED
    BY <2>1, <2>2
<1>2. a \in X /\ b \in X
  OBVIOUS
<1>3. sums[X] = H!Total(f, X)
  OBVIOUS
<1>. HIDE DEF X
<1>4. Additive(sums, f, X)
  BY <1>1, TotalAdds
<1>. HIDE DEF sums
<1>5. sums[X] = f[a] + sums[X \ {a}] /\ sums[{b}] = f[b]
  <2>1. X \in SUBSET X
    OBVIOUS
  <2>2. sums[X] = f[a] + sums[X \ {a}]
    BY <1>2, <1>4, <2>1 DEF Additive
  <2>3. sums[{b}] = f[b]
    BY <1>2, <1>4, AdditiveOne
  <2>. QED
    BY <2>2, <2>3
<1>6. X \ {a} = {b}
  BY DEF X
<1>. QED
  BY <1>3, <1>5, <1>6, Zenon DEF X

\* The same, for a lemma's use: f has integers at three, or four, places.
AreThree(f, a, b, c) == a # b /\ a # c /\ b # c /\ f[a] \in Int /\ f[b] \in Int /\ f[c] \in Int
AreFour(f, a, b, c, d) ==
  /\ a # b /\ a # c /\ a # d /\ b # c /\ b # d /\ c # d
  /\ f[a] \in Int /\ f[b] \in Int /\ f[c] \in Int /\ f[d] \in Int

\* The total of three.
LEMMA TotalThree ==
  ASSUME NEW f, NEW a, NEW b, NEW c, AreThree(f, a, b, c)
  PROVE  H!Total(f, {a, b, c}) = f[a] + f[b] + f[c]
<1>. DEFINE X == {a, b, c}
            sums == [Y \in SUBSET X |-> H!Total(f, Y)]
<1>1. IsFiniteSet(X) /\ \A x \in X : f[x] \in Int
  <2>1. IsFiniteSet(X)
    BY FewAreFinite, Zenon
  <2>2. \A x \in X : f[x] \in Int
    BY DEF AreThree
  <2>. QED
    BY <2>1, <2>2
<1>2. a \in X /\ b \in X /\ c \in X
  OBVIOUS
<1>3. sums[X] = H!Total(f, X)
  OBVIOUS
<1>. HIDE DEF X
<1>4. Additive(sums, f, X)
  BY <1>1, TotalAdds
<1>. HIDE DEF sums
<1>5. sums[{a, b, c}] = f[a] + f[b] + f[c]
  BY <1>2, <1>4, AdditiveThree DEF AreThree
<1>. QED
  BY <1>3, <1>5, Zenon DEF X

\* The total of four.
LEMMA TotalFour ==
  ASSUME NEW f, NEW a, NEW b, NEW c, NEW d, AreFour(f, a, b, c, d)
  PROVE  H!Total(f, {a, b, c, d}) = f[a] + f[b] + f[c] + f[d]
<1>. DEFINE X == {a, b, c, d}
            sums == [Y \in SUBSET X |-> H!Total(f, Y)]
<1>1. IsFiniteSet(X) /\ \A x \in X : f[x] \in Int
  <2>1. IsFiniteSet(X)
    BY FewAreFinite, Zenon
  <2>2. \A x \in X : f[x] \in Int
    BY DEF AreFour
  <2>. QED
    BY <2>1, <2>2
<1>2. a \in X /\ b \in X /\ c \in X /\ d \in X
  OBVIOUS
<1>3. sums[X] = H!Total(f, X)
  OBVIOUS
<1>. HIDE DEF X
<1>4. Additive(sums, f, X)
  BY <1>1, TotalAdds
<1>. HIDE DEF sums
<1>5. sums[{a, b, c, d}] = f[a] + f[b] + f[c] + f[d]
  BY <1>2, <1>4, AdditiveFour DEF AreFour
<1>. QED
  BY <1>3, <1>5, Zenon DEF X

\* A total grows with what it adds.
LEMMA TotalGrows ==
  ASSUME NEW X, IsFiniteSet(X), NEW f, NEW h, \A x \in X : f[x] \in Int /\ h[x] \in Int /\ f[x] <= h[x]
  PROVE  H!Total(f, X) <= H!Total(h, X)
<1>. DEFINE sums == [Y \in SUBSET X |-> H!Total(f, Y)]
            more == [Y \in SUBSET X |-> H!Total(h, Y)]
<1>1. Additive(sums, f, X) /\ Additive(more, h, X)
  BY TotalAdds
<1>2. sums[X] = H!Total(f, X) /\ more[X] = H!Total(h, X)
  OBVIOUS
<1>. HIDE DEF sums, more
<1>3. \A x \in X : f[x] <= h[x]
  OBVIOUS
<1>4. sums[X] <= more[X]
  BY <1>1, <1>3, AdditiveGrows
<1>. QED
  BY <1>2, <1>4

\* math.Round: the nearest integer, by the division with remainder it is computed by.
LEMMA RoundedMeans ==
  ASSUME NEW a \in Nat, NEW b \in Nat \ {0}
  PROVE  /\ H!Rounded(a, b) \in Nat
         /\ \E r \in Nat : r < 2 * b /\ 2 * a + b = (2 * b) * H!Rounded(a, b) + r
<1>. DEFINE num == 2 * a + b
            den == 2 * b
<1>1. num \in Nat /\ den \in Nat \ {0}
  OBVIOUS
<1>2. H!Rounded(a, b) = num \div den
  BY DEF H!Rounded
<1>. HIDE DEF num, den
<1>3. /\ num \div den \in Nat /\ num % den \in Nat /\ num % den < den
      /\ num = den * (num \div den) + (num % den)
  BY <1>1, QuotientAndRemainder
<1>. QED
  BY <1>2, <1>3 DEF num, den

\* math.Round: a larger quotient is rounded to no smaller number.
LEMMA QuotientsGrow ==
  ASSUME NEW a \in Nat, NEW b \in Nat \ {0}, NEW c \in Nat, NEW d \in Nat \ {0}, a * d <= c * b
  PROVE  H!Rounded(a, b) \in Nat /\ H!Rounded(c, d) \in Nat /\ H!Rounded(a, b) <= H!Rounded(c, d)
<1>. DEFINE p == H!Rounded(a, b)
            q == H!Rounded(c, d)
<1>1. p \in Nat /\ \E r \in Nat : r < 2 * b /\ 2 * a + b = (2 * b) * p + r
  BY RoundedMeans
<1>2. q \in Nat /\ \E s \in Nat : s < 2 * d /\ 2 * c + d = (2 * d) * q + s
  BY RoundedMeans
<1>. HIDE DEF p, q
<1>3. ASSUME q + 1 <= p PROVE FALSE
  <2>1. (2 * d) * (q + 1) <= (2 * d) * p /\ (2 * d) * (q + 1) = (2 * d) * q + 2 * d
    BY <1>1, <1>2, <1>3, ProductsGrow
  <2>. DEFINE u == 2 * c + d
              v == (2 * d) * p
              x == (2 * b) * p
              y == 2 * a + b
  <2>2. u + 1 <= v /\ u \in Nat /\ v \in Nat
    BY <1>1, <1>2, <2>1
  <2>3. x <= y /\ x \in Nat /\ y \in Nat
    BY <1>1
  <2>4. b * (u + 1) <= b * v /\ b * (u + 1) = b * u + b
    <3>. HIDE DEF u, v
    <3>. QED
      BY <2>2, ProductsGrow
  <2>5. d * x <= d * y
    <3>. HIDE DEF x, y
    <3>. QED
      BY <2>3, ProductsGrow
  <2>6. b * v = d * x
    BY <1>1
  <2>7. b * u = 2 * (c * b) + b * d /\ d * y = 2 * (a * d) + b * d
    OBVIOUS
  <2>8. /\ b * d \in Nat /\ c * b \in Nat /\ a * d \in Nat /\ b * u \in Nat /\ b * v \in Nat
        /\ d * y \in Nat
    BY <2>2, <2>3
  <2>. HIDE DEF u, v, x, y
  <2>9. 2 * (c * b) + b * d + b <= 2 * (a * d) + b * d
    BY <2>4, <2>5, <2>6, <2>7, <2>8
  <2>. QED
    BY <2>8, <2>9
<1>4. p <= q
  BY <1>1, <1>2, <1>3
<1>. QED
  BY <1>1, <1>2, <1>4 DEF p, q

\* The maxima are the rounded weights, of a total of all.
IsScale(max, all) ==
  /\ all \in Nat \ {0} /\ H!Total(H!Base, DOMAIN max) = all
  /\ \A c \in DOMAIN max : H!Base[c] \in Nat \ {0} /\ max[c] \in Nat /\ max[c] = H!Rounded(100 * H!Base[c], all)

\* roundClamp: up to the maximum, which the factor 1 has, and larger for a larger factor.
LEMMA ClampedFollows ==
  ASSUME NEW max, NEW all, IsScale(max, all), NEW c \in DOMAIN max,
         NEW m \in Nat, NEW n \in Nat \ {0}
  PROVE  /\ H!Clamped(c, max, m, n) \in 0..max[c]
         /\ m = n => H!Clamped(c, max, m, n) = max[c]
         /\ \A j \in Nat : \A k \in Nat \ {0} :
              m * k <= j * n => H!Clamped(c, max, m, n) <= H!Clamped(c, max, j, k)
<1>. DEFINE base == 100 * H!Base[c]
            Quotient(j, k) == H!Rounded(base * j, all * k)
<1>1. /\ all \in Nat \ {0} /\ base \in Nat \ {0} /\ max[c] \in Nat /\ max[c] = H!Rounded(base, all)
  BY DEF IsScale
<1>2. \A j, k : H!Clamped(c, max, j, k) = H!Least(Quotient(j, k), max[c])
  BY Zenon DEF H!Clamped, IsScale
<1>. HIDE DEF base
<1>3. ASSUME NEW i \in Nat, NEW k \in Nat \ {0}, NEW j \in Nat, NEW l \in Nat \ {0}, i * l <= j * k
      PROVE  Quotient(i, k) \in Nat /\ Quotient(j, l) \in Nat /\ Quotient(i, k) <= Quotient(j, l)
  <2>1. base * i \in Nat /\ base * j \in Nat /\ all * k \in Nat \ {0} /\ all * l \in Nat \ {0}
    BY <1>1
  <2>2. (base * i) * (all * l) <= (base * j) * (all * k)
    <3>1. base * all \in Nat \ {0} /\ i * l \in Nat /\ j * k \in Nat
      BY <1>1
    <3>2. (base * all) * (i * l) <= (base * all) * (j * k)
      <4>. DEFINE x == base * all
                  y == i * l
                  z == j * k
      <4>1. x \in Nat \ {0} /\ y \in Nat /\ z \in Nat /\ y <= z
        BY <1>3, <3>1
      <4>. HIDE DEF x, y, z
      <4>2. x * y <= x * z
        BY <4>1, ProductsGrow
      <4>. QED
        BY <4>2 DEF x, y, z
    <3>3. (base * i) * (all * l) = (base * all) * (i * l) /\ (base * j) * (all * k) = (base * all) * (j * k)
      BY <1>1
    <3>. QED
      BY <3>2, <3>3
  <2>. QED
    BY <2>1, <2>2, QuotientsGrow
<1>4. m = n => Quotient(m, n) = max[c]
  <2>1. SUFFICES ASSUME m = n PROVE Quotient(n, n) = max[c]
    BY <2>1
  <2>2. Quotient(n, n) <= Quotient(1, 1) /\ Quotient(1, 1) <= Quotient(n, n)
        /\ Quotient(n, n) \in Nat /\ Quotient(1, 1) \in Nat
    <3>1. n * 1 = n /\ 1 * n = n /\ n \in Nat
      OBVIOUS
    <3>. HIDE DEF Quotient
    <3>. QED
      BY <1>3, <3>1
  <2>3. Quotient(1, 1) = max[c]
    <3>1. base * 1 = base /\ all * 1 = all
      BY <1>1
    <3>. QED
      BY <1>1, <3>1
  <2>. HIDE DEF Quotient
  <2>. QED
    BY <2>2, <2>3
<1>5. Quotient(m, n) \in Nat
  <2>1. m * n <= m * n
    OBVIOUS
  <2>. HIDE DEF Quotient
  <2>. QED
    BY <1>3, <2>1
<1>. HIDE DEF Quotient
<1>6. H!Clamped(c, max, m, n) \in 0..max[c] /\ (m = n => H!Clamped(c, max, m, n) = max[c])
  BY <1>1, <1>2, <1>4, <1>5 DEF H!Least
<1>7. ASSUME NEW j \in Nat, NEW k \in Nat \ {0}, m * k <= j * n
      PROVE  H!Clamped(c, max, m, n) <= H!Clamped(c, max, j, k)
  <2>1. Quotient(m, n) \in Nat /\ Quotient(j, k) \in Nat /\ Quotient(m, n) <= Quotient(j, k)
    BY <1>3, <1>7
  <2>. QED
    BY <1>1, <1>2, <2>1 DEF H!Least
<1>. QED
  BY <1>6, <1>7

\* The components of a month, and what their maxima are.
IsWeighted(P, max, all) ==
  /\ IsFiniteSet(P) /\ DOMAIN max = P /\ {"budget", "allocation"} \subseteq P
  /\ P \subseteq {"budget", "allocation", "savings", "stability"}
  /\ IsScale(max, all) /\ H!Total(max, P) = 100
  /\ "stability" \in P => 800 - (2 * max["stability"] - 1) * all >= 0

\* The base weights, in units of five points.
LEMMA BasesAre ==
  /\ H!Base["savings"] = 5 /\ H!Base["budget"] = 5 /\ H!Base["allocation"] = 6 /\ H!Base["stability"] = 4
BY DEF H!Base

\* The weights of the components P, of a total of 100.
AddUp(P, weights) ==
  "allocation" \in P /\ DOMAIN weights = P /\ weights \in [P -> Nat] /\ H!Total(weights, P) = 100

\* Weights of a total of 100 leave no remainder.
LEMMA NoRemainder ==
  ASSUME NEW P, NEW weights, AddUp(P, weights)
  PROVE  H!WithRemainder(weights) = weights
<1>0. "allocation" \in P /\ DOMAIN weights = P /\ weights \in [P -> Nat] /\ H!Total(weights, P) = 100
  BY Zenon DEF AddUp
<1>1. weights["allocation"] + 100 - 100 = weights["allocation"]
  BY <1>0
<1>2. H!WithRemainder(weights) = [weights EXCEPT !["allocation"] = @ + 100 - 100]
  BY <1>0, Zenon DEF H!WithRemainder
<1>3. [weights EXCEPT !["allocation"] = weights["allocation"]] = weights
  BY <1>0
<1>. QED
  BY <1>1, <1>2, <1>3

\* The weights of the components P are rounded, and leave no remainder.
Weighs(P, all, weights) ==
  /\ IsFiniteSet(P) /\ {"budget", "allocation"} \subseteq P
  /\ P \subseteq {"budget", "allocation", "savings", "stability"}
  /\ all \in Nat \ {0} /\ H!Total(H!Base, P) = all
  /\ weights = [c \in P |-> H!Rounded(100 * H!Base[c], all)] /\ H!Total(weights, P) = 100
  /\ "stability" \in P => 800 - (2 * weights["stability"] - 1) * all >= 0

\* Such weights are the maxima.
LEMMA WeightsAreMaxima ==
  ASSUME NEW P, NEW all, NEW weights, Weighs(P, all, weights)
  PROVE  IsWeighted(P, H!Maxima(P), all)
<1>0. /\ IsFiniteSet(P) /\ "budget" \in P /\ "allocation" \in P
      /\ P \subseteq {"budget", "allocation", "savings", "stability"}
      /\ all \in Nat \ {0} /\ H!Total(H!Base, P) = all
      /\ weights = [c \in P |-> H!Rounded(100 * H!Base[c], all)] /\ H!Total(weights, P) = 100
      /\ "stability" \in P => 800 - (2 * weights["stability"] - 1) * all >= 0
  <2>1. {"budget", "allocation"} \subseteq P
    BY Zenon DEF Weighs
  <2>2. "budget" \in P /\ "allocation" \in P
    BY <2>1
  <2>. QED
    BY <2>2, Zenon DEF Weighs
<1>1. H!Maxima(P) = H!WithRemainder(weights)
  BY <1>0 DEF H!Maxima
<1>2. \A c \in P : H!Base[c] \in Nat \ {0}
  BY <1>0, BasesAre
<1>3. ASSUME NEW c \in P
      PROVE  weights[c] = H!Rounded(100 * H!Base[c], all) /\ weights[c] \in Nat
  <2>. DEFINE num == 100 * H!Base[c]
  <2>1. num \in Nat /\ all \in Nat \ {0}
    BY <1>0, <1>2
  <2>2. weights[c] = H!Rounded(num, all)
    BY <1>0
  <2>. HIDE DEF num
  <2>3. H!Rounded(num, all) \in Nat
    BY <2>1, RoundedMeans
  <2>. QED
    BY <2>2, <2>3, Zenon DEF num
<1>4. DOMAIN weights = P /\ weights \in [P -> Nat]
  BY <1>0, <1>3
<1>5. H!Maxima(P) = weights
  <2>1. AddUp(P, weights)
    BY <1>0, <1>4, Zenon DEF AddUp
  <2>2. H!WithRemainder(weights) = weights
    BY <2>1, NoRemainder
  <2>. QED
    BY <1>1, <2>2, Zenon
<1>6. IsScale(weights, all)
  BY <1>0, <1>2, <1>3, <1>4 DEF IsScale
<1>. QED
  BY <1>0, <1>4, <1>5, <1>6 DEF IsWeighted

\* The four sets of components: a budget and an allocation alone.
LEMMA TwoWeighted ==
  IsWeighted({"budget", "allocation"},
             H!Maxima({"budget", "allocation"}), 11)
<1>. DEFINE P == {"budget", "allocation"}
            weights == [c \in P |-> H!Rounded(100 * H!Base[c], 11)]
<1>0. "budget" # "allocation"
  OBVIOUS
<1>1. H!Total(H!Base, P) = 11
  <2>1. H!Base["budget"] \in Int /\ H!Base["allocation"] \in Int
    BY BasesAre
  <2>2. H!Total(H!Base, P) = H!Base["budget"] + H!Base["allocation"]
    BY <1>0, <2>1, TotalTwo
  <2>. QED
    BY <2>2, BasesAre
<1>2. weights["budget"] = 45 /\ weights["allocation"] = 55
  BY BasesAre DEF H!Rounded
<1>3. IsFiniteSet(P)
  BY FewAreFinite, Zenon
<1>4. weights = [c \in P |-> H!Rounded(100 * H!Base[c], 11)]
  OBVIOUS
<1>. HIDE DEF weights
<1>5. H!Total(weights, P) = weights["budget"] + weights["allocation"]
  <2>1. weights["budget"] \in Int /\ weights["allocation"] \in Int
    BY <1>2
  <2>. QED
    BY <1>0, <2>1, TotalTwo
<1>6. H!Total(weights, P) = 100
  BY <1>2, <1>5
<1>7. "stability" \in P => 800 - (2 * weights["stability"] - 1) * 11 >= 0
  BY <1>2
<1>8. /\ "budget" \in P /\ "allocation" \in P
      /\ P \subseteq {"budget", "allocation", "savings", "stability"}
  OBVIOUS
<1>9. 11 \in Nat \ {0}
  OBVIOUS
<1>. HIDE DEF P
<1>10. Weighs(P, 11, weights)
  BY <1>1, <1>3, <1>4, <1>6, <1>7, <1>8, <1>9 DEF Weighs
<1>11. IsWeighted(P, H!Maxima(P), 11)
  BY <1>10, WeightsAreMaxima
<1>. QED
  BY <1>11 DEF P

\* With savings.
LEMMA WithoutStabilityWeighted ==
  IsWeighted({"budget", "allocation", "savings"},
             H!Maxima({"budget", "allocation", "savings"}), 16)
<1>. DEFINE P == {"budget", "allocation", "savings"}
            weights == [c \in P |-> H!Rounded(100 * H!Base[c], 16)]
<1>0. "budget" # "allocation" /\ "budget" # "savings" /\ "allocation" # "savings"
  OBVIOUS
<1>1. H!Total(H!Base, P) = 16
  <2>1. H!Base["budget"] \in Int /\ H!Base["allocation"] \in Int /\ H!Base["savings"] \in Int
    BY BasesAre
  <2>2. H!Total(H!Base, P) = H!Base["budget"] + H!Base["allocation"] + H!Base["savings"]
    <3>1. AreThree(H!Base, "budget", "allocation", "savings")
      BY <1>0, <2>1 DEF AreThree
    <3>. QED
      BY <3>1, TotalThree
  <2>. QED
    BY <2>2, BasesAre
<1>2. weights["budget"] = 31 /\ weights["allocation"] = 38 /\ weights["savings"] = 31
  BY BasesAre DEF H!Rounded
<1>3. IsFiniteSet(P)
  BY FewAreFinite, Zenon
<1>4. weights = [c \in P |-> H!Rounded(100 * H!Base[c], 16)]
  OBVIOUS
<1>. HIDE DEF weights
<1>5. H!Total(weights, P) = weights["budget"] + weights["allocation"] + weights["savings"]
  <2>1. weights["budget"] \in Int /\ weights["allocation"] \in Int /\ weights["savings"] \in Int
    BY <1>2
  <2>2. AreThree(weights, "budget", "allocation", "savings")
    BY <1>0, <2>1 DEF AreThree
  <2>. QED
    BY <2>2, TotalThree
<1>6. H!Total(weights, P) = 100
  BY <1>2, <1>5
<1>7. "stability" \in P => 800 - (2 * weights["stability"] - 1) * 16 >= 0
  BY <1>2
<1>8. /\ "budget" \in P /\ "allocation" \in P
      /\ P \subseteq {"budget", "allocation", "savings", "stability"}
  OBVIOUS
<1>9. 16 \in Nat \ {0}
  OBVIOUS
<1>. HIDE DEF P
<1>10. Weighs(P, 16, weights)
  BY <1>1, <1>3, <1>4, <1>6, <1>7, <1>8, <1>9 DEF Weighs
<1>11. IsWeighted(P, H!Maxima(P), 16)
  BY <1>10, WeightsAreMaxima
<1>. QED
  BY <1>11 DEF P

\* With stability.
LEMMA WithoutSavingsWeighted ==
  IsWeighted({"budget", "allocation", "stability"},
             H!Maxima({"budget", "allocation", "stability"}), 15)
<1>. DEFINE P == {"budget", "allocation", "stability"}
            weights == [c \in P |-> H!Rounded(100 * H!Base[c], 15)]
<1>0. "budget" # "allocation" /\ "budget" # "stability" /\ "allocation" # "stability"
  OBVIOUS
<1>1. H!Total(H!Base, P) = 15
  <2>1. H!Base["budget"] \in Int /\ H!Base["allocation"] \in Int /\ H!Base["stability"] \in Int
    BY BasesAre
  <2>2. H!Total(H!Base, P) = H!Base["budget"] + H!Base["allocation"] + H!Base["stability"]
    <3>1. AreThree(H!Base, "budget", "allocation", "stability")
      BY <1>0, <2>1 DEF AreThree
    <3>. QED
      BY <3>1, TotalThree
  <2>. QED
    BY <2>2, BasesAre
<1>2. weights["budget"] = 33 /\ weights["allocation"] = 40 /\ weights["stability"] = 27
  BY BasesAre DEF H!Rounded
<1>3. IsFiniteSet(P)
  BY FewAreFinite, Zenon
<1>4. weights = [c \in P |-> H!Rounded(100 * H!Base[c], 15)]
  OBVIOUS
<1>. HIDE DEF weights
<1>5. H!Total(weights, P) = weights["budget"] + weights["allocation"] + weights["stability"]
  <2>1. weights["budget"] \in Int /\ weights["allocation"] \in Int /\ weights["stability"] \in Int
    BY <1>2
  <2>2. AreThree(weights, "budget", "allocation", "stability")
    BY <1>0, <2>1 DEF AreThree
  <2>. QED
    BY <2>2, TotalThree
<1>6. H!Total(weights, P) = 100
  BY <1>2, <1>5
<1>7. "stability" \in P => 800 - (2 * weights["stability"] - 1) * 15 >= 0
  BY <1>2
<1>8. /\ "budget" \in P /\ "allocation" \in P
      /\ P \subseteq {"budget", "allocation", "savings", "stability"}
  OBVIOUS
<1>9. 15 \in Nat \ {0}
  OBVIOUS
<1>. HIDE DEF P
<1>10. Weighs(P, 15, weights)
  BY <1>1, <1>3, <1>4, <1>6, <1>7, <1>8, <1>9 DEF Weighs
<1>11. IsWeighted(P, H!Maxima(P), 15)
  BY <1>10, WeightsAreMaxima
<1>. QED
  BY <1>11 DEF P

\* With both.
LEMMA AllWeighted ==
  IsWeighted({"budget", "allocation", "savings", "stability"},
             H!Maxima({"budget", "allocation", "savings", "stability"}), 20)
<1>. DEFINE P == {"budget", "allocation", "savings", "stability"}
            weights == [c \in P |-> H!Rounded(100 * H!Base[c], 20)]
<1>0. /\ "budget" # "allocation" /\ "budget" # "savings" /\ "budget" # "stability"
      /\ "allocation" # "savings" /\ "allocation" # "stability" /\ "savings" # "stability"
  OBVIOUS
<1>1. H!Total(H!Base, P) = 20
  <2>1. /\ H!Base["budget"] \in Int /\ H!Base["allocation"] \in Int /\ H!Base["savings"] \in Int
        /\ H!Base["stability"] \in Int
    BY BasesAre
  <2>2. H!Total(H!Base, P) = H!Base["budget"] + H!Base["allocation"] + H!Base["savings"] + H!Base["stability"]
    <3>1. AreFour(H!Base, "budget", "allocation", "savings", "stability")
      BY <1>0, <2>1 DEF AreFour
    <3>. QED
      BY <3>1, TotalFour
  <2>. QED
    BY <2>2, BasesAre
<1>2. /\ weights["budget"] = 25 /\ weights["allocation"] = 30 /\ weights["savings"] = 25
      /\ weights["stability"] = 20
  BY BasesAre DEF H!Rounded
<1>3. IsFiniteSet(P)
  BY FewAreFinite, Zenon
<1>4. weights = [c \in P |-> H!Rounded(100 * H!Base[c], 20)]
  OBVIOUS
<1>. HIDE DEF weights
<1>5. H!Total(weights, P) = weights["budget"] + weights["allocation"] + weights["savings"] + weights["stability"]
  <2>1. /\ weights["budget"] \in Int /\ weights["allocation"] \in Int /\ weights["savings"] \in Int
        /\ weights["stability"] \in Int
    BY <1>2
  <2>2. AreFour(weights, "budget", "allocation", "savings", "stability")
    BY <1>0, <2>1 DEF AreFour
  <2>. QED
    BY <2>2, TotalFour
<1>6. H!Total(weights, P) = 100
  BY <1>2, <1>5
<1>7. "stability" \in P => 800 - (2 * weights["stability"] - 1) * 20 >= 0
  BY <1>2
<1>8. /\ "budget" \in P /\ "allocation" \in P
      /\ P \subseteq {"budget", "allocation", "savings", "stability"}
  OBVIOUS
<1>9. 20 \in Nat \ {0}
  OBVIOUS
<1>. HIDE DEF P
<1>10. Weighs(P, 20, weights)
  BY <1>1, <1>3, <1>4, <1>6, <1>7, <1>8, <1>9 DEF Weighs
<1>11. IsWeighted(P, H!Maxima(P), 20)
  BY <1>10, WeightsAreMaxima
<1>. QED
  BY <1>11 DEF P

\* resolveWeights: whatever components a month has, their maxima are rounded weights
\* and add up to 100.
LEMMA MaximaAre ==
  ASSUME NEW period, NEW window
  PROVE  \E all : IsWeighted(H!Present(period, window), H!Maxima(H!Present(period, window)), all)
<1>. DEFINE P == H!Present(period, window)
<1>1. \/ P = {"budget", "allocation"} \/ P = {"budget", "allocation", "savings"}
      \/ P = {"budget", "allocation", "stability"} \/ P = {"budget", "allocation", "savings", "stability"}
  BY DEF H!Present
<1>. HIDE DEF P
<1>2. \E all : IsWeighted(P, H!Maxima(P), all)
  BY <1>1, TwoWeighted, WithoutStabilityWeighted, WithoutSavingsWeighted, AllWeighted, Zenon
<1>. QED
  BY <1>2 DEF P

\* Saving more up to the target never scores less.
LEMMA SavingsFollow ==
  ASSUME NEW max, NEW all, IsScale(max, all), "savings" \in DOMAIN max,
         NEW target \in Nat \ {0}, NEW spent, spent["savings"] \in Nat
  PROVE  /\ H!SavingsScore(target, spent, max) \in 0..max["savings"]
         /\ spent["savings"] = target => H!SavingsScore(target, spent, max) = max["savings"]
         /\ \A more : more["savings"] \in Nat /\ spent["savings"] <= more["savings"]
                      => H!SavingsScore(target, spent, max) <= H!SavingsScore(target, more, max)
<1>. DEFINE m == H!Least(spent["savings"], target)
<1>1. \A any : H!SavingsScore(target, any, max) = H!Clamped("savings", max, H!Least(any["savings"], target), target)
  BY DEF H!SavingsScore
<1>2. m \in Nat /\ (spent["savings"] = target => m = target)
  BY DEF H!Least
<1>3. ASSUME NEW more, more["savings"] \in Nat, spent["savings"] <= more["savings"]
      PROVE  /\ H!Least(more["savings"], target) \in Nat
             /\ m * target <= H!Least(more["savings"], target) * target
  <2>. DEFINE j == H!Least(more["savings"], target)
  <2>1. j \in Nat /\ m <= j
    BY <1>3 DEF H!Least
  <2>. HIDE DEF m, j
  <2>2. target * m <= target * j
    BY <1>2, <2>1, ProductsGrow
  <2>3. target * m = m * target /\ target * j = j * target
    BY <1>2, <2>1
  <2>. QED
    BY <2>1, <2>2, <2>3 DEF j
<1>. HIDE DEF m
<1>4. /\ H!Clamped("savings", max, m, target) \in 0..max["savings"]
      /\ m = target => H!Clamped("savings", max, m, target) = max["savings"]
      /\ \A j \in Nat : m * target <= j * target
           => H!Clamped("savings", max, m, target) <= H!Clamped("savings", max, j, target)
  BY <1>2, ClampedFollows
<1>5. H!SavingsScore(target, spent, max) = H!Clamped("savings", max, m, target)
  BY <1>1 DEF m
<1>6. ASSUME NEW more, more["savings"] \in Nat, spent["savings"] <= more["savings"]
      PROVE  H!SavingsScore(target, spent, max) <= H!SavingsScore(target, more, max)
  BY <1>1, <1>3, <1>4, <1>5, <1>6
<1>. QED
  BY <1>2, <1>4, <1>5, <1>6

\* Spending more never scores more.
LEMMA BudgetFollows ==
  ASSUME NEW max, NEW all, IsScale(max, all), "budget" \in DOMAIN max,
         NEW target \in Nat, NEW actual \in Nat
  PROVE  /\ H!BudgetScore(target, actual, max) \in 0..max["budget"]
         /\ actual <= target => H!BudgetScore(target, actual, max) = max["budget"]
         /\ H!BudgetScore(target, actual + 1, max) <= H!BudgetScore(target, actual, max)
<1>. DEFINE Reduced(n) == H!Clamped("budget", max, 3 * target - 2 * n, target)
<1>1. max["budget"] \in Nat
  BY DEF IsScale
<1>2. ASSUME NEW n \in Nat
      PROVE  /\ n <= target => H!BudgetScore(target, n, max) = max["budget"]
             /\ n > target /\ 2 * n >= 3 * target => H!BudgetScore(target, n, max) = 0
             /\ n > target /\ ~ (2 * n >= 3 * target) => H!BudgetScore(target, n, max) = Reduced(n)
  <2>. HIDE DEF Reduced
  <2>1. CASE n <= target
    <3>1. ~ (n > target)
      BY <2>1
    <3>. QED
      BY <2>1, <3>1 DEF H!BudgetScore
  <2>2. CASE n > target /\ 2 * n >= 3 * target
    <3>1. ~ (n <= target)
      BY <2>2
    <3>. QED
      BY <2>2, <3>1 DEF H!BudgetScore
  <2>3. CASE n > target /\ ~ (2 * n >= 3 * target)
    <3>1. ~ (n <= target)
      BY <2>3
    <3>. QED
      BY <2>3, <3>1 DEF H!BudgetScore, Reduced
  <2>. QED
    BY <2>1, <2>2, <2>3
<1>3. ASSUME NEW n \in Nat, n > target, ~ (2 * n >= 3 * target)
      PROVE  /\ Reduced(n) \in 0..max["budget"]
             /\ n + 1 > target /\ ~ (2 * (n + 1) >= 3 * target) => Reduced(n + 1) <= Reduced(n)
  <2>. DEFINE p == 3 * target - 2 * n
              q == 3 * target - 2 * (n + 1)
  <2>1. target \in Nat \ {0} /\ p \in Nat
    BY <1>3
  <2>2. H!Clamped("budget", max, p, target) \in 0..max["budget"]
    <3>. HIDE DEF p
    <3>. QED
      BY <2>1, ClampedFollows
  <2>3. ASSUME ~ (2 * (n + 1) >= 3 * target)
        PROVE  H!Clamped("budget", max, q, target) <= H!Clamped("budget", max, p, target)
    <3>1. q \in Nat /\ q <= p
      BY <2>3
    <3>. HIDE DEF p, q
    <3>2. target * q <= target * p /\ target * q = q * target /\ target * p = p * target
      BY <2>1, <3>1, ProductsGrow
    <3>3. q * target <= p * target
      BY <3>2
    <3>. QED
      BY <2>1, <3>1, <3>3, ClampedFollows
  <2>. QED
    BY <2>2, <2>3
<1>. HIDE DEF Reduced
<1>4. H!BudgetScore(target, actual, max) \in 0..max["budget"]
  BY <1>1, <1>2, <1>3
<1>5. H!BudgetScore(target, actual + 1, max) \in 0..max["budget"]
  <2>1. actual + 1 \in Nat
    OBVIOUS
  <2>. HIDE DEF Reduced
  <2>. QED
    BY <1>1, <1>2, <1>3, <2>1
<1>6. H!BudgetScore(target, actual + 1, max) <= H!BudgetScore(target, actual, max)
  <2>0. actual + 1 \in Nat
    OBVIOUS
  <2>1. CASE actual <= target
    BY <1>1, <1>2, <1>5, <2>1
  <2>2. CASE actual > target /\ 2 * (actual + 1) >= 3 * target
    <3>1. H!BudgetScore(target, actual + 1, max) = 0
      BY <1>2, <2>0, <2>2
    <3>. QED
      BY <1>1, <1>4, <3>1
  <2>3. CASE actual > target /\ ~ (2 * (actual + 1) >= 3 * target)
    <3>1. actual + 1 > target /\ ~ (2 * actual >= 3 * target)
      BY <2>3
    <3>2. H!BudgetScore(target, actual + 1, max) = Reduced(actual + 1)
      BY <1>2, <2>0, <2>3, <3>1
    <3>3. H!BudgetScore(target, actual, max) = Reduced(actual)
      BY <1>2, <2>3, <3>1
    <3>. QED
      BY <1>3, <2>3, <3>1, <3>2, <3>3
  <2>. QED
    BY <2>1, <2>2, <2>3
<1>. QED
  BY <1>2, <1>4, <1>6

\* SumOf is the total of a sequence.
LEMMA SumOfIsTotal ==
  ASSUME NEW f
  PROVE  H!SumOf(f) = H!Total(f, DOMAIN f)
<1>1. H!SumOf(f) = (CHOOSE g : g = [s \in SUBSET (DOMAIN f) |->
                      IF s = {} THEN 0
                      ELSE f[CHOOSE x \in s : TRUE] + g[s \ {CHOOSE x \in s : TRUE}]])[DOMAIN f]
  BY Zenon DEF H!SumOf, H!FoldSeq, H!FoldFunction, H!FoldFunctionOnSet, H!MapThenFoldSet
<1>. QED
  BY <1>1, TotalUnfold, Zenon

\* Totals of equal and of natural numbers.
LEMMA TotalOfEqual ==
  ASSUME NEW X, IsFiniteSet(X), NEW k \in Int, NEW f, \A x \in X : f[x] = k
  PROVE  H!Total(f, X) = Cardinality(X) * k
<1>. DEFINE sums == [Y \in SUBSET X |-> H!Total(f, Y)]
<1>1. Additive(sums, f, X)
  BY TotalAdds
<1>2. sums[X] = H!Total(f, X)
  OBVIOUS
<1>. HIDE DEF sums
<1>. QED
  BY <1>1, <1>2, AdditiveConstant

\* A total of integers is one.
LEMMA TotalIsInt ==
  ASSUME NEW X, IsFiniteSet(X), NEW f, \A x \in X : f[x] \in Int
  PROVE  H!Total(f, X) \in Int
<1>. DEFINE sums == [Y \in SUBSET X |-> H!Total(f, Y)]
<1>1. Additive(sums, f, X)
  BY TotalAdds
<1>2. sums[X] = H!Total(f, X) /\ X \in SUBSET X
  OBVIOUS
<1>. HIDE DEF sums
<1>. QED
  BY <1>1, <1>2 DEF Additive

\* HighestReached is between nothing and the maximum, and the maximum when that is reached.
LEMMA HighestIsReached ==
  ASSUME NEW max \in Nat, NEW all, NEW weight, NEW variation, NEW scale
  PROVE  LET Rest(k) == weight - (2 * k - 1) * all
             Reached(k) == Rest(k) >= 0 /\ H!Square(weight) * variation <= H!Square(Rest(k)) * scale
         IN  /\ H!HighestReached(max, all, weight, variation, scale) \in 0..max
             /\ Reached(max) => H!HighestReached(max, all, weight, variation, scale) = max
<1>. DEFINE Rest(k) == weight - (2 * k - 1) * all
            Reached(k) == Rest(k) >= 0 /\ H!Square(weight) * variation <= H!Square(Rest(k)) * scale
            reached == {k \in 1..max : Reached(k)}
            IsHighest(k) == \A j \in reached : j <= k
            highest == CHOOSE k \in reached \cup {0} : IsHighest(k)
<1>1. H!HighestReached(max, all, weight, variation, scale) = highest
  BY Zenon DEF H!HighestReached
<1>. HIDE DEF Reached
<1>2. reached \in SUBSET (1..max)
  OBVIOUS
<1>3. Reached(max) => max = 0 \/ max \in reached
  OBVIOUS
<1>. HIDE DEF reached
<1>4. \E k \in reached \cup {0} : IsHighest(k)
  <2>. DEFINE below == {max + 1 - k : k \in reached \cup {0}}
  <2>1. max + 1 \in Nat /\ below \in SUBSET (1..(max + 1)) /\ below # {}
    BY <1>2
  <2>. HIDE DEF below
  <2>2. PICK least \in below : \A k \in below : least <= k
    BY <2>1, LeastElement
  <2>3. PICK k \in reached \cup {0} : least = max + 1 - k
    BY <2>2 DEF below
  <2>4. ASSUME NEW j \in reached PROVE j <= k
    <3>1. max + 1 - j \in below
      BY DEF below
    <3>2. max + 1 - k <= max + 1 - j
      BY <2>2, <2>3, <3>1
    <3>. QED
      BY <1>2, <3>2
  <2>. QED
    BY <2>4
<1>. HIDE DEF IsHighest
<1>5. highest \in reached \cup {0} /\ IsHighest(highest)
  BY <1>4
<1>. HIDE DEF highest
<1>6. highest \in 0..max /\ (Reached(max) => highest = max)
  BY <1>2, <1>3, <1>5 DEF IsHighest
<1>. QED
  BY <1>1, <1>6 DEF Reached

\* stabilityComponent: between nothing and the maximum, which equal months have.
LEMMA StabilityFollows ==
  ASSUME NEW max, NEW all, IsScale(max, all), "stability" \in DOMAIN max,
         800 - (2 * max["stability"] - 1) * all >= 0, NEW window \in Seq(Nat)
  PROVE  /\ H!StabilityScore(window, H!SumOf(window), max) \in 0..max["stability"]
         /\ (\A i, j \in DOMAIN window : window[i] = window[j])
              => H!StabilityScore(window, H!SumOf(window), max) = max["stability"]
<1>. DEFINE n == Len(window)
            sum == H!SumOf(window)
            top == max["stability"]
            Deviation(i) == H!Square(n * window[i] - sum)
            squares == [i \in DOMAIN window |-> Deviation(i)]
            scale == (n - 1) * H!Square(sum)
            score == H!StabilityScore(window, sum, max)
<1>1. /\ top \in Nat /\ all \in Nat \ {0} /\ H!Total(H!Base, DOMAIN max) = all
      /\ 200 * H!Base.stability = 800
  BY BasesAre DEF IsScale
<1>2. /\ n \in Nat /\ DOMAIN window = 1..n /\ IsFiniteSet(1..n) /\ Cardinality(1..n) = n
      /\ \A i \in 1..n : window[i] \in Nat
  <2>1. n \in Nat /\ DOMAIN window = 1..n
    BY LenProperties
  <2>2. \A i \in 1..n : window[i] \in Nat
    BY <2>1, ElementOfSeq
  <2>. HIDE DEF n
  <2>3. IsFiniteSet(1..n) /\ Cardinality(1..n) = IF 1 > n THEN 0 ELSE n - 1 + 1
    BY <2>1, FS_Interval
  <2>. QED
    BY <2>1, <2>2, <2>3
<1>3. score = IF sum = 0 THEN top ELSE H!HighestReached(top, all, 800, H!Variation(window, sum), scale)
  BY <1>1 DEF H!StabilityScore
<1>4. sum = H!Total(window, 1..n)
  BY <1>2, SumOfIsTotal
<1>5. sum \in Int
  BY <1>2, <1>4, TotalIsInt
<1>6. score \in 0..top
  <2>. HIDE DEF scale, sum, score, top
  <2>. QED
    BY <1>1, <1>3, HighestIsReached
<1>7. ASSUME \A i, j \in DOMAIN window : window[i] = window[j], sum # 0
      PROVE  score = top
  <2>1. n # 0
    <3>1. CASE n = 0
      <4>1. \A i \in 1..n : window[i] = 0
        BY <3>1
      <4>2. H!Total(window, 1..n) = Cardinality(1..n) * 0
        <5>. HIDE DEF n
        <5>. QED
          BY <1>2, <4>1, TotalOfEqual
      <4>. QED
        BY <1>2, <1>4, <1>7, <4>2
    <3>. QED
      BY <3>1
  <2>. DEFINE k == window[1]
  <2>2. k \in Nat /\ \A i \in 1..n : window[i] = k
    BY <1>2, <1>7, <2>1
  <2>3. sum = n * k
    <3>. HIDE DEF k, n
    <3>1. k \in Int /\ IsFiniteSet(1..n)
      BY <1>2, <2>2
    <3>2. H!Total(window, 1..n) = Cardinality(1..n) * k
      BY <2>2, <3>1, TotalOfEqual
    <3>. QED
      BY <1>2, <1>4, <3>2
  <2>4. \A i \in 1..n : squares[i] = 0
    <3>1. \A i \in 1..n : n * window[i] - sum = 0
      <4>. HIDE DEF k, sum, n
      <4>. QED
        BY <1>2, <2>2, <2>3
    <3>. HIDE DEF n, sum
    <3>. QED
      BY <1>2, <3>1 DEF H!Square
  <2>5. H!Variation(window, sum) = 0
    <3>1. H!Variation(window, sum) = H!SumOf(squares)
      BY Zenon DEF H!Variation
    <3>2. DOMAIN squares = 1..n
      BY <1>2
    <3>. HIDE DEF squares, n
    <3>3. H!SumOf(squares) = Cardinality(1..n) * 0
      BY <1>2, <2>4, <3>2, SumOfIsTotal, TotalOfEqual
    <3>. QED
      BY <1>2, <3>1, <3>3
  <2>6. /\ 800 - (2 * top - 1) * all >= 0
        /\ H!Square(800) * H!Variation(window, sum) <= H!Square(800 - (2 * top - 1) * all) * scale
    <3>1. H!Square(sum) \in Nat /\ scale \in Nat
      <4>. HIDE DEF sum, n
      <4>1. n - 1 \in Nat
        BY <1>2, <2>1
      <4>2. H!Square(sum) \in Nat
        BY <1>5 DEF H!Square
      <4>. QED
        BY <4>1, <4>2
    <3>. DEFINE rest == 800 - (2 * top - 1) * all
    <3>2. rest \in Nat
      BY <1>1
    <3>. HIDE DEF rest, scale, sum, top
    <3>3. H!Square(rest) * scale \in Nat
      BY <3>1, <3>2 DEF H!Square
    <3>4. H!Square(800) * 0 = 0
      BY DEF H!Square
    <3>. QED
      BY <2>5, <3>2, <3>3, <3>4 DEF rest
  <2>7. score = H!HighestReached(top, all, 800, H!Variation(window, sum), scale)
    BY <1>3, <1>7
  <2>. HIDE DEF scale, sum, score, top
  <2>. QED
    BY <1>1, <2>6, <2>7, HighestIsReached
<1>8. sum = 0 => score = top
  BY <1>3
<1>. HIDE DEF sum, score, top
<1>9. score \in 0..top /\ ((\A i, j \in DOMAIN window : window[i] = window[j]) => score = top)
  BY <1>6, <1>7, <1>8
<1>. QED
  BY <1>9 DEF sum, score, top

\* A penalty is not negative and grows with the deviation.
LEMMA PenaltyScales ==
  ASSUME NEW t, NEW deviation \in Int, NEW k \in Nat
  PROVE  H!Penalty(t, deviation) \in Nat /\ H!Penalty(t, deviation) * k = H!Penalty(t, deviation * k)
<1>1. H!Penalty(t, deviation) \in Nat
  BY DEF H!Penalty, H!AbsoluteValue
<1>2. CASE deviation > 0
  <2>1. CASE k = 0
    <3>1. deviation * k = 0 /\ H!Penalty(t, deviation) * k = 0
      BY <1>1, <2>1
    <3>. QED
      BY <3>1 DEF H!Penalty, H!AbsoluteValue
  <2>2. CASE k # 0
    <3>1. deviation * k > 0 /\ deviation * k \in Int
      BY <1>2, <2>2
    <3>2. (2 * deviation) * k = 2 * (deviation * k)
      OBVIOUS
    <3>3. H!Penalty(t, deviation) = (IF t = "desires" THEN 2 * deviation ELSE deviation)
      BY <1>2 DEF H!Penalty, H!AbsoluteValue
    <3>4. H!Penalty(t, deviation * k) = (IF t = "desires" THEN 2 * (deviation * k) ELSE deviation * k)
      <4>. DEFINE x == deviation * k
      <4>. HIDE DEF x
      <4>1. x > 0 /\ x \in Int => H!Penalty(t, x) = (IF t = "desires" THEN 2 * x ELSE x)
        BY DEF H!Penalty, H!AbsoluteValue
      <4>. QED
        BY <3>1, <4>1 DEF x
    <3>5. H!Penalty(t, deviation) * k = H!Penalty(t, deviation * k)
      <4>1. CASE t = "desires"
        BY <3>2, <3>3, <3>4, <4>1
      <4>2. CASE t # "desires"
        BY <3>3, <3>4, <4>2
      <4>. QED
        BY <4>1, <4>2
    <3>. QED
      BY <1>1, <3>5
  <2>. QED
    BY <2>1, <2>2
<1>3. CASE deviation < 0
  <2>1. CASE k = 0
    <3>1. deviation * k = 0 /\ H!Penalty(t, deviation) * k = 0
      BY <1>1, <2>1
    <3>. QED
      BY <3>1 DEF H!Penalty, H!AbsoluteValue
  <2>2. CASE k # 0
    <3>1. deviation * k < 0 /\ deviation * k \in Int
      BY <1>3, <2>2
    <3>2. (2 * (-deviation)) * k = 2 * (-(deviation * k)) /\ (-deviation) * k = -(deviation * k)
      OBVIOUS
    <3>3. H!Penalty(t, deviation) = (IF t = "savings" THEN 2 * (-deviation) ELSE -deviation)
      BY <1>3 DEF H!Penalty, H!AbsoluteValue
    <3>4. H!Penalty(t, deviation * k) = (IF t = "savings" THEN 2 * (-(deviation * k)) ELSE -(deviation * k))
      <4>. DEFINE x == deviation * k
      <4>. HIDE DEF x
      <4>1. x < 0 /\ x \in Int => H!Penalty(t, x) = (IF t = "savings" THEN 2 * (-x) ELSE -x)
        BY DEF H!Penalty, H!AbsoluteValue
      <4>. QED
        BY <3>1, <4>1 DEF x
    <3>5. H!Penalty(t, deviation) * k = H!Penalty(t, deviation * k)
      <4>1. CASE t = "savings"
        BY <3>2, <3>3, <3>4, <4>1
      <4>2. CASE t # "savings"
        BY <3>2, <3>3, <3>4, <4>2
      <4>. QED
        BY <4>1, <4>2
    <3>. QED
      BY <1>1, <3>5
  <2>. QED
    BY <2>1, <2>2
<1>4. CASE deviation = 0
  <2>1. deviation * k = 0
    BY <1>4
  <2>2. H!Penalty(t, 0) = 0
    BY DEF H!Penalty, H!AbsoluteValue
  <2>. QED
    BY <1>4, <2>1, <2>2
<1>. QED
  BY <1>1, <1>2, <1>3, <1>4

\* What moves to desires from the others is penalised as much as the others are spared,
\* and what moves to savings that are missing spares as much as it costs.
LEMMA PenaltiesGrow ==
  ASSUME NEW x \in Int, NEW y \in Int, NEW z \in Int, NEW u \in Nat, NEW v \in Nat, y >= 0
  PROVE  H!Penalty("essentials", x) + H!Penalty("desires", y) + H!Penalty("savings", z)
           <= H!Penalty("essentials", x - u) + H!Penalty("desires", y + (u + v)) + H!Penalty("savings", z - v)
BY DEF H!Penalty, H!AbsoluteValue

\* What moves to savings that stay below their share spares as much as it costs.
LEMMA PenaltiesFall ==
  ASSUME NEW x \in Int, NEW y \in Int, NEW z \in Int, NEW u \in Nat, NEW v \in Nat, z + (u + v) <= 0
  PROVE  H!Penalty("essentials", x - u) + H!Penalty("desires", y - v) + H!Penalty("savings", z + (u + v))
           <= H!Penalty("essentials", x) + H!Penalty("desires", y) + H!Penalty("savings", z)
BY DEF H!Penalty, H!AbsoluteValue

\* The penalties of spending e, d and s of a plan of p, q and r.
Penalties(e, d, s, p, q, r) ==
  H!Penalty("essentials", e * (p + q + r) - p * (e + d + s))
    + H!Penalty("desires", d * (p + q + r) - q * (e + d + s))
    + H!Penalty("savings", s * (p + q + r) - r * (e + d + s))

\* A share that is left alone when one more is spent, and the share that gets it.
LEMMA OtherShareFalls ==
  ASSUME NEW x \in Nat, NEW p \in Nat, NEW plan \in Nat, NEW all \in Nat
  PROVE  (x * plan - p * (all + 1)) * all = (x * plan - p * all) * (all + 1) - plan * x
OBVIOUS

\* The share of the category that one more is spent on.
LEMMA ShareRises ==
  ASSUME NEW x \in Nat, NEW rest \in Nat, NEW p \in Nat, NEW plan \in Nat, NEW all \in Nat, all = x + rest
  PROVE  ((x + 1) * plan - p * (all + 1)) * all = (x * plan - p * all) * (all + 1) + plan * rest
<1>1. plan * all = plan * x + plan * rest
  OBVIOUS
<1>2. ((x + 1) * plan - p * (all + 1)) * all = (x * plan - p * all) * (all + 1) + plan * all - plan * x
  OBVIOUS
<1>3. plan * x \in Nat /\ plan * rest \in Nat /\ (x * plan - p * all) * (all + 1) \in Int
  OBVIOUS
<1>. QED
  BY <1>1, <1>2, <1>3

\* Penalties over a common denominator.
LEMMA PenaltiesScale ==
  ASSUME NEW x \in Int, NEW y \in Int, NEW z \in Int, NEW k \in Nat
  PROVE  (H!Penalty("essentials", x) + H!Penalty("desires", y) + H!Penalty("savings", z)) * k
           = H!Penalty("essentials", x * k) + H!Penalty("desires", y * k) + H!Penalty("savings", z * k)
<1>. DEFINE a == H!Penalty("essentials", x)
            b == H!Penalty("desires", y)
            c == H!Penalty("savings", z)
<1>1. /\ a \in Nat /\ b \in Nat /\ c \in Nat
      /\ a * k = H!Penalty("essentials", x * k) /\ b * k = H!Penalty("desires", y * k)
      /\ c * k = H!Penalty("savings", z * k)
  BY PenaltyScales
<1>. HIDE DEF a, b, c
<1>2. (a + b + c) * k = a * k + b * k + c * k
  BY <1>1
<1>. QED
  BY <1>1, <1>2 DEF a, b, c

\* One more spent on desires that have their share.
LEMMA DesiresRaisePenalties ==
  ASSUME NEW e \in Nat, NEW d \in Nat, NEW s \in Nat, NEW p \in Nat, NEW q \in Nat, NEW r \in Nat,
         d * (p + q + r) - q * (e + d + s) >= 0
  PROVE  Penalties(e, d, s, p, q, r) * (e + d + s + 1) <= Penalties(e, d + 1, s, p, q, r) * (e + d + s)
<1>. DEFINE plan == p + q + r
            all == e + d + s
            x == e * plan - p * all
            y == d * plan - q * all
            z == s * plan - r * all
            x1 == e * plan - p * (all + 1)
            y1 == (d + 1) * plan - q * (all + 1)
            z1 == s * plan - r * (all + 1)
            u == plan * e
            v == plan * s
<1>1. /\ plan \in Nat /\ all \in Nat /\ all + 1 \in Nat /\ e + s \in Nat /\ all = d + (e + s)
      /\ u \in Nat /\ v \in Nat
  OBVIOUS
<1>2. x \in Int /\ y \in Int /\ z \in Int /\ x1 \in Int /\ y1 \in Int /\ z1 \in Int
  OBVIOUS
<1>3. e + (d + 1) + s = all + 1
  OBVIOUS
<1>4. /\ Penalties(e, d, s, p, q, r)
           = H!Penalty("essentials", x) + H!Penalty("desires", y) + H!Penalty("savings", z)
      /\ Penalties(e, d + 1, s, p, q, r)
           = H!Penalty("essentials", x1) + H!Penalty("desires", y1) + H!Penalty("savings", z1)
  BY <1>3, Zenon DEF Penalties
<1>5. y >= 0
  OBVIOUS
<1>6. plan * (e + s) = u + v
  OBVIOUS
<1>. HIDE DEF plan, all
<1>7. /\ x1 * all = x * (all + 1) - u /\ z1 * all = z * (all + 1) - v
      /\ y1 * all = y * (all + 1) + plan * (e + s)
  BY <1>1, OtherShareFalls, ShareRises
<1>. HIDE DEF x, y, z, x1, y1, z1, u, v
<1>8. /\ x * (all + 1) \in Int /\ y * (all + 1) \in Int /\ z * (all + 1) \in Int /\ y * (all + 1) >= 0
  BY <1>1, <1>2, <1>5
<1>9. H!Penalty("essentials", x * (all + 1)) + H!Penalty("desires", y * (all + 1)) + H!Penalty("savings", z * (all + 1))
        <= H!Penalty("essentials", x1 * all) + H!Penalty("desires", y1 * all) + H!Penalty("savings", z1 * all)
  <2>. DEFINE X == x * (all + 1)
              Y == y * (all + 1)
              Z == z * (all + 1)
  <2>1. X \in Int /\ Y \in Int /\ Z \in Int /\ Y >= 0
    BY <1>8
  <2>2. x1 * all = X - u /\ z1 * all = Z - v /\ y1 * all = Y + (u + v)
    BY <1>6, <1>7, Zenon
  <2>. HIDE DEF X, Y, Z
  <2>3. H!Penalty("essentials", X) + H!Penalty("desires", Y) + H!Penalty("savings", Z)
          <= H!Penalty("essentials", X - u) + H!Penalty("desires", Y + (u + v)) + H!Penalty("savings", Z - v)
    BY <1>1, <2>1, PenaltiesGrow
  <2>. QED
    BY <2>2, <2>3, Zenon DEF X, Y, Z
<1>10. Penalties(e, d, s, p, q, r) * (all + 1) <= Penalties(e, d + 1, s, p, q, r) * all
  <2>1. (H!Penalty("essentials", x) + H!Penalty("desires", y) + H!Penalty("savings", z)) * (all + 1)
            = H!Penalty("essentials", x * (all + 1)) + H!Penalty("desires", y * (all + 1)) + H!Penalty("savings", z * (all + 1))
    BY <1>1, <1>2, PenaltiesScale
  <2>2. (H!Penalty("essentials", x1) + H!Penalty("desires", y1) + H!Penalty("savings", z1)) * all
            = H!Penalty("essentials", x1 * all) + H!Penalty("desires", y1 * all) + H!Penalty("savings", z1 * all)
    BY <1>1, <1>2, PenaltiesScale
  <2>. QED
    BY <1>4, <1>9, <2>1, <2>2, Zenon
<1>. QED
  BY <1>10 DEF all

\* One more saved by savings that are still below their share.
LEMMA SavingsLowerPenalties ==
  ASSUME NEW e \in Nat, NEW d \in Nat, NEW s \in Nat, NEW p \in Nat, NEW q \in Nat, NEW r \in Nat,
         (s + 1) * (p + q + r) - r * (e + d + (s + 1)) <= 0
  PROVE  Penalties(e, d, s + 1, p, q, r) * (e + d + s) <= Penalties(e, d, s, p, q, r) * (e + d + s + 1)
<1>. DEFINE plan == p + q + r
            all == e + d + s
            x == e * plan - p * all
            y == d * plan - q * all
            z == s * plan - r * all
            x1 == e * plan - p * (all + 1)
            y1 == d * plan - q * (all + 1)
            z1 == (s + 1) * plan - r * (all + 1)
            u == plan * e
            v == plan * d
<1>1. /\ plan \in Nat /\ all \in Nat /\ all + 1 \in Nat /\ e + d \in Nat /\ all = s + (e + d)
      /\ u \in Nat /\ v \in Nat
  OBVIOUS
<1>2. x \in Int /\ y \in Int /\ z \in Int /\ x1 \in Int /\ y1 \in Int /\ z1 \in Int
  OBVIOUS
<1>3. e + d + (s + 1) = all + 1
  OBVIOUS
<1>4. /\ Penalties(e, d, s, p, q, r)
           = H!Penalty("essentials", x) + H!Penalty("desires", y) + H!Penalty("savings", z)
      /\ Penalties(e, d, s + 1, p, q, r)
           = H!Penalty("essentials", x1) + H!Penalty("desires", y1) + H!Penalty("savings", z1)
  BY <1>3, Zenon DEF Penalties
<1>5. z1 <= 0
  BY <1>3, Zenon
<1>6. plan * (e + d) = u + v
  OBVIOUS
<1>. HIDE DEF plan, all
<1>7. /\ x1 * all = x * (all + 1) - u /\ y1 * all = y * (all + 1) - v
      /\ z1 * all = z * (all + 1) + plan * (e + d)
  BY <1>1, OtherShareFalls, ShareRises
<1>. HIDE DEF x, y, z, x1, y1, z1, u, v
<1>8. /\ x * (all + 1) \in Int /\ y * (all + 1) \in Int /\ z * (all + 1) \in Int /\ z1 * all <= 0
  BY <1>1, <1>2, <1>5
<1>9. H!Penalty("essentials", x1 * all) + H!Penalty("desires", y1 * all) + H!Penalty("savings", z1 * all)
        <= H!Penalty("essentials", x * (all + 1)) + H!Penalty("desires", y * (all + 1)) + H!Penalty("savings", z * (all + 1))
  <2>. DEFINE X == x * (all + 1)
              Y == y * (all + 1)
              Z == z * (all + 1)
  <2>1. x1 * all = X - u /\ y1 * all = Y - v /\ z1 * all = Z + (u + v)
    BY <1>6, <1>7, Zenon
  <2>2. X \in Int /\ Y \in Int /\ Z \in Int /\ Z + (u + v) <= 0
    BY <1>8, <2>1
  <2>. HIDE DEF X, Y, Z
  <2>3. H!Penalty("essentials", X - u) + H!Penalty("desires", Y - v) + H!Penalty("savings", Z + (u + v))
          <= H!Penalty("essentials", X) + H!Penalty("desires", Y) + H!Penalty("savings", Z)
    BY <1>1, <2>2, PenaltiesFall
  <2>. QED
    BY <2>1, <2>3, Zenon DEF X, Y, Z
<1>10. Penalties(e, d, s + 1, p, q, r) * all <= Penalties(e, d, s, p, q, r) * (all + 1)
  <2>1. (H!Penalty("essentials", x) + H!Penalty("desires", y) + H!Penalty("savings", z)) * (all + 1)
            = H!Penalty("essentials", x * (all + 1)) + H!Penalty("desires", y * (all + 1)) + H!Penalty("savings", z * (all + 1))
    BY <1>1, <1>2, PenaltiesScale
  <2>2. (H!Penalty("essentials", x1) + H!Penalty("desires", y1) + H!Penalty("savings", z1)) * all
            = H!Penalty("essentials", x1 * all) + H!Penalty("desires", y1 * all) + H!Penalty("savings", z1 * all)
    BY <1>1, <1>2, PenaltiesScale
  <2>. QED
    BY <1>4, <1>9, <2>1, <2>2, Zenon
<1>. QED
  BY <1>10 DEF all

\* allocationComponent: the share of the maximum that a penalty leaves.
LEMMA SharesFollow ==
  ASSUME NEW max, NEW all, IsScale(max, all), "allocation" \in DOMAIN max,
         NEW penalty \in Nat, NEW whole \in Nat
  PROVE  /\ H!AllocationShare(penalty, whole, max) \in 0..max["allocation"]
         /\ penalty = 0 => H!AllocationShare(penalty, whole, max) = max["allocation"]
         /\ \A larger, base \in Nat :
              (base = 0 => whole = 0) /\ penalty * base <= larger * whole
              => H!AllocationShare(larger, base, max) <= H!AllocationShare(penalty, whole, max)
<1>. DEFINE Left(n, w) == w - H!Least(n, w)
            Share(n, w) == H!Clamped("allocation", max, Left(n, w), w)
<1>1. ASSUME NEW n \in Nat, NEW w \in Nat
      PROVE  Left(n, w) \in Nat /\ H!Least(n, w) \in Nat /\ (n = 0 => Left(n, w) = w)
             /\ (n <= w => H!Least(n, w) = n) /\ (~ n <= w => H!Least(n, w) = w)
  BY DEF H!Least
<1>2. max["allocation"] \in Nat
  BY DEF IsScale
<1>3. \A n, w : H!AllocationShare(n, w, max) = IF w = 0 THEN max["allocation"] ELSE Share(n, w)
  BY Zenon DEF H!AllocationShare
<1>4. ASSUME NEW n \in Nat, NEW w \in Nat
      PROVE  /\ H!AllocationShare(n, w, max) \in 0..max["allocation"]
             /\ n = 0 => H!AllocationShare(n, w, max) = max["allocation"]
  <2>1. CASE w = 0
    BY <1>2, <1>3, <2>1
  <2>2. CASE w # 0
    <3>1. w \in Nat \ {0} /\ Left(n, w) \in Nat /\ (n = 0 => Left(n, w) = w)
      BY <1>1, <2>2
    <3>. HIDE DEF Left
    <3>2. Share(n, w) \in 0..max["allocation"] /\ (Left(n, w) = w => Share(n, w) = max["allocation"])
      BY <3>1, ClampedFollows
    <3>3. H!AllocationShare(n, w, max) = Share(n, w)
      BY <1>3, <2>2
    <3>. QED
      BY <3>1, <3>2, <3>3
  <2>. QED
    BY <2>1, <2>2
<1>5. ASSUME NEW larger \in Nat, NEW base \in Nat, base = 0 => whole = 0, penalty * base <= larger * whole
      PROVE  H!AllocationShare(larger, base, max) <= H!AllocationShare(penalty, whole, max)
  <2>1. CASE whole = 0
    <3>1. H!AllocationShare(penalty, whole, max) = max["allocation"]
      BY <1>3, <2>1
    <3>. QED
      BY <1>2, <1>4, <3>1
  <2>2. CASE whole # 0
    <3>. DEFINE m == H!Least(penalty, whole)
                n == H!Least(larger, base)
    <3>1. /\ whole \in Nat \ {0} /\ base \in Nat \ {0}
          /\ H!AllocationShare(penalty, whole, max) = Share(penalty, whole)
          /\ H!AllocationShare(larger, base, max) = Share(larger, base)
      BY <1>3, <1>5, <2>2
    <3>2. m \in Nat /\ n \in Nat /\ Left(penalty, whole) \in Nat /\ Left(larger, base) \in Nat
      BY <1>1
    <3>3. m * base <= n * whole
      <4>1. CASE larger <= base
        <5>1. n = larger
          BY <4>1, <1>1
        <5>2. m <= penalty
          BY DEF H!Least
        <5>3. m * base <= penalty * base
          <6>1. base * m <= base * penalty
            BY <3>2, <5>2, ProductsGrow
          <6>. QED
            BY <6>1, <3>2
        <5>4. m * base \in Nat /\ penalty * base \in Nat /\ larger * whole \in Nat
          BY <3>2
        <5>. HIDE DEF m, n
        <5>. QED
          BY <1>5, <5>1, <5>3, <5>4
      <4>2. CASE ~ larger <= base
        <5>1. n = base
          BY <4>2, <1>1
        <5>2. m <= whole
          BY DEF H!Least
        <5>3. base * m <= base * whole
          BY <3>2, <5>2, ProductsGrow
        <5>. HIDE DEF m, n
        <5>. QED
          BY <3>2, <5>1, <5>3
      <4>. QED
        BY <4>1, <4>2
    <3>4. Left(larger, base) * whole <= Left(penalty, whole) * base
      <4>1. Left(larger, base) = base - n /\ Left(penalty, whole) = whole - m
        OBVIOUS
      <4>. HIDE DEF m, n, Left
      <4>2. (base - n) * whole = base * whole - n * whole /\ (whole - m) * base = base * whole - m * base
        BY <3>2
      <4>3. base * whole \in Nat /\ n * whole \in Nat /\ m * base \in Nat
        BY <3>2
      <4>4. base * whole - n * whole <= base * whole - m * base
        BY <3>3, <4>3
      <4>. QED
        BY <4>1, <4>2, <4>4
    <3>. HIDE DEF Left
    <3>5. Share(larger, base) <= Share(penalty, whole)
      BY <3>1, <3>2, <3>4, ClampedFollows
    <3>. QED
      BY <3>1, <3>5
  <2>. QED
    BY <2>1, <2>2
<1>. QED
  BY <1>4, <1>5

\* The amounts and the percentages of the categories, as numbers.
IsSplit(percent, spent, kinds, e, d, s, p, q, r) ==
  /\ e \in Nat /\ d \in Nat /\ s \in Nat /\ p \in Nat /\ q \in Nat /\ r \in Nat
  /\ spent["essentials"] = e /\ spent["desires"] = d /\ percent["essentials"] = p /\ percent["desires"] = q
  /\ \/ kinds = {"essentials", "desires", "savings"} /\ spent["savings"] = s /\ percent["savings"] = r
     \/ kinds = {"essentials", "desires"} /\ s = 0 /\ r = 0

\* What allocationComponent computes of them.
IsAllocated(percent, spent, kinds, e, d, s, p, q, r) ==
  /\ H!Total(spent, kinds) = e + d + s /\ H!Total(percent, kinds) = p + q + r
  /\ DOMAIN H!Deviation(percent, spent, kinds) = kinds
  /\ H!Deviation(percent, spent, kinds)["essentials"] = e * (p + q + r) - p * (e + d + s)
  /\ H!Deviation(percent, spent, kinds)["desires"] = d * (p + q + r) - q * (e + d + s)
  /\ "savings" \in kinds => H!Deviation(percent, spent, kinds)["savings"] = s * (p + q + r) - r * (e + d + s)
  /\ H!PenaltyOf(H!Deviation(percent, spent, kinds)) = Penalties(e, d, s, p, q, r)

\* For both sets of categories, with savings and without.
LEMMA SplitsAreAllocated ==
  ASSUME NEW percent, NEW spent, NEW kinds, NEW e, NEW d, NEW s, NEW p, NEW q, NEW r,
         IsSplit(percent, spent, kinds, e, d, s, p, q, r)
  PROVE  IsAllocated(percent, spent, kinds, e, d, s, p, q, r)
<1>. DEFINE deviation == H!Deviation(percent, spent, kinds)
            plan == p + q + r
            all == e + d + s
            penalties == [t \in kinds |-> H!Penalty(t, deviation[t])]
<1>0. "essentials" # "desires" /\ "essentials" # "savings" /\ "desires" # "savings"
  OBVIOUS
<1>1. /\ e \in Nat /\ d \in Nat /\ s \in Nat /\ p \in Nat /\ q \in Nat /\ r \in Nat
      /\ spent["essentials"] = e /\ spent["desires"] = d /\ percent["essentials"] = p /\ percent["desires"] = q
      /\ \/ kinds = {"essentials", "desires", "savings"} /\ spent["savings"] = s /\ percent["savings"] = r
         \/ kinds = {"essentials", "desires"} /\ s = 0 /\ r = 0
  BY Zenon DEF IsSplit
<1>2. H!Total(spent, kinds) = all /\ H!Total(percent, kinds) = plan
  <2>1. CASE kinds = {"essentials", "desires", "savings"} /\ spent["savings"] = s /\ percent["savings"] = r
    <3>1. /\ AreThree(spent, "essentials", "desires", "savings")
          /\ AreThree(percent, "essentials", "desires", "savings")
      BY <1>0, <1>1, <2>1 DEF AreThree
    <3>2. /\ H!Total(spent, kinds) = spent["essentials"] + spent["desires"] + spent["savings"]
          /\ H!Total(percent, kinds) = percent["essentials"] + percent["desires"] + percent["savings"]
      BY <2>1, <3>1, TotalThree
    <3>. QED
      BY <1>1, <2>1, <3>2
  <2>2. CASE kinds = {"essentials", "desires"} /\ s = 0 /\ r = 0
    <3>. HIDE DEF deviation, penalties
    <3>0. /\ spent["essentials"] \in Int /\ spent["desires"] \in Int
          /\ percent["essentials"] \in Int /\ percent["desires"] \in Int
      BY <1>1
    <3>1. H!Total(spent, kinds) = spent["essentials"] + spent["desires"]
      BY <1>0, <2>2, <3>0, TotalTwo
    <3>2. H!Total(percent, kinds) = percent["essentials"] + percent["desires"]
      BY <1>0, <2>2, <3>0, TotalTwo
    <3>. QED
      BY <1>1, <2>2, <3>1, <3>2
  <2>. QED
    BY <1>1, <2>1, <2>2
<1>3. plan \in Nat /\ all \in Nat
  BY <1>1
<1>4. /\ DOMAIN deviation = kinds /\ "essentials" \in kinds /\ "desires" \in kinds
      /\ deviation["essentials"] = e * plan - p * all /\ deviation["desires"] = d * plan - q * all
      /\ "savings" \in kinds => deviation["savings"] = s * plan - r * all
  <2>1. deviation = [t \in kinds |-> spent[t] * plan - percent[t] * all]
    BY <1>2, Zenon DEF H!Deviation
  <2>. HIDE DEF deviation, plan, all
  <2>2. "essentials" \in kinds /\ "desires" \in kinds /\ ("savings" \in kinds => spent["savings"] = s /\ percent["savings"] = r)
    BY <1>0, <1>1
  <2>. QED
    BY <1>1, <2>1, <2>2
<1>. HIDE DEF plan, all
<1>5. /\ e * plan - p * all \in Int /\ d * plan - q * all \in Int /\ s * plan - r * all \in Int
  BY <1>1, <1>3
<1>6. /\ H!Penalty("essentials", e * plan - p * all) \in Nat
      /\ H!Penalty("desires", d * plan - q * all) \in Nat
      /\ H!Penalty("savings", s * plan - r * all) \in Nat
  BY <1>5, PenaltyScales
<1>. HIDE DEF deviation
<1>7. /\ penalties["essentials"] = H!Penalty("essentials", e * plan - p * all)
      /\ penalties["desires"] = H!Penalty("desires", d * plan - q * all)
      /\ "savings" \in kinds => penalties["savings"] = H!Penalty("savings", s * plan - r * all)
  BY <1>4
<1>8. H!PenaltyOf(deviation) = H!Total(penalties, kinds)
  BY <1>4, Zenon DEF H!PenaltyOf
<1>. HIDE DEF penalties
<1>9. Penalties(e, d, s, p, q, r) = H!Penalty("essentials", e * plan - p * all)
        + H!Penalty("desires", d * plan - q * all) + H!Penalty("savings", s * plan - r * all)
  BY Zenon DEF Penalties, plan, all
<1>10. H!Total(penalties, kinds) = Penalties(e, d, s, p, q, r)
  <2>1. CASE kinds = {"essentials", "desires", "savings"}
    <3>1. AreThree(penalties, "essentials", "desires", "savings")
      BY <1>0, <1>6, <1>7, <2>1 DEF AreThree
    <3>2. H!Total(penalties, kinds) = penalties["essentials"] + penalties["desires"] + penalties["savings"]
      BY <2>1, <3>1, TotalThree
    <3>. QED
      BY <1>7, <1>9, <2>1, <3>2
  <2>2. CASE kinds = {"essentials", "desires"} /\ s = 0 /\ r = 0
    <3>1. penalties["essentials"] \in Int /\ penalties["desires"] \in Int
      BY <1>6, <1>7
    <3>2. H!Total(penalties, kinds) = penalties["essentials"] + penalties["desires"]
      BY <1>0, <2>2, <3>1, TotalTwo
    <3>3. s * plan - r * all = 0
      BY <1>3, <2>2
    <3>4. H!Penalty("savings", 0) = 0
      BY DEF H!Penalty, H!AbsoluteValue
    <3>. QED
      BY <1>6, <1>7, <1>9, <3>2, <3>3, <3>4
  <2>. QED
    BY <1>1, <2>1, <2>2
<1>. QED
  BY <1>2, <1>4, <1>8, <1>10, Zenon DEF IsAllocated, plan, all, deviation

\* A split of a month, and of the month with one more spent.
LEMMA AllocationIsShare ==
  ASSUME NEW percent, NEW spent, NEW kinds, NEW e, NEW d, NEW s, NEW p, NEW q, NEW r, NEW max,
         IsSplit(percent, spent, kinds, e, d, s, p, q, r)
  PROVE  /\ H!AllocationScore(percent, spent, kinds, max)
              = H!AllocationShare(Penalties(e, d, s, p, q, r), 2 * (p + q + r) * (e + d + s), max)
         /\ Penalties(e, d, s, p, q, r) \in Nat /\ 2 * (p + q + r) * (e + d + s) \in Nat
<1>1. IsAllocated(percent, spent, kinds, e, d, s, p, q, r)
  BY SplitsAreAllocated
<1>2. H!AllocationScore(percent, spent, kinds, max)
        = H!AllocationShare(Penalties(e, d, s, p, q, r), 2 * (p + q + r) * (e + d + s), max)
  BY <1>1, Zenon DEF H!AllocationScore, IsAllocated
<1>3. /\ e \in Nat /\ d \in Nat /\ s \in Nat /\ p \in Nat /\ q \in Nat /\ r \in Nat
  BY DEF IsSplit
<1>4. /\ e * (p + q + r) - p * (e + d + s) \in Int /\ d * (p + q + r) - q * (e + d + s) \in Int
      /\ s * (p + q + r) - r * (e + d + s) \in Int
  BY <1>3
<1>5. /\ H!Penalty("essentials", e * (p + q + r) - p * (e + d + s)) \in Nat
      /\ H!Penalty("desires", d * (p + q + r) - q * (e + d + s)) \in Nat
      /\ H!Penalty("savings", s * (p + q + r) - r * (e + d + s)) \in Nat
  BY <1>4, PenaltyScales
<1>6. Penalties(e, d, s, p, q, r) \in Nat
  BY <1>5 DEF Penalties
<1>7. 2 * (p + q + r) * (e + d + s) \in Nat
  BY <1>3
<1>. QED
  BY <1>2, <1>6, <1>7

\* The score of a split is a share of the maximum, all of it where every category
\* has its share.
LEMMA AllocationFollows ==
  ASSUME NEW max, NEW all, IsScale(max, all), "allocation" \in DOMAIN max,
         NEW percent, NEW spent, NEW kinds, NEW e, NEW d, NEW s, NEW p, NEW q, NEW r,
         IsSplit(percent, spent, kinds, e, d, s, p, q, r)
  PROVE  /\ H!AllocationScore(percent, spent, kinds, max) \in 0..max["allocation"]
         /\ (/\ e * (p + q + r) = p * (e + d + s) /\ d * (p + q + r) = q * (e + d + s)
             /\ s * (p + q + r) = r * (e + d + s))
            => H!AllocationScore(percent, spent, kinds, max) = max["allocation"]
<1>. DEFINE penalty == Penalties(e, d, s, p, q, r)
            whole == 2 * (p + q + r) * (e + d + s)
<1>1. /\ H!AllocationScore(percent, spent, kinds, max) = H!AllocationShare(penalty, whole, max)
      /\ penalty \in Nat /\ whole \in Nat
  BY AllocationIsShare
<1>2. /\ e \in Nat /\ d \in Nat /\ s \in Nat /\ p \in Nat /\ q \in Nat /\ r \in Nat
  BY DEF IsSplit
<1>3. (/\ e * (p + q + r) = p * (e + d + s) /\ d * (p + q + r) = q * (e + d + s)
       /\ s * (p + q + r) = r * (e + d + s)) => penalty = 0
  <2>. HAVE /\ e * (p + q + r) = p * (e + d + s) /\ d * (p + q + r) = q * (e + d + s)
            /\ s * (p + q + r) = r * (e + d + s)
  <2>1. /\ e * (p + q + r) - p * (e + d + s) = 0 /\ d * (p + q + r) - q * (e + d + s) = 0
        /\ s * (p + q + r) - r * (e + d + s) = 0
    BY <1>2
  <2>2. H!Penalty("essentials", 0) = 0 /\ H!Penalty("desires", 0) = 0 /\ H!Penalty("savings", 0) = 0
    BY DEF H!Penalty, H!AbsoluteValue
  <2>3. penalty = 0 + 0 + 0
    BY <2>1, <2>2, Zenon DEF Penalties
  <2>. HIDE DEF penalty
  <2>. QED
    BY <2>3
<1>. HIDE DEF penalty, whole
<1>4. /\ H!AllocationShare(penalty, whole, max) \in 0..max["allocation"]
      /\ penalty = 0 => H!AllocationShare(penalty, whole, max) = max["allocation"]
  BY <1>1, SharesFollow
<1>. QED
  BY <1>1, <1>3, <1>4

\* Penalties over the plan and the amounts, of amounts that are one apart.
LEMMA WholesCompare ==
  ASSUME NEW m \in Nat, NEW n \in Nat, NEW plan \in Nat, NEW i \in Nat, NEW j \in Nat, m * j <= n * i
  PROVE  m * (2 * plan * j) <= n * (2 * plan * i)
<1>1. CASE plan = 0
  BY <1>1
<1>2. CASE plan # 0
  <2>. DEFINE x == m * j
              y == n * i
              two == 2 * plan
  <2>1. x \in Nat /\ y \in Nat /\ two \in Nat \ {0} /\ x <= y
    BY <1>2
  <2>2. m * (2 * plan * j) = (2 * plan) * (m * j) /\ n * (2 * plan * i) = (2 * plan) * (n * i)
    OBVIOUS
  <2>3. m * (2 * plan * j) = two * x /\ n * (2 * plan * i) = two * y
    BY <2>2, Zenon
  <2>. HIDE DEF x, y, two
  <2>4. two * x <= two * y
    BY <2>1, ProductsGrow
  <2>. QED
    BY <2>3, <2>4
<1>. QED
  BY <1>1, <1>2

\* What decides between two splits of one plan.
IsHarsher(max, all, p, q, r, e, d, s, e2, d2, s2) ==
  /\ IsScale(max, all) /\ "allocation" \in DOMAIN max
  /\ e + d + s > 0 /\ e2 + d2 + s2 > 0
  /\ Penalties(e, d, s, p, q, r) * (e2 + d2 + s2) <= Penalties(e2, d2, s2, p, q, r) * (e + d + s)

\* More penalty for what is spent leaves a smaller score.
LEMMA HarsherScoresLess ==
  ASSUME NEW max, NEW all, NEW percent, NEW spent, NEW more, NEW kinds, NEW p, NEW q, NEW r,
         NEW e, NEW d, NEW s, NEW e2, NEW d2, NEW s2,
         IsSplit(percent, spent, kinds, e, d, s, p, q, r), IsSplit(percent, more, kinds, e2, d2, s2, p, q, r),
         IsHarsher(max, all, p, q, r, e, d, s, e2, d2, s2)
  PROVE  H!AllocationScore(percent, more, kinds, max) <= H!AllocationScore(percent, spent, kinds, max)
<1>. DEFINE penalty == Penalties(e, d, s, p, q, r)
            larger == Penalties(e2, d2, s2, p, q, r)
            plan == p + q + r
            i == e + d + s
            j == e2 + d2 + s2
            whole == 2 * plan * i
            base == 2 * plan * j
<1>1. /\ H!AllocationScore(percent, spent, kinds, max) = H!AllocationShare(penalty, whole, max)
      /\ penalty \in Nat /\ whole \in Nat
  BY AllocationIsShare
<1>2. /\ H!AllocationScore(percent, more, kinds, max) = H!AllocationShare(larger, base, max)
      /\ larger \in Nat /\ base \in Nat
  BY AllocationIsShare
<1>3. /\ e \in Nat /\ d \in Nat /\ s \in Nat /\ p \in Nat /\ q \in Nat /\ r \in Nat
      /\ e2 \in Nat /\ d2 \in Nat /\ s2 \in Nat
  BY DEF IsSplit
<1>4. plan \in Nat /\ i \in Nat /\ j \in Nat
  BY <1>3
<1>5. /\ IsScale(max, all) /\ "allocation" \in DOMAIN max /\ i > 0 /\ j > 0 /\ penalty * j <= larger * i
  BY Zenon DEF IsHarsher
<1>. HIDE DEF penalty, larger, plan, i, j
<1>6. penalty * base <= larger * whole
  BY <1>1, <1>2, <1>4, <1>5, WholesCompare
<1>7. base = 0 => whole = 0
  BY <1>4, <1>5
<1>. HIDE DEF whole, base
<1>8. \A n, w \in Nat : (w = 0 => whole = 0) /\ penalty * w <= n * whole
        => H!AllocationShare(n, w, max) <= H!AllocationShare(penalty, whole, max)
  BY <1>1, <1>5, SharesFollow
<1>. QED
  BY <1>1, <1>2, <1>6, <1>7, <1>8

\* One more on desires that have their share.
LEMMA DesiresLowerAllocation ==
  ASSUME NEW max, NEW all, IsScale(max, all), "allocation" \in DOMAIN max,
         NEW percent, NEW spent, NEW more, NEW kinds, NEW p, NEW q, NEW r, NEW e, NEW d, NEW s,
         IsSplit(percent, spent, kinds, e, d, s, p, q, r), IsSplit(percent, more, kinds, e, d + 1, s, p, q, r),
         e + d + s > 0, d * (p + q + r) - q * (e + d + s) >= 0
  PROVE  H!AllocationScore(percent, more, kinds, max) <= H!AllocationScore(percent, spent, kinds, max)
<1>1. /\ e \in Nat /\ d \in Nat /\ s \in Nat /\ p \in Nat /\ q \in Nat /\ r \in Nat
  BY DEF IsSplit
<1>2. e + (d + 1) + s = e + d + s + 1 /\ e + d + s + 1 > 0
  BY <1>1
<1>3. Penalties(e, d, s, p, q, r) * (e + d + s + 1) <= Penalties(e, d + 1, s, p, q, r) * (e + d + s)
  BY <1>1, DesiresRaisePenalties
<1>4. IsHarsher(max, all, p, q, r, e, d, s, e, d + 1, s)
  BY <1>2, <1>3, Zenon DEF IsHarsher
<1>. QED
  BY <1>4, HarsherScoresLess

\* One more saved by savings that stay below their share.
LEMMA SavingsRaiseAllocation ==
  ASSUME NEW max, NEW all, IsScale(max, all), "allocation" \in DOMAIN max,
         NEW percent, NEW spent, NEW more, NEW kinds, NEW p, NEW q, NEW r, NEW e, NEW d, NEW s,
         IsSplit(percent, spent, kinds, e, d, s, p, q, r), IsSplit(percent, more, kinds, e, d, s + 1, p, q, r),
         e + d + s > 0, (s + 1) * (p + q + r) - r * (e + d + (s + 1)) <= 0
  PROVE  H!AllocationScore(percent, spent, kinds, max) <= H!AllocationScore(percent, more, kinds, max)
<1>1. /\ e \in Nat /\ d \in Nat /\ s \in Nat /\ p \in Nat /\ q \in Nat /\ r \in Nat
  BY DEF IsSplit
<1>2. e + d + (s + 1) = e + d + s + 1 /\ e + d + s + 1 > 0
  BY <1>1
<1>3. Penalties(e, d, s + 1, p, q, r) * (e + d + s) <= Penalties(e, d, s, p, q, r) * (e + d + s + 1)
  BY <1>1, SavingsLowerPenalties
<1>4. IsHarsher(max, all, p, q, r, e, d, s + 1, e, d, s)
  BY <1>2, <1>3, Zenon DEF IsHarsher
<1>. QED
  BY <1>4, HarsherScoresLess

\* The inputs of ComputeHealthScore, with the maxima they are scored by.
IsMonth(period, spent, window, max, all) ==
  /\ period.budget \in Nat /\ period.percent \in [H!Types -> Nat] /\ spent \in [H!Types -> Nat]
  /\ window \in Seq(Nat)
  /\ max = H!Maxima(H!Present(period, window))
  /\ IsWeighted(H!Present(period, window), max, all)

\* The percentages that are planned for a month, spent.
OnPlan(period, spent, window) ==
  /\ \A t \in H!Types : 100 * spent[t] = period.budget * period.percent[t]
  /\ \A i, j \in DOMAIN window : window[i] = window[j]

\* The three types are different.
LEMMA TypesAre == /\ H!Types = {"essentials", "desires", "savings"}
                  /\ "essentials" # "desires" /\ "essentials" # "savings" /\ "desires" # "savings"
BY DEF H!Types

\* The categories that the allocation compares.
LEMMA CategoriesAre ==
  ASSUME NEW P
  PROVE  H!Categories(P) = IF "savings" \in P THEN {"essentials", "desires", "savings"} ELSE {"essentials", "desires"}
<1>1. H!Types \ {"savings"} = {"essentials", "desires"}
  BY TypesAre
<1>. QED
  BY <1>1, TypesAre DEF H!Categories

\* A percentage of a whole number of hundredths.
LEMMA HundredthsAre ==
  ASSUME NEW x \in Nat, NEW n \in Nat
  PROVE  x \div 100 \in Nat /\ (100 * n = x => x \div 100 = n)
OBVIOUS

\* A target is an amount, and the amount of a month on plan.
LEMMA TargetsFollow ==
  ASSUME NEW period, NEW spent,
         period.budget \in Nat, period.percent \in [H!Types -> Nat], spent \in [H!Types -> Nat]
  PROVE  /\ H!SavingsTarget(period) \in Nat /\ H!CombinedTarget(period) \in Nat
         /\ (\A t \in H!Types : 100 * spent[t] = period.budget * period.percent[t])
            => /\ H!SavingsTarget(period) = spent["savings"]
               /\ H!CombinedTarget(period) = spent["essentials"] + spent["desires"]
<1>. DEFINE B == period.budget
            p == period.percent["essentials"]
            q == period.percent["desires"]
            r == period.percent["savings"]
            e == spent["essentials"]
            d == spent["desires"]
            s == spent["savings"]
<1>1. /\ B \in Nat /\ p \in Nat /\ q \in Nat /\ r \in Nat /\ e \in Nat /\ d \in Nat /\ s \in Nat
  BY TypesAre
<1>2. H!SavingsTarget(period) = (B * r) \div 100 /\ H!CombinedTarget(period) = (B * (p + q)) \div 100
  BY Zenon DEF H!SavingsTarget, H!CombinedTarget
<1>3. (\A t \in H!Types : 100 * spent[t] = period.budget * period.percent[t])
      => 100 * e = B * p /\ 100 * d = B * q /\ 100 * s = B * r
  BY TypesAre, Zenon
<1>. HIDE DEF B, p, q, r, e, d, s
<1>4. B * r \in Nat /\ B * (p + q) \in Nat /\ B * (p + q) = B * p + B * q /\ e + d \in Nat
  BY <1>1
<1>5. 100 * e = B * p /\ 100 * d = B * q => 100 * (e + d) = B * (p + q)
  <2>. DEFINE x == B * p
              y == B * q
              z == B * (p + q)
  <2>1. x \in Nat /\ y \in Nat /\ z = x + y
    BY <1>1, <1>4
  <2>. HIDE DEF x, y, z
  <2>2. 100 * e = x /\ 100 * d = y => 100 * (e + d) = z
    BY <1>1, <2>1
  <2>. QED
    BY <2>2, Zenon DEF x, y, z
<1>6. /\ (B * r) \div 100 \in Nat /\ (100 * s = B * r => (B * r) \div 100 = s)
      /\ (B * (p + q)) \div 100 \in Nat
      /\ (100 * (e + d) = B * (p + q) => (B * (p + q)) \div 100 = e + d)
  BY <1>1, <1>4, HundredthsAre
<1>. QED
  BY <1>2, <1>3, <1>5, <1>6, Zenon DEF e, d, s

\* The amounts of the categories, and those with one more spent, have names.
IsDivided(percent, spent, kinds) ==
  \E e, d, s, p, q, r :
    /\ IsSplit(percent, spent, kinds, e, d, s, p, q, r)
    /\ IsSplit(percent, H!More(spent, "desires"), kinds, e, d + 1, s, p, q, r)
    /\ "savings" \in kinds => IsSplit(percent, H!More(spent, "savings"), kinds, e, d, s + 1, p, q, r)

\* The categories of a month, and of the same with one more spent, as numbers.
LEMMA MonthsSplit ==
  ASSUME NEW percent \in [H!Types -> Nat], NEW spent \in [H!Types -> Nat], NEW P
  PROVE  IsDivided(percent, spent, H!Categories(P))
<1>. DEFINE kinds == H!Categories(P)
            s == IF "savings" \in P THEN spent["savings"] ELSE 0
            r == IF "savings" \in P THEN percent["savings"] ELSE 0
            e == spent["essentials"]
            d == spent["desires"]
            p == percent["essentials"]
            q == percent["desires"]
            desires == H!More(spent, "desires")
            saved == H!More(spent, "savings")
<1>1. kinds = IF "savings" \in P THEN {"essentials", "desires", "savings"} ELSE {"essentials", "desires"}
  BY CategoriesAre
<1>2. /\ e \in Nat /\ d \in Nat /\ p \in Nat /\ q \in Nat
      /\ spent["savings"] \in Nat /\ percent["savings"] \in Nat
  BY TypesAre
<1>3. /\ e \in Nat /\ d \in Nat /\ p \in Nat /\ q \in Nat /\ s \in Nat /\ r \in Nat /\ d + 1 \in Nat
      /\ s + 1 \in Nat
  BY <1>2
<1>4. /\ desires["essentials"] = e /\ desires["desires"] = d + 1 /\ desires["savings"] = spent["savings"]
      /\ saved["essentials"] = e /\ saved["desires"] = d /\ saved["savings"] = spent["savings"] + 1
  BY TypesAre DEF H!More
<1>5. "savings" \in kinds <=> "savings" \in P
  BY <1>1, TypesAre
<1>6. /\ IsSplit(percent, spent, kinds, e, d, s, p, q, r)
      /\ IsSplit(percent, desires, kinds, e, d + 1, s, p, q, r)
      /\ "savings" \in kinds => IsSplit(percent, saved, kinds, e, d, s + 1, p, q, r)
  <2>1. CASE "savings" \in P
    <3>1. kinds = {"essentials", "desires", "savings"} /\ s = spent["savings"] /\ r = percent["savings"]
      BY <1>1, <2>1
    <3>. HIDE DEF kinds, s, r, e, d, p, q, desires, saved
    <3>2. /\ spent["essentials"] = e /\ spent["desires"] = d /\ percent["essentials"] = p
          /\ percent["desires"] = q
      BY DEF e, d, p, q
    <3>. QED
      BY <1>3, <1>4, <3>1, <3>2 DEF IsSplit
  <2>2. CASE "savings" \notin P
    <3>1. kinds = {"essentials", "desires"} /\ s = 0 /\ r = 0 /\ "savings" \notin kinds
      BY <1>1, <1>5, <2>2
    <3>. HIDE DEF kinds, s, r, e, d, p, q, desires, saved
    <3>2. /\ spent["essentials"] = e /\ spent["desires"] = d /\ percent["essentials"] = p
          /\ percent["desires"] = q
      BY DEF e, d, p, q
    <3>. QED
      BY <1>3, <1>4, <3>1, <3>2 DEF IsSplit
  <2>. QED
    BY <2>1, <2>2
<1>. HIDE DEF s, r, e, d, p, q
<1>. QED
  BY <1>6, Zenon DEF IsDivided

\* The components' scores are of the components' inputs.
LEMMA ScoresAre ==
  ASSUME NEW period, NEW spent, NEW window, NEW max
  PROVE  LET marks == H!ScoresOf(period, spent, window, max)
         IN  /\ DOMAIN marks = DOMAIN max
             /\ "savings" \in DOMAIN max
                => marks["savings"] = H!SavingsScore(H!SavingsTarget(period), spent, max)
             /\ "budget" \in DOMAIN max
                => marks["budget"] = H!BudgetScore(H!CombinedTarget(period), spent["essentials"] + spent["desires"], max)
             /\ "allocation" \in DOMAIN max
                => marks["allocation"] = H!AllocationScore(period.percent, spent, H!Categories(DOMAIN max), max)
             /\ "stability" \in DOMAIN max
                => marks["stability"] = H!StabilityScore(window, H!SumOf(window), max)
BY DEF H!ScoresOf

\* What the maxima of a month say of it.
LEMMA MonthsAre ==
  ASSUME NEW period, NEW spent, NEW window, NEW max, NEW all, IsMonth(period, spent, window, max, all)
  PROVE  /\ period.budget \in Nat /\ period.percent \in [H!Types -> Nat] /\ spent \in [H!Types -> Nat]
         /\ window \in Seq(Nat) /\ max = H!Maxima(H!Present(period, window))
         /\ DOMAIN max = H!Present(period, window) /\ IsFiniteSet(DOMAIN max)
         /\ "budget" \in DOMAIN max /\ "allocation" \in DOMAIN max
         /\ DOMAIN max \subseteq {"budget", "allocation", "savings", "stability"}
         /\ IsScale(max, all) /\ H!Total(max, DOMAIN max) = 100
         /\ "stability" \in DOMAIN max => 800 - (2 * max["stability"] - 1) * all >= 0
         /\ "savings" \in DOMAIN max => H!SavingsTarget(period) # 0
         /\ \A c \in DOMAIN max : max[c] \in Nat
<1>1. /\ period.budget \in Nat /\ period.percent \in [H!Types -> Nat] /\ spent \in [H!Types -> Nat]
      /\ window \in Seq(Nat) /\ max = H!Maxima(H!Present(period, window))
      /\ IsWeighted(H!Present(period, window), max, all)
  BY Zenon DEF IsMonth
<1>2. /\ DOMAIN max = H!Present(period, window) /\ IsFiniteSet(DOMAIN max)
      /\ "budget" \in DOMAIN max /\ "allocation" \in DOMAIN max
      /\ DOMAIN max \subseteq {"budget", "allocation", "savings", "stability"}
      /\ IsScale(max, all) /\ H!Total(max, DOMAIN max) = 100
      /\ "stability" \in DOMAIN max => 800 - (2 * max["stability"] - 1) * all >= 0
  BY <1>1 DEF IsWeighted
<1>3. "savings" \in DOMAIN max => H!SavingsTarget(period) # 0
  BY <1>2 DEF H!Present
<1>4. \A c \in DOMAIN max : max[c] \in Nat
  BY <1>2 DEF IsScale
<1>. QED
  BY <1>1, <1>2, <1>3, <1>4

\* What is spent in the proportions of the plan.
IsProportional(B, e, d, s, p, q, r) ==
  /\ B \in Nat /\ e \in Nat /\ d \in Nat /\ s \in Nat /\ p \in Nat /\ q \in Nat /\ r \in Nat
  /\ 100 * e = B * p /\ 100 * d = B * q /\ 100 * s = B * r

\* Amounts in the proportion of the percentages have their shares.
LEMMA SharesAreProportional ==
  ASSUME NEW B, NEW e, NEW d, NEW s, NEW p, NEW q, NEW r, IsProportional(B, e, d, s, p, q, r)
  PROVE  /\ e * (p + q + r) = p * (e + d + s) /\ d * (p + q + r) = q * (e + d + s)
         /\ s * (p + q + r) = r * (e + d + s)
<1>0. /\ B \in Nat /\ e \in Nat /\ d \in Nat /\ s \in Nat /\ p \in Nat /\ q \in Nat /\ r \in Nat
      /\ 100 * e = B * p /\ 100 * d = B * q /\ 100 * s = B * r
  BY Zenon DEF IsProportional
<1>1. ASSUME NEW x \in Nat, NEW y \in Nat, NEW i \in Nat, NEW j \in Nat, 100 * x = B * i, 100 * y = B * j
      PROVE  x * j = i * y
  <2>1. (100 * x) * j = (B * i) * j /\ (100 * y) * i = (B * j) * i
    BY <1>1, Zenon
  <2>2. (B * i) * j = (B * j) * i /\ (100 * x) * j = 100 * (x * j) /\ (100 * y) * i = 100 * (i * y)
    BY <1>0
  <2>3. 100 * (x * j) = 100 * (i * y)
    BY <2>1, <2>2, Zenon
  <2>. DEFINE m == x * j
              n == i * y
  <2>4. m \in Nat /\ n \in Nat
    OBVIOUS
  <2>. HIDE DEF m, n
  <2>5. 100 * m = 100 * n => m = n
    BY <2>4
  <2>. QED
    BY <2>3, <2>5, Zenon DEF m, n
<1>2. e * q = p * d /\ e * r = p * s /\ d * r = q * s
  BY <1>0, <1>1
<1>3. d * p = q * e /\ s * p = r * e /\ s * q = r * d
  BY <1>0, <1>1
<1>4. /\ e * (p + q + r) = e * p + e * q + e * r /\ p * (e + d + s) = e * p + p * d + p * s
      /\ d * (p + q + r) = d * p + d * q + d * r /\ q * (e + d + s) = q * e + d * q + q * s
      /\ s * (p + q + r) = s * p + s * q + s * r /\ r * (e + d + s) = r * e + r * d + s * r
  BY <1>0
<1>. QED
  BY <1>2, <1>3, <1>4, Zenon

\* Every score is up to its maximum, and a month on plan has the maxima.
LEMMA ScoresFollow ==
  ASSUME NEW period, NEW spent, NEW window, NEW max, NEW all, IsMonth(period, spent, window, max, all)
  PROVE  LET marks == H!ScoresOf(period, spent, window, max)
         IN  /\ \A c \in DOMAIN max : marks[c] \in 0..max[c]
             /\ OnPlan(period, spent, window) => \A c \in DOMAIN max : marks[c] = max[c]
<1>. DEFINE marks == H!ScoresOf(period, spent, window, max)
            target == H!SavingsTarget(period)
            combined == H!CombinedTarget(period)
            actual == spent["essentials"] + spent["desires"]
            plan == OnPlan(period, spent, window)
            Holds(c) == marks[c] \in 0..max[c] /\ (plan => marks[c] = max[c])
<1>1. /\ period.budget \in Nat /\ period.percent \in [H!Types -> Nat] /\ spent \in [H!Types -> Nat]
      /\ window \in Seq(Nat) /\ IsScale(max, all)
      /\ "budget" \in DOMAIN max /\ "allocation" \in DOMAIN max
      /\ DOMAIN max \subseteq {"budget", "allocation", "savings", "stability"}
      /\ "stability" \in DOMAIN max => 800 - (2 * max["stability"] - 1) * all >= 0
      /\ "savings" \in DOMAIN max => target # 0
  BY MonthsAre
<1>2. /\ target \in Nat /\ combined \in Nat /\ spent["savings"] \in Nat /\ actual \in Nat
      /\ plan => target = spent["savings"] /\ combined = actual
  <2>1. spent["savings"] \in Nat /\ actual \in Nat
    BY <1>1, TypesAre
  <2>2. /\ target \in Nat /\ combined \in Nat
        /\ (\A t \in H!Types : 100 * spent[t] = period.budget * period.percent[t])
           => target = spent["savings"] /\ combined = actual
    BY <1>1, TargetsFollow
  <2>. QED
    BY <2>1, <2>2, Zenon DEF OnPlan
<1>3. plan => \A i, j \in DOMAIN window : window[i] = window[j]
  BY Zenon DEF OnPlan
<1>. DEFINE kinds == H!Categories(DOMAIN max)
<1>4. "allocation" \in DOMAIN max => Holds("allocation")
  <2>1. marks["allocation"] = H!AllocationScore(period.percent, spent, kinds, max)
    BY <1>1, ScoresAre
  <2>2. PICK e, d, s, p, q, r : IsSplit(period.percent, spent, kinds, e, d, s, p, q, r)
    <3>1. IsDivided(period.percent, spent, kinds)
      BY <1>1, MonthsSplit
    <3>. QED
      BY <3>1, Zenon DEF IsDivided
  <2>3. /\ e \in Nat /\ d \in Nat /\ s \in Nat /\ p \in Nat /\ q \in Nat /\ r \in Nat
        /\ spent["essentials"] = e /\ spent["desires"] = d
        /\ period.percent["essentials"] = p /\ period.percent["desires"] = q
        /\ (spent["savings"] = s /\ period.percent["savings"] = r) \/ (s = 0 /\ r = 0)
    BY <2>2, Zenon DEF IsSplit
  <2>4. plan => /\ e * (p + q + r) = p * (e + d + s) /\ d * (p + q + r) = q * (e + d + s)
                /\ s * (p + q + r) = r * (e + d + s)
    <3>. HAVE plan
    <3>. DEFINE B == period.budget
    <3>1. 100 * e = B * p /\ 100 * d = B * q /\ 100 * s = B * r
      <4>1. \A t \in H!Types : 100 * spent[t] = B * period.percent[t]
        BY Zenon DEF OnPlan
      <4>2. /\ 100 * spent["essentials"] = B * period.percent["essentials"]
            /\ 100 * spent["desires"] = B * period.percent["desires"]
            /\ 100 * spent["savings"] = B * period.percent["savings"]
        BY <4>1, TypesAre
      <4>3. 100 * 0 = B * 0
        BY <1>1
      <4>. QED
        BY <2>3, <4>2, <4>3, Zenon
    <3>. HIDE DEF B, plan
    <3>2. B \in Nat
      BY <1>1 DEF B
    <3>. QED
      <4>1. IsProportional(B, e, d, s, p, q, r)
        BY <2>3, <3>1, <3>2, Zenon DEF IsProportional
      <4>. QED
        BY <4>1, SharesAreProportional
  <2>. HIDE DEF kinds, plan
  <2>5. /\ H!AllocationScore(period.percent, spent, kinds, max) \in 0..max["allocation"]
        /\ (/\ e * (p + q + r) = p * (e + d + s) /\ d * (p + q + r) = q * (e + d + s)
            /\ s * (p + q + r) = r * (e + d + s))
           => H!AllocationScore(period.percent, spent, kinds, max) = max["allocation"]
    BY <1>1, <2>2, AllocationFollows
  <2>. QED
    BY <2>1, <2>4, <2>5, Zenon
<1>. HIDE DEF kinds
<1>5. "savings" \in DOMAIN max => Holds("savings")
  <2>. HAVE "savings" \in DOMAIN max
  <2>1. marks["savings"] = H!SavingsScore(target, spent, max)
    BY ScoresAre
  <2>. HIDE DEF target, plan
  <2>2. target \in Nat \ {0}
    BY <1>1, <1>2
  <2>3. /\ H!SavingsScore(target, spent, max) \in 0..max["savings"]
        /\ spent["savings"] = target => H!SavingsScore(target, spent, max) = max["savings"]
    BY <1>1, <1>2, <2>2, SavingsFollow
  <2>. QED
    BY <1>2, <2>1, <2>3, Zenon
<1>6. "budget" \in DOMAIN max => Holds("budget")
  <2>1. marks["budget"] = H!BudgetScore(combined, actual, max)
    BY <1>1, ScoresAre
  <2>. HIDE DEF combined, actual, plan
  <2>2. /\ H!BudgetScore(combined, actual, max) \in 0..max["budget"]
        /\ actual <= combined => H!BudgetScore(combined, actual, max) = max["budget"]
    BY <1>1, <1>2, BudgetFollows
  <2>3. plan => actual <= combined
    BY <1>2
  <2>. QED
    BY <2>1, <2>2, <2>3, Zenon
<1>7. "stability" \in DOMAIN max => Holds("stability")
  <2>. HAVE "stability" \in DOMAIN max
  <2>1. marks["stability"] = H!StabilityScore(window, H!SumOf(window), max)
    BY ScoresAre
  <2>. HIDE DEF plan
  <2>2. /\ H!StabilityScore(window, H!SumOf(window), max) \in 0..max["stability"]
        /\ (\A i, j \in DOMAIN window : window[i] = window[j])
             => H!StabilityScore(window, H!SumOf(window), max) = max["stability"]
    BY <1>1, StabilityFollows
  <2>. QED
    BY <1>3, <2>1, <2>2, Zenon
<1>. HIDE DEF Holds
<1>8. \A c \in DOMAIN max : Holds(c)
  BY <1>1, <1>4, <1>5, <1>6, <1>7
<1>. QED
  BY <1>8, Zenon DEF Holds

\* One more spent on desires that have their share scores no component higher.
LEMMA DesiresLowerScores ==
  ASSUME NEW period, NEW spent, NEW window, NEW max, NEW all, IsMonth(period, spent, window, max, all),
         LET deviation == H!Deviation(period.percent, spent, H!Categories(DOMAIN max))
         IN  deviation["desires"] >= 0 /\ H!Total(spent, DOMAIN deviation) > 0
  PROVE  \A c \in DOMAIN max :
           H!ScoresOf(period, H!More(spent, "desires"), window, max)[c] <= H!ScoresOf(period, spent, window, max)[c]
<1>. DEFINE more == H!More(spent, "desires")
            old == H!ScoresOf(period, spent, window, max)
            new == H!ScoresOf(period, more, window, max)
            target == H!SavingsTarget(period)
            combined == H!CombinedTarget(period)
            actual == spent["essentials"] + spent["desires"]
            kinds == H!Categories(DOMAIN max)
            Holds(c) == new[c] <= old[c]
<1>1. /\ period.budget \in Nat /\ period.percent \in [H!Types -> Nat] /\ spent \in [H!Types -> Nat]
      /\ window \in Seq(Nat) /\ IsScale(max, all)
      /\ DOMAIN max \subseteq {"budget", "allocation", "savings", "stability"}
      /\ "stability" \in DOMAIN max => 800 - (2 * max["stability"] - 1) * all >= 0
      /\ "savings" \in DOMAIN max => target # 0
  BY MonthsAre
<1>2. /\ target \in Nat /\ combined \in Nat /\ spent["savings"] \in Nat /\ actual \in Nat
      /\ more["savings"] = spent["savings"] /\ more["essentials"] + more["desires"] = actual + 1
  <2>1. /\ spent["savings"] \in Nat /\ spent["essentials"] \in Nat /\ spent["desires"] \in Nat
        /\ more["savings"] = spent["savings"] /\ more["essentials"] = spent["essentials"]
        /\ more["desires"] = spent["desires"] + 1
    BY <1>1, TypesAre DEF H!More
  <2>2. target \in Nat /\ combined \in Nat
    BY <1>1, TargetsFollow
  <2>. HIDE DEF more, target, combined
  <2>. QED
    BY <2>1, <2>2
<1>3. PICK e, d, s, p, q, r :
        IsSplit(period.percent, spent, kinds, e, d, s, p, q, r) /\ IsSplit(period.percent, more, kinds, e, d + 1, s, p, q, r)
  <2>1. IsDivided(period.percent, spent, kinds)
    BY <1>1, MonthsSplit
  <2>. QED
    BY <2>1, Zenon DEF IsDivided
<1>4. IsAllocated(period.percent, spent, kinds, e, d, s, p, q, r)
  BY <1>3, SplitsAreAllocated
<1>5. d * (p + q + r) - q * (e + d + s) >= 0 /\ e + d + s > 0
  <2>1. /\ H!Deviation(period.percent, spent, kinds)["desires"] >= 0
        /\ H!Total(spent, DOMAIN H!Deviation(period.percent, spent, kinds)) > 0
    BY Zenon
  <2>. QED
    BY <1>4, <2>1, Zenon DEF IsAllocated
<1>6. "allocation" \in DOMAIN max => Holds("allocation")
  <2>. HAVE "allocation" \in DOMAIN max
  <2>1. /\ old["allocation"] = H!AllocationScore(period.percent, spent, kinds, max)
        /\ new["allocation"] = H!AllocationScore(period.percent, more, kinds, max)
    BY ScoresAre
  <2>. HIDE DEF kinds, more
  <2>2. H!AllocationScore(period.percent, more, kinds, max) <= H!AllocationScore(period.percent, spent, kinds, max)
    BY <1>1, <1>3, <1>5, DesiresLowerAllocation
  <2>. QED
    BY <2>1, <2>2, Zenon
<1>. HIDE DEF kinds
<1>7. "savings" \in DOMAIN max => Holds("savings")
  <2>. HAVE "savings" \in DOMAIN max
  <2>1. /\ old["savings"] = H!SavingsScore(target, spent, max)
        /\ new["savings"] = H!SavingsScore(target, more, max)
    BY ScoresAre
  <2>. HIDE DEF target, more
  <2>2. target \in Nat \ {0} /\ more["savings"] \in Nat /\ more["savings"] <= spent["savings"]
    BY <1>1, <1>2
  <2>3. \A any : any["savings"] \in Nat /\ more["savings"] <= any["savings"]
                   => H!SavingsScore(target, more, max) <= H!SavingsScore(target, any, max)
    BY <1>1, <2>2, SavingsFollow
  <2>4. H!SavingsScore(target, more, max) <= H!SavingsScore(target, spent, max)
    BY <1>2, <2>2, <2>3
  <2>. QED
    BY <2>1, <2>4, Zenon
<1>8. "budget" \in DOMAIN max => Holds("budget")
  <2>. HAVE "budget" \in DOMAIN max
  <2>1. /\ old["budget"] = H!BudgetScore(combined, actual, max)
        /\ new["budget"] = H!BudgetScore(combined, more["essentials"] + more["desires"], max)
    BY ScoresAre
  <2>. HIDE DEF combined, actual, more
  <2>2. H!BudgetScore(combined, actual + 1, max) <= H!BudgetScore(combined, actual, max)
    BY <1>1, <1>2, BudgetFollows
  <2>. QED
    BY <1>2, <2>1, <2>2, Zenon
<1>9. "stability" \in DOMAIN max => Holds("stability")
  <2>. HAVE "stability" \in DOMAIN max
  <2>1. /\ old["stability"] = H!StabilityScore(window, H!SumOf(window), max)
        /\ new["stability"] = H!StabilityScore(window, H!SumOf(window), max)
    BY ScoresAre
  <2>2. H!StabilityScore(window, H!SumOf(window), max) \in 0..max["stability"]
    BY <1>1, StabilityFollows
  <2>3. H!StabilityScore(window, H!SumOf(window), max) <= H!StabilityScore(window, H!SumOf(window), max)
    BY <2>2
  <2>. QED
    BY <2>1, <2>3, Zenon
<1>. HIDE DEF Holds
<1>10. \A c \in DOMAIN max : Holds(c)
  BY <1>1, <1>6, <1>7, <1>8, <1>9
<1>. QED
  BY <1>10, Zenon DEF Holds

\* One more saved by savings below their share and target scores no component lower.
LEMMA SavingsRaiseScores ==
  ASSUME NEW period, NEW spent, NEW window, NEW max, NEW all, IsMonth(period, spent, window, max, all),
         "savings" \in DOMAIN H!Deviation(period.percent, spent, H!Categories(DOMAIN max)),
         H!Total(spent, H!Types) > 0,
         H!Deviation(period.percent, H!More(spent, "savings"), H!Categories(DOMAIN max))["savings"] <= 0
  PROVE  \A c \in DOMAIN max :
           H!ScoresOf(period, spent, window, max)[c] <= H!ScoresOf(period, H!More(spent, "savings"), window, max)[c]
<1>. DEFINE more == H!More(spent, "savings")
            old == H!ScoresOf(period, spent, window, max)
            new == H!ScoresOf(period, more, window, max)
            target == H!SavingsTarget(period)
            combined == H!CombinedTarget(period)
            actual == spent["essentials"] + spent["desires"]
            kinds == H!Categories(DOMAIN max)
            Holds(c) == old[c] <= new[c]
<1>1. /\ period.budget \in Nat /\ period.percent \in [H!Types -> Nat] /\ spent \in [H!Types -> Nat]
      /\ window \in Seq(Nat) /\ IsScale(max, all)
      /\ DOMAIN max \subseteq {"budget", "allocation", "savings", "stability"}
      /\ "stability" \in DOMAIN max => 800 - (2 * max["stability"] - 1) * all >= 0
      /\ "savings" \in DOMAIN max => target # 0
      /\ \A c \in DOMAIN max : max[c] \in Nat
  BY MonthsAre
<1>2. /\ target \in Nat /\ combined \in Nat /\ spent["savings"] \in Nat /\ actual \in Nat
      /\ more["savings"] = spent["savings"] + 1 /\ more["essentials"] + more["desires"] = actual
  <2>1. /\ spent["savings"] \in Nat /\ spent["essentials"] \in Nat /\ spent["desires"] \in Nat
        /\ more["savings"] = spent["savings"] + 1 /\ more["essentials"] = spent["essentials"]
        /\ more["desires"] = spent["desires"]
    BY <1>1, TypesAre DEF H!More
  <2>2. target \in Nat /\ combined \in Nat
    BY <1>1, TargetsFollow
  <2>. HIDE DEF more, target, combined
  <2>. QED
    BY <2>1, <2>2
<1>3. "savings" \in kinds /\ kinds = H!Types
  <2>1. "savings" \in kinds
    BY Zenon DEF H!Deviation
  <2>. QED
    BY <2>1, TypesAre, CategoriesAre
<1>4. PICK e, d, s, p, q, r :
        IsSplit(period.percent, spent, kinds, e, d, s, p, q, r) /\ IsSplit(period.percent, more, kinds, e, d, s + 1, p, q, r)
  <2>1. IsDivided(period.percent, spent, kinds)
    BY <1>1, MonthsSplit
  <2>. QED
    BY <1>3, <2>1, Zenon DEF IsDivided
<1>5. /\ IsAllocated(period.percent, spent, kinds, e, d, s, p, q, r)
      /\ IsAllocated(period.percent, more, kinds, e, d, s + 1, p, q, r)
  BY <1>4, SplitsAreAllocated
<1>6. (s + 1) * (p + q + r) - r * (e + d + (s + 1)) <= 0 /\ e + d + s > 0
  <2>1. H!Deviation(period.percent, more, kinds)["savings"] <= 0 /\ H!Total(spent, kinds) > 0
    BY <1>3, Zenon
  <2>. QED
    BY <1>3, <1>5, <2>1, Zenon DEF IsAllocated
<1>7. "allocation" \in DOMAIN max => Holds("allocation")
  <2>. HAVE "allocation" \in DOMAIN max
  <2>1. /\ old["allocation"] = H!AllocationScore(period.percent, spent, kinds, max)
        /\ new["allocation"] = H!AllocationScore(period.percent, more, kinds, max)
    BY ScoresAre
  <2>. HIDE DEF kinds, more
  <2>2. H!AllocationScore(period.percent, spent, kinds, max) <= H!AllocationScore(period.percent, more, kinds, max)
    BY <1>1, <1>4, <1>6, SavingsRaiseAllocation
  <2>. QED
    BY <2>1, <2>2, Zenon
<1>. HIDE DEF kinds
<1>8. "savings" \in DOMAIN max => Holds("savings")
  <2>. HAVE "savings" \in DOMAIN max
  <2>1. /\ old["savings"] = H!SavingsScore(target, spent, max)
        /\ new["savings"] = H!SavingsScore(target, more, max)
    BY ScoresAre
  <2>. HIDE DEF target, more
  <2>2. target \in Nat \ {0} /\ more["savings"] \in Nat /\ spent["savings"] <= more["savings"]
    BY <1>1, <1>2
  <2>3. \A any : any["savings"] \in Nat /\ spent["savings"] <= any["savings"]
                   => H!SavingsScore(target, spent, max) <= H!SavingsScore(target, any, max)
    BY <1>1, <1>2, <2>2, SavingsFollow
  <2>4. H!SavingsScore(target, spent, max) <= H!SavingsScore(target, more, max)
    BY <2>2, <2>3
  <2>. QED
    BY <2>1, <2>4, Zenon
<1>9. "budget" \in DOMAIN max => Holds("budget")
  <2>. HAVE "budget" \in DOMAIN max
  <2>1. /\ old["budget"] = H!BudgetScore(combined, actual, max)
        /\ new["budget"] = H!BudgetScore(combined, more["essentials"] + more["desires"], max)
    BY ScoresAre
  <2>. HIDE DEF combined, actual, more
  <2>2. H!BudgetScore(combined, actual, max) \in 0..max["budget"] /\ max["budget"] \in Nat
    BY <1>1, <1>2, BudgetFollows
  <2>3. H!BudgetScore(combined, actual, max) <= H!BudgetScore(combined, actual, max)
    BY <2>2
  <2>. QED
    BY <1>2, <2>1, <2>3, Zenon
<1>10. "stability" \in DOMAIN max => Holds("stability")
  <2>. HAVE "stability" \in DOMAIN max
  <2>1. /\ old["stability"] = H!StabilityScore(window, H!SumOf(window), max)
        /\ new["stability"] = H!StabilityScore(window, H!SumOf(window), max)
    BY ScoresAre
  <2>2. H!StabilityScore(window, H!SumOf(window), max) \in 0..max["stability"]
    BY <1>1, StabilityFollows
  <2>3. H!StabilityScore(window, H!SumOf(window), max) <= H!StabilityScore(window, H!SumOf(window), max)
    BY <2>2
  <2>. QED
    BY <2>1, <2>3, Zenon
<1>. HIDE DEF Holds
<1>11. \A c \in DOMAIN max : Holds(c)
  BY <1>1, <1>7, <1>8, <1>9, <1>10
<1>. QED
  BY <1>11, Zenon DEF Holds

\* ComputeHealthScore: the scores, their total, and what the insight says.
LEMMA HealthScoreIs ==
  ASSUME NEW period, NEW spent, NEW window, NEW max, max = H!Maxima(H!Present(period, window))
  PROVE  LET score == H!HealthScore(period, spent, window)
             marks == H!ScoresOf(period, spent, window, max)
         IN  /\ score.components = marks /\ score.total = H!Total(marks, DOMAIN max)
             /\ marks = max => score.insight.driver = "none"
             /\ marks # max => /\ score.insight.driver = H!Driver(marks)
                                /\ score.insight.points = max[score.insight.driver] - marks[score.insight.driver]
<1>. DEFINE marks == H!ScoresOf(period, spent, window, max)
            total == H!Total(marks, DOMAIN marks)
            insight == H!Insight(period, spent, marks, H!Driver(marks), max)
            score == H!HealthScore(period, spent, window)
<1>1. score = H!Judged(period, spent, marks, max, total)
  BY Zenon DEF H!HealthScore, H!Weighed, H!Summed
<1>2. score = [components |-> marks, total |-> total, band |-> H!Band(total), insight |-> insight]
  BY <1>1, Zenon DEF H!Judged
<1>3. DOMAIN marks = DOMAIN max
  BY DEF H!ScoresOf
<1>4. marks = max => insight = [driver |-> "none", points |-> 0, money |-> 0]
  BY Zenon DEF H!Insight, H!AllAtMax
<1>5. marks # max => insight = H!InsightOf(period, spent, H!Driver(marks), max[H!Driver(marks)] - marks[H!Driver(marks)])
  BY Zenon DEF H!Insight, H!AllAtMax
<1>6. \A driver, points : /\ H!InsightOf(period, spent, driver, points).driver = driver
                          /\ H!InsightOf(period, spent, driver, points).points = points
  BY DEF H!InsightOf
<1>. HIDE DEF marks, total, insight, score
<1>7. score.components = marks /\ score.total = total /\ score.insight = insight
  BY <1>2
<1>8. marks = max => insight.driver = "none"
  BY <1>4
<1>9. marks # max => insight.driver = H!Driver(marks)
                      /\ insight.points = max[H!Driver(marks)] - marks[H!Driver(marks)]
  <2>. HAVE marks # max
  <2>. DEFINE driver == H!Driver(marks)
              points == max[driver] - marks[driver]
  <2>1. insight = H!InsightOf(period, spent, driver, points)
    BY <1>5, Zenon
  <2>. HIDE DEF driver, points
  <2>2. insight.driver = driver /\ insight.points = points
    BY <1>6, <2>1
  <2>. QED
    BY <2>2, Zenon DEF driver, points
<1>10. total = H!Total(marks, DOMAIN max)
  BY <1>3, Zenon DEF total
<1>. QED
  BY <1>7, <1>8, <1>9, <1>10, Zenon DEF marks, score

\* Full marks for a month on plan, and never more than the maxima.
LEMMA PlansAreFullMarks ==
  ASSUME NEW period, NEW spent, NEW window, NEW max, NEW all, IsMonth(period, spent, window, max, all)
  PROVE  H!PlanIsFullMarks(period, spent, window, H!HealthScore(period, spent, window), max)
<1>. DEFINE score == H!HealthScore(period, spent, window)
            marks == H!ScoresOf(period, spent, window, max)
<1>1. /\ max = H!Maxima(H!Present(period, window)) /\ H!Total(max, DOMAIN max) = 100
      /\ IsFiniteSet(DOMAIN max) /\ \A c \in DOMAIN max : max[c] \in Nat
  BY MonthsAre
<1>2. score.components = marks /\ score.total = H!Total(marks, DOMAIN max)
      /\ (marks = max => score.insight.driver = "none")
  BY <1>1, HealthScoreIs
<1>3. /\ \A c \in DOMAIN max : marks[c] \in 0..max[c]
      /\ OnPlan(period, spent, window) => \A c \in DOMAIN max : marks[c] = max[c]
  BY ScoresFollow
<1>4. marks = [c \in DOMAIN max |-> marks[c]]
  <2>. DEFINE Score(c) ==
         CASE c = "savings" -> H!SavingsScore(H!SavingsTarget(period), spent, max)
           [] c = "budget" -> H!BudgetScore(H!CombinedTarget(period), spent.essentials + spent.desires, max)
           [] c = "allocation" -> H!AllocationScore(period.percent, spent, H!Categories(DOMAIN max), max)
           [] c = "stability" -> H!StabilityScore(window, H!SumOf(window), max)
  <2>1. marks = [c \in DOMAIN max |-> Score(c)]
    BY DEF H!ScoresOf
  <2>. HIDE DEF Score, marks
  <2>. QED
    BY <2>1
<1>5. max = [c \in DOMAIN max |-> max[c]]
  <2>1. IsWeighted(H!Present(period, window), max, all) /\ max = H!Maxima(H!Present(period, window))
    BY Zenon DEF IsMonth
  <2>. QED
    BY <2>1 DEF H!Maxima, H!WithRemainder
<1>. HIDE DEF marks, score
<1>6. OnPlan(period, spent, window) => marks = max
  BY <1>3, <1>4, <1>5
<1>7. OnPlan(period, spent, window) => score.total = 100 /\ score.insight.driver = "none"
  BY <1>1, <1>2, <1>6, Zenon
<1>8. \A c \in DOMAIN max : score.components[c] \in 0..max[c]
  BY <1>2, <1>3
<1>. QED
  BY <1>1, <1>7, <1>8, Zenon DEF H!PlanIsFullMarks, OnPlan, score

\* One more spent leaves the components of a month and their maxima alone.
LEMMA MoreIsMonth ==
  ASSUME NEW period, NEW spent, NEW window, NEW max, NEW all, IsMonth(period, spent, window, max, all), NEW t \in H!Types
  PROVE  IsMonth(period, H!More(spent, t), window, max, all)
<1>1. /\ period.budget \in Nat /\ period.percent \in [H!Types -> Nat] /\ spent \in [H!Types -> Nat]
      /\ window \in Seq(Nat) /\ max = H!Maxima(H!Present(period, window))
      /\ IsWeighted(H!Present(period, window), max, all)
  BY Zenon DEF IsMonth
<1>2. H!More(spent, t) \in [H!Types -> Nat]
  BY <1>1 DEF H!More
<1>. QED
  BY <1>1, <1>2, Zenon DEF IsMonth

\* Totals of scores that are everywhere at most others.
LEMMA TotalsCompare ==
  ASSUME NEW period, NEW spent, NEW more, NEW window, NEW max, NEW all,
         IsMonth(period, spent, window, max, all), IsMonth(period, more, window, max, all),
         \A c \in DOMAIN max : H!ScoresOf(period, more, window, max)[c] <= H!ScoresOf(period, spent, window, max)[c]
  PROVE  H!HealthScore(period, more, window).total <= H!HealthScore(period, spent, window).total
<1>. DEFINE old == H!ScoresOf(period, spent, window, max)
            new == H!ScoresOf(period, more, window, max)
<1>1. max = H!Maxima(H!Present(period, window)) /\ IsFiniteSet(DOMAIN max) /\ \A c \in DOMAIN max : max[c] \in Nat
  BY MonthsAre
<1>2. \A c \in DOMAIN max : old[c] \in 0..max[c]
  BY ScoresFollow
<1>3. \A c \in DOMAIN max : new[c] \in 0..max[c]
  BY ScoresFollow
<1>4. H!HealthScore(period, spent, window).total = H!Total(old, DOMAIN max)
  BY <1>1, HealthScoreIs
<1>5. H!HealthScore(period, more, window).total = H!Total(new, DOMAIN max)
  BY <1>1, HealthScoreIs
<1>6. \A c \in DOMAIN max : new[c] <= old[c]
  BY Zenon
<1>. HIDE DEF old, new
<1>7. \A c \in DOMAIN max : new[c] \in Int /\ old[c] \in Int /\ new[c] <= old[c]
  BY <1>1, <1>2, <1>3, <1>6
<1>8. H!Total(new, DOMAIN max) <= H!Total(old, DOMAIN max)
  BY <1>1, <1>7, TotalGrows
<1>. QED
  BY <1>4, <1>5, <1>8, Zenon

\* One more spent on desires, or saved, and the total score.
LEMMA OverspendingPaysNothing ==
  ASSUME NEW period, NEW spent, NEW window, NEW max, NEW all, IsMonth(period, spent, window, max, all)
  PROVE  H!OverspendingNeverPays(period, spent, window, H!HealthScore(period, spent, window),
                                 H!Deviation(period.percent, spent, H!Categories(DOMAIN max)))
<1>. DEFINE deviation == H!Deviation(period.percent, spent, H!Categories(DOMAIN max))
            Now(t) == H!HealthScore(period, H!More(spent, t), window).total
            Below(t) == H!Deviation(period.percent, H!More(spent, t), DOMAIN deviation)[t] <= 0
            score == H!HealthScore(period, spent, window)
<1>1. DOMAIN deviation = H!Categories(DOMAIN max)
  BY DEF H!Deviation
<1>2. /\ IsMonth(period, H!More(spent, "desires"), window, max, all)
      /\ IsMonth(period, H!More(spent, "savings"), window, max, all)
  BY TypesAre, MoreIsMonth
<1>3. ASSUME deviation["desires"] >= 0, H!Total(spent, DOMAIN deviation) > 0
      PROVE  Now("desires") <= score.total
  <2>1. \A c \in DOMAIN max :
          H!ScoresOf(period, H!More(spent, "desires"), window, max)[c] <= H!ScoresOf(period, spent, window, max)[c]
    BY <1>3, DesiresLowerScores
  <2>. QED
    BY <1>2, <2>1, TotalsCompare
<1>4. ASSUME "savings" \in DOMAIN deviation, Below("savings"), H!Total(spent, H!Types) > 0
      PROVE  score.total <= Now("savings")
  <2>0. H!Deviation(period.percent, H!More(spent, "savings"), H!Categories(DOMAIN max))["savings"] <= 0
    BY <1>1, <1>4, Zenon
  <2>1. \A c \in DOMAIN max :
          H!ScoresOf(period, spent, window, max)[c] <= H!ScoresOf(period, H!More(spent, "savings"), window, max)[c]
    BY <1>4, <2>0, SavingsRaiseScores
  <2>. QED
    BY <1>2, <2>1, TotalsCompare
<1>5. score.total \in Int /\ Now("savings") \in Int
  <2>1. max = H!Maxima(H!Present(period, window)) /\ IsFiniteSet(DOMAIN max) /\ \A c \in DOMAIN max : max[c] \in Nat
    BY MonthsAre
  <2>2. ASSUME NEW any, IsMonth(period, any, window, max, all)
        PROVE  H!HealthScore(period, any, window).total \in Int
    <3>. DEFINE marks == H!ScoresOf(period, any, window, max)
    <3>1. H!HealthScore(period, any, window).total = H!Total(marks, DOMAIN max)
      BY <2>1, HealthScoreIs
    <3>2. \A c \in DOMAIN max : marks[c] \in 0..max[c]
      BY <2>2, ScoresFollow
    <3>. HIDE DEF marks
    <3>3. \A c \in DOMAIN max : marks[c] \in Int
      BY <2>1, <3>2
    <3>. QED
      BY <2>1, <3>1, <3>3, TotalIsInt
  <2>. QED
    BY <1>2, <2>2
<1>. HIDE DEF Now, score
<1>6. score.total <= Now("savings") => Now("savings") >= score.total
  BY <1>5
<1>. HIDE DEF deviation
<1>. QED
  BY <1>3, <1>4, <1>6, Zenon DEF H!OverspendingNeverPays, Now, score, deviation

\* Deviations that are not all nothing have one over and one under.
LEMMA ExtremesExist ==
  ASSUME NEW f, NEW a \in Int, NEW b \in Int, NEW c \in Int, a + b + c = 0, a # 0 \/ b # 0 \/ c # 0,
         f["essentials"] = a, f["desires"] = b,
         \/ DOMAIN f = {"essentials", "desires", "savings"} /\ f["savings"] = c
         \/ DOMAIN f = {"essentials", "desires"} /\ c = 0
  PROVE  H!MostOver(f) # {} /\ H!MostUnder(f) # {}
<1>1. CASE DOMAIN f = {"essentials", "desires", "savings"} /\ f["savings"] = c
  <2>1. \E t \in {"essentials", "desires", "savings"} :
          f[t] > 0 /\ f["essentials"] <= f[t] /\ f["desires"] <= f[t] /\ f["savings"] <= f[t]
    BY <1>1
  <2>2. \E t \in {"essentials", "desires", "savings"} :
          f[t] < 0 /\ f["essentials"] >= f[t] /\ f["desires"] >= f[t] /\ f["savings"] >= f[t]
    BY <1>1
  <2>. QED
    BY <1>1, <2>1, <2>2 DEF H!MostOver, H!MostUnder
<1>2. CASE DOMAIN f = {"essentials", "desires"} /\ c = 0
  <2>1. \E t \in {"essentials", "desires"} : f[t] > 0 /\ f["essentials"] <= f[t] /\ f["desires"] <= f[t]
    BY <1>2
  <2>2. \E t \in {"essentials", "desires"} : f[t] < 0 /\ f["essentials"] >= f[t] /\ f["desires"] >= f[t]
    BY <1>2
  <2>. QED
    BY <1>2, <2>1, <2>2 DEF H!MostOver, H!MostUnder
<1>. QED
  BY <1>1, <1>2

\* An allocation below its maximum has a category over its share and one under it.
LEMMA RebalancingHasNames ==
  ASSUME NEW period, NEW spent, NEW window, NEW max, NEW all, IsMonth(period, spent, window, max, all)
  PROVE  H!RebalancingIsNamed(H!HealthScore(period, spent, window),
                              H!Deviation(period.percent, spent, H!Categories(DOMAIN max)))
<1>. DEFINE kinds == H!Categories(DOMAIN max)
            deviation == H!Deviation(period.percent, spent, kinds)
            score == H!HealthScore(period, spent, window)
            marks == H!ScoresOf(period, spent, window, max)
<1>1. /\ max = H!Maxima(H!Present(period, window)) /\ IsScale(max, all) /\ "allocation" \in DOMAIN max
      /\ \A c \in DOMAIN max : max[c] \in Nat
      /\ period.percent \in [H!Types -> Nat] /\ spent \in [H!Types -> Nat]
  BY MonthsAre
<1>2. SUFFICES ASSUME score.insight.driver = "allocation", score.insight.points > 0
               PROVE  H!MostOver(deviation) # {} /\ H!MostUnder(deviation) # {}
  BY Zenon DEF H!RebalancingIsNamed
<1>3. /\ marks = max => score.insight.driver = "none"
      /\ marks # max => score.insight.points = max[score.insight.driver] - marks[score.insight.driver]
  BY <1>1, HealthScoreIs
<1>4. marks["allocation"] # max["allocation"]
  <2>. HIDE DEF marks, score
  <2>1. max["allocation"] - marks["allocation"] > 0
    <3>1. "allocation" # "none"
      OBVIOUS
    <3>. QED
      BY <1>2, <1>3, <3>1, Zenon
  <2>. QED
    BY <1>1, <2>1
<1>5. marks["allocation"] = H!AllocationScore(period.percent, spent, kinds, max)
  BY <1>1, ScoresAre
<1>6. PICK e, d, s, p, q, r : IsSplit(period.percent, spent, kinds, e, d, s, p, q, r)
  <2>1. IsDivided(period.percent, spent, kinds)
    BY <1>1, MonthsSplit
  <2>. QED
    BY <2>1, Zenon DEF IsDivided
<1>7. IsAllocated(period.percent, spent, kinds, e, d, s, p, q, r)
  BY <1>6, SplitsAreAllocated
<1>8. /\ e \in Nat /\ d \in Nat /\ s \in Nat /\ p \in Nat /\ q \in Nat /\ r \in Nat
      /\ kinds = {"essentials", "desires", "savings"} \/ (kinds = {"essentials", "desires"} /\ s = 0 /\ r = 0)
  BY <1>6, Zenon DEF IsSplit
<1>. DEFINE plan == p + q + r
            sum == e + d + s
            a == e * plan - p * sum
            b == d * plan - q * sum
            c == s * plan - r * sum
<1>9. ~ (e * plan = p * sum /\ d * plan = q * sum /\ s * plan = r * sum)
  <2>. HIDE DEF kinds
  <2>1. (/\ e * (p + q + r) = p * (e + d + s) /\ d * (p + q + r) = q * (e + d + s)
         /\ s * (p + q + r) = r * (e + d + s))
        => H!AllocationScore(period.percent, spent, kinds, max) = max["allocation"]
    BY <1>1, <1>6, AllocationFollows
  <2>. QED
    BY <1>4, <1>5, <2>1, Zenon
<1>10. a \in Int /\ b \in Int /\ c \in Int /\ a + b + c = 0 /\ (a # 0 \/ b # 0 \/ c # 0)
  <2>1. a + b + c = 0
    BY <1>8
  <2>2. a \in Int /\ b \in Int /\ c \in Int
    BY <1>8
  <2>3. plan \in Nat /\ sum \in Nat
    BY <1>8
  <2>. HIDE DEF plan, sum
  <2>4. a # 0 \/ b # 0 \/ c # 0
    BY <1>8, <1>9, <2>3
  <2>. QED
    BY <2>1, <2>2, <2>4
<1>11. /\ DOMAIN deviation = kinds /\ deviation["essentials"] = a /\ deviation["desires"] = b
       /\ "savings" \in kinds => deviation["savings"] = c
  BY <1>7, Zenon DEF IsAllocated
<1>12. \/ DOMAIN deviation = {"essentials", "desires", "savings"} /\ deviation["savings"] = c
       \/ DOMAIN deviation = {"essentials", "desires"} /\ c = 0
  <2>1. CASE kinds = {"essentials", "desires", "savings"}
    BY <1>11, <2>1
  <2>2. CASE kinds = {"essentials", "desires"} /\ s = 0 /\ r = 0
    BY <1>8, <1>11, <2>2
  <2>. QED
    BY <1>8, <2>1, <2>2
<1>. HIDE DEF a, b, c, deviation
<1>. QED
  BY <1>10, <1>11, <1>12, ExtremesExist

\* resolveWeights to buildInsight, of every month.
LEMMA MonthsAreFair ==
  ASSUME NEW period, NEW spent, NEW window,
         period.budget \in Nat, period.percent \in [H!Types -> Nat], spent \in [H!Types -> Nat], window \in Seq(Nat)
  PROVE  H!ScoresAreFair(period, spent, window)
<1>. DEFINE max == H!Maxima(H!Present(period, window))
<1>1. PICK all : IsWeighted(H!Present(period, window), max, all)
  BY MaximaAre
<1>2. IsMonth(period, spent, window, max, all)
  BY <1>1, Zenon DEF IsMonth
<1>3. DOMAIN max = H!Present(period, window)
  BY <1>2, MonthsAre
<1>. HIDE DEF max
<1>4. /\ H!PlanIsFullMarks(period, spent, window, H!HealthScore(period, spent, window), max)
      /\ H!OverspendingNeverPays(period, spent, window, H!HealthScore(period, spent, window),
                                 H!Deviation(period.percent, spent, H!Categories(DOMAIN max)))
      /\ H!RebalancingIsNamed(H!HealthScore(period, spent, window),
                              H!Deviation(period.percent, spent, H!Categories(DOMAIN max)))
  BY <1>2, PlansAreFullMarks, OverspendingPaysNothing, RebalancingHasNames
<1>. QED
  BY <1>3, <1>4, Zenon DEF H!ScoresAreFair, H!FairWith, max

\* resolveWeights, savingsComponent, budgetComponent, allocationComponent,
\* stabilityComponent, buildInsight: the components' maxima add up to 100 and none is
\* exceeded, a month on plan has all of them, overspending on desires never raises a
\* score and saving towards the target never lowers it, and an allocation that is
\* short names a category over its share and one under it, for any budget,
\* percentages, spending and window.
THEOREM ScoresFollowThePlan == Spec => []ScoresAreFair
<1>1. SampleInv => ScoresAreFair
  <2>. SUFFICES ASSUME sample \in ScoreInputs
                PROVE  H!ScoresAreFair(sample.period, sample.spent, sample.window)
    BY DEF SampleInv, ScoresAreFair
  <2>1. /\ sample.period.budget \in Nat /\ sample.period.percent \in [H!Types -> Nat]
        /\ sample.spent \in [H!Types -> Nat] /\ sample.window \in Seq(Nat)
    BY MonthsAssumption
  <2>. DEFINE period == sample.period
              spent == sample.spent
              window == sample.window
  <2>. HIDE DEF period, spent, window
  <2>2. H!ScoresAreFair(period, spent, window)
    BY <2>1, MonthsAreFair DEF period, spent, window
  <2>. QED
    BY <2>2 DEF period, spent, window
<1>. QED
  BY <1>1, SampleInvInit, SampleInvNext, PTL DEF Spec
-----------------------------------------------------------------------------
(* The registry of routes, and gin's dispatch in closed form.              *)

\* The paths of the registry, below /api.
LEMMA PathsBelowApi ==
  /\ \A a : <<"api">> \o <<a>> = <<"api", a>>
  /\ \A a, b : <<"api">> \o <<a, b>> = <<"api", a, b>>
  /\ \A a, b, c : <<"api">> \o <<a, b, c>> = <<"api", a, b, c>>
<1>1. ASSUME NEW a PROVE <<"api">> \o <<a>> = <<"api", a>>
  <2>. DEFINE Segments == {"api", a}
  <2>1. <<"api">> \in Seq(Segments) /\ <<a>> \in Seq(Segments) /\ <<"api", a>> \in Seq(Segments)
    OBVIOUS
  <2>2. Len(<<"api">>) = 1 /\ Len(<<a>>) = 1 /\ Len(<<"api", a>>) = 2
    OBVIOUS
  <2>. HIDE DEF Segments
  <2>3. /\ <<"api">> \o <<a>> \in Seq(Segments) /\ Len(<<"api">> \o <<a>>) = 2
        /\ \A i \in 1..2 : (<<"api">> \o <<a>>)[i] = IF i <= 1 THEN <<"api">>[i] ELSE <<a>>[i - 1]
    BY <2>1, <2>2, ConcatProperties
  <2>4. \A i \in 1..2 : (<<"api">> \o <<a>>)[i] = <<"api", a>>[i]
    BY <2>3
  <2>. QED
    BY <2>1, <2>2, <2>3, <2>4, SeqEqual
<1>2. ASSUME NEW a, NEW b PROVE <<"api">> \o <<a, b>> = <<"api", a, b>>
  <2>. DEFINE Segments == {"api", a, b}
  <2>1. <<"api">> \in Seq(Segments) /\ <<a, b>> \in Seq(Segments) /\ <<"api", a, b>> \in Seq(Segments)
    OBVIOUS
  <2>2. Len(<<"api">>) = 1 /\ Len(<<a, b>>) = 2 /\ Len(<<"api", a, b>>) = 3
    OBVIOUS
  <2>. HIDE DEF Segments
  <2>3. /\ <<"api">> \o <<a, b>> \in Seq(Segments) /\ Len(<<"api">> \o <<a, b>>) = 3
        /\ \A i \in 1..3 : (<<"api">> \o <<a, b>>)[i] = IF i <= 1 THEN <<"api">>[i] ELSE <<a, b>>[i - 1]
    BY <2>1, <2>2, ConcatProperties
  <2>4. \A i \in 1..3 : (<<"api">> \o <<a, b>>)[i] = <<"api", a, b>>[i]
    BY <2>3
  <2>. QED
    BY <2>1, <2>2, <2>3, <2>4, SeqEqual
<1>3. ASSUME NEW a, NEW b, NEW c PROVE <<"api">> \o <<a, b, c>> = <<"api", a, b, c>>
  <2>. DEFINE Segments == {"api", a, b, c}
  <2>1. <<"api">> \in Seq(Segments) /\ <<a, b, c>> \in Seq(Segments) /\ <<"api", a, b, c>> \in Seq(Segments)
    OBVIOUS
  <2>2. Len(<<"api">>) = 1 /\ Len(<<a, b, c>>) = 3 /\ Len(<<"api", a, b, c>>) = 4
    OBVIOUS
  <2>. HIDE DEF Segments
  <2>3. /\ <<"api">> \o <<a, b, c>> \in Seq(Segments) /\ Len(<<"api">> \o <<a, b, c>>) = 4
        /\ \A i \in 1..4 : (<<"api">> \o <<a, b, c>>)[i] = IF i <= 1 THEN <<"api">>[i] ELSE <<a, b, c>>[i - 1]
    BY <2>1, <2>2, ConcatProperties
  <2>4. \A i \in 1..4 : (<<"api">> \o <<a, b, c>>)[i] = <<"api", a, b, c>>[i]
    BY <2>3
  <2>. QED
    BY <2>1, <2>2, <2>3, <2>4, SeqEqual
<1>. QED
  BY <1>1, <1>2, <1>3

\* A path of at least a prefix, and such paths.
IsPath(p) == Len(p) \in Nat /\ Len(p) >= 2 /\ DOMAIN p = 1..Len(p)

LEMMA PathsHaveLengths ==
  /\ \A a : IsPath(<<"api", a>>)
  /\ \A a, b : IsPath(<<"api", a, b>>)
  /\ \A a, b, c : IsPath(<<"api", a, b, c>>)
<1>1. ASSUME NEW a PROVE IsPath(<<"api", a>>)
  <2>1. Len(<<"api", a>>) = 2 /\ DOMAIN <<"api", a>> = 1..2
    OBVIOUS
  <2>. QED
    BY <2>1 DEF IsPath
<1>2. ASSUME NEW a, NEW b PROVE IsPath(<<"api", a, b>>)
  <2>1. Len(<<"api", a, b>>) = 3 /\ DOMAIN <<"api", a, b>> = 1..3
    OBVIOUS
  <2>. QED
    BY <2>1 DEF IsPath
<1>3. ASSUME NEW a, NEW b, NEW c PROVE IsPath(<<"api", a, b, c>>)
  <2>1. Len(<<"api", a, b, c>>) = 4 /\ DOMAIN <<"api", a, b, c>> = 1..4
    OBVIOUS
  <2>. QED
    BY <2>1 DEF IsPath
<1>. QED
  BY <1>1, <1>2, <1>3

\* Patterns that gin and the resolver could confuse.
\* Two patterns that differ in the names of parameters only.
Alike(p, q) ==
  /\ Len(p) = Len(q)
  /\ \A i \in 1..Len(p) : p[i] = q[i] \/ (p[i] \in G!Params /\ q[i] \in G!Params)

IsEntry(r, service, access, method, path) ==
  r = [service |-> service, access |-> access, method |-> method, path |-> path]

\* What the resolver and the proxy make of the registry.
IsRoute(r) ==
  /\ IsPath(r.path)
  /\ r.access \in {"Public", "Authenticated", "Personal", "Admin"}
  /\ [prefix |-> <<r.path[1], r.path[2]>>, service |-> r.service] \in G!ProxyPrefixes
  /\ r.path[1] \notin G!Params /\ r.path[2] \notin G!Params
  /\ \A i \in 1..Len(r.path) : r.path[i] # G!CatchAll

\* The registry route by route; within a service no two routes of a method are alike.
LEMMA AuthTable ==
  ASSUME NEW r \in G!AuthRoutes
  PROVE  \/ IsEntry(r, "auth", "Public", "POST", <<"api", "auth", "register">>)
         \/ IsEntry(r, "auth", "Public", "POST", <<"api", "auth", "login">>)
         \/ IsEntry(r, "auth", "Public", "POST", <<"api", "auth", "refresh">>)
         \/ IsEntry(r, "auth", "Authenticated", "POST", <<"api", "auth", "logout">>)
         \/ IsEntry(r, "auth", "Authenticated", "POST", <<"api", "auth", "me", "password">>)
         \/ IsEntry(r, "auth", "Authenticated", "POST", <<"api", "auth", "restore">>)
         \/ IsEntry(r, "auth", "Authenticated", "GET", <<"api", "auth", "me">>)
         \/ IsEntry(r, "auth", "Authenticated", "PUT", <<"api", "auth", "me">>)
         \/ IsEntry(r, "auth", "Personal", "POST", <<"api", "auth", "onboarding-complete">>)
         \/ IsEntry(r, "auth", "Admin", "POST", <<"api", "auth", "assume">>)
         \/ IsEntry(r, "auth", "Admin", "GET", <<"api", "admin", "users">>)
BY PathsBelowApi DEF G!AuthRoutes, G!Routes, IsEntry

LEMMA AuthRoutesDiffer ==
  ASSUME NEW r \in G!AuthRoutes, NEW s \in G!AuthRoutes, r.method = s.method, Alike(r.path, s.path)
  PROVE  r = s
BY AuthTable DEF Alike, G!Params, IsEntry

LEMMA AuthRoutesAreRoutes ==
  ASSUME NEW r \in G!AuthRoutes
  PROVE  IsRoute(r) /\ r.service = "auth"
<1>1. r.service = "auth" /\ r.access \in {"Public", "Authenticated", "Personal", "Admin"}
  BY AuthTable DEF IsEntry
<1>2. \/ \E a : r.path = <<"api", a>>
      \/ \E a, b : r.path = <<"api", a, b>>
      \/ \E a, b, c : r.path = <<"api", a, b, c>>
  BY AuthTable DEF IsEntry
<1>3. IsPath(r.path)
  BY <1>2, PathsHaveLengths
<1>4. [prefix |-> <<r.path[1], r.path[2]>>, service |-> r.service] \in G!ProxyPrefixes
  BY AuthTable DEF IsEntry, G!ProxyPrefixes
<1>5. r.path[1] \notin G!Params /\ r.path[2] \notin G!Params
  BY AuthTable DEF IsEntry, G!Params
<1>6. \A i \in 1..Len(r.path) : r.path[i] # G!CatchAll
  BY AuthTable DEF IsEntry, G!CatchAll
<1>. QED
  BY <1>1, <1>3, <1>4, <1>5, <1>6 DEF IsRoute

LEMMA FinanceTable ==
  ASSUME NEW r \in G!FinanceRoutes
  PROVE  \/ IsEntry(r, "finance", "Authenticated", "GET", <<"api", "finance", "currencies">>)
         \/ \E s \in {"defaults", "periods", "tags", "summary", "health-score"} :
              IsEntry(r, "finance", "Personal", "GET", <<"api", "finance", s>>)
         \/ IsEntry(r, "finance", "Personal", "GET", <<"api", "finance", "periods", "current">>)
         \/ IsEntry(r, "finance", "Personal", "GET", <<"api", "finance", "prorata", "upcoming">>)
         \/ IsEntry(r, "finance", "Personal", "GET", <<"api", "finance", "health-score", "trend">>)
         \/ \E s \in {"by-tag", "cumulative", "comparison", "trends"} :
              IsEntry(r, "finance", "Personal", "GET", <<"api", "finance", "spending", s>>)
         \/ \E s \in {"onboarding", "periods", "tags", "prorata"} :
              IsEntry(r, "finance", "Personal", "POST", <<"api", "finance", s>>)
         \/ IsEntry(r, "finance", "Personal", "PUT", <<"api", "finance", "defaults">>)
         \/ IsEntry(r, "finance", "Personal", "PUT", <<"api", "finance", "periods", ":id">>)
         \/ IsEntry(r, "finance", "Personal", "PUT", <<"api", "finance", "tags", ":id">>)
         \/ IsEntry(r, "finance", "Personal", "DELETE", <<"api", "finance", "tags", ":id">>)
<1>. DEFINE Is(access, method, path) == IsEntry(r, "finance", access, method, path)
            ofMonth == {<<"finance", s>> : s \in {"defaults", "periods", "tags", "summary", "health-score"}}
            lists == {<<"finance", "periods", "current">>, <<"finance", "prorata", "upcoming">>,
                      <<"finance", "health-score", "trend">>}
            cards == {<<"finance", "spending", s>> : s \in {"by-tag", "cumulative", "comparison", "trends"}}
            made == {<<"finance", s>> : s \in {"onboarding", "periods", "tags", "prorata"}}
            changed == {<<"finance", "defaults">>, <<"finance", "periods", ":id">>, <<"finance", "tags", ":id">>}
<1>1. \/ Is("Authenticated", "GET", <<"api">> \o <<"finance", "currencies">>)
      \/ \E p \in ofMonth \cup lists \cup cards : Is("Personal", "GET", <<"api">> \o p)
      \/ \E p \in made : Is("Personal", "POST", <<"api">> \o p)
      \/ \E p \in changed : Is("Personal", "PUT", <<"api">> \o p)
      \/ Is("Personal", "DELETE", <<"api">> \o <<"finance", "tags", ":id">>)
  <2>. HIDE DEF Is
  <2>1. G!FinanceRoutes =
          G!Routes("finance", "Authenticated", "GET", {<<"finance", "currencies">>})
          \cup G!Routes("finance", "Personal", "GET", ofMonth \cup lists \cup cards)
          \cup G!Routes("finance", "Personal", "POST", made)
          \cup G!Routes("finance", "Personal", "PUT", changed)
          \cup G!Routes("finance", "Personal", "DELETE", {<<"finance", "tags", ":id">>})
    BY Zenon DEF G!FinanceRoutes
  <2>2. ASSUME NEW access, NEW method, NEW paths, r \in G!Routes("finance", access, method, paths)
        PROVE  \E p \in paths : Is(access, method, <<"api">> \o p)
    BY <2>2 DEF G!Routes, Is, IsEntry
  <2>. HIDE DEF ofMonth, lists, cards, made, changed
  <2>. QED
    BY <2>1, <2>2
<1>. HIDE DEF Is
<1>2. ASSUME NEW p \in ofMonth, Is("Personal", "GET", <<"api">> \o p)
      PROVE  \E s \in {"defaults", "periods", "tags", "summary", "health-score"} :
               Is("Personal", "GET", <<"api", "finance", s>>)
  <2>1. PICK s \in {"defaults", "periods", "tags", "summary", "health-score"} : p = <<"finance", s>>
    OBVIOUS
  <2>2. <<"api">> \o p = <<"api", "finance", s>>
    BY <2>1, PathsBelowApi
  <2>. QED
    BY <1>2, <2>2
<1>3. ASSUME NEW p \in lists, Is("Personal", "GET", <<"api">> \o p)
      PROVE  \/ Is("Personal", "GET", <<"api", "finance", "periods", "current">>)
             \/ Is("Personal", "GET", <<"api", "finance", "prorata", "upcoming">>)
             \/ Is("Personal", "GET", <<"api", "finance", "health-score", "trend">>)
  BY <1>3, PathsBelowApi
<1>4. ASSUME NEW p \in cards, Is("Personal", "GET", <<"api">> \o p)
      PROVE  \E s \in {"by-tag", "cumulative", "comparison", "trends"} :
               Is("Personal", "GET", <<"api", "finance", "spending", s>>)
  <2>1. PICK s \in {"by-tag", "cumulative", "comparison", "trends"} : p = <<"finance", "spending", s>>
    OBVIOUS
  <2>2. <<"api">> \o p = <<"api", "finance", "spending", s>>
    BY <2>1, PathsBelowApi
  <2>. QED
    BY <1>4, <2>2
<1>5. ASSUME NEW p \in made, Is("Personal", "POST", <<"api">> \o p)
      PROVE  \E s \in {"onboarding", "periods", "tags", "prorata"} : Is("Personal", "POST", <<"api", "finance", s>>)
  BY <1>5, PathsBelowApi
<1>6. ASSUME NEW p \in changed, Is("Personal", "PUT", <<"api">> \o p)
      PROVE  \/ Is("Personal", "PUT", <<"api", "finance", "defaults">>)
             \/ Is("Personal", "PUT", <<"api", "finance", "periods", ":id">>)
             \/ Is("Personal", "PUT", <<"api", "finance", "tags", ":id">>)
  BY <1>6, PathsBelowApi
<1>. QED
  BY <1>1, <1>2, <1>5, <1>6, <1>3, <1>4, PathsBelowApi DEF Is

LEMMA FinanceRoutesDiffer ==
  ASSUME NEW r \in G!FinanceRoutes, NEW s \in G!FinanceRoutes, r.method = s.method, Alike(r.path, s.path)
  PROVE  r = s
BY FinanceTable DEF Alike, G!Params, IsEntry

LEMMA FinanceRoutesAreRoutes ==
  ASSUME NEW r \in G!FinanceRoutes
  PROVE  IsRoute(r) /\ r.service = "finance"
<1>1. r.service = "finance" /\ r.access \in {"Public", "Authenticated", "Personal", "Admin"}
  BY FinanceTable DEF IsEntry
<1>2. \/ \E a : r.path = <<"api", a>>
      \/ \E a, b : r.path = <<"api", a, b>>
      \/ \E a, b, c : r.path = <<"api", a, b, c>>
  BY FinanceTable DEF IsEntry
<1>3. IsPath(r.path)
  BY <1>2, PathsHaveLengths
<1>4. [prefix |-> <<r.path[1], r.path[2]>>, service |-> r.service] \in G!ProxyPrefixes
  BY FinanceTable DEF IsEntry, G!ProxyPrefixes
<1>5. r.path[1] \notin G!Params /\ r.path[2] \notin G!Params
  BY FinanceTable DEF IsEntry, G!Params
<1>6. \A i \in 1..Len(r.path) : r.path[i] # G!CatchAll
  BY FinanceTable DEF IsEntry, G!CatchAll
<1>. QED
  BY <1>1, <1>3, <1>4, <1>5, <1>6 DEF IsRoute

LEMMA ExpenseTable ==
  ASSUME NEW r \in G!ExpenseRoutes
  PROVE  \/ IsEntry(r, "expense", "Personal", "GET", <<"api", "expenses">>)
         \/ IsEntry(r, "expense", "Personal", "GET", <<"api", "expenses", "suggestions">>)
         \/ IsEntry(r, "expense", "Personal", "GET", <<"api", "expenses", ":id">>)
         \/ IsEntry(r, "expense", "Personal", "GET", <<"api", "expenses", "prorata", ":groupId">>)
         \/ IsEntry(r, "expense", "Personal", "GET", <<"api", "expenses", ":id", "history">>)
         \/ IsEntry(r, "expense", "Personal", "POST", <<"api", "expenses">>)
         \/ IsEntry(r, "expense", "Personal", "POST", <<"api", "expenses", ":id", "correct">>)
         \/ IsEntry(r, "expense", "Personal", "DELETE", <<"api", "expenses", ":id">>)
BY PathsBelowApi DEF G!ExpenseRoutes, G!Routes, IsEntry

LEMMA ExpenseRoutesDiffer ==
  ASSUME NEW r \in G!ExpenseRoutes, NEW s \in G!ExpenseRoutes, r.method = s.method, Alike(r.path, s.path)
  PROVE  r = s
BY ExpenseTable DEF Alike, G!Params, IsEntry

LEMMA ExpenseRoutesAreRoutes ==
  ASSUME NEW r \in G!ExpenseRoutes
  PROVE  IsRoute(r) /\ r.service = "expense"
<1>1. r.service = "expense" /\ r.access \in {"Public", "Authenticated", "Personal", "Admin"}
  BY ExpenseTable DEF IsEntry
<1>2. \/ \E a : r.path = <<"api", a>>
      \/ \E a, b : r.path = <<"api", a, b>>
      \/ \E a, b, c : r.path = <<"api", a, b, c>>
  BY ExpenseTable DEF IsEntry
<1>3. IsPath(r.path)
  BY <1>2, PathsHaveLengths
<1>4. [prefix |-> <<r.path[1], r.path[2]>>, service |-> r.service] \in G!ProxyPrefixes
  BY ExpenseTable DEF IsEntry, G!ProxyPrefixes
<1>5. r.path[1] \notin G!Params /\ r.path[2] \notin G!Params
  BY ExpenseTable DEF IsEntry, G!Params
<1>6. \A i \in 1..Len(r.path) : r.path[i] # G!CatchAll
  BY ExpenseTable DEF IsEntry, G!CatchAll
<1>. QED
  BY <1>1, <1>3, <1>4, <1>5, <1>6 DEF IsRoute

LEMMA DatarightsTable ==
  ASSUME NEW r \in G!DatarightsRoutes
  PROVE  \/ IsEntry(r, "datarights", "Personal", "GET", <<"api", "datarights", "exports">>)
         \/ IsEntry(r, "datarights", "Personal", "GET", <<"api", "datarights", "exports", ":id">>)
         \/ IsEntry(r, "datarights", "Personal", "POST", <<"api", "datarights", "exports">>)
         \/ IsEntry(r, "datarights", "Admin", "POST", <<"api", "datarights", "deletions">>)
         \/ IsEntry(r, "datarights", "Admin", "GET", <<"api", "datarights", "deletions", ":id">>)
BY PathsBelowApi DEF G!DatarightsRoutes, G!Routes, IsEntry

LEMMA DatarightsRoutesDiffer ==
  ASSUME NEW r \in G!DatarightsRoutes, NEW s \in G!DatarightsRoutes, r.method = s.method, Alike(r.path, s.path)
  PROVE  r = s
BY DatarightsTable DEF Alike, G!Params, IsEntry

LEMMA DatarightsRoutesAreRoutes ==
  ASSUME NEW r \in G!DatarightsRoutes
  PROVE  IsRoute(r) /\ r.service = "datarights"
<1>1. r.service = "datarights" /\ r.access \in {"Public", "Authenticated", "Personal", "Admin"}
  BY DatarightsTable DEF IsEntry
<1>2. \/ \E a : r.path = <<"api", a>>
      \/ \E a, b : r.path = <<"api", a, b>>
      \/ \E a, b, c : r.path = <<"api", a, b, c>>
  BY DatarightsTable DEF IsEntry
<1>3. IsPath(r.path)
  BY <1>2, PathsHaveLengths
<1>4. [prefix |-> <<r.path[1], r.path[2]>>, service |-> r.service] \in G!ProxyPrefixes
  BY DatarightsTable DEF IsEntry, G!ProxyPrefixes
<1>5. r.path[1] \notin G!Params /\ r.path[2] \notin G!Params
  BY DatarightsTable DEF IsEntry, G!Params
<1>6. \A i \in 1..Len(r.path) : r.path[i] # G!CatchAll
  BY DatarightsTable DEF IsEntry, G!CatchAll
<1>. QED
  BY <1>1, <1>3, <1>4, <1>5, <1>6 DEF IsRoute

\* What gin can reach below the i-th segment with the routes found so far, which of
\* them it prefers (static at the first segment where they differ), and the best.
IsParam(r, i) == r.path[i] \in G!Params
Reach(path, found, i) ==
  {r \in found : /\ Len(r.path) = Len(path)
                 /\ \A j \in i..Len(path) : G!SegmentMatches(r.path[j], path[j])}
Better(s, r, path, i) ==
  \E j \in i..Len(path) : /\ ~ IsParam(s, j) /\ IsParam(r, j)
                          /\ \A k \in i..(j - 1) : IsParam(s, k) <=> IsParam(r, k)
Best(path, found, i) ==
  {r \in Reach(path, found, i) : \A s \in Reach(path, found, i) : ~ Better(s, r, path, i)}

\* The routes on either way from the i-th segment.
Longer(found, i) == {r \in found : Len(r.path) >= i}
Static(path, found, i) == {r \in Longer(found, i) : r.path[i] = path[i] /\ path[i] \notin G!Params}
Param(path, found, i) == {r \in Longer(found, i) : r.path[i] \in G!Params /\ path[i] # ""}

\* A route is reached on the static way or on the parameter's.
LEMMA ReachStep ==
  ASSUME NEW path, Len(path) \in Nat, NEW i \in 1..Len(path), NEW found
  PROVE  /\ Reach(path, found, i) =
              Reach(path, Static(path, found, i), i + 1) \cup Reach(path, Param(path, found, i), i + 1)
         /\ \A r \in Reach(path, Static(path, found, i), i + 1) : ~ IsParam(r, i)
         /\ \A r \in Reach(path, Param(path, found, i), i + 1) : IsParam(r, i)
<1>. DEFINE n == Len(path)
<1>1. ASSUME NEW r \in found
      PROVE  r \in Reach(path, found, i) <=>
               r \in Reach(path, Static(path, found, i), i + 1) \/ r \in Reach(path, Param(path, found, i), i + 1)
  <2>1. (\A j \in i..n : G!SegmentMatches(r.path[j], path[j])) <=>
          /\ G!SegmentMatches(r.path[i], path[i])
          /\ \A j \in (i + 1)..n : G!SegmentMatches(r.path[j], path[j])
    OBVIOUS
  <2>2. G!SegmentMatches(r.path[i], path[i]) <=>
          (r.path[i] = path[i] /\ path[i] \notin G!Params) \/ (r.path[i] \in G!Params /\ path[i] # "")
    BY Zenon DEF G!SegmentMatches
  <2>. DEFINE rest == \A j \in (i + 1)..n : G!SegmentMatches(r.path[j], path[j])
              static == r.path[i] = path[i] /\ path[i] \notin G!Params
              param == r.path[i] \in G!Params /\ path[i] # ""
  <2>3. Len(r.path) = n => Len(r.path) >= i
    OBVIOUS
  <2>4. r \in Reach(path, found, i) <=> Len(r.path) = n /\ (static \/ param) /\ rest
    BY <2>1, <2>2, Zenon DEF Reach
  <2>5. r \in Reach(path, Static(path, found, i), i + 1) <=> Len(r.path) >= i /\ static /\ Len(r.path) = n /\ rest
    BY Zenon DEF Reach, Static, Longer
  <2>6. r \in Reach(path, Param(path, found, i), i + 1) <=> Len(r.path) >= i /\ param /\ Len(r.path) = n /\ rest
    BY Zenon DEF Reach, Param, Longer
  <2>. HIDE DEF rest, static, param
  <2>. QED
    BY <2>3, <2>4, <2>5, <2>6
<1>2. /\ Static(path, found, i) \subseteq found /\ Param(path, found, i) \subseteq found
  BY DEF Static, Param, Longer
<1>3. /\ Reach(path, found, i) \subseteq found
      /\ Reach(path, Static(path, found, i), i + 1) \subseteq Static(path, found, i)
      /\ Reach(path, Param(path, found, i), i + 1) \subseteq Param(path, found, i)
  BY DEF Reach
<1>4. Reach(path, found, i) =
              Reach(path, Static(path, found, i), i + 1) \cup Reach(path, Param(path, found, i), i + 1)
  BY <1>1, <1>2, <1>3
<1>. QED
  BY <1>3, <1>4 DEF Static, Param, IsParam

\* The first segment decides, or the ones behind it.
LEMMA BetterStep ==
  ASSUME NEW path, Len(path) \in Nat, NEW i \in 1..Len(path), NEW r, NEW s
  PROVE  Better(s, r, path, i) <=>
           \/ ~ IsParam(s, i) /\ IsParam(r, i)
           \/ (IsParam(s, i) <=> IsParam(r, i)) /\ Better(s, r, path, i + 1)
<1>. DEFINE n == Len(path)
            At(j) == /\ ~ IsParam(s, j) /\ IsParam(r, j)
                     /\ \A k \in i..(j - 1) : IsParam(s, k) <=> IsParam(r, k)
            Behind(j) == /\ ~ IsParam(s, j) /\ IsParam(r, j)
                         /\ \A k \in (i + 1)..(j - 1) : IsParam(s, k) <=> IsParam(r, k)
<1>1. ASSUME NEW j \in (i + 1)..n
      PROVE  At(j) <=> (IsParam(s, i) <=> IsParam(r, i)) /\ Behind(j)
  <2>1. i \in i..(j - 1) /\ \A k : k \in i..(j - 1) <=> k = i \/ k \in (i + 1)..(j - 1)
    OBVIOUS
  <2>. QED
    BY <2>1
<1>2. At(i) <=> ~ IsParam(s, i) /\ IsParam(r, i)
  OBVIOUS
<1>3. \A j : j \in i..n <=> j = i \/ j \in (i + 1)..n
  OBVIOUS
<1>4. Better(s, r, path, i) <=> \E j \in i..n : At(j)
  BY DEF Better
<1>5. Better(s, r, path, i + 1) <=> \E j \in (i + 1)..n : Behind(j)
  BY DEF Better
<1>. HIDE DEF At, Behind, n
<1>. QED
  BY <1>1, <1>2, <1>3, <1>4, <1>5

\* The best that gin can reach is static here if anything is.
LEMMA BestStep ==
  ASSUME NEW path, Len(path) \in Nat, NEW i \in 1..Len(path), NEW found
  PROVE  Best(path, found, i) =
           IF Reach(path, Static(path, found, i), i + 1) # {} THEN Best(path, Static(path, found, i), i + 1)
           ELSE Best(path, Param(path, found, i), i + 1)
<1>. DEFINE all == Reach(path, found, i)
            st == Reach(path, Static(path, found, i), i + 1)
            pa == Reach(path, Param(path, found, i), i + 1)
<1>1. /\ all = st \cup pa
      /\ \A r \in st : ~ IsParam(r, i)
      /\ \A r \in pa : IsParam(r, i)
  BY ReachStep
<1>2. \A r, s : Better(s, r, path, i) <=>
                  \/ ~ IsParam(s, i) /\ IsParam(r, i)
                  \/ (IsParam(s, i) <=> IsParam(r, i)) /\ Better(s, r, path, i + 1)
  BY BetterStep
<1>3. /\ Best(path, found, i) = {r \in all : \A s \in all : ~ Better(s, r, path, i)}
      /\ Best(path, Static(path, found, i), i + 1) = {r \in st : \A s \in st : ~ Better(s, r, path, i + 1)}
      /\ Best(path, Param(path, found, i), i + 1) = {r \in pa : \A s \in pa : ~ Better(s, r, path, i + 1)}
  BY DEF Best
<1>. HIDE DEF all, st, pa
<1>4. CASE st # {}
  <2>1. \A r \in pa : \E s \in all : Better(s, r, path, i)
    BY <1>1, <1>2, <1>4
  <2>2. \A r \in st : (\A s \in all : ~ Better(s, r, path, i)) <=> (\A s \in st : ~ Better(s, r, path, i + 1))
    BY <1>1, <1>2
  <2>3. {r \in all : \A s \in all : ~ Better(s, r, path, i)} = {r \in st : \A s \in st : ~ Better(s, r, path, i + 1)}
    BY <1>1, <2>1, <2>2
  <2>. QED
    BY <1>3, <1>4, <2>3 DEF st
<1>5. CASE st = {}
  <2>1. all = pa
    BY <1>1, <1>5
  <2>2. \A r, s \in pa : Better(s, r, path, i) <=> Better(s, r, path, i + 1)
    BY <1>1, <1>2
  <2>3. {r \in all : \A s \in all : ~ Better(s, r, path, i)} = {r \in pa : \A s \in pa : ~ Better(s, r, path, i + 1)}
    BY <2>1, <2>2
  <2>. QED
    BY <1>3, <1>5, <2>3 DEF st
<1>. QED
  BY <1>4, <1>5

\* If something is within reach, something is the best.
LEMMA BestExists ==
  ASSUME NEW path, Len(path) \in Nat, NEW i \in 1..(Len(path) + 1), NEW found, Reach(path, found, i) # {}
  PROVE  Best(path, found, i) # {}
<1>. DEFINE n == Len(path)
            Holds(j) == \A set : Reach(path, set, j) # {} => Best(path, set, j) # {}
            Wrong == {m \in 1..(n + 1) : ~ Holds(n + 2 - m)}
<1>1. CASE Wrong = {}
  <2>1. n + 2 - i \in 1..(n + 1) /\ n + 2 - (n + 2 - i) = i
    OBVIOUS
  <2>2. Holds(i)
    <3>. HIDE DEF Holds, n
    <3>. QED
      BY <1>1, <2>1
  <2>. QED
    BY <2>2
<1>2. CASE Wrong # {}
  <2>1. PICK m \in Wrong : \A k \in Wrong : m <= k
    <3>1. n + 1 \in Nat /\ Wrong \in SUBSET (1..(n + 1))
      OBVIOUS
    <3>. HIDE DEF Wrong, n
    <3>. QED
      BY <1>2, <3>1, LeastElement
  <2>. DEFINE j == n + 2 - m
  <2>2. m \in 1..(n + 1) /\ ~ Holds(j)
    BY <2>1
  <2>3. CASE m = 1
    <3>1. j = n + 1
      BY <2>3
    <3>2. \A set, r, s : ~ Better(s, r, path, n + 1)
      BY DEF Better
    <3>3. Holds(n + 1)
      BY <3>2 DEF Best
    <3>. QED
      BY <2>2, <3>1, <3>3
  <2>4. CASE m # 1
    <3>1. m - 1 \in 1..(n + 1) /\ ~ (m <= m - 1) /\ n + 2 - (m - 1) = j + 1 /\ j \in 1..n
      BY <2>2, <2>4
    <3>2. Holds(j + 1)
      <4>. HIDE DEF Holds, n, j
      <4>. QED
        BY <2>1, <3>1
    <3>3. j \in 1..Len(path)
      BY <3>1
    <3>. HIDE DEF j
    <3>4. ASSUME NEW set, Reach(path, set, j) # {} PROVE Best(path, set, j) # {}
      <4>1. Reach(path, set, j) =
                Reach(path, Static(path, set, j), j + 1) \cup Reach(path, Param(path, set, j), j + 1)
        BY <3>3, ReachStep
      <4>2. Best(path, set, j) =
              IF Reach(path, Static(path, set, j), j + 1) # {} THEN Best(path, Static(path, set, j), j + 1)
              ELSE Best(path, Param(path, set, j), j + 1)
        BY <3>3, BestStep
      <4>. QED
        BY <3>2, <3>4, <4>1, <4>2
    <3>. QED
      BY <2>2, <3>4
  <2>. QED
    BY <2>3, <2>4
<1>. QED
  BY <1>1, <1>2

\* What gin dispatches to.
LEMMA DispatchIsBest ==
  ASSUME NEW service, NEW method, NEW path, Len(path) \in Nat
  PROVE  G!Dispatch(service, method, path) =
           Best(path, {r \in G!BindRoutes(service, {}) : r.method = method}, 1)
<1>. DEFINE bound == {r \in G!BindRoutes(service, {}) : r.method = method}
            n == Len(path)
            Body(f, i, found) ==
              IF i > Len(path) THEN {r \in found : Len(r.path) = Len(path)}
              ELSE LET longer == {r \in found : Len(r.path) >= i}
                       static == f[i + 1][{r \in longer : r.path[i] = path[i] /\ path[i] \notin G!Params}]
                   IN IF static # {} THEN static
                      ELSE f[i + 1][{r \in longer : r.path[i] \in G!Params /\ path[i] # ""}]
            Is(f) == f = [i \in 1..(n + 1) |-> [found \in SUBSET bound |-> Body(f, i, found)]]
            below == CHOOSE f : Is(f)
            best == [i \in 1..(n + 1) |-> [found \in SUBSET bound |-> Best(path, found, i)]]
<1>1. G!Dispatch(service, method, path) = below[1][bound]
  BY DEF G!Dispatch
<1>2. ASSUME NEW i \in 1..(n + 1), NEW found \in SUBSET bound
      PROVE  Best(path, found, i) = Body(best, i, found)
  <2>1. CASE i > n
    <3>1. \A r, s : ~ Better(s, r, path, i)
      BY <2>1 DEF Better
    <3>2. \A j \in i..n : FALSE
      BY <2>1
    <3>3. Best(path, found, i) = {r \in found : Len(r.path) = Len(path)}
      BY <3>1, <3>2 DEF Best, Reach
    <3>. QED
      BY <2>1, <3>3
  <2>2. CASE ~ (i > n)
    <3>1. i \in 1..n /\ i + 1 \in 1..(n + 1)
      BY <2>2
    <3>. DEFINE st == Static(path, found, i)
                pa == Param(path, found, i)
    <3>2. st \in SUBSET bound /\ pa \in SUBSET bound
      BY DEF Static, Param, Longer
    <3>3. best[i + 1][st] = Best(path, st, i + 1) /\ best[i + 1][pa] = Best(path, pa, i + 1)
      BY <3>1, <3>2
    <3>4. /\ st = {r \in Longer(found, i) : r.path[i] = path[i] /\ path[i] \notin G!Params}
          /\ pa = {r \in Longer(found, i) : r.path[i] \in G!Params /\ path[i] # ""}
          /\ Longer(found, i) = {r \in found : Len(r.path) >= i}
      BY DEF Static, Param, Longer
    <3>. HIDE DEF st, pa, best, bound
    <3>5. Body(best, i, found) = IF best[i + 1][st] # {} THEN best[i + 1][st] ELSE best[i + 1][pa]
      BY <2>2, <3>4
    <3>6. Reach(path, st, i + 1) # {} <=> Best(path, st, i + 1) # {}
      BY <3>1, BestExists DEF Best
    <3>7. Best(path, found, i) = IF Reach(path, st, i + 1) # {} THEN Best(path, st, i + 1)
                                 ELSE Best(path, pa, i + 1)
      BY <3>1, BestStep DEF st, pa
    <3>. QED
      BY <3>3, <3>5, <3>6, <3>7
  <2>. QED
    BY <2>1, <2>2
<1>3. Is(best)
  <2>1. \A i \in 1..(n + 1) : \A found \in SUBSET bound : best[i][found] = Best(path, found, i)
    OBVIOUS
  <2>2. \A i \in 1..(n + 1) : \A found \in SUBSET bound : Best(path, found, i) = Body(best, i, found)
    BY <1>2
  <2>. HIDE DEF Body
  <2>3. [i \in 1..(n + 1) |-> [found \in SUBSET bound |-> Best(path, found, i)]]
          = [i \in 1..(n + 1) |-> [found \in SUBSET bound |-> Body(best, i, found)]]
    BY <2>2
  <2>. QED
    BY <2>3
<1>4. Is(below)
  <2>. HIDE DEF Is, best
  <2>. QED
    BY <1>3
<1>5. /\ \A i \in 1..(n + 1) : \A found \in SUBSET bound : below[i][found] = Body(below, i, found)
      /\ \A i \in 1..(n + 1) : \A found \in SUBSET bound : best[i][found] = Body(best, i, found)
  <2>1. ASSUME NEW f, Is(f), NEW i \in 1..(n + 1), NEW found \in SUBSET bound
        PROVE  f[i][found] = Body(f, i, found)
    <3>. DEFINE g == [j \in 1..(n + 1) |-> [set \in SUBSET bound |-> Body(f, j, set)]]
    <3>. HIDE DEF Body
    <3>1. g[i][found] = Body(f, i, found)
      OBVIOUS
    <3>2. f = g
      BY <2>1
    <3>. HIDE DEF g
    <3>. QED
      BY <3>1, <3>2
  <2>. HIDE DEF Is, Body, best, below
  <2>. QED
    BY <1>3, <1>4, <2>1
<1>. HIDE DEF Is, Body, best, below, bound
<1>6. \A i \in 1..(n + 1) : \A found \in SUBSET bound : below[i][found] = best[i][found]
  <2>. DEFINE Holds(i) == \A found \in SUBSET bound : below[i][found] = best[i][found]
              Wrong == {m \in 1..(n + 1) : ~ Holds(n + 2 - m)}
  <2>1. ASSUME Wrong # {} PROVE FALSE
    <3>1. PICK m \in Wrong : \A k \in Wrong : m <= k
      <4>1. n + 1 \in Nat /\ Wrong \in SUBSET (1..(n + 1))
        OBVIOUS
      <4>. HIDE DEF Wrong, n
      <4>. QED
        BY <2>1, <4>1, LeastElement
    <3>. DEFINE i == n + 2 - m
    <3>2. m \in 1..(n + 1) /\ ~ Holds(i) /\ i \in 1..(n + 1)
      BY <3>1
    <3>3. i <= n => Holds(i + 1)
      <4>1. i <= n => m - 1 \in 1..(n + 1) /\ ~ (m <= m - 1) /\ n + 2 - (m - 1) = i + 1
        BY <3>2
      <4>. HIDE DEF Holds, n, i
      <4>. QED
        BY <3>1, <4>1
    <3>. HIDE DEF i
    <3>4. ASSUME NEW found \in SUBSET bound PROVE below[i][found] = best[i][found]
      <4>. DEFINE st == {r \in {r \in found : Len(r.path) >= i} : r.path[i] = path[i] /\ path[i] \notin G!Params}
                  pa == {r \in {r \in found : Len(r.path) >= i} : r.path[i] \in G!Params /\ path[i] # ""}
      <4>1. st \in SUBSET bound /\ pa \in SUBSET bound
        OBVIOUS
      <4>2. i <= n => below[i + 1][st] = best[i + 1][st] /\ below[i + 1][pa] = best[i + 1][pa]
        BY <3>3, <4>1
      <4>3. Body(below, i, found) = Body(best, i, found)
        <5>1. CASE i > n
          BY <5>1 DEF Body
        <5>2. CASE ~ (i > n)
          <6>1. ASSUME NEW f
                PROVE  Body(f, i, found) = IF f[i + 1][st] # {} THEN f[i + 1][st] ELSE f[i + 1][pa]
            BY <5>2, Zenon DEF Body
          <6>2. i <= n
            BY <3>2, <5>2
          <6>. HIDE DEF st, pa
          <6>. QED
            BY <4>2, <6>1, <6>2
        <5>. QED
          BY <5>1, <5>2
      <4>. QED
        BY <1>5, <3>2, <4>3
    <3>. QED
      BY <3>2, <3>4
  <2>2. ASSUME NEW i \in 1..(n + 1) PROVE Holds(i)
    <3>1. n + 2 - i \in 1..(n + 1) /\ n + 2 - (n + 2 - i) = i
      OBVIOUS
    <3>. HIDE DEF Holds, n
    <3>. QED
      BY <2>1, <3>1
  <2>. QED
    BY <2>2
<1>7. 1 \in 1..(n + 1) /\ bound \in SUBSET bound
  OBVIOUS
<1>8. best[1][bound] = Best(path, bound, 1)
  BY <1>7 DEF best
<1>. QED
  BY <1>1, <1>6, <1>7, <1>8 DEF bound

\* The registry is the services' tables.
LEMMA RegistryIs ==
  ASSUME NEW r \in G!Registry
  PROVE  /\ IsRoute(r)
         /\ r.service = "auth" => r \in G!AuthRoutes
         /\ r.service = "finance" => r \in G!FinanceRoutes
         /\ r.service = "expense" => r \in G!ExpenseRoutes
         /\ r.service = "datarights" => r \in G!DatarightsRoutes
         /\ r.service \in {"auth", "finance", "expense", "datarights"}
BY AuthRoutesAreRoutes, FinanceRoutesAreRoutes, ExpenseRoutesAreRoutes, DatarightsRoutesAreRoutes, Zenon DEF G!Registry

\* No two routes of a method are alike.
LEMMA RoutesDiffer ==
  ASSUME NEW r \in G!Registry, NEW s \in G!Registry, r.method = s.method, Alike(r.path, s.path)
  PROVE  r = s
<1>1. /\ IsPath(r.path) /\ IsPath(s.path)
      /\ [prefix |-> <<r.path[1], r.path[2]>>, service |-> r.service] \in G!ProxyPrefixes
      /\ [prefix |-> <<s.path[1], s.path[2]>>, service |-> s.service] \in G!ProxyPrefixes
      /\ r.path[1] \notin G!Params /\ r.path[2] \notin G!Params
  BY RegistryIs DEF IsRoute
<1>2. r.path[1] = s.path[1] /\ r.path[2] = s.path[2]
  <2>1. 1 \in 1..Len(r.path) /\ 2 \in 1..Len(r.path)
    BY <1>1 DEF IsPath
  <2>. QED
    BY <1>1, <2>1 DEF Alike
<1>3. \A p, q \in G!ProxyPrefixes : p.prefix = q.prefix => p.service = q.service
  BY DEF G!ProxyPrefixes
<1>4. r.service = s.service
  <2>. DEFINE p == [prefix |-> <<r.path[1], r.path[2]>>, service |-> r.service]
              q == [prefix |-> <<s.path[1], s.path[2]>>, service |-> s.service]
  <2>1. p.prefix = q.prefix /\ p.service = r.service /\ q.service = s.service
    BY <1>2
  <2>2. p \in G!ProxyPrefixes /\ q \in G!ProxyPrefixes
    BY <1>1
  <2>. HIDE DEF p, q
  <2>. QED
    BY <1>3, <2>1, <2>2
<1>. QED
  BY <1>4, RegistryIs, AuthRoutesDiffer, FinanceRoutesDiffer, ExpenseRoutesDiffer, DatarightsRoutesDiffer

\* The routes whose patterns match a path.
Matching(method, path) == {r \in G!Registry : r.method = method /\ G!MatchPattern(r.path, path)}

\* A prefix of two segments.
LEMMA PrefixOfTwo ==
  ASSUME NEW path \in Seq(STRING), NEW a, NEW b
  PROVE  G!IsPrefix(<<a, b>>, path) <=> Len(path) >= 2 /\ path[1] = a /\ path[2] = b
<1>1. Len(<<a, b>>) = 2 /\ SubSeq(<<a, b>>, 1, 2) = <<a, b>>
  <2>1. <<a, b>> \in Seq({a, b}) /\ Len(<<a, b>>) = 2
    OBVIOUS
  <2>. QED
    BY <2>1, SubSeqFull
<1>2. ASSUME Len(path) >= 2 PROVE SubSeq(path, 1, 2) = <<path[1], path[2]>>
  <2>1. /\ \A i \in 1..2 : path[i] \in STRING
        /\ 1 \in Int /\ 2 \in Int
    BY <1>2, ElementOfSeq
  <2>2. /\ SubSeq(path, 1, 2) \in Seq(STRING) /\ Len(SubSeq(path, 1, 2)) = 2
        /\ \A i \in 1..2 : SubSeq(path, 1, 2)[i] = path[i]
    BY <2>1, SubSeqProperties
  <2>3. <<path[1], path[2]>> \in Seq(STRING) /\ Len(<<path[1], path[2]>>) = 2
    BY <2>1
  <2>4. \A i \in 1..2 : SubSeq(path, 1, 2)[i] = <<path[1], path[2]>>[i]
    BY <2>2
  <2>. QED
    BY <2>2, <2>3, <2>4, SeqEqual
<1>. QED
  BY <1>1, <1>2 DEF G!IsPrefix

\* The gateway proxies a path to the service whose route it matches.
LEMMA ProxiedToItsService ==
  ASSUME NEW path \in Seq(STRING)
  PROVE  /\ \A r \in G!Registry : G!MatchPattern(r.path, path) => G!ProxiedTo(path) = r.service
         /\ Len(path) < 2 => G!ProxiedTo(path) = ""
<1>. DEFINE matching == {p \in G!ProxyPrefixes : G!IsPrefix(p.prefix, path)}
<1>1. \A p \in G!ProxyPrefixes : \E a, b : p.prefix = <<a, b>>
  BY DEF G!ProxyPrefixes
<1>2. \A p, q \in G!ProxyPrefixes : p.prefix = q.prefix => p.service = q.service
  BY DEF G!ProxyPrefixes
<1>3. \A p, q \in matching : p.service = q.service
  <2>. TAKE p, q \in matching
  <2>1. PICK a, b : p.prefix = <<a, b>>
    BY <1>1
  <2>2. PICK c, d : q.prefix = <<c, d>>
    BY <1>1
  <2>3. path[1] = a /\ path[2] = b /\ path[1] = c /\ path[2] = d
    <3>1. G!IsPrefix(<<a, b>>, path)
      BY <2>1, Zenon
    <3>2. G!IsPrefix(<<c, d>>, path)
      BY <2>2, Zenon
    <3>3. path[1] = a /\ path[2] = b
      BY <3>1, PrefixOfTwo, Zenon
    <3>4. path[1] = c /\ path[2] = d
      BY <3>2, PrefixOfTwo, Zenon
    <3>. QED
      BY <3>3, <3>4, Zenon
  <2>4. p.prefix = q.prefix
    BY <2>1, <2>2, <2>3, Zenon
  <2>. QED
    BY <1>2, <2>4
<1>4. G!ProxiedTo(path) = IF matching = {} THEN "" ELSE (CHOOSE p \in matching : TRUE).service
  BY Zenon DEF G!ProxiedTo
<1>5. \A p \in matching : G!ProxiedTo(path) = p.service
  <2>. TAKE p \in matching
  <2>1. (CHOOSE q \in matching : TRUE) \in matching
    OBVIOUS
  <2>. HIDE DEF matching
  <2>. QED
    BY <1>3, <1>4, <2>1
<1>6. ASSUME NEW r \in G!Registry, G!MatchPattern(r.path, path)
      PROVE  G!ProxiedTo(path) = r.service
  <2>. DEFINE p == [prefix |-> <<r.path[1], r.path[2]>>, service |-> r.service]
  <2>1. IsPath(r.path) /\ p \in G!ProxyPrefixes /\ r.path[1] \notin G!Params /\ r.path[2] \notin G!Params
    BY RegistryIs DEF IsRoute
  <2>2. Len(path) >= 2 /\ path[1] = r.path[1] /\ path[2] = r.path[2]
    <3>1. Len(path) = Len(r.path) /\ \A i \in DOMAIN r.path : G!SegmentMatches(r.path[i], path[i])
      BY <1>6, Zenon DEF G!MatchPattern
    <3>2. Len(r.path) >= 2 /\ 1 \in DOMAIN r.path /\ 2 \in DOMAIN r.path
      BY <2>1 DEF IsPath
    <3>3. G!SegmentMatches(r.path[1], path[1]) /\ G!SegmentMatches(r.path[2], path[2])
      BY <3>1, <3>2
    <3>. QED
      BY <2>1, <3>1, <3>2, <3>3 DEF G!SegmentMatches
  <2>3. G!IsPrefix(<<r.path[1], r.path[2]>>, path)
    BY <2>2, PrefixOfTwo
  <2>4. p.prefix = <<r.path[1], r.path[2]>> /\ p.service = r.service
    OBVIOUS
  <2>. HIDE DEF p
  <2>5. p \in matching
    BY <2>1, <2>3, <2>4
  <2>. QED
    BY <1>5, <2>4, <2>5
<1>7. Len(path) < 2 => matching = {}
  <2>1. ASSUME NEW p \in G!ProxyPrefixes, G!IsPrefix(p.prefix, path) PROVE Len(path) >= 2
    <3>1. PICK a, b : p.prefix = <<a, b>>
      BY <1>1, Zenon
    <3>2. G!IsPrefix(<<a, b>>, path)
      BY <2>1, <3>1, Zenon
    <3>. QED
      BY <3>2, PrefixOfTwo, Zenon
  <2>2. Len(path) \in Nat
    BY LenProperties
  <2>. QED
    BY <2>1, <2>2
<1>. QED
  BY <1>4, <1>6, <1>7

\* The resolver's comparison is gin's preference.
LEMMA MoreSpecificIsBetter ==
  ASSUME NEW path, Len(path) \in Nat, NEW method, NEW r \in Matching(method, path), NEW s \in Matching(method, path)
  PROVE  G!MoreSpecific(s.path, r.path) <=> Better(s, r, path, 1)
<1>. DEFINE n == Len(path)
            Class(t, i) == G!SegmentClass(t.path[i])
            common == DOMAIN s.path \cap DOMAIN r.path
            differing == {i \in common : G!SegmentClass(s.path[i]) # G!SegmentClass(r.path[i])}
            least == CHOOSE i \in differing : \A j \in differing : i <= j
<1>1. ASSUME NEW t \in Matching(method, path)
      PROVE  /\ Len(t.path) = n /\ DOMAIN t.path = 1..n
             /\ \A i \in 1..n : Class(t, i) = IF IsParam(t, i) THEN 1 ELSE 2
  <2>1. t \in G!Registry /\ G!MatchPattern(t.path, path)
    BY DEF Matching
  <2>2. Len(t.path) = n
    BY <2>1 DEF G!MatchPattern
  <2>3. DOMAIN t.path = 1..n /\ \A i \in 1..n : t.path[i] # G!CatchAll
    BY <2>1, <2>2, RegistryIs DEF IsRoute, IsPath
  <2>. QED
    BY <2>2, <2>3 DEF G!SegmentClass, IsParam
<1>2. G!MoreSpecific(s.path, r.path) =
        IF differing = {} THEN Len(s.path) > Len(r.path) ELSE Class(s, least) > Class(r, least)
  BY Zenon DEF G!MoreSpecific
<1>0. common = 1..n
  BY <1>1
<1>3. \A i \in 1..n : /\ i \in differing <=> ~ (IsParam(s, i) <=> IsParam(r, i))
                      /\ Class(s, i) > Class(r, i) <=> ~ IsParam(s, i) /\ IsParam(r, i)
  BY <1>0, <1>1
<1>4. Better(s, r, path, 1) <=>
        \E j \in 1..n : /\ ~ IsParam(s, j) /\ IsParam(r, j)
                        /\ \A k \in 1..(j - 1) : IsParam(s, k) <=> IsParam(r, k)
  BY DEF Better
<1>5. CASE differing = {}
  <2>1. ~ Better(s, r, path, 1)
    BY <1>3, <1>4, <1>5
  <2>2. Len(s.path) = n /\ Len(r.path) = n
    BY <1>1
  <2>3. ~ (Len(s.path) > Len(r.path))
    BY <2>2
  <2>. HIDE DEF differing, least, Class
  <2>. QED
    BY <1>2, <1>5, <2>1, <2>3
<1>6. CASE differing # {}
  <2>1. least \in differing /\ \A j \in differing : least <= j
    <3>1. \E i \in differing : \A j \in differing : i <= j
      <4>1. differing \in SUBSET (1..n)
        BY <1>0
      <4>. HIDE DEF differing
      <4>. QED
        BY <1>6, <4>1, LeastElement
    <3>. HIDE DEF differing
    <3>. QED
      BY <3>1
  <2>2. least \in 1..n
    BY <1>0, <2>1
  <2>. HIDE DEF least
  <2>3. \A k \in 1..(least - 1) : IsParam(s, k) <=> IsParam(r, k)
    BY <1>3, <2>1, <2>2
  <2>4. ASSUME NEW j \in 1..n, ~ IsParam(s, j), IsParam(r, j),
               \A k \in 1..(j - 1) : IsParam(s, k) <=> IsParam(r, k)
        PROVE  j = least
    <3>1. least <= j
      BY <1>3, <2>1, <2>4
    <3>2. ~ (least \in 1..(j - 1))
      BY <1>3, <2>1, <2>2, <2>4
    <3>. QED
      BY <2>2, <3>1, <3>2
  <2>5. Better(s, r, path, 1) <=> ~ IsParam(s, least) /\ IsParam(r, least)
    <3>. HIDE DEF differing, Class
    <3>. QED
      BY <1>4, <2>2, <2>3, <2>4
  <2>. HIDE DEF differing, Class
  <2>. QED
    BY <1>2, <1>3, <1>6, <2>2, <2>5
<1>. QED
  BY <1>5, <1>6

\* What the resolver classifies is what gin's dispatch prefers.
LEMMA ClassifiedIsBest ==
  ASSUME NEW path, Len(path) \in Nat, NEW method
  PROVE  G!Classified(method, path) = Best(path, Matching(method, path), 1)
<1>. DEFINE M == Matching(method, path)
<1>1. Reach(path, M, 1) = M
  <2>1. ASSUME NEW r \in M
        PROVE  Len(r.path) = Len(path) /\ \A j \in 1..Len(path) : G!SegmentMatches(r.path[j], path[j])
    BY RegistryIs DEF Matching, G!MatchPattern, IsRoute, IsPath
  <2>. HIDE DEF M
  <2>. QED
    BY <2>1 DEF Reach
<1>2. G!Classified(method, path) = {r \in M : \A s \in M : ~ G!MoreSpecific(s.path, r.path)}
  BY Zenon DEF G!Classified, Matching
<1>3. \A r, s \in M : G!MoreSpecific(s.path, r.path) <=> Better(s, r, path, 1)
  BY MoreSpecificIsBetter
<1>4. {r \in M : \A s \in M : ~ G!MoreSpecific(s.path, r.path)} = {r \in M : \A s \in M : ~ Better(s, r, path, 1)}
  BY <1>3
<1>. QED
  BY <1>1, <1>2, <1>4 DEF Best

\* The resolver never hesitates between two routes.
LEMMA ClassifiedIsOne ==
  ASSUME NEW path, Len(path) \in Nat, NEW method,
         NEW r \in G!Classified(method, path), NEW s \in G!Classified(method, path)
  PROVE  r = s
<1>. DEFINE n == Len(path)
            Differ(i) == ~ (IsParam(s, i) <=> IsParam(r, i))
<1>1. /\ r \in Matching(method, path) /\ s \in Matching(method, path)
      /\ ~ Better(s, r, path, 1) /\ ~ Better(r, s, path, 1)
  BY ClassifiedIsBest DEF Best, Reach
<1>2. \A i \in 1..n : ~ Differ(i)
  <2>. DEFINE differing == {i \in 1..n : Differ(i)}
  <2>1. ASSUME differing # {} PROVE FALSE
    <3>1. PICK i \in differing : \A j \in differing : i <= j
      <4>1. differing \in SUBSET (1..n)
        OBVIOUS
      <4>. HIDE DEF differing
      <4>. QED
        BY <2>1, <4>1, LeastElement
    <3>2. i \in 1..n /\ Differ(i) /\ \A k \in 1..(i - 1) : ~ Differ(k)
      BY <3>1
    <3>. QED
      BY <1>1, <3>2 DEF Better
  <2>. QED
    BY <2>1
<1>3. ASSUME NEW t \in Matching(method, path)
      PROVE  /\ t \in G!Registry /\ t.method = method /\ Len(t.path) = n
             /\ \A i \in 1..n : IsParam(t, i) \/ t.path[i] = path[i]
  <2>1. t \in G!Registry /\ t.method = method /\ G!MatchPattern(t.path, path)
    BY DEF Matching
  <2>2. Len(t.path) = n /\ \A i \in DOMAIN t.path : G!SegmentMatches(t.path[i], path[i])
    BY <2>1, Zenon DEF G!MatchPattern
  <2>3. DOMAIN t.path = 1..n
    BY <2>1, <2>2, RegistryIs DEF IsRoute, IsPath
  <2>. QED
    BY <2>1, <2>2, <2>3 DEF G!SegmentMatches, IsParam
<1>4. Alike(r.path, s.path)
  BY <1>1, <1>2, <1>3 DEF Alike, IsParam
<1>. QED
  BY <1>1, <1>3, <1>4, RoutesDiffer

\* gin dispatches to what the resolver classified, in the service it is proxied to.
LEMMA DispatchedIsClassified ==
  ASSUME NEW path \in Seq(STRING), NEW method
  PROVE  G!Dispatch(G!ProxiedTo(path), method, path) = G!Classified(method, path)
<1>. DEFINE service == G!ProxiedTo(path)
            bound == {r \in G!BindRoutes(service, {}) : r.method = method}
            M == Matching(method, path)
<1>1. Len(path) \in Nat
  BY LenProperties
<1>2. bound = {r \in G!Registry : r.service = service /\ r.method = method}
  BY DEF G!BindRoutes, G!RoutesFor
<1>3. \A r \in G!Registry : (Len(r.path) = Len(path) /\ \A j \in 1..Len(path) : G!SegmentMatches(r.path[j], path[j]))
                            <=> G!MatchPattern(r.path, path)
  <2>. TAKE r \in G!Registry
  <2>1. DOMAIN r.path = 1..Len(r.path)
    BY RegistryIs DEF IsRoute, IsPath
  <2>. QED
    BY <2>1 DEF G!MatchPattern
<1>4. \A r \in M : r.service = service
  BY ProxiedToItsService DEF Matching
<1>5. Reach(path, bound, 1) = M
  <2>1. Reach(path, bound, 1) = {r \in bound : G!MatchPattern(r.path, path)}
    BY <1>2, <1>3 DEF Reach
  <2>. HIDE DEF bound, service
  <2>. QED
    BY <1>2, <1>4, <2>1 DEF Matching
<1>6. Reach(path, M, 1) = M
  BY <1>3 DEF Reach, Matching
<1>7. Best(path, bound, 1) = Best(path, M, 1)
  BY <1>5, <1>6 DEF Best
<1>8. G!Dispatch(service, method, path) = Best(path, bound, 1)
  BY <1>1, DispatchIsBest
<1>. QED
  BY <1>1, <1>7, <1>8, ClassifiedIsBest
-----------------------------------------------------------------------------
(* What the gateway answers.                                               *)

\* The route of a request decides its level, and the service it is proxied to has it.
LEMMA ResolvedAsClassified ==
  ASSUME NEW path \in Seq(STRING), NEW method
  PROVE  /\ \A r \in G!Classified(method, path) :
              /\ r.access \in {"Public", "Authenticated", "Personal", "Admin"}
              /\ G!GatewayResolve(method, path) = r.access
              /\ G!ProxiedTo(path) = r.service /\ r.service # ""
              /\ path \notin G!GatewayPaths
         /\ G!Classified(method, path) = {} /\ path \notin G!GatewayPaths => G!GatewayResolve(method, path) = "Deny"
         /\ path \in G!GatewayPaths => G!ProxiedTo(path) = "" /\ G!GatewayResolve(method, path) = "Public"
<1>. DEFINE best == G!Classified(method, path)
<1>1. ASSUME NEW r \in best
      PROVE  /\ r \in G!Registry /\ G!MatchPattern(r.path, path) /\ IsRoute(r)
             /\ r.access \in {"Public", "Authenticated", "Personal", "Admin"} /\ r.service # ""
  <2>1. r \in Matching(method, path)
    BY LenProperties, ClassifiedIsBest DEF Best, Reach
  <2>. QED
    BY <2>1, RegistryIs DEF Matching, IsRoute
<1>2. \A p \in G!GatewayPaths : Len(p) = 1
  BY DEF G!GatewayPaths
<1>3. \A r \in best : Len(path) >= 2 /\ path \notin G!GatewayPaths
  <2>. TAKE r \in best
  <2>1. Len(path) >= 2
    <3>1. Len(r.path) = Len(path)
      BY <1>1, Zenon DEF G!MatchPattern
    <3>2. IsPath(r.path)
      BY <1>1 DEF IsRoute
    <3>. QED
      BY <3>1, <3>2 DEF IsPath
  <2>3. ASSUME path \in G!GatewayPaths PROVE FALSE
    <3>1. Len(path) = 1
      BY <1>2, <2>3, Zenon
    <3>. QED
      BY <2>1, <3>1
  <2>. QED
    BY <2>1, <2>3
<1>4. G!Resolve(method, path) = IF best = {} THEN "Deny" ELSE (CHOOSE r \in best : TRUE).access
  BY Zenon DEF G!Resolve
<1>5. \A r \in best : G!Resolve(method, path) = r.access
  <2>. TAKE r \in best
  <2>1. (CHOOSE s \in best : TRUE) \in best
    OBVIOUS
  <2>2. (CHOOSE s \in best : TRUE) = r
    BY <2>1, LenProperties, ClassifiedIsOne
  <2>. HIDE DEF best
  <2>. QED
    BY <1>4, <2>2
<1>6. \A r \in best : G!ProxiedTo(path) = r.service
  BY <1>1, ProxiedToItsService
<1>7. path \in G!GatewayPaths => G!ProxiedTo(path) = ""
  <2>1. path \in G!GatewayPaths => Len(path) < 2
    BY <1>2
  <2>2. Len(path) < 2 => G!ProxiedTo(path) = ""
    BY ProxiedToItsService
  <2>. QED
    BY <2>1, <2>2
<1>8. G!GatewayResolve(method, path) = IF path \in G!GatewayPaths THEN "Public" ELSE G!Resolve(method, path)
  BY Zenon DEF G!GatewayResolve
<1>. HIDE DEF best
<1>9. QED
  BY <1>1, <1>3, <1>4, <1>5, <1>6, <1>7, <1>8 DEF best

\* Whether a level lets a request through.
MayUse(request, validated, level) ==
  \/ level = "Public"
  \/ request.cookie /\ validated.ok /\ G!Role(validated.identity, level)

\* AccessControl passes on what the level lets through.
LEMMA DecidedByLevel ==
  ASSUME NEW request, NEW validated, request.cookie \in BOOLEAN, validated.ok \in BOOLEAN,
         NEW level, level = G!GatewayResolve(request.method, request.path),
         level \in {"Public", "Authenticated", "Personal", "Admin", "Deny"},
         NEW decision, decision = G!AccessControl(request, validated)
  PROVE  /\ decision.status = 200 <=> MayUse(request, validated, level)
         /\ decision.status = 200 =>
              decision.identity = IF level = "Public" THEN G!NoIdentity ELSE validated.identity
         /\ decision.status = 200 /\ level # "Public" => validated.ok
         /\ validated.error = "timeout" /\ request.cookie => decision.status # 401
<1>. DEFINE error == G!ValidationError(validated.error)
            role == G!Role(validated.identity, level)
<1>1. error = IF validated.error = "timeout" THEN 503 ELSE 401
  BY Zenon DEF G!ValidationError
<1>2. MayUse(request, validated, level) <=> level = "Public" \/ (request.cookie /\ validated.ok /\ role)
  BY Zenon DEF MayUse
<1>3. level = "Deny" => ~ role
  BY DEF G!Role
<1>4. decision =
        CASE level = "Public" -> [status |-> 200, identity |-> G!NoIdentity]
          [] level = "Deny" -> [status |-> 403, identity |-> G!NoIdentity]
          [] level \notin {"Public", "Deny"} /\ ~ request.cookie -> [status |-> 401, identity |-> G!NoIdentity]
          [] level \notin {"Public", "Deny"} /\ request.cookie /\ ~ validated.ok ->
               [status |-> error, identity |-> G!NoIdentity]
          [] OTHER -> IF role THEN [status |-> 200, identity |-> validated.identity]
                      ELSE [status |-> 403, identity |-> G!NoIdentity]
  BY Zenon DEF G!AccessControl, G!Refusal, G!StripIdentityHeaders
<1>. HIDE DEF error, role
<1>5. CASE level = "Public"
  <2>1. decision = [status |-> 200, identity |-> G!NoIdentity]
    BY <1>4, <1>5
  <2>. QED
    BY <1>2, <1>5, <2>1
<1>6. CASE level = "Deny"
  <2>1. decision = [status |-> 403, identity |-> G!NoIdentity]
    BY <1>4, <1>6
  <2>. QED
    BY <1>2, <1>3, <1>6, <2>1
<1>7. CASE level \notin {"Public", "Deny"} /\ ~ request.cookie
  <2>1. decision = [status |-> 401, identity |-> G!NoIdentity]
    BY <1>4, <1>7
  <2>. QED
    BY <1>2, <1>7, <2>1
<1>8. CASE level \notin {"Public", "Deny"} /\ request.cookie /\ ~ validated.ok
  <2>1. decision = [status |-> error, identity |-> G!NoIdentity]
    BY <1>4, <1>8
  <2>. QED
    BY <1>1, <1>2, <1>8, <2>1
<1>9. CASE level \notin {"Public", "Deny"} /\ request.cookie /\ validated.ok
  <2>1. decision = IF role THEN [status |-> 200, identity |-> validated.identity]
                   ELSE [status |-> 403, identity |-> G!NoIdentity]
    BY <1>4, <1>9
  <2>. QED
    BY <1>2, <1>9, <2>1
<1>. QED
  BY <1>5, <1>6, <1>7, <1>8, <1>9

\* The service of a request that no service answers; the SMT backend takes no "".
Nowhere == ""

\* What a request is answered, by the level it is resolved to.
LEMMA AnsweredByLevel ==
  ASSUME NEW request, NEW validated, NEW up, request.cookie \in BOOLEAN, validated.ok \in BOOLEAN,
         NEW level, level = G!GatewayResolve(request.method, request.path),
         level \in {"Public", "Authenticated", "Personal", "Admin", "Deny"},
         NEW service, service = G!ProxiedTo(request.path),
         request.path \in G!GatewayPaths => service \notin up,
         NEW answer, answer = G!Handle(request, validated, up)
  PROVE  /\ answer.service # Nowhere =>
              MayUse(request, validated, level) /\ service \in up /\ answer.service = service
         /\ MayUse(request, validated, level) /\ service \in up => answer.service = service
         /\ answer.identity # G!NoIdentity => validated.ok /\ answer.identity = validated.identity
         /\ level = "Public" => answer.identity = G!NoIdentity
         /\ validated.error = "timeout" /\ request.cookie => answer.status # 401
<1>. DEFINE decision == G!AccessControl(request, validated)
            own == request.path \in G!GatewayPaths /\ request.method = "GET"
            ready == IF request.path = <<"readyz">> THEN G!Readyz(up) ELSE 200
<1>1. /\ decision.status = 200 <=> MayUse(request, validated, level)
      /\ decision.status = 200 =>
           decision.identity = IF level = "Public" THEN G!NoIdentity ELSE validated.identity
      /\ decision.status = 200 /\ level # "Public" => validated.ok
      /\ validated.error = "timeout" /\ request.cookie => decision.status # 401
  <2>. HIDE DEF decision, ready, own
  <2>1. decision = G!AccessControl(request, validated)
    BY DEF decision
  <2>. QED
    BY <2>1, DecidedByLevel
<1>2. answer =
        CASE decision.status # 200 -> [status |-> decision.status, service |-> Nowhere, identity |-> G!NoIdentity]
          [] decision.status = 200 /\ own -> [status |-> ready, service |-> Nowhere, identity |-> G!NoIdentity]
          [] decision.status = 200 /\ service \in up ->
               [status |-> 200, service |-> service, identity |-> decision.identity]
          [] OTHER -> [status |-> IF service = Nowhere THEN 404 ELSE 502, service |-> Nowhere, identity |-> G!NoIdentity]
  BY ZenonT(60) DEF G!Handle, Nowhere
<1>3. ready # 401
  <2>1. ready = 200 \/ ready = 503
    BY DEF G!Readyz
  <2>. HIDE DEF ready
  <2>. QED
    BY <2>1
<1>4. own => service \notin up
  BY DEF own
<1>. HIDE DEF decision, own, ready
<1>5. CASE decision.status # 200
  <2>1. answer = [status |-> decision.status, service |-> Nowhere, identity |-> G!NoIdentity]
    BY <1>2, <1>5
  <2>. QED
    BY <1>1, <1>5, <2>1
<1>6. CASE decision.status = 200 /\ own
  <2>1. answer = [status |-> ready, service |-> Nowhere, identity |-> G!NoIdentity]
    BY <1>2, <1>4, <1>6
  <2>. QED
    BY <1>1, <1>3, <1>4, <1>6, <2>1
<1>7. CASE decision.status = 200 /\ ~ own /\ service \in up
  <2>1. answer = [status |-> 200, service |-> service, identity |-> decision.identity]
    BY <1>2, <1>7
  <2>. QED
    BY <1>1, <1>7, <2>1
<1>8. CASE decision.status = 200 /\ ~ own /\ service \notin up
  <2>1. answer = [status |-> IF service = Nowhere THEN 404 ELSE 502, service |-> Nowhere, identity |-> G!NoIdentity]
    BY <1>2, <1>8
  <2>. QED
    BY <1>1, <1>8, <2>1
<1>. QED
  BY <1>5, <1>6, <1>7, <1>8

\* A request of a level that lets no one through, or to no service, reaches none.
LEMMA NoWayAround ==
  /\ \A identity : ~ G!Role(identity, "Deny")
  /\ Nowhere \notin G!Services
<1>1. \A identity : ~ G!Role(identity, "Deny")
  BY DEF G!Role
<1>2. \A s \in G!Services : s \in {"auth", "expense", "finance", "datarights"}
  BY DEF G!Services, G!ProxyPrefixes
<1>3. Nowhere \notin {"auth", "expense", "finance", "datarights"}
  BY Zenon DEF Nowhere
<1>. QED
  BY <1>1, <1>2, <1>3, Zenon

\* Every request.
LEMMA EveryRequestIsGuarded ==
  ASSUME NEW request, NEW validated, NEW up, request.path \in Seq(STRING),
         request.cookie \in BOOLEAN, validated.ok \in BOOLEAN, up \subseteq G!Services
  PROVE  G!RoutesAreGuarded(request, validated, up)
<1>. DEFINE service == G!ProxiedTo(request.path)
            best == G!Classified(request.method, request.path)
            routes == IF service = Nowhere THEN {} ELSE G!Dispatch(service, request.method, request.path)
            level == G!GatewayResolve(request.method, request.path)
            answer == G!Handle(request, validated, up)
            May(r) == \/ r.access = "Public"
                      \/ request.cookie /\ validated.ok /\ G!Role(validated.identity, r.access)
<1>1. /\ \A r \in best : /\ r.access \in {"Public", "Authenticated", "Personal", "Admin"}
                         /\ level = r.access /\ service = r.service /\ service # Nowhere
      /\ best = {} /\ request.path \notin G!GatewayPaths => level = "Deny"
      /\ request.path \in G!GatewayPaths => service = Nowhere /\ level = "Public"
  BY ResolvedAsClassified, Zenon DEF Nowhere
<1>2. service # Nowhere => routes = best
  BY DispatchedIsClassified, Zenon
<1>3. \A r, s \in best : r = s
  BY LenProperties, ClassifiedIsOne
<1>4. Nowhere \notin up /\ \A identity : ~ G!Role(identity, "Deny")
  BY NoWayAround
<1>5. level \in {"Public", "Authenticated", "Personal", "Admin", "Deny"}
  <2>. HIDE DEF level, best, service
  <2>. QED
    BY <1>1
<1>6. /\ answer.service # Nowhere =>
           MayUse(request, validated, level) /\ service \in up /\ answer.service = service
      /\ MayUse(request, validated, level) /\ service \in up => answer.service = service
      /\ answer.identity # G!NoIdentity => validated.ok /\ answer.identity = validated.identity
      /\ level = "Public" => answer.identity = G!NoIdentity
      /\ validated.error = "timeout" /\ request.cookie => answer.status # 401
  <2>1. request.path \in G!GatewayPaths => service \notin up
    BY <1>1, <1>4, Zenon
  <2>. QED
    BY <1>5, <2>1, AnsweredByLevel
<1>7. \A r \in best : MayUse(request, validated, level) <=> May(r)
  BY <1>1, Zenon DEF MayUse
<1>8. MayUse(request, validated, "Deny") = FALSE
  BY <1>4, Zenon DEF MayUse
<1>. HIDE DEF service, best, level, answer, May
<1>9. service = Nowhere => best = {}
  BY <1>1, Zenon
<1>10. routes = best
  BY <1>2, <1>9, Zenon
<1>. HIDE DEF routes
<1>11. Cardinality(best) <= 1
  <2>1. CASE best = {}
    BY <2>1, FS_EmptySet
  <2>2. CASE best # {}
    <3>1. PICK r : r \in best
      BY <2>2
    <3>2. best = {r}
      BY <1>3, <3>1
    <3>3. Cardinality({r}) = 1
      BY FS_Singleton, Zenon
    <3>. QED
      BY <3>2, <3>3
  <2>. QED
    BY <2>1, <2>2
<1>12. answer.service # Nowhere => best # {}
  <2>. SUFFICES ASSUME answer.service # Nowhere, best = {} PROVE FALSE
    OBVIOUS
  <2>1. service # Nowhere
    BY <1>4, <1>6, Zenon
  <2>2. level = "Deny"
    BY <1>1, <2>1, Zenon
  <2>. QED
    BY <1>6, <1>8, <2>2, Zenon
<1>13. /\ Cardinality(routes) <= 1 /\ routes \subseteq best /\ Cardinality(best) <= 1
       /\ answer.service # Nowhere => \A r \in routes : May(r) /\ r.service = answer.service
       /\ answer.service # Nowhere => routes # {}
       /\ answer.identity # G!NoIdentity => validated.ok /\ answer.identity = validated.identity
       /\ \A r \in routes : May(r) /\ service \in up => answer.service = service
       /\ \A r \in routes : r.access = "Public" => answer.identity = G!NoIdentity
       /\ validated.error = "timeout" => answer.status # 401 \/ ~ request.cookie
  BY <1>1, <1>6, <1>7, <1>10, <1>11, <1>12
<1>. QED
  BY <1>13, Zenon DEF G!RoutesAreGuarded, service, best, routes, level, answer, May, Nowhere, G!Cardinality, Cardinality

\* AccessControl, Resolve, gin's dispatch: a request reaches a handler only if its caller
\* may use the route that gin dispatches it to, the one the resolver classified, and
\* whoever may use a route reaches it, for any path, identity and reachable services.
THEOREM RequestsAreGuarded == Spec => []RoutesAreGuarded
<1>1. SampleInv => RoutesAreGuarded
  <2>. SUFFICES ASSUME sample \in RequestInputs
                PROVE  G!RoutesAreGuarded(sample.request, sample.validated, sample.up)
    BY DEF SampleInv, RoutesAreGuarded
  <2>1. /\ sample.request.path \in Seq(STRING) /\ sample.request.cookie \in BOOLEAN
        /\ sample.validated.ok \in BOOLEAN /\ sample.up \subseteq G!Services
    BY RequestsAssumption, Zenon
  <2>. QED
    BY <2>1, EveryRequestIsGuarded
<1>. QED
  BY <1>1, SampleInvInit, SampleInvNext, PTL DEF Spec
=============================================================================

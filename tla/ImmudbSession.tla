--------------------------- MODULE ImmudbSession ---------------------------
(***************************************************************************)
(* The expense service's session with immudb: every statement of every     *)
(* request goes through one client, which reconnects when the server has   *)
(* dropped its session.  The heartbeat of a session reconnects too.        *)
(*                                                                         *)
(* The mutex guards client and generation; the statements themselves run   *)
(* without it.  A session is a number, in the order of the openings, and   *)
(* names the client object that opened it.                                 *)
(*                                                                         *)
(* CloseSession disconnects a client object for good: the SDK (external)   *)
(* then refuses its calls with "not connected", which is none of the texts *)
(* that isSessionError knows.                                              *)
(***************************************************************************)
EXTENDS Naturals

CONSTANTS Statements,
          MaxSessions,   \* bound: sessions that are opened
          MaxLosses,     \* bound: sessions the server drops
          MaxFailures    \* bound: other errors, and openings that fail

VARIABLES alive,       \* the sessions immudb knows
          closed,      \* the clients that were closed
          opened,      \* how many were opened
          client, generation,
          holder,      \* who holds mu: 0, a session's heartbeat, a statement
          beat,        \* heartbeat of each session
          pc, seen,    \* each statement, and the client and generation it uses
          losses, failures,
          hasty        \* history: a heartbeat closed a session immudb knew

vars == <<alive, closed, opened, client, generation, holder, beat, pc, seen, losses, failures, hasty>>

Sessions == 1..MaxSessions

\* newImmudbClientImpl has opened the first session.
Init ==
  /\ alive = {1} /\ closed = {} /\ opened = 1
  /\ client = 1 /\ generation = 0
  /\ holder = 0
  /\ beat = [s \in Sessions |-> IF s = 1 THEN "beating" ELSE "none"]
  /\ pc = [q \in Statements |-> "idle"]
  /\ seen = [q \in Statements |-> [client |-> 1, generation |-> 0]]
  /\ losses = 0 /\ failures = 0 /\ hasty = FALSE
-----------------------------------------------------------------------------
(* reconnectLocked, between Lock and Unlock.                               *)

Fault == failures < MaxFailures /\ failures' = failures + 1

\* CloseSession of the current client, which stops its heartbeat.
Close ==
  /\ alive' = alive \ {client}
  /\ closed' = closed \cup {client}
  /\ beat' = [s \in Sessions |->
                IF s = client /\ beat[s] = "beating" THEN "none" ELSE beat[s]]

\* openSession: the new session replaces the client.
Open ==
  /\ opened < MaxSessions /\ opened' = opened + 1
  /\ alive' = alive \cup {opened'}
  /\ client' = opened' /\ generation' = generation + 1
  /\ holder' = 0
  /\ UNCHANGED <<closed, failures>>

\* The closed client stays in place, under the same generation.
OpenFails ==
  /\ Fault
  /\ holder' = 0
  /\ UNCHANGED <<alive, closed, opened, client, generation>>
-----------------------------------------------------------------------------
(* SQLExec and SQLQuery.                                                   *)

\* The client and its generation are read under the lock.  Who has ended begins anew.
Begin(q) ==
  /\ pc[q] \in {"idle", "ok", "error", "refused"} /\ holder = 0
  /\ seen' = [seen EXCEPT ![q] = [client |-> client, generation |-> generation]]
  /\ pc' = [pc EXCEPT ![q] = "call"]
  /\ UNCHANGED <<alive, closed, opened, client, generation, holder, beat, losses, failures, hasty>>

\* A dead session is found by isSessionError, a closed client is not.
Outcome(c) == CASE c \in closed -> "refused"
                [] c \in alive -> "ok"
                [] OTHER -> "lock"

Call(q) ==
  /\ pc[q] = "call"
  /\ pc' = [pc EXCEPT ![q] = Outcome(seen[q].client)]
  /\ UNCHANGED <<alive, closed, opened, client, generation, holder, beat, seen, losses, failures, hasty>>

\* An error that is no session error is returned as it is.
CallFails(q) ==
  /\ pc[q] \in {"call", "retry"} /\ Fault
  /\ pc' = [pc EXCEPT ![q] = "error"]
  /\ UNCHANGED <<alive, closed, opened, client, generation, holder, beat, seen, losses, hasty>>

\* Mutated reconnectLocked: the generation is not compared.
AlreadyReconnectedNever(q) == FALSE

AlreadyReconnected(q) == generation # seen[q].generation

\* The client that a statement is retried with.
Retry(q) ==
  /\ seen' = [seen EXCEPT ![q].client = client']
  /\ pc' = [pc EXCEPT ![q] = "retry"]

SkipReconnect(q) ==
  /\ pc[q] = "lock" /\ holder = 0 /\ AlreadyReconnected(q)
  /\ UNCHANGED client
  /\ Retry(q)
  /\ UNCHANGED <<alive, closed, opened, generation, holder, beat, losses, failures, hasty>>

StartReconnect(q) ==
  /\ pc[q] = "lock" /\ holder = 0 /\ ~ AlreadyReconnected(q)
  /\ Close
  /\ holder' = q
  /\ UNCHANGED <<opened, client, generation, pc, seen, losses, failures, hasty>>

FinishReconnect(q) ==
  /\ holder = q
  /\ \/ Open /\ Retry(q) /\ beat' = [beat EXCEPT ![opened'] = "beating"]
     \/ OpenFails /\ pc' = [pc EXCEPT ![q] = "error"] /\ UNCHANGED <<seen, beat>>
  /\ UNCHANGED <<losses, hasty>>

\* The retry's error is final, whatever it is.
CallAgain(q) ==
  /\ pc[q] = "retry"
  /\ pc' = [pc EXCEPT ![q] = IF seen[q].client \in alive THEN "ok" ELSE "error"]
  /\ UNCHANGED <<alive, closed, opened, client, generation, holder, beat, seen, losses, failures, hasty>>
-----------------------------------------------------------------------------
(* The heartbeat's error handler.                                          *)

\* A keep-alive finds that immudb does not know the session.
Miss(s) ==
  /\ beat[s] = "beating" /\ s \notin alive
  /\ beat' = [beat EXCEPT ![s] = "lock"]
  /\ UNCHANGED <<alive, closed, opened, client, generation, holder, pc, seen, losses, failures, hasty>>

\* It passes the generation of this moment: the comparison never fails.
StartProactive(s) ==
  /\ beat[s] = "lock" /\ holder = 0
  /\ hasty' = (hasty \/ client \in alive)
  /\ alive' = alive \ {client} /\ closed' = closed \cup {client}
  /\ beat' = [t \in Sessions |-> CASE t = s -> "reconnecting"
                                   [] t = client /\ t # s /\ beat[t] = "beating" -> "none"
                                   [] OTHER -> beat[t]]
  /\ holder' = s
  /\ UNCHANGED <<opened, client, generation, pc, seen, losses, failures>>

FinishProactive(s) ==
  /\ holder = s /\ beat[s] = "reconnecting"
  /\ \/ Open /\ beat' = [beat EXCEPT ![opened'] = "beating", ![s] = "none"]
     \/ OpenFails /\ beat' = [beat EXCEPT ![s] = "none"]
  /\ UNCHANGED <<pc, seen, losses, hasty>>

\* immudb restarts or lets the session expire.
LoseSession ==
  /\ client \in alive /\ losses < MaxLosses
  /\ losses' = losses + 1
  /\ alive' = alive \ {client}
  /\ UNCHANGED <<closed, opened, client, generation, holder, beat, pc, seen, failures, hasty>>

Next ==
  \/ \E q \in Statements :
       \/ Begin(q) \/ Call(q) \/ CallFails(q) \/ SkipReconnect(q) \/ StartReconnect(q)
       \/ FinishReconnect(q) \/ CallAgain(q)
  \/ \E s \in Sessions : Miss(s) \/ StartProactive(s) \/ FinishProactive(s)
  \/ LoseSession

Spec == Init /\ [][Next]_vars
-----------------------------------------------------------------------------
(* Properties.                                                             *)

\* SQLExec, SQLQuery, reconnectLocked: while one session is lost and nothing else
\* fails, a statement that finds the loss succeeds, however many find it at once,
\* and so does one that takes the new client.  Only a statement that had the old
\* client in hand when another closed it is refused; more fails only when immudb or
\* an opening failed, when another session was lost, or after a heartbeat that
\* closed a session too many.
FoundLossFailsNoStatement ==
  ~ (failures > 0 \/ losses > 1 \/ hasty) =>
    \A q \in Statements :
      /\ pc[q] # "error"
      /\ pc[q] = "refused" => losses = 1 /\ seen[q].generation = 0
=============================================================================

------------------------------ MODULE RateCache ------------------------------
(***************************************************************************)
(* The fx service: requests convert with the cached set of rates, and when *)
(* it is too old each fetches a new one from the provider, with retries.   *)
(*                                                                         *)
(* Time runs in ticks, TicksPerSecond of them in a second; the times in a  *)
(* snapshot are formatted to the second.  The provider's answer number n   *)
(* holds the rates Offers[n].                                              *)
(***************************************************************************)
EXTENDS Conversion, Sequences

CONSTANTS Requests,        \* the requests that are made, each once
          Inputs,          \* a request's [op, amount, source, target]
          Offers,          \* sets of rates the provider may answer with
          MaxAge,          \* in ticks
          RetryCount,
          TicksPerSecond,
          LastTick         \* bound

VARIABLES time,
          cached,    \* the snapshot of the RateCache
          rpc,       \* progress of each request
          input,     \* what each asks for
          looked,    \* each request's reading of the clock
          attempt,   \* each request's attempt to fetch
          fetched,   \* the snapshot each got from the provider or the cache
          result

fxVars == <<time, cached, rpc, input, looked, attempt, fetched, result>>

NoSnapshot == [offer |-> 0, captured |-> 0, expires |-> 0]
NoResult == [error |-> "none", amount |-> 0, from |-> "none", servedAt |-> 0]

\* RFC3339 drops the fraction of a second.
Formatted(tick) == (tick \div TicksPerSecond) * TicksPerSecond

Init ==
  /\ time = 0
  /\ cached = NoSnapshot
  /\ rpc = [r \in Requests |-> "idle"]
  /\ input = [r \in Requests |-> CHOOSE i \in Inputs : TRUE]
  /\ looked = [r \in Requests |-> 0]
  /\ attempt = [r \in Requests |-> 0]
  /\ fetched = [r \in Requests |-> NoSnapshot]
  /\ result = [r \in Requests |-> NoResult]
-----------------------------------------------------------------------------
Goto(r, point) == rpc' = [rpc EXCEPT ![r] = point]

Refuse(r, error) ==
  /\ Goto(r, "done")
  /\ result' = [result EXCEPT ![r].error = error]

\* convertFromRates, or toCapturedSnapshot with requireFullSupportedRates.
Answer(r, snapshot, from) ==
  LET i == input[r]
      rates == Offers[snapshot.offer]
      error == IF i.op = "capture"
               THEN IF \A c \in Currencies : HasRate(rates, c) THEN "none" ELSE "RATE_MISSING"
               ELSE RateError(rates, i.source, i.target)
  IN /\ Goto(r, "done")
     /\ fetched' = [fetched EXCEPT ![r] = snapshot]
     /\ result' = [result EXCEPT ![r] =
          [error |-> error, from |-> from, servedAt |-> time,
           amount |-> IF error = "none" /\ i.op = "convert"
                      THEN Converted(i.amount, i.source, i.target, rates) ELSE 0]]

GetFresh(now) ==
  cached # NoSnapshot /\ now - Formatted(cached.captured) < MaxAge

\* ConvertAmount or CaptureRateSnapshot.
Ask(r, i) ==
  /\ rpc[r] = "idle"
  /\ input' = [input EXCEPT ![r] = i]
  /\ LET error == IF i.op = "capture" THEN "none" ELSE Invalid(i.amount, i.source, i.target)
     IN CASE error # "none" -> Refuse(r, error)
          [] error = "none" /\ i.op = "convert" /\ i.source = i.target ->
               /\ Goto(r, "done")
               /\ result' = [result EXCEPT ![r].amount = i.amount, ![r].from = "identity"]
          [] OTHER -> Goto(r, "look") /\ UNCHANGED result
  /\ UNCHANGED <<time, cached, looked, attempt, fetched>>

\* providerSnapshot: the clock is read once, for the cache and for expiresAt.
Look(r) ==
  /\ rpc[r] = "look"
  /\ looked' = [looked EXCEPT ![r] = time]
  /\ IF GetFresh(time)
     THEN Answer(r, cached, "hit") /\ UNCHANGED attempt
     ELSE Goto(r, "fetch") /\ attempt' = [attempt EXCEPT ![r] = 0] /\ UNCHANGED <<fetched, result>>
  /\ UNCHANGED <<time, cached, input>>

\* fetchOnce succeeds: the snapshot is captured when the body has been read.
Fetch(r, n) ==
  /\ rpc[r] = "fetch"
  /\ fetched' = [fetched EXCEPT ![r] =
       [offer |-> n, captured |-> time, expires |-> Formatted(looked[r] + MaxAge)]]
  /\ Goto(r, "store")
  /\ UNCHANGED <<time, cached, input, looked, attempt, result>>

\* No answer, or a 5xx: another attempt, if one is left.
FetchFails(r) ==
  /\ rpc[r] = "fetch"
  /\ IF attempt[r] < RetryCount
     THEN attempt' = [attempt EXCEPT ![r] = @ + 1] /\ UNCHANGED <<rpc, result>>
     ELSE /\ Goto(r, "look again") /\ UNCHANGED attempt
          /\ result' = [result EXCEPT ![r].error = "CONVERSION_UNAVAILABLE"]
  /\ UNCHANGED <<time, cached, input, looked, fetched>>

\* A refused key or an answer that cannot be used is not tried again.
FetchRefused(r, error) ==
  /\ rpc[r] = "fetch"
  /\ Goto(r, "look again")
  /\ result' = [result EXCEPT ![r].error = error]
  /\ UNCHANGED <<time, cached, input, looked, attempt, fetched>>

Store(r) ==
  /\ rpc[r] = "store"
  /\ cached' = fetched[r]
  /\ Answer(r, fetched[r], "miss")
  /\ UNCHANGED <<time, input, looked, attempt>>

\* Mutated providerSnapshot: the clock is not read again.
SecondReadingOld(r) == looked[r]

SecondReading(r) == time

\* Another request may have stored rates meanwhile.
LookAgain(r) ==
  /\ rpc[r] = "look again"
  /\ IF GetFresh(SecondReading(r))
     THEN Answer(r, cached, "hit")
     ELSE Goto(r, "done") /\ UNCHANGED <<fetched, result>>
  /\ UNCHANGED <<time, cached, input, looked, attempt>>

Tick ==
  /\ time < LastTick /\ time' = time + 1
  /\ \E r \in Requests : rpc[r] # "done"
  /\ UNCHANGED <<cached, rpc, input, looked, attempt, fetched, result>>

Next ==
  \/ \E r \in Requests :
       \/ \E i \in Inputs : Ask(r, i)
       \/ Look(r) \/ FetchFails(r) \/ Store(r) \/ LookAgain(r)
       \/ \E n \in DOMAIN Offers : Fetch(r, n)
       \/ \E error \in {"PROVIDER_AUTH_FAILED", "PROVIDER_RESPONSE_INVALID"} : FetchRefused(r, error)
  \/ Tick

Spec == Init /\ [][Next]_fxVars
-----------------------------------------------------------------------------
(* Properties.                                                             *)

Served(r) == rpc[r] = "done" /\ result[r].from \in {"hit", "miss"}

\* GetFresh, providerSnapshot: whatever overlaps and however slow the provider is,
\* the cache serves no rates that were captured MaxAge ago, although the capture
\* time is rounded; a request that fetched has rates newer than itself; and no
\* answer names an expiry later than the cache would keep its rates.
RatesAreFresh ==
  \A r \in Requests : Served(r) =>
    /\ result[r].from = "hit" => result[r].servedAt - fetched[r].captured < MaxAge
    /\ result[r].from = "miss" => fetched[r].captured >= looked[r]
    /\ fetched[r].expires <= fetched[r].captured + MaxAge
=============================================================================

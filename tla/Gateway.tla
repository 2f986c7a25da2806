------------------------------ MODULE Gateway ------------------------------
(***************************************************************************)
(* The gateway: which service answers a request, for whom, and as whom.    *)
(*                                                                         *)
(* A path is the sequence of its segments, without the empty one before    *)
(* the first slash; a pattern is one too, and the registry's patterns have *)
(* the parameters in Params and no catch-all.                              *)
(***************************************************************************)
EXTENDS Naturals, Sequences, FiniteSets, SequencesExt

Params == {":id", ":groupId"}
CatchAll == "*path"
NoIdentity == [user |-> "none", role |-> "none", assumedBy |-> "none"]
-----------------------------------------------------------------------------
(* The registry: paths below /api, of one service, method and level.       *)

Routes(service, access, method, paths) ==
  {[service |-> service, access |-> access, method |-> method, path |-> <<"api">> \o p] : p \in paths}

AuthRoutes ==
  Routes("auth", "Public", "POST", {<<"auth", "register">>, <<"auth", "login">>, <<"auth", "refresh">>})
  \cup Routes("auth", "Authenticated", "POST",
              {<<"auth", "logout">>, <<"auth", "me", "password">>, <<"auth", "restore">>})
  \cup Routes("auth", "Authenticated", "GET", {<<"auth", "me">>})
  \cup Routes("auth", "Authenticated", "PUT", {<<"auth", "me">>})
  \cup Routes("auth", "Personal", "POST", {<<"auth", "onboarding-complete">>})
  \cup Routes("auth", "Admin", "POST", {<<"auth", "assume">>})
  \cup Routes("auth", "Admin", "GET", {<<"admin", "users">>})

FinanceRoutes ==
  Routes("finance", "Authenticated", "GET", {<<"finance", "currencies">>})
  \cup Routes("finance", "Personal", "GET",
         {<<"finance", s>> : s \in {"defaults", "periods", "tags", "summary", "health-score"}}
         \cup {<<"finance", "periods", "current">>, <<"finance", "prorata", "upcoming">>,
               <<"finance", "health-score", "trend">>}
         \cup {<<"finance", "spending", s>> : s \in {"by-tag", "cumulative", "comparison", "trends"}})
  \cup Routes("finance", "Personal", "POST",
         {<<"finance", s>> : s \in {"onboarding", "periods", "tags", "prorata"}})
  \cup Routes("finance", "Personal", "PUT",
         {<<"finance", "defaults">>, <<"finance", "periods", ":id">>, <<"finance", "tags", ":id">>})
  \cup Routes("finance", "Personal", "DELETE", {<<"finance", "tags", ":id">>})

ExpenseRoutes ==
  Routes("expense", "Personal", "GET",
    {<<"expenses">>, <<"expenses", "suggestions">>, <<"expenses", ":id">>,
     <<"expenses", "prorata", ":groupId">>, <<"expenses", ":id", "history">>})
  \cup Routes("expense", "Personal", "POST", {<<"expenses">>, <<"expenses", ":id", "correct">>})
  \cup Routes("expense", "Personal", "DELETE", {<<"expenses", ":id">>})

DatarightsRoutes ==
  Routes("datarights", "Personal", "GET",
    {<<"datarights", "exports">>, <<"datarights", "exports", ":id">>})
  \cup Routes("datarights", "Personal", "POST", {<<"datarights", "exports">>})
  \cup Routes("datarights", "Admin", "POST", {<<"datarights", "deletions">>})
  \cup Routes("datarights", "Admin", "GET", {<<"datarights", "deletions", ":id">>})

Registry == AuthRoutes \cup FinanceRoutes \cup ExpenseRoutes \cup DatarightsRoutes

RoutesFor(service) == {r \in Registry : r.service = service}

\* BindRoutes: a service handles its routes, or does not start.
BindRoutes(service, unbound) == IF unbound \cap RoutesFor(service) # {} THEN {} ELSE RoutesFor(service)

\* The prefix of a path decides which service it is proxied to.
ProxyPrefixes ==
  {[prefix |-> <<"api", "auth">>, service |-> "auth"], [prefix |-> <<"api", "admin">>, service |-> "auth"],
   [prefix |-> <<"api", "expenses">>, service |-> "expense"],
   [prefix |-> <<"api", "finance">>, service |-> "finance"],
   [prefix |-> <<"api", "datarights">>, service |-> "datarights"]}

\* "" when no prefix of the gateway's router matches.
ProxiedTo(path) ==
  LET matching == {p \in ProxyPrefixes : IsPrefix(p.prefix, path)}
  IN IF matching = {} THEN "" ELSE (CHOOSE p \in matching : TRUE).service

Services == {p.service : p \in ProxyPrefixes}

\* Every service is probed; up are those whose /health answers 200.
Readyz(up) == IF Services \subseteq up THEN 200 ELSE 503
-----------------------------------------------------------------------------
(* The gateway's resolver.                                                 *)

SegmentMatches(segment, part) == IF segment \in Params THEN part # "" ELSE segment = part

MatchPattern(pattern, path) ==
  /\ Len(pattern) = Len(path)
  /\ \A i \in DOMAIN pattern : SegmentMatches(pattern[i], path[i])

SegmentClass(segment) ==
  CASE segment = CatchAll -> 0 [] segment \in Params -> 1 [] OTHER -> 2

\* Mutated comparison: the last segment of different classes decides.
MoreSpecificFromTheRight(a, b) ==
  LET differing == {i \in DOMAIN a \cap DOMAIN b : SegmentClass(a[i]) # SegmentClass(b[i])}
      i == CHOOSE i \in differing : \A j \in differing : i >= j
  IN IF differing = {} THEN Len(a) > Len(b) ELSE SegmentClass(a[i]) > SegmentClass(b[i])

\* The first segment of different classes decides, then the length.
MoreSpecific(a, b) ==
  LET differing == {i \in DOMAIN a \cap DOMAIN b : SegmentClass(a[i]) # SegmentClass(b[i])}
      i == CHOOSE i \in differing : \A j \in differing : i <= j
  IN IF differing = {} THEN Len(a) > Len(b) ELSE SegmentClass(a[i]) > SegmentClass(b[i])

\* The routes that no other matching route is more specific than.
Classified(method, path) ==
  LET matching == {r \in Registry : r.method = method /\ MatchPattern(r.path, path)}
  IN {r \in matching : \A s \in matching : ~ MoreSpecific(s.path, r.path)}

\* An unclassified request is denied.
Resolve(method, path) ==
  LET best == Classified(method, path)
  IN IF best = {} THEN "Deny" ELSE (CHOOSE r \in best : TRUE).access

GatewayPaths == {<<"health">>, <<"metrics">>, <<"readyz">>}

GatewayResolve(method, path) == IF path \in GatewayPaths THEN "Public" ELSE Resolve(method, path)
-----------------------------------------------------------------------------
(* A request: method, path, whether it has a cookie, and the identity its  *)
(* client claims in headers.  validated is what auth says of the cookie:   *)
(* an identity, "refused" or "timeout".                                    *)

Role(identity, level) ==
  CASE level = "Personal" -> identity.role = "user"
    [] level = "Admin" -> identity.role = "admin"
    [] level = "Authenticated" -> TRUE
    [] OTHER -> FALSE

StripIdentityHeaders(claimed) == NoIdentity

Refusal(status) == [status |-> status, identity |-> NoIdentity]

\* isValidationTimeout: a hung auth service is not the client's fault.
ValidationError(outcome) == IF outcome = "timeout" THEN 503 ELSE 401

\* 200 stands for c.Next(), with the headers the service will see.
AccessControl(request, validated) ==
  LET level == GatewayResolve(request.method, request.path)
  IN CASE level = "Public" -> [status |-> 200, identity |-> StripIdentityHeaders(request.claimed)]
       [] level = "Deny" -> Refusal(403)
       [] level \notin {"Public", "Deny"} /\ ~ request.cookie -> Refusal(401)
       [] level \notin {"Public", "Deny"} /\ request.cookie /\ ~ validated.ok -> Refusal(ValidationError(validated.error))
       [] OTHER -> IF Role(validated.identity, level) THEN [status |-> 200, identity |-> validated.identity]
                   ELSE Refusal(403)

\* up are the services that can be reached.
Handle(request, validated, up) ==
  LET decision == AccessControl(request, validated)
      service == ProxiedTo(request.path)
  IN CASE decision.status # 200 -> [status |-> decision.status, service |-> "", identity |-> NoIdentity]
       [] decision.status = 200 /\ request.path \in GatewayPaths /\ request.method = "GET" ->
            [status |-> IF request.path = <<"readyz">> THEN Readyz(up) ELSE 200, service |-> "",
             identity |-> NoIdentity]
       [] decision.status = 200 /\ service \in up ->
            [status |-> 200, service |-> service, identity |-> decision.identity]
       [] OTHER -> [status |-> IF service = "" THEN 404 ELSE 502, service |-> "", identity |-> NoIdentity]

\* gin's router in a service: static segments first, parameters only where no
\* static way leads to a route.
Dispatch(service, method, path) ==
  LET bound == {r \in BindRoutes(service, {}) : r.method = method}
      Below[i \in 1..(Len(path) + 1)] ==
        [found \in SUBSET bound |->
           IF i > Len(path) THEN {r \in found : Len(r.path) = Len(path)}
           ELSE LET longer == {r \in found : Len(r.path) >= i}
                    static == Below[i + 1][{r \in longer : r.path[i] = path[i] /\ path[i] \notin Params}]
                IN IF static # {} THEN static
                   ELSE Below[i + 1][{r \in longer : r.path[i] \in Params /\ path[i] # ""}]]
  IN Below[1][bound]
-----------------------------------------------------------------------------
(* What holds of every request.                                            *)

\* AccessControl, Resolve, gin's dispatch: a request reaches a service's handler
\* only if the caller may use the very route that gin dispatches it to, which is
\* the one the resolver classified also where patterns overlap, and the handler is
\* told the identity that was validated, never one the client claims; whoever may use
\* a route is let through to the service that has it; and a hung auth service is not
\* reported as a bad token.
RoutesAreGuarded(request, validated, up) ==
  LET answer == Handle(request, validated, up)
      service == ProxiedTo(request.path)
      routes == IF service = "" THEN {} ELSE Dispatch(service, request.method, request.path)
      May(r) == \/ r.access = "Public"
                \/ request.cookie /\ validated.ok /\ Role(validated.identity, r.access)
  IN /\ Cardinality(routes) <= 1 /\ routes \subseteq Classified(request.method, request.path)
     /\ Cardinality(Classified(request.method, request.path)) <= 1
     /\ answer.service # "" => \A r \in routes : May(r) /\ r.service = answer.service
     /\ answer.service # "" => routes # {}
     /\ answer.identity # NoIdentity => validated.ok /\ answer.identity = validated.identity
     /\ \A r \in routes : May(r) /\ service \in up => answer.service = service
     /\ \A r \in routes : r.access = "Public" => answer.identity = NoIdentity
     /\ validated.error = "timeout" => answer.status # 401 \/ ~ request.cookie
=============================================================================

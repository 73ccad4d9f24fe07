------------------------------- MODULE Router -------------------------------
(***************************************************************************)
(* RouterService::call of src/service/router.rs and the routes of          *)
(* src/config/route.rs: which handler a request reaches, and what the      *)
(* actions of the routes make of its response.                             *)
(*                                                                         *)
(* A regular expression is the set of what it matches: the uri of a route  *)
(* a set of paths, and its response headers, for each name, a set of       *)
(* values. Only a value that to_str() can read is matched; a header may    *)
(* have others, and a match that meets one of those panics.                *)
(*                                                                         *)
(* The routes are shared and never change; requests follow one another,    *)
(* since a call keeps nothing that another one reads.                      *)
(***************************************************************************)
EXTENDS Naturals, Sequences

CONSTANTS
  Paths,                 \* request paths
  PhpPaths,              \* those that end with "/" or ".php"
  Headers, Values,       \* header names, header values
  Unreadable,            \* values with bytes from 0x80 on, which to_str() refuses
  Statuses,              \* status codes
  Default,               \* the response of Response::default()
  Replies,               \* what PHP and ServeDir may answer
  Tables                 \* the route tables considered

Maps == UNION {[D -> Values] : D \in SUBSET Headers}

Route == [uri : SUBSET Paths,
          need : UNION {[D -> SUBSET (Values \ Unreadable)] : D \in SUBSET Headers},
          serve : {"none", "php", "default", "static"},
          status : Statuses \union {"keep"},
          insert : Maps,
          append : Maps,
          remove : SUBSET Headers]

Response == [status : Statuses, headers : [Headers -> Seq(Values)]]

ASSUME RouterAssumption ==
  /\ PhpPaths \subseteq Paths
  /\ Unreadable \subseteq Values
  /\ "keep" \notin Statuses
  /\ Default \in Response
  /\ Replies \subseteq Response
  /\ Tables \subseteq Seq(Route)

VARIABLES
  routes,                \* Routes, from the configuration file
  at,                    \* where the call stands
  path,                  \* the path of its request
  served,                \* the route that serves it, 0 for None
  handler,               \* who answers: php, default, static, or files with php behind
  reply,                 \* what the handler answered
  response,              \* the response as it leaves the router
  next                   \* the next route whose actions may apply

vars == <<routes, at, path, served, handler, reply, response, next>>

Init ==
  /\ routes \in Tables
  /\ at = "idle"
  /\ path \in Paths
  /\ served = 0
  /\ handler = "none"
  /\ reply = Default
  /\ response = Default
  /\ next = 1

-----------------------------------------------------------------------------
(* Matching and acting (src/config/route.rs). *)

\* The routes that may serve a request for p.
Serving(p) == {i \in DOMAIN routes : routes[i].serve # "none" /\ p \in routes[i].uri}

ServedRoute(p) ==
  IF Serving(p) = {} THEN 0
  ELSE CHOOSE i \in Serving(p) : \A j \in Serving(p) : i <= j

\* The value that get(h) returns, if there is one.
First(resp, h) == {resp.headers[h][n] : n \in DOMAIN resp.headers[h] \intersect {1}}

\* Every header the route names is there, and its first value matches.
NeedMet(r, resp) == \A h \in DOMAIN r.need : First(resp, h) \intersect r.need[h] # {}

\* The uri of the route is not read.
MatchesResponse(r, resp) == r.serve = "none" /\ NeedMet(r, resp)

\* Mutant: the match does not ask whether the header is there.
UnreadOrMissing(resp, h) == First(resp, h) \subseteq Unreadable

\* get(h).unwrap().to_str().unwrap() panics.
Unread(resp, h) == First(resp, h) \intersect Unreadable # {}

\* Headers are matched in the random order of a HashMap, until one fails or panics.
MatchFails(r, resp) ==
  \/ r.serve # "none"
  \/ \E h \in DOMAIN r.need : First(resp, h) \intersect (r.need[h] \union Unreadable) = {}
MatchPanics(r, resp) == r.serve = "none" /\ \E h \in DOMAIN r.need : Unread(resp, h)

Inserted(r, values, h) == IF h \in DOMAIN r.insert THEN <<r.insert[h]>> ELSE values

\* Mutant: append keeps the first value of a header, as a map of single values does.
AppendOnce(r, values, h) ==
  IF h \in DOMAIN r.append THEN <<r.append[h]>> ELSE values

Appended(r, values, h) ==
  IF h \in DOMAIN r.append THEN Append(values, r.append[h]) ELSE values

\* Mutant: the headers are removed before they are inserted and appended.
RemoveFirst(r, headers) ==
  [h \in Headers |->
     Appended(r, Inserted(r, IF h \in r.remove THEN <<>> ELSE headers[h], h), h)]

\* insert, then append, then remove.
ActOnHeaders(r, headers) ==
  [h \in Headers |->
     IF h \in r.remove THEN <<>> ELSE Appended(r, Inserted(r, headers[h], h), h)]

ApplyActions(r, resp) ==
  [status |-> IF r.status = "keep" THEN resp.status ELSE r.status,
   headers |-> ActOnHeaders(r, resp.headers)]

-----------------------------------------------------------------------------
(* RouterService::call (src/service/router.rs:53-88). *)

Idle == at \in {"idle", "answered", "panicked"}

Handler(p) ==
  IF ServedRoute(p) # 0 THEN routes[ServedRoute(p)].serve
  ELSE IF p \in PhpPaths THEN "php" ELSE "files"

\* Mutant: serve() takes from the shared route, not from a clone.
CallTakes(p) ==
  /\ Idle
  /\ at' = "handling"
  /\ path' = p
  /\ served' = ServedRoute(p)
  /\ handler' = Handler(p)
  /\ routes' = IF ServedRoute(p) = 0 THEN routes
               ELSE [routes EXCEPT ![ServedRoute(p)].serve = "none"]
  /\ UNCHANGED <<reply, response, next>>

Call(p) ==
  /\ Idle
  /\ at' = "handling"
  /\ path' = p
  /\ served' = ServedRoute(p)
  /\ handler' = Handler(p)
  /\ UNCHANGED <<routes, reply, response, next>>

\* Response::default() or, from PHP and ServeDir, any reply.
MayReply(r) == IF handler = "default" THEN r = Default ELSE r \in Replies

\* Mutant: the actions of all routes apply to a response that a route served.
ReplyServedToAll(r) ==
  /\ at = "handling"
  /\ served # 0
  /\ MayReply(r)
  /\ reply' = r
  /\ response' = ApplyActions(routes[served], r)
  /\ at' = "applying"
  /\ next' = 1
  /\ UNCHANGED <<routes, path, served, handler>>

\* Only the actions of the route that served it apply, and they match nothing.
ReplyServed(r) ==
  /\ at = "handling"
  /\ served # 0
  /\ MayReply(r)
  /\ reply' = r
  /\ response' = ApplyActions(routes[served], r)
  /\ at' = "answered"
  /\ UNCHANGED <<routes, path, served, handler, next>>

Reply(r) ==
  /\ at = "handling"
  /\ served = 0
  /\ MayReply(r)
  /\ reply' = r
  /\ response' = r
  /\ at' = "applying"
  /\ next' = 1
  /\ UNCHANGED <<routes, path, served, handler>>

\* One turn of the loop of Routes::apply_actions: the match sees what earlier
\* routes have made of the response.
ApplyNext ==
  /\ at = "applying"
  /\ next <= Len(routes)
  /\ \/ MatchesResponse(routes[next], response) /\ response' = ApplyActions(routes[next], response)
     \/ MatchFails(routes[next], response) /\ UNCHANGED response
  /\ next' = next + 1
  /\ UNCHANGED <<routes, at, path, served, handler, reply>>

\* The panic ends the task of the connection: there is no answer.
Panic ==
  /\ at = "applying"
  /\ next <= Len(routes)
  /\ MatchPanics(routes[next], response)
  /\ at' = "panicked"
  /\ UNCHANGED <<routes, path, served, handler, reply, response, next>>

Answer ==
  /\ at = "applying"
  /\ next > Len(routes)
  /\ at' = "answered"
  /\ UNCHANGED <<routes, path, served, handler, reply, response, next>>

Next ==
  \/ \E p \in Paths : Call(p)
  \/ \E r \in Replies \union {Default} : ReplyServed(r) \/ Reply(r)
  \/ ApplyNext \/ Panic \/ Answer

Spec == Init /\ [][Next]_vars

-----------------------------------------------------------------------------
(* Properties. *)

\* Every variable has its type (src/config/route.rs:18-67).
TypeOK ==
  /\ routes \in Tables
  /\ at \in {"idle", "handling", "applying", "answered", "panicked"}
  /\ path \in Paths
  /\ served \in 0..Len(routes)
  /\ handler \in {"none", "php", "default", "static", "files"}
  /\ reply \in Response
  /\ response \in Response
  /\ next \in 1..(Len(routes) + 1)

\* The headers that the actions of a route put in a response.
Sets(r) == DOMAIN r.insert \union DOMAIN r.append

\* A route whose actions apply to every response that no route has served.
Unconditional(r) == r.serve = "none" /\ DOMAIN r.need = {}

\* What a route that removes or inserts a header leaves of it, whatever there was.
Left(r, h) == IF h \in r.remove THEN <<>> ELSE Appended(r, <<r.insert[h]>>, h)

\* A response that a route served is touched by the actions of that route, all of them,
\* and by those of no other route (RouterService::call).
ServedDirectly ==
  at = "answered" /\ served # 0 =>
    LET r == routes[served] IN
    /\ response.status = IF r.status = "keep" THEN reply.status ELSE r.status
    /\ \A h \in Headers :
         /\ h \in r.remove \union DOMAIN r.insert => response.headers[h] = Left(r, h)
         /\ h \in DOMAIN r.append \ (r.remove \union DOMAIN r.insert) =>
              response.headers[h] = Append(reply.headers[h], r.append[h])
         /\ h \notin Sets(r) \union r.remove => response.headers[h] = reply.headers[h]

\* A route that comes later has nothing to say of what r leaves of a header.
Spares(later, r, h) ==
  \/ later.serve # "none"
  \/ h \notin Sets(later) /\ (h \in later.remove => h \in r.remove)

\* What an unconditional route removes or inserts is left so in every response, unless
\* a later route speaks of it (Routes::apply_actions, and the order within an action).
LastHeaderStands ==
  at = "answered" /\ served = 0 =>
    \A i \in DOMAIN routes : \A h \in routes[i].remove \union DOMAIN routes[i].insert :
      /\ Unconditional(routes[i])
      /\ \A j \in DOMAIN routes : i < j => Spares(routes[j], routes[i], h)
      => response.headers[h] = Left(routes[i], h)

\* The status of an unconditional route stands, unless a later route has one.
LastStatusStands ==
  at = "answered" /\ served = 0 =>
    \A i \in DOMAIN routes :
      /\ Unconditional(routes[i])
      /\ routes[i].status # "keep"
      /\ \A j \in DOMAIN routes :
           i < j => routes[j].status = "keep" \/ routes[j].serve # "none"
      => response.status = routes[i].status

\* Among the routes that apply to every response, the last one to speak of a header
\* or of the status decides it, whatever the ones before it and the handler did.
LastRouteDecides == LastHeaderStands /\ LastStatusStands

\* Where no route inserts or removes a header, what the handler gave is kept, in its
\* order and in front of what was appended.
AppendKeepsReply ==
  at = "answered" =>
    \A h \in Headers :
      (\A i \in DOMAIN routes : h \notin DOMAIN routes[i].insert \union routes[i].remove)
      => /\ Len(reply.headers[h]) <= Len(response.headers[h])
         /\ \A n \in 1..Len(reply.headers[h]) : response.headers[h][n] = reply.headers[h][n]

\* Route r gives header h the value v.
Puts(r, h, v) ==
  \/ h \in DOMAIN r.insert /\ r.insert[h] = v
  \/ h \in DOMAIN r.append /\ r.append[h] = v

\* A request is lost to a panic only if a route asks for a header whose value has bytes
\* that to_str() refuses, from the handler or from a route before that one: a header
\* that is missing, repeated, removed or replaced panics nobody
\* (src/config/route.rs:113-126).
PanicHasCause ==
  at = "panicked" =>
    /\ served = 0
    /\ \E i \in DOMAIN routes : \E h \in DOMAIN routes[i].need : \E v \in Unreadable :
         /\ routes[i].serve = "none"
         /\ \/ \E n \in DOMAIN reply.headers[h] : reply.headers[h][n] = v
            \/ \E j \in DOMAIN routes : j < i /\ routes[j].serve = "none" /\ Puts(routes[j], h, v)

-----------------------------------------------------------------------------
(* What the repository says of the program and the program does not do. *)

\* The uri of a route restricts its actions: a header that is named only by routes
\* that do not match the path is as the handler gave it ("match.uri: Regex
\* pattern(s) for URL matching", README.md:199, and "Custom headers for assets").
UriRestrictsActions ==
  at = "answered" =>
    \A h \in Headers :
      (\A i \in DOMAIN routes :
         path \in routes[i].uri => h \notin Sets(routes[i]) \union routes[i].remove)
      => response.headers[h] = reply.headers[h]
=============================================================================

---------------------------- MODULE RouterProofs ----------------------------
(***************************************************************************)
(* The safety properties of Router, for every table of routes and every    *)
(* reply. The inductive invariant says of the turns of                     *)
(* Routes::apply_actions that are done what the properties say of all.     *)
(***************************************************************************)
EXTENDS Router, Extremes, SequenceTheorems, TLAPS

-----------------------------------------------------------------------------
(* Helpers. *)

\* find() returns the first route that may serve, or none.
LEMMA ServedRouteIsFirst ==
  ASSUME routes \in Seq(Route), NEW p
  PROVE  /\ ServedRoute(p) \in 0..Len(routes)
         /\ ServedRoute(p) # 0 => ServedRoute(p) \in Serving(p)
<1>1. Serving(p) \subseteq 1..Len(routes)
  BY LenProperties DEF Serving
<1>2. CASE Serving(p) = {}
  BY <1>2, LenProperties DEF ServedRoute
<1>3. CASE Serving(p) # {}
  <2>1. \E i \in Serving(p) : \A j \in Serving(p) : i <= j
    BY <1>1, <1>3, LeastNat
  <2>2. ServedRoute(p) \in Serving(p)
    BY <1>3, <2>1 DEF ServedRoute
  <2>3. QED
    BY <1>1, <2>2, LenProperties
<1>4. QED
  BY <1>2, <1>3

\* Every path has a handler.
LEMMA HandlerType ==
  ASSUME routes \in Seq(Route), NEW p
  PROVE  Handler(p) \in {"php", "default", "static", "files"}
<1>1. CASE ServedRoute(p) = 0
  BY <1>1 DEF Handler
<1>2. CASE ServedRoute(p) # 0
  <2>1. /\ ServedRoute(p) \in DOMAIN routes
        /\ routes[ServedRoute(p)].serve # "none"
    BY <1>2, ServedRouteIsFirst DEF Serving
  <2>2. routes[ServedRoute(p)] \in Route
    BY <2>1
  <2>3. QED
    BY <1>2, <2>1, <2>2 DEF Handler, Route
<1>3. QED
  BY <1>1, <1>2

\* What the actions of a route make of one header.
LEMMA ActOnHeader ==
  ASSUME NEW r \in Route, NEW headers \in [Headers -> Seq(Values)], NEW h \in Headers
  PROVE  /\ ActOnHeaders(r, headers)[h] \in Seq(Values)
         /\ h \in r.remove => ActOnHeaders(r, headers)[h] = <<>>
         /\ h \notin Sets(r) \union r.remove => ActOnHeaders(r, headers)[h] = headers[h]
         /\ h \in r.remove \union DOMAIN r.insert => ActOnHeaders(r, headers)[h] = Left(r, h)
         /\ h \notin DOMAIN r.insert \union r.remove /\ h \in DOMAIN r.append
              => ActOnHeaders(r, headers)[h] = Append(headers[h], r.append[h])
<1>1. r.insert \in Maps /\ r.append \in Maps
  BY DEF Route
<1>2. h \in DOMAIN r.insert => r.insert[h] \in Values
  BY <1>1 DEF Maps
<1>3. h \in DOMAIN r.append => r.append[h] \in Values
  BY <1>1 DEF Maps
<1>4. Inserted(r, headers[h], h) \in Seq(Values)
  BY <1>2 DEF Inserted
<1>5. Appended(r, Inserted(r, headers[h], h), h) \in Seq(Values)
  BY <1>3, <1>4 DEF Appended
<1>6. QED
  BY <1>5 DEF ActOnHeaders, Sets, Inserted, Appended, Left

\* The actions of a route turn a response into a response.
LEMMA ApplyActionsType ==
  ASSUME NEW r \in Route, NEW resp \in Response
  PROVE  ApplyActions(r, resp) \in Response
<1>1. resp.headers \in [Headers -> Seq(Values)] /\ resp.status \in Statuses
  BY DEF Response
<1>2. ActOnHeaders(r, resp.headers) \in [Headers -> Seq(Values)]
  BY <1>1, ActOnHeader DEF ActOnHeaders
<1>3. r.status \in Statuses \union {"keep"}
  BY DEF Route
<1>4. QED
  BY <1>1, <1>2, <1>3 DEF ApplyActions, Response

\* What one turn of Routes::apply_actions may make of a response.
Turn(r, resp, after) ==
  \/ MatchesResponse(r, resp) /\ after = ApplyActions(r, resp)
  \/ MatchFails(r, resp) /\ after = resp

\* The headers of a response after one turn.
LEMMA TurnHeaders ==
  ASSUME NEW r \in Route, NEW resp \in Response, NEW after, Turn(r, resp, after),
         NEW h \in Headers
  PROVE  /\ Unconditional(r) /\ h \in r.remove \union DOMAIN r.insert =>
              after.headers[h] = Left(r, h)
         /\ r.serve # "none" \/ h \notin Sets(r) \union r.remove =>
              after.headers[h] = resp.headers[h]
         /\ h \notin Sets(r) /\ resp.headers[h] = <<>> => after.headers[h] = <<>>
         /\ h \notin DOMAIN r.insert \union r.remove =>
              \/ after.headers[h] = resp.headers[h]
              \/ \E v \in Values : after.headers[h] = Append(resp.headers[h], v)
<1>1. resp.headers \in [Headers -> Seq(Values)]
  BY DEF Response
<1>2. ApplyActions(r, resp).headers = ActOnHeaders(r, resp.headers)
  BY DEF ApplyActions
<1>3. Unconditional(r) => ~MatchFails(r, resp)
  BY DEF Unconditional, MatchFails
<1>4. h \in DOMAIN r.append => r.append[h] \in Values
  BY DEF Route, Maps
<1>5. /\ h \in r.remove => ActOnHeaders(r, resp.headers)[h] = <<>>
      /\ h \in r.remove \union DOMAIN r.insert =>
           ActOnHeaders(r, resp.headers)[h] = Left(r, h)
      /\ h \notin Sets(r) \union r.remove =>
           ActOnHeaders(r, resp.headers)[h] = resp.headers[h]
      /\ h \notin DOMAIN r.insert \union r.remove /\ h \in DOMAIN r.append =>
           ActOnHeaders(r, resp.headers)[h] = Append(resp.headers[h], r.append[h])
  BY <1>1, ActOnHeader
<1>6. QED
  BY <1>2, <1>3, <1>4, <1>5 DEF Turn, Sets, MatchesResponse

\* Where a value of a header comes from that is there after one turn.
LEMMA TurnValues ==
  ASSUME NEW r \in Route, NEW resp \in Response, NEW after, Turn(r, resp, after),
         NEW h \in Headers, NEW n \in DOMAIN after.headers[h]
  PROVE  \/ \E m \in DOMAIN resp.headers[h] : resp.headers[h][m] = after.headers[h][n]
         \/ r.serve = "none" /\ Puts(r, h, after.headers[h][n])
<1>1. CASE after = resp
  BY <1>1
<1>2. CASE MatchesResponse(r, resp) /\ after = ApplyActions(r, resp)
  <2> DEFINE old == Inserted(r, resp.headers[h], h)
  <2>1. after.headers[h] = IF h \in r.remove THEN <<>> ELSE Appended(r, old, h)
    BY <1>2 DEF ApplyActions, ActOnHeaders
  <2>2. h \notin r.remove /\ after.headers[h] = Appended(r, old, h)
    BY <2>1
  <2>3. resp.headers[h] \in Seq(Values)
    BY DEF Response
  <2>4. \A m \in DOMAIN old : \/ h \in DOMAIN r.insert /\ old[m] = r.insert[h]
                             \/ old = resp.headers[h]
    BY DEF Inserted
  <2>5. old \in Seq(Values)
    BY <2>3 DEF Inserted, Route, Maps
  <2>6. CASE h \in DOMAIN r.append
    <3>1. r.append[h] \in Values
      BY <2>6 DEF Route, Maps
    <3>2. after.headers[h] = Append(old, r.append[h])
      BY <2>2, <2>6 DEF Appended
    <3> HIDE DEF old
    <3>3. (n \in DOMAIN old /\ after.headers[h][n] = old[n]) \/ after.headers[h][n] = r.append[h]
      BY <2>5, <3>1, <3>2, LenProperties
    <3>4. QED
      BY <1>2, <2>4, <2>6, <3>3 DEF Puts, MatchesResponse
  <2>7. CASE h \notin DOMAIN r.append
    <3>1. after.headers[h] = old
      BY <2>2, <2>7 DEF Appended
    <3> HIDE DEF old
    <3>2. QED
      BY <1>2, <2>4, <3>1 DEF Puts, MatchesResponse
  <2>8. QED
    BY <2>6, <2>7
<1>3. QED
  BY <1>1, <1>2 DEF Turn

\* The status of a response after one turn.
LEMMA TurnStatus ==
  ASSUME NEW r \in Route, NEW resp \in Response, NEW after, Turn(r, resp, after)
  PROVE  /\ Unconditional(r) /\ r.status # "keep" => after.status = r.status
         /\ r.status = "keep" \/ r.serve # "none" => after.status = resp.status
BY DEF Turn, ApplyActions, Unconditional, MatchesResponse, MatchFails

-----------------------------------------------------------------------------
(* The invariant. *)

\* A served response goes out with the actions of its route and does not enter the loop.
ServedByRoute ==
  /\ at \in {"applying", "panicked"} => served = 0
  /\ at = "answered" /\ served # 0 => response = ApplyActions(routes[served], reply)

Looping == served = 0 /\ at \in {"applying", "answered"}

LoopDone == served = 0 /\ at = "answered" => next = Len(routes) + 1

HeadersSoFar ==
  Looping =>
    \A i \in DOMAIN routes : \A h \in routes[i].remove \union DOMAIN routes[i].insert :
      /\ i < next
      /\ Unconditional(routes[i])
      /\ \A j \in DOMAIN routes : i < j /\ j < next => Spares(routes[j], routes[i], h)
      => response.headers[h] = Left(routes[i], h)

StatusSoFar ==
  Looping =>
    \A i \in DOMAIN routes :
      /\ i < next
      /\ Unconditional(routes[i])
      /\ routes[i].status # "keep"
      /\ \A j \in DOMAIN routes :
           i < j /\ j < next => routes[j].status = "keep" \/ routes[j].serve # "none"
      => response.status = routes[i].status

\* The values of one header begin with those of another.
Extends(long, short) ==
  Len(short) <= Len(long) /\ \A n \in 1..Len(short) : long[n] = short[n]

KeptSoFar ==
  Looping =>
    \A h \in Headers :
      (\A i \in DOMAIN routes : h \notin DOMAIN routes[i].insert \union routes[i].remove)
      => Extends(response.headers[h], reply.headers[h])

\* A value of the response is one of the reply, or a route has put it there.
Sourced(h, v) ==
  \/ \E m \in DOMAIN reply.headers[h] : reply.headers[h][m] = v
  \/ \E j \in DOMAIN routes : j < next /\ routes[j].serve = "none" /\ Puts(routes[j], h, v)

SourcesSoFar ==
  served = 0 /\ at \in {"applying", "answered", "panicked"} =>
    \A h \in Headers : \A n \in DOMAIN response.headers[h] : Sourced(h, response.headers[h][n])

\* The match that panics meets a value it cannot read.
PanicNow ==
  at = "panicked" => next \in DOMAIN routes /\ MatchPanics(routes[next], response)

LoopInv == LoopDone /\ HeadersSoFar /\ StatusSoFar /\ KeptSoFar
IInv == TypeOK /\ ServedByRoute /\ LoopInv /\ SourcesSoFar /\ PanicNow

\* The router starts with nothing looked up and nothing done.
LEMMA InitIInv == Init => IInv
<1> SUFFICES ASSUME Init PROVE IInv
  OBVIOUS
<1>1. routes \in Seq(Route)
  BY RouterAssumption DEF Init
<1>2. TypeOK
  BY <1>1, RouterAssumption, LenProperties DEF Init, TypeOK
<1>3. QED
  BY <1>2 DEF Init, IInv, ServedByRoute, LoopInv, LoopDone, HeadersSoFar, StatusSoFar,
              KeptSoFar, Looping, SourcesSoFar, PanicNow

\* Every step keeps every variable in its type.
LEMMA TypeStep ==
  ASSUME TypeOK, [Next]_vars
  PROVE  TypeOK'
<1> USE DEF TypeOK
<1>1. routes \in Seq(Route) /\ Len(routes) \in Nat
  BY RouterAssumption, LenProperties
<1>2. ASSUME NEW p \in Paths, Call(p)
      PROVE  TypeOK'
  <2>1. served' \in 0..Len(routes)
    BY <1>1, <1>2, ServedRouteIsFirst DEF Call
  <2>2. handler' \in {"none", "php", "default", "static", "files"}
    BY <1>1, <1>2, HandlerType DEF Call
  <2>3. QED
    BY <1>2, <2>1, <2>2 DEF Call
<1>3. ASSUME NEW r \in Replies \union {Default}, ReplyServed(r)
      PROVE  TypeOK'
  <2>1. r \in Response
    BY RouterAssumption
  <2>2. routes[served] \in Route
    BY <1>1, <1>3, LenProperties DEF ReplyServed
  <2>3. ApplyActions(routes[served], r) \in Response
    BY <2>1, <2>2, ApplyActionsType
  <2>4. QED
    BY <1>3, <2>1, <2>3 DEF ReplyServed
<1>4. ASSUME NEW r \in Replies \union {Default}, Reply(r)
      PROVE  TypeOK'
  BY <1>1, <1>4, RouterAssumption DEF Reply
<1>5. CASE ApplyNext
  <2>1. routes[next] \in Route
    BY <1>1, <1>5, LenProperties DEF ApplyNext
  <2>2. ApplyActions(routes[next], response) \in Response
    BY <2>1, ApplyActionsType
  <2>3. next' \in 1..(Len(routes) + 1)
    BY <1>1, <1>5 DEF ApplyNext
  <2>4. QED
    BY <1>5, <2>2, <2>3 DEF ApplyNext
<1>6. CASE Panic \/ Answer
  BY <1>6 DEF Panic, Answer
<1>7. CASE UNCHANGED vars
  BY <1>7 DEF vars
<1>8. QED
  BY <1>2, <1>3, <1>4, <1>5, <1>6, <1>7 DEF Next

\* A response that a route served stays out of the loop.
LEMMA ServedStep ==
  ASSUME TypeOK, ServedByRoute, [Next]_vars
  PROVE  ServedByRoute'
<1> USE DEF ServedByRoute
<1>1. ASSUME NEW p \in Paths, Call(p)
      PROVE  ServedByRoute'
  BY <1>1 DEF Call
<1>2. ASSUME NEW r \in Replies \union {Default}, ReplyServed(r) \/ Reply(r)
      PROVE  ServedByRoute'
  BY <1>2 DEF ReplyServed, Reply, ApplyActions, ActOnHeaders, Inserted, Appended
<1>3. CASE ApplyNext \/ Panic \/ Answer
  BY <1>3 DEF ApplyNext, Panic, Answer
<1>4. CASE UNCHANGED vars
  BY <1>4 DEF vars, ApplyActions, ActOnHeaders, Inserted, Appended
<1>5. QED
  BY <1>1, <1>2, <1>3, <1>4 DEF Next

\* One turn of the loop keeps what the invariant says of the turns before it, and adds
\* its own.
LEMMA TurnStep ==
  ASSUME IInv, ApplyNext
  PROVE  LoopInv'
<1>1. /\ routes \in Seq(Route)
      /\ DOMAIN routes = 1..Len(routes)
      /\ Len(routes) \in Nat
  BY RouterAssumption, LenProperties DEF IInv, TypeOK
<1>2. next \in DOMAIN routes /\ routes[next] \in Route
  BY <1>1 DEF ApplyNext, IInv, TypeOK
<1>3. response \in Response /\ reply \in Response
  BY DEF IInv, TypeOK
<1>4. /\ Turn(routes[next], response, response')
      /\ next' = next + 1 /\ routes' = routes /\ reply' = reply
  BY DEF ApplyNext, Turn
<1>5. Looping /\ Looping' /\ ~ (at' = "answered")
  BY DEF ApplyNext, IInv, ServedByRoute, Looping
<1>6. LoopDone'
  BY <1>5 DEF LoopDone
<1>7. HeadersSoFar'
  <2> SUFFICES ASSUME NEW i \in DOMAIN routes,
                      NEW h \in routes[i].remove \union DOMAIN routes[i].insert,
                      i < next + 1, Unconditional(routes[i]),
                      \A j \in DOMAIN routes :
                        i < j /\ j < next + 1 => Spares(routes[j], routes[i], h)
               PROVE  response'.headers[h] = Left(routes[i], h)
    BY <1>4 DEF HeadersSoFar, Unconditional, Spares, Sets, Left, Appended
  <2>1. h \in Headers
    <3>1. routes[i] \in Route
      BY <1>1
    <3>2. routes[i].remove \in SUBSET Headers /\ routes[i].insert \in Maps
      BY <3>1 DEF Route
    <3>3. QED
      BY <3>2 DEF Maps
  <2>2. CASE i = next
    BY <1>2, <1>3, <1>4, <2>1, <2>2, TurnHeaders
  <2>3. CASE i < next
    <3>1. response.headers[h] = Left(routes[i], h)
      BY <1>1, <1>2, <1>5, <2>3 DEF IInv, LoopInv, HeadersSoFar
    <3>2. Spares(routes[next], routes[i], h)
      BY <1>1, <1>2, <2>3
    <3>3. CASE routes[next].serve # "none" \/ h \notin Sets(routes[next]) \union routes[next].remove
      BY <1>2, <1>3, <1>4, <2>1, <3>1, <3>3, TurnHeaders
    <3>4. CASE h \notin Sets(routes[next]) /\ h \in routes[i].remove
      <4>1. Left(routes[i], h) = <<>>
        BY <3>4 DEF Left
      <4>2. QED
        BY <1>2, <1>3, <1>4, <2>1, <3>1, <3>4, <4>1, TurnHeaders
    <3>5. QED
      BY <3>2, <3>3, <3>4 DEF Spares
  <2>4. QED
    BY <1>1, <1>2, <2>2, <2>3
<1>8. StatusSoFar'
  <2> SUFFICES ASSUME NEW i \in DOMAIN routes,
                      i < next + 1, Unconditional(routes[i]), routes[i].status # "keep",
                      \A j \in DOMAIN routes : i < j /\ j < next + 1 =>
                        routes[j].status = "keep" \/ routes[j].serve # "none"
               PROVE  response'.status = routes[i].status
    BY <1>4 DEF StatusSoFar, Unconditional
  <2>1. CASE i = next
    BY <1>2, <1>3, <1>4, <2>1, TurnStatus
  <2>2. CASE i < next
    <3>1. response.status = routes[i].status
      BY <1>1, <1>2, <1>5, <2>2 DEF IInv, LoopInv, StatusSoFar
    <3>2. routes[next].status = "keep" \/ routes[next].serve # "none"
      BY <1>1, <1>2, <2>2
    <3>3. QED
      BY <1>2, <1>3, <1>4, <3>1, <3>2, TurnStatus
  <2>3. QED
    BY <1>1, <1>2, <2>1, <2>2
<1>9. KeptSoFar'
  <2> SUFFICES ASSUME NEW h \in Headers,
                      \A i \in DOMAIN routes :
                        h \notin DOMAIN routes[i].insert \union routes[i].remove
               PROVE  Extends(response'.headers[h], reply.headers[h])
    BY <1>4 DEF KeptSoFar, Extends
  <2>1. Extends(response.headers[h], reply.headers[h])
    BY <1>5 DEF IInv, LoopInv, KeptSoFar
  <2>2. response.headers[h] \in Seq(Values) /\ reply.headers[h] \in Seq(Values)
    BY <1>3 DEF Response
  <2>3. \/ response'.headers[h] = response.headers[h]
        \/ \E v \in Values : response'.headers[h] = Append(response.headers[h], v)
    BY <1>2, <1>3, <1>4, TurnHeaders
  <2>4. QED
    BY <2>1, <2>2, <2>3, LenProperties DEF Extends
<1>10. QED
  BY <1>6, <1>7, <1>8, <1>9 DEF LoopInv

\* Every step keeps what the turns so far have achieved.
LEMMA LoopStep ==
  ASSUME IInv, [Next]_vars
  PROVE  LoopInv'
<1> USE DEF LoopInv, LoopDone, HeadersSoFar, StatusSoFar, KeptSoFar, Looping
<1>1. ASSUME NEW p \in Paths, Call(p)
      PROVE  LoopInv'
  BY <1>1 DEF Call
<1>2. ASSUME NEW r \in Replies \union {Default}, ReplyServed(r)
      PROVE  LoopInv'
  BY <1>2 DEF ReplyServed
<1>3. ASSUME NEW r \in Replies \union {Default}, Reply(r)
      PROVE  LoopInv'
  <2>1. /\ routes \in Seq(Route)
        /\ DOMAIN routes = 1..Len(routes)
        /\ r \in Response
    BY RouterAssumption, LenProperties DEF IInv, TypeOK
  <2>2. \A h \in Headers : Extends(r.headers[h], r.headers[h])
    BY <2>1, LenProperties DEF Extends, Response
  <2>3. KeptSoFar'
    BY <1>3, <2>2 DEF Reply, Extends
  <2>4. LoopDone' /\ HeadersSoFar' /\ StatusSoFar'
    BY <1>3, <2>1 DEF Reply
  <2>5. QED
    BY <2>3, <2>4
<1>4. CASE ApplyNext
  BY <1>4, TurnStep
<1>5. CASE Answer
  <2>1. next' = Len(routes) + 1 /\ Looping
    BY <1>5, RouterAssumption, LenProperties DEF Answer, IInv, TypeOK, ServedByRoute
  <2>2. LoopDone'
    BY <1>5, <2>1 DEF Answer
  <2>3. HeadersSoFar' /\ StatusSoFar'
    BY <1>5, <2>1 DEF Answer, IInv, Unconditional, Sets, Spares, Left, Appended
  <2>4. KeptSoFar'
    BY <1>5, <2>1 DEF Answer, IInv, Extends
  <2>5. QED
    BY <2>2, <2>3, <2>4
<1>6. CASE Panic
  BY <1>6 DEF Panic
<1>7. CASE UNCHANGED vars
  <2>1. LoopInv
    BY DEF IInv
  <2>2. QED
    BY <1>7, <2>1 DEF vars, Unconditional, Sets, Spares, Left, Appended, Extends
<1>8. QED
  BY <1>1, <1>2, <1>3, <1>4, <1>5, <1>6, <1>7 DEF Next

\* Every step keeps the sources of the values, and a panic has one of them.
LEMMA SourceStep ==
  ASSUME IInv, [Next]_vars
  PROVE  SourcesSoFar' /\ PanicNow'
<1> USE DEF SourcesSoFar, PanicNow
<1>1. ASSUME NEW p \in Paths, Call(p)
      PROVE  SourcesSoFar' /\ PanicNow'
  BY <1>1 DEF Call
<1>2. ASSUME NEW r \in Replies \union {Default}, ReplyServed(r) \/ Reply(r)
      PROVE  SourcesSoFar' /\ PanicNow'
  BY <1>2 DEF ReplyServed, Reply, Sourced
<1>3. CASE ApplyNext
  <2>1. /\ next \in DOMAIN routes /\ routes[next] \in Route /\ next < next + 1
        /\ \A j \in DOMAIN routes : j < next => j < next + 1
    BY <1>3, RouterAssumption, LenProperties DEF ApplyNext, IInv, TypeOK
  <2>2. /\ Turn(routes[next], response, response') /\ response \in Response
        /\ served = 0 /\ at = "applying" /\ at' = "applying"
        /\ next' = next + 1 /\ routes' = routes /\ reply' = reply
    BY <1>3 DEF ApplyNext, Turn, IInv, TypeOK, ServedByRoute
  <2>3. ASSUME NEW h \in Headers, NEW n \in DOMAIN response'.headers[h]
        PROVE  Sourced(h, response.headers[h][n])'
    <3>1. \/ \E m \in DOMAIN response.headers[h] : response.headers[h][m] = response'.headers[h][n]
          \/ routes[next].serve = "none" /\ Puts(routes[next], h, response'.headers[h][n])
      BY <2>1, <2>2, TurnValues
    <3>2. ASSUME NEW v,
                 \/ \E m \in DOMAIN response.headers[h] : response.headers[h][m] = v
                 \/ routes[next].serve = "none" /\ Puts(routes[next], h, v)
          PROVE  \/ \E m \in DOMAIN reply.headers[h] : reply.headers[h][m] = v
                 \/ \E j \in DOMAIN routes :
                      j < next + 1 /\ routes[j].serve = "none" /\ Puts(routes[j], h, v)
      <4>1. CASE \E m \in DOMAIN response.headers[h] : response.headers[h][m] = v
        <5>1. Sourced(h, v)
          BY <2>2, <4>1 DEF IInv
        <5>2. QED
          BY <2>1, <5>1 DEF Sourced
      <4>2. QED
        BY <2>1, <3>2, <4>1
    <3>3. \/ \E m \in DOMAIN reply.headers[h] : reply.headers[h][m] = response'.headers[h][n]
          \/ \E j \in DOMAIN routes :
               j < next + 1 /\ routes[j].serve = "none" /\ Puts(routes[j], h, response'.headers[h][n])
      BY <3>1, <3>2
    <3>4. QED
      BY <2>2, <3>3 DEF Sourced, Puts
  <2>4. QED
    BY <2>2, <2>3
<1>4. CASE Panic
  BY <1>4, RouterAssumption, LenProperties DEF Panic, IInv, TypeOK, ServedByRoute, Sourced, Puts,
     MatchPanics, Unread, First
<1>5. CASE Answer
  BY <1>5 DEF Answer, IInv, Sourced, Puts
<1>6. CASE UNCHANGED vars
  BY <1>6 DEF vars, IInv, Sourced, Puts, MatchPanics, Unread, First
<1>7. QED
  BY <1>1, <1>2, <1>3, <1>4, <1>5, <1>6 DEF Next

\* The invariant holds in every state.
THEOREM RouterInvariant == Spec => []IInv
<1>1. IInv /\ [Next]_vars => IInv'
  BY TypeStep, ServedStep, LoopStep, SourceStep DEF IInv
<1>2. QED
  BY InitIInv, <1>1, PTL DEF Spec

-----------------------------------------------------------------------------
(* The properties. *)

\* Every variable of the router keeps its type.
THEOREM RouterTypeCorrect == Spec => []TypeOK
<1>1. IInv => TypeOK
  BY DEF IInv
<1>2. QED
  BY RouterInvariant, <1>1, PTL

\* A response that a route served carries the actions of that route, all of them, and of
\* no other route.
THEOREM RouteServesDirectly == Spec => []ServedDirectly
<1>1. IInv => ServedDirectly
  <2> SUFFICES ASSUME IInv, at = "answered", served # 0
               PROVE  LET r == routes[served] IN
                      /\ response.status = IF r.status = "keep" THEN reply.status ELSE r.status
                      /\ \A h \in Headers :
                           /\ h \in r.remove \union DOMAIN r.insert =>
                                response.headers[h] = Left(r, h)
                           /\ h \in DOMAIN r.append \ (r.remove \union DOMAIN r.insert) =>
                                response.headers[h] = Append(reply.headers[h], r.append[h])
                           /\ h \notin Sets(r) \union r.remove =>
                                response.headers[h] = reply.headers[h]
    BY DEF ServedDirectly
  <2>1. routes[served] \in Route
    BY RouterAssumption, LenProperties DEF IInv, TypeOK
  <2>2. reply.headers \in [Headers -> Seq(Values)]
    BY DEF IInv, TypeOK, Response
  <2>3. response = ApplyActions(routes[served], reply)
    BY DEF IInv, ServedByRoute
  <2>4. QED
    BY <2>1, <2>2, <2>3, ActOnHeader DEF ApplyActions
<1>2. QED
  BY RouterInvariant, <1>1, PTL

\* What an unconditional route removes or inserts stands, unless a later route speaks of it
\* (src/config/route.rs:75-88, 147-170).
THEOREM HeadersStand == Spec => []LastHeaderStands
<1>1. IInv => LastHeaderStands
  <2> SUFFICES ASSUME IInv, at = "answered", served = 0
               PROVE  LastHeaderStands
    BY DEF LastHeaderStands
  <2>1. Looping /\ \A i \in DOMAIN routes : i < next
    BY RouterAssumption, LenProperties DEF IInv, TypeOK, LoopInv, LoopDone, Looping
  <2>2. QED
    BY <2>1 DEF IInv, LoopInv, HeadersSoFar, LastHeaderStands
<1>2. QED
  BY RouterInvariant, <1>1, PTL

\* The last unconditional status stands.
THEOREM StatusStands == Spec => []LastStatusStands
<1>1. IInv => LastStatusStands
  <2> SUFFICES ASSUME IInv, at = "answered", served = 0
               PROVE  LastStatusStands
    BY DEF LastStatusStands
  <2>1. Looping /\ \A i \in DOMAIN routes : i < next
    BY RouterAssumption, LenProperties DEF IInv, TypeOK, LoopInv, LoopDone, Looping
  <2>2. QED
    BY <2>1 DEF IInv, LoopInv, StatusSoFar, LastStatusStands
<1>2. QED
  BY RouterInvariant, <1>1, PTL

\* The last unconditional route to speak of a header or of the status decides it.
THEOREM LastDecides == Spec => []LastRouteDecides
BY HeadersStand, StatusStands, PTL DEF LastRouteDecides

\* A panic of a match comes from an unreadable value of the handler or of a route before
\* the one that asks for it (src/config/route.rs:75-83, 113-126).
THEOREM PanicIsCaused == Spec => []PanicHasCause
<1>1. IInv => PanicHasCause
  <2> SUFFICES ASSUME IInv, at = "panicked"
               PROVE  PanicHasCause
    BY DEF PanicHasCause
  <2>1. /\ served = 0 /\ next \in DOMAIN routes /\ routes[next] \in Route
        /\ MatchPanics(routes[next], response)
    BY RouterAssumption, LenProperties DEF IInv, TypeOK, PanicNow, ServedByRoute
  <2>2. PICK h \in DOMAIN routes[next].need : Unread(response, h)
    BY <2>1 DEF MatchPanics
  <2>3. h \in Headers
    BY <2>1 DEF Route
  <2>4. PICK n \in DOMAIN response.headers[h] : response.headers[h][n] \in Unreadable
    BY <2>2 DEF Unread, First
  <2>5. Sourced(h, response.headers[h][n])
    BY <2>1, <2>3, <2>4 DEF IInv, SourcesSoFar
  <2>6. QED
    BY <2>1, <2>4, <2>5 DEF Sourced, MatchPanics, PanicHasCause
<1>2. QED
  BY RouterInvariant, <1>1, PTL

\* What the handler gave is kept where routes only append.
THEOREM RepliesAreKept == Spec => []AppendKeepsReply
<1>1. IInv => AppendKeepsReply
  <2> SUFFICES ASSUME IInv, at = "answered", NEW h \in Headers,
                      \A i \in DOMAIN routes :
                        h \notin DOMAIN routes[i].insert \union routes[i].remove
               PROVE  Extends(response.headers[h], reply.headers[h])
    BY DEF AppendKeepsReply, Extends
  <2>1. CASE served = 0
    BY <2>1 DEF IInv, LoopInv, KeptSoFar, Looping
  <2>2. CASE served # 0
    <3>1. routes[served] \in Route /\ served \in DOMAIN routes
      BY <2>2, RouterAssumption, LenProperties DEF IInv, TypeOK
    <3>2. reply.headers \in [Headers -> Seq(Values)]
      BY DEF IInv, TypeOK, Response
    <3>3. response.headers[h] = ActOnHeaders(routes[served], reply.headers)[h]
      BY <2>2 DEF IInv, ServedByRoute, ApplyActions
    <3>4. h \in DOMAIN routes[served].append => routes[served].append[h] \in Values
      BY <3>1 DEF Route, Maps
    <3>5. \/ response.headers[h] = reply.headers[h]
          \/ \E v \in Values : response.headers[h] = Append(reply.headers[h], v)
      BY <3>1, <3>2, <3>3, <3>4, ActOnHeader DEF Sets
    <3>6. QED
      BY <3>2, <3>5, LenProperties DEF Extends
  <2>3. QED
    BY <2>1, <2>2
<1>2. QED
  BY RouterInvariant, <1>1, PTL
=============================================================================

-------------------------- MODULE PhpThreadProofs --------------------------
(***************************************************************************)
(* Safety of PhpThread for every file system, every set of requests and    *)
(* every number of them. The inductive invariant adds to the properties    *)
(* where the strings are in each phase, how far the body is read, and what *)
(* parse_uri has passed over.                                              *)
(***************************************************************************)
EXTENDS PhpThread, Extremes, SequenceTheorems, TLAPS

\* Between Take and the end of the closure there is a request.
Busy == phase # "idle" => req \in Requests /\ n > 0

\* The strings owned in each phase: none but those of failed startups, then
\* those lent, then those of the cookies too, then path_translated.
Strings ==
  /\ \A s \in misfreed : s[1] \in Auth
  /\ phase \in {"idle", "parse", "ready"} => \A s \in live : s[2] \in failed
  /\ phase \in {"parse", "ready"} => info = [f \in Fields |-> 0]
  /\ phase = "startup" =>
       /\ info = [f \in Fields |-> IF f \in Lent THEN n ELSE 0]
       /\ \A s \in live : s[2] \in failed \/ (s[2] = n /\ s[1] \in Lent)
       /\ \A f \in Lent : <<f, n>> \in live
  /\ phase = "run" =>
       /\ info = [f \in Fields |-> IF f \in req.has THEN n ELSE 0]
       /\ \A s \in live : s[2] \in failed \/ (s[2] = n /\ s[1] \in req.has)
       /\ \A f \in req.has : <<f, n>> \in live
  /\ phase = "freed" =>
       /\ info["path_translated"] = n
       /\ \A s \in live : s[2] \in failed \/ s = <<"path_translated", n>>
       /\ <<"path_translated", n>> \in live

\* What PHP has read, and what is left, are the two parts of the body.
Reading ==
  /\ phase \in {"parse", "ready", "startup"} =>
       /\ readBytes = 0
       /\ body = req.body
       /\ post = <<>>
       /\ ~postRead
  /\ phase \in {"startup", "run"} => length = req.length
  /\ phase = "run" =>
       /\ readBytes <= Len(req.body)
       /\ post = SubSeq(req.body, 1, readBytes)
       /\ body = SubSeq(req.body, readBytes + 1, Len(req.body))
  /\ PostIsComplete

\* The request's path goes on with names after the first m segments, and no part of it
\* that is longer names a script.
NoneLonger(m) ==
  \A k \in m + 1 .. Len(req.path) :
    req.path[k] # Empty => /\ Target(SubSeq(req.path, 1, k)) = {}
                           /\ req.path[k] \in Names

\* parse_uri looks at a part of the path, and nothing longer names a script.
Parsing ==
  /\ phase = "parse" =>
       /\ Len(uri) <= Len(req.path)
       /\ uri = SubSeq(req.path, 1, Len(uri))
       /\ NoneLonger(Len(uri))
       /\ script = <<>>
  /\ MostSpecific

\* Until the head is sent, PHP's status code is what this script has set.
Answering ==
  /\ phase \in {"parse", "ready", "startup"} => code = 0 /\ set = 0 /\ head = {}
  /\ phase = "run" /\ head = {} => code = set
  /\ OwnStatus

\* The path info is what comes after the part parse_uri looks at, then after
\* the part that names the script.
Keeping ==
  /\ phase = "parse" => RestOfPath(req.path, Len(uri), pathInfo)
  /\ phase \in {"ready", "startup", "run"} =>
       \E m \in 0..Len(req.path) : CutAt(req.path, m, script, pathInfo)
  /\ PathIsKept

IInv == TypeOK /\ Busy /\ Strings /\ Reading /\ Parsing /\ Answering /\ Keeping

-----------------------------------------------------------------------------
(* Helpers. *)

\* The two parts of what is left of a sequence.
LEMMA RestOfRest ==
  ASSUME NEW S, NEW s \in Seq(S), NEW a \in 0..Len(s), NEW g \in 0..(Len(s) - a)
  PROVE  LET rest == SubSeq(s, a + 1, Len(s)) IN
           /\ rest \in Seq(S)
           /\ Len(rest) = Len(s) - a
           /\ SubSeq(rest, 1, g) = SubSeq(s, a + 1, a + g)
           /\ SubSeq(rest, g + 1, Len(rest)) = SubSeq(s, a + g + 1, Len(s))
<1> DEFINE rest == SubSeq(s, a + 1, Len(s))
<1>1. /\ rest \in Seq(S)
      /\ Len(rest) = Len(s) - a
      /\ \A i \in 1..(Len(s) - a) : rest[i] = s[a + i]
  BY SubSeqProperties
<1> HIDE DEF rest
<1>2. SubSeq(rest, 1, g) = SubSeq(s, a + 1, a + g)
  <2>1. /\ SubSeq(rest, 1, g) \in Seq(S)
        /\ Len(SubSeq(rest, 1, g)) = g
        /\ \A i \in 1..g : SubSeq(rest, 1, g)[i] = s[a + i]
    BY <1>1, SubSeqProperties
  <2>2. /\ SubSeq(s, a + 1, a + g) \in Seq(S)
        /\ Len(SubSeq(s, a + 1, a + g)) = g
        /\ \A i \in 1..g : SubSeq(s, a + 1, a + g)[i] = s[a + i]
    BY SubSeqProperties
  <2> DEFINE p == SubSeq(rest, 1, g)
             q == SubSeq(s, a + 1, a + g)
  <2> HIDE DEF p, q
  <2>3. p \in Seq(S) /\ q \in Seq(S) /\ Len(p) = Len(q) /\ \A i \in 1..Len(p) : p[i] = q[i]
    BY <2>1, <2>2 DEF p, q
  <2>4. p = q
    BY <2>3, SeqEqual
  <2>5. QED
    BY <2>4 DEF p, q
<1>3. SubSeq(rest, g + 1, Len(rest)) = SubSeq(s, a + g + 1, Len(s))
  <2>1. /\ SubSeq(rest, g + 1, Len(rest)) \in Seq(S)
        /\ Len(SubSeq(rest, g + 1, Len(rest))) = Len(s) - a - g
        /\ \A i \in 1..(Len(s) - a - g) : SubSeq(rest, g + 1, Len(rest))[i] = s[a + g + i]
    <3>1. Len(rest) \in Nat /\ \A i \in g + 1 .. Len(rest) : rest[i] \in S
      BY <1>1
    <3>2. /\ SubSeq(rest, g + 1, Len(rest)) \in Seq(S)
          /\ Len(SubSeq(rest, g + 1, Len(rest))) = Len(rest) - g
          /\ \A i \in 1..(Len(rest) - g) : SubSeq(rest, g + 1, Len(rest))[i] = rest[g + i]
      <4> DEFINE l == Len(rest)
                 q == SubSeq(rest, g + 1, l)
      <4>1. l \in Nat /\ g \in 0..l
        BY <1>1
      <4>2. /\ q \in Seq(S)
            /\ Len(q) = IF g + 1 <= l THEN l - (g + 1) + 1 ELSE 0
            /\ \A i \in 1..(l - (g + 1) + 1) : q[i] = rest[(g + 1) + i - 1]
        <5>1. g + 1 \in Int /\ l \in Int
          BY <4>1
        <5>2. \A i \in g + 1 .. l : rest[i] \in S
          BY <3>1
        <5> HIDE DEF l
        <5>3. QED
          BY <5>1, <5>2, SubSeqProperties
      <4> HIDE DEF l, q
      <4>3. l - (g + 1) + 1 = l - g
        BY <4>1
      <4>4. \A i \in 1..(l - g) : (g + 1) + i - 1 = g + i
        BY <4>1
      <4>5. Len(q) = l - g
        BY <4>1, <4>2
      <4>6. \A i \in 1..(l - g) : q[i] = rest[g + i]
        BY <4>2, <4>3, <4>4
      <4>7. QED
        BY <4>2, <4>5, <4>6 DEF l, q
    <3>3. \A i \in 1..(Len(rest) - g) : rest[g + i] = s[a + g + i]
      <4>1. SUFFICES ASSUME NEW i \in 1..(Len(rest) - g) PROVE rest[g + i] = s[a + g + i]
        OBVIOUS
      <4>2. g + i \in 1..(Len(s) - a) /\ a + (g + i) = a + g + i
        BY <1>1
      <4>3. QED
        BY <1>1, <4>2
    <3>4. QED
      BY <1>1, <3>2, <3>3
  <2>2. /\ SubSeq(s, a + g + 1, Len(s)) \in Seq(S)
        /\ Len(SubSeq(s, a + g + 1, Len(s))) = Len(s) - a - g
        /\ \A i \in 1..(Len(s) - a - g) : SubSeq(s, a + g + 1, Len(s))[i] = s[a + g + i]
    BY SubSeqProperties
  <2> DEFINE p == SubSeq(rest, g + 1, Len(rest))
             q == SubSeq(s, a + g + 1, Len(s))
  <2> HIDE DEF p, q
  <2>3. p \in Seq(S) /\ q \in Seq(S) /\ Len(p) = Len(q) /\ \A i \in 1..Len(p) : p[i] = q[i]
    BY <2>1, <2>2 DEF p, q
  <2>4. p = q
    BY <2>3, SeqEqual
  <2>5. QED
    BY <2>4 DEF p, q
<1>4. QED
  BY <1>1, <1>2, <1>3 DEF rest

\* The beginning of the beginning of a sequence.
LEMMA FrontOfFront ==
  ASSUME NEW S, NEW s \in Seq(S), NEW m \in 0..Len(s), NEW t \in 0..m
  PROVE  /\ SubSeq(s, 1, t) \in Seq(S)
         /\ Len(SubSeq(s, 1, t)) = t
         /\ \A i \in 1..t : SubSeq(s, 1, t)[i] = s[i]
         /\ SubSeq(SubSeq(s, 1, m), 1, t) = SubSeq(s, 1, t)
<1>1. \A k \in 0..Len(s) :
        /\ SubSeq(s, 1, k) \in Seq(S)
        /\ Len(SubSeq(s, 1, k)) = k
        /\ \A i \in 1..k : SubSeq(s, 1, k)[i] = s[i]
  BY SubSeqProperties
<1> DEFINE front == SubSeq(s, 1, m)
<1>2. /\ front \in Seq(S)
      /\ Len(front) = m
      /\ \A i \in 1..m : front[i] = s[i]
  BY <1>1
<1> HIDE DEF front
<1>3. /\ SubSeq(front, 1, t) \in Seq(S)
      /\ Len(SubSeq(front, 1, t)) = t
      /\ \A i \in 1..t : SubSeq(front, 1, t)[i] = s[i]
  BY <1>2, SubSeqProperties
<1>4. SubSeq(front, 1, t) = SubSeq(s, 1, t)
  BY <1>1, <1>3, SeqEqual
<1>5. QED
  BY <1>1, <1>4 DEF front

\* UpTo cuts a path after its last segment that is not in S.
LEMMA UpToEnd ==
  ASSUME NEW path \in Paths, NEW S
  PROVE  \E t \in 0..Len(path) :
           /\ UpTo(path, S) = SubSeq(path, 1, t)
           /\ t > 0 => path[t] \notin S
           /\ \A j \in t + 1 .. Len(path) : path[j] \in S
<1>0. DOMAIN path = 1..Len(path) /\ Len(path) \in Nat
  BY DEF Paths
<1>1. CASE \A i \in DOMAIN path : path[i] \in S
  <2>1. SubSeq(path, 1, 0) = <<>>
    BY SubSeqEmpty
  <2>2. QED
    BY <1>0, <1>1, <2>1 DEF UpTo
<1>2. CASE ~ \A i \in DOMAIN path : path[i] \in S
  <2> DEFINE T == {i \in 1..Len(path) : path[i] \notin S}
  <2>1. PICK x \in T : \A y \in T : y <= x
    <3>1. T # {} /\ T \subseteq 1..Len(path)
      BY <1>0, <1>2
    <3> HIDE DEF T
    <3>2. QED
      BY <1>0, <3>1, GreatestBelow
  <2>2. \E i \in DOMAIN path : path[i] \notin S /\ \A j \in DOMAIN path : j > i => path[j] \in S
    BY <1>0, <2>1
  <2>3. PICK t \in DOMAIN path :
          /\ UpTo(path, S) = SubSeq(path, 1, t)
          /\ path[t] \notin S
          /\ \A j \in DOMAIN path : j > t => path[j] \in S
    BY <1>2, <2>2 DEF UpTo
  <2>4. QED
    BY <1>0, <2>3
<1>3. QED
  BY <1>1, <1>2

\* The last component of a path and its last segment: a name or ".." both times, or
\* the path ends with ".".
LEMMA Endings ==
  ASSUME NEW path \in Paths, ~IsRoot(path), LastOf(path) # Empty
  PROVE  /\ LastComponent(path) \in Names \union {DotDot}
         /\ LastComponent(path) = LastOf(path) \/ LastOf(path) = Dot
<1>0. /\ DOMAIN path = 1..Len(path) /\ Len(path) \in Nat
      /\ \A i \in DOMAIN path : path[i] \in Names \union {Empty, Dot, DotDot}
  BY DEF Paths
<1>1. PICK u \in 0..Len(path) :
        /\ UpTo(path, {Empty, Dot}) = SubSeq(path, 1, u)
        /\ u > 0 => path[u] \notin {Empty, Dot}
        /\ \A j \in u + 1 .. Len(path) : path[j] \in {Empty, Dot}
  BY UpToEnd
<1>2. u > 0
  BY <1>0, <1>1 DEF IsRoot
<1>3. LastComponent(path) = path[u]
  <2>1. /\ Len(SubSeq(path, 1, u)) = u
        /\ \A i \in 1..u : SubSeq(path, 1, u)[i] = path[i]
    BY <1>0, FrontOfFront DEF Paths
  <2>2. u \in 1..u
    BY <1>2
  <2>3. QED
    BY <1>1, <2>1, <2>2 DEF LastComponent, LastOf
<1>4. u \in DOMAIN path
  BY <1>0, <1>2
<1>5. LastComponent(path) \in Names \union {DotDot}
  BY <1>0, <1>1, <1>2, <1>3, <1>4
<1>6. CASE u = Len(path)
  BY <1>3, <1>5, <1>6 DEF LastOf
<1>7. CASE u # Len(path)
  <2>1. Len(path) \in u + 1 .. Len(path)
    BY <1>0, <1>7
  <2>2. QED
    BY <1>1, <1>5, <2>1 DEF LastOf
<1>8. QED
  BY <1>6, <1>7

\* What parse_uri looks at in a turn: a part of the request's path that ends in
\* a segment, everything longer having been passed over.
LEMMA Turn ==
  ASSUME TypeOK, Busy, Parsing, phase = "parse"
  PROVE  \E t \in 0..Len(req.path) :
           /\ Trimmed(uri) = SubSeq(req.path, 1, t)
           /\ Trimmed(uri) \in Paths
           /\ Len(Trimmed(uri)) = t
           /\ \A i \in 1..t : Trimmed(uri)[i] = req.path[i]
           /\ t > 0 => req.path[t] # Empty
           /\ NoneLonger(t)
           /\ Len(uri) \in t..Len(req.path)
           /\ \A j \in t + 1 .. Len(uri) : req.path[j] = Empty
           /\ IsRoot(uri) <=> IsRoot(Trimmed(uri))
           /\ ~IsRoot(uri) => t > 0 /\ LastOf(Trimmed(uri)) = req.path[t]
<1>1. req.path \in Paths /\ uri \in Paths
  BY ThreadAssumption DEF TypeOK, Busy, Request
<1>2. /\ Len(uri) \in 0..Len(req.path)
      /\ uri = SubSeq(req.path, 1, Len(uri))
      /\ NoneLonger(Len(uri))
  BY <1>1 DEF Parsing, Paths
<1>3. PICK t \in 0..Len(uri) :
        /\ Trimmed(uri) = SubSeq(uri, 1, t)
        /\ t > 0 => uri[t] # Empty
        /\ \A j \in t + 1 .. Len(uri) : uri[j] = Empty
  <2>1. PICK t \in 0..Len(uri) :
          /\ UpTo(uri, {Empty}) = SubSeq(uri, 1, t)
          /\ t > 0 => uri[t] \notin {Empty}
          /\ \A j \in t + 1 .. Len(uri) : uri[j] \in {Empty}
    BY <1>1, UpToEnd
  <2>2. QED
    BY <2>1 DEF Trimmed
<1>4. /\ SubSeq(req.path, 1, t) \in Paths
      /\ Len(SubSeq(req.path, 1, t)) = t
      /\ \A i \in 1..t : SubSeq(req.path, 1, t)[i] = req.path[i]
      /\ SubSeq(SubSeq(req.path, 1, Len(uri)), 1, t) = SubSeq(req.path, 1, t)
  BY <1>1, <1>2, FrontOfFront DEF Paths
<1>5. \A i \in 1..Len(uri) : uri[i] = req.path[i]
  BY <1>1, <1>2, FrontOfFront DEF Paths
<1>6. Trimmed(uri) = SubSeq(req.path, 1, t)
  BY <1>2, <1>3, <1>4
<1>7. NoneLonger(t)
  <2>1. SUFFICES ASSUME NEW k \in t + 1 .. Len(req.path), req.path[k] # Empty
                 PROVE  Target(SubSeq(req.path, 1, k)) = {} /\ req.path[k] \in Names
    BY DEF NoneLonger
  <2>2. k > Len(uri)
    BY <1>1, <1>2, <1>3, <1>5, <2>1 DEF Paths
  <2>3. k \in Len(uri) + 1 .. Len(req.path)
    BY <1>1, <1>2, <2>2 DEF Paths
  <2>4. QED
    BY <1>2, <2>1, <2>3 DEF NoneLonger
<1>8. t \in 0..Len(req.path) /\ (t > 0 => req.path[t] # Empty)
  BY <1>1, <1>2, <1>3, <1>5 DEF Paths
<1>9. Len(uri) \in t..Len(req.path) /\ \A j \in t + 1 .. Len(uri) : req.path[j] = Empty
  BY <1>1, <1>2, <1>3, <1>5 DEF Paths
<1>10. Len(Trimmed(uri)) = t /\ \A i \in 1..t : Trimmed(uri)[i] = uri[i]
  BY <1>1, <1>2, <1>4, <1>5, <1>6 DEF Paths
<1>11. /\ IsRoot(uri) <=> \A i \in 1..Len(uri) : uri[i] \in {Empty, Dot}
       /\ IsRoot(Trimmed(uri)) <=> \A i \in 1..t : Trimmed(uri)[i] \in {Empty, Dot}
  <2>1. DOMAIN uri = 1..Len(uri) /\ DOMAIN Trimmed(uri) = 1..t
    BY <1>1, <1>4, <1>6 DEF Paths
  <2>2. QED
    BY <2>1 DEF IsRoot
<1>12. \A i \in 1..Len(uri) : i \in 1..t \/ i \in t + 1 .. Len(uri)
  BY <1>1, <1>2 DEF Paths
<1>13. IsRoot(uri) <=> IsRoot(Trimmed(uri))
  <2>1. \A i \in 1..t : i \in 1..Len(uri)
    BY <1>1, <1>2 DEF Paths
  <2>2. QED
    BY <1>3, <1>10, <1>11, <1>12, <2>1
<1>14. ~IsRoot(uri) => t > 0 /\ LastOf(Trimmed(uri)) = req.path[t]
  <2>1. ~IsRoot(uri) => t > 0
    BY <1>3, <1>11, <1>12
  <2>2. t > 0 => t \in 1..t
    BY <1>3
  <2>3. QED
    BY <1>4, <1>6, <2>1, <2>2 DEF LastOf
<1>15. QED
  BY <1>4, <1>6, <1>7, <1>8, <1>9, <1>13, <1>14

\* Empty segments do not count in what is left of a path.
LEMMA RestAfterEmpties ==
  ASSUME NEW path \in Paths, NEW l \in 0..Len(path), NEW t \in 0..l, NEW rest \in Seq(Names),
         \A j \in t + 1 .. l : path[j] = Empty, RestOfPath(path, l, rest)
  PROVE  RestOfPath(path, t, rest)
<1>1. Len(path) \in Nat /\ Len(rest) \in Nat
  BY DEF Paths
<1>2. PICK at \in [1..Len(rest) -> l + 1 .. Len(path)] :
        /\ \A i \in 1..Len(rest) : rest[i] = path[at[i]]
        /\ \A i, j \in 1..Len(rest) : i < j => at[i] < at[j]
        /\ \A k \in l + 1 .. Len(path) : path[k] = Empty \/ \E i \in 1..Len(rest) : at[i] = k
  BY DEF RestOfPath
<1>3. at \in [1..Len(rest) -> t + 1 .. Len(path)]
  BY <1>1, <1>2
<1>4. \A k \in t + 1 .. Len(path) : k \in t + 1 .. l \/ k \in l + 1 .. Len(path)
  BY <1>1
<1>5. \A k \in t + 1 .. Len(path) : path[k] = Empty \/ \E i \in 1..Len(rest) : at[i] = k
  BY <1>2, <1>4
<1>6. QED
  BY <1>2, <1>3, <1>5 DEF RestOfPath

\* What is left of a path gets the segment before it.
LEMMA RestWithOneMore ==
  ASSUME NEW path \in Paths, NEW t \in 1..Len(path), NEW rest \in Seq(Names),
         path[t] \in Names, RestOfPath(path, t, rest)
  PROVE  RestOfPath(path, t - 1, <<path[t]>> \o rest)
<1> DEFINE longer == <<path[t]>> \o rest
           len == Len(rest)
<1>1. Len(path) \in Nat /\ len \in Nat
  BY DEF Paths
<1>2. PICK at \in [1..len -> t + 1 .. Len(path)] :
        /\ \A i \in 1..len : rest[i] = path[at[i]]
        /\ \A i, j \in 1..len : i < j => at[i] < at[j]
        /\ \A k \in t + 1 .. Len(path) : path[k] = Empty \/ \E i \in 1..len : at[i] = k
  BY DEF RestOfPath
<1>3. /\ Len(longer) = len + 1
      /\ longer[1] = path[t]
      /\ \A i \in 2..len + 1 : longer[i] = rest[i - 1]
  <2>1. <<path[t]>> \in Seq(Names) /\ Len(<<path[t]>>) = 1 /\ <<path[t]>>[1] = path[t]
    OBVIOUS
  <2>2. QED
    BY <1>1, <2>1, ConcatProperties
<1> DEFINE with == [i \in 1..len + 1 |-> IF i = 1 THEN t ELSE at[i - 1]]
<1>4. \A i \in 2..len + 1 : i - 1 \in 1..len /\ with[i] = at[i - 1]
  BY <1>1
<1>5. with[1] = t /\ 1 \in 1..len + 1
  BY <1>1
<1>6. \A i \in 1..len + 1 : i = 1 \/ i \in 2..len + 1
  BY <1>1
<1>7. with \in [1..len + 1 -> (t - 1) + 1 .. Len(path)]
  <2>1. \A i \in 2..len + 1 : at[i - 1] \in (t - 1) + 1 .. Len(path)
    <3>1. t + 1 .. Len(path) \subseteq (t - 1) + 1 .. Len(path)
      BY <1>1
    <3>2. \A i \in 1..len : at[i] \in t + 1 .. Len(path)
      BY <1>2
    <3> HIDE DEF len
    <3>3. QED
      BY <1>4, <3>1, <3>2
  <2>2. t \in (t - 1) + 1 .. Len(path)
    BY <1>1
  <2>3. QED
    BY <1>6, <2>1, <2>2
<1> HIDE DEF longer, len, with
<1>8. \A i \in 1..len + 1 : longer[i] = path[with[i]]
  BY <1>2, <1>3, <1>4, <1>5, <1>6
<1>9. \A i, j \in 1..len + 1 : i < j => with[i] < with[j]
  <2>1. SUFFICES ASSUME NEW i \in 1..len + 1, NEW j \in 1..len + 1, i < j
                 PROVE  with[i] < with[j]
    OBVIOUS
  <2>2. j \in 2..len + 1 /\ j - 1 \in 1..len /\ with[j] = at[j - 1] /\ at[j - 1] \in t + 1 .. Len(path)
    BY <1>1, <1>2, <1>4, <2>1
  <2>3. CASE i = 1
    BY <1>1, <1>5, <2>2, <2>3
  <2>4. CASE i \in 2..len + 1
    <3>1. i - 1 \in 1..len /\ with[i] = at[i - 1] /\ i - 1 < j - 1
      BY <1>1, <1>4, <2>1, <2>4
    <3>2. QED
      BY <1>2, <2>2, <3>1
  <2>5. QED
    BY <1>6, <2>3, <2>4
<1>10. \A k \in (t - 1) + 1 .. Len(path) : path[k] = Empty \/ \E i \in 1..len + 1 : with[i] = k
  <2>1. SUFFICES ASSUME NEW k \in (t - 1) + 1 .. Len(path), path[k] # Empty
                 PROVE  \E i \in 1..len + 1 : with[i] = k
    OBVIOUS
  <2>2. k = t \/ k \in t + 1 .. Len(path)
    BY <1>1
  <2>3. CASE k = t
    BY <1>5, <2>3
  <2>4. CASE k \in t + 1 .. Len(path)
    <3>1. PICK i \in 1..len : at[i] = k
      BY <1>2, <2>1, <2>4
    <3>2. i + 1 \in 2..len + 1 /\ i + 1 \in 1..len + 1 /\ (i + 1) - 1 = i
      BY <1>1
    <3>3. with[i + 1] = k
      BY <1>4, <3>1, <3>2
    <3>4. QED
      BY <3>2, <3>3
  <2>5. QED
    BY <2>2, <2>3, <2>4
<1>11. RestOfPath(path, t - 1, longer)
  <2>1. \E f \in [1..Len(longer) -> (t - 1) + 1 .. Len(path)] :
          /\ \A i \in 1..Len(longer) : longer[i] = path[f[i]]
          /\ \A i, j \in 1..Len(longer) : i < j => f[i] < f[j]
          /\ \A k \in (t - 1) + 1 .. Len(path) :
               path[k] = Empty \/ \E i \in 1..Len(longer) : f[i] = k
    <3>1. Len(longer) = len + 1
      BY <1>3
    <3>2. with \in [1..Len(longer) -> (t - 1) + 1 .. Len(path)]
      BY <1>7, <3>1
    <3>3. /\ \A i \in 1..Len(longer) : longer[i] = path[with[i]]
          /\ \A i, j \in 1..Len(longer) : i < j => with[i] < with[j]
          /\ \A k \in (t - 1) + 1 .. Len(path) :
               path[k] = Empty \/ \E i \in 1..Len(longer) : with[i] = k
      BY <1>8, <1>9, <1>10, <3>1
    <3> WITNESS with \in [1..Len(longer) -> (t - 1) + 1 .. Len(path)]
    <3>4. QED
      BY <3>3
  <2>2. QED
    BY <2>1, Zenon DEF RestOfPath
<1>12. QED
  BY <1>11 DEF longer

\* A read takes at most what is announced and what there is, and a short one
\* takes all of it.
LEMMA BlockBounds ==
  ASSUME TypeOK, Busy, Reading, phase = "run", NEW k \in 1..MaxBuf
  PROVE  /\ Block(k) \in 0..Len(body)
         /\ readBytes + Block(k) \in 0..length
         /\ Block(k) < k => readBytes + Block(k) = length
<1>1. /\ length \in Nat /\ readBytes \in 0..length /\ k \in Nat /\ body \in Seq(Bytes)
      /\ req \in Requests /\ req.body \in Seq(Bytes)
  BY ThreadAssumption DEF TypeOK, Busy, Request
<1>2. length = req.length /\ length \in {0, Len(req.body)}
  BY <1>1, LengthAssumption DEF Reading
<1>3. readBytes \in 0..Len(req.body)
  BY <1>1 DEF Reading
<1>4. Len(body) = Len(req.body) - readBytes
  BY <1>1, <1>3, RestOfRest DEF Reading
<1>5. CASE length = 0 \/ readBytes >= length
  BY <1>1, <1>5 DEF Block
<1>6. CASE ~(length = 0 \/ readBytes >= length)
  <2>1. Len(body) = length - readBytes
    BY <1>1, <1>2, <1>4, <1>6
  <2>2. Block(k) = IF k < length - readBytes THEN k ELSE length - readBytes
    BY <1>1, <1>6, <2>1 DEF Block
  <2>3. QED
    BY <1>1, <1>6, <2>1, <2>2
<1>7. QED
  BY <1>5, <1>6
-----------------------------------------------------------------------------
(* The invariant is inductive: one lemma for each part. *)

\* Init satisfies the invariant.
LEMMA Initially == Init => IInv
<1> SUFFICES ASSUME Init PROVE IInv
  OBVIOUS
<1>1. TypeOK
  <2>1. <<>> \in Paths /\ <<>> \in Seq(Names) /\ <<>> \in Seq(Bytes)
    BY EmptySeq DEF Paths
  <2>2. n \in 0..MaxRequests /\ info \in [Fields -> 0..n] /\ length \in Nat /\ readBytes \in 0..length
    BY ThreadAssumption DEF Init
  <2>3. live \subseteq Fields \X (1..n) /\ failed \subseteq 1..n /\ server \subseteq Server
    BY DEF Init
  <2>4. postRead \in BOOLEAN /\ misfreed = {} /\ phase = "idle" /\ req = NoRequest
    BY DEF Init
  <2>5. /\ uri = <<>> /\ pathInfo = <<>> /\ script = <<>> /\ body = <<>> /\ post = <<>>
        /\ code = 0 /\ head = {} /\ set = 0
    BY DEF Init
  <2>6. QED
    BY <2>1, <2>2, <2>3, <2>4, <2>5 DEF TypeOK
<1>2. Busy /\ Strings
  BY DEF Init, Busy, Strings
<1>3. Reading
  BY DEF Init, Reading, PostIsComplete
<1>4. Parsing
  BY DEF Init, Parsing, MostSpecific
<1>5. Answering /\ Keeping
  BY DEF Init, Answering, OwnStatus, Keeping, PathIsKept
<1>6. QED
  BY <1>1, <1>2, <1>3, <1>4, <1>5 DEF IInv

\* What StartupFails and StartupSucceeds do with the cookies keeps the types.
LEMMA CookieTypes ==
  ASSUME TypeOK, Busy, phase # "idle", ReadCookies
  PROVE  info' \in [Fields -> 0..n] /\ live' \subseteq Fields \X (1..n)
<1>1. req.has \subseteq Fields /\ n \in Nat /\ n \in 1..n /\ n \in 0..n
  BY ThreadAssumption DEF TypeOK, Busy, Request
<1>2. info' \in [Fields -> 0..n]
  <2>1. info \in [Fields -> 0..n]
    BY DEF TypeOK
  <2>2. CASE "cookie_data" \in req.has
    BY <1>1, <2>1, <2>2 DEF ReadCookies
  <2>3. CASE "cookie_data" \notin req.has
    <3>1. info' = [info EXCEPT !["cookie_data"] = 0]
      BY <2>3 DEF ReadCookies
    <3>2. 0 \in 0..n
      BY <1>1
    <3>3. QED
      BY <2>1, <3>1, <3>2
  <2>4. QED
    BY <2>2, <2>3
<1>3. live' \subseteq Fields \X (1..n)
  BY <1>1 DEF ReadCookies, TypeOK
<1>4. QED
  BY <1>2, <1>3

\* Strings that are freed are strings of requests that came.
LEMMA FreeTypes ==
  ASSUME TypeOK, NEW P, NEW F, P \subseteq Fields, F \subseteq Fields, Free(P, F)
  PROVE  live' \subseteq Fields \X (1..n) /\ misfreed' \subseteq Fields \X (1..n)
<1>1. n \in Nat /\ info \in [Fields -> 0..n]
  BY ThreadAssumption DEF TypeOK
<1>2. \A f \in Fields : info[f] # 0 => info[f] \in 1..n
  BY <1>1
<1>3. Pointed(P) \subseteq Fields \X (1..n) /\ Pointed(F) \subseteq Fields \X (1..n)
  BY <1>2 DEF Pointed
<1>4. QED
  BY <1>3 DEF Free, TypeOK

\* A head that is sent has a status.
LEMMA HeadType == ASSUME TypeOK, SendHead PROVE head' \subseteq 100..999
<1>1. FromSapiHeaders(code) \subseteq 100..999 /\ {200} \subseteq 100..999
  BY DEF FromSapiHeaders
<1>2. QED
  BY <1>1 DEF SendHead, TypeOK

\* Every step keeps the types, and a request while the thread is busy.
LEMMA TypeStep == IInv /\ [Next]_vars => TypeOK' /\ Busy'
<1> SUFFICES ASSUME IInv, [Next]_vars PROVE TypeOK' /\ Busy'
  OBVIOUS
<1> USE DEF IInv
<1>0. /\ Requests \subseteq Request /\ MaxRequests \in Nat /\ n \in Nat
      /\ Index \in Names
      /\ phase # "idle" => /\ req.path \in Paths /\ req.has \subseteq Fields
                           /\ req.body \in Seq(Bytes) /\ req.length \in Nat
                           /\ req.codes \subseteq Int
  BY ThreadAssumption DEF TypeOK, Busy, Request
<1>1. ASSUME NEW r \in Requests, Take(r) PROVE TypeOK' /\ Busy'
  <2>1. r \in Request
    BY <1>0
  <2>2. n' \in 0..MaxRequests /\ n' > 0 /\ 0..n \subseteq 0..n' /\ 1..n \subseteq 1..n'
    BY <1>0, <1>1 DEF Take
  <2>3. info' \in [Fields -> 0..n'] /\ length' \in Nat /\ readBytes' \in 0..length' /\ postRead' = FALSE
    BY <1>0, <1>1, <2>2 DEF Take, FreshGlobals
  <2>4. live' \subseteq Fields \X (1..n') /\ misfreed' \subseteq Fields \X (1..n') /\ failed' \subseteq 1..n'
    BY <1>1, <2>2 DEF Take, TypeOK, strings
  <2>5. pathInfo' \in Seq(Names) /\ script' \in Paths /\ post' \in Seq(Bytes) /\ server' \subseteq Server
    BY <1>1, EmptySeq DEF Take, Paths
  <2>6. uri' \in Paths /\ req' \in Requests /\ body' \in Seq(Bytes) /\ phase' = "parse"
    BY <1>1, <2>1 DEF Take, Request
  <2>7. code' \in Int /\ head' \subseteq 100..999 /\ set' \in Int
    BY <1>1 DEF Take, FreshGlobals
  <2>8. QED
    BY <2>2, <2>3, <2>4, <2>5, <2>6, <2>7 DEF TypeOK, Busy
<1>2. CASE Rest
  BY <1>2 DEF Rest, TypeOK, Busy, vars, request, given, answer, globals, strings
<1>3. CASE ParseRoot
  <2>1. script' \in Paths
    BY <1>0, <1>3 DEF ParseRoot, Paths
  <2>2. QED
    BY <1>3, <2>1 DEF ParseRoot, TypeOK, Busy, answer, globals, strings
<1>4. CASE ParseFile
  <2>1. script' \in Paths
    BY <1>4, Turn DEF ParseFile
  <2>2. QED
    BY <1>4, <2>1 DEF ParseFile, TypeOK, Busy, answer, globals, strings
<1>5. CASE ParseIndex
  <2>1. Trimmed(uri) \in Paths
    BY <1>5, Turn DEF ParseIndex
  <2>2. script' \in Paths
    BY <1>0, <1>5, <2>1, AppendProperties DEF ParseIndex, Paths
  <2>3. QED
    BY <1>5, <2>2 DEF ParseIndex, TypeOK, Busy, answer, globals, strings
<1>6. CASE ParseParent
  <2>1. PICK t \in 0..Len(req.path) :
          /\ Trimmed(uri) \in Paths
          /\ Len(Trimmed(uri)) = t
          /\ t > 0 => req.path[t] # Empty
          /\ ~IsRoot(Trimmed(uri))
          /\ t > 0 /\ LastOf(Trimmed(uri)) = req.path[t]
    BY <1>6, Turn DEF ParseParent, NothingHere
  <2>2. LastOf(Trimmed(uri)) \in Names
    BY <1>6, <2>1, Endings DEF ParseParent
  <2>3. pathInfo' \in Seq(Names)
    <3>1. <<LastOf(Trimmed(uri))>> \in Seq(Names) /\ pathInfo \in Seq(Names)
      BY <2>2 DEF TypeOK
    <3>2. QED
      BY <1>6, <3>1, ConcatProperties DEF ParseParent, SuffixFirst
  <2>4. uri' \in Paths
    <3>1. uri' = SubSeq(Trimmed(uri), 1, t - 1)
      BY <1>6, <2>1 DEF ParseParent
    <3>2. t \in 0..t /\ t - 1 \in 0..t
      BY <2>1
    <3>3. QED
      BY <2>1, <3>1, <3>2, FrontOfFront DEF Paths
  <2>5. QED
    BY <1>6, <2>3, <2>4 DEF ParseParent, NothingHere, TypeOK, Busy, answer, globals, strings
<1>6a. CASE ParseNoName
  BY <1>6a DEF ParseNoName, NothingHere, TypeOK, Busy, given, answer, globals, strings
<1>6b. CASE ParseNoSuffix
  <2>1. pathInfo' \in Seq(Names)
    BY <1>6b, EmptySeq DEF ParseNoSuffix
  <2>2. QED
    BY <1>6b, <2>1 DEF ParseNoSuffix, NothingHere, TypeOK, Busy, answer, globals, strings
<1>7. CASE Populate
  <2>1. n \in 0..n /\ n \in 1..n /\ Lent \subseteq Fields
    BY <1>0, <1>7 DEF Populate, Lent, Busy
  <2>2. info' \in [Fields -> 0..n]
    BY <1>7, <2>1 DEF Populate, TypeOK
  <2>3. live' \subseteq Fields \X (1..n)
    BY <1>7, <2>1 DEF Populate, TypeOK
  <2>4. length' \in Nat /\ readBytes' \in 0..length'
    BY <1>0, <1>7 DEF Populate, Reading
  <2>5. QED
    BY <1>7, <2>2, <2>3, <2>4 DEF Populate, TypeOK, Busy, request, given, answer
<1>8. CASE StartupFails
  <2>1. info' \in [Fields -> 0..n] /\ live' \subseteq Fields \X (1..n)
    BY <1>8, CookieTypes DEF StartupFails, TypeOK
  <2>2. failed' \subseteq 1..n
    <3>1. n \in 1..n
      BY <1>0, <1>8 DEF StartupFails, Busy
    <3>2. QED
      BY <1>8, <3>1 DEF StartupFails, TypeOK
  <2>3. QED
    BY <1>8, <2>1, <2>2 DEF StartupFails, TypeOK, Busy, request, given, answer
<1>9. CASE StartupSucceeds
  <2>1. info' \in [Fields -> 0..n] /\ live' \subseteq Fields \X (1..n)
    BY <1>9, CookieTypes DEF StartupSucceeds
  <2>2. readBytes' \in 0..length'
    BY <1>9 DEF StartupSucceeds, TypeOK
  <2>3. QED
    BY <1>9, <2>1, <2>2 DEF StartupSucceeds, TypeOK, Busy, request, given, answer
<1>10. ASSUME NEW k \in 1..MaxBuf, ReadPost(k) PROVE TypeOK' /\ Busy'
  <2>1. Block(k) \in 0..Len(body) /\ readBytes + Block(k) \in 0..length
    BY <1>10, BlockBounds DEF ReadPost
  <2>2. post' \in Seq(Bytes) /\ body' \in Seq(Bytes)
    <3>1. body \in Seq(Bytes) /\ post \in Seq(Bytes)
      BY DEF TypeOK
    <3>2. SubSeq(body, 1, Block(k)) \in Seq(Bytes)
      BY <2>1, <3>1, SubSeqProperties
    <3>3. SubSeq(body, Block(k) + 1, Len(body)) \in Seq(Bytes)
      BY <2>1, <3>1, SubSeqProperties
    <3>4. QED
      BY <1>10, <3>1, <3>2, <3>3, ConcatProperties DEF ReadPost
  <2>3. postRead' \in BOOLEAN
    BY <1>10 DEF ReadPost
  <2>4. readBytes' \in 0..length'
    BY <1>10, <2>1 DEF ReadPost
  <2>5. QED
    BY <1>10, <2>2, <2>3, <2>4 DEF ReadPost, TypeOK, Busy, given, answer, strings
<1>11. CASE RegisterServerVariables
  <2>1. script \o pathInfo \in Paths
    <3>1. pathInfo \in Paths /\ script \in Paths
      BY SeqMonotonic DEF TypeOK, Paths
    <3>2. QED
      BY <3>1, ConcatProperties DEF Paths
  <2>2. server' \subseteq Server
    BY <1>0, <1>11, <2>1 DEF RegisterServerVariables, Server, TypeOK, Paths
  <2>3. QED
    BY <1>11, <2>2 DEF RegisterServerVariables, TypeOK, Busy, given, answer, globals, strings
<1>12. CASE Deactivate
  <2>1. head' \subseteq 100..999
    BY <1>12, HeadType DEF Deactivate
  <2>2. live' \subseteq Fields \X (1..n) /\ misfreed' \subseteq Fields \X (1..n)
    BY <1>12, FreeTypes DEF Deactivate, Freed, Fields, Auth
  <2>3. QED
    BY <1>12, <2>1, <2>2 DEF Deactivate, TypeOK, Busy, given, globals
<1>13. CASE Epilogue
  <2>1. live' \subseteq Fields \X (1..n) /\ misfreed' \subseteq Fields \X (1..n)
    BY <1>13, FreeTypes DEF Epilogue, Fields
  <2>2. QED
    BY <1>13, <2>1 DEF Epilogue, TypeOK, Busy, request, given, answer, globals
<1>14. ASSUME NEW rc \in req.codes, SetCode(rc) PROVE TypeOK' /\ Busy'
  <2>1. rc \in Int
    BY <1>0, <1>14 DEF SetCode
  <2>2. QED
    BY <1>14, <2>1 DEF SetCode, TypeOK, Busy, given, strings
<1>15. CASE SendEarly
  <2>1. head' \subseteq 100..999
    BY <1>15, HeadType DEF SendEarly
  <2>2. QED
    BY <1>15, <2>1 DEF SendEarly, TypeOK, Busy, given, globals, strings
<1>16. CASE UNCHANGED vars
  BY <1>16 DEF TypeOK, Busy, vars, request, given, answer, globals, strings
<1>17. QED
  BY <1>1, <1>2, <1>3, <1>4, <1>5, <1>6, <1>6a, <1>6b, <1>7, <1>8, <1>9, <1>10, <1>11, <1>12, <1>13,
     <1>14, <1>15, <1>16 DEF Next

\* Every step keeps the account of the strings: what is allocated, lent and freed.
LEMMA StringsStep == IInv /\ [Next]_vars => Strings'
<1> SUFFICES ASSUME IInv, [Next]_vars PROVE Strings'
  OBVIOUS
<1> USE DEF IInv
<1>0. /\ n \in Nat
      /\ phase # "idle" => /\ req.has \subseteq Fields /\ n > 0
                           /\ "path_translated" \in req.has
  BY ThreadAssumption DEF TypeOK, Busy, Request
<1>1. ASSUME NEW r \in Requests, Take(r) PROVE Strings'
  BY <1>1 DEF Take, FreshGlobals, Strings, strings
<1>2. CASE Rest
  BY <1>2 DEF Rest, Strings, Lent, vars, request, given, globals, strings
<1>3. CASE ParseRoot
  BY <1>3 DEF ParseRoot, Strings, globals, strings
<1>4. CASE ParseFile
  BY <1>4 DEF ParseFile, Strings, globals, strings
<1>5. CASE ParseIndex
  BY <1>5 DEF ParseIndex, Strings, globals, strings
<1>6. CASE ParseParent
  BY <1>6 DEF ParseParent, NothingHere, Strings, globals, strings
<1>6a. CASE ParseNoName
  BY <1>6a DEF ParseNoName, NothingHere, Strings, given, globals, strings
<1>6b. CASE ParseNoSuffix
  BY <1>6b DEF ParseNoSuffix, NothingHere, Strings, globals, strings
<1>7. CASE Populate
  <2>1. Lent' = Lent /\ phase' = "startup" /\ n' = n /\ failed' = failed
    BY <1>7 DEF Populate, Lent, request, given
  <2>2. info' = [f \in Fields |-> IF f \in Lent THEN n ELSE 0]
    BY <1>7 DEF Populate, Strings
  <2>3. /\ \A s \in live' : s[2] \in failed \/ (s[2] = n /\ s[1] \in Lent)
        /\ \A f \in Lent : <<f, n>> \in live'
    BY <1>7 DEF Populate, Strings
  <2>4. \A s \in misfreed' : s[1] \in Auth
    BY <1>7 DEF Populate, Strings
  <2>5. QED
    BY <2>1, <2>2, <2>3, <2>4 DEF Strings
<1>8. CASE StartupFails
  <2>1. live' \subseteq live \union {<<"cookie_data", n>>}
    BY <1>8 DEF StartupFails, ReadCookies
  <2>2. \A s \in live' : s[2] \in failed'
    BY <1>8, <2>1 DEF StartupFails, Strings
  <2>3. QED
    BY <1>8, <2>2 DEF StartupFails, Strings
<1>9. CASE StartupSucceeds
  <2>1. phase = "startup" /\ phase' = "run" /\ ReadCookies
    BY <1>9 DEF StartupSucceeds
  <2>2. n' = n /\ req' = req /\ failed' = failed /\ misfreed' = misfreed
    BY <1>9 DEF StartupSucceeds, request, given
  <2>3. info' = [f \in Fields |-> IF f \in req.has THEN n ELSE 0]
    <3>1. info = [f \in Fields |-> IF f \in Lent THEN n ELSE 0]
      BY <2>1 DEF Strings
    <3>2. \A f \in Fields : info'[f] = IF f \in req.has THEN n ELSE 0
      BY <2>1, <3>1 DEF ReadCookies, Lent
    <3>3. info' = [f \in Fields |-> info'[f]]
      BY <2>1, <3>1 DEF ReadCookies
    <3>4. QED
      BY <3>2, <3>3
  <2>4. \A s \in live' : s[2] \in failed \/ (s[2] = n /\ s[1] \in req.has)
    BY <2>1 DEF ReadCookies, Strings, Lent
  <2>5. \A f \in req.has : <<f, n>> \in live'
    BY <2>1 DEF ReadCookies, Strings, Lent
  <2>6. QED
    BY <2>1, <2>2, <2>3, <2>4, <2>5 DEF Strings
<1>10. ASSUME NEW k \in 1..MaxBuf, ReadPost(k) PROVE Strings'
  BY <1>10 DEF ReadPost, Strings, Lent, given, strings
<1>11. CASE RegisterServerVariables
  BY <1>11 DEF RegisterServerVariables, Strings, Lent, given, globals, strings
<1>12. CASE Deactivate
  <2>1. /\ phase = "run" /\ phase' = "freed" /\ n' = n /\ info' = info /\ failed' = failed
        /\ Free(Auth, Freed)
    BY <1>12 DEF Deactivate, globals
  <2>2. info = [f \in Fields |-> IF f \in req.has THEN n ELSE 0]
    BY <2>1 DEF Strings
  <2>3. /\ \A f \in Fields : info[f] # 0 <=> f \in req.has
        /\ \A f \in req.has : info[f] = n
    BY <1>0, <2>1, <2>2
  <2>4. /\ Pointed(Auth) = {<<f, n>> : f \in req.has \intersect Auth}
        /\ Pointed(Freed) = {<<f, n>> : f \in req.has \ {"path_translated"}}
    <3>1. /\ {g \in Auth : info[g] # 0} = req.has \intersect Auth
          /\ {g \in Freed : info[g] # 0} = req.has \ {"path_translated"}
      <4>1. Auth \subseteq Fields /\ Freed = Fields \ {"path_translated"} /\ req.has \subseteq Fields
        BY <1>0, <2>1 DEF Auth, Fields, Freed
      <4>2. QED
        BY <2>3, <4>1
    <3>2. QED
      BY <2>3, <3>1 DEF Pointed
  <2>5. /\ live' = (live \ Pointed(Auth)) \ Pointed(Freed)
        /\ misfreed' = misfreed \union (Pointed(Auth) \ live)
                         \union (Pointed(Freed) \ (live \ Pointed(Auth)))
    BY <2>1 DEF Free
  <2>6. \A s \in misfreed' : s[1] \in Auth
    <3>1. \A f \in req.has : <<f, n>> \in live
      BY <2>1 DEF Strings
    <3>2. \A s \in Pointed(Auth) : s[1] \in Auth
      BY <2>4
    <3>3. Pointed(Freed) \subseteq live
      BY <2>4, <3>1
    <3>4. QED
      BY <2>5, <3>2, <3>3 DEF Strings
  <2>7. \A s \in live' : s[2] \in failed \/ s = <<"path_translated", n>>
    <3>1. live \subseteq Fields \X (1..n)
      BY DEF TypeOK
    <3>2. SUFFICES ASSUME NEW s \in live', s[2] \notin failed PROVE s = <<"path_translated", n>>
      OBVIOUS
    <3>3. s \in live /\ s \notin Pointed(Freed) /\ s = <<s[1], s[2]>>
      BY <2>5, <3>1
    <3>4. s[2] = n /\ s[1] \in req.has
      BY <2>1, <3>2, <3>3 DEF Strings
    <3>5. QED
      BY <2>4, <3>3, <3>4
  <2>8. info'["path_translated"] = n /\ <<"path_translated", n>> \in live'
    <3>1. <<"path_translated", n>> \in live
      BY <1>0, <2>1 DEF Strings
    <3>2. "path_translated" \notin Auth
      BY DEF Auth
    <3>3. QED
      BY <1>0, <2>1, <2>3, <2>4, <2>5, <3>1, <3>2
  <2>9. QED
    BY <2>1, <2>6, <2>7, <2>8 DEF Strings
<1>13. CASE Epilogue
  <2>1. phase = "freed" /\ phase' = "idle" /\ failed' = failed /\ Free({}, {"path_translated"})
    BY <1>13 DEF Epilogue
  <2>2. Pointed({}) = {} /\ Pointed({"path_translated"}) = {<<"path_translated", n>>}
    <3>1. {g \in {"path_translated"} : info[g] # 0} = {"path_translated"}
      BY <1>0, <2>1 DEF Strings
    <3>2. QED
      BY <2>1, <3>1 DEF Pointed, Strings
  <2>3. /\ live' = live \ {<<"path_translated", n>>}
        /\ misfreed' = misfreed
    BY <2>1, <2>2 DEF Free, Strings
  <2>4. QED
    BY <2>1, <2>3 DEF Strings
<1>14. ASSUME NEW rc \in req.codes, SetCode(rc) PROVE Strings'
  BY <1>14 DEF SetCode, Strings, Lent, given, strings
<1>15. CASE SendEarly
  BY <1>15 DEF SendEarly, Strings, Lent, given, globals, strings
<1>16. CASE UNCHANGED vars
  BY <1>16 DEF Strings, Lent, vars, request, given, globals, strings
<1>17. QED
  BY <1>1, <1>2, <1>3, <1>4, <1>5, <1>6, <1>6a, <1>6b, <1>7, <1>8, <1>9, <1>10, <1>11, <1>12, <1>13,
     <1>14, <1>15, <1>16 DEF Next

\* Every step keeps the body in two parts, what PHP has read and what is left.
LEMMA ReadingStep == IInv /\ [Next]_vars => Reading'
<1> SUFFICES ASSUME IInv, [Next]_vars PROVE Reading'
  OBVIOUS
<1> USE DEF IInv
<1>1. ASSUME NEW r \in Requests, Take(r) PROVE Reading'
  BY <1>1 DEF Take, FreshGlobals, Reading, PostIsComplete
<1>2. CASE Rest
  BY <1>2 DEF Rest, Reading, PostIsComplete, vars, request, given, globals
<1>3. CASE ParseRoot
  BY <1>3 DEF ParseRoot, Reading, PostIsComplete, globals
<1>4. CASE ParseFile
  BY <1>4 DEF ParseFile, Reading, PostIsComplete, globals
<1>5. CASE ParseIndex
  BY <1>5 DEF ParseIndex, Reading, PostIsComplete, globals
<1>6. CASE ParseParent
  BY <1>6 DEF ParseParent, NothingHere, Reading, PostIsComplete, globals
<1>6a. CASE ParseNoName
  BY <1>6a DEF ParseNoName, NothingHere, Reading, PostIsComplete, given, globals
<1>6b. CASE ParseNoSuffix
  BY <1>6b DEF ParseNoSuffix, NothingHere, Reading, PostIsComplete, globals
<1>7. CASE Populate
  BY <1>7 DEF Populate, Reading, PostIsComplete, request, given
<1>8. CASE StartupFails
  BY <1>8 DEF StartupFails, Reading, PostIsComplete, request, given
<1>9. CASE StartupSucceeds
  <2>1. req.body \in Seq(Bytes) /\ Len(req.body) \in Nat
    BY <1>9, ThreadAssumption, LenProperties DEF StartupSucceeds, TypeOK, Busy, Request
  <2>2. SubSeq(req.body, 1, 0) = <<>> /\ SubSeq(req.body, 1, Len(req.body)) = req.body
    BY <2>1, SubSeqEmpty, SubSeqFull
  <2>3. phase = "startup" /\ phase' = "run" /\ req' = req /\ body' = body /\ post' = post
        /\ readBytes' = 0 /\ ~postRead' /\ length' = length
    BY <1>9 DEF StartupSucceeds, request, given
  <2>4. body' = SubSeq(req.body, 0 + 1, Len(req.body)) /\ post' = SubSeq(req.body, 1, 0)
    BY <2>2, <2>3 DEF Reading
  <2>5. length' = req.length
    BY <2>3 DEF Reading
  <2>6. QED
    BY <2>1, <2>3, <2>4, <2>5 DEF Reading, PostIsComplete
<1>10. ASSUME NEW k \in 1..MaxBuf, ReadPost(k) PROVE Reading'
  <2>1. phase = "run" /\ phase' = "run" /\ req' = req /\ length' = length
    BY <1>10 DEF ReadPost, given
  <2>2. /\ req.body \in Seq(Bytes) /\ readBytes \in 0..Len(req.body)
        /\ length = req.length /\ length \in {0, Len(req.body)}
        /\ readBytes \in 0..length /\ Len(req.body) \in Nat /\ k \in Nat
    BY <2>1, ThreadAssumption, LengthAssumption, LenProperties DEF TypeOK, Busy, Request, Reading
  <2>3. /\ Block(k) \in 0..Len(body)
        /\ readBytes + Block(k) \in 0..length
        /\ Block(k) < k => readBytes + Block(k) = length
    BY <2>1, BlockBounds
  <2>4. body = SubSeq(req.body, readBytes + 1, Len(req.body)) /\ post = SubSeq(req.body, 1, readBytes)
    BY <2>1 DEF Reading
  <2>5. Len(body) = Len(req.body) - readBytes
    BY <2>2, <2>4, RestOfRest
  <2>6. /\ SubSeq(body, 1, Block(k)) = SubSeq(req.body, readBytes + 1, readBytes + Block(k))
        /\ SubSeq(body, Block(k) + 1, Len(body)) = SubSeq(req.body, readBytes + Block(k) + 1, Len(req.body))
    <3>1. Block(k) \in 0..(Len(req.body) - readBytes)
      BY <2>3, <2>5
    <3>2. QED
      BY <2>2, <2>4, <3>1, RestOfRest
  <2>7. post' = SubSeq(req.body, 1, readBytes')
    <3>1. post' = SubSeq(req.body, 1, readBytes) \o SubSeq(req.body, readBytes + 1, readBytes + Block(k))
      BY <1>10, <2>4, <2>6 DEF ReadPost
    <3>2. /\ 1 \in 1..Len(req.body) + 1
          /\ readBytes \in 1 - 1 .. Len(req.body)
          /\ readBytes + Block(k) \in readBytes .. Len(req.body)
      BY <2>2, <2>3
    <3> DEFINE r == readBytes
               e == readBytes + Block(k)
    <3> HIDE DEF r, e
    <3>3. 1 \in 1..Len(req.body) + 1 /\ r \in 1 - 1 .. Len(req.body) /\ e \in r..Len(req.body)
      BY <3>2 DEF r, e
    <3>4. SubSeq(req.body, 1, r) \o SubSeq(req.body, r + 1, e) = SubSeq(req.body, 1, e)
      BY <2>2, <3>3, ConcatAdjacentSubSeq
    <3>5. readBytes' = e
      BY <1>10 DEF ReadPost, e
    <3>6. QED
      BY <3>1, <3>4, <3>5 DEF r, e
  <2>8. body' = SubSeq(req.body, readBytes' + 1, Len(req.body)) /\ readBytes' <= Len(req.body)
    <3>1. readBytes' = readBytes + Block(k) /\ body' = SubSeq(body, Block(k) + 1, Len(body))
      BY <1>10 DEF ReadPost
    <3>2. readBytes + Block(k) <= Len(req.body)
      BY <2>2, <2>3
    <3>3. QED
      BY <2>6, <3>1, <3>2
  <2>9. postRead' => readBytes' = length
    BY <1>10, <2>3 DEF ReadPost
  <2>10. QED
    BY <2>1, <2>2, <2>7, <2>8, <2>9 DEF Reading, PostIsComplete
<1>11. CASE RegisterServerVariables
  BY <1>11 DEF RegisterServerVariables, Reading, PostIsComplete, given, globals
<1>12. CASE Deactivate
  BY <1>12 DEF Deactivate, Reading, PostIsComplete, given, globals
<1>13. CASE Epilogue
  BY <1>13 DEF Epilogue, Reading, PostIsComplete, request, given, globals
<1>14. ASSUME NEW rc \in req.codes, SetCode(rc) PROVE Reading'
  BY <1>14 DEF SetCode, Reading, PostIsComplete, given
<1>15. CASE SendEarly
  BY <1>15 DEF SendEarly, Reading, PostIsComplete, given, globals
<1>16. CASE UNCHANGED vars
  BY <1>16 DEF Reading, PostIsComplete, vars, request, given, globals
<1>17. QED
  BY <1>1, <1>2, <1>3, <1>4, <1>5, <1>6, <1>6a, <1>6b, <1>7, <1>8, <1>9, <1>10, <1>11, <1>12, <1>13,
     <1>14, <1>15, <1>16 DEF Next

\* parse_uri ends: with what the part it looks at names, or without a script at a "."
\* or "..".
LEMMA Found ==
  ASSUME TypeOK, Busy, Parsing, phase = "parse", phase' = "ready", req' = req,
         \/ script' \in Target(Trimmed(uri))
         \/ /\ script' = <<>> /\ Target(Trimmed(uri)) = {} /\ ~IsRoot(uri)
            /\ LastOf(Trimmed(uri)) \in {Dot, DotDot}
  PROVE  Parsing'
<1>1. PICK t \in 0..Len(req.path) :
        /\ Trimmed(uri) = SubSeq(req.path, 1, t)
        /\ t > 0 => req.path[t] # Empty
        /\ NoneLonger(t)
        /\ ~IsRoot(uri) => LastOf(Trimmed(uri)) = req.path[t]
  BY Turn
<1>2. \/ script' \in Target(SubSeq(req'.path, 1, t))
      \/ /\ script' = <<>>
         /\ Target(SubSeq(req'.path, 1, t)) = {}
         /\ req'.path[t] \in {Dot, DotDot}
  BY <1>1
<1>3. \A k \in t + 1 .. Len(req'.path) :
        req'.path[k] # Empty => Target(SubSeq(req'.path, 1, k)) = {} /\ req'.path[k] \in Names
  BY <1>1 DEF NoneLonger
<1>4. t \in 0..Len(req'.path) /\ (t > 0 => req'.path[t] # Empty)
  BY <1>1
<1>5. MostSpecific'
  BY <1>2, <1>3, <1>4 DEF MostSpecific
<1>6. QED
  BY <1>5 DEF Parsing

\* Where there is neither a script nor an index, the part of the path names nothing,
\* and its last segment is not empty.
LEMMA NothingNamed ==
  ASSUME TypeOK, Busy, Parsing, NothingHere
  PROVE  /\ Target(Trimmed(uri)) = {}
         /\ LastComponent(Trimmed(uri)) \in Names \union {DotDot}
         /\ LastComponent(Trimmed(uri)) = LastOf(Trimmed(uri)) \/ LastOf(Trimmed(uri)) = Dot
<1>1. Trimmed(uri) \in Paths /\ ~IsRoot(Trimmed(uri)) /\ LastOf(Trimmed(uri)) # Empty
  BY Turn DEF NothingHere
<1>2. QED
  BY <1>1, Endings DEF NothingHere, Target, IsScript, HasIndex

\* Every step keeps that nothing longer than what parse_uri looks at names a script.
LEMMA ParsingStep == IInv /\ [Next]_vars => Parsing'
<1> SUFFICES ASSUME IInv, [Next]_vars PROVE Parsing'
  OBVIOUS
<1> USE DEF IInv
<1>0. phase # "idle" => req.path \in Paths
  BY ThreadAssumption DEF TypeOK, Busy, Request
<1>1. ASSUME NEW r \in Requests, Take(r) PROVE Parsing'
  <2>1. r.path \in Seq(Names \union {Empty, Dot, DotDot}) /\ Len(r.path) \in Nat
    BY ThreadAssumption, LenProperties DEF Request, Paths
  <2>2. SubSeq(r.path, 1, Len(r.path)) = r.path
    BY <2>1, SubSeqFull
  <2>3. phase' = "parse" /\ req' = r /\ uri' = r.path /\ script' = <<>>
    BY <1>1 DEF Take
  <2>4. NoneLonger(Len(uri))'
    BY <2>1, <2>3 DEF NoneLonger
  <2>5. QED
    BY <2>1, <2>2, <2>3, <2>4 DEF Parsing, MostSpecific
<1>2. CASE Rest
  BY <1>2 DEF Rest, Parsing, MostSpecific, NoneLonger, vars, request, given
<1>3. CASE ParseRoot
  <2>1. phase = "parse" /\ phase' = "ready" /\ req' = req /\ script' = <<Index>> /\ IsRoot(uri)
    BY <1>3 DEF ParseRoot
  <2>2. script' \in Target(Trimmed(uri))
    BY <2>1, Turn DEF Target
  <2>3. QED
    BY <2>1, <2>2, Found
<1>4. CASE ParseFile
  <2>1. phase = "parse" /\ phase' = "ready" /\ req' = req /\ script' = Trimmed(uri)
        /\ IsScript(Trimmed(uri)) /\ ~IsRoot(uri)
    BY <1>4 DEF ParseFile
  <2>2. script' \in Target(Trimmed(uri))
    BY <2>1, Turn DEF IsScript, Target
  <2>3. QED
    BY <2>1, <2>2, Found
<1>5. CASE ParseIndex
  <2>1. phase = "parse" /\ phase' = "ready" /\ req' = req /\ script' = Append(Trimmed(uri), Index)
        /\ ~IsScript(Trimmed(uri)) /\ HasIndex(Trimmed(uri)) /\ ~IsRoot(uri)
    BY <1>5 DEF ParseIndex
  <2>2. script' \in Target(Trimmed(uri))
    BY <2>1, Turn DEF IsScript, HasIndex, Target
  <2>3. QED
    BY <2>1, <2>2, Found
<1>6. CASE ParseParent
  <2>1. /\ NothingHere /\ phase = "parse" /\ phase' = "parse" /\ req' = req /\ ~IsRoot(uri)
        /\ script' = script
        /\ uri' = SubSeq(Trimmed(uri), 1, Len(Trimmed(uri)) - 1)
        /\ LastComponent(Trimmed(uri)) # DotDot
        /\ LastComponent(Trimmed(uri)) = LastOf(Trimmed(uri))
    BY <1>6 DEF ParseParent, NothingHere
  <2>2. PICK t \in 0..Len(req.path) :
          /\ Trimmed(uri) = SubSeq(req.path, 1, t)
          /\ Trimmed(uri) \in Paths
          /\ Len(Trimmed(uri)) = t
          /\ NoneLonger(t)
          /\ t > 0
          /\ LastOf(Trimmed(uri)) = req.path[t]
    BY <2>1, Turn
  <2>3. t - 1 \in 0..t /\ t - 1 \in 0..Len(req.path) /\ Len(req.path) \in Nat
    BY <1>0, <2>1, <2>2 DEF Paths
  <2>4. uri' = SubSeq(req.path, 1, t - 1) /\ Len(uri') = t - 1
    BY <1>0, <2>1, <2>2, <2>3, FrontOfFront DEF Paths
  <2>5. Target(SubSeq(req.path, 1, t)) = {} /\ req.path[t] \in Names
    BY <2>1, <2>2, NothingNamed
  <2>6. NoneLonger(t - 1)
    <3>1. \A k \in (t - 1) + 1 .. Len(req.path) : k = t \/ k \in t + 1 .. Len(req.path)
      BY <2>3
    <3>2. QED
      BY <2>2, <2>5, <3>1 DEF NoneLonger
  <2>7. NoneLonger(t - 1)'
    BY <2>1, <2>6 DEF NoneLonger
  <2>8. QED
    BY <2>1, <2>3, <2>4, <2>7 DEF Parsing, MostSpecific
<1>6a. CASE ParseNoName
  <2>1. /\ NothingHere /\ phase = "parse" /\ phase' = "ready" /\ req' = req /\ script' = script
        /\ ~IsRoot(uri) /\ LastComponent(Trimmed(uri)) = DotDot
    BY <1>6a DEF ParseNoName, NothingHere, given
  <2>2. LastOf(Trimmed(uri)) \in {Dot, DotDot} /\ Target(Trimmed(uri)) = {}
    BY <2>1, NothingNamed
  <2>3. script' = <<>>
    BY <2>1 DEF Parsing
  <2>4. QED
    BY <2>1, <2>2, <2>3, Found
<1>6b. CASE ParseNoSuffix
  <2>1. /\ NothingHere /\ phase = "parse" /\ phase' = "ready" /\ req' = req /\ script' = script
        /\ ~IsRoot(uri) /\ LastComponent(Trimmed(uri)) # LastOf(Trimmed(uri))
    BY <1>6b DEF ParseNoSuffix, NothingHere
  <2>2. LastOf(Trimmed(uri)) \in {Dot, DotDot} /\ Target(Trimmed(uri)) = {}
    BY <2>1, NothingNamed
  <2>3. script' = <<>>
    BY <2>1 DEF Parsing
  <2>4. QED
    BY <2>1, <2>2, <2>3, Found
<1>7. CASE Populate
  BY <1>7 DEF Populate, Parsing, MostSpecific, request, given
<1>8. CASE StartupFails
  BY <1>8 DEF StartupFails, Parsing, MostSpecific, request, given
<1>9. CASE StartupSucceeds
  BY <1>9 DEF StartupSucceeds, Parsing, MostSpecific, request, given
<1>10. ASSUME NEW k \in 1..MaxBuf, ReadPost(k) PROVE Parsing'
  BY <1>10 DEF ReadPost, Parsing, MostSpecific, given
<1>11. CASE RegisterServerVariables
  BY <1>11 DEF RegisterServerVariables, Parsing, MostSpecific, given
<1>12. CASE Deactivate
  BY <1>12 DEF Deactivate, Parsing, MostSpecific, request, given
<1>13. CASE Epilogue
  BY <1>13 DEF Epilogue, Parsing, MostSpecific, request, given
<1>14. ASSUME NEW rc \in req.codes, SetCode(rc) PROVE Parsing'
  BY <1>14 DEF SetCode, Parsing, MostSpecific, given
<1>15. CASE SendEarly
  BY <1>15 DEF SendEarly, Parsing, MostSpecific, given
<1>16. CASE UNCHANGED vars
  BY <1>16 DEF Parsing, MostSpecific, NoneLonger, vars, request, given
<1>17. QED
  BY <1>1, <1>2, <1>3, <1>4, <1>5, <1>6, <1>6a, <1>6b, <1>7, <1>8, <1>9, <1>10, <1>11, <1>12, <1>13,
     <1>14, <1>15, <1>16 DEF Next

\* Sending the head of a script keeps that its status is what the script set.
LEMMA HeadIsOwn == ASSUME IInv, phase = "run", SendHead, set' = set PROVE OwnStatus'
<1>1. CASE head # {}
  BY <1>1 DEF SendHead, IInv, Answering, OwnStatus
<1>2. CASE head = {}
  <2>1. code = set /\ set \in Int
    BY <1>2 DEF IInv, Answering, TypeOK
  <2>2. \A status \in FromSapiHeaders(set) : status = IF set \in 100..999 THEN set ELSE 200
    BY <2>1 DEF FromSapiHeaders
  <2>3. FromSapiHeaders(set) = {} => set \notin 100..999
    BY <2>1 DEF FromSapiHeaders
  <2>4. QED
    BY <1>2, <2>1, <2>2, <2>3 DEF SendHead, OwnStatus
<1>3. QED
  BY <1>1, <1>2

\* Every step keeps the status that the script has set, and that of the head.
LEMMA AnsweringStep == IInv /\ [Next]_vars => Answering'
<1> SUFFICES ASSUME IInv, [Next]_vars PROVE Answering'
  OBVIOUS
<1> USE DEF IInv
<1>1. ASSUME NEW r \in Requests, Take(r) PROVE Answering'
  BY <1>1 DEF Take, FreshGlobals, Answering, OwnStatus
<1>2. CASE Rest
  BY <1>2 DEF Rest, Answering, OwnStatus, vars, request, answer, globals
<1>3. CASE ParseRoot
  BY <1>3 DEF ParseRoot, Answering, OwnStatus, answer, globals
<1>4. CASE ParseFile
  BY <1>4 DEF ParseFile, Answering, OwnStatus, answer, globals
<1>5. CASE ParseIndex
  BY <1>5 DEF ParseIndex, Answering, OwnStatus, answer, globals
<1>6. CASE ParseParent
  BY <1>6 DEF ParseParent, NothingHere, Answering, OwnStatus, answer, globals
<1>6a. CASE ParseNoName
  BY <1>6a DEF ParseNoName, NothingHere, Answering, OwnStatus, answer, globals
<1>6b. CASE ParseNoSuffix
  BY <1>6b DEF ParseNoSuffix, NothingHere, Answering, OwnStatus, answer, globals
<1>7. CASE Populate
  BY <1>7 DEF Populate, Answering, OwnStatus, request, answer
<1>8. CASE StartupFails
  BY <1>8 DEF StartupFails, Answering, OwnStatus, request, answer
<1>9. CASE StartupSucceeds
  BY <1>9 DEF StartupSucceeds, Answering, OwnStatus, request, answer
<1>10. ASSUME NEW k \in 1..MaxBuf, ReadPost(k) PROVE Answering'
  BY <1>10 DEF ReadPost, Answering, OwnStatus, answer
<1>11. CASE RegisterServerVariables
  BY <1>11 DEF RegisterServerVariables, Answering, OwnStatus, answer, globals
<1>12. CASE Deactivate
  BY <1>12, HeadIsOwn DEF Deactivate, Answering
<1>13. CASE Epilogue
  BY <1>13 DEF Epilogue, Answering, OwnStatus, request, answer
<1>14. ASSUME NEW rc \in req.codes, SetCode(rc) PROVE Answering'
  BY <1>14 DEF SetCode, Answering, OwnStatus
<1>15. CASE SendEarly
  <2>1. head' # {}
    BY <1>15 DEF SendEarly, SendHead
  <2>2. QED
    BY <1>15, <2>1, HeadIsOwn DEF SendEarly, Answering
<1>16. CASE UNCHANGED vars
  BY <1>16 DEF Answering, OwnStatus, vars, request, answer, globals
<1>17. QED
  BY <1>1, <1>2, <1>3, <1>4, <1>5, <1>6, <1>6a, <1>6b, <1>7, <1>8, <1>9, <1>10, <1>11, <1>12, <1>13,
     <1>14, <1>15, <1>16 DEF Next

\* The rest of the path after the part that parse_uri looks at.
LEMMA RestOfTurn ==
  ASSUME IInv, phase = "parse"
  PROVE  \E t \in 0..Len(req.path) :
           /\ Trimmed(uri) = SubSeq(req.path, 1, t)
           /\ Trimmed(uri) \in Paths
           /\ Len(Trimmed(uri)) = t
           /\ ~IsRoot(uri) => t > 0 /\ LastOf(Trimmed(uri)) = req.path[t]
           /\ IsRoot(uri) <=> IsRoot(Trimmed(uri))
           /\ RestOfPath(req.path, t, pathInfo)
<1>1. req.path \in Paths /\ pathInfo \in Seq(Names)
  BY ThreadAssumption DEF IInv, TypeOK, Busy, Request
<1>2. PICK t \in 0..Len(req.path) :
        /\ Trimmed(uri) = SubSeq(req.path, 1, t)
        /\ Trimmed(uri) \in Paths
        /\ Len(Trimmed(uri)) = t
        /\ ~IsRoot(uri) => t > 0 /\ LastOf(Trimmed(uri)) = req.path[t]
        /\ IsRoot(uri) <=> IsRoot(Trimmed(uri))
        /\ Len(uri) \in t..Len(req.path)
        /\ \A j \in t + 1 .. Len(uri) : req.path[j] = Empty
  BY Turn DEF IInv
<1>3. t \in 0..Len(uri) /\ Len(uri) \in 0..Len(req.path)
  BY <1>1, <1>2 DEF Paths
<1>4. RestOfPath(req.path, t, pathInfo)
  BY <1>1, <1>2, <1>3, RestAfterEmpties DEF IInv, Keeping
<1>5. QED
  BY <1>2, <1>4

\* The script that parse_uri has found and the path info are the two parts of the path.
LEMMA Split ==
  ASSUME IInv, phase = "parse", phase' = "ready", req' = req, pathInfo' = pathInfo, server' = server,
         script' # <<>>,
         \/ script' \in {Trimmed(uri), Append(Trimmed(uri), Index)}
         \/ script' = <<Index>> /\ IsRoot(uri)
  PROVE  Keeping'
<1>1. PICK t \in 0..Len(req.path) :
        /\ Trimmed(uri) = SubSeq(req.path, 1, t)
        /\ IsRoot(uri) <=> IsRoot(Trimmed(uri))
        /\ RestOfPath(req.path, t, pathInfo)
  BY RestOfTurn
<1>2. CutAt(req'.path, t, script', pathInfo')
  BY <1>1 DEF CutAt
<1>3. PathIsKept'
  BY DEF IInv, Keeping, PathIsKept
<1>4. QED
  BY <1>1, <1>2, <1>3 DEF Keeping

\* Without a script the path info is the rest after "." or "..", or is lost after ".".
LEMMA Unsplit ==
  ASSUME IInv, NothingHere, phase' = "ready", req' = req, script' = script, server' = server,
         LastOf(Trimmed(uri)) \in {Dot, DotDot},
         pathInfo' = pathInfo \/ (pathInfo' = <<>> /\ LastOf(Trimmed(uri)) = Dot)
  PROVE  Keeping'
<1>1. phase = "parse" /\ ~IsRoot(uri) /\ script' = <<>>
  BY DEF NothingHere, IInv, Parsing
<1>2. PICK t \in 0..Len(req.path) :
        /\ t > 0 /\ LastOf(Trimmed(uri)) = req.path[t]
        /\ RestOfPath(req.path, t, pathInfo)
  BY <1>1, RestOfTurn
<1>3. CutAt(req'.path, t, script', pathInfo')
  BY <1>1, <1>2 DEF CutAt
<1>4. PathIsKept'
  BY DEF IInv, Keeping, PathIsKept
<1>5. QED
  BY <1>2, <1>3, <1>4 DEF Keeping

\* Every step keeps the parts of the path together.
LEMMA KeepingStep == IInv /\ [Next]_vars => Keeping'
<1> SUFFICES ASSUME IInv, [Next]_vars PROVE Keeping'
  OBVIOUS
<1> USE DEF IInv
<1>0. Index \in Names
  BY ThreadAssumption
<1>1. ASSUME NEW r \in Requests, Take(r) PROVE Keeping'
  <2>1. r.path \in Paths /\ Len(r.path) \in Nat
    BY ThreadAssumption DEF Request, Paths
  <2>2. phase' = "parse" /\ req' = r /\ uri' = r.path /\ pathInfo' = <<>> /\ server' = {}
    BY <1>1 DEF Take
  <2>3. RestOfPath(r.path, Len(r.path), <<>>)
    <3>1. Len(r.path) + 1 .. Len(r.path) = {} /\ 1..Len(<<>>) = {}
      BY <2>1
    <3>2. [i \in {} |-> 0] \in [{} -> {}]
      OBVIOUS
    <3>3. QED
      BY <3>1, <3>2 DEF RestOfPath
  <2>4. QED
    BY <2>2, <2>3 DEF Keeping, PathIsKept
<1>2. CASE Rest
  BY <1>2 DEF Rest, Keeping, PathIsKept, vars, request, given
<1>3. CASE ParseRoot
  <2>1. <<Index>> # <<>>
    OBVIOUS
  <2>2. QED
    BY <1>3, <2>1, Split DEF ParseRoot
<1>4. CASE ParseFile
  <2>1. Trimmed(uri) # <<>>
    BY <1>4, RestOfTurn, EmptySeq DEF ParseFile, Paths
  <2>2. QED
    BY <1>4, <2>1, Split DEF ParseFile
<1>5. CASE ParseIndex
  <2>1. Trimmed(uri) \in Seq(Names \union {Empty, Dot, DotDot})
    BY <1>5, RestOfTurn DEF ParseIndex, Paths
  <2>2. Append(Trimmed(uri), Index) # <<>>
    BY <1>0, <2>1, AppendProperties, EmptySeq
  <2>3. QED
    BY <1>5, <2>2, Split DEF ParseIndex
<1>6. CASE ParseParent
  <2>1. req.path \in Paths /\ pathInfo \in Seq(Names) /\ phase = "parse" /\ NothingHere
    BY <1>6, ThreadAssumption DEF ParseParent, NothingHere, TypeOK, Busy, Request
  <2>2. PICK t \in 0..Len(req.path) :
          /\ Trimmed(uri) \in Paths
          /\ Len(Trimmed(uri)) = t
          /\ t > 0
          /\ LastOf(Trimmed(uri)) = req.path[t]
          /\ RestOfPath(req.path, t, pathInfo)
    BY <2>1, RestOfTurn DEF NothingHere
  <2>3. t \in 1..Len(req.path) /\ Len(req.path) \in Nat
    BY <2>1, <2>2 DEF Paths
  <2>4. req.path[t] \in Names
    BY <1>6, <2>1, <2>2, NothingNamed DEF ParseParent
  <2>5. pathInfo' = <<req.path[t]>> \o pathInfo
    BY <1>6, <2>2 DEF ParseParent, SuffixFirst
  <2>6. Len(uri') = t - 1
    <3>1. t \in 0..t /\ t - 1 \in 0..t /\ uri' = SubSeq(Trimmed(uri), 1, t - 1)
      BY <1>6, <2>2, <2>3 DEF ParseParent
    <3>2. QED
      BY <2>2, <3>1, FrontOfFront DEF Paths
  <2>7. RestOfPath(req.path, t - 1, pathInfo')
    BY <2>1, <2>2, <2>3, <2>4, <2>5, RestWithOneMore
  <2>8. QED
    BY <1>6, <2>1, <2>6, <2>7 DEF ParseParent, Keeping, PathIsKept
<1>6a. CASE ParseNoName
  <2>1. LastOf(Trimmed(uri)) \in {Dot, DotDot}
    BY <1>6a, NothingNamed DEF ParseNoName
  <2>2. QED
    BY <1>6a, <2>1, Unsplit DEF ParseNoName, given
<1>6b. CASE ParseNoSuffix
  <2>1. LastOf(Trimmed(uri)) = Dot
    BY <1>6b, NothingNamed DEF ParseNoSuffix
  <2>2. QED
    BY <1>6b, <2>1, Unsplit DEF ParseNoSuffix
<1>7. CASE Populate
  BY <1>7 DEF Populate, Keeping, PathIsKept, request, given
<1>8. CASE StartupFails
  BY <1>8 DEF StartupFails, Keeping, PathIsKept, request, given
<1>9. CASE StartupSucceeds
  BY <1>9 DEF StartupSucceeds, Keeping, PathIsKept, request, given
<1>10. ASSUME NEW k \in 1..MaxBuf, ReadPost(k) PROVE Keeping'
  BY <1>10 DEF ReadPost, Keeping, PathIsKept, given
<1>11. CASE RegisterServerVariables
  <2>1. PICK m \in 0..Len(req.path) :
          CutAt(req.path, m, script, pathInfo)
    BY <1>11 DEF RegisterServerVariables, Keeping
  <2>2. PathIsKept'
    BY <1>11, <2>1 DEF RegisterServerVariables, PathIsKept
  <2>3. QED
    BY <1>11, <2>2 DEF RegisterServerVariables, Keeping, given
<1>12. CASE Deactivate
  BY <1>12 DEF Deactivate, Keeping, PathIsKept, given
<1>13. CASE Epilogue
  BY <1>13 DEF Epilogue, Keeping, PathIsKept, request, given
<1>14. ASSUME NEW rc \in req.codes, SetCode(rc) PROVE Keeping'
  BY <1>14 DEF SetCode, Keeping, PathIsKept, given
<1>15. CASE SendEarly
  BY <1>15 DEF SendEarly, Keeping, PathIsKept, given
<1>16. CASE UNCHANGED vars
  BY <1>16 DEF Keeping, PathIsKept, vars, request, given
<1>17. QED
  BY <1>1, <1>2, <1>3, <1>4, <1>5, <1>6, <1>6a, <1>6b, <1>7, <1>8, <1>9, <1>10, <1>11, <1>12, <1>13,
     <1>14, <1>15, <1>16 DEF Next

-----------------------------------------------------------------------------
(* The theorems. *)

\* The inductive invariant holds in every state.
THEOREM ThreadInvariant == Spec => []IInv
<1>1. IInv /\ [Next]_vars => IInv'
  BY TypeStep, StringsStep, ReadingStep, ParsingStep, AnsweringStep, KeepingStep DEF IInv
<1>2. QED
  BY Initially, <1>1, PTL DEF Spec

\* Every variable keeps its type: no empty segment comes into the path info,
\* and read_post gives no more than Content-Length.
THEOREM ThreadTypeCorrect == Spec => []TypeOK
<1>1. IInv => TypeOK
  BY DEF IInv
<1>2. QED
  BY ThreadInvariant, <1>1, PTL

\* The strings PHP finds in SG(request_info) are of its own request and alive,
\* on a thread that serves any number of requests.
THEOREM StringsAreOwn == Spec => []OwnStrings
<1>1. IInv => OwnStrings
  <2> SUFFICES ASSUME IInv, phase = "run" PROVE OwnStrings
    BY DEF OwnStrings
  <2>1. req.has \subseteq Fields /\ n # 0
    BY ThreadAssumption DEF IInv, TypeOK, Busy, Request
  <2>2. /\ info = [f \in Fields |-> IF f \in req.has THEN n ELSE 0]
        /\ \A f \in req.has : <<f, n>> \in live
    BY DEF IInv, Strings
  <2>3. QED
    BY <2>1, <2>2 DEF OwnStrings
<1>2. QED
  BY ThreadInvariant, <1>1, PTL

\* PHP, free() and execute_php between them free each string once, but those of a Basic
\* authorization, and only a failed startup leaves strings behind
\* (crates/pasir_sapi/src/ext.rs:49-57).
THEOREM OnlyAuthIsFreedTwice == Spec => []OnlyAuthFreedTwice
<1>1. IInv => OnlyAuthFreedTwice
  BY DEF IInv, Strings, OnlyAuthFreedTwice
<1>2. QED
  BY ThreadInvariant, <1>1, PTL

\* For every body and every sequence of buffers PHP reads with.
THEOREM BodyIsRead == Spec => []PostIsComplete
<1>1. IInv => PostIsComplete
  BY DEF IInv, Reading
<1>2. QED
  BY ThreadInvariant, <1>1, PTL

\* For every path and every content of the document root.
THEOREM ScriptIsMostSpecific == Spec => []MostSpecific
<1>1. IInv => MostSpecific
  BY DEF IInv, Parsing
<1>2. QED
  BY ThreadInvariant, <1>1, PTL

\* For every sequence of requests and whatever their scripts set, before and
\* after the head.
THEOREM StatusIsOwn == Spec => []OwnStatus
<1>1. IInv => OwnStatus
  BY DEF IInv, Answering
<1>2. QED
  BY ThreadInvariant, <1>1, PTL

\* For every path, of any length, and every content of the document root.
THEOREM PathsAreKept == Spec => []PathIsKept
<1>1. IInv => PathIsKept
  BY DEF IInv, Keeping
<1>2. QED
  BY ThreadInvariant, <1>1, PTL
=============================================================================

----------------------------- MODULE PhpThread -----------------------------
(***************************************************************************)
(* One blocking thread that serves requests one after another: the closure *)
(* PhpService::call gives to spawn_blocking (src/service/php.rs:59-78),    *)
(* with what PhpRequest leaves out of it. Context::parse_uri finds the     *)
(* script, one recursive call a step; execute_php lends the strings of the *)
(* request to SG(request_info); PHP reads the body through read_post;      *)
(* deactivate and the end of execute_php release the strings.              *)
(*                                                                         *)
(* A path is the sequence of its segments, an empty one between two        *)
(* slashes or after the last: "/foo/" is <<foo, Empty>>, and the string "" *)
(* is <<>>. A string of SG(request_info) is known by its field and the     *)
(* request that made it.                                                   *)
(***************************************************************************)
EXTENDS Integers, Sequences

CONSTANTS
  Names,                 \* path segments that are neither empty, "." nor ".."
  Empty, Dot, DotDot,    \* those three, which PathBuf::join leaves in a path
  PhpNames,              \* the names that end with ".php"
  Index,                 \* index.php
  IsFile(_), IsDir(_),   \* Path::is_file, Path::is_dir of a path from the document root
  Bytes,                 \* what a byte of a request body can be
  Requests,              \* the requests considered
  MaxBuf,                \* bound on the buffer of one read_post
  MaxRequests            \* bound on the requests of the thread

Fields == {"request_method", "query_string", "cookie_data", "request_uri",
           "path_translated", "content_type", "auth_user", "auth_password"}

\* The strings of a Basic authorization, which PHP takes for its own.
Auth == {"auth_user", "auth_password"}

Paths == Seq(Names \union {Empty, Dot, DotDot})

\* length is that of Content-Length, 0 without one; codes are what its script may set.
Request == [path : Paths, has : SUBSET Fields, body : Seq(Bytes), length : Nat,
            codes : SUBSET Int]

\* Index is a script, and a request always has a method, a uri and a script.
ASSUME ThreadAssumption ==
  /\ PhpNames \subseteq Names
  /\ Index \in PhpNames
  /\ {Empty, Dot, DotDot} \intersect Names = {}
  /\ Empty # Dot
  /\ DotDot \notin {Empty, Dot}
  /\ Requests \subseteq Request
  /\ \A r \in Requests : {"request_method", "request_uri", "path_translated"} \subseteq r.has
  /\ MaxBuf \in Nat
  /\ MaxRequests \in Nat

\* hyper ends a body at its Content-Length, and fails one that is shorter.
ASSUME LengthAssumption == \A r \in Requests : r.length \in {0, Len(r.body)}

VARIABLES
  phase,                 \* where the thread stands
  n,                     \* how many requests it has taken
  req,                   \* Context.request, as it came
  uri,                   \* the argument of the innermost parse_uri
  pathInfo,              \* Context.path_info, <<>> for None
  script,                \* Context.script_name
  info,                  \* SG(request_info): whose string a field points to, 0 for null
  length,                \* SG(request_info).content_length
  readBytes,             \* SG(read_post_bytes)
  postRead,              \* SG(post_read): PHP has met the end of the body
  code,                  \* SG(sapi_headers).http_response_code
  body,                  \* Context.request's body, what is left of it
  server,                \* {} or the variables registered in $_SERVER
  head,                  \* {} or the status of the head that was sent
  live,                  \* history: the strings allocated and not freed
  misfreed,              \* history: the strings that were freed when they were not live
  failed,                \* history: the requests whose startup failed
  post,                  \* history: what PHP has read of the body
  set                    \* history: what the script has set before the head, 0 for none

given == <<req, uri, pathInfo, script>>
globals == <<info, length, readBytes, postRead, code>>
answer == <<head, set>>
request == <<given, body, server, post, answer>>
strings == <<live, misfreed, failed>>
vars == <<phase, n, request, globals, strings>>

NoRequest == [path |-> <<>>, has |-> {}, body |-> <<>>, length |-> 0, codes |-> {}]

Init ==
  /\ phase = "idle"
  /\ n = 0
  /\ req = NoRequest
  /\ uri = <<>>
  /\ pathInfo = <<>>
  /\ script = <<>>
  /\ info = [f \in Fields |-> 0]
  /\ length = 0
  /\ readBytes = 0
  /\ postRead = FALSE
  /\ code = 0
  /\ body = <<>>
  /\ server = {}
  /\ head = {}
  /\ post = <<>>
  /\ set = 0
  /\ live = {}
  /\ misfreed = {}
  /\ failed = {}

-----------------------------------------------------------------------------
(* PhpThreadGuard and Context::new (src/service/php.rs:60-65). *)

\* Mutant: no guard, the thread keeps the globals of its last request.
KeptGlobals == UNCHANGED globals

\* PhpThreadGuard::new gives the thread new globals; those of the last
\* request went with its guard.
FreshGlobals ==
  /\ info' = [f \in Fields |-> 0]
  /\ length' = 0
  /\ readBytes' = 0
  /\ postRead' = FALSE
  /\ code' = 0

\* The closure starts, and Context::new calls parse_uri.
Take(r) ==
  /\ phase = "idle"
  /\ n < MaxRequests
  /\ phase' = "parse"
  /\ n' = n + 1
  /\ req' = r
  /\ uri' = r.path
  /\ pathInfo' = <<>>
  /\ script' = <<>>
  /\ body' = r.body
  /\ server' = {}
  /\ post' = <<>>
  /\ head' = {}
  /\ set' = 0
  /\ FreshGlobals
  /\ UNCHANGED strings

\* The thread has served the bounded number of requests and stays idle.
Rest ==
  /\ phase = "idle"
  /\ n = MaxRequests
  /\ UNCHANGED vars

-----------------------------------------------------------------------------
(* Context::parse_uri (src/sapi/context.rs:73-106). *)

\* path up to its last segment that is not in S.
UpTo(path, S) ==
  IF \A i \in DOMAIN path : path[i] \in S THEN <<>>
  ELSE SubSeq(path, 1, CHOOSE i \in DOMAIN path :
                         path[i] \notin S /\ \A j \in DOMAIN path : j > i => path[j] \in S)

LastOf(path) == path[Len(path)]

\* Mutant: trailing slashes stay.
Untrimmed(path) == path

\* trim_end_matches('/').
Trimmed(path) == UpTo(path, {Empty})

\* file == root: two paths are compared by their components, and neither an empty
\* segment nor "." is one.
IsRoot(path) == \A i \in DOMAIN path : path[i] \in {Empty, Dot}

\* Mutant: the last segment, although a path ending with "." has the name before it.
LastSegment(path) == LastOf(path)

\* The last component; Path::file_name is None if it is "..".
LastComponent(path) == LastOf(UpTo(path, {Empty, Dot}))

IsScript(path) == IsFile(path) /\ LastOf(path) \in PhpNames

\* Mutant: a directory answers whether it has an index or not.
AnyDir(path) == IsDir(path)

HasIndex(path) == IsDir(path) /\ IsFile(Append(path, Index))

ParseRoot ==
  /\ phase = "parse"
  /\ IsRoot(uri)
  /\ script' = <<Index>>
  /\ phase' = "ready"
  /\ UNCHANGED <<n, req, uri, pathInfo, body, server, post, answer, globals, strings>>

ParseFile ==
  /\ phase = "parse"
  /\ ~IsRoot(uri)
  /\ IsScript(Trimmed(uri))
  /\ script' = Trimmed(uri)
  /\ phase' = "ready"
  /\ UNCHANGED <<n, req, uri, pathInfo, body, server, post, answer, globals, strings>>

ParseIndex ==
  /\ phase = "parse"
  /\ ~IsRoot(uri)
  /\ ~IsScript(Trimmed(uri))
  /\ HasIndex(Trimmed(uri))
  /\ script' = Append(Trimmed(uri), Index)
  /\ phase' = "ready"
  /\ UNCHANGED <<n, req, uri, pathInfo, body, server, post, answer, globals, strings>>

\* There is neither a script nor an index.
NothingHere ==
  /\ phase = "parse"
  /\ ~IsRoot(uri)
  /\ ~IsScript(Trimmed(uri))
  /\ ~HasIndex(Trimmed(uri))

\* Mutant: the segment goes to the wrong end of the path info.
SuffixLast(path) == pathInfo \o <<LastOf(path)>>

\* suffix, followed by the path info of the inner path.
SuffixFirst(path) == <<LastOf(path)>> \o pathInfo

\* The last segment becomes path info, and the parent is next.
ParseParent ==
  /\ NothingHere
  /\ LastComponent(Trimmed(uri)) # DotDot
  /\ LastComponent(Trimmed(uri)) = LastOf(Trimmed(uri))
  /\ uri' = SubSeq(Trimmed(uri), 1, Len(Trimmed(uri)) - 1)
  /\ pathInfo' = SuffixFirst(Trimmed(uri))
  /\ UNCHANGED <<phase, n, req, script, body, server, post, answer, globals, strings>>

\* file_name() is None: parse_uri ends, and the script has no name.
ParseNoName ==
  /\ NothingHere
  /\ LastComponent(Trimmed(uri)) = DotDot
  /\ phase' = "ready"
  /\ UNCHANGED <<n, given, body, server, post, answer, globals, strings>>

\* strip_suffix() is None, for the path ends with "." and its last component is the
\* name before: the script has no name, and take() has taken the path info.
ParseNoSuffix ==
  /\ NothingHere
  /\ LastComponent(Trimmed(uri)) # DotDot
  /\ LastComponent(Trimmed(uri)) # LastOf(Trimmed(uri))
  /\ phase' = "ready"
  /\ pathInfo' = <<>>
  /\ UNCHANGED <<n, req, uri, script, body, server, post, answer, globals, strings>>

-----------------------------------------------------------------------------
(* The strings of SG(request_info) (crates/pasir_sapi/src/ext.rs and         *)
(* execute_php of crates/pasir_sapi/src/context.rs).                         *)

\* The strings init_request_info finds; PHP asks for the cookies by itself.
Lent == req.has \ {"cookie_data"}

\* init_request_info and populate_from_request_info: into_raw() gives each
\* string away; a field the request does not have is left as it is.
Populate ==
  /\ phase = "ready"
  /\ phase' = "startup"
  /\ info' = [f \in Fields |-> IF f \in Lent THEN n ELSE info[f]]
  /\ live' = live \union {<<f, n>> : f \in Lent}
  /\ length' = req.length
  /\ UNCHANGED <<n, request, readBytes, postRead, code, misfreed, failed>>

\* read_cookies, if the request has some.
ReadCookies ==
  /\ info' = [info EXCEPT !["cookie_data"] = IF "cookie_data" \in req.has THEN n ELSE 0]
  /\ live' = live \union {<<f, n>> : f \in req.has \intersect {"cookie_data"}}

\* php_request_startup fails before or after it has read the cookies, and
\* execute_php returns: nobody calls deactivate.
StartupFails ==
  /\ phase = "startup"
  /\ phase' = "idle"
  /\ ReadCookies \/ UNCHANGED <<info, live>>
  /\ failed' = failed \union {n}
  /\ UNCHANGED <<n, request, length, readBytes, postRead, code, misfreed>>

StartupSucceeds ==
  /\ phase = "startup"
  /\ phase' = "run"
  /\ ReadCookies
  /\ readBytes' = 0
  /\ postRead' = FALSE
  /\ UNCHANGED <<n, request, length, code, misfreed, failed>>

\* Mutant: free() takes path_translated too, which execute_php frees itself.
AllFreed == Fields

\* What SapiRequestInfoExt::free frees. It takes the struct by value, so the
\* pointers of SG(request_info) stay.
Freed == Fields \ {"path_translated"}

\* The strings that the fields of F point to.
Pointed(F) == {<<f, info[f]>> : f \in {g \in F : info[g] # 0}}

\* PHP releases those of php, then CString::from_raw and drop those of F.
Free(php, F) ==
  LET left == live \ Pointed(php) IN
    /\ live' = left \ Pointed(F)
    /\ misfreed' = misfreed \union (Pointed(php) \ live) \union (Pointed(F) \ left)

\* A number that u16 does not hold is read from its four bytes; a status has three.
FromSapiHeaders(rc) == IF rc = 0 THEN {200} ELSE {rc} \intersect 100..999

\* send_head, once: the head has the status of the default Response if PHP's is none.
SendHead ==
  head' = IF head # {} THEN head
          ELSE IF FromSapiHeaders(code) = {} THEN {200} ELSE FromSapiHeaders(code)

\* php_request_shutdown comes to sapi_deactivate, which releases the strings of Auth,
\* then to Sapi::deactivate, which frees its own and finishes the request.
Deactivate ==
  /\ phase = "run"
  /\ phase' = "freed"
  /\ Free(Auth, Freed)
  /\ SendHead
  /\ UNCHANGED <<n, given, body, server, post, set, globals, failed>>

\* The end of execute_php, and of the closure.
Epilogue ==
  /\ phase = "freed"
  /\ phase' = "idle"
  /\ Free({}, {"path_translated"})
  /\ UNCHANGED <<n, request, globals, failed>>

-----------------------------------------------------------------------------
(* What PHP asks of the Context while it runs.                             *)

\* Mutant: the last block is refused.
BlockBefore(k) ==
  IF length = 0 \/ readBytes >= length THEN 0
  ELSE LET toRead == IF k < length - readBytes THEN k ELSE length - readBytes
       IN  IF toRead >= Len(body) THEN 0 ELSE toRead

\* How many bytes read_post gives for a buffer of k.
Block(k) ==
  IF length = 0 \/ readBytes >= length THEN 0
  ELSE LET toRead == IF k < length - readBytes THEN k ELSE length - readBytes
       IN  IF toRead > Len(body) THEN 0 ELSE toRead

\* sapi_read_post_block: PHP asks again until a block is short.
ReadPost(k) ==
  /\ phase = "run"
  /\ ~postRead
  /\ post' = post \o SubSeq(body, 1, Block(k))
  /\ body' = SubSeq(body, Block(k) + 1, Len(body))
  /\ readBytes' = readBytes + Block(k)
  /\ postRead' = (Block(k) < k)
  /\ UNCHANGED <<phase, n, given, server, answer, info, length, code, strings>>

\* register_server_variables: $_SERVER is filled when PHP first needs it.
RegisterServerVariables ==
  /\ phase = "run"
  /\ server = {}
  /\ server' = {[REQUEST_URI |-> req.path, SCRIPT_NAME |-> script,
                 PATH_INFO |-> pathInfo, PHP_SELF |-> script \o pathInfo]}
  /\ UNCHANGED <<phase, n, given, body, post, answer, globals, strings>>

\* header() and http_response_code() of the script.
SetCode(rc) ==
  /\ phase = "run"
  /\ code' = rc
  /\ set' = IF head = {} THEN rc ELSE set
  /\ UNCHANGED <<phase, n, given, body, server, head, post, info, length, readBytes, postRead,
                 strings>>

\* flush, or pasir_finish_request.
SendEarly ==
  /\ phase = "run"
  /\ head = {}
  /\ SendHead
  /\ UNCHANGED <<phase, n, given, body, server, post, set, globals, strings>>

Next ==
  \/ \E r \in Requests : Take(r)
  \/ Rest
  \/ ParseRoot
  \/ ParseFile
  \/ ParseIndex
  \/ ParseParent
  \/ ParseNoName
  \/ ParseNoSuffix
  \/ Populate
  \/ StartupFails
  \/ StartupSucceeds
  \/ \E k \in 1..MaxBuf : ReadPost(k)
  \/ RegisterServerVariables
  \/ \E rc \in req.codes : SetCode(rc)
  \/ SendEarly
  \/ Deactivate
  \/ Epilogue

Spec == Init /\ [][Next]_vars

-----------------------------------------------------------------------------
(* Properties. *)

Server == [REQUEST_URI : Paths, SCRIPT_NAME : Paths, PATH_INFO : Seq(Names), PHP_SELF : Paths]

\* The type of every variable: path info has neither empty segments nor dots, and PHP
\* is never given more bytes than Content-Length says.
TypeOK ==
  /\ phase \in {"idle", "parse", "ready", "startup", "run", "freed"}
  /\ n \in 0..MaxRequests
  /\ req \in Requests \union {NoRequest}
  /\ uri \in Paths
  /\ pathInfo \in Seq(Names)
  /\ script \in Paths
  /\ info \in [Fields -> 0..n]
  /\ length \in Nat
  /\ readBytes \in 0..length
  /\ postRead \in BOOLEAN
  /\ body \in Seq(Bytes)
  /\ server \subseteq Server
  /\ code \in Int
  /\ head \subseteq 100..999
  /\ set \in Int
  /\ post \in Seq(Bytes)
  /\ live \subseteq Fields \X (1..n)
  /\ misfreed \subseteq Fields \X (1..n)
  /\ failed \subseteq 1..n

\* While the script runs, every string PHP finds in SG(request_info) is of its
\* own request and not freed (populate_from_request_info leaves a missing
\* field as it is; PhpThreadGuard makes it null).
OwnStrings ==
  phase = "run" =>
    /\ \A f \in Fields : info[f] \in {0, n}
    /\ \A f \in Fields : info[f] = n <=> f \in req.has
    /\ \A f \in req.has : <<f, n>> \in live

\* Of all strings only those of Auth are freed when they are not there (PHP and free()
\* both free them, ext.rs:55-56): free() and the end of execute_php free none of the
\* others twice, and between requests none at all is left but those of a request whose
\* startup failed (execute_php returns at context.rs:87 with all of them).
OnlyAuthFreedTwice ==
  /\ \A s \in misfreed : s[1] \in Auth
  /\ phase = "idle" => \A s \in live : s[2] \in failed

\* PHP that reads to the end of the body has all that Content-Length
\* announces, in order, whatever its buffers; without one it reads nothing.
PostIsComplete ==
  postRead => post = SubSeq(req.body, 1, req.length)

\* What a path names: the index of the root, a script, or a directory's index.
Target(path) ==
  IF IsRoot(path) THEN {<<Index>>}
  ELSE IF IsFile(path) /\ LastOf(path) \in PhpNames THEN {path}
  ELSE IF IsDir(path) /\ IsFile(Append(path, Index)) THEN {Append(path, Index)}
  ELSE {}

\* The script is what the longest part of the path names, in the end the index of the
\* document root (parse_uri goes from the whole path to its parents); only a part that
\* names nothing and ends with "." or ".." stops it, and then there is no script.
MostSpecific ==
  phase \in {"ready", "startup", "run"} =>
    \E m \in 0..Len(req.path) :
      /\ m > 0 => req.path[m] # Empty
      /\ \/ script \in Target(SubSeq(req.path, 1, m))
         \/ /\ script = <<>>
            /\ Target(SubSeq(req.path, 1, m)) = {}
            /\ req.path[m] \in {Dot, DotDot}
      /\ \A k \in m + 1 .. Len(req.path) :
           req.path[k] # Empty => /\ Target(SubSeq(req.path, 1, k)) = {}
                                  /\ req.path[k] \in Names

\* The status of a response is what its own script set before the head was sent, and 200
\* if that is nothing or no status of HTTP: never the code of an earlier request, which PHP
\* leaves in SG(sapi_headers) (send_head and from_sapi_headers).
OwnStatus == \A status \in head : status = IF set \in 100..999 THEN set ELSE 200

\* rest is the segments of path after the first m, in order and without the empty ones.
RestOfPath(path, m, rest) ==
  \E at \in [1..Len(rest) -> m + 1 .. Len(path)] :
    /\ \A i \in 1..Len(rest) : rest[i] = path[at[i]]
    /\ \A i, j \in 1..Len(rest) : i < j => at[i] < at[j]
    /\ \A k \in m + 1 .. Len(path) : path[k] = Empty \/ \E i \in 1..Len(rest) : at[i] = k

\* name is the script before a place in path, and rest the path info after it.
CutAt(path, m, name, rest) ==
  LET front == SubSeq(path, 1, m) IN
    \/ /\ name # <<>>
       /\ \/ name \in {front, Append(front, Index)}
          \/ name = <<Index>> /\ IsRoot(front)
       /\ RestOfPath(path, m, rest)
    \/ /\ name = <<>>
       /\ m > 0
       /\ \/ path[m] \in {Dot, DotDot} /\ RestOfPath(path, m, rest)
          \/ path[m] = Dot /\ rest = <<>>

\* SCRIPT_NAME and PATH_INFO are the two parts of REQUEST_URI, with at most one index.php
\* put in between, and PHP_SELF is both: nothing of the path is lost, moved or repeated,
\* however many times parse_uri has called itself. Without a script what is lost is the
\* part up to the "." or ".." where it stopped, and after "." the path info as well.
PathIsKept ==
  \A s \in server :
    /\ \E m \in 0..Len(s.REQUEST_URI) : CutAt(s.REQUEST_URI, m, s.SCRIPT_NAME, s.PATH_INFO)
    /\ s.PHP_SELF = s.SCRIPT_NAME \o s.PATH_INFO
=============================================================================

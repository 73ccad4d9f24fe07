---------------------------- MODULE MCPhpThread ----------------------------
(* A model of PhpThread for TLC: a document root with an index, a directory  *)
(* foo with an index and a script, a directory bar with neither and an asset; *)
(* what is above the root is not known. The plain requests ask for every path *)
(* of at most three segments, dots included; the others carry all strings,   *)
(* bodies with and without a length, and scripts that set a status, or a     *)
(* number that is none.                                                      *)
EXTENDS PhpThread, SequencesExt

CONSTANTS foo, bar, index, script1, asset, none, dot, dotdot, x, y

MCNames == {foo, bar, index, script1, asset}

Above == <<dotdot>>
Directories == {Above, <<>>, <<foo>>, <<bar>>}
Nowhere == <<none>>

\* Where a segment leads from a place, and a path from the root.
Walk(place, name) ==
  IF place \notin Directories THEN Nowhere
  ELSE IF name \in {none, dot} THEN place
  ELSE IF name # dotdot THEN Append(place, name)
  ELSE IF place \in {<<>>, Above} THEN Above
  ELSE Front(place)
Place(path) == FoldLeft(Walk, <<>>, path)

MCIsFile(path) ==
  Place(path) \in {<<index>>, <<foo, index>>, <<foo, script1>>, <<bar, asset>>}
MCIsDir(path) == Place(path) \in Directories

MCPaths == UNION {[1..k -> MCNames \union {none, dot, dotdot}] : k \in 1..3}

Always == {"request_method", "request_uri", "path_translated"}

Plain == {[path |-> p, has |-> Always, body |-> <<>>, length |-> 0, codes |-> {}] : p \in MCPaths}
Posts ==
  {[path |-> <<foo, none>>, has |-> Fields, body |-> <<x, y, x>>, length |-> 3,
    codes |-> {404, 1000}],
   [path |-> <<bar, asset>>, has |-> Always \union {"content_type"},
    body |-> <<x, y>>, length |-> 0, codes |-> {70000}],
   [path |-> <<index>>, has |-> Fields \ {"auth_user", "auth_password"},
    body |-> <<y>>, length |-> 1, codes |-> {503}]}

MCRequests == Plain \union Posts
=============================================================================

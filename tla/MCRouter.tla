------------------------------ MODULE MCRouter ------------------------------
(* A model of Router for TLC: two paths, two headers, and every table of at  *)
(* most MaxRoutes of nine routes that between them use every kind of match   *)
(* and of action, so that each can follow and precede each other.            *)
EXTENDS Router

CONSTANTS page, asset, h1, h2, v1, v2, u, MaxRoutes

MCPaths == {page, asset}
MCHeaders == {h1, h2}
MCValues == {v1, v2, u}
MCUnreadable == {u}
MCStatuses == {"200", "404"}

Reply1(s1, s2, status) ==
  [status |-> status, headers |-> [h \in MCHeaders |-> IF h = h1 THEN s1 ELSE s2]]

MCDefault == Reply1(<<>>, <<>>, "200")
MCReplies == {Reply1(<<v1>>, <<>>, "200"), Reply1(<<v2, v1>>, <<v1>>, "404"),
              Reply1(<<v2, u>>, <<u>>, "200")}

Plain == [uri |-> MCPaths, need |-> <<>>, serve |-> "none", status |-> "keep",
          insert |-> <<>>, append |-> <<>>, remove |-> {}]
Only(h, v) == [x \in {h} |-> v]

MCRoutes ==
  {[Plain EXCEPT !.uri = {page}, !.serve = "php"],
   [Plain EXCEPT !.uri = {asset}, !.serve = "default", !.status = "404"],
   [Plain EXCEPT !.serve = "static", !.remove = {h1}],
   [Plain EXCEPT !.need = [h \in MCHeaders |-> {v1}], !.status = "404"],
   [Plain EXCEPT !.need = Only(h1, {v1}), !.insert = Only(h2, v2)],
   [Plain EXCEPT !.remove = {h1}],
   [Plain EXCEPT !.uri = {asset}, !.append = Only(h1, u)],
   [Plain EXCEPT !.status = "404", !.insert = Only(h1, v1)],
   [Plain EXCEPT !.insert = Only(h2, v2), !.append = Only(h2, v1), !.remove = {h2},
                 !.status = "200"]}

MCTables == UNION {[1..n -> MCRoutes] : n \in 0..MaxRoutes}
=============================================================================

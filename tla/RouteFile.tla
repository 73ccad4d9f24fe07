----------------------------- MODULE RouteFile ------------------------------
(***************************************************************************)
(* Routes::from_file of src/config/route.rs: what becomes of the text of   *)
(* pasir.toml. The lists of header maps go through a HashMap keyed by the  *)
(* spelling of a name and then through one keyed by the name, which knows  *)
(* no case, so two spellings of one name meet in the order of the hashes.  *)
(*                                                                         *)
(* A parser is a relation: the set of the results it may have, empty if it *)
(* refuses the text. A uri and a status may be absent: they are sets of at *)
(* most one element.                                                       *)
(***************************************************************************)
EXTENDS Naturals, Sequences, FiniteSets, Functions

CONSTANTS
  NameOf,                \* the header name of a spelling, or Invalid
  ValueOf,               \* the header value of a string, or Invalid
  Compiled,              \* what a regular expression matches, or Invalid
  Invalid

\* Mutant: the first entry of a spelling stands.
FlattenedFirst(maps) ==
  LET Naming(s) == {i \in DOMAIN maps : s \in DOMAIN maps[i]}
  IN  [s \in UNION {DOMAIN maps[i] : i \in DOMAIN maps} |->
         maps[CHOOSE i \in Naming(s) : \A j \in Naming(s) : i <= j][s]]

\* The last entry of a spelling stands: flat_map and collect into a HashMap.
Flattened(maps) ==
  LET Naming(s) == {i \in DOMAIN maps : s \in DOMAIN maps[i]}
  IN  [s \in UNION {DOMAIN maps[i] : i \in DOMAIN maps} |->
         maps[CHOOSE i \in Naming(s) : \A j \in Naming(s) : j <= i][s]]

\* Any one spelling of a name gives its value; one bad name or value refuses all.
Keyed(entries, Read) ==
  LET names == {NameOf[s] : s \in DOMAIN entries}
      values == {Read[entries[s]] : s \in DOMAIN entries}
  IN  IF Invalid \in names \/ Invalid \in values THEN {}
      ELSE {m \in [names -> values] :
              \A h \in names : \E s \in DOMAIN entries :
                NameOf[s] = h /\ m[h] = Read[entries[s]]}

DeserializeHeaders(maps) == Keyed(Flattened(maps), Compiled)
DeserializeActionHeaders(maps) == Keyed(Flattened(maps), ValueOf)

\* StatusCode::from_u16.
DeserializeStatus(status) == IF status \subseteq 100..999 THEN {status} ELSE {}

DeserializeUri(uri) ==
  IF \E p \in uri : Compiled[p] = Invalid THEN {} ELSE {{Compiled[p] : p \in uri}}

ParseRoute(text) ==
  {[uri |-> uri, need |-> need, serve |-> text.serve, status |-> status,
    insert |-> insert, append |-> append, remove |-> text.remove] :
     uri \in DeserializeUri(text.uri), need \in DeserializeHeaders(text.need),
     status \in DeserializeStatus(text.status),
     insert \in DeserializeActionHeaders(text.insert),
     append \in DeserializeActionHeaders(text.append)}

\* A file that cannot be read is no error: the default table is empty.
FromFile(file) ==
  CASE file.kind = "unreadable" -> {<<>>}
    [] file.kind = "malformed" -> {}
    [] file.kind = "toml" ->
         {table \in [DOMAIN file.routes -> UNION {ParseRoute(r) : r \in Range(file.routes)}] :
            \A i \in DOMAIN file.routes : table[i] \in ParseRoute(file.routes[i])}
=============================================================================

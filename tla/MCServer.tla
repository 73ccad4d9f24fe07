------------------------------ MODULE MCServer ------------------------------
(* Models of Process and Server for TLC: two connections, so that one can be *)
(* accepted, busy or refused beside another, and two threads that outlive    *)
(* them; or one connection, where that is all a counterexample needs. The    *)
(* machines' PHPs stand on both sides of each test of the build; the files   *)
(* hold a name in two spellings, one of them twice, a bad value that a later *)
(* entry replaces, and one that stays.                                       *)
EXTENDS Process, TLC

CONSTANTS c1, c2

MCConns == {c1, c2}
OneConn == {c1}

MCPhp(n, timers) == "PHP API" :> n @@ "Zend Max Execution Timers" :> timers
MCMachine(env, files, info) ==
  [env |-> env, path |-> {"php"}, files |-> files, output |-> [exe \in {"php"} |-> info]]
Plain(info) == MCMachine({}, {"php", "false"}, info)

MCMachines ==
  {Plain(MCPhp(n, "enabled")) :
     n \in {-1, Php82 - 1, Php83 - 1, Php83, Php85, Php85 + 1}}
  \union {Plain("PHP API" :> Php84),
          MCMachine({"elsewhere"}, {"php"}, MCPhp(Php84, "enabled")),
          MCMachine({"false"}, {"php", "false"}, MCPhp(Php84, "enabled"))}
OneMachine == {Plain(MCPhp(Php82, "enabled"))}

MCNameOf == "Vary" :> "vary" @@ "vary" :> "vary" @@ "X Y" :> Invalid
MCValueOf == "a" :> "a" @@ "b" :> "b" @@ "c" :> "c" @@ "\n" :> Invalid
MCCompiled == "^/" :> {"page"} @@ "(" :> Invalid

MCText == [uri |-> {}, need |-> <<>>, serve |-> "none", status |-> {},
           insert |-> <<>>, append |-> <<>>, remove |-> {}]
MCFile(text) == [kind |-> "toml", routes |-> <<MCText, text>>]
MCFiles ==
  {[kind |-> "unreadable"], [kind |-> "malformed"],
   MCFile([MCText EXCEPT !.uri = {"^/"}, !.status = {404}, !.serve = "page",
             !.insert = <<"Vary" :> "c", "vary" :> "a", "Vary" :> "b">>]),
   MCFile([MCText EXCEPT !.need = <<"vary" :> "(", "vary" :> "^/">>, !.remove = {"vary"},
             !.append = <<"Vary" :> "\n", "Vary" :> "b">>]),
   MCFile([MCText EXCEPT !.uri = {"("}]),
   MCFile([MCText EXCEPT !.insert = <<"Vary" :> "\n">>]),
   MCFile([MCText EXCEPT !.append = <<"X Y" :> "a">>]),
   MCFile([MCText EXCEPT !.need = <<"Vary" :> "(">>]),
   MCFile([MCText EXCEPT !.status = {1000}])}
OneFile == {[kind |-> "unreadable"]}
=============================================================================

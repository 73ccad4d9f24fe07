------------------------------ MODULE Process -------------------------------
(***************************************************************************)
(* The life of the process: arguments, the startup of PHP in layers and    *)
(* its shutdown in src/cli/mod.rs, the commands of src/cli/info.rs,        *)
(* module.rs and serve.rs, and the exit of src/main.rs. In stage "serve"   *)
(* the process is the one of module Server.                                *)
(*                                                                         *)
(* up is the heart: what was started and not shut down. Every way out of   *)
(* Cli::execute but the last leaves some of it behind.                     *)
(***************************************************************************)
EXTENDS Server, Build, RouteFile

CONSTANTS
  Machines,              \* where the program may be built; see Build
  Files                  \* what the configuration file may hold when it is read

\* A file is one of those FromFile tells apart, and its lists are lists.
ASSUME ProcessAssumption ==
  \A f \in Files :
    /\ f.kind \in {"unreadable", "malformed", "toml"}
    /\ f.kind = "toml" =>
         \A i \in DOMAIN f.routes :
           LET text == f.routes[i]
           IN  \A maps \in {text.need, text.insert, text.append} : maps \in Seq(Range(maps))

VARIABLES
  php,                   \* the PHP the program was built against
  mode,                  \* the command: info, modules or serve
  stage,                 \* where main and Cli::execute stand
  up,                    \* layers and resources of PHP that are up
  functions,             \* what the SAPI module adds to PHP's functions
  file, table,           \* what Routes::from_file found, and its routes
  failed,                \* Cli::execute has met the error that it returns
  status                 \* the exit status, or how else the process ended

layers == <<php, mode, up, functions>>
command == <<file, table, failed>>
cli == <<layers, stage, command, status>>
processVars == <<vars, cli>>

ProcessInit ==
  /\ Init
  /\ php \in UNION {BuiltAgainst(machine) : machine \in Machines}
  /\ mode = "none"
  /\ stage = "parse"
  /\ up = {}
  /\ functions = {}
  /\ file = [kind |-> "unreadable"]
  /\ table = <<>>
  /\ failed = FALSE
  /\ status = "running"

Cfg(version) == \E flags \in Flags(php) : version \in flags.php

End(how) == stage' = "over" /\ status' = how

-----------------------------------------------------------------------------
(* Arguments and startup (src/cli/mod.rs:42-64, 73-109, 136-152). *)

ParseRoot(root) == root = "directory"
ParseConfig(config) == config \in {"none", "file"}

\* -i and -m exclude each other and do without a port.
Parses(root, config, port, info, modules) ==
  /\ ParseRoot(root)
  /\ ParseConfig(config)
  /\ ~(info /\ modules)
  /\ port \/ info \/ modules

ParseArguments ==
  /\ stage = "parse"
  /\ \E root \in {"directory", "other"}, config \in {"none", "file", "other"},
        port, info, modules \in BOOLEAN :
       \/ /\ Parses(root, config, port, info, modules)
          /\ mode' = IF info THEN "info" ELSE IF modules THEN "modules" ELSE "serve"
          /\ stage' = "tsrm"
          /\ UNCHANGED status
       \/ ~Parses(root, config, port, info, modules) /\ End("2") /\ UNCHANGED mode
  /\ UNCHANGED <<vars, php, up, functions, command>>

\* anyhow::bail! of a startup: nothing that is up is taken down.
Bail == End("1") /\ failed' = TRUE

StartTsrm ==
  /\ stage = "tsrm"
  /\ \/ /\ up' = {IF Cfg(Php83) THEN "php_tsrm_startup_ex" ELSE "ext_php_rs_sapi_startup"}
        /\ stage' = "build"
        /\ UNCHANGED <<failed, status>>
     \/ Cfg(Php83) /\ Bail /\ UNCHANGED up
  /\ UNCHANGED <<vars, php, mode, functions, file, table>>

\* build_module of the two SAPIs: the second one adds functions to PHP.
BuildInfoModule == functions' = {}
BuildSapiModule == functions' = {"pasir_finish_request", "fastcgi_finish_request"}

\* An Err panics: expect("Failed to build PHP SAPI module").
BuildModule ==
  /\ stage = "build"
  /\ \/ /\ \/ mode = "info" /\ BuildInfoModule
           \/ mode # "info" /\ BuildSapiModule
        /\ up' = up \union {"sapi"}
        /\ stage' = "startup"
        /\ UNCHANGED status
     \/ End("101") /\ UNCHANGED <<up, functions>>
  /\ UNCHANGED <<vars, php, mode, command>>

\* The callbacks startup and shutdown of the SAPI module.
SapiStartup == up' = up \union {"module"}
SapiShutdown == up' = up \ {"module"}

StartModule ==
  /\ stage = "startup"
  /\ \/ SapiStartup /\ stage' = "command" /\ UNCHANGED <<failed, status>>
     \/ Bail /\ UNCHANGED up
  /\ UNCHANGED <<vars, php, mode, functions, file, table>>

-----------------------------------------------------------------------------
(* The commands (src/cli/info.rs, src/cli/module.rs, src/cli/serve.rs). *)

\* Mutant: an error of the command is returned at once, past the shutdown.
ReturnAtOnce(err) ==
  /\ failed' = err
  /\ IF err THEN End("1") ELSE (stage' = "closing" /\ UNCHANGED status)

\* execute() of the command returns to Cli::execute.
Return(err) == stage' = "closing" /\ failed' = err /\ UNCHANGED status

\* resources: what the command has given to PHP before.
RequestStartup(resources) ==
  \/ /\ up' = up \union resources \union {"request"}
     /\ stage' = "printing"
     /\ UNCHANGED <<failed, status>>
  \/ up' = up \union resources /\ Return(TRUE)

\* php_request_shutdown calls deactivate, which drops the Context of Info.
RequestShutdown == up' = up \ {"request", "context"}

StartInfo ==
  /\ stage = "command"
  /\ mode = "info"
  /\ RequestStartup({"context"})
  /\ UNCHANGED <<vars, php, mode, functions, file, table>>

StartModules ==
  /\ stage = "command"
  /\ mode = "modules"
  /\ RequestStartup({})
  /\ UNCHANGED <<vars, php, mode, functions, file, table>>

\* print! panics if stdout is closed, in a callback that cannot unwind.
UbWritePanics == End("abort")

PrintInfo ==
  /\ stage = "printing"
  /\ mode = "info"
  /\ \/ RequestShutdown /\ Return(FALSE)
     \/ UbWritePanics /\ UNCHANGED <<up, failed>>
  /\ UNCHANGED <<vars, php, mode, functions, file, table>>

\* A writeln! meets a closed stdout only if the list is longer than the BufWriter, and
\* leaves the request as it is; what the BufWriter holds at the end is lost silently.
PrintModules ==
  /\ stage = "printing"
  /\ mode = "modules"
  /\ \/ RequestShutdown /\ Return(FALSE)
     \/ Return(TRUE) /\ UNCHANGED up
  /\ UNCHANGED <<vars, php, mode, functions, file, table>>

ReadRoutes ==
  /\ stage = "command"
  /\ mode = "serve"
  /\ file' \in Files
  /\ \/ table' \in FromFile(file') /\ stage' = "bind" /\ UNCHANGED <<failed, status>>
     \/ FromFile(file') = {} /\ Return(TRUE) /\ UNCHANGED table
  /\ UNCHANGED <<vars, layers>>

\* The listener is bound: from here on clients may connect.
Bind ==
  /\ stage = "bind"
  /\ \/ stage' = "serve" /\ UNCHANGED <<failed, status>>
     \/ Return(TRUE)
  /\ UNCHANGED <<vars, layers, file, table>>

-----------------------------------------------------------------------------
(* Serving, signals and the way down (src/cli/mod.rs:122-128, src/main.rs). *)

Serve == stage = "serve" /\ Serving /\ UNCHANGED cli

KilledBySigterm ==
  /\ \/ stage \notin {"serve", "over"} /\ UNCHANGED vars
     \/ stage = "serve" /\ SigtermKills
  /\ End("SIGTERM")
  /\ UNCHANGED <<layers, command>>

KilledBySigint ==
  /\ \/ stage \notin {"serve", "over"} /\ UNCHANGED vars
     \/ stage = "serve" /\ SigintKills
  /\ End("SIGINT")
  /\ UNCHANGED <<layers, command>>

ShutdownModule ==
  /\ \/ stage = "closing" /\ stage' = "closed" /\ UNCHANGED <<vars, failed>>
     \/ /\ stage = "serve" /\ ModuleShutdown /\ failed' = (result = "err")
        /\ UNCHANGED stage
  /\ SapiShutdown
  /\ UNCHANGED <<php, mode, functions, file, table, status>>

\* sapi_shutdown, ext_php_rs_sapi_shutdown, and the exit of main.
ShutdownSapi ==
  /\ \/ stage = "closed" /\ UNCHANGED vars
     \/ stage = "serve" /\ Exit
  /\ up' = up \ {"sapi", "php_tsrm_startup_ex", "ext_php_rs_sapi_startup"}
  /\ End(IF failed THEN "1" ELSE "0")
  /\ UNCHANGED <<php, mode, functions, command>>

-----------------------------------------------------------------------------

Boot ==
  \/ ParseArguments \/ StartTsrm \/ BuildModule \/ StartModule
  \/ StartInfo \/ StartModules \/ PrintInfo \/ PrintModules
  \/ ReadRoutes \/ Bind

ProcessNext ==
  \/ Boot \/ Serve
  \/ KilledBySigterm \/ KilledBySigint
  \/ ShutdownModule \/ ShutdownSapi

ProcessSafeSpec == ProcessInit /\ [][ProcessNext]_processVars

Served(Step) == stage = "serve" /\ Step /\ UNCHANGED cli

\* The fairness of Server, and a main that runs on.
ProcessFairness ==
  /\ WF_processVars(Boot)
  /\ \A c \in Conns : WF_processVars(Served(Spawn(c) \/ LocalAddrFails(c)))
  /\ WF_processVars(Served(OpenSigterm))
  /\ WF_processVars(Served(PollCtrlC))
  /\ \A c \in Conns : SF_processVars(Served(Accept(c)))
  /\ SF_processVars(Served(StopOnSigint))
  /\ SF_processVars(Served(StopOnSigterm))
  /\ \A c \in Conns : WF_processVars(Served(CloseIdle(c)))
  /\ WF_processVars(Served(Drained \/ DrainTimeout))
  /\ WF_processVars(ShutdownModule)
  /\ WF_processVars(ShutdownSapi)

ProcessSpec == ProcessSafeSpec /\ ProcessFairness

-----------------------------------------------------------------------------
(* Properties. *)

\* Every variable has its type (src/cli/mod.rs:72-130).
ProcessTypeOK ==
  /\ TypeOK
  /\ php \in UNION {BuiltAgainst(machine) : machine \in Machines}
  /\ mode \in {"none", "info", "modules", "serve"}
  /\ stage \in {"parse", "tsrm", "build", "startup", "command", "printing", "bind",
                "serve", "closing", "closed", "over"}
  /\ up \subseteq {"ext_php_rs_sapi_startup", "php_tsrm_startup_ex", "sapi", "module",
                   "request", "context"}
  /\ functions \subseteq {"pasir_finish_request", "fastcgi_finish_request"}
  /\ failed \in BOOLEAN
  /\ status \in {"running", "0", "1", "2", "101", "abort", "SIGINT", "SIGTERM"}

\* PHP's layers stand on each other: the thread-safe resource manager that its API asks
\* for, the SAPI, the module, a request. All three are up while a server serves, with
\* the functions its scripts call. Only the list of modules, when it cannot be
\* written, lets a request outlive the module.
LayersInOrder ==
  /\ "ext_php_rs_sapi_startup" \in up => php["PHP API"] < Php83
  /\ "php_tsrm_startup_ex" \in up => php["PHP API"] >= Php83
  /\ "sapi" \in up => up \intersect {"ext_php_rs_sapi_startup", "php_tsrm_startup_ex"} # {}
  /\ "module" \in up => "sapi" \in up
  /\ "request" \in up => "module" \in up \/ (mode = "modules" /\ failed)
  /\ stage = "serve" /\ phase \in {"listening", "serving", "draining"} =>
       "module" \in up /\ "pasir_finish_request" \in functions

\* What the exit status tells: 0 that the command has done its work and that nothing of
\* PHP is left; 1 that it has not, and that PHP's module was shut down all the same if
\* it was ever started (src/main.rs:26-31).
ExitStatus ==
  /\ status = "0" => ~failed /\ up = {}
  /\ status = "0" /\ mode = "serve" => result = "ok"
  /\ status = "1" => failed /\ "module" \notin up

\* Whom the end of the process cuts. A connection that was accepted and not ended is cut
\* when the drain's timer fired, when serve() failed, or by a SIGINT that came before the
\* loop first polled ctrl_c(). A SIGTERM cuts nobody: if it comes before its stream is
\* made, the clients it resets are those that no accept() had taken
\* (src/cli/serve.rs:87-95, 149).
SigtermSparesClients ==
  /\ stage = "over" /\ Handling \union Open # {} =>
       timedOut \/ result = "err" \/ (status = "SIGINT" /\ ~armed)
  /\ status = "SIGTERM" => \A c \in Conns : conn[c] \in {"none", "refused"}

\* The last entry of a list of maps that spells a name as s does.
IsLast(maps, k, s) ==
  s \in DOMAIN maps[k] /\ \A j \in DOMAIN maps : s \in DOMAIN maps[j] => j <= k

\* What Read makes of a list of maps: it can read the last entry of each spelling, and
\* each name has the value of such an entry.
LastEntryStands(maps, map, Read) ==
  /\ DOMAIN map = {NameOf[s] : s \in UNION {DOMAIN maps[k] : k \in DOMAIN maps}}
  /\ \A k \in DOMAIN maps : \A s \in DOMAIN maps[k] :
       IsLast(maps, k, s) => NameOf[s] # Invalid /\ Read[maps[k][s]] # Invalid
  /\ \A h \in DOMAIN map : \E k \in DOMAIN maps : \E s \in DOMAIN maps[k] :
       IsLast(maps, k, s) /\ NameOf[s] = h /\ map[h] = Read[maps[k][s]]

\* A route says what its text says.
IsRoute(text, route) ==
  /\ route.uri = {Compiled[p] : p \in text.uri} /\ Invalid \notin route.uri
  /\ LastEntryStands(text.need, route.need, Compiled)
  /\ route.serve = text.serve
  /\ route.status = text.status /\ route.status \subseteq 100..999
  /\ LastEntryStands(text.insert, route.insert, ValueOf)
  /\ LastEntryStands(text.append, route.append, ValueOf)
  /\ route.remove = text.remove

\* The routes a server serves with are those of its file, all of them, in its order and
\* in every part; a header takes a value of the file that no later entry with the same
\* spelling replaces, and a file with a bad name, value, expression or status, unless a
\* later entry replaces it, is not served. Without a readable file there are no routes.
TableIsFile ==
  stage = "serve" =>
    /\ file.kind = "toml" \/ table = <<>>
    /\ file.kind = "toml" =>
         /\ DOMAIN table = DOMAIN file.routes
         /\ \A i \in DOMAIN table : IsRoute(file.routes[i], table[i])

\* The process comes to serve or ends, and once its loop is left it ends, whatever PHP
\* does.
Exits ==
  (stage # "serve" \/ phase # "serving") ~>
    (stage = "over" \/ (stage = "serve" /\ phase = "serving"))
=============================================================================

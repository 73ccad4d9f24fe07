--------------------------- MODULE ProcessProofs ----------------------------
(***************************************************************************)
(* The process, for every number of connections, every machine it may be   *)
(* built on and every configuration file. It is a server with a beginning  *)
(* and an end, so the theorems of ServerProofs hold of it; the rest is one *)
(* invariant that says, stage by stage, which layers of PHP are up.        *)
(***************************************************************************)
EXTENDS Process, ServerProofs, Extremes, SequenceTheorems

Tsrm == IF Cfg(Php83) THEN "php_tsrm_startup_ex" ELSE "ext_php_rs_sapi_startup"
Base == {Tsrm, "sapi", "module"}

\* What is up at each stage. A command that has failed may leave resources.
UpInv ==
  /\ stage \in {"parse", "tsrm"} => up = {}
  /\ stage = "build" => up = {Tsrm}
  /\ stage = "startup" => up = {Tsrm, "sapi"}
  /\ stage \in {"command", "bind"} => up = Base
  /\ stage = "printing" =>
       up = Base \union {"request"} \union (IF mode = "info" THEN {"context"} ELSE {})
  /\ stage = "closing" => up \ {"request", "context"} = Base
  /\ stage = "closed" => up \ {"request", "context"} = {Tsrm, "sapi"}
  /\ stage \in {"closing", "closed"} =>
       /\ ~failed => up \intersect {"request", "context"} = {}
       /\ "request" \in up => mode = "modules" /\ failed
  /\ stage = "serve" => up = IF phase = "sapi" THEN {Tsrm, "sapi"} ELSE Base

\* Which command is at which stage, and what it has done.
StageInv ==
  /\ stage \in {"bind", "serve"} => mode = "serve"
  /\ stage \in {"startup", "command", "bind", "serve"} /\ mode # "info" =>
       "pasir_finish_request" \in functions
  /\ stage = "printing" => mode \in {"info", "modules"}
  /\ stage \in {"closing", "closed"} /\ mode = "serve" => failed
  /\ stage = "serve" /\ phase = "sapi" => (failed <=> result = "err")
  /\ stage \notin {"serve", "over"} =>
       phase = "listening" /\ conn = [c \in Conns |-> "none"]
  /\ stage = "serve" => phase \in {"listening", "serving", "draining", "module", "sapi"}
  /\ stage # "over" => status = "running"

\* The table is one that the file may be read as.
TableInv ==
  /\ file \in Files \union {[kind |-> "unreadable"]}
  /\ stage \in {"bind", "serve"} => table \in FromFile(file)

ProcessInv ==
  /\ ProcessTypeOK
  /\ IInv
  /\ UpInv
  /\ StageInv
  /\ LayersInOrder
  /\ ExitStatus
  /\ SigtermSparesClients

-----------------------------------------------------------------------------
(* The process is a server. *)

\* A step of the process is one of the server, or leaves its state alone.
LEMMA ProcessStep ==
  ASSUME [ProcessNext]_processVars
  PROVE  [Next]_vars
<1> USE DEF cli
<1>1. CASE Boot
  BY <1>1 DEF Boot, ParseArguments, StartTsrm, BuildModule, StartModule, StartInfo,
              StartModules, PrintInfo, PrintModules, ReadRoutes, Bind
<1>2. CASE Serve
  BY <1>2 DEF Serve, Next
<1>3. CASE KilledBySigterm \/ KilledBySigint
  BY <1>3 DEF KilledBySigterm, KilledBySigint, Next
<1>4. CASE ShutdownModule \/ ShutdownSapi
  BY <1>4 DEF ShutdownModule, ShutdownSapi, Next
<1>5. CASE UNCHANGED processVars
  BY <1>5 DEF processVars
<1>6. QED
  BY <1>1, <1>2, <1>3, <1>4, <1>5 DEF ProcessNext

\* Started by its CLI, with signals that may kill it, the server is the one of Server.
THEOREM ProcessIsServer == ProcessSafeSpec => SafeSpec
<1>1. ProcessInit => Init
  BY DEF ProcessInit
<1>2. QED
  BY <1>1, ProcessStep, PTL DEF ProcessSafeSpec, SafeSpec

\* So a drain that reports success has cut no connection of the process.
THEOREM ProcessDrains == ProcessSafeSpec => []DrainCutsNothing
BY ProcessIsServer, DrainIsGraceful, PTL

\* And those who connect to the process see a server that stops gracefully, whichever
\* way Cli::execute takes to it and whatever signal ends it (src/cli/serve.rs:93-153).
THEOREM ProcessStopsGracefully == ProcessSafeSpec => ImplementsGracefulStop
BY ProcessIsServer, ServerStopsGracefully, PTL

-----------------------------------------------------------------------------
(* The layers of PHP. *)

\* The API numbers of PHP's versions ascend.
LEMMA ApiOrder ==
  /\ Php82 \in Nat /\ Php83 \in Nat /\ Php84 \in Nat /\ Php85 \in Nat
  /\ Php82 < Php83 /\ Php83 < Php84 /\ Php84 < Php85
BY SMT DEF Php82, Php83, Php84, Php85

\* The versions the program knows, and which numbers of the API each covers.
LEMMA VersionTable ==
  /\ DOMAIN versions = 1..4 /\ Len(versions) = 4
  /\ versions[1] = Php82 /\ versions[2] = Php83
  /\ versions[3] = Php84 /\ versions[4] = Php85
BY DEF versions

\* The ranges of TryFrom leave no gap.
LEMMA CoveringVersion ==
  \A n \in Php82..Php85 : n \in Nat /\ \E i \in DOMAIN versions : Covers(i, n)
<1>1. \A n \in Php82..Php85 :
        /\ n \in Nat
        /\ \/ n \in Php82..(Php83 - 1) \/ n \in Php83..(Php84 - 1)
           \/ n \in Php84..(Php85 - 1) \/ n = Php85
  BY ApiOrder
<1>2. \A n : /\ n \in Php82..(Php83 - 1) => Covers(1, n)
             /\ n \in Php83..(Php84 - 1) => Covers(2, n)
             /\ n \in Php84..(Php85 - 1) => Covers(3, n)
             /\ n = Php85 => Covers(4, n)
  BY VersionTable DEF Covers
<1>3. {1, 2, 3, 4} \subseteq DOMAIN versions
  BY VersionTable
<1>4. QED
  BY <1>1, <1>2, <1>3

\* The version that covers a number of the API is the newest one that is not newer.
LEMMA CoveredVersion ==
  ASSUME NEW n \in Nat, NEW v \in TryFrom(n)
  PROVE  /\ n \in Php82..Php85
         /\ \A i \in DOMAIN versions : versions[i] <= v <=> versions[i] <= n
<1>1. PICK i \in DOMAIN versions : Covers(i, n) /\ v = versions[i]
  BY DEF TryFrom
<1>2. i \in {1, 2, 3, 4}
  BY VersionTable
<1>3. CASE i = 1
  BY <1>1, <1>3, VersionTable, ApiOrder DEF Covers
<1>4. CASE i = 2
  BY <1>1, <1>4, VersionTable, ApiOrder DEF Covers
<1>5. CASE i = 3
  BY <1>1, <1>5, VersionTable, ApiOrder DEF Covers
<1>6. CASE i = 4
  BY <1>1, <1>6, VersionTable, ApiOrder DEF Covers
<1>7. QED
  BY <1>2, <1>3, <1>4, <1>5, <1>6

\* A program is built against the PHP versions it knows and no other, and compiled with
\* the flags of those that are not newer than the PHP it found: the build script decides
\* nothing else (build/mod.rs, crates/pasir_build/src/api_version.rs).
THEOREM FlagsTellTheVersion ==
  ASSUME NEW info, NEW flags \in Flags(info)
  PROVE  /\ info["PHP API"] \in Php82..Php85
         /\ flags.php = {versions[i] : i \in {j \in DOMAIN versions : versions[j] <= info["PHP API"]}}
         /\ flags.timers = (info["Zend Max Execution Timers"] = "enabled")
<1>1. flags.php \in CheckPhpVersion(info) /\ flags.timers \in ZendMaxExecutionTimers(info)
  BY DEF Flags
<1>2. PICK n \in ZendVersion(info) : \E v \in TryFrom(n) : flags.php = SupportedApis(v)
  BY <1>1 DEF CheckPhpVersion
<1>3. n = info["PHP API"] /\ n \in Nat
  BY <1>2 DEF ZendVersion, GetKey
<1>4. PICK v \in TryFrom(n) : flags.php = SupportedApis(v)
  BY <1>2
<1>5. /\ n \in Php82..Php85
      /\ \A i \in DOMAIN versions : versions[i] <= v <=> versions[i] <= n
  BY <1>3, CoveredVersion
<1>6. SupportedApis(v) = {versions[i] : i \in {j \in DOMAIN versions : versions[j] <= n}}
  BY <1>5 DEF SupportedApis
<1>7. flags.timers = (info["Zend Max Execution Timers"] = "enabled")
  BY <1>1 DEF ZendMaxExecutionTimers, GetKey
<1>8. QED
  BY <1>3, <1>4, <1>5, <1>6, <1>7

\* What Flags is made of.
LEMMA FlagsOf ==
  ASSUME NEW info, NEW apis \in CheckPhpVersion(info), NEW timers \in ZendMaxExecutionTimers(info)
  PROVE  [php |-> apis, timers |-> timers] \in Flags(info)
<1> DEFINE flags == [php |-> apis, timers |-> timers]
<1>1. \E a \in CheckPhpVersion(info), b \in ZendMaxExecutionTimers(info) :
        flags = [php |-> a, timers |-> b]
  OBVIOUS
<1> HIDE DEF flags
<1>2. flags \in Flags(info)
  BY <1>1 DEF Flags
<1>3. QED
  BY <1>2 DEF flags

\* And no version between the oldest and the newest is refused: the ranges of TryFrom
\* leave no gap.
THEOREM EveryVersionBuilds ==
  ASSUME NEW info, {"PHP API", "Zend Max Execution Timers"} \subseteq DOMAIN info,
         info["PHP API"] \in Php82..Php85
  PROVE  Flags(info) # {}
<1> DEFINE n == info["PHP API"]
<1>1. n \in Nat /\ \E i \in DOMAIN versions : Covers(i, n)
  BY CoveringVersion
<1>2. n \in ZendVersion(info)
  BY <1>1 DEF ZendVersion, GetKey
<1>3. PICK i \in DOMAIN versions : Covers(i, n)
  BY <1>1
<1>4. SupportedApis(versions[i]) \in CheckPhpVersion(info)
  <2>1. versions[i] \in TryFrom(n)
    BY <1>3 DEF TryFrom
  <2>2. versions[i] \in UNION {TryFrom(m) : m \in ZendVersion(info)}
    BY <1>2, <2>1, Zenon
  <2>3. QED
    BY <2>2, Zenon DEF CheckPhpVersion
<1>5. PICK timers \in ZendMaxExecutionTimers(info) : TRUE
  BY DEF ZendMaxExecutionTimers, GetKey
<1>6. QED
  BY <1>4, <1>5, FlagsOf

\* The flag php83 is set for the versions of PHP from 8.3 on.
LEMMA Php83Flag ==
  ASSUME NEW info, Flags(info) # {}
  PROVE  /\ info["PHP API"] \in Nat
         /\ (\E flags \in Flags(info) : Php83 \in flags.php)
              <=> info["PHP API"] >= Php83
<1>1. info["PHP API"] \in Nat
  <2>1. PICK flags \in Flags(info) : TRUE
    OBVIOUS
  <2>2. info["PHP API"] \in Php82..Php85
    BY FlagsTellTheVersion
  <2>3. \A n \in Php82..Php85 : n \in Nat
    BY CoveringVersion
  <2>4. QED
    BY <2>2, <2>3
<1>2. \A flags \in Flags(info) : Php83 \in flags.php <=> Php83 <= info["PHP API"]
  <2> SUFFICES ASSUME NEW flags \in Flags(info)
               PROVE  Php83 \in flags.php <=> Php83 <= info["PHP API"]
    OBVIOUS
  <2>1. flags.php = {versions[i] : i \in {j \in DOMAIN versions : versions[j] <= info["PHP API"]}}
    BY FlagsTellTheVersion
  <2>2. 2 \in DOMAIN versions /\ versions[2] = Php83
    BY VersionTable
  <2>3. QED
    BY <2>1, <2>2, Zenon
<1>3. QED
  BY <1>1, <1>2, ApiOrder

\* The thread-safe resource manager is started by the call of its PHP.
LEMMA TsrmOfPhp ==
  ASSUME ProcessTypeOK
  PROVE  /\ Tsrm \in {"ext_php_rs_sapi_startup", "php_tsrm_startup_ex"}
         /\ Tsrm = "php_tsrm_startup_ex" => php["PHP API"] >= Php83
         /\ Tsrm = "ext_php_rs_sapi_startup" => php["PHP API"] < Php83
<1>1. Flags(php) # {}
  BY DEF ProcessTypeOK, BuiltAgainst
<1>2. php["PHP API"] \in Nat /\ (Cfg(Php83) <=> php["PHP API"] >= Php83)
  BY <1>1, Php83Flag DEF Cfg
<1>3. CASE Cfg(Php83)
  BY <1>2, <1>3 DEF Tsrm
<1>4. CASE ~Cfg(Php83)
  <2>1. \A n, m \in Nat : n < m \/ n >= m
    OBVIOUS
  <2>2. php["PHP API"] < Php83
    BY <1>2, <1>4, <2>1, ApiOrder
  <2>3. QED
    BY <1>4, <2>2 DEF Tsrm
<1>5. QED
  BY <1>3, <1>4

\* The loop and the drain only move on, and leave the result alone once they are over.
LEMMA ServingStep ==
  ASSUME Serving
  PROVE  /\ \/ phase' = phase
            \/ /\ phase \in {"listening", "serving", "draining"}
               /\ phase' \in {"serving", "draining", "module"}
         /\ phase = "sapi" => result' = result
<1>1. ASSUME NEW c \in Conns, PerConn(c)
      PROVE  /\ \/ phase' = phase
                \/ /\ phase \in {"listening", "serving", "draining"}
                   /\ phase' \in {"serving", "draining", "module"}
             /\ phase = "sapi" => result' = result
  BY <1>1 DEF PerConn, Connect, Accept, Spawn, LocalAddrFails, Request, Answer, AnswerEarly,
              ClientLeaves, ClientLeavesBusy, CloseIdle, Leave
<1>2. QED
  BY <1>1 DEF Serving, OpenSigterm, Sigint, Sigterm, PollCtrlC, AcceptFails, StopOnSigint, StopOnSigterm,
              Stop, Selecting, ThreadReturns, Drained, DrainTimeout, EndDrain

\* What the steps below preserve, one part after the other; IInv comes from Server.
Inductive == ProcessTypeOK /\ UpInv /\ StageInv /\ LayersInOrder /\ ExitStatus
               /\ SigtermSparesClients

\* Nothing is up before anything is started.
LEMMA InitProcessInv == ProcessInit => ProcessInv
<1> SUFFICES ASSUME ProcessInit PROVE ProcessInv
  OBVIOUS
<1>1. IInv
  BY InitIInv DEF ProcessInit
<1>2. ProcessTypeOK
  BY <1>1 DEF ProcessInit, ProcessTypeOK, IInv
<1>3. UpInv /\ StageInv /\ LayersInOrder /\ ExitStatus /\ SigtermSparesClients
  BY DEF ProcessInit, Init, UpInv, StageInv, LayersInOrder, ExitStatus, SigtermSparesClients
<1>4. QED
  BY <1>1, <1>2, <1>3 DEF ProcessInv

\* Before there is a listener there is nobody to cut.
LEMMA NobodyToCut ==
  ASSUME StageInv, stage \notin {"serve", "over"}, UNCHANGED vars
  PROVE  SigtermSparesClients'
<1>1. conn' = [c \in Conns |-> "none"]
  BY DEF StageInv, vars
<1>2. Handling' = {} /\ Open' = {}
  BY <1>1 DEF Handling, Open
<1>3. QED
  BY <1>1, <1>2 DEF SigtermSparesClients

\* Starting PHP puts one layer on the other.
LEMMA StartStep ==
  ASSUME ProcessInv, ParseArguments \/ StartTsrm \/ BuildModule \/ StartModule
  PROVE  Inductive'
<1> USE DEF ProcessInv, layers, command
<1>1. php' = php /\ UNCHANGED vars
  BY DEF ParseArguments, StartTsrm, BuildModule, StartModule
<1>2. Tsrm' = Tsrm
  BY <1>1 DEF Tsrm, Cfg
<1>3. ProcessTypeOK'
  <2>1. TypeOK'
    BY <1>1 DEF ProcessTypeOK, TypeOK, vars
  <2>2. CASE ParseArguments
    BY <1>1, <2>1, <2>2 DEF ProcessTypeOK, ParseArguments, End
  <2>3. CASE StartTsrm
    BY <1>1, <2>1, <2>3 DEF ProcessTypeOK, StartTsrm, Bail, End
  <2>4. CASE BuildModule
    BY <1>1, <2>1, <2>4 DEF ProcessTypeOK, BuildModule, BuildInfoModule, BuildSapiModule, End
  <2>5. CASE StartModule
    BY <1>1, <2>1, <2>5 DEF ProcessTypeOK, StartModule, SapiStartup, Bail, End
  <2>6. QED
    BY <2>2, <2>3, <2>4, <2>5
<1>4. UpInv'
  BY <1>1, <1>2, TsrmOfPhp DEF UpInv, Base, Tsrm, ParseArguments, StartTsrm, BuildModule,
     StartModule, End, Bail, SapiStartup, vars
<1>5. StageInv'
  BY <1>1 DEF StageInv, ParseArguments, StartTsrm, BuildModule, StartModule, End, Bail,
     BuildInfoModule, BuildSapiModule, vars
<1>6. LayersInOrder'
  <2>1. CASE stage' # "over"
    BY <1>1, <1>2, <1>4, <2>1, TsrmOfPhp DEF LayersInOrder, UpInv, Base, ParseArguments,
       StartTsrm, BuildModule, StartModule, End, Bail
  <2>2. CASE stage' = "over"
    BY <1>1, <2>2 DEF LayersInOrder, UpInv, ParseArguments, StartTsrm, BuildModule,
       StartModule, End, Bail
  <2>3. QED
    BY <2>1, <2>2
<1>7. ExitStatus'
  BY <1>1, TsrmOfPhp DEF ExitStatus, UpInv, StageInv, Base, ParseArguments, StartTsrm, BuildModule,
     StartModule, End, Bail, vars
<1>8. SigtermSparesClients'
  BY <1>1, NobodyToCut DEF ParseArguments, StartTsrm, BuildModule, StartModule
<1>9. QED
  BY <1>3, <1>4, <1>5, <1>6, <1>7, <1>8 DEF Inductive

\* A command that prints takes down its request, or leaves it to one that has failed.
LEMMA PrintStep ==
  ASSUME ProcessInv, StartInfo \/ StartModules \/ PrintInfo \/ PrintModules
  PROVE  Inductive'
<1> USE DEF ProcessInv, layers, command
<1>1. php' = php /\ mode' = mode /\ functions' = functions /\ UNCHANGED vars
  BY DEF StartInfo, StartModules, PrintInfo, PrintModules
<1>2. Tsrm' = Tsrm
  BY <1>1 DEF Tsrm, Cfg
<1>3. ProcessTypeOK'
  <2>1. TypeOK'
    BY <1>1 DEF ProcessTypeOK, TypeOK, vars
  <2>2. CASE StartInfo \/ StartModules
    BY <1>1, <2>1, <2>2 DEF ProcessTypeOK, StartInfo, StartModules, RequestStartup, Return
  <2>3. CASE PrintInfo \/ PrintModules
    BY <1>1, <2>1, <2>3 DEF ProcessTypeOK, PrintInfo, PrintModules, RequestShutdown, Return,
                            UbWritePanics, End
  <2>4. QED
    BY <2>2, <2>3
<1>4. UpInv'
  <2>1. CASE StartInfo
    BY <1>1, <1>2, <2>1, TsrmOfPhp DEF UpInv, Base, StartInfo, RequestStartup, Return
  <2>2. CASE StartModules
    BY <1>1, <1>2, <2>2, TsrmOfPhp DEF UpInv, Base, StartModules, RequestStartup, Return
  <2>3. CASE PrintInfo
    BY <1>1, <1>2, <2>3, TsrmOfPhp DEF UpInv, Base, PrintInfo, RequestShutdown, Return,
       UbWritePanics, End
  <2>4. CASE PrintModules
    BY <1>1, <1>2, <2>4, TsrmOfPhp DEF UpInv, Base, PrintModules, RequestShutdown, Return
  <2>5. QED
    BY <2>1, <2>2, <2>3, <2>4
<1>5. StageInv'
  BY <1>1 DEF StageInv, StartInfo, StartModules, PrintInfo, PrintModules, RequestStartup,
     RequestShutdown, Return, UbWritePanics, End, vars
<1>6. LayersInOrder'
  <2>1. CASE stage' # "over"
    <3>1. stage' \in {"printing", "closing"}
      BY <2>1 DEF StartInfo, StartModules, PrintInfo, PrintModules, RequestStartup,
         RequestShutdown, Return, UbWritePanics, End
    <3>2. QED
      BY <1>1, <1>2, <1>4, <3>1, TsrmOfPhp DEF LayersInOrder, UpInv, Base
  <2>2. CASE stage' = "over"
    BY <1>1, <2>2 DEF LayersInOrder, StartInfo, StartModules, PrintInfo, PrintModules,
       RequestStartup, RequestShutdown, Return, UbWritePanics, End
  <2>3. QED
    BY <2>1, <2>2
<1>7. ExitStatus'
  BY <1>1 DEF ExitStatus, StageInv, StartInfo, StartModules, PrintInfo, PrintModules, RequestStartup,
     RequestShutdown, Return, UbWritePanics, End, vars
<1>8. SigtermSparesClients'
  BY <1>1, NobodyToCut DEF StartInfo, StartModules, PrintInfo, PrintModules
<1>9. QED
  BY <1>3, <1>4, <1>5, <1>6, <1>7, <1>8 DEF Inductive

\* A server that gets ready leaves the layers alone.
LEMMA ReadyStep ==
  ASSUME ProcessInv, ReadRoutes \/ Bind
  PROVE  Inductive'
<1> USE DEF ProcessInv, layers, command
<1>1. UNCHANGED <<layers, vars, status>>
  BY DEF ReadRoutes, Bind, Return
<1>2. Tsrm' = Tsrm
  BY <1>1 DEF Tsrm, Cfg
<1>3. stage' \in {"bind", "serve", "closing"} /\ failed' \in BOOLEAN
  BY DEF ReadRoutes, Bind, Return, ProcessTypeOK
<1>4. ProcessTypeOK'
  BY <1>1, <1>3 DEF ProcessTypeOK, TypeOK, vars
<1>5. UpInv'
  BY <1>1, <1>2, TsrmOfPhp DEF UpInv, StageInv, Base, ReadRoutes, Bind, Return, vars
<1>6. StageInv'
  BY <1>1 DEF StageInv, ReadRoutes, Bind, Return, vars
<1>7. LayersInOrder'
  BY <1>1, <1>2, <1>3, <1>5, <1>6, TsrmOfPhp DEF LayersInOrder, UpInv, StageInv, Base
<1>8. ExitStatus'
  BY <1>1 DEF ExitStatus, StageInv, ReadRoutes, Bind, Return, vars
<1>9. SigtermSparesClients'
  BY <1>1, NobodyToCut DEF ReadRoutes, Bind
<1>10. QED
  BY <1>4, <1>5, <1>6, <1>7, <1>8, <1>9 DEF Inductive

\* A server that serves leaves the layers alone until its loop and its drain are over.
LEMMA ServeStep ==
  ASSUME ProcessInv, Serve
  PROVE  Inductive'
<1> USE DEF ProcessInv, layers, command, cli
<1>1. UNCHANGED cli /\ stage = "serve"
  BY DEF Serve
<1>2. Tsrm' = Tsrm
  BY <1>1 DEF Tsrm, Cfg
<1>3. ProcessTypeOK'
  <2>1. TypeOK'
    BY TypeStep DEF Serve, Next, IInv
  <2>2. QED
    BY <1>1, <2>1 DEF ProcessTypeOK
<1>4. /\ \/ phase' = phase
         \/ /\ phase \in {"listening", "serving", "draining"}
            /\ phase' \in {"serving", "draining", "module"}
      /\ phase = "sapi" => result' = result
  BY ServingStep DEF Serve
<1>5. UpInv'
  BY <1>1, <1>2, <1>4 DEF UpInv, Base
<1>6. StageInv'
  BY <1>1, <1>4 DEF StageInv
<1>7. LayersInOrder'
  BY <1>1, <1>2, <1>4, TsrmOfPhp DEF LayersInOrder
<1>8. ExitStatus' /\ SigtermSparesClients'
  BY <1>1 DEF ExitStatus, SigtermSparesClients, StageInv
<1>9. QED
  BY <1>3, <1>5, <1>6, <1>7, <1>8 DEF Inductive

\* A signal that kills leaves everything as it is.
LEMMA KillStep ==
  ASSUME ProcessInv, KilledBySigterm \/ KilledBySigint
  PROVE  Inductive'
<1> USE DEF ProcessInv, layers, command
<1>1. UNCHANGED <<layers, command>> /\ stage' = "over" /\ status' \in {"SIGINT", "SIGTERM"}
  BY DEF KilledBySigterm, KilledBySigint, End
<1>2. ProcessTypeOK'
  <2>1. TypeOK'
    BY TypeStep DEF KilledBySigterm, KilledBySigint, Next, IInv
  <2>2. QED
    BY <1>1, <2>1 DEF ProcessTypeOK
<1>3. UpInv' /\ StageInv' /\ LayersInOrder' /\ ExitStatus'
  BY <1>1 DEF UpInv, StageInv, LayersInOrder, ExitStatus
<1>4. SigtermSparesClients'
  <2>1. CASE stage # "serve"
    BY <2>1, NobodyToCut DEF KilledBySigterm, KilledBySigint
  <2>2. CASE KilledBySigterm /\ stage = "serve"
    BY <2>2 DEF KilledBySigterm, SigtermKills, SigtermUnheard, Refused, SigtermSparesClients,
       Handling, Open, IInv, TypeOK, LoopNotEntered
  <2>3. CASE KilledBySigint /\ stage = "serve"
    BY <2>3 DEF KilledBySigint, End, SigintKills, SigtermSparesClients, StageInv
  <2>4. QED
    BY <2>1, <2>2, <2>3
<1>5. QED
  BY <1>2, <1>3, <1>4 DEF Inductive

\* The module goes first.
LEMMA ShutdownModuleStep ==
  ASSUME ProcessInv, ShutdownModule
  PROVE  Inductive'
<1> USE DEF ProcessInv, layers, command
<1>1. /\ UNCHANGED <<php, mode, functions, status>> /\ up' = up \ {"module"}
      /\ stage' \in {"closed", "serve"} /\ failed' \in BOOLEAN
  BY DEF ShutdownModule, SapiShutdown, ProcessTypeOK
<1>2. Tsrm' = Tsrm
  BY <1>1 DEF Tsrm, Cfg
<1>3. ProcessTypeOK'
  <2>1. TypeOK'
    BY TypeStep DEF ShutdownModule, Next, IInv
  <2>2. QED
    BY <1>1, <2>1 DEF ProcessTypeOK
<1>4. UpInv'
  <2>1. CASE stage = "closing"
    <3>1. /\ stage' = "closed" /\ failed' = failed
          /\ up \ {"request", "context"} = {Tsrm, "sapi", "module"}
      BY <2>1 DEF ShutdownModule, UpInv, Base
    <3>2. up' \ {"request", "context"} = {Tsrm, "sapi"}
      BY <1>1, <3>1, TsrmOfPhp
    <3>3. up' \intersect {"request", "context"} = up \intersect {"request", "context"}
      BY <1>1
    <3>4. QED
      BY <1>1, <1>2, <2>1, <3>1, <3>2, <3>3 DEF UpInv
  <2>2. CASE stage = "serve"
    <3>1. phase = "module" /\ phase' = "sapi" /\ stage' = "serve"
      BY <2>2 DEF ShutdownModule, ModuleShutdown
    <3>2. up = {Tsrm, "sapi", "module"}
      BY <2>2, <3>1 DEF UpInv, Base
    <3>3. up' = {Tsrm, "sapi"}
      BY <1>1, <3>2, TsrmOfPhp
    <3>4. QED
      BY <1>2, <3>1, <3>3 DEF UpInv
  <2>3. QED
    BY <2>1, <2>2 DEF ShutdownModule
<1>5. StageInv'
  BY <1>1 DEF StageInv, ShutdownModule, ModuleShutdown, vars
<1>6. LayersInOrder'
  BY <1>1, <1>2, <1>4, TsrmOfPhp DEF LayersInOrder, UpInv, Base, ShutdownModule, ModuleShutdown
<1>7. ExitStatus' /\ SigtermSparesClients'
  BY <1>1 DEF ExitStatus, SigtermSparesClients, StageInv, ShutdownModule
<1>8. QED
  BY <1>3, <1>4, <1>5, <1>6, <1>7 DEF Inductive

\* Then the rest, and the process exits.
LEMMA ShutdownSapiStep ==
  ASSUME ProcessInv, ShutdownSapi
  PROVE  Inductive'
<1> USE DEF ProcessInv, layers, command
<1>1. /\ UNCHANGED <<php, mode, functions, command>> /\ stage' = "over"
      /\ up' = up \ {"sapi", "php_tsrm_startup_ex", "ext_php_rs_sapi_startup"}
      /\ status' = IF failed THEN "1" ELSE "0"
  BY DEF ShutdownSapi, End
<1>2. ProcessTypeOK'
  <2>1. TypeOK'
    BY TypeStep DEF ShutdownSapi, Next, IInv
  <2>2. QED
    BY <1>1, <2>1 DEF ProcessTypeOK
<1>3. UpInv' /\ StageInv'
  BY <1>1 DEF UpInv, StageInv
<1>4. SigtermSparesClients'
  <2>1. CASE stage = "closed"
    <3>1. UNCHANGED vars
      BY <2>1 DEF ShutdownSapi
    <3>2. QED
      BY <2>1, <3>1, NobodyToCut
  <2>2. CASE stage = "serve" /\ Exit
    <3>1. Handling' = {} /\ Open' = Open /\ result' = result /\ timedOut' = timedOut
      BY <2>2 DEF Exit, Handling, Open, IInv, NoConnectionDropped
    <3>2. result \in {"ok", "err"}
      BY <2>2 DEF Exit, IInv, TypeOK, ResultOfServe
    <3>3. Open # {} => timedOut \/ result = "err"
      BY <3>2 DEF IInv, DrainCutsNothing
    <3>4. QED
      BY <1>1, <3>1, <3>3 DEF SigtermSparesClients
  <2>3. QED
    BY <2>1, <2>2 DEF ShutdownSapi
<1>5. /\ up \ {"request", "context"} = {Tsrm, "sapi"}
      /\ ~failed => up = {Tsrm, "sapi"}
      /\ "request" \in up => mode = "modules" /\ failed
  <2>1. CASE stage = "closed"
    BY <2>1 DEF UpInv
  <2>2. CASE stage = "serve" /\ phase = "sapi"
    BY <2>2, TsrmOfPhp DEF UpInv
  <2>3. QED
    BY <2>1, <2>2 DEF ShutdownSapi, Exit
<1>6. LayersInOrder'
  <2>1. up' \subseteq {"request", "context"} /\ ("request" \in up' => "request" \in up)
    BY <1>1, <1>5, TsrmOfPhp
  <2>2. QED
    BY <1>1, <1>5, <2>1 DEF LayersInOrder
<1>7. ExitStatus'
  <2>1. status' = "0" /\ mode' = "serve" => result' = "ok"
    BY <1>1 DEF ShutdownSapi, StageInv, Exit, ProcessTypeOK, TypeOK, IInv, ResultOfServe
  <2>2. QED
    BY <1>1, <1>5, <2>1, TsrmOfPhp DEF ExitStatus
<1>8. QED
  BY <1>2, <1>3, <1>4, <1>6, <1>7 DEF Inductive

\* Every step keeps the invariant.
LEMMA ProcessInvStep ==
  ASSUME ProcessInv, [ProcessNext]_processVars
  PROVE  ProcessInv'
<1>1. IInv'
  BY ProcessStep, TypeStep, LoopStep, DrainStep DEF ProcessInv, IInv
<1>2. CASE UNCHANGED processVars
  <2>1. Tsrm' = Tsrm
    BY <1>2 DEF Tsrm, Cfg, processVars, cli, layers
  <2>2. ProcessTypeOK' /\ LayersInOrder' /\ ExitStatus' /\ SigtermSparesClients'
    <3> USE <1>2 DEF ProcessInv, processVars, vars, cli, layers, command
    <3>1. ProcessTypeOK'
      BY <1>1 DEF ProcessTypeOK, IInv
    <3>2. LayersInOrder'
      BY DEF LayersInOrder
    <3>3. ExitStatus' /\ SigtermSparesClients'
      BY DEF ExitStatus, SigtermSparesClients, Handling, Open
    <3>4. QED
      BY <3>1, <3>2, <3>3
  <2>3. UpInv' /\ StageInv'
    BY <1>2, <2>1 DEF ProcessInv, UpInv, Base, StageInv, processVars, vars, cli, layers, command
  <2>4. QED
    BY <1>1, <2>2, <2>3 DEF ProcessInv
<1>3. CASE ProcessNext
  <2>1. Inductive'
    BY <1>3, StartStep, PrintStep, ReadyStep, ServeStep, KillStep, ShutdownModuleStep,
       ShutdownSapiStep DEF ProcessNext, Boot
  <2>2. QED
    BY <1>1, <2>1 DEF Inductive, ProcessInv
<1>4. QED
  BY <1>2, <1>3

\* The invariant holds in every state.
THEOREM ProcessInvariant == ProcessSafeSpec => []ProcessInv
<1>1. ProcessInv /\ [ProcessNext]_processVars => ProcessInv'
  BY ProcessInvStep
<1>2. QED
  BY InitProcessInv, <1>1, PTL DEF ProcessSafeSpec

\* Every variable of the process keeps its type.
THEOREM ProcessTypeCorrect == ProcessSafeSpec => []ProcessTypeOK
<1>1. ProcessInv => ProcessTypeOK
  BY DEF ProcessInv
<1>2. QED
  BY ProcessInvariant, <1>1, PTL

\* PHP's layers stand on each other, whatever fails on the way up or down.
THEOREM LayersAreInOrder == ProcessSafeSpec => []LayersInOrder
<1>1. ProcessInv => LayersInOrder
  BY DEF ProcessInv
<1>2. QED
  BY ProcessInvariant, <1>1, PTL

\* The exit status tells what was done and what is left.
THEOREM ExitStatusTells == ProcessSafeSpec => []ExitStatus
<1>1. ProcessInv => ExitStatus
  BY DEF ProcessInv
<1>2. QED
  BY ProcessInvariant, <1>1, PTL

\* Whatever ends the process cuts a connection that was accepted only after the timer of
\* the drain, an error of serve() or a SIGINT before the first poll of ctrl_c(); a
\* SIGTERM never does, though clients can connect before it is handled
\* (src/cli/serve.rs:87-153).
THEOREM SigtermIsSafe == ProcessSafeSpec => []SigtermSparesClients
<1>1. ProcessInv => SigtermSparesClients
  BY DEF ProcessInv
<1>2. QED
  BY ProcessInvariant, <1>1, PTL

-----------------------------------------------------------------------------
(* The table of routes. *)

\* Of the entries of a spelling the last one stands.
LEMMA LastStands ==
  ASSUME NEW maps, maps \in Seq(Range(maps)), NEW s \in DOMAIN Flattened(maps)
  PROVE  \E k \in DOMAIN maps : IsLast(maps, k, s) /\ Flattened(maps)[s] = maps[k][s]
<1> DEFINE Naming == {i \in DOMAIN maps : s \in DOMAIN maps[i]}
<1>1. DOMAIN maps = 1..Len(maps) /\ Len(maps) \in Nat
  OBVIOUS
<1>2. Naming # {} /\ Naming \subseteq 1..Len(maps)
  BY <1>1 DEF Flattened
<1>3. \E k \in Naming : \A j \in Naming : j <= k
  BY <1>1, <1>2, GreatestBelow
<1>4. PICK k \in Naming : /\ \A j \in Naming : j <= k
                          /\ Flattened(maps)[s] = maps[k][s]
  BY <1>3 DEF Flattened
<1>5. QED
  BY <1>4 DEF IsLast

\* There is one last entry of a spelling.
LEMMA OneLast ==
  ASSUME NEW maps, maps \in Seq(Range(maps)), NEW s,
         NEW k \in DOMAIN maps, NEW j \in DOMAIN maps, IsLast(maps, k, s), IsLast(maps, j, s)
  PROVE  k = j
<1>1. k <= j /\ j <= k
  BY DEF IsLast
<1>2. k \in Nat /\ j \in Nat
  OBVIOUS
<1>3. QED
  BY <1>1, <1>2

\* What a list of header maps is read as, whatever the order of the hashes.
LEMMA EntriesStand ==
  ASSUME NEW maps, maps \in Seq(Range(maps)), NEW Read,
         NEW map \in Keyed(Flattened(maps), Read)
  PROVE  LastEntryStands(maps, map, Read)
<1> DEFINE entries == Flattened(maps)
<1>1. DOMAIN entries = UNION {DOMAIN maps[k] : k \in DOMAIN maps}
  BY DEF Flattened
<1> HIDE DEF entries
<1>2. /\ DOMAIN map = {NameOf[s] : s \in DOMAIN entries}
      /\ \A h \in DOMAIN map : \E s \in DOMAIN entries :
           NameOf[s] = h /\ map[h] = Read[entries[s]]
      /\ \A s \in DOMAIN entries : NameOf[s] # Invalid /\ Read[entries[s]] # Invalid
  BY DEF Keyed, entries
<1>3. \A s \in DOMAIN entries :
        \E k \in DOMAIN maps : IsLast(maps, k, s) /\ entries[s] = maps[k][s]
  BY LastStands DEF entries
<1>4. ASSUME NEW h \in DOMAIN map
      PROVE  \E k \in DOMAIN maps : \E s \in DOMAIN maps[k] :
               IsLast(maps, k, s) /\ NameOf[s] = h /\ map[h] = Read[maps[k][s]]
  <2>1. PICK s \in DOMAIN entries : NameOf[s] = h /\ map[h] = Read[entries[s]]
    BY <1>2
  <2>2. PICK k \in DOMAIN maps : IsLast(maps, k, s) /\ entries[s] = maps[k][s]
    BY <1>3
  <2>3. QED
    BY <2>1, <2>2 DEF IsLast
<1>5. ASSUME NEW k \in DOMAIN maps, NEW s \in DOMAIN maps[k], IsLast(maps, k, s)
      PROVE  NameOf[s] # Invalid /\ Read[maps[k][s]] # Invalid
  <2>1. s \in DOMAIN entries
    BY <1>1
  <2>2. PICK j \in DOMAIN maps : IsLast(maps, j, s) /\ entries[s] = maps[j][s]
    BY <1>3, <2>1
  <2>3. j = k
    BY <1>5, <2>2, OneLast
  <2>4. QED
    BY <1>2, <2>1, <2>2, <2>3
<1>6. DOMAIN map = {NameOf[s] : s \in UNION {DOMAIN maps[k] : k \in DOMAIN maps}}
  BY <1>1, <1>2
<1>7. QED
  BY <1>4, <1>5, <1>6 DEF LastEntryStands

\* A text is read as a route that says what it says.
LEMMA RouteIsRead ==
  ASSUME NEW text, NEW route \in ParseRoute(text),
         \A maps \in {text.need, text.insert, text.append} : maps \in Seq(Range(maps))
  PROVE  IsRoute(text, route)
<1>1. PICK uri \in DeserializeUri(text.uri), need \in DeserializeHeaders(text.need),
           status_ \in DeserializeStatus(text.status),
           insert \in DeserializeActionHeaders(text.insert),
           append \in DeserializeActionHeaders(text.append) :
        route = [uri |-> uri, need |-> need, serve |-> text.serve, status |-> status_,
                 insert |-> insert, append |-> append, remove |-> text.remove]
  BY DEF ParseRoute
<1>2. /\ LastEntryStands(text.need, need, Compiled)
      /\ LastEntryStands(text.insert, insert, ValueOf)
      /\ LastEntryStands(text.append, append, ValueOf)
  BY <1>1, EntriesStand DEF DeserializeHeaders, DeserializeActionHeaders
<1>3. uri = {Compiled[p] : p \in text.uri} /\ Invalid \notin uri
  BY <1>1 DEF DeserializeUri
<1>4. status_ = text.status /\ status_ \subseteq 100..999
  <2>1. DeserializeStatus(text.status) \in {{text.status}, {}}
    BY Zenon DEF DeserializeStatus
  <2>2. text.status \subseteq 100..999 \/ DeserializeStatus(text.status) = {}
    BY Zenon DEF DeserializeStatus
  <2>3. status_ \in DeserializeStatus(text.status)
    BY <1>1
  <2>4. status_ = text.status
    BY <2>1, <2>3
  <2>5. text.status \subseteq 100..999
    BY <2>2, <2>3, Zenon
  <2>6. QED
    BY <2>4, <2>5, Zenon
<1>5. /\ route.uri = uri /\ route.need = need /\ route.serve = text.serve
      /\ route.status = status_ /\ route.insert = insert /\ route.append = append
      /\ route.remove = text.remove
  BY <1>1
<1>6. QED
  BY <1>2, <1>3, <1>4, <1>5 DEF IsRoute

\* Entries in which no two spellings have one name are read in one way.
LEMMA KeyedOnce ==
  ASSUME NEW entries, NEW Read,
         \A s, t \in DOMAIN entries : NameOf[s] = NameOf[t] => s = t,
         NEW m \in Keyed(entries, Read), NEW o \in Keyed(entries, Read)
  PROVE  m = o
<1> DEFINE names == {NameOf[s] : s \in DOMAIN entries}
           values == {Read[entries[s]] : s \in DOMAIN entries}
<1>1. /\ m \in [names -> values] /\ o \in [names -> values]
      /\ \A h \in names : \E s \in DOMAIN entries : NameOf[s] = h /\ m[h] = Read[entries[s]]
      /\ \A h \in names : \E s \in DOMAIN entries : NameOf[s] = h /\ o[h] = Read[entries[s]]
  BY DEF Keyed
<1>2. \A h \in names : m[h] = o[h]
  BY <1>1
<1>3. QED
  BY <1>1, <1>2

\* No list of header maps of a route has two spellings of one name.
NamesOnce(maps) ==
  \A s, t \in UNION {DOMAIN maps[i] : i \in DOMAIN maps} : NameOf[s] = NameOf[t] => s = t

\* The two HashMaps a list of header maps goes through have random orders, and yet a file
\* that spells each name of a list in one way has at most one table: what a server
\* does with it changes from no start to the next (src/config/route.rs:193-218).
THEOREM FileIsReadOneWay ==
  ASSUME NEW text, text.kind = "toml",
         \A i \in DOMAIN text.routes :
           /\ NamesOnce(text.routes[i].need)
           /\ NamesOnce(text.routes[i].insert)
           /\ NamesOnce(text.routes[i].append),
         NEW t \in FromFile(text), NEW u \in FromFile(text)
  PROVE  t = u
<1>1. ASSUME NEW maps, NamesOnce(maps)
      PROVE  \A s, r \in DOMAIN Flattened(maps) : NameOf[s] = NameOf[r] => s = r
  BY <1>1 DEF NamesOnce, Flattened
<1>2. ASSUME NEW maps, NamesOnce(maps)
      PROVE  /\ \A m, o \in DeserializeHeaders(maps) : m = o
             /\ \A m, o \in DeserializeActionHeaders(maps) : m = o
  BY <1>1, <1>2, KeyedOnce DEF DeserializeHeaders, DeserializeActionHeaders
<1>3. ASSUME NEW p, \E i \in DOMAIN text.routes : p = text.routes[i],
             NEW a \in ParseRoute(p), NEW b \in ParseRoute(p)
      PROVE  a = b
  <2>1. /\ NamesOnce(p.need) /\ NamesOnce(p.insert) /\ NamesOnce(p.append)
    BY <1>3
  <2>2. /\ \A m, o \in DeserializeHeaders(p.need) : m = o
        /\ \A m, o \in DeserializeActionHeaders(p.insert) : m = o
        /\ \A m, o \in DeserializeActionHeaders(p.append) : m = o
    BY <1>2, <2>1
  <2>3. /\ \A m, o \in DeserializeUri(p.uri) : m = o
        /\ \A m, o \in DeserializeStatus(p.status) : m = o
    BY DEF DeserializeUri, DeserializeStatus
  <2>4. QED
    BY <2>2, <2>3 DEF ParseRoute
<1>4. /\ DOMAIN t = DOMAIN text.routes /\ DOMAIN u = DOMAIN text.routes
      /\ \A i \in DOMAIN text.routes :
           t[i] \in ParseRoute(text.routes[i]) /\ u[i] \in ParseRoute(text.routes[i])
      /\ t = [i \in DOMAIN t |-> t[i]] /\ u = [i \in DOMAIN u |-> u[i]]
  BY DEF FromFile
<1>5. \A i \in DOMAIN text.routes : t[i] = u[i]
  BY <1>3, <1>4
<1>6. QED
  BY <1>4, <1>5

\* The table is read once, and is what the file may be read as ever after.
LEMMA TableStep ==
  ASSUME TableInv, [ProcessNext]_processVars
  PROVE  TableInv'
<1> USE DEF TableInv, command
<1>1. CASE ReadRoutes
  BY <1>1 DEF ReadRoutes, Return
<1>2. CASE Bind
  BY <1>2 DEF Bind, Return
<1>3. CASE ParseArguments \/ StartTsrm \/ BuildModule \/ StartModule
  BY <1>3 DEF ParseArguments, StartTsrm, BuildModule, StartModule, Bail, End
<1>4. CASE StartInfo \/ StartModules \/ PrintInfo \/ PrintModules
  BY <1>4 DEF StartInfo, StartModules, PrintInfo, PrintModules, RequestStartup, UbWritePanics,
              Return, End
<1>5. CASE Serve \/ KilledBySigterm \/ KilledBySigint \/ ShutdownModule \/ ShutdownSapi
  BY <1>5 DEF Serve, KilledBySigterm, KilledBySigint, ShutdownModule, ShutdownSapi, End, cli
<1>6. CASE UNCHANGED processVars
  BY <1>6 DEF processVars, cli
<1>7. QED
  BY <1>1, <1>2, <1>3, <1>4, <1>5, <1>6 DEF ProcessNext, Boot

\* A server serves with the routes of its file: every route, in its place and in all of
\* its parts, and no route that has a part which cannot be read
\* (src/config/route.rs:17-36, 127-217, src/cli/serve.rs:86).
THEOREM TableIsRead == ProcessSafeSpec => []TableIsFile
<1>1. ProcessInit => TableInv
  BY DEF ProcessInit, TableInv
<1>2. TableInv => TableIsFile
  <2> SUFFICES ASSUME TableInv, stage = "serve"
               PROVE  /\ file.kind = "toml" \/ table = <<>>
                      /\ file.kind = "toml" =>
                           /\ DOMAIN table = DOMAIN file.routes
                           /\ \A i \in DOMAIN table : IsRoute(file.routes[i], table[i])
    BY DEF TableIsFile
  <2>1. table \in FromFile(file) /\ file.kind \in {"unreadable", "malformed", "toml"}
    BY ProcessAssumption DEF TableInv
  <2>2. CASE file.kind # "toml"
    BY <2>1, <2>2 DEF FromFile
  <2>3. CASE file.kind = "toml"
    <3>1. /\ DOMAIN table = DOMAIN file.routes
          /\ \A i \in DOMAIN table : table[i] \in ParseRoute(file.routes[i])
      BY <2>1, <2>3 DEF FromFile
    <3>2. ASSUME NEW i \in DOMAIN table
          PROVE  IsRoute(file.routes[i], table[i])
      <4>1. \A maps \in {file.routes[i].need, file.routes[i].insert, file.routes[i].append} :
              maps \in Seq(Range(maps))
        BY <2>3, <3>1, ProcessAssumption DEF TableInv
      <4>2. QED
        BY <3>1, <4>1, RouteIsRead
    <3>3. QED
      BY <2>3, <3>1, <3>2
  <2>4. QED
    BY <2>2, <2>3
<1>3. QED
  BY <1>1, <1>2, TableStep, PTL DEF ProcessSafeSpec
=============================================================================

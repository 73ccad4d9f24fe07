------------------------------- MODULE Build --------------------------------
(***************************************************************************)
(* The build scripts: what build/mod.rs and crates/pasir_sapi/build.rs     *)
(* make of the PHP they find, with crates/pasir_build. Their only outcome  *)
(* is the set of cfg flags the program is compiled with.                   *)
(*                                                                         *)
(* The output of phpinfo() is a function from the keys it prints to their  *)
(* values. An optional result is a set of at most one element: the empty   *)
(* set is an error, and the build fails.                                   *)
(***************************************************************************)
EXTENDS Integers, Sequences

Php82 == 20220829
Php83 == 20230831
Php84 == 20240924
Php85 == 20250925

versions == <<Php82, Php83, Php84, Php85>>

GetKey(info, key) == IF key \in DOMAIN info THEN {info[key]} ELSE {}

\* A negative number stands for every value that u32::from_str refuses.
ZendVersion(info) == GetKey(info, "PHP API") \intersect Nat

\* Every version but the last covers the numbers up to the next one.
Covers(i, n) ==
  IF i = Len(versions) THEN n = versions[i] ELSE n \in versions[i]..(versions[i + 1] - 1)

TryFrom(n) == {versions[i] : i \in {j \in DOMAIN versions : Covers(j, n)}}

\* Mutant: only the flag of the version itself is set.
SupportedOnly(v) == {v}

SupportedApis(v) == {w \in {versions[i] : i \in DOMAIN versions} : w <= v}

CheckPhpVersion(info) ==
  {SupportedApis(v) : v \in UNION {TryFrom(n) : n \in ZendVersion(info)}}

ZendMaxExecutionTimers(info) ==
  {value = "enabled" : value \in GetKey(info, "Zend Max Execution Timers")}

\* The cfg flags of a build against a PHP that prints info.
Flags(info) ==
  {[php |-> apis, timers |-> timers] :
     apis \in CheckPhpVersion(info), timers \in ZendMaxExecutionTimers(info)}

\* An executable is where its environment variable says, if it says anything, and
\* else where the PATH has it; it must exist.
FindExecutable(machine) ==
  (IF machine.env # {} THEN machine.env ELSE machine.path) \intersect machine.files

\* A php that fails has no output.
Get(machine, exe) ==
  IF exe \in DOMAIN machine.output THEN {machine.output[exe]} ELSE {}

\* What the PHP prints that the program is built against on a machine. A build that
\* fails leaves no program.
BuiltAgainst(machine) ==
  {info \in UNION {Get(machine, exe) : exe \in FindExecutable(machine)} : Flags(info) # {}}
=============================================================================

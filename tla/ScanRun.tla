------------------------------- MODULE ScanRun -------------------------------
(***************************************************************************)
(* sizetrail scan and doctor: src/main.rs opens the root, turns the user's *)
(* --exclude arguments into checked paths, measures the capacity (scan     *)
(* only), runs the enabled adapters one after the other, and src/scan.rs   *)
(* composes the document the exit code is read from.  An adapter is        *)
(* modelled by what the module of its own shows of its report: a status,   *)
(* and which excludes it records.                                          *)
(* A path is the sequence of its components; an argument is the physical   *)
(* path it stands for, or Malformed.                                       *)
(***************************************************************************)
EXTENDS Naturals, Sequences, FiniteSets, SequencesExt

CONSTANTS
  Home, Prefix,   \* the two roots that are opened
  HomeRoots,      \* HomeRoots[a]: what adapter a scans below Home by default
  DockerFolders,  \* data folders vmconfig may name, or {} for none
  GoFolders,      \* sets of caches the go configuration may name, defaults included
  Arguments,      \* paths --exclude may name
  Malformed,      \* a glob, or a path that is not normalized
  MaxExcludes     \* BOUND: arguments of one command line

Order == <<"homebrew", "xcode", "docker", "go">>
Adapters == {"homebrew", "xcode", "docker", "go"}

ASSUME ScanAssumption ==
  /\ DOMAIN HomeRoots = Adapters
  /\ Malformed \notin Arguments
  /\ MaxExcludes \in Nat

VARIABLES
  command,             \* scan or doctor
  enabled, requested,  \* its command line
  absent,              \* arguments that do not exist or cannot be looked up
  opened, installed,   \* the root opens; a Homebrew layout is found
  folder, caches,      \* what vmconfig and the go configuration say when the
                       \* arguments are checked; a report reads them again
  reachable,           \* the folder opens as a root
  pc, todo, excludes,
  next,                \* the adapter whose turn it is
  capacity, regions, recorded, exit

world == <<command, enabled, requested, absent, opened, installed, folder, caches, reachable>>
vars == <<world, pc, todo, excludes, next, capacity, regions, recorded, exit>>

Statuses == {"Complete", "NotPresent", "Unmeasurable", "ExcludedByUser"}

Init ==
  /\ command \in {"scan", "doctor"}
  /\ enabled \in SUBSET Adapters
  /\ requested \in {r \in SUBSET (Arguments \cup {Malformed}) : Cardinality(r) <= MaxExcludes}
  /\ absent \in SUBSET requested
  /\ opened \in BOOLEAN /\ installed \in BOOLEAN
  /\ folder \in DockerFolders
  /\ caches \in GoFolders
  /\ reachable \in BOOLEAN
  /\ pc = "start"
  /\ todo = {} /\ excludes = {}
  /\ next = 1
  /\ capacity = "none"
  /\ regions = [a \in {} |-> "none"]
  /\ recorded = {}
  /\ exit = 0

-----------------------------------------------------------------------------
(* validate_excludes                                                       *)

Overlaps(p, q) == IsPrefix(p, q) \/ IsPrefix(q, p)
Below(p, q) == IsPrefix(q, p)

\* The roots an enabled adapter may scan, default ones included that the
\* configuration moves away.  The prefix only counts for what lies below it, the
\* others for what lies above them as well.
Folders == IF "docker" \in enabled THEN folder ELSE {}
Caches == IF "go" \in enabled THEN caches ELSE {}
HasPrefix == "homebrew" \in enabled /\ installed

\* MUTANT of Matches: disabled adapters count too.
MatchesAny(p) == \E a \in Adapters : \E r \in HomeRoots[a] : Overlaps(p, r)
Matches(p) ==
  \/ HasPrefix /\ Below(p, Prefix)
  \/ Below(p, Home) /\ \E a \in enabled : \E r \in HomeRoots[a] : Overlaps(p, r)
  \/ \E r \in Folders \cup Caches : Overlaps(p, r)

\* The opened root that is asked whether the path exists: the prefix, the
\* folder of Docker if that opens, a cache outside Home, and otherwise Home.
Owners(p) ==
  IF HasPrefix /\ Below(p, Prefix) THEN {Prefix}
  ELSE IF reachable /\ \E r \in Folders : Overlaps(p, r) THEN Folders
  ELSE IF \E r \in Caches : ~Below(r, Home) /\ Below(p, r)
       THEN {r \in Caches : ~Below(r, Home) /\ Below(p, r)}
  ELSE {Home}

\* A root can only look up what lies below it.
Exists(p) == p \notin absent /\ \A r \in Owners(p) : Below(p, r)

Valid(p) == p # Malformed /\ Matches(p) /\ Exists(p)

Usage ==
  /\ pc' = "exit" /\ exit' = 2
  /\ UNCHANGED <<todo, excludes>>

\* With no adapter enabled no exclude can match; with no root none can be
\* looked up.
Start ==
  /\ pc = "start"
  /\ \/ /\ requested # {} /\ (enabled = {} \/ ~opened)
        /\ Usage
     \/ /\ requested = {} \/ (enabled # {} /\ opened)
        /\ todo' = requested
        /\ pc' = "validate"
        /\ UNCHANGED <<excludes, exit>>
  /\ UNCHANGED <<world, next, capacity, regions, recorded>>

Validate(p) ==
  /\ pc = "validate"
  /\ p \in todo
  /\ \/ Valid(p) /\ todo' = todo \ {p} /\ excludes' = excludes \cup {p} /\ UNCHANGED <<pc, exit>>
     \/ ~Valid(p) /\ Usage
  /\ UNCHANGED <<world, next, capacity, regions, recorded>>

-----------------------------------------------------------------------------
\* The environment may be unreadable, which ends the program without a
\* document.  The capacity is measured through the root, or through another try
\* to open it, which may succeed by now.
MeasureCapacity ==
  /\ command = "scan"
  /\ pc = "validate"
  /\ todo = {}
  /\ \/ /\ pc' = "exit" /\ exit' = 1
        /\ UNCHANGED capacity
     \/ /\ capacity' \in {"Complete", "Unmeasurable"}
        /\ pc' = "adapters"
        /\ UNCHANGED exit
  /\ UNCHANGED <<world, todo, excludes, next, regions, recorded>>

\* doctor asks the adapters at once.
Probe ==
  /\ command = "doctor"
  /\ pc = "validate"
  /\ todo = {}
  /\ pc' = "adapters"
  /\ UNCHANGED <<world, todo, excludes, next, capacity, regions, recorded, exit>>

\* docker_exclude_applies and go_exclude_applies only count what lies below a root
\* of theirs, and read the configuration for each exclude once more: by then it
\* may say something else than when the exclude was accepted.
Readings(a) ==
  CASE a = "docker" -> {HomeRoots[a] \cup f : f \in DockerFolders}
    [] a = "go"     -> GoFolders
    [] OTHER        -> {}

Applies(p, roots) == \E r \in roots : Below(p, r)

\* What the report of an adapter may record.
Recordings(a) ==
  CASE a = "homebrew" -> {IF installed THEN excludes ELSE {}}
    [] a = "xcode"    -> {excludes}
    [] OTHER          ->
         {r \in SUBSET excludes :
            /\ \A p \in r : \E roots \in Readings(a) : Applies(p, roots)
            /\ \A p \in excludes \ r : \E roots \in Readings(a) : ~Applies(p, roots)}

Region(a, status) ==
  regions' = [b \in DOMAIN regions \cup {a} |-> IF b = a THEN status ELSE regions[b]]

\* excluded_adapter_report, unmeasurable_adapter_report or *_report.
RunAdapter ==
  /\ pc = "adapters"
  /\ next <= Len(Order)
  /\ LET a == Order[next] IN
       \/ /\ a \notin enabled
          /\ Region(a, "ExcludedByUser")
          /\ UNCHANGED recorded
       \/ /\ a \in enabled /\ ~opened
          /\ Region(a, "Unmeasurable")
          /\ UNCHANGED recorded
       \/ /\ a \in enabled /\ opened
          /\ \E s \in IF a = "homebrew" /\ ~installed THEN {"NotPresent"}
                      ELSE Statuses \ {"ExcludedByUser"} :
               Region(a, s)
          /\ \E r \in Recordings(a) : recorded' = recorded \cup r
  /\ next' = next + 1
  /\ UNCHANGED <<world, pc, todo, excludes, capacity, exit>>

\* MUTANT of Trouble: the capacity is no region.
AdapterTrouble == \E a \in DOMAIN regions : regions[a] = "Unmeasurable"
Trouble == capacity = "Unmeasurable" \/ \E a \in DOMAIN regions : regions[a] = "Unmeasurable"

\* scan: the document, and the exit code it decides.
Compose ==
  /\ command = "scan"
  /\ pc = "adapters"
  /\ next > Len(Order)
  /\ exit' = IF Trouble THEN 3 ELSE 0
  /\ pc' = "exit"
  /\ UNCHANGED <<world, todo, excludes, next, capacity, regions, recorded>>

Ready == opened /\ \A a \in DOMAIN regions : regions[a] # "Unmeasurable"

Diagnose ==
  /\ command = "doctor"
  /\ pc = "adapters"
  /\ next > Len(Order)
  /\ exit' = IF Ready THEN 0 ELSE 3
  /\ pc' = "exit"
  /\ UNCHANGED <<world, todo, excludes, next, capacity, regions, recorded>>

Exited == pc = "exit" /\ UNCHANGED vars

Next ==
  \/ Start \/ \E p \in todo : Validate(p)
  \/ MeasureCapacity \/ Probe \/ RunAdapter \/ Compose \/ Diagnose \/ Exited

Spec == Init /\ [][Next]_vars

-----------------------------------------------------------------------------
TypeOK ==
  /\ excludes \cup todo \subseteq requested
  /\ next \in 1..(Len(Order) + 1)
  /\ capacity \in {"none", "Complete", "Unmeasurable"}
  /\ regions \in [{Order[i] : i \in 1..(next - 1)} -> Statuses]
  /\ recorded \subseteq excludes
  /\ exit \in 0..3

Document == pc = "exit" /\ exit \in {0, 3}

\* What an exclude has to do with an adapter: one of its roots overlaps it.
RootsOf(a) ==
  CASE a = "docker"   -> HomeRoots[a] \cup folder
    [] a = "go"       -> caches
    [] a = "homebrew" -> HomeRoots[a] \cup (IF installed THEN {Prefix} ELSE {})
    [] a = "xcode"    -> HomeRoots[a]
Concerns(p, a) == \E r \in RootsOf(a) : Overlaps(p, r)

\* SPEC.md:818: no document is ever produced under an exclude that is
\* ill-formed, does not exist, or has nothing to do with an enabled adapter (the
\* default cache of go counts even where it was moved), and a usage error comes
\* before anything is measured (main.rs:169-200).
NoSilentExclude ==
  /\ Document =>
       \A p \in requested :
         p # Malformed /\ p \notin absent /\
         \E a \in enabled : Concerns(p, a) \/ \E r \in HomeRoots[a] : Overlaps(p, r)
  /\ exit = 2 => capacity = "none" /\ DOMAIN regions = {}

\* SPEC.md:794-797: exit code 0 means that every enabled adapter, and the
\* capacity of a scan, was measured to the end or is not there; a root that does
\* not open cannot end in 0 as long as anything is enabled, nor can it for doctor
\* in any case (main.rs:290-302, 391-448).
ZeroIsClean ==
  Document /\ exit = 0 =>
    /\ opened \/ (command = "scan" /\ enabled = {})
    /\ command = "scan" => capacity = "Complete"
    /\ \A a \in Adapters : regions[a] = "ExcludedByUser" <=> a \notin enabled
    /\ \A a \in enabled : regions[a] \in {"Complete", "NotPresent"}

\* The next two do not hold (README.md, section 6).
\* SPEC.md:819: the report records every root that was excluded.
ExclusionIsRecorded == Document => excludes \subseteq recorded

\* SPEC.md:818: only an exclude that does not exist, or covers no scanned root,
\* is a usage error.
CoveringIsAccepted ==
  exit = 2 /\ opened =>
    \E p \in requested :
      p = Malformed \/ p \in absent \/ \A a \in enabled : ~Concerns(p, a)
=============================================================================

---------------------------- MODULE XcodeAdapter ----------------------------
(***************************************************************************)
(* xcode_report of src/scan.rs and src/adapters/xcode.rs: three probes     *)
(* decide whether Xcode is usable, the static stores are measured, and     *)
(* only behind an exact CoreSimulator version match simctl is asked for    *)
(* devices and runtimes.  What a listing named may be gone, unreadable or  *)
(* refused by the time it is measured.  The built-in rules always parse.   *)
(***************************************************************************)
EXTENDS Reports

CONSTANTS
  Stores,       \* paths the static rules can match
  Devices,      \* simulator devices, each a directory under DevicesRoot
  Runtimes,     \* runtimes with a valid identifier
  Misnamed,     \* runtimes whose identifier is not valid
  Malformed,    \* entries of a listing with a field missing or inconsistent
  DevicesRoot,
  Versions,     \* what xcodebuild may print
  SimVersions,  \* what CoreSimulator may print
  Pinned        \* VERIFIED_VERSIONS: the CoreSimulator of each verified Xcode

ASSUME XcodeAssumption ==
  /\ DOMAIN Pinned \subseteq Versions
  /\ \A v \in DOMAIN Pinned : Pinned[v] \in SimVersions
  /\ Stores \cap Devices = {}
  /\ (Stores \cup Devices) \cap (Runtimes \cup Misnamed \cup Malformed) = {}
  /\ Runtimes \cap Malformed = {}
  /\ DevicesRoot \notin Runtimes

SELECT == "select_developer_dir"
VERSION == "xcodebuild_version"
LAUNCH == "first_launch_status"
CORE_SIMULATOR == "core_simulator_version"
SIMCTL_DEVICES == "simctl_devices"
SIMCTL_RUNTIMES == "simctl_runtimes"
Probes == {SELECT, VERSION, LAUNCH, CORE_SIMULATOR, SIMCTL_DEVICES, SIMCTL_RUNTIMES}

VARIABLES
  excludes, off,   \* the user's excludes; SIZETRAIL_DISABLE_XCODE is set
  pc,
  calls,           \* probes started
  state, version,  \* AdapterState and the version it carries
  coreSimulator,   \* what CoreSimulator answered
  snapshots,       \* volume_has_snapshots
  todo,            \* what was listed and is still to be handled
  named,           \* devices simctl named
  items, gaps, status,
  seen, measured   \* history: all that was listed; all that was measured

given == <<excludes, off>>
tool == <<state, version, coreSimulator, snapshots>>
vars == <<given, tool, pc, calls, todo, named, items, gaps, status, seen, measured>>

Excluded(x) == x \in excludes \/ (x \in Devices /\ DevicesRoot \in excludes)

Init ==
  /\ excludes \in SUBSET (Stores \cup Devices \cup {DevicesRoot})
  /\ off \in BOOLEAN
  /\ pc = SELECT
  /\ calls = [p \in Probes |-> 0]
  /\ state = NotPresent /\ version = "none" /\ coreSimulator = "none"
  /\ snapshots = "unknown"
  /\ todo = {} /\ named = {} /\ items = {} /\ gaps = {}
  /\ status = "none"
  /\ seen = {} /\ measured = {}

Answered(p, a) ==
  /\ a \in Possible(off, calls[p], 1)
  /\ calls' = [calls EXCEPT ![p] = IF a \in Refusals THEN @ ELSE @ + 1]

-----------------------------------------------------------------------------
(* probe                                                                   *)

Probed(s) == state' = s /\ pc' = "inventory"

SelectDeveloperDir ==
  /\ pc = SELECT
  /\ \E a \in Ends \cup Refusals :
       /\ Answered(SELECT, a)
       /\ \/ a \in {"InvocationFailed", "Failure"} /\ Probed(NotPresent)
          \/ a \in {"TimedOut"} \cup Refusals /\ Probed(DegradedFrom(a))
          \/ a = "Success" /\ Probed(NotPresent)   \* Command Line Tools only
          \/ a = "Success" /\ Probed(Degraded("InvalidSelection"))
          \/ a = "Success" /\ pc' = VERSION /\ UNCHANGED state
  /\ UNCHANGED <<given, version, coreSimulator, snapshots, todo, named, items,
                gaps, status, seen, measured>>

XcodebuildVersion ==
  /\ pc = VERSION
  /\ \E a \in Ends \cup Refusals, v \in Versions :
       /\ Answered(VERSION, a)
       /\ \/ /\ a = "Success"
             /\ version' = v
             /\ IF v \in DOMAIN Pinned THEN pc' = LAUNCH /\ UNCHANGED state
                ELSE Probed(Degraded("UnknownVersion"))
          \/ a = "Failure" /\ Probed(Degraded("ProbeFailed")) /\ UNCHANGED version
          \/ a \notin {"Success", "Failure"} /\ Probed(DegradedFrom(a)) /\ UNCHANGED version
  /\ UNCHANGED <<given, coreSimulator, snapshots, todo, named, items, gaps,
                status, seen, measured>>

FirstLaunchStatus ==
  /\ pc = LAUNCH
  /\ \E a \in Ends \cup Refusals :
       /\ Answered(LAUNCH, a)
       /\ \/ a = "Success" /\ Probed(Ready) /\ UNCHANGED version
          \/ a = "Failure" /\ Probed(Degraded("NotReady")) /\ UNCHANGED version
          \/ /\ a \notin {"Success", "Failure"}
             /\ Probed(DegradedFrom(a))
             /\ version' = "none"
  /\ UNCHANGED <<given, coreSimulator, snapshots, todo, named, items,
                gaps, status, seen, measured>>

-----------------------------------------------------------------------------
(* visit_inventory_stages                                                  *)

DegradedGaps(s) ==
  CASE s.kind # "Degraded"             -> {}
    [] s.reason = "InvalidSelection"   -> {Gap("xcode", "ProbeFailed")}
    [] OTHER                           -> {Gap("xcode", s.reason)}

\* Nothing is inventoried unless the adapter is ready.
Refrain ==
  /\ pc = "inventory"
  /\ state # Ready
  /\ gaps' = gaps \cup DegradedGaps(state)
  /\ pc' = "report"
  /\ UNCHANGED <<given, calls, tool, todo, named, items, status, seen,
                measured>>

\* MUTANT of ListingGaps: a directory that may not be listed counts as empty.
SilentListing(unlisted) == {}
ListingGaps(unlisted) == {Gap("xcode", reason) : reason \in unlisted}

\* expand_rule: the paths its patterns match.  An absent directory matches
\* nothing; one that cannot be listed is a gap, and what it holds stays unknown.
Expand(universe, others) ==
  \E present \in SUBSET {x \in universe : ~Excluded(x)}, found \in SUBSET universe,
     unlisted \in SUBSET (IoReasons \ {"AbsentOrChanged"}) :
    /\ found \subseteq present
    /\ unlisted = {} => found = present
    /\ todo' = found
    /\ seen' = seen \cup present
    /\ gaps' = gaps \cup others \cup ListingGaps(unlisted)

\* The snapshot state of the volume, then inventory_static.
Static ==
  /\ pc = "inventory"
  /\ state = Ready
  /\ snapshots' \in {"yes", "no", "unknown"}
  /\ Expand(Stores, IF snapshots' # "unknown" THEN {}
                    ELSE {Gap("xcode", "VolumeSnapshotStateUnavailable")})
  /\ pc' = "static"
  /\ UNCHANGED <<given, calls, state, version, coreSimulator, named, items,
                status, measured>>

\* MUTANT of Measure: a store that vanished is left out quietly.
MeasureOrSkip(x) ==
  /\ todo' = todo \ {x}
  /\ measured' = measured \cup {x}
  /\ \/ items' = items \cup {x} /\ UNCHANGED gaps
     \/ \E reason \in IoReasons :
          /\ gaps' = IF reason = "AbsentOrChanged" THEN gaps ELSE gaps \cup {Gap(x, reason)}
          /\ UNCHANGED items

\* measure_store and what becomes of its answer.
Measure(x) ==
  /\ todo' = todo \ {x}
  /\ measured' = measured \cup {x}
  /\ \/ items' = items \cup {x} /\ UNCHANGED gaps
     \/ \E reason \in IoReasons :
          gaps' = gaps \cup {Gap(x, reason)} /\ UNCHANGED items

MeasureMatch(x) ==
  /\ pc \in {"static", "devicesStatic"}
  /\ x \in todo
  /\ Measure(x)
  /\ UNCHANGED <<given, pc, calls, tool, named, status, seen>>

\* MUTANT of Compatible: any CoreSimulator some verified Xcode came with.
SomePin(v) == \E w \in DOMAIN Pinned : v = Pinned[w]
Compatible(v) == v = Pinned[version]

\* inventory_devices_static, first half: without the pinned binary the devices
\* are found on disk, nameless.
FallBack(reason) ==
  /\ Expand(Devices, {Gap("simulator_inventory", reason)})
  /\ pc' = "devicesStatic"

CoreSimulatorCompatible ==
  /\ pc = "static"
  /\ todo = {}
  /\ \E a \in Ends \cup Refusals, v \in SimVersions :
       /\ Answered(CORE_SIMULATOR, a)
       /\ \/ /\ a = "Success"
             /\ coreSimulator' = v
             /\ IF Compatible(v)
                THEN pc' = SIMCTL_DEVICES /\ UNCHANGED <<todo, seen, gaps>>
                ELSE FallBack("CoreSimulatorVersionMismatch")
          \/ a = "Success" /\ FallBack("InvalidToolOutput") /\ UNCHANGED coreSimulator
          \/ a = "Failure" /\ FallBack("ProbeFailed") /\ UNCHANGED coreSimulator
          \/ a \notin {"Success", "Failure"} /\ FallBack(PolicyGap(a)) /\ UNCHANGED coreSimulator
  /\ UNCHANGED <<given, state, version, snapshots, named, items, status,
                measured>>

\* MUTANT of NamelessGap: nameless devices are reported like named ones.
NoNamelessGap == {}
NamelessGap ==
  IF items \cap Devices # {}
  THEN {Gap("simulator_devices", "SimulatorIdentityUnavailable")} ELSE {}

DevicesStaticDone ==
  /\ pc = "devicesStatic"
  /\ todo = {}
  /\ gaps' = gaps \cup NamelessGap
  /\ pc' = "report"
  /\ UNCHANGED <<given, calls, tool, todo, named, items, status, seen,
                measured>>

-----------------------------------------------------------------------------
(* inventory_devices and inventory_runtimes                                *)

SimctlGap(reason) == gaps' = gaps \cup {Gap("simctl", reason)}

\* No listing: the document does not parse, or there is none.
Unanswered(a) ==
  SimctlGap(CASE a = "Success" -> "InvalidToolOutput"
              [] a = "Failure" -> "ProbeFailed"
              [] OTHER         -> PolicyGap(a))

\* With the whole device set excluded, simctl is not asked for it.
SkipDevices ==
  /\ pc = SIMCTL_DEVICES
  /\ DevicesRoot \in excludes
  /\ pc' = SIMCTL_RUNTIMES
  /\ UNCHANGED <<given, calls, tool, todo, named, items, gaps, status, seen,
                measured>>

ListDevices ==
  /\ pc = SIMCTL_DEVICES
  /\ DevicesRoot \notin excludes
  /\ \E a \in Ends \cup Refusals :
       /\ Answered(SIMCTL_DEVICES, a)
       /\ \/ \E found \in SUBSET (Devices \cup Malformed) :
               /\ a = "Success"
               /\ todo' = found
               /\ seen' = seen \cup found
               /\ pc' = "devices"
               /\ UNCHANGED gaps
          \/ /\ Unanswered(a)
             /\ pc' = SIMCTL_RUNTIMES
             /\ UNCHANGED <<todo, seen>>
  /\ UNCHANGED <<given, tool, named, items, status, measured>>

\* MUTANT of SkipDevice: only the whole device set can be excluded.
SkipNoDevice(x) == FALSE
SkipDevice(x) == Excluded(x)

TakeDevice(x) ==
  /\ pc = "devices"
  /\ x \in todo
  /\ \/ /\ x \in Malformed
        /\ SimctlGap("InvalidToolOutput")
        /\ todo' = todo \ {x}
        /\ UNCHANGED <<items, named, measured>>
     \/ /\ x \in Devices
        /\ SkipDevice(x)
        /\ todo' = todo \ {x}
        /\ UNCHANGED <<items, gaps, named, measured>>
     \/ /\ x \in Devices
        /\ ~SkipDevice(x)
        /\ Measure(x)
        /\ named' = named \cup {x}
  /\ UNCHANGED <<given, pc, calls, tool, status, seen>>

DevicesDone ==
  /\ pc = "devices"
  /\ todo = {}
  /\ pc' = SIMCTL_RUNTIMES
  /\ UNCHANGED <<given, calls, tool, todo, named, items, gaps, status, seen,
                measured>>

\* No size is known of a runtime: its listing as a whole is a gap.
RuntimeGaps(found) ==
  {Gap("simctl", "InvalidToolOutput") : x \in found \cap (Malformed \cup Misnamed)}
    \cup {Gap("simulator_runtimes", "RuntimeSizeUnavailable") : x \in found \ Malformed}

ListRuntimes ==
  /\ pc = SIMCTL_RUNTIMES
  /\ \E a \in Ends \cup Refusals :
       /\ Answered(SIMCTL_RUNTIMES, a)
       /\ \/ \E found \in SUBSET (Runtimes \cup Misnamed \cup Malformed) :
               /\ a = "Success"
               /\ seen' = seen \cup found
               /\ items' = items \cup (found \cap Runtimes)
               /\ gaps' = gaps \cup RuntimeGaps(found)
          \/ /\ Unanswered(a)
             /\ UNCHANGED <<seen, items>>
  /\ pc' = "report"
  /\ UNCHANGED <<given, tool, todo, named, status, measured>>

Report ==
  /\ pc = "report"
  /\ gaps' = gaps \cup {Gap(x, "ExcludedByUser") : x \in excludes}
  /\ status' = Status(state, gaps')
  /\ pc' = "done"
  /\ UNCHANGED <<given, calls, tool, todo, named, items, seen, measured>>

Done == pc = "done" /\ UNCHANGED vars

Next ==
  \/ SelectDeveloperDir \/ XcodebuildVersion \/ FirstLaunchStatus
  \/ Refrain \/ Static
  \/ \E x \in todo : MeasureMatch(x) \/ TakeDevice(x)
  \/ CoreSimulatorCompatible \/ DevicesStaticDone
  \/ SkipDevices \/ ListDevices \/ DevicesDone \/ ListRuntimes
  \/ Report \/ Done

Spec == Init /\ [][Next]_vars

-----------------------------------------------------------------------------
Things == Stores \cup Devices \cup Runtimes \cup Misnamed \cup Malformed

TypeOK ==
  /\ calls \in [Probes -> 0..1]
  /\ state \in States
  /\ version \in Versions \cup {"none"}
  /\ coreSimulator \in SimVersions \cup {"none"}
  /\ todo \cup seen \subseteq Things
  /\ items \cup measured \subseteq Stores \cup Devices \cup Runtimes
  /\ named \subseteq Devices
  /\ \A g \in gaps : g.reason \in Failures \cup {"ExcludedByUser"}
  /\ status \in {"none", "Complete", "NotPresent", "Unmeasurable"}

\* SPEC.md:357: simctl is only ever run for the exact Xcode and CoreSimulator
\* pair that was verified, and only once Xcode said it is ready to be used
\* (xcode.rs:181-200, 630-654).
SimctlIsPinned ==
  calls[SIMCTL_DEVICES] + calls[SIMCTL_RUNTIMES] > 0 =>
    /\ state = Ready
    /\ version \in DOMAIN Pinned
    /\ coreSimulator = Pinned[version]

\* Whatever exists where the rules look, or was named by simctl, ends as an
\* item, was excluded, or is covered by a gap that names it or its region: no
\* failure on the way drops it silently (xcode.rs:243-287, 340-420).
Names(x) == {x} \cup (IF x \in Stores \cup Devices THEN {"xcode"} ELSE {"simctl"})
NothingLost ==
  pc = "done" =>
    \A x \in seen :
      Excluded(x) \/ x \in items \/ \E g \in Unmeasured(gaps) : g.at \in Names(x)

\* SPEC.md:796, README.md:21: a region is only complete when every step it
\* takes succeeded and everything found was sized, which no runtime ever is; and
\* it is unmeasurable exactly when some gap says why (scan.rs:229-258,
\* xcode.rs:163-172).
StatusIsHonest ==
  /\ status = "Complete" =>
       /\ state = Ready
       /\ snapshots # "unknown"
       /\ {x \in seen : ~Excluded(x)} = items
       /\ items \subseteq Stores \cup named
  /\ pc = "done" => (status = "Unmeasurable" <=> Unmeasured(gaps) # {})

\* A device simctl did not name is only reported together with the gap that
\* says its identity is unknown (xcode.rs:289-322).
IdentityIsVouched ==
  pc = "done" =>
    \/ items \cap Devices \subseteq named
    \/ \E g \in gaps : g.reason = "SimulatorIdentityUnavailable"

\* SPEC.md:817: nothing below an excluded path is measured, and simctl is not
\* asked for a device set the user excluded (xcode.rs:329-331, 371).
ExcludedUntouched ==
  /\ \A x \in measured : ~Excluded(x)
  /\ DevicesRoot \in excludes => calls[SIMCTL_DEVICES] = 0
=============================================================================

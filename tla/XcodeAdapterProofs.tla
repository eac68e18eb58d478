-------------------------- MODULE XcodeAdapterProofs ---------------------------
(***************************************************************************)
(* The Xcode adapter for any stores, devices, runtimes, excludes and pins:  *)
(* when simctl is run, and that no failure on the way hides anything.       *)
(***************************************************************************)
EXTENDS XcodeAdapter, ReportsProofs

-----------------------------------------------------------------------------
(* The inductive invariant                                                 *)

Probing == {SELECT, VERSION, LAUNCH}
Asking == {SIMCTL_DEVICES, "devices", SIMCTL_RUNTIMES}

\* Each step is only reached behind the ones before it.
Behind ==
  /\ calls \in [Probes -> Nat]
  /\ state \in States
  /\ pc \in Probing => state = NotPresent
  /\ pc = LAUNCH \/ state = Ready => version \in DOMAIN Pinned
  /\ pc \in {"static", "devicesStatic"} \cup Asking => state = Ready
  /\ pc \in Asking => coreSimulator = Pinned[version]
  /\ pc \in Probing \cup {"inventory", "static", "devicesStatic", SIMCTL_DEVICES} =>
       calls[SIMCTL_DEVICES] = 0
  /\ pc \notin {"report", "done"} => calls[SIMCTL_RUNTIMES] = 0
  /\ calls[SIMCTL_DEVICES] > 0 \/ calls[SIMCTL_RUNTIMES] > 0 =>
       state = Ready /\ coreSimulator = Pinned[version]

\* What was excluded is never taken from a listing of the file system.
Spared ==
  /\ excludes \subseteq Stores \cup Devices \cup {DevicesRoot}
  /\ todo \subseteq seen
  /\ pc \notin {"static", "devicesStatic", "devices"} => todo = {}
  /\ pc = "static" => todo \subseteq {x \in Stores : ~Excluded(x)}
  /\ pc = "devicesStatic" => todo \subseteq {x \in Devices : ~Excluded(x)}
  /\ pc = "devices" => todo \subseteq Devices \cup Malformed
  /\ \A x \in measured : ~Excluded(x)
  /\ DevicesRoot \in excludes => calls[SIMCTL_DEVICES] = 0

\* Everything seen is still to be handled, or accounted for.
Counted(x) ==
  Excluded(x) \/ x \in items \/ \E g \in Unmeasured(gaps) : g.at \in Names(x)
Handled == \A x \in seen : x \in todo \/ Counted(x)

\* What an item is, if no gap counts.
Sound ==
  /\ items \subseteq seen
  /\ \A x \in items : ~Excluded(x)
  /\ items \subseteq Stores \cup Devices \/ Unmeasured(gaps) # {}
  /\ pc \in Probing \cup {"inventory", "static"} => items \cap Devices = {}
  /\ pc = "devicesStatic" => Unmeasured(gaps) # {}
  /\ \/ pc = "devicesStatic"
     \/ items \cap Devices \subseteq named
     \/ \E g \in Unmeasured(gaps) : g.reason = "SimulatorIdentityUnavailable"

\* The state of the adapter and the gaps agree.
Explained ==
  /\ pc \in Probing \cup {"inventory"} => gaps = {}
  /\ pc \in {"static", "devicesStatic", "report"} \cup Asking =>
       snapshots # "unknown" \/ state # Ready \/ Unmeasured(gaps) # {}
  /\ pc \in {"report", "done"} =>
       /\ state = NotPresent => Unmeasured(gaps) = {}
       /\ state \notin {Ready, NotPresent} => Unmeasured(gaps) # {}
  /\ pc # "done" => status = "none"
  /\ StatusIsHonest

XcodeInv == Behind /\ Spared /\ Handled /\ Sound /\ Explained

LEMMA XcodeInit == Init => XcodeInv
<1> SUFFICES ASSUME Init PROVE XcodeInv
  OBVIOUS
<1> USE DEF SELECT, VERSION, LAUNCH, CORE_SIMULATOR, SIMCTL_DEVICES, SIMCTL_RUNTIMES
<1>1. Behind
  BY DEF Init, Behind, Probing, Asking, Probes, States, NotPresent, Ready
<1>2. Spared
  BY DEF Init, Spared, Probes
<1>3. Handled /\ Sound
  BY DEF Init, Handled, Sound, Probing
<1>4. Explained
  BY DEF Init, Explained, StatusIsHonest, Probing, Asking
<1> QED
  BY <1>1, <1>2, <1>3, <1>4 DEF XcodeInv

LEMMA BehindStep == Behind /\ Spared /\ [Next]_vars => Behind'
<1> SUFFICES ASSUME Behind, Spared, [Next]_vars PROVE Behind'
  OBVIOUS
<1> USE DEF Behind, Probing, Asking, Probes, SELECT, VERSION, LAUNCH, CORE_SIMULATOR,
        SIMCTL_DEVICES, SIMCTL_RUNTIMES
<1>1. \A p \in Probes : \A a : Answered(p, a) =>
        /\ calls' \in [Probes -> Nat]
        /\ \A q \in Probes : q # p => calls'[q] = calls[q]
  BY DEF Answered
<1>2. \A r : Degraded(r) # Ready
  BY DEF Degraded, Ready
<1>3. CASE SelectDeveloperDir
  <2>1. PICK a \in Ends \cup Refusals : Answered(SELECT, a)
    BY <1>3 DEF SelectDeveloperDir
  <2>2. /\ calls' \in [Probes -> Nat]
        /\ calls'[SIMCTL_DEVICES] = calls[SIMCTL_DEVICES]
        /\ calls'[SIMCTL_RUNTIMES] = calls[SIMCTL_RUNTIMES]
    BY <1>1, <2>1
  <2>3. \/ pc' = VERSION /\ state' = state
        \/ pc' = "inventory" /\ state' \in States \ {Ready}
    BY <1>2, <1>3 DEF SelectDeveloperDir, Probed, DegradedFrom, States, DegradedReasons,
       NotPresent, Ready
  <2> QED
    BY <1>3, <2>2, <2>3 DEF SelectDeveloperDir, NotPresent, Ready
<1>4. CASE XcodebuildVersion
  <2>1. PICK a \in Ends \cup Refusals : Answered(VERSION, a)
    BY <1>4 DEF XcodebuildVersion
  <2>2. /\ calls' \in [Probes -> Nat]
        /\ calls'[SIMCTL_DEVICES] = calls[SIMCTL_DEVICES]
        /\ calls'[SIMCTL_RUNTIMES] = calls[SIMCTL_RUNTIMES]
    BY <1>1, <2>1
  <2>3. \/ pc' = LAUNCH /\ state' = state /\ version' \in DOMAIN Pinned
        \/ pc' = "inventory" /\ state' \in States \ {Ready}
    BY <1>2, <1>4 DEF XcodebuildVersion, Probed, DegradedFrom, States, DegradedReasons
  <2> QED
    BY <1>4, <2>2, <2>3 DEF XcodebuildVersion, NotPresent, Ready
<1>5. CASE FirstLaunchStatus
  <2>1. PICK a \in Ends \cup Refusals : Answered(LAUNCH, a)
    BY <1>5 DEF FirstLaunchStatus
  <2>2. /\ calls' \in [Probes -> Nat]
        /\ calls'[SIMCTL_DEVICES] = calls[SIMCTL_DEVICES]
        /\ calls'[SIMCTL_RUNTIMES] = calls[SIMCTL_RUNTIMES]
    BY <1>1, <2>1
  <2>3. /\ pc' = "inventory" /\ state' \in States
        /\ state' = Ready => version' \in DOMAIN Pinned
    BY <1>2, <1>5 DEF FirstLaunchStatus, Probed, DegradedFrom, States, DegradedReasons
  <2> QED
    BY <1>5, <2>2, <2>3 DEF FirstLaunchStatus
<1>6. CASE Refrain \/ Static \/ DevicesStaticDone
  BY <1>6 DEF Refrain, Static, DevicesStaticDone, tool
<1>7. CASE \E x \in todo : MeasureMatch(x) \/ TakeDevice(x)
  BY <1>7 DEF MeasureMatch, TakeDevice, tool
<1>8. CASE CoreSimulatorCompatible
  <2>1. PICK a \in Ends \cup Refusals, v \in SimVersions :
          /\ Answered(CORE_SIMULATOR, a)
          /\ \/ pc' = SIMCTL_DEVICES /\ coreSimulator' = v /\ Compatible(v)
             \/ pc' = "devicesStatic"
    BY <1>8 DEF CoreSimulatorCompatible, FallBack
  <2>2. /\ calls' \in [Probes -> Nat]
        /\ calls'[SIMCTL_DEVICES] = calls[SIMCTL_DEVICES]
        /\ calls'[SIMCTL_RUNTIMES] = calls[SIMCTL_RUNTIMES]
    BY <1>1, <2>1
  <2> QED
    BY <1>8, <2>1, <2>2 DEF CoreSimulatorCompatible, Compatible
<1>9. CASE SkipDevices \/ DevicesDone
  BY <1>9 DEF SkipDevices, DevicesDone, tool
<1>10. CASE ListDevices
  <2>1. PICK a \in Ends \cup Refusals : Answered(SIMCTL_DEVICES, a)
    BY <1>10 DEF ListDevices
  <2>2. calls' \in [Probes -> Nat] /\ calls'[SIMCTL_RUNTIMES] = calls[SIMCTL_RUNTIMES]
    BY <1>1, <2>1
  <2>3. pc' \in {"devices", SIMCTL_RUNTIMES} /\ UNCHANGED tool
    BY <1>10 DEF ListDevices
  <2> QED
    BY <1>10, <2>2, <2>3 DEF ListDevices, tool
<1>11. CASE ListRuntimes
  <2>1. PICK a \in Ends \cup Refusals : Answered(SIMCTL_RUNTIMES, a)
    BY <1>11 DEF ListRuntimes
  <2>2. calls' \in [Probes -> Nat]
    BY <1>1, <2>1
  <2> QED
    BY <1>11, <2>2 DEF ListRuntimes, tool
<1>12. CASE Report \/ Done \/ UNCHANGED vars
  BY <1>12 DEF Report, Done, vars, tool
<1> QED
  BY <1>3, <1>4, <1>5, <1>6, <1>7, <1>8, <1>9, <1>10, <1>11, <1>12 DEF Next

\* What expand_rule leaves to be measured, and what its gaps stand for.
LEMMA ExpandFacts ==
  ASSUME NEW U, NEW others, Expand(U, others)
  PROVE  /\ todo' \subseteq {x \in U : ~Excluded(x)}
         /\ seen \subseteq seen' /\ todo' \subseteq seen'
         /\ \A x \in seen' : x \in seen \/ (x \in U /\ x \in todo')
                             \/ (x \in U /\ \E g \in Unmeasured(gaps') : g.at = "xcode")
         /\ gaps \cup others \subseteq gaps'
<1>1. PICK present \in SUBSET {x \in U : ~Excluded(x)}, found \in SUBSET U,
           unlisted \in SUBSET (IoReasons \ {"AbsentOrChanged"}) :
        /\ found \subseteq present
        /\ unlisted = {} => found = present
        /\ todo' = found
        /\ seen' = seen \cup present
        /\ gaps' = gaps \cup others \cup ListingGaps(unlisted)
  BY DEF Expand
<1>2. unlisted # {} => \E g \in Unmeasured(gaps') : g.at = "xcode"
  <2> SUFFICES ASSUME NEW r \in unlisted
               PROVE  \E g \in Unmeasured(gaps') : g.at = "xcode"
    OBVIOUS
  <2>1. r \in Failures /\ Gap("xcode", r) \in gaps'
    BY <1>1, ReasonsAreFailures DEF ListingGaps
  <2>2. Gap("xcode", r) \in Unmeasured(gaps')
    BY <2>1, FailureIsUnmeasured
  <2> QED
    BY <2>2 DEF Gap
<1> QED
  BY <1>1, <1>2

\* Gaps are only ever added.
LEMMA GapsGrow == [Next]_vars => gaps \subseteq gaps'
<1> SUFFICES ASSUME [Next]_vars PROVE gaps \subseteq gaps'
  OBVIOUS
<1>1. CASE Static
  BY <1>1, ExpandFacts DEF Static
<1>2. CASE CoreSimulatorCompatible
  BY <1>2, ExpandFacts DEF CoreSimulatorCompatible, FallBack
<1>3. CASE \E x \in todo : MeasureMatch(x) \/ TakeDevice(x)
  BY <1>3 DEF MeasureMatch, TakeDevice, Measure, SimctlGap
<1>4. CASE ListDevices \/ ListRuntimes
  BY <1>4 DEF ListDevices, ListRuntimes, Unanswered, SimctlGap
<1>5. CASE SelectDeveloperDir \/ XcodebuildVersion \/ FirstLaunchStatus \/ Refrain
  BY <1>5 DEF SelectDeveloperDir, XcodebuildVersion, FirstLaunchStatus, Refrain
<1>6. CASE DevicesStaticDone \/ SkipDevices \/ DevicesDone \/ Report \/ Done \/ UNCHANGED vars
  BY <1>6 DEF DevicesStaticDone, SkipDevices, DevicesDone, Report, Done, vars
<1> QED
  BY <1>1, <1>2, <1>3, <1>4, <1>5, <1>6 DEF Next

\* Whose excludes they are never changes.
LEMMA SparedStep == Behind /\ Spared /\ [Next]_vars => Spared'
<1> SUFFICES ASSUME Behind, Spared, [Next]_vars PROVE Spared'
  OBVIOUS
<1> USE DEF Spared, given, SELECT, VERSION, LAUNCH, CORE_SIMULATOR, SIMCTL_DEVICES,
        SIMCTL_RUNTIMES
<1>1. excludes' = excludes /\ \A x : Excluded(x)' = Excluded(x)
  <2>1. excludes' = excludes
    BY DEF Next, SelectDeveloperDir, XcodebuildVersion, FirstLaunchStatus, Refrain, Static,
       MeasureMatch, TakeDevice, CoreSimulatorCompatible, DevicesStaticDone, SkipDevices,
       ListDevices, DevicesDone, ListRuntimes, Report, Done, vars
  <2> QED
    BY <2>1 DEF Excluded
<1>2. \A p \in Probes \ {SIMCTL_DEVICES} : \A a : Answered(p, a) =>
        calls'[SIMCTL_DEVICES] = calls[SIMCTL_DEVICES]
  BY DEF Answered, Behind, Probes
<1>3. CASE SelectDeveloperDir \/ XcodebuildVersion \/ FirstLaunchStatus
  <2>1. calls'[SIMCTL_DEVICES] = calls[SIMCTL_DEVICES]
    BY <1>2, <1>3 DEF SelectDeveloperDir, XcodebuildVersion, FirstLaunchStatus, Probes
  <2>2. /\ UNCHANGED <<todo, seen, measured>>
        /\ pc' \in {VERSION, LAUNCH, "inventory"} /\ todo = {}
    BY <1>3 DEF SelectDeveloperDir, XcodebuildVersion, FirstLaunchStatus, Probed
  <2> QED
    BY <1>1, <2>1, <2>2
<1>4. CASE Static
  BY <1>1, <1>4, ExpandFacts DEF Static
<1>5. CASE \E x \in todo : MeasureMatch(x)
  BY <1>1, <1>5 DEF MeasureMatch, Measure
<1>6. CASE \E x \in todo : TakeDevice(x)
  BY <1>1, <1>6 DEF TakeDevice, Measure, SkipDevice
<1>7. CASE CoreSimulatorCompatible
  <2>1. calls'[SIMCTL_DEVICES] = calls[SIMCTL_DEVICES]
    BY <1>2, <1>7 DEF CoreSimulatorCompatible, Probes
  <2>2. CASE pc' = "devicesStatic"
    <3>1. \E others : Expand(Devices, others)
      BY <1>7, <2>2 DEF CoreSimulatorCompatible, FallBack
    <3> QED
      BY <1>1, <1>7, <2>1, <2>2, <3>1, ExpandFacts DEF CoreSimulatorCompatible
  <2>3. CASE pc' = SIMCTL_DEVICES /\ UNCHANGED <<todo, seen>>
    BY <1>1, <1>7, <2>1, <2>3 DEF CoreSimulatorCompatible
  <2> QED
    BY <1>7, <2>2, <2>3 DEF CoreSimulatorCompatible, FallBack
<1>8. CASE ListDevices
  BY <1>1, <1>8 DEF ListDevices
<1>9. CASE ListRuntimes
  <2>1. calls'[SIMCTL_DEVICES] = calls[SIMCTL_DEVICES]
    BY <1>2, <1>9 DEF ListRuntimes, Probes
  <2>2. seen \subseteq seen' /\ UNCHANGED <<todo, measured>> /\ todo = {}
    BY <1>9 DEF ListRuntimes
  <2> QED
    BY <1>1, <1>9, <2>1, <2>2 DEF ListRuntimes
<1>10. CASE Refrain \/ DevicesStaticDone \/ SkipDevices \/ DevicesDone
  BY <1>1, <1>10 DEF Refrain, DevicesStaticDone, SkipDevices, DevicesDone
<1>11. CASE Report \/ Done \/ UNCHANGED vars
  BY <1>1, <1>11 DEF Report, Done, vars
<1> QED
  BY <1>3, <1>4, <1>5, <1>6, <1>7, <1>8, <1>9, <1>10, <1>11 DEF Next

\* What is accounted for stays so.
LEMMA CountedStays == [Next]_vars => \A x : Counted(x) => Counted(x)'
<1> SUFFICES ASSUME [Next]_vars PROVE \A x : Counted(x) => Counted(x)'
  OBVIOUS
<1>1. UNCHANGED excludes
  BY DEF Next, SelectDeveloperDir, XcodebuildVersion, FirstLaunchStatus, Refrain, Static,
     MeasureMatch, TakeDevice, CoreSimulatorCompatible, DevicesStaticDone, SkipDevices,
     ListDevices, DevicesDone, ListRuntimes, Report, Done, vars, given
<1>2. items \subseteq items'
  BY DEF Next, SelectDeveloperDir, XcodebuildVersion, FirstLaunchStatus, Refrain, Static,
     MeasureMatch, Measure, TakeDevice, CoreSimulatorCompatible, DevicesStaticDone, SkipDevices,
     ListDevices, DevicesDone, ListRuntimes, Report, Done, vars
<1>3. Unmeasured(gaps) \subseteq Unmeasured(gaps')
  BY GapsGrow, UnmeasuredGrows
<1> QED
  BY <1>1, <1>2, <1>3 DEF Counted, Excluded

\* A gap that names x, or the region x belongs to, accounts for it.
LEMMA GapCounts ==
  ASSUME NEW x, NEW at \in Names(x), NEW r \in Failures, Gap(at, r) \in gaps'
  PROVE  Counted(x)'
<1>1. Gap(at, r) \in Unmeasured(gaps')
  BY FailureIsUnmeasured
<1>2. Gap(at, r).at = at
  BY DEF Gap
<1> QED
  BY <1>1, <1>2 DEF Counted

\* What is measured is taken, or named by a gap.
LEMMA MeasureCounts ==
  ASSUME NEW x, Measure(x)
  PROVE  Counted(x)'
<1>1. CASE items' = items \cup {x}
  BY <1>1 DEF Counted
<1>2. CASE \E r \in IoReasons : gaps' = gaps \cup {Gap(x, r)}
  BY <1>2, GapCounts, ReasonsAreFailures DEF Names
<1> QED
  BY <1>1, <1>2 DEF Measure

LEMMA HandledStep == Spared /\ Handled /\ [Next]_vars => Handled'
<1> SUFFICES ASSUME Spared, Handled, [Next]_vars PROVE Handled'
  OBVIOUS
<1>1. \A x : Counted(x) => Counted(x)'
  BY CountedStays
<1>2. CASE UNCHANGED <<todo, seen>>
  BY <1>1, <1>2 DEF Handled
<1>3. ASSUME NEW U \in {Stores, Devices}, NEW others, Expand(U, others), todo = {}
      PROVE  Handled'
  <2> SUFFICES ASSUME NEW x \in seen', x \notin todo' PROVE Counted(x)'
    BY DEF Handled
  <2>1. CASE x \in seen
    BY <1>1, <1>3, <2>1 DEF Handled
  <2>2. CASE x \in U /\ \E g \in Unmeasured(gaps') : g.at = "xcode"
    BY <2>2 DEF Counted, Names
  <2> QED
    BY <1>3, <2>1, <2>2, ExpandFacts
<1>4. CASE Static
  <2>1. todo = {}
    BY <1>4 DEF Static, Spared
  <2> QED
    BY <1>3, <1>4, <2>1 DEF Static
<1>5. CASE CoreSimulatorCompatible
  BY <1>2, <1>3, <1>5 DEF CoreSimulatorCompatible, FallBack
<1>6. ASSUME NEW x \in todo, MeasureMatch(x) PROVE Handled'
  <2>1. Counted(x)' /\ todo' = todo \ {x} /\ seen' = seen
    BY <1>6, MeasureCounts DEF MeasureMatch, Measure
  <2> QED
    BY <1>1, <2>1 DEF Handled
<1>7. ASSUME NEW x \in todo, TakeDevice(x) PROVE Handled'
  <2>1. todo' = todo \ {x} /\ seen' = seen
    BY <1>7 DEF TakeDevice, Measure
  <2>2. CASE x \in Malformed /\ SimctlGap("InvalidToolOutput")
    <3>1. "simctl" \in Names(x)
      BY <2>2, XcodeAssumption DEF Names
    <3> QED
      BY <1>1, <2>1, <2>2, <3>1, GapCounts, ReasonsAreFailures DEF Handled, SimctlGap
  <2>3. CASE SkipDevice(x)
    BY <1>1, <2>1, <2>3 DEF Handled, Counted, SkipDevice
  <2>4. CASE Measure(x)
    BY <1>1, <2>1, <2>4, MeasureCounts DEF Handled
  <2> QED
    BY <1>7, <2>2, <2>3, <2>4 DEF TakeDevice
<1>8. CASE ListDevices
  <2>1. CASE UNCHANGED <<todo, seen>>
    BY <1>2, <2>1
  <2>2. CASE seen' = seen \cup todo'
    <3>1. todo = {}
      BY <1>8 DEF ListDevices, Spared, SIMCTL_DEVICES
    <3> QED
      BY <1>1, <2>2, <3>1 DEF Handled
  <2> QED
    BY <1>8, <2>1, <2>2 DEF ListDevices
<1>9. CASE ListRuntimes
  <2>1. CASE UNCHANGED seen
    BY <1>2, <1>9, <2>1 DEF ListRuntimes
  <2>2. ASSUME NEW found \in SUBSET (Runtimes \cup Misnamed \cup Malformed),
               seen' = seen \cup found, items' = items \cup (found \cap Runtimes),
               gaps' = gaps \cup RuntimeGaps(found)
        PROVE  Handled'
    <3>1. ASSUME NEW x \in found PROVE Counted(x)'
      <4>1. CASE x \in Runtimes
        BY <2>2, <4>1 DEF Counted
      <4>2. CASE x \in Misnamed \cup Malformed
        <5>1. "simctl" \in Names(x)
          BY <4>2, XcodeAssumption DEF Names
        <5>2. Gap("simctl", "InvalidToolOutput") \in gaps'
          BY <2>2, <4>2 DEF RuntimeGaps
        <5> QED
          BY <5>1, <5>2, GapCounts, ReasonsAreFailures
      <4> QED
        BY <4>1, <4>2
    <3>2. todo' = todo
      BY <1>9 DEF ListRuntimes
    <3> QED
      BY <1>1, <2>2, <3>1, <3>2 DEF Handled
  <2> QED
    BY <1>9, <2>1, <2>2 DEF ListRuntimes
<1>10. CASE SelectDeveloperDir \/ XcodebuildVersion \/ FirstLaunchStatus \/ Refrain
  BY <1>2, <1>10 DEF SelectDeveloperDir, XcodebuildVersion, FirstLaunchStatus, Refrain
<1>11. CASE DevicesStaticDone \/ SkipDevices \/ DevicesDone \/ Report \/ Done \/ UNCHANGED vars
  BY <1>2, <1>11 DEF DevicesStaticDone, SkipDevices, DevicesDone, Report, Done, vars
<1> QED
  BY <1>4, <1>5, <1>6, <1>7, <1>8, <1>9, <1>10, <1>11 DEF Next

\* Sound is about the items, those named, and the gaps that count.
LEMMA SoundStays ==
  ASSUME Sound, UNCHANGED <<excludes, items, named>>, seen \subseteq seen',
         Unmeasured(gaps) \subseteq Unmeasured(gaps'), pc # "devicesStatic",
         pc' \in Probing \cup {"inventory", "static"} =>
           pc \in Probing \cup {"inventory", "static"},
         pc' = "devicesStatic" => Unmeasured(gaps') # {}
  PROVE  Sound'
BY DEF Sound, Excluded

LEMMA SoundStep == Behind /\ Spared /\ Sound /\ [Next]_vars => Sound'
<1> SUFFICES ASSUME Behind, Spared, Sound, [Next]_vars PROVE Sound'
  OBVIOUS
<1> USE DEF given, Probing, Asking, SELECT, VERSION, LAUNCH, CORE_SIMULATOR, SIMCTL_DEVICES,
        SIMCTL_RUNTIMES
<1>1. Unmeasured(gaps) \subseteq Unmeasured(gaps')
  BY GapsGrow, UnmeasuredGrows
<1>2. CASE SelectDeveloperDir \/ XcodebuildVersion \/ FirstLaunchStatus \/ Refrain
  <2>1. pc' \in {VERSION, LAUNCH, "inventory", "report"}
    BY <1>2 DEF SelectDeveloperDir, XcodebuildVersion, FirstLaunchStatus, Refrain, Probed
  <2> QED
    BY <1>1, <1>2, <2>1, SoundStays
       DEF SelectDeveloperDir, XcodebuildVersion, FirstLaunchStatus, Refrain
<1>3. CASE Static
  BY <1>1, <1>3, SoundStays, ExpandFacts DEF Static
<1>4. CASE CoreSimulatorCompatible
  <2>1. CASE pc' = SIMCTL_DEVICES /\ UNCHANGED seen
    BY <1>1, <1>4, <2>1, SoundStays DEF CoreSimulatorCompatible
  <2>2. ASSUME NEW r \in Failures, FallBack(r) PROVE Sound'
    <3>1. Gap("simulator_inventory", r) \in gaps' /\ seen \subseteq seen'
      BY <2>2, ExpandFacts DEF FallBack
    <3>2. Unmeasured(gaps') # {}
      BY <3>1, FailureIsUnmeasured
    <3> QED
      BY <1>1, <1>4, <2>2, <3>1, <3>2, SoundStays DEF CoreSimulatorCompatible, FallBack
  <2>3. "CoreSimulatorVersionMismatch" \in Failures
    BY DEF Failures
  <2> QED
    BY <1>4, <2>1, <2>2, <2>3, ReasonsAreFailures DEF CoreSimulatorCompatible
<1>5. CASE \E x \in todo : MeasureMatch(x)
  <2>1. PICK x \in todo : MeasureMatch(x)
    BY <1>5
  <2>2. /\ x \in seen /\ ~Excluded(x) /\ items' \subseteq items \cup {x}
        /\ UNCHANGED <<pc, named, seen, excludes>>
        /\ \/ pc = "static" /\ x \in Stores
           \/ pc = "devicesStatic" /\ x \in Devices
    BY <2>1 DEF MeasureMatch, Measure, Spared
  <2>3. x \in Stores => x \notin Devices
    BY XcodeAssumption
  <2> QED
    BY <1>1, <2>2, <2>3 DEF Sound, Excluded
<1>6. CASE \E x \in todo : TakeDevice(x)
  <2>1. PICK x \in todo : TakeDevice(x)
    BY <1>6
  <2>2. /\ x \in seen /\ UNCHANGED <<pc, seen, excludes>> /\ pc = "devices"
        /\ \/ UNCHANGED <<items, named>>
           \/ /\ x \in Devices /\ ~Excluded(x)
              /\ items' \subseteq items \cup {x} /\ named' = named \cup {x}
    BY <2>1 DEF TakeDevice, Measure, SkipDevice, Spared
  <2> QED
    BY <1>1, <2>2 DEF Sound, Excluded
<1>7. CASE DevicesStaticDone
  <2>1. CASE items \cap Devices = {}
    BY <1>1, <1>7, <2>1 DEF DevicesStaticDone, Sound, Excluded
  <2>2. CASE items \cap Devices # {}
    <3>1. Gap("simulator_devices", "SimulatorIdentityUnavailable") \in gaps'
      BY <1>7, <2>2 DEF DevicesStaticDone, NamelessGap
    <3>2. "SimulatorIdentityUnavailable" \in Failures
      BY DEF Failures
    <3>3. \E g \in Unmeasured(gaps') : g.reason = "SimulatorIdentityUnavailable"
      BY <3>1, <3>2, FailureIsUnmeasured DEF Gap
    <3> QED
      BY <1>1, <1>7, <3>3 DEF DevicesStaticDone, Sound, Excluded
  <2> QED
    BY <2>1, <2>2
<1>8. CASE ListDevices
  BY <1>1, <1>8, SoundStays DEF ListDevices
<1>9. CASE ListRuntimes
  <2>1. CASE UNCHANGED <<seen, items>>
    BY <1>1, <1>9, <2>1, SoundStays DEF ListRuntimes
  <2>2. ASSUME NEW found \in SUBSET (Runtimes \cup Misnamed \cup Malformed),
               seen' = seen \cup found, items' = items \cup (found \cap Runtimes),
               gaps' = gaps \cup RuntimeGaps(found)
        PROVE  Sound'
    <3>1. \A x \in Runtimes : x \notin Devices \cup Stores \cup Malformed /\ ~Excluded(x)
      BY XcodeAssumption DEF Spared, Excluded
    <3>2. found \cap Runtimes # {} => Unmeasured(gaps') # {}
      <4> SUFFICES ASSUME NEW x \in found \cap Runtimes PROVE Unmeasured(gaps') # {}
        OBVIOUS
      <4>1. Gap("simulator_runtimes", "RuntimeSizeUnavailable") \in gaps'
        BY <2>2, <3>1 DEF RuntimeGaps
      <4>2. "RuntimeSizeUnavailable" \in Failures
        BY DEF Failures
      <4> QED
        BY <4>1, <4>2, FailureIsUnmeasured
    <3>3. pc = SIMCTL_RUNTIMES /\ pc' = "report" /\ UNCHANGED <<named, excludes>>
      BY <1>9 DEF ListRuntimes
    <3> QED
      BY <1>1, <2>2, <3>1, <3>2, <3>3 DEF Sound, Excluded
  <2> QED
    BY <1>9, <2>1, <2>2 DEF ListRuntimes
<1>10. CASE SkipDevices \/ DevicesDone \/ Report
  BY <1>1, <1>10, SoundStays DEF SkipDevices, DevicesDone, Report
<1>11. CASE Done \/ UNCHANGED vars
  BY <1>11 DEF Done, vars, Sound, Excluded
<1> QED
  BY <1>2, <1>3, <1>4, <1>5, <1>6, <1>7, <1>8, <1>9, <1>10, <1>11 DEF Next

LEMMA ExplainedStep == XcodeInv /\ [Next]_vars => Explained'
<1> SUFFICES ASSUME XcodeInv, [Next]_vars PROVE Explained'
  OBVIOUS
<1> USE DEF Explained, Probing, Asking, SELECT, VERSION, LAUNCH, CORE_SIMULATOR,
        SIMCTL_DEVICES, SIMCTL_RUNTIMES
<1>1. Unmeasured(gaps) \subseteq Unmeasured(gaps')
  BY GapsGrow, UnmeasuredGrows
<1> USE DEF XcodeInv, tool
<1>2. ASSUME status = "none", status' = "none", pc # "done", pc' # "done",
             \/ UNCHANGED <<state, snapshots, gaps>>
             \/ UNCHANGED <<state, snapshots>> /\ pc \notin Probing \cup {"inventory"},
             pc' \in Probing \cup {"inventory"} => pc \in Probing \cup {"inventory"},
             pc' \in {"static", "devicesStatic", "report"} \cup Asking =>
               pc \in {"static", "devicesStatic"} \cup Asking
      PROVE  Explained'
  <2>1. StatusIsHonest'
    BY <1>2 DEF StatusIsHonest
  <2>2. pc' = "report" => state' = Ready
    BY <1>2 DEF Behind
  <2>3. NotPresent # Ready
    BY DEF NotPresent, Ready
  <2> QED
    BY <1>1, <1>2, <2>1, <2>2, <2>3
<1>3. CASE SelectDeveloperDir \/ XcodebuildVersion \/ FirstLaunchStatus
  <2>1. /\ pc' \in {VERSION, LAUNCH, "inventory"} /\ UNCHANGED <<gaps, status>>
        /\ gaps = {} /\ status = "none"
    BY <1>3 DEF SelectDeveloperDir, XcodebuildVersion, FirstLaunchStatus, Probed
  <2> QED
    BY <2>1 DEF StatusIsHonest
<1>4. CASE Refrain
  <2>1. /\ gaps' = DegradedGaps(state) /\ state # Ready /\ state \in States /\ pc' = "report"
        /\ UNCHANGED <<state, status>> /\ status = "none"
    BY <1>4 DEF Refrain, Behind
  <2>2. CASE state = NotPresent
    <3>1. gaps' = {}
      BY <2>1, <2>2 DEF DegradedGaps, NotPresent
    <3> QED
      BY <2>1, <2>2, <3>1 DEF Unmeasured, StatusIsHonest
  <2>3. CASE \E r \in DegradedReasons : state = Degraded(r)
    <3>1. PICK r \in DegradedReasons : state = Degraded(r)
      BY <2>3
    <3>2. state.kind = "Degraded" /\ state.reason = r
      BY <3>1 DEF Degraded
    <3>3. \E f \in Failures : Gap("xcode", f) \in gaps'
      <4>1. CASE r = "InvalidSelection"
        BY <2>1, <3>2, <4>1 DEF DegradedGaps, Failures
      <4>2. CASE r # "InvalidSelection"
        <5>1. gaps' = {Gap("xcode", r)}
          BY <2>1, <3>2, <4>2 DEF DegradedGaps
        <5>2. r \in Failures
          BY <4>2 DEF DegradedReasons, Failures
        <5> QED
          BY <5>1, <5>2
      <4> QED
        BY <4>1, <4>2
    <3>4. Unmeasured(gaps') # {}
      BY <3>3, FailureIsUnmeasured
    <3>5. state # NotPresent
      BY <3>2 DEF NotPresent
    <3> QED
      BY <2>1, <3>4, <3>5 DEF StatusIsHonest
  <2> QED
    BY <2>1, <2>2, <2>3 DEF States
<1>5. CASE Static
  <2>1. /\ pc' = "static" /\ UNCHANGED <<state, status>> /\ status = "none"
    BY <1>5 DEF Static
  <2>2. snapshots' = "unknown" => Unmeasured(gaps') # {}
    <3> SUFFICES ASSUME snapshots' = "unknown" PROVE Unmeasured(gaps') # {}
      OBVIOUS
    <3>1. Gap("xcode", "VolumeSnapshotStateUnavailable") \in gaps'
      BY <1>5, ExpandFacts DEF Static
    <3>2. "VolumeSnapshotStateUnavailable" \in Failures
      BY DEF Failures
    <3> QED
      BY <3>1, <3>2, FailureIsUnmeasured
  <2> QED
    BY <2>1, <2>2 DEF StatusIsHonest
<1>6. CASE \E x \in todo : MeasureMatch(x) \/ TakeDevice(x)
  BY <1>2, <1>6 DEF MeasureMatch, TakeDevice
<1>7. CASE CoreSimulatorCompatible
  BY <1>2, <1>7 DEF CoreSimulatorCompatible, FallBack
<1>8. CASE DevicesStaticDone \/ SkipDevices \/ DevicesDone
  BY <1>2, <1>8 DEF DevicesStaticDone, SkipDevices, DevicesDone
<1>9. CASE ListDevices
  BY <1>2, <1>9 DEF ListDevices
<1>10. CASE ListRuntimes
  BY <1>2, <1>10 DEF ListRuntimes
<1>11. CASE Report
  <2>1. /\ pc = "report" /\ pc' = "done" /\ state \in States /\ todo = {}
        /\ status' = Status(state, gaps')
        /\ UNCHANGED <<state, snapshots, excludes, items, named, seen>>
    BY <1>11 DEF Report, Behind, Spared, given
  <2>2. Unmeasured(gaps') = Unmeasured(gaps)
    BY <1>11, ExclusionsDoNotCount DEF Report
  <2>3. status' = "Unmeasurable" <=> Unmeasured(gaps') # {}
    <3>1. CASE state = Ready
      BY <2>1, <3>1, StatusOf
    <3>2. CASE state = NotPresent
      BY <2>1, <2>2, <3>2, StatusOf
    <3>3. CASE state \notin {Ready, NotPresent}
      BY <2>1, <2>2, <3>3, StatusOf
    <3> QED
      BY <3>1, <3>2, <3>3
  <2>4. ASSUME status' = "Complete"
        PROVE  /\ state = Ready /\ snapshots # "unknown"
               /\ {x \in seen : ~Excluded(x)} = items
               /\ items \subseteq Stores \cup named
    <3>1. state = Ready /\ Unmeasured(gaps) = {}
      BY <2>1, <2>2, <2>4, StatusOf
    <3>2. \A x \in seen : Excluded(x) \/ x \in items
      BY <2>1, <3>1 DEF Handled, Counted
    <3>3. items \subseteq Stores \cup named
      BY <2>1, <3>1 DEF Sound
    <3> QED
      BY <2>1, <3>1, <3>2, <3>3 DEF Sound
  <2>5. {x \in seen : ~Excluded(x)}' = {x \in seen : ~Excluded(x)}
    BY <2>1 DEF Excluded
  <2>6. StatusIsHonest'
    BY <2>1, <2>3, <2>4, <2>5 DEF StatusIsHonest
  <2> QED
    BY <2>1, <2>2, <2>6
<1>12. CASE Done \/ UNCHANGED vars
  BY <1>12 DEF Done, vars, given, StatusIsHonest, Excluded
<1> QED
  BY <1>3, <1>4, <1>5, <1>6, <1>7, <1>8, <1>9, <1>10, <1>11, <1>12 DEF Next

LEMMA XcodeStep == XcodeInv /\ [Next]_vars => XcodeInv'
BY BehindStep, SparedStep, HandledStep, SoundStep, ExplainedStep DEF XcodeInv

-----------------------------------------------------------------------------
(* What the invariant says of a report                                     *)

\* SPEC.md:357: simctl is only run for an exact verified pair, and for a ready
\* Xcode, whatever the probes answer.
THEOREM SimctlIsAlwaysPinned == Spec => []SimctlIsPinned
<1>1. XcodeInv => SimctlIsPinned
  BY DEF XcodeInv, Behind, SimctlIsPinned, Probes, SIMCTL_DEVICES, SIMCTL_RUNTIMES
<1> QED
  BY <1>1, XcodeInit, XcodeStep, PTL DEF Spec

\* SPEC.md:796: what exists where the rules look, or was named by simctl, ends as
\* an item, was excluded, or is covered by a gap.
THEOREM NothingIsLost == Spec => []NothingLost
<1>1. XcodeInv => NothingLost
  <2> SUFFICES ASSUME XcodeInv, pc = "done" PROVE \A x \in seen : Counted(x)
    BY DEF NothingLost, Counted
  <2> QED
    BY DEF XcodeInv, Spared, Handled
<1> QED
  BY <1>1, XcodeInit, XcodeStep, PTL DEF Spec

\* SPEC.md:796: a complete region has everything found, sized; an unmeasurable one
\* has a gap that says why.
THEOREM StatusIsAlwaysHonest == Spec => []StatusIsHonest
<1>1. XcodeInv => StatusIsHonest
  BY DEF XcodeInv, Explained
<1> QED
  BY <1>1, XcodeInit, XcodeStep, PTL DEF Spec

\* xcode.rs:289-322: a nameless device comes with the gap that says so.
THEOREM IdentityIsAlwaysVouched == Spec => []IdentityIsVouched
<1>1. XcodeInv => IdentityIsVouched
  BY DEF XcodeInv, Sound, IdentityIsVouched, Unmeasured
<1> QED
  BY <1>1, XcodeInit, XcodeStep, PTL DEF Spec

\* SPEC.md:817: nothing below an excluded path is measured, nor is simctl asked for
\* an excluded device set.
THEOREM ExcludedIsUntouched == Spec => []ExcludedUntouched
<1>1. XcodeInv => ExcludedUntouched
  BY DEF XcodeInv, Spared, ExcludedUntouched
<1> QED
  BY <1>1, XcodeInit, XcodeStep, PTL DEF Spec
================================================================================

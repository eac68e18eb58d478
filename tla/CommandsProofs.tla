---------------------------- MODULE CommandsProofs ----------------------------
(***************************************************************************)
(* What holds of opening a root, of the snapshots counted through it, of   *)
(* explain, and of the documents of scan and doctor, for any paths, mount  *)
(* points, volumes, spellings of HOME and adapters, and any number of      *)
(* arguments, and of changes in between.                                   *)
(***************************************************************************)
EXTENDS Commands, TLAPS

-----------------------------------------------------------------------------
(* What a step of the program does to the root                             *)

\* explain does not move the root along, whatever it does itself.
Drift ==
  /\ UNCHANGED <<holds, mounted, dataless, request, policies, step, pin, failure,
                 answers, listing>>
  /\ changes' \in {changes, changes + 1}

\* Every step of a command moves the root along, is one of the environment, or
\* leaves the root alone.
LEMMA StepOfRoot ==
  [CommandNext]_commandVars => Open \/ Capacity \/ Snapshots \/ OthersAct \/ Drift
<1> SUFFICES ASSUME [CommandNext]_commandVars
             PROVE  Open \/ Capacity \/ Snapshots \/ OthersAct \/ Drift
  OBVIOUS
<1> USE DEF Drift, openVars, system, request, pin, answers, listing
<1>1. CASE UNCHANGED openVars
  BY <1>1
<1>2. CASE ReadReport
  BY <1>2 DEF ReadReport
<1>3. CASE Toggle
  BY <1>3 DEF Toggle
<1>4. CASE \E place \in ReportDirs : Touch(place)
  BY <1>4 DEF Touch, Changing
<1>5. CASE OpenParent \/ (mode = "none" /\ (Open \/ Capacity \/ Snapshots))
           \/ (Watching /\ OthersAct)
  BY <1>5 DEF OpenParent
<1>6. CASE CheckId \/ CheckOwner \/ Rescan \/ Answer \/ ParentOpened \/ Gate
           \/ CheckDataless \/ Parse \/ Finished
  BY <1>6, <1>1 DEF CheckId, CheckOwner, Rescan, Answer, ParentOpened, Gate,
     CheckDataless, Parse, Finished
<1> QED
  BY <1>1, <1>2, <1>3, <1>4, <1>5, <1>6 DEF CommandNext, ExplainNext, commandVars

-----------------------------------------------------------------------------
(* Nothing is brought back                                                 *)

\* The policies in force at each step: one of them is installed at a time, and
\* no path is touched before the last.
InForce ==
  /\ policies \subseteq Policies
  /\ step = "materialize" => "atime" \in policies
  /\ step = "trigger" => {"atime", "materialize"} \subseteq policies
  /\ Touched => policies = Policies

\* The report is only gated and read through a root that was pinned; where the
\* root is not the report's parent, explain stands still.
Staged ==
  /\ mode = "none" => stage = "idle"
  /\ stage \in {"gate", "dataless", "read"} => step = "pinned"

PolicyInv == InForce /\ Staged /\ materialized = {}

LEMMA PolicyInit == CommandInit => PolicyInv
<1> SUFFICES ASSUME CommandInit PROVE PolicyInv
  OBVIOUS
<1>1. policies = {} /\ step = "spelling" /\ materialized = {}
  BY DEF CommandInit, ExplainIdle, ExplainInit, OpenIdle, OpenInit
<1>2. stage \in {"idle", "id"} /\ (mode = "none" => stage = "idle")
      BY DEF CommandInit, ExplainIdle, ExplainInit
<1> QED
  BY <1>1, <1>2 DEF PolicyInv, InForce, Staged, Touched, Policies

\* Opening a root and reading through it keep the order of the policies.
LEMMA PoliciesKept ==
  InForce /\ (Open \/ Capacity \/ Snapshots \/ OthersAct \/ Drift) => InForce'
<1> SUFFICES ASSUME InForce, Open \/ Capacity \/ Snapshots \/ OthersAct \/ Drift
             PROVE  InForce'
  OBVIOUS
<1> USE DEF InForce, Touched, Policies
<1>1. CASE CheckSpelling
  BY <1>1 DEF CheckSpelling, Fail
<1>2. CASE InstallPolicy
  BY <1>2 DEF InstallPolicy, After, Fail
<1>3. CASE Canonicalize
  BY <1>3 DEF Canonicalize, Fail
<1>4. CASE ReadVolume \/ ReadIdentity
  BY <1>4 DEF ReadVolume, ReadIdentity, Fail
<1>5. CASE Capacity
  BY <1>5 DEF Capacity, Filesystem, ImportantCapacity, OpportunisticCapacity
<1>6. CASE Snapshots
  BY <1>6 DEF Snapshots, StatMount, OpenMountRoot, ListSnapshots
<1>7. CASE OthersAct
  BY <1>7 DEF OthersAct, Swap, Remount, Evict, Changing
<1>8. CASE Drift
  BY <1>8 DEF Drift
<1> QED
  BY <1>1, <1>2, <1>3, <1>4, <1>5, <1>6, <1>7, <1>8 DEF Open

\* Once every policy is in force no call brings a directory back.
LEMMA NothingBrought ==
  InForce /\ materialized = {} /\ (Open \/ Capacity \/ Snapshots \/ OthersAct)
  => materialized' = {}
<1> SUFFICES ASSUME InForce, materialized = {},
                    Open \/ Capacity \/ Snapshots \/ OthersAct
             PROVE  materialized' = {}
  OBVIOUS
<1>1. CASE Canonicalize
  <2>1. "materialize" \in policies
    BY <1>1 DEF Canonicalize, InForce, Touched, Policies
  <2>2. BringsBack(Resolve(given)) = {}
    BY <2>1 DEF BringsBack
  <2> QED
    BY <1>1, <2>2 DEF Canonicalize
<1>2. CASE CheckSpelling \/ InstallPolicy \/ ReadVolume \/ ReadIdentity
  BY <1>2 DEF CheckSpelling, InstallPolicy, ReadVolume, ReadIdentity
<1>3. CASE Capacity \/ Snapshots
  BY <1>3 DEF Capacity, Filesystem, ImportantCapacity, OpportunisticCapacity,
     Snapshots, StatMount, OpenMountRoot, ListSnapshots
<1>4. CASE OthersAct
  BY <1>4 DEF OthersAct, Swap, Remount, Evict, Changing
<1> QED
  BY <1>1, <1>2, <1>3, <1>4 DEF Open

LEMMA PolicyStep == PolicyInv /\ [CommandNext]_commandVars => PolicyInv'
<1> SUFFICES ASSUME PolicyInv, [CommandNext]_commandVars
             PROVE  PolicyInv'
  OBVIOUS
<1>1. InForce'
  BY StepOfRoot, PoliciesKept DEF PolicyInv
<1>2. CASE CommandNext /\ command = "explain"
  <2>1. CASE ReadReport
    <3>1. "materialize" \in policies
      BY <2>1 DEF ReadReport, PolicyInv, Staged, InForce, Touched, Policies
    <3>2. materialized' = {}
      BY <2>1, <3>1 DEF ReadReport, PolicyInv
    <3>3. Staged'
      BY <2>1 DEF ReadReport, Die, PolicyInv, Staged, asked
    <3> QED
      BY <1>1, <3>2, <3>3 DEF PolicyInv
  <2>2. CASE OpenParent \/ (mode = "none" /\ (Open \/ Capacity \/ Snapshots)
                             /\ UNCHANGED explainVars)
    <3>1. materialized' = {}
      BY <2>2, NothingBrought DEF PolicyInv, OpenParent
    <3>2. Staged'
      BY <2>2 DEF PolicyInv, Staged, OpenParent, explainVars, asked
    <3> QED
      BY <1>1, <3>1, <3>2 DEF PolicyInv
  <2>3. CASE Watching /\ OthersAct
    <3>1. materialized' = {}
      BY <2>3, NothingBrought DEF PolicyInv
    <3>2. step' = step /\ mode' = mode /\ stage' = stage
      BY <2>3 DEF Watching, OthersAct, Swap, Remount, Evict, Changing, explainVars, asked
    <3> QED
      BY <1>1, <3>1, <3>2 DEF PolicyInv, Staged
  <2>4. CASE Toggle \/ \E place \in ReportDirs : Touch(place)
    BY <1>1, <2>4 DEF PolicyInv, Staged, Toggle, Touch, Changing, asked
  <2>5. CASE ParentOpened
    BY <1>1, <2>5 DEF PolicyInv, Staged, ParentOpened, Die, openVars, asked
  <2>6. CASE Gate \/ CheckDataless \/ Parse
    BY <1>1, <2>6 DEF PolicyInv, Staged, Gate, CheckDataless, Parse, Die, Render,
       openVars, asked
  <2>7. CASE CheckId \/ CheckOwner \/ Rescan \/ Answer
    BY <1>1, <2>7 DEF PolicyInv, Staged, CheckId, CheckOwner, Rescan, Answer, Die, Render,
       openVars, asked
  <2>8. CASE Finished
    BY <1>1, <2>8 DEF PolicyInv, Staged, Finished, openVars, explainVars, asked
  <2> QED
    BY <1>2, <2>1, <2>2, <2>3, <2>4, <2>5, <2>6, <2>7, <2>8 DEF CommandNext, ExplainNext
<1>3. CASE UNCHANGED <<openVars, explainVars>>
  BY <1>1, <1>3 DEF PolicyInv, Staged, openVars, explainVars, asked
<1> QED
  BY <1>2, <1>3 DEF CommandNext, commandVars

\* SPEC.md 3.2 and 3.2.1: whatever is evicted, replaced or remounted while a root
\* is opened and read, or while explain reads a report, no dataless object is
\* brought back, because every policy is in force before the first look.
THEOREM NothingIsMaterialized == CommandSpec => []NothingMaterialized
<1>1. PolicyInv => NothingMaterialized
  BY DEF PolicyInv, InForce, NothingMaterialized
<1> QED
  BY <1>1, PolicyInit, PolicyStep, PTL DEF CommandSpec

-----------------------------------------------------------------------------
(* A finding that is gone was gone                                         *)

\* What was seen includes how it is now; a region measured to the end tells it
\* as it was at some moment, unless the system denied the place and the adapter
\* is one that passes over that; and what was found was there at one.
Told ==
  /\ exists \in BOOLEAN
  /\ Presence(exists) \in seen
  /\ stage # "exit" => answer = "none"
  /\ stage = "answer" =>
       /\ found => "present" \in seen
       /\ region = "Complete" /\ ~found => "absent" \in seen \/ (denied /\ owner \in Silent)
  /\ AbsenceIsProved

LEMMA ToldInit == CommandInit => Told
<1> SUFFICES ASSUME CommandInit PROVE Told
  OBVIOUS
<1>1. CASE ExplainIdle
  <2>1. exists = FALSE /\ seen = {"absent"} /\ answer = "none" /\ stage = "idle"
    BY <1>1 DEF ExplainIdle
  <2> QED
    BY <2>1 DEF Told, AbsenceIsProved, Presence
<1>2. CASE ExplainInit
  <2>1. exists \in BOOLEAN /\ seen = {Presence(exists)}
    BY <1>2 DEF ExplainInit
  <2>2. answer = "none" /\ stage \in {"idle", "id"}
    BY <1>2 DEF ExplainInit
  <2> QED
    BY <2>1, <2>2 DEF Told, AbsenceIsProved
<1> QED
  BY <1>1, <1>2 DEF CommandInit

LEMMA ToldStep == Told /\ [CommandNext]_commandVars => Told'
<1> SUFFICES ASSUME Told, [CommandNext]_commandVars
             PROVE  Told'
  OBVIOUS
<1> USE DEF Told, AbsenceIsProved, explainVars, asked, rescan, outcome
<1>1. CASE UNCHANGED explainVars
  BY <1>1 DEF Presence
<1>2. CASE Rescan
  <2>1. denied' \in BOOLEAN /\ (denied' => owner \in Silent)
    BY <1>2 DEF Rescan
  <2>2. found' => "present" \in seen
    BY <1>2 DEF Rescan, Presence
  <2>3. region' = "Complete" /\ ~found' => "absent" \in seen \/ denied'
    BY <1>2, <2>1 DEF Rescan, Presence
  <2>4. UNCHANGED <<owner, exists, seen, answer>>
    BY <1>2 DEF Rescan
  <2>5. exists' \in BOOLEAN /\ Presence(exists)' \in seen'
    BY <2>4 DEF Presence
  <2>6. AbsenceIsProved'
    <3>1. answer = "none"
      BY <1>2 DEF Rescan
    <3> QED
      BY <2>4, <3>1
  <2>7. stage' = "answer" /\ answer' = "none"
    BY <1>2 DEF Rescan
  <2> QED
    BY <2>1, <2>2, <2>3, <2>4, <2>5, <2>6, <2>7
<1>3. CASE Answer
  BY <1>3 DEF Answer, Render, Die, Proves, Presence
<1>4. CASE Parse
  BY <1>4 DEF Parse, Render, Die, Presence
<1>5. CASE Toggle
  <2>1. exists' \in BOOLEAN /\ seen' = seen \cup {Presence(exists')}
    BY <1>5 DEF Toggle
  <2>2. UNCHANGED <<stage, owner, denied, found, region, answer>>
    BY <1>5 DEF Toggle
  <2> QED
    BY <2>1, <2>2
<1>6. CASE \E place \in ReportDirs : Touch(place)
  BY <1>6 DEF Touch, Presence
<1>7. CASE CheckId \/ CheckOwner
  <2>1. stage' # "answer" \/ stage' = stage
    BY <1>7 DEF CheckId, CheckOwner, Die
  <2> QED
    BY <1>7, <2>1 DEF CheckId, CheckOwner, Die, Presence
<1>8. CASE ParentOpened \/ Gate \/ CheckDataless \/ ReadReport
  BY <1>8 DEF ParentOpened, Gate, CheckDataless, ReadReport, Die, Presence
<1>9. CASE OpenParent \/ (Watching /\ OthersAct) \/ Finished
  BY <1>9, <1>1 DEF OpenParent, Watching, Finished
<1> QED
  BY <1>1, <1>2, <1>3, <1>4, <1>5, <1>6, <1>7, <1>8, <1>9
     DEF CommandNext, ExplainNext, commandVars

\* SPEC.md:807: explain only says that a finding is gone if it was, at some
\* moment since explain was started, or if it is a cache of go outside HOME that
\* the system denied, and only shows it live if it was there at one, however often
\* it comes and goes.
THEOREM AbsenceIsAlwaysProved == CommandSpec => []AbsenceIsProved
<1>1. Told => AbsenceIsProved
  BY DEF Told
<1> QED
  BY <1>1, ToldInit, ToldStep, PTL DEF CommandSpec

-----------------------------------------------------------------------------
(* What is read through a root is of one volume                            *)

PinnedSteps == {"pinned", "important", "opportunistic", "mount_root", "list", "reported"}

\* What is pinned was compared with the cloud folders.
NotBelowCloud ==
  /\ step \in {"volume", "identity"} => ~Cloudy(physical)
  /\ CloudNeverPinned

\* Nothing is counted before the mount point was opened.
Unasked == step # "reported" => snapshots = Nothing

\* As long as nobody interferes, everything is about the volume of one directory.
OneVolume ==
  changes = 0 =>
    /\ step \in {"volume", "identity"} \cup PinnedSteps => holds[physical] = "dir"
    /\ step \in PinnedSteps => identity.volume = VolumeAt(physical)
    /\ step \in {"mount_root", "list"} => mount_root.fsid = VolumeAt(physical)

RootInv ==
  /\ changes \in Nat
  /\ NotBelowCloud
  /\ Unasked
  /\ step = "mount_root" =>
       mount_root = [point |-> mount_root.point, fsid |-> mount_root.fsid, opened |-> Nothing]
  /\ SnapshotsAreOfOneVolume
  /\ OneVolume

\* A path that holds a directory leads to itself.
LEMMA DirectoryIsItself ==
  ASSUME NEW p, holds[p] = "dir"
  PROVE  Resolve(p) = p
BY RootAssumption DEF Resolve, Follow

LEMMA RootInit == CommandInit => RootInv
<1> SUFFICES ASSUME CommandInit PROVE RootInv
  OBVIOUS
<1>1. step = "spelling" /\ changes = 0 /\ identity = Nothing /\ snapshots = Nothing
  BY DEF CommandInit, ExplainIdle, ExplainInit, OpenIdle, OpenInit
<1> QED
  BY <1>1 DEF RootInv, NotBelowCloud, CloudNeverPinned, Unasked, PinnedSteps, OneVolume,
     SnapshotsAreOfOneVolume

LEMMA CloudStep ==
  NotBelowCloud /\ (Open \/ Capacity \/ Snapshots \/ OthersAct \/ Drift) => NotBelowCloud'
<1> SUFFICES ASSUME NotBelowCloud, Open \/ Capacity \/ Snapshots \/ OthersAct \/ Drift
             PROVE  NotBelowCloud'
  OBVIOUS
<1> USE DEF NotBelowCloud, CloudNeverPinned, HomeIsPhysical, Cloudy, request, pin
<1>1. CASE CheckSpelling \/ InstallPolicy
  BY <1>1 DEF CheckSpelling, InstallPolicy, After, Policies, Fail
<1>2. CASE Canonicalize
  BY <1>2 DEF Canonicalize, Fail
<1>3. CASE ReadVolume
  BY <1>3 DEF ReadVolume
<1>4. CASE ReadIdentity
  BY <1>4 DEF ReadIdentity, Fail, Object
<1>5. CASE Capacity
  BY <1>5 DEF Capacity, Filesystem, ImportantCapacity, OpportunisticCapacity
<1>6. CASE Snapshots
  BY <1>6 DEF Snapshots, StatMount, OpenMountRoot, ListSnapshots
<1>7. CASE OthersAct
  BY <1>7 DEF OthersAct, Swap, Remount, Evict, Changing
<1>8. CASE Drift
  BY <1>8 DEF Drift
<1> QED
  BY <1>1, <1>2, <1>3, <1>4, <1>5, <1>6, <1>7, <1>8 DEF Open

\* The steps until a root is pinned ask nothing through it.
LEMMA RootStepOpen == RootInv /\ Open => RootInv'
<1> SUFFICES ASSUME RootInv, Open
             PROVE  RootInv'
  OBVIOUS
<1>1. NotBelowCloud'
  BY CloudStep DEF RootInv
<1> USE DEF RootInv, Unasked, PinnedSteps, SnapshotsAreOfOneVolume, OneVolume, VolumeAt,
        system, request, pin, answers, listing
<1>2. CASE CheckSpelling \/ InstallPolicy
  BY <1>1, <1>2 DEF CheckSpelling, InstallPolicy, After, Policies, Fail
<1>3. CASE Canonicalize
  BY <1>1, <1>3 DEF Canonicalize, Fail
<1>4. CASE ReadVolume
  BY <1>1, <1>4 DEF ReadVolume
<1>5. CASE ReadIdentity
  <2>1. CASE step' = "pinned"
    <3>1. identity' = [dir |-> physical, volume |-> VolumeAt(physical)]
      BY <1>5, <2>1 DEF ReadIdentity, Object, Fail
    <3> QED
      BY <1>1, <1>5, <2>1, <3>1 DEF ReadIdentity
  <2>2. CASE step' = "failed"
    BY <1>1, <1>5, <2>2 DEF ReadIdentity
  <2> QED
    BY <1>5, <2>1, <2>2 DEF ReadIdentity, Fail
<1> QED
  BY <1>2, <1>3, <1>4, <1>5 DEF Open

LEMMA RootStepCapacity == RootInv /\ Capacity => RootInv'
<1> SUFFICES ASSUME RootInv, Capacity
             PROVE  RootInv'
  OBVIOUS
<1>1. NotBelowCloud'
  BY CloudStep DEF RootInv
<1> USE DEF RootInv, Unasked, PinnedSteps, SnapshotsAreOfOneVolume, OneVolume, VolumeAt,
        system, request, pin, answers, listing
<1>2. CASE Filesystem
  BY <1>1, <1>2 DEF Filesystem
<1>3. CASE ImportantCapacity \/ OpportunisticCapacity
  BY <1>1, <1>3 DEF ImportantCapacity, OpportunisticCapacity
<1> QED
  BY <1>2, <1>3 DEF Capacity

\* fstatfs ties the volume that is listed to the one looked up.
LEMMA RootStepSnapshots == RootInv /\ Snapshots => RootInv'
<1> SUFFICES ASSUME RootInv, Snapshots
             PROVE  RootInv'
  OBVIOUS
<1>1. NotBelowCloud'
  BY CloudStep DEF RootInv
<1> USE DEF RootInv, Unasked, PinnedSteps, SnapshotsAreOfOneVolume, OneVolume, VolumeAt,
        system, request, pin, answers, listing
<1>2. CASE StatMount
  <2>1. changes = 0 => Resolve(physical) = physical
    BY <1>2, DirectoryIsItself DEF StatMount
  <2> QED
    BY <1>1, <1>2, <2>1 DEF StatMount
<1>3. CASE OpenMountRoot
  <2>1. CASE step' = "list"
    <3>1. mount_root'.fsid = mount_root.fsid
      BY <1>3, <2>1 DEF OpenMountRoot
    <3> QED
      BY <1>1, <1>3, <2>1, <3>1 DEF OpenMountRoot
  <2>2. CASE step' = "reported"
    BY <1>1, <1>3, <2>2 DEF OpenMountRoot
  <2> QED
    BY <1>3, <2>1, <2>2 DEF OpenMountRoot
<1>4. CASE ListSnapshots
  BY <1>1, <1>4 DEF ListSnapshots, SameVolume
<1> QED
  BY <1>2, <1>3, <1>4 DEF Snapshots

\* Whoever interferes is counted.
LEMMA RootStepOthers == RootInv /\ (OthersAct \/ Drift) => RootInv'
<1> SUFFICES ASSUME RootInv, OthersAct \/ Drift
             PROVE  RootInv'
  OBVIOUS
<1>1. NotBelowCloud'
  BY CloudStep DEF RootInv
<1> USE DEF RootInv, Unasked, PinnedSteps, SnapshotsAreOfOneVolume, OneVolume, VolumeAt,
        request, pin, answers, listing
<1>2. CASE OthersAct
  <2>1. changes' = changes + 1 /\ UNCHANGED <<step, pin, answers, listing>>
    BY <1>2 DEF OthersAct, Swap, Remount, Evict, Changing
  <2> QED
    BY <1>1, <2>1
<1>3. CASE Drift
  <2>1. CASE changes' = changes + 1
    BY <1>1, <1>3, <2>1 DEF Drift
  <2>2. CASE changes' = changes
    BY <1>1, <1>3, <2>2 DEF Drift
  <2> QED
    BY <1>3, <2>1, <2>2 DEF Drift
<1> QED
  BY <1>2, <1>3

LEMMA RootStep == RootInv /\ [CommandNext]_commandVars => RootInv'
BY StepOfRoot, RootStepOpen, RootStepCapacity, RootStepSnapshots, RootStepOthers

\* SPEC.md 3.2.1: where HOME is spelled the way it really is, no directory of the
\* cloud provider is ever pinned, however paths are exchanged for links.
THEOREM CloudIsNeverPinned == CommandSpec => []CloudNeverPinned
<1>1. RootInv => CloudNeverPinned
  BY DEF RootInv, NotBelowCloud
<1> QED
  BY <1>1, RootInit, RootStep, PTL DEF CommandSpec

\* SPEC.md:842: snapshots are listed on the volume that was looked up, whatever is
\* mounted in between, and it is the volume of the root unless somebody interfered.
THEOREM SnapshotsAreAlwaysOfOneVolume == CommandSpec => []SnapshotsAreOfOneVolume
<1>1. RootInv => SnapshotsAreOfOneVolume
  BY DEF RootInv
<1> QED
  BY <1>1, RootInit, RootStep, PTL DEF CommandSpec

-----------------------------------------------------------------------------
(* What a document of scan or doctor, and its exit code, mean, for any      *)
(* roots, any arguments and any number of them.                            *)

\* The adapters that had their turn.
Ran == {Order[i] : i \in 1..(next - 1)}

\* Their regions: excluded just if they were not asked for, and unmeasurable
\* where there was no root.
Judged(a) ==
  IF a \in enabled
  THEN /\ regions[a] \in Statuses \ {"ExcludedByUser"}
       /\ ~opened => regions[a] = "Unmeasurable"
  ELSE regions[a] = "ExcludedByUser"

Given ==
  /\ command \in {"scan", "doctor", "explain"}
  /\ enabled \subseteq Adapters
  /\ \A p \in excludes : Valid(p)

\* Before the adapters: the arguments are checked one by one, and nothing is
\* measured.
Checking ==
  /\ pc \in {"start", "validate"} =>
       capacity = "none" /\ DOMAIN regions = {} /\ next = 1
  /\ pc = "start" => excludes = {}
  /\ pc = "validate" =>
       /\ excludes \cup todo = requested
       /\ requested # {} => opened

\* Every argument holds while the adapters run.
Running ==
  pc = "adapters" =>
    /\ excludes = requested
    /\ requested # {} => opened
    /\ command \in {"scan", "doctor"}
    /\ command = "scan" => capacity \in {"Complete", "Unmeasurable"}
    /\ next \in 1..5
    /\ DOMAIN regions = Ran
    /\ \A a \in Ran : Judged(a)

\* What the exit code is read from.
Ended ==
  /\ exit = 2 => capacity = "none" /\ DOMAIN regions = {}
  /\ Document =>
       /\ excludes = requested
       /\ requested # {} => opened
       /\ \A a \in Adapters : Judged(a)
       /\ exit = 0 /\ command = "scan" =>
            capacity = "Complete" /\ \A a \in Adapters : regions[a] # "Unmeasurable"
       /\ exit = 0 /\ command # "scan" =>
            opened /\ \A a \in Adapters : regions[a] # "Unmeasurable"

ScanInv ==
  /\ pc \in {"start", "validate", "adapters", "exit"}
  /\ pc # "exit" => exit = 0
  /\ Given /\ Checking /\ Running /\ Ended

LEMMA OrderFacts ==
  /\ Len(Order) = 4
  /\ {Order[i] : i \in 1..4} = Adapters
  /\ \A i, j \in 1..4 : Order[i] = Order[j] => i = j
BY DEF Order, Adapters

LEMMA ScanInit == Init => ScanInv
BY DEF Init, ScanInv, Given, Checking, Running, Ended, Document

LEMMA StartStep == ScanInv /\ Start => ScanInv'
BY DEF ScanInv, Given, Checking, Running, Ended, Document, Start, Usage, world,
   Valid, Matches, Exists, HasPrefix, Folders, Caches, Owners

LEMMA ValidateStep == ScanInv /\ (\E p \in todo : Validate(p)) => ScanInv'
<1> SUFFICES ASSUME ScanInv, NEW p \in todo, Validate(p)
             PROVE  ScanInv'
  OBVIOUS
<1>1. \A q : Valid(q)' = Valid(q)
  BY DEF Validate, world, Valid, Matches, Exists, HasPrefix, Folders, Caches, Owners
<1>2. CASE Valid(p)
  BY <1>1, <1>2 DEF Validate, ScanInv, Given, Checking, Running, Ended, Document, world, Usage
<1>3. CASE ~Valid(p)
  BY <1>1, <1>3 DEF Validate, ScanInv, Given, Checking, Running, Ended, Document, world, Usage
<1> QED
  BY <1>2, <1>3

\* The adapters start with everything checked and none of them run.
LEMMA BeginStep == ScanInv /\ (MeasureCapacity \/ Probe) => ScanInv'
<1> SUFFICES ASSUME ScanInv, MeasureCapacity \/ Probe
             PROVE  ScanInv'
  OBVIOUS
<1>1. \A q : Valid(q)' = Valid(q)
  BY DEF MeasureCapacity, Probe, world, Valid, Matches, Exists, HasPrefix, Folders, Caches,
     Owners
<1>2. next' = 1 /\ regions' = regions /\ DOMAIN regions = {} /\ Ran' = {}
  BY DEF ScanInv, Checking, MeasureCapacity, Probe, Ran
<1>3. Given' /\ Checking' /\ Ended'
  BY <1>1 DEF MeasureCapacity, Probe, ScanInv, Given, Checking, Ended, Document, world
<1>4. Running'
  BY <1>2 DEF MeasureCapacity, Probe, ScanInv, Given, Checking, Running, world
<1>5. pc' \in {"adapters", "exit"} /\ (pc' # "exit" => exit' = 0)
  BY DEF MeasureCapacity, Probe, ScanInv
<1> QED
  BY <1>3, <1>4, <1>5 DEF ScanInv

LEMMA AdapterStep == ScanInv /\ RunAdapter => ScanInv'
<1> SUFFICES ASSUME ScanInv, RunAdapter
             PROVE  ScanInv'
  OBVIOUS
<1> PICK a : a = Order[next]
  OBVIOUS
<1>1. \A q : Valid(q)' = Valid(q)
  BY DEF RunAdapter, world, Valid, Matches, Exists, HasPrefix, Folders, Caches, Owners
<1>2. /\ pc = "adapters" /\ next \in 1..4 /\ next' = next + 1
      /\ DOMAIN regions = Ran /\ UNCHANGED <<world, pc, todo, excludes, capacity, exit>>
  BY OrderFacts DEF RunAdapter, ScanInv, Running
<1>3. Given' /\ Checking' /\ Ended'
  BY <1>1, <1>2 DEF ScanInv, Given, Checking, Ended, Document, world
<1>4. a \notin Ran /\ Ran' = Ran \cup {a}
  <2>1. \A i \in 1..(next - 1) : i \in 1..4 /\ i # next
    BY <1>2
  <2>2. a \notin Ran
    BY <1>2, <2>1, OrderFacts DEF Ran
  <2>3. 1..(next' - 1) = 1..(next - 1) \cup {next}
    BY <1>2
  <2> QED
    BY <2>2, <2>3 DEF Ran
<1>5. PICK s : /\ Region(a, s)
               /\ a \notin enabled => s = "ExcludedByUser"
               /\ a \in enabled => s \in Statuses \ {"ExcludedByUser"}
               /\ a \in enabled /\ ~opened => s = "Unmeasurable"
  BY DEF RunAdapter, Statuses
<1>6. /\ DOMAIN regions' = Ran \cup {a}
      /\ regions'[a] = s
      /\ \A b \in Ran : regions'[b] = regions[b]
  BY <1>2, <1>4, <1>5 DEF Region
<1>7. \A b \in Ran' : Judged(b)'
  <2>1. \A b \in Ran : Judged(b)' = Judged(b)
    BY <1>2, <1>6 DEF Judged, world
  <2>2. Judged(a)'
    BY <1>2, <1>5, <1>6 DEF Judged, world
  <2> QED
    BY <1>2, <1>4, <2>1, <2>2 DEF ScanInv, Running
<1>8. Running'
  BY <1>2, <1>4, <1>6, <1>7 DEF ScanInv, Running, world
<1> QED
  BY <1>2, <1>3, <1>8 DEF ScanInv

\* All adapters had their turn.
LEMMA EndStep == ScanInv /\ (Compose \/ Diagnose) => ScanInv'
<1> SUFFICES ASSUME ScanInv, Compose \/ Diagnose
             PROVE  ScanInv'
  OBVIOUS
<1>1. \A q : Valid(q)' = Valid(q)
  BY DEF Compose, Diagnose, world, Valid, Matches, Exists, HasPrefix, Folders, Caches, Owners
<1>2. /\ pc = "adapters" /\ pc' = "exit" /\ exit' \in {0, 3}
      /\ UNCHANGED <<world, todo, excludes, next, capacity, regions, recorded>>
  BY DEF Compose, Diagnose
<1>3. Ran = Adapters
  BY <1>2, OrderFacts DEF Compose, Diagnose, ScanInv, Running, Ran
<1>4. \A a : Judged(a)' = Judged(a)
  BY <1>2 DEF Judged, world
<1>5. /\ exit' = 0 /\ command = "scan" =>
           capacity = "Complete" /\ \A a \in Adapters : regions[a] # "Unmeasurable"
      /\ exit' = 0 /\ command # "scan" =>
           opened /\ \A a \in Adapters : regions[a] # "Unmeasurable"
  BY <1>2, <1>3 DEF Compose, Diagnose, Trouble, Ready, ScanInv, Running
<1>6. Ended'
  BY <1>2, <1>3, <1>4, <1>5 DEF ScanInv, Running, Ended, Document, world
<1>7. Given' /\ Checking' /\ Running'
  BY <1>1, <1>2 DEF ScanInv, Given, Checking, Running, world
<1> QED
  BY <1>2, <1>6, <1>7 DEF ScanInv

LEMMA ScanStep == ScanInv /\ [Next]_vars => ScanInv'
<1> SUFFICES ASSUME ScanInv, [Next]_vars
             PROVE  ScanInv'
  OBVIOUS
<1>1. CASE UNCHANGED vars
  BY <1>1 DEF ScanInv, Given, Checking, Running, Ended, Document, Ran, Judged,
     Valid, Matches, Exists, HasPrefix, Folders, Caches, Owners, vars, world
<1> QED
  BY <1>1, StartStep, ValidateStep, BeginStep, AdapterStep, EndStep DEF Next, Exited

-----------------------------------------------------------------------------
(* What the invariant says of a document                                   *)

\* An exclude that matches has to do with an enabled adapter.
LEMMA MatchConcerns ==
  ASSUME NEW p, Matches(p)
  PROVE  \E a \in enabled : Concerns(p, a) \/ \E r \in HomeRoots[a] : Overlaps(p, r)
<1>1. CASE HasPrefix /\ Below(p, Prefix)
  <2>1. Prefix \in RootsOf("homebrew")
    BY <1>1 DEF HasPrefix, RootsOf
  <2>2. Overlaps(p, Prefix)
    BY <1>1 DEF Below, Overlaps
  <2> QED
    BY <1>1, <2>1, <2>2 DEF Concerns, HasPrefix
<1>2. CASE \E a \in enabled : \E r \in HomeRoots[a] : Overlaps(p, r)
  BY <1>2
<1>3. CASE \E r \in Folders : Overlaps(p, r)
  <2>1. "docker" \in enabled /\ Folders \subseteq RootsOf("docker")
    BY <1>3 DEF Folders, RootsOf
  <2> QED
    BY <1>3, <2>1 DEF Concerns
<1>4. CASE \E r \in Caches : Overlaps(p, r)
  <2>1. "go" \in enabled /\ Caches \subseteq RootsOf("go")
    BY <1>4 DEF Caches, RootsOf
  <2> QED
    BY <1>4, <2>1 DEF Concerns
<1> QED
  BY <1>1, <1>2, <1>3, <1>4 DEF Matches

LEMMA InvNoSilentExclude == ScanInv => NoSilentExclude
<1> SUFFICES ASSUME ScanInv PROVE NoSilentExclude
  OBVIOUS
<1>1. ASSUME Document, NEW p \in requested
      PROVE  /\ p # Malformed /\ p \notin absent
             /\ \E a \in enabled : Concerns(p, a) \/ \E r \in HomeRoots[a] : Overlaps(p, r)
  <2>1. Valid(p)
    BY <1>1 DEF ScanInv, Given, Ended
  <2> QED
    BY <2>1, MatchConcerns DEF Valid, Exists
<1>2. exit = 2 => capacity = "none" /\ DOMAIN regions = {}
  BY DEF ScanInv, Ended
<1> QED
  BY <1>1, <1>2 DEF NoSilentExclude

LEMMA InvZeroIsClean == ScanInv => ZeroIsClean
<1> SUFFICES ASSUME ScanInv, Document, exit = 0
             PROVE  /\ opened \/ (command = "scan" /\ enabled = {})
                    /\ command = "scan" => capacity = "Complete"
                    /\ \A a \in Adapters : regions[a] = "ExcludedByUser" <=> a \notin enabled
                    /\ \A a \in enabled : regions[a] \in {"Complete", "NotPresent"}
  BY DEF ZeroIsClean
<1>1. \A a \in Adapters : Judged(a) /\ regions[a] # "Unmeasurable"
  BY DEF ScanInv, Ended
<1>2. \A a \in enabled : a \in Adapters
  BY DEF ScanInv, Given
<1>3. \A a \in enabled : opened /\ regions[a] \in {"Complete", "NotPresent"}
  BY <1>1, <1>2 DEF Judged, Statuses
<1>4. opened \/ (command = "scan" /\ enabled = {})
  BY <1>3 DEF ScanInv, Ended
<1>5. command = "scan" => capacity = "Complete"
  BY DEF ScanInv, Ended
<1> QED
  BY <1>1, <1>3, <1>4, <1>5 DEF Judged, Statuses

\* With explain beside them.
LEMMA CommandScanInit == CommandInit => ScanInv
<1> SUFFICES ASSUME CommandInit PROVE ScanInv
  OBVIOUS
<1>1. CASE Init
  BY <1>1, ScanInit
<1>2. CASE ScanIdle
  BY <1>2 DEF ScanIdle, ScanInv, Given, Checking, Running, Ended, Document
<1> QED
  BY <1>1, <1>2 DEF CommandInit

LEMMA CommandScanStep == ScanInv /\ [CommandNext]_commandVars => ScanInv'
BY ScanStep DEF CommandNext, commandVars, scanVars

\* SPEC.md:818: no document is produced under an exclude that is ill-formed, does
\* not exist or has nothing to do with an enabled adapter, for any arguments and
\* any number of them; a usage error comes before anything is measured.
THEOREM NoExcludeIsSilent == CommandSpec => []NoSilentExclude
BY InvNoSilentExclude, CommandScanInit, CommandScanStep, PTL DEF CommandSpec

\* SPEC.md:794-797: exit code 0 of scan and doctor means that everything asked for
\* was measured to the end or is not there.
THEOREM ZeroIsAlwaysClean == CommandSpec => []ZeroIsClean
BY InvZeroIsClean, CommandScanInit, CommandScanStep, PTL DEF CommandSpec
=============================================================================

------------------------------- MODULE RootOpen -------------------------------
(***************************************************************************)
(* Root::open, Root::capacity and Root::volume_has_snapshots of            *)
(* src/fsx/mod.rs over src/fsx/sys.rs, and the report src/capacity.rs      *)
(* makes of them.  Every system call is a step: between two of them other  *)
(* processes replace a directory by a symbolic link or back, the system    *)
(* evicts a directory of a cloud provider, and volumes come and go at      *)
(* their mount points.                                                     *)
(***************************************************************************)
EXTENDS Naturals

CONSTANTS
  Paths,          \* places a directory may be
  Mount,          \* Mount[p]: the mount point p lies on
  Volumes,        \* what may be mounted there
  CloudDirs,      \* the directories that belong to a cloud provider
  CloudSpellings, \* CloudSpellings[h]: what is written below HOME's two cloud
                  \* folders, for each HOME h the environment may hold
  Relative,       \* a root that is not a normalized absolute path
  AttrKinds,      \* which of size, used, free and normal are looked at
  Nothing,        \* a call failed
  MaxChanges      \* BOUND: what other processes change

ASSUME RootAssumption ==
  /\ CloudDirs \subseteq Paths
  /\ {Relative, "dir", "none"} \cap Paths = {}
  /\ Nothing \notin Volumes \cup Paths
  /\ MaxChanges \in Nat
  /\ DOMAIN Mount = Paths
  /\ AttrKinds \subseteq {"size", "used", "free", "normal"}
  /\ "used" \in AttrKinds
  /\ \A h \in DOMAIN CloudSpellings : CloudSpellings[h] \subseteq Paths

VARIABLES
  holds,        \* what is at each path: "dir", "none", or where a link leads
  mounted,      \* the volume at each mount point
  dataless,     \* the evicted directories
  changes,
  home,         \* the value of HOME
  policies,     \* the I/O policies in force for the process
  given, purpose, step,
  physical,     \* the canonical path
  attributes,   \* Root.volume: what getattrlist said of the volume
  identity,     \* Root.identity: the directory, and its volume
  failure,      \* the RootError
  fallback, important, opportunistic,   \* the answers capacity collects
  mount_root, snapshots,                \* volume_has_snapshots
  materialized  \* history: dataless objects a call brought back

system == <<holds, mounted, dataless, changes>>
pin == <<physical, attributes, identity>>
answers == <<fallback, important, opportunistic>>
listing == <<mount_root, snapshots>>
request == <<home, given, purpose>>
openVars == <<system, request, policies, step, pin, failure, answers, listing, materialized>>

\* install_read_policies sets, reads back and compares one after the other.
Policies == {"atime", "materialize", "trigger"}

MountPoints == {Mount[p] : p \in Paths}
VolumeAt(p) == mounted[Mount[p]]

\* Where a path leads; longer chains of links count as a loop.
Follow(p) == IF holds[p] \in Paths THEN holds[p] ELSE p
Resolve(p) == Follow(Follow(p))

\* A call on a dataless directory brings it back, or fails with EDEADLK when
\* the policy forbids it.
BringsBack(p) == IF p \in dataless /\ "materialize" \notin policies THEN {p} ELSE {}

OpenInit ==
  /\ holds \in [Paths -> {"dir", "none"} \cup Paths]
  /\ \A p \in CloudDirs : holds[p] = "dir"
  /\ mounted \in [MountPoints -> Volumes]
  /\ dataless \in SUBSET CloudDirs
  /\ changes = 0
  /\ home \in DOMAIN CloudSpellings
  /\ policies = {}
  /\ given \in Paths \cup {Relative}
  /\ purpose \in {"capacity", "snapshots", "report"}
  /\ step = "spelling"
  /\ physical = Nothing /\ attributes = Nothing /\ identity = Nothing
  /\ failure = "none"
  /\ fallback = Nothing /\ important = Nothing /\ opportunistic = Nothing
  /\ mount_root = Nothing /\ snapshots = Nothing
  /\ materialized = {}

\* No root is opened.
OpenIdle ==
  /\ holds = [p \in Paths |-> "dir"]
  /\ mounted = [m \in MountPoints |-> CHOOSE v \in Volumes : TRUE]
  /\ dataless = {} /\ changes = 0
  /\ home = CHOOSE h \in DOMAIN CloudSpellings : TRUE
  /\ policies = {}
  /\ given = Relative /\ purpose = "none" /\ step = "spelling"
  /\ physical = Nothing /\ attributes = Nothing /\ identity = Nothing
  /\ failure = "none"
  /\ fallback = Nothing /\ important = Nothing /\ opportunistic = Nothing
  /\ mount_root = Nothing /\ snapshots = Nothing
  /\ materialized = {}

-----------------------------------------------------------------------------
(* Root::open                                                              *)

Fail(reason) == step' = "failed" /\ failure' = reason

\* reject_cloud_root, which goes by the text of the path.
\* MUTANT of Cloudy: no path is compared with the folders below HOME.
NeverCloudy(p) == FALSE
Cloudy(p) == p \in CloudSpellings[home]

CheckSpelling ==
  /\ step = "spelling"
  /\ \/ given = Relative /\ Fail("NotNormalizedAbsolute")
     \/ given # Relative /\ Cloudy(given) /\ Fail("CloudRootExcluded")
     \/ given # Relative /\ ~Cloudy(given) /\ step' = "atime" /\ UNCHANGED failure
  /\ UNCHANGED <<system, request, policies, pin, answers, listing, materialized>>

\* MUTANT of After: the path is resolved once the first policy is in force.
ProbeEarly(policy) == "canonicalize"
After(policy) ==
  CASE policy = "atime"       -> "materialize"
    [] policy = "materialize" -> "trigger"
    [] policy = "trigger"     -> "canonicalize"

\* A policy that cannot be set, or does not read back, ends the open; it may
\* be in force all the same.
InstallPolicy ==
  /\ step \in Policies
  /\ \/ /\ policies' = policies \cup {step}
        /\ step' = After(step)
        /\ UNCHANGED failure
     \/ /\ policies' \in {policies, policies \cup {step}}
        /\ Fail("ReadPolicyVerificationFailed")
  /\ UNCHANGED <<system, request, pin, answers, listing, materialized>>

\* canonicalize follows every link; its result is compared again.
Canonicalize ==
  /\ step = "canonicalize"
  /\ materialized' = materialized \cup BringsBack(Resolve(given))
  /\ \/ Fail("PathUnresolvable") /\ UNCHANGED physical
     \/ /\ holds[Resolve(given)] = "dir"
        /\ physical' = Resolve(given)
        /\ \/ Cloudy(physical') /\ Fail("CloudRootExcluded")
           \/ ~Cloudy(physical') /\ step' = "volume" /\ UNCHANGED failure
  /\ UNCHANGED <<system, request, policies, attributes, identity, answers, listing>>

\* MUTANT of Object: getattrlist without FSOPT_NOFOLLOW and FSOPT_NOFOLLOW_ANY.
Followed(p) == Resolve(p)
\* What getattrlist looks at: a link at the end of the path is measured itself,
\* one further up is refused.
Object(p) == p

\* What getattrlist packs: filler bytes stand for what it did not return, and
\* the volume says which attributes and capabilities are valid at all.
VolumeAnswers(v) ==
  [of : {v}, returned : SUBSET AttrKinds, valid : SUBSET AttrKinds,
   shared : SUBSET {"capable", "valid"}]

\* sys::volume, whose failure is tolerated.  What it says is kept here where the
\* capacity will look at it.
ReadVolume ==
  /\ step = "volume"
  /\ \/ attributes' = Nothing
     \/ /\ holds[Object(physical)] # "none"
        /\ purpose = "capacity"
        /\ attributes' \in VolumeAnswers(VolumeAt(Object(physical)))
  /\ step' = "identity"
  /\ UNCHANGED <<system, request, policies, physical, identity, failure,
                 answers, listing, materialized>>

\* sys::identity pins what it finds at the canonical path.
ReadIdentity ==
  /\ step = "identity"
  /\ \/ /\ holds[Object(physical)] # "none"
        /\ identity' = [dir |-> Object(physical), volume |-> VolumeAt(Object(physical))]
        /\ step' = "pinned"
        /\ UNCHANGED failure
     \/ /\ \/ Fail("IdentityUnavailable") \/ Fail("PathUnresolvable")
           \/ holds[physical] \in Paths /\ Fail("SymlinkTraversalRejected")
        /\ UNCHANGED identity
  /\ UNCHANGED <<system, request, policies, physical, attributes,
                 answers, listing, materialized>>

Open == CheckSpelling \/ InstallPolicy \/ Canonicalize \/ ReadVolume \/ ReadIdentity

-----------------------------------------------------------------------------
(* Root::capacity.  statfs follows links, and nothing ties what it answers to *)
(* the identity.                                                           *)

\* Block counts times block size may not fit.
Filesystem ==
  /\ step = "pinned"
  /\ purpose = "capacity"
  /\ \/ /\ holds[Resolve(physical)] = "dir"
        /\ fallback' \in [of : {VolumeAt(Resolve(physical))}, fits : SUBSET AttrKinds]
        /\ step' = "important"
     \/ /\ fallback' = Nothing
        /\ step' = "reported"
  /\ UNCHANGED <<system, request, policies, pin, failure, important, opportunistic,
                 listing, materialized>>

\* What CoreFoundation supplies, if anything; it looks at the link itself or
\* at where it leads.
Supplied == {Nothing, VolumeAt(physical), VolumeAt(Resolve(physical))}

ImportantCapacity ==
  /\ step = "important"
  /\ important' \in Supplied
  /\ step' = "opportunistic"
  /\ UNCHANGED <<system, request, policies, pin, failure, fallback, opportunistic,
                 listing, materialized>>

OpportunisticCapacity ==
  /\ step = "opportunistic"
  /\ opportunistic' \in Supplied
  /\ step' = "reported"
  /\ UNCHANGED <<system, request, policies, pin, failure, fallback, important,
                 listing, materialized>>

Present(k) == attributes # Nothing /\ k \in attributes.returned \cap attributes.valid

\* capacity_values: where a number comes from and whose it is, or Nothing.
Estimate(k) ==
  IF k \in fallback.fits THEN [basis |-> "statfs", of |-> fallback.of] ELSE Nothing
Property(supplied) ==
  IF supplied = Nothing THEN Nothing ELSE [basis |-> "property", of |-> supplied]
SharedContainer == attributes # Nothing /\ attributes.shared = {"capable", "valid"}

Value(k) ==
  CASE k = "container"     -> IF SharedContainer THEN Estimate("used") ELSE Nothing
    [] k \in AttrKinds     -> IF Present(k) THEN [basis |-> "attribute", of |-> attributes.of]
                             ELSE Estimate(k)
    [] k = "important"     -> Property(important)
    [] k = "opportunistic" -> Property(opportunistic)

Kinds == AttrKinds \cup {"container", "important", "opportunistic"}

\* measure: what is measured at all; the report is complete when all of it is.
Measured == IF fallback = Nothing THEN {} ELSE {k \in Kinds : Value(k) # Nothing}

-----------------------------------------------------------------------------
(* Root::volume_has_snapshots                                              *)

\* statfs tells the mount point and the volume.
StatMount ==
  /\ step = "pinned"
  /\ purpose = "snapshots"
  /\ \/ /\ holds[Resolve(physical)] = "dir"
        /\ mount_root' = [point |-> Mount[Resolve(physical)],
                          fsid |-> VolumeAt(Resolve(physical)), opened |-> Nothing]
        /\ step' = "mount_root"
     \/ /\ step' = "reported"
        /\ UNCHANGED mount_root
  /\ UNCHANGED <<system, request, policies, pin, failure, answers, snapshots, materialized>>

OpenMountRoot ==
  /\ step = "mount_root"
  /\ \/ /\ mount_root' = [mount_root EXCEPT !.opened = mounted[mount_root.point]]
        /\ step' = "list"
     \/ /\ step' = "reported"
        /\ UNCHANGED mount_root
  /\ UNCHANGED <<system, request, policies, pin, failure, answers, snapshots, materialized>>

\* MUTANT of SameVolume: fstatfs is not compared.
Trusting == TRUE
SameVolume == mount_root.opened = mount_root.fsid

\* The descriptor stays on the volume it was opened on.
ListSnapshots ==
  /\ step = "list"
  /\ \/ SameVolume /\ snapshots' = mount_root.opened
     \/ UNCHANGED snapshots
  /\ step' = "reported"
  /\ UNCHANGED <<system, request, policies, pin, failure, answers, mount_root, materialized>>

-----------------------------------------------------------------------------
(* The environment                                                         *)

\* What changes before the first look at the file system is in OpenInit.
Changing(changed) ==
  /\ step \notin {"spelling"} \cup Policies
  /\ changes < MaxChanges
  /\ changes' = changes + 1
  /\ changed
  /\ UNCHANGED <<request, policies, step, pin, failure, answers, listing, materialized>>

\* A directory is renamed away, or replaced by a link, or back.  What belongs
\* to the cloud provider stays where it is.
Swap(p) ==
  /\ p \notin CloudDirs
  /\ Changing(\E what \in {"dir", "none"} \cup Paths :
                 holds' = [holds EXCEPT ![p] = what] /\ UNCHANGED <<mounted, dataless>>)

Remount(point) ==
  Changing(\E v \in Volumes \ {mounted[point]} :
             mounted' = [mounted EXCEPT ![point] = v] /\ UNCHANGED <<holds, dataless>>)

Evict(p) ==
  /\ p \notin dataless
  /\ Changing(dataless' = dataless \cup {p} /\ UNCHANGED <<holds, mounted>>)

OthersAct ==
  \/ \E p \in Paths : Swap(p)
  \/ \E point \in MountPoints : Remount(point)
  \/ \E p \in CloudDirs : Evict(p)

Capacity == Filesystem \/ ImportantCapacity \/ OpportunisticCapacity
Snapshots == StatMount \/ OpenMountRoot \/ ListSnapshots

OpenNext == Open \/ Capacity \/ Snapshots \/ OthersAct

-----------------------------------------------------------------------------
Touched == step \notin {"spelling", "failed"} \cup Policies

OpenTypeOK ==
  /\ policies \subseteq Policies
  /\ physical \in Paths \cup {Nothing}
  /\ identity # Nothing => identity.dir \in Paths /\ identity.volume \in Volumes
  /\ mount_root # Nothing => mount_root.opened \in Volumes \cup {Nothing}
  /\ snapshots \in Volumes \cup {Nothing}

\* SPEC.md 3.2 and 3.2.1: no dataless object is ever brought back, whatever is
\* evicted while a root is opened and read, because no path is looked at before
\* every policy is in force (fsx/mod.rs:134-146, sys.rs:168).
NothingMaterialized ==
  /\ materialized = {}
  /\ Touched => policies = Policies

\* SPEC.md 3.2.1: a directory of the cloud provider is never pinned as a root,
\* even if the path is exchanged for a link after it was resolved; the home
\* directory is spelled the way it really is (fsx/mod.rs:138-150, 527-548).
HomeIsPhysical == CloudDirs \subseteq CloudSpellings[home]
CloudNeverPinned ==
  HomeIsPhysical /\ identity # Nothing => identity.dir \notin CloudDirs

\* SPEC.md:842: an answer about snapshots is about the volume the root was on
\* when its mount point was looked up, whatever is mounted there meanwhile
\* (sys.rs:284-303).
SnapshotsAreOfOneVolume ==
  snapshots # Nothing =>
    /\ snapshots = mount_root.fsid
    /\ changes = 0 => snapshots = identity.volume

\* The next three do not hold (README.md, section 6).
\* fsx/mod.rs:527: "so a symlink cannot lead in"; it can where HOME itself is
\* spelled with a link.
CloudNeverPinnedFromAnyHome == identity # Nothing => identity.dir \notin CloudDirs

\* All numbers of one report are of the volume that was pinned.
CapacityIsOfTheRoot ==
  step = "reported" /\ purpose = "capacity" =>
    \A k \in Measured : Value(k).of = identity.volume

\* The snapshots counted are those of the volume that was pinned.
SnapshotsAreOfTheRoot == snapshots # Nothing => snapshots = identity.volume
=============================================================================

------------------------------ MODULE StoreWalk ------------------------------
(***************************************************************************)
(* measure_store_as of src/adapters/store.rs over Root::children and       *)
(* Root::measure_object of src/fsx/mod.rs: the traversal behind every size *)
(* the program reports for a store.  The file system is not frozen while   *)
(* the program walks it: other processes move, link and unlink files and   *)
(* replace directories by symbolic links between any two system calls.     *)
(* A path is the sequence of its components.                               *)
(***************************************************************************)
EXTENDS Naturals, Sequences, FiniteSets, FiniteSetsExt, Functions, SequencesExt

CONSTANTS
  Paths,        \* every path that can hold something
  DirPaths,     \* those that hold a directory, a mount point or a link
  Store,        \* the directory being measured
  Excludes,     \* the user's excluded subtrees
  Objects,      \* files, identified by (fsid, fileid)
  Initial,      \* the file systems the walk may start in
  Outside,      \* <<name, kind>> a directory lists once it is a symbolic link
  Size,         \* logical size of each object
  Allocated,    \* allocated size, or Unknown where it was not returned
  Unknown,
  Behind,       \* [size, links] of what may lie behind a symbolic link
  MaxBytes,     \* BOUND: u64::MAX
  MaxChanges    \* BOUND: changes other processes make to the file system

ASSUME StoreAssumption ==
  /\ Store \in DirPaths
  /\ DirPaths \subseteq Paths
  /\ IsFiniteSet(Paths)
  /\ Paths \cup Excludes \subseteq Seq(UNION {Range(p) : p \in Paths \cup Excludes})
  /\ IsFiniteSet(Objects) /\ Objects \cap {"dir", "link", "mount", "none", "outside"} = {}
  /\ Initial \subseteq [Paths -> Objects \cup {"dir", "link", "mount", "none"}]
  /\ \A tree \in Initial : \A p \in Paths :
       IsStrictPrefix(Store, p) /\ tree[p] # "none" =>
         Front(p) \in DirPaths /\ tree[Front(p)] \in {"dir", "mount"}
  /\ Size \in [Objects -> Nat]
  /\ Behind \subseteq [size : Nat, links : Nat]
  /\ Allocated \in [Objects -> Nat \cup {Unknown}] /\ Unknown \notin Nat
  /\ MaxChanges \in Nat

None == "none"
Ids == Objects \cup {"dir", "link", "outside"}  \* what a path is measured as

VARIABLES
  node,       \* what each path holds: a file, "dir", "mount", "link" or None
  changes,    \* how often another process changed the file system
  pc,
  pending,    \* the stack of directories
  current,    \* the directory, then the entry, being looked at
  todo,       \* entries of the listing still to be handled, with their kind
  identity,   \* what getattrlist said the current entry is
  covered,    \* links of each object met so far
  logical,    \* st_size read for each object met
  links,      \* st_nlink read for each object met
  touched,    \* paths a system call was made for
  listed,     \* entries some listing returned
  done,       \* directories read and entries measured to the end
  disturbed,  \* paths another process changed since the walk began
  reached     \* objects that were inside, behind no link, at some moment

\* The last five are kept for the properties only: no guard reads them.
fs   == <<node, changes, disturbed, reached>>
tally == <<covered, logical, links>>
history == <<touched, listed, done>>
vars == <<fs, pc, pending, current, todo, identity, tally, history>>

Excluded(p) == \E e \in Excludes : IsPrefix(e, p)

\* The system calls refuse a path with a symbolic link in it.
Ancestors(p) == {q \in DirPaths : IsStrictPrefix(q, p)}
Holds(p) == IF p \in Paths THEN node[p] ELSE None
ThroughLink(p) == \E q \in Ancestors(p) : node[q] = "link"
Holders(o) == {p \in Paths : node[p] = o}
Zero == [i \in Ids |-> 0]

\* What the store holds in a file system: the paths inside it, and the objects
\* that are at one of them with no symbolic link on the way.
Inside(p) == IsPrefix(Store, p) /\ ~Excluded(p)
Held(tree) ==
  {o \in Objects : \E p \in Paths :
     Inside(p) /\ tree[p] = o /\ \A q \in Ancestors(p) : tree[q] # "link"}

Init ==
  /\ node \in Initial
  /\ changes = 0
  /\ pc = "pop"
  /\ pending = {Store}
  /\ current = Store
  /\ todo = {}
  /\ identity = None
  /\ covered = Zero /\ logical = Zero /\ links = Zero
  /\ touched = {} /\ listed = {} /\ done = {}
  /\ disturbed = {} /\ reached = Held(node)

-----------------------------------------------------------------------------
(* while let Some(directory) = stack.pop().  The stack's order is left     *)
(* open; an excluded directory is dropped without a system call.           *)

\* MUTANT of Popped: the directory stays on the stack.
PeekOnly(d) == pending
Popped(d) == pending \ {d}

Pop(d) ==
  /\ pc = "pop"
  /\ d \in pending
  /\ pending' = Popped(d)
  /\ current' = d
  /\ pc' = IF Excluded(d) THEN "pop" ELSE "check"
  /\ UNCHANGED <<fs, todo, identity, tally, history>>

\* The first `?` that fails ends the whole measurement.
\* MUTANT of AfterFailure: it ends the directory, and the walk goes on.
NextDirectory == "pop"
AfterFailure == "error"

Fail ==
  /\ pc' = AfterFailure
  /\ UNCHANGED <<fs, pending, current, todo, identity, tally, listed, done>>

\* Root::children, first half: the identity is read without following any
\* symbolic link, the mount boundary is enforced, the directory is no link.
CheckDirectory ==
  /\ pc = "check"
  /\ touched' = touched \cup {current}
  /\ IF Holds(current) = "dir" /\ ~ThroughLink(current)
     THEN /\ pc' = "read"
          /\ UNCHANGED <<fs, pending, current, todo, identity, tally, listed, done>>
     ELSE Fail

\* Second half: read_dir follows links, so a directory that was replaced in
\* between lists the entries of the link's target under its own path.
Kind(p) == IF node[p] \in {"dir", "mount"} THEN "directory" ELSE "other"

Children(d) == {p \in Paths : p # <<>> /\ Front(p) = d /\ node[p] # None}

Listing(d) ==
  IF node[d] = "link" \/ ThroughLink(d)
  THEN {<<Append(d, e[1]), e[2]>> : e \in Outside}
  ELSE {<<p, Kind(p)>> : p \in Children(d)}

ReadDirectory ==
  /\ pc = "read"
  /\ touched' = touched \cup {current}
  /\ \/ /\ Holds(current) \notin {"dir", "link"} \/ ThroughLink(current)
        /\ Fail
     \/ /\ Holds(current) \in {"dir", "link"}
        /\ todo' = Listing(current)
        /\ listed' = listed \cup {e[1] : e \in Listing(current)}
        /\ done' = done \cup {current}
        /\ pc' = "entries"
        /\ UNCHANGED <<fs, pending, current, identity, tally>>

\* MUTANTS of SkipEntry: only directories taken from the stack are checked
\* against the excludes; a mount point is left out quietly instead of failing
\* the measurement.
SkipPopped(p)     == FALSE
SkipMountPoint(p) == Excluded(p) \/ Holds(p) = "mount"
SkipEntry(p) == Excluded(p)

TakeEntry(e) ==
  /\ pc = "entries"
  /\ e \in todo
  /\ todo' = todo \ {e}
  /\ \/ SkipEntry(e[1]) /\ UNCHANGED <<pc, pending, current>>
     \/ /\ ~SkipEntry(e[1])
        /\ e[2] = "directory"
        /\ pending' = pending \cup {e[1]}
        /\ UNCHANGED <<pc, current>>
     \/ /\ ~SkipEntry(e[1])
        /\ e[2] = "other"
        /\ current' = e[1]
        /\ pc' = "attributes"
        /\ UNCHANGED pending
  /\ UNCHANGED <<fs, identity, tally, history>>

EntriesDone ==
  /\ pc = "entries"
  /\ todo = {}
  /\ pc' = "pop"
  /\ UNCHANGED <<fs, pending, current, todo, identity, tally, history>>

\* MUTANT of FollowsNoLink: getattrlist without FSOPT_NOFOLLOW_ANY.
FollowsLinks(p) == TRUE
FollowsNoLink(p) == ~ThroughLink(p)

\* Root::measure_object, first call: getattrlist.
ReadAttributes ==
  /\ pc = "attributes"
  /\ touched' = touched \cup {current}
  /\ IF Holds(current) \notin {None, "mount"} /\ FollowsNoLink(current)
     THEN /\ identity' = IF ThroughLink(current) THEN "outside" ELSE node[current]
          /\ pc' = "stat"
          /\ UNCHANGED <<fs, pending, current, todo, tally, listed, done>>
     ELSE Fail

SizeAt(i) == IF i \in Objects THEN Size[i] ELSE 0

\* MUTANT of NewLinks: a second path to the same object is not counted.
CountOnce(i) == [covered EXCEPT ![i] = 1]
NewLinks(i) == [covered EXCEPT ![i] = @ + 1]

\* Second call: symlink_metadata reads size and link count of whatever the path
\* leads to by now.  It refuses a link in the last component only: behind a
\* directory that was replaced by a link meanwhile it reads another object.
Read ==
  IF ThroughLink(current) THEN Behind
  ELSE IF Holds(current) = None THEN {}
  ELSE {[size |-> SizeAt(node[current]), links |-> Cardinality(Holders(node[current]))]}

\* Either way it counts as the identity of the first call, and the first
\* measurement of an identity is kept.
ReadMetadata ==
  /\ pc = "stat"
  /\ touched' = touched \cup {current}
  /\ \/ /\ Holds(current) = None \/ ThroughLink(current)
        /\ Fail
     \/ \E m \in Read :
          /\ covered' = NewLinks(identity)
          /\ IF covered[identity] > 0 THEN UNCHANGED <<logical, links>>
             ELSE /\ logical' = [logical EXCEPT ![identity] = m.size]
                  /\ links' = [links EXCEPT ![identity] = m.links]
          /\ done' = done \cup {current}
          /\ pc' = "entries"
          /\ UNCHANGED <<fs, pending, current, todo, identity, listed>>

-----------------------------------------------------------------------------
(* The totals, each over distinct objects, with checked addition.          *)

Met == {i \in Ids : covered[i] > 0}
LogicalTotal == SumFunctionOnSet(logical, Met)
AllocatedOf(i) == IF i \in Objects THEN Allocated[i] ELSE 0
Measurable == {i \in Met : AllocatedOf(i) # Unknown}
AllocatedTotal == SumFunctionOnSet([i \in Ids |-> AllocatedOf(i)], Measurable)

CeilingBytes == IF Measurable = Met THEN AllocatedTotal ELSE Unknown

\* The ceiling overflows unless an unknown size, in the order of identities,
\* came first; that order is left open.
Finish ==
  /\ pc = "pop"
  /\ pending = {}
  /\ \/ /\ LogicalTotal <= MaxBytes
        /\ AllocatedTotal <= MaxBytes \/ Measurable # Met
        /\ pc' = "measured"
     \/ /\ LogicalTotal > MaxBytes \/ AllocatedTotal > MaxBytes
        /\ pc' = "error"
  /\ UNCHANGED <<fs, pending, current, todo, identity, tally, history>>

Walk ==
  \/ \E d \in pending : Pop(d)
  \/ CheckDirectory \/ ReadDirectory
  \/ \E e \in todo : TakeEntry(e)
  \/ EntriesDone \/ ReadAttributes \/ ReadMetadata \/ Finish

-----------------------------------------------------------------------------
(* Other processes.                                                        *)

Change(new) ==
  /\ changes < MaxChanges
  /\ changes' = changes + 1
  /\ node' = new
  /\ disturbed' = disturbed \cup {p \in Paths : new[p] # node[p]}
  /\ reached' = reached \cup Held(new)
  /\ UNCHANGED <<pc, pending, current, todo, identity, tally, history>>

FilePaths == Paths \ DirPaths

Move(p, q) ==
  /\ node[p] \in Objects /\ node[q] = None
  /\ Change([node EXCEPT ![p] = None, ![q] = node[p]])

Link(p, q) ==
  /\ node[p] \in Objects /\ node[q] = None
  /\ Change([node EXCEPT ![q] = node[p]])

Unlink(p) ==
  /\ node[p] \in Objects
  /\ Change([node EXCEPT ![p] = None])

\* A directory below the store is moved away and a symbolic link takes its
\* place, or the directory comes back.
Swap(d) ==
  /\ node[d] \in {"dir", "link"}
  /\ Change([node EXCEPT ![d] = IF node[d] = "dir" THEN "link" ELSE "dir"])

Others ==
  \/ \E p, q \in FilePaths : Move(p, q) \/ Link(p, q)
  \/ \E p \in FilePaths : Unlink(p)
  \/ \E d \in DirPaths \ {Store} : Swap(d)

Ended == pc \in {"measured", "error"} /\ UNCHANGED vars

Next == Walk \/ Others \/ Ended

Spec == Init /\ [][Next]_vars

\* The walk is one thread of the program; it never waits for anybody.
FairSpec == Spec /\ WF_vars(Walk)

-----------------------------------------------------------------------------
TypeOK ==
  /\ node \in [Paths -> Ids \cup {"mount", None}]
  /\ changes \in 0..MaxChanges
  /\ pc \in {"pop", "check", "read", "entries", "attributes", "stat",
             "measured", "error"}
  /\ identity \in Ids \cup {None}
  /\ covered \in [Ids -> Nat] /\ logical \in [Ids -> Nat] /\ links \in [Ids -> Nat]
  /\ \A e \in todo : e[2] \in {"directory", "other"}
  /\ disturbed \subseteq Paths /\ reached \subseteq Objects

\* SPEC.md:817: no stat and no getattrlist for a path below an excluded one
\* (store.rs:89, 93).  The paths are compared as they are written: a call that a
\* symbolic link above leads elsewhere is not what this speaks of.
ExcludedUntouched == \A p \in touched : ~Excluded(p)

\* The measurement fails closed: a total is only reported when everything any
\* listing returned was measured, read as a directory, or excluded.  Nothing
\* that failed half-way is left out of a total (store.rs:92-105).
NothingSkipped ==
  pc = "measured" => \A p \in listed : p \in done \/ Excluded(p)

\* Whatever is counted, and every allocated size in the total, belongs to an
\* object that was in the store at some moment of the walk, at a path that is not
\* excluded, behind no link: replacing a directory by a link between two calls
\* adds no object to the store (fsx/mod.rs:177-182, 220-227).  Size and link count
\* come from the second call and are not covered by it.
OutsideNeverCounted ==
  covered["outside"] = 0 /\ Met \cap Objects \subseteq reached

\* What the store really holds.
LinksInside(o) == Cardinality({p \in Holders(o) : Inside(p)})
Present == {o \in Objects : LinksInside(o) > 0}
WhollyInside == {o \in Objects : Holders(o) # {} /\ \A p \in Holders(o) : Inside(p)}

\* When nobody changes the tree, each object is counted once however many hard
\* links lead to it, all its links in the store are found, and the interval
\* brackets what unlinking the store's files would free (SPEC.md:111-118).
QuietIsExact ==
  pc = "measured" /\ changes = 0 =>
    /\ Met \cap Objects = Present
    /\ \A o \in Present : covered[o] = LinksInside(o) /\ links[o] = Cardinality(Holders(o))
    /\ LogicalTotal = SumFunctionOnSet(Size, Present)
    /\ CeilingBytes # Unknown =>
         SumFunctionOnSet(Allocated, WhollyInside) <= CeilingBytes

\* Other processes only affect what they touch: a file that stayed where it was,
\* as did the directories above it, is counted at every one of its links, and the
\* ceiling covers it, whatever was moved, unlinked or swapped beside it while the
\* walk went on (store.rs:87-106).
Undisturbed(p) == p \notin disturbed /\ Ancestors(p) \cap disturbed = {}
StillLinks(o) == {p \in Holders(o) : Inside(p) /\ Undisturbed(p)}

StillIsCounted ==
  pc = "measured" =>
    /\ \A o \in Objects : Cardinality(StillLinks(o)) <= covered[o]
    /\ CeilingBytes # Unknown =>
         SumFunctionOnSet(Allocated, {o \in Objects : StillLinks(o) # {}}) <= CeilingBytes

\* DOES NOT HOLD: SPEC.md:437 has every read below the root refuse a symbolic
\* link anywhere in the path; the second call of measure_object does not
\* (fsx/mod.rs:183), so the size of another object is added to the total.
SizeIsOfTheObject ==
  pc = "measured" => \A o \in Objects \cap Met : logical[o] = Size[o]

\* Every walk ends: replaced directories cannot make it go round in circles.
WalkEnds == <>(pc \in {"measured", "error"})

\* Behind OutsideNeverCounted: no path inside holds what lies behind a link, what
\* is at hand is below the store, and what is being measured was reached there.
Upcoming == pending \cup {current} \cup {e[1] : e \in todo}

OutsideInv ==
  /\ node \in [Paths -> Objects \cup {"dir", "link", "mount", None}]
  /\ \A p \in Upcoming \cap Paths : IsPrefix(Store, p)
  /\ pc = "attributes" => ~Excluded(current)
  /\ Held(node) \subseteq reached
  /\ identity # "outside"
  /\ pc = "stat" => identity \in Ids /\ (identity \in Objects => identity \in reached)
  /\ DOMAIN covered = Ids
  /\ OutsideNeverCounted

\* The inductive invariant behind the first two: what the walk is looking at
\* was checked against the excludes, and whatever a listing returned is still
\* somewhere until it is done.
AtHand == IF pc \in {"check", "read", "attributes", "stat"} THEN {current} ELSE {}

WalkInv ==
  /\ ExcludedUntouched
  /\ \A p \in AtHand : ~Excluded(p)
  /\ pc \in {"pop", "check", "read", "measured"} => todo = {}
  /\ pc = "measured" => pending = {}
  /\ pc # "error" =>
       \A p \in listed :
         Excluded(p) \/ p \in done \cup pending \cup {e[1] : e \in todo} \cup AtHand

\* The inductive invariant behind QuietIsExact: while nobody changes the tree,
\* every path met is at one place of the walk, the links counted are the ones
\* measured, and a directory that was read was listed completely.
Waiting == {e[1] : e \in todo}

Placed ==
  /\ Store \in pending \cup AtHand \cup done \/ Excluded(Store)
  /\ pending \cup Waiting \cup AtHand \cup done \subseteq {Store} \cup listed
  /\ pending \cap Waiting = {} /\ pending \cap AtHand = {} /\ pending \cap done = {}
  /\ Waiting \cap AtHand = {} /\ Waiting \cap done = {} /\ AtHand \cap done = {}

Walked ==
  /\ \A p \in listed :
       p \in Paths /\ IsStrictPrefix(Store, p) /\ node[p] # None /\ Front(p) \in done
  /\ \A p \in done :
       /\ ~Excluded(p) /\ node[p] \notin {None, "mount"}
       /\ node[p] = "dir" => Children(p) \subseteq listed
  /\ \A e \in todo : e = <<e[1], Kind(e[1])>>

LookedAt ==
  /\ pc = "read" => node[current] = "dir" /\ ~ThroughLink(current)
  /\ pc \in {"attributes", "stat"} => Kind(current) = "other"
  /\ pc = "stat" => identity = node[current] /\ ~ThroughLink(current)

Tallied ==
  /\ covered \in [Ids -> Nat] /\ logical \in [Ids -> Nat] /\ links \in [Ids -> Nat]
  /\ \A i \in Ids : logical[i] = IF covered[i] > 0 THEN SizeAt(i) ELSE 0
  /\ \A o \in Objects :
       /\ covered[o] = Cardinality({p \in done : node[p] = o})
       /\ covered[o] > 0 => links[o] = Cardinality(Holders(o))

QuietInv ==
  /\ changes \in Nat
  /\ changes = 0 /\ pc # "error" =>
       node \in Initial /\ Placed /\ Walked /\ LookedAt /\ Tallied

\* The inductive invariant behind StillIsCounted: the same for the paths nobody
\* touched, in a tree where anything else may happen.
Steady(p) == p \in Paths /\ Undisturbed(p) /\ node[p] # None

SteadyAtHand ==
  Steady(current) =>
    /\ pc = "read" => node[current] = "dir" /\ ~ThroughLink(current)
    /\ pc \in {"attributes", "stat"} => Kind(current) = "other"
    /\ pc = "stat" => identity = node[current]

StillInv ==
  /\ \E tree \in Initial : \A p \in Paths \ disturbed : node[p] = tree[p]
  /\ pc # "error" => Store \in pending \cup AtHand \cup done \/ Excluded(Store)
  /\ \A e \in todo : Steady(e[1]) => e[2] = Kind(e[1])
  /\ SteadyAtHand
  /\ \A d \in done : Steady(d) =>
       /\ node[d] # "mount"
       /\ node[d] = "dir" => {p \in Children(d) : Undisturbed(p)} \subseteq listed
  /\ covered \in [Ids -> Nat]
  /\ \A o \in Objects :
       Cardinality({p \in done : Steady(p) /\ node[p] = o}) <= covered[o]
=============================================================================

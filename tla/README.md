# SizeTrail: a verification development in TLA+

SizeTrail (`src/`) reports how much storage developer toolchains use on macOS. It never writes. What
can go wrong in it is therefore not damage but a wrong report: a region that looks measured and is
not, a number counted twice, an exclude that did not take effect, a probe of another program that
hangs, runs once too often or hands over half an output. These modules state those properties,
model-check them with TLC on small instances, and prove the most important ones with TLAPS for every
instance.

Paths below are relative to the repository. Every module names the functions it models; the exact
lines of each definition are in `PROJECT.json` under `map`.

## 1. The system and what makes it correct

| Component | State it keeps | Operations | What is hard | Correct when |
|---|---|---|---|---|
| Policy, probe runner (`policy.rs`) | calls per probe; one child, two pipes, two reader threads | `reserve`, `run`, `read_all`, `join_output`, `terminate` | processes, threads, pipes, deadline | declared and enabled probes only, within their limits; no process left behind; no truncated output; every call returns |
| File-system reads (`fsx/`) | an opened root and its identity | `open`, `children`, `measure_object`, `path_exists_without_descending` | two system calls per answer, others change the tree between them | policies before the first look; no cloud directory pinned; nothing behind a link taken for what is in front of it, no mount point crossed, excluded paths untouched |
| Capacity, snapshots (`fsx/`, `capacity.rs`) | the volume's attributes, as read when the root was opened | `capacity`, `measure`, `volume_has_snapshots` | four system calls and a mount table that changes | snapshots of one volume |
| Store walk (`adapters/store.rs`) | stack of directories, table of objects | `measure_store_as`, `expand_pattern` | long, and concurrent with every other process | fails closed; each object once; no object that never was there, and none lost that nobody touched |
| Disposition, vendor sizes (`model.rs`) | running totals | `estimate_disposition`, `rounded_bytes` | sharing, snapshots, unknown sizes, `u64` | the interval contains the truth; overflow only when real |
| Adapters: `xcode.rs`, `docker.rs`, `go.rs`, `homebrew.rs` | adapter state, inventory, gaps | `probe`, `inventory`, `classify`, `advise` | partial failure at every step; things listed that are gone when measured | nothing found is lost; the status says what happened; side effects only behind exact version pins |
| Homebrew version (`homebrew.rs`) | none | `read_version` | git writes while it reads | a reported version was current |
| Reports (`scan.rs`, `adapters/mod.rs`) | regions, gaps | `*_report`, `scan` | mapping reasons to statuses | a region is complete only when it is |
| Commands (`main.rs`) | arguments | `scan`, `doctor`, `explain`, `rules`, `completion`; `validate_excludes`, `read_snapshot` | five kinds of root, the order of checks; a report file that is evicted or replaced while it is read | no exclude without effect; exit codes; absence is only claimed when proved |
| Rules (`rules/`) | data compiled in | `builtin_rules` | none | they parse (a test) |

Interaction is by calls on one thread: `run` (main) opens a root, validates the excludes, then calls
one adapter after the other with the shared `PolicyCtx`; adapters call the probe runner and the file
system; `scan` composes their reports and the exit code follows from the regions. `doctor` runs the
same adapters for an exit code of its own; `explain` runs one of them again, or opens the parent of a
report as a root and reads that. Concurrency is of two kinds: the runner with its reader threads and its child, and the whole program with every other
process that changes files. `PROJECT.json` lists the hazards of each at their lines.

## 2. Plan and modules

In the order of importance.

| Module | Models | Uses |
|---|---|---|
| `ProbeContract` | abstract: what adapters may rely on of `run`: admitted or refused, one call at a time, one answer per call, at most `MaxCalls` starts | |
| `ProbeRunner` | `PolicyCtx::run` and `reserve`, with the child, a descendant of it, the pipes and the clock | refines `ProbeContract` |
| `StoreWalk` | `measure_store_as`, `children`, `measure_object` under concurrent change | |
| `Disposition` | `estimate_disposition` against a block-level reference definition | |
| `RoundedBytes` | `rounded_bytes` against the vendor's formatter | |
| `RootOpen` | `Root::open`, `capacity`, `volume_has_snapshots`, system call by system call | |
| `Reports` | probe answers, adapter states, gap reasons, region statuses | used by the four below |
| `XcodeAdapter`, `DockerAdapter`, `GoAdapter`, `HomebrewAdapter` | one region each, from its probe to its report | `Reports` |
| `HomebrewVersion` | `read_version` against git | |
| `ScanRun` | `scan` and `doctor`: excludes, order of adapters, document, exit codes | abstracts each adapter to a status and the excludes it records |
| `Explain` | `explain`, live and `--from` | `RootOpen` |
| `Commands` | the program: one command per process | `ScanRun`, `Explain` |
| `MC*` | the instances TLC checks; `MCSizes` puts `Disposition` and `RoundedBytes` in one run | |
| `*Proofs` | theorems: one module per component, except that `MeasurementProofs` covers `StoreWalk`, `Disposition` and `RoundedBytes`, `HomebrewProofs` both Homebrew modules, and `CommandsProofs` the modules `Commands` composes; `ReportsProofs` holds the lemmas two adapters and more rest on | |

How they fit: `ProbeRunner` is shown to implement `ProbeContract`; the adapters call probes through
`Reports!Possible`, which is what the contract lets a caller see (a disabled probe does not start,
one at its limit does not start again, anything else ends in one of four ways). A store that an
adapter measures is one step that either measures or fails, which is what `StoreWalk` shows of a walk
(`NothingSkipped`: no third outcome). `ScanRun` takes from each adapter a status of the kind its own
module produces.

`Explain` extends `RootOpen`: the parent of a report is opened by the very steps of `Root::open`, and
the same steps, on their own, stand for the root a capacity or a snapshot answer is read through.
`Commands` only says that a process runs one command. `ScanRun` still treats the opening of its root
as a Boolean: no property of `ScanRun` depends on how it fails.

Left, in this order:

1. Spelling of excludes (dot components, links in the argument, missing tail) in `ScanRun`.
2. `ScanRun` over `RootOpen` instead of a Boolean, if a property ever needs both.

## 3. From code to model

**ProbeRunner.** One action per step that another process can fall between: `Reserve`/`Refuse` are
`reserve` (the count goes up only when the call is admitted); `Spawn` starts the child and the two
reader threads; `PollExited`, `PollDeadline` and `PollError` are the arms of `try_wait`;
`Kill` and `Wait` are `terminate`, which waits even when the kill failed; `JoinStdout` and
`JoinStderr` are the joins, with the answer of the second; `Read`, `ReadEnd`, `ReadFails` are
`read_all`. `Write`, `Finish`, `Crash`, `Die`, `Bequeath`, `HeirCloses` and `Expire` are the
environment. `autoReap` is an inherited `SIGCHLD` that is ignored: the kernel then takes the exit
status away and `try_wait` fails. Output is counted in units; nothing depends on its bytes.

**StoreWalk.** `node` is the tree; a path is a sequence of names. `Pop`, `CheckDirectory`,
`ReadDirectory`, `TakeEntry`, `ReadAttributes`, `ReadMetadata` and `Finish` are the walk, each at
most one system call, so others may act between `getattrlist` and `read_dir`, or between
`getattrlist` and `symlink_metadata`. `Others` moves, links, unlinks and replaces directories by
links that lead outside. The first call refuses a link anywhere in the path; the second one only in
the last component, so that `Read` is what the path leads to by then: the file at hand, another one that
took its place, or one of `Behind`, what may lie behind a link. Its size and link count are kept under
the identity of the first call. The identity `"outside"` is what `getattrlist` would say of a path through a
link. The order of the stack and of the entries is left open, which only adds behaviours. `Children` is
what a directory holds. Two history variables are there for the properties: `disturbed`, the paths others
changed since the walk began, and `reached`, the objects that were in the store, behind no link, at some
moment. The floor a walk reports is 0, because `measure_store_as` passes `false` for stable snapshots;
floors are the subject of `Disposition`.

**Disposition.** `DispositionInit` chooses a world of blocks, links and snapshots and the sizes the system
reports of it (or withholds); `Observe` is one turn of the loop; `Freed` is the reference: the blocks
nothing refers to any more once every observed path is unlinked. `ByteLimit` stands for `u64::MAX`, and
`NotReturned` for a size the system withholds.

**RoundedBytes.** `PrintSize` is the vendor: it picks the unit, rounds to its digits, and drops trailing
zeros (`HumanSize`, from how its output is parsed); `RoundedBytes` is the function, with the overflow
of each of its intermediate results. `Units` is its table of units, `Tens` its `checked_pow`. Half a unit of the last digit may round either way.

**RootOpen.** One action per system call. `CheckSpelling` is the check of the text; `InstallPolicy` is
one turn of the loop of `install_read_policies`, which ends the open when a policy cannot be set or
does not read back; `Canonicalize` resolves and compares again; `ReadVolume` tolerates its failure,
`ReadIdentity` does not. `Filesystem`, `ImportantCapacity` and `OpportunisticCapacity` are the calls of
`capacity`, `Value` is `capacity_values`; `StatMount`, `OpenMountRoot` and `ListSnapshots` are
`snapshot_count`. `holds` says what is at each place, a link being the place it leads to; `Swap`,
`Remount` and `Evict` are the environment. A place of the cloud provider is a place that is a cloud
directory whatever it is called; `CloudSpellings` says what the two folders below HOME look like as
text. A number is modelled by where it comes from and whose it is. What changes before the first look
at the file system is in `OpenInit`, which allows every state.

**Explain.** `Rescan` is the owning adapter: complete, it tells what is there; otherwise it may lack
it, and it never makes anything up, as the modules of the adapters show. One adapter (`Silent`) can be
complete and lack what is there: a cache of Go outside HOME that the system denies is passed over like
one that does not exist (`go.rs:231`, `GoAdapter!AsRoot`), which `denied` remembers. `exists` goes up and
down meanwhile, and `seen` remembers. `Gate`, `CheckDataless` and `ReadReport` are the two calls of
`measure_object` and the read, between which `Touch` replaces, evicts or links the report.

**Adapters.** One action per stage of `inventory`, with every failure the stage can meet. What is
there to be found is chosen in `Init`, or at the listing when it may change; `seen` and `touched` are
history variables for the properties. `Report` is the whole of `*_report`: excludes, then status.
Gap ids, the order of gaps, advice and warnings are left out, and of the gaps for excludes only what
the status and the properties need: `GoAdapter!Report` records the excluded caches. The directories below
a cask are one level. In `DockerAdapter`, `Edit` changes the
configuration at any moment before the report, which reads it a second time.

**HomebrewVersion.** One action per file read. git is external: it commits, packs (first writes
packed-refs, then removes the loose file), and checks out.

**ScanRun.** `Start` to `Compose` follow `run`, `Start`, `Probe` and `Diagnose` follow `doctor`.
`Validate` takes the requested excludes in any order; the code takes them in the order given and stops
at the first that is wrong, and the outcome (which are accepted, or exit code 2) is the same. `folder`
and `caches` are what the configuration says at that moment; a report reads it again for every exclude
and may find anything else (`Readings`, `Recordings`).

## 4. Runs

| Run | Shows | Instance, and why it is enough |
|---|---|---|
| `ProbeRunner` | the runner's safety properties, that it implements `ProbeContract`, that calls return, that full pipes do not block | two declared probes of two families (disabling one must not disable the other), limit 1 as every entry of the registry, one undeclared id; pipes of one unit and outputs of up to two, so that a pipe is full, empty and in between |
| `StoreWalk` | a walk fails closed, stays out of excludes, counts nothing that never was in the store, loses nothing that stayed where it was, is exact when quiet, ends | two files with known and unknown sizes, hard links inside, outside and in an excluded directory, a directory that may be a mount point, another object behind a link, two concurrent changes: one before and one after any step |
| `Sizes` | the interval of a disposition contains the truth, and so do the bounds of a rounded size | two files, two blocks, two links: all sharing patterns; `ByteLimit` 3, so that the sum of the four block references overflows. Units of a hundred and three digits for units of a thousand and four: the longest number has one digit after the point in both; sizes across all three units, so that rounding carries into the next; `Limit` in the same proportion to the largest unit as `u64::MAX`, so that it is reached |
| `XcodeAdapter` | simctl is pinned, nothing is lost, statuses are honest | two verified versions with different pins (so a pin of the other version is possible) and one unknown; two devices, one runtime of each kind |
| `DockerAdapter` | the daemon is pinned, rows all or none, the right image | default and configured folder, both images in each, excludes above, at and below them, one edit of the configuration |
| `GoAdapter` | no guess, no cache lost | both programs, both caches, in Home or elsewhere, absent, denied or there |
| `HomebrewVersion` | the version was current | three commits, four changes: enough for pack, advance, prune and checkout between the reads |
| `HomebrewAdapter` | nothing lost on either side, escapes disclosed | a store of each kind, a keg with its receipt, a cask with a directory inside; two of the four I/O errors (they differ only in the reason copied) |
| `Commands` | no silent exclude, exit code 0 is clean; policies before probes, no cloud root, snapshots of one volume; absence is proved | any subset of adapters, one that misses what is denied, custom folder and cache on another volume, up to two excludes inside, above and beside the roots; two places, one of a cloud provider, on two mount points with two volumes; HOME spelled as it is or through a link; a report file in either place; two changes: one before and one after any call |
| `ProbeRunner_hard_timeout`, `DockerAdapter_denied`, `HomebrewAdapter_touched` | the divergences 1 to 3 of section 6 | smallest instances that show them |

`Sizes` is the only run without deadlock checking: its functions return and that is the end. The other
modules end in a step that repeats the final state. Each module has a type invariant; that of
`ProbeRunner`, which a wrong count would break, is listed as a property. The others only say that
variables have their types and are kept as documentation (TLC confirms them), as it does the inductive
invariants of section 5. Every property is shown to depend on the code by a mutant, an operator that
stands before the definition it would replace, marked `MUTANT of`.

### Fairness

`ProbeRunner!FairSpec` assumes what the operating system guarantees: the runner and the readers are
scheduled, and a pending SIGKILL takes effect. It assumes nothing of the child, of its descendants or
of time. A property that needs those says so as a premise: `CallsReturn` needs time to pass and the
descendant to let go of the pipes some day; `NoPipeDeadlock` needs the child to keep writing and to
exit, but not the deadline. `StoreWalk!FairSpec` schedules the walk, which is one thread and waits
for nobody; the other processes are under no obligation. All other modules only state safety.

## 5. Proofs

| Theorem | States |
|---|---|
| `ProbeRunnerProofs!TypeCorrect` | `Spec => []TypeOK` |
| `Inductive` | `Spec => []IInv` |
| `NothingLeft`, `WholeOutput`, `CleanTimeout`, `KillsAreLate` | the safety properties of `ProbeRunner`, from `IInv` |
| `ImplementsContract` | `Spec => ContractSpec`: the refinement |
| `MeasurementProofs!WalkInvariant`, `ExcludesHold`, `FailsClosed` | of `StoreWalk`: `WalkInv`, and the two properties that follow |
| `OutsideIsNeverCounted` | `Spec => []OutsideNeverCounted`, from `OutsideInv` |
| `QuietInductive`, `QuietIsAlwaysExact` | `Spec => []QuietInv`, and that the totals of a walk nobody disturbs are exact |
| `StillInductive`, `StillIsAlwaysCounted` | `Spec => []StillInv`, and that a file nobody touched is counted whatever happens beside it |
| `DispositionInductive`, `IntervalsBracketTruth`, `OverflowsAreReal` | `DispositionInv`, and the two properties of `Disposition` |
| `RoundedInductive`, `RoundedBracketsAlways` | `RoundedInv`, and the property of `RoundedBytes` |
| `HomebrewProofs!VersionInductive`, `CurrentVersion` | `VersionInv`, and that a reported version was current |
| `BrewInductive`, `NothingIsLost`, `StatusIsAlwaysHonest`, `EscapesAreAlwaysDisclosed` | `BrewInv`, and the three properties of `HomebrewAdapter` |
| `XcodeAdapterProofs!SimctlIsAlwaysPinned`, `NothingIsLost`, `StatusIsAlwaysHonest`, `IdentityIsAlwaysVouched`, `ExcludedIsUntouched` | the five properties of `XcodeAdapter`, from `XcodeInv` |
| `DockerAdapterProofs!DaemonIsAlwaysPinned`, `DaemonIsAllOrNothing`, `ImageIsRight`, `DiskIsNotLost` | the four properties of `DockerAdapter`, from `DockerInv` |
| `GoAdapterProofs!NothingIsGuessed`, `NoCacheIsLost`, `HomeDenialIsAlwaysVisible` | the three properties of `GoAdapter`, from `GoInv` |
| `CommandsProofs!NothingIsMaterialized`, `AbsenceIsAlwaysProved`, `CloudIsNeverPinned`, `SnapshotsAreAlwaysOfOneVolume`, `NoExcludeIsSilent`, `ZeroIsAlwaysClean` | the six properties of the run `Commands`, of `CommandSpec` |

They hold for every value of the constants that satisfies the named `ASSUME` of the module
(`RunnerAssumption`: a limit and a family for each declared probe and pipes of at least one unit;
`StoreAssumption`: there are finitely many paths and objects, a path is a sequence of names, the trees
the walk may start in are trees as far as they lie in the store, sizes are numbers, an unknown one is
not, and no object is called `"outside"`; `DispositionAssumption`: finitely many files, numbered in the
order the code visits them, and blocks, and the size that was not returned is no number;
`RoundedAssumption`: the digits are enough for a number below one unit of the next, and for every size
in the largest unit; `VersionAssumption`: the special contents are no commits; `HomebrewAssumption`:
each keg has a receipt and each cask its directories, and a failed read gives one of the I/O reasons; `DockerAssumption`: paths are sequences of
names; `XcodeAssumption`: stores, devices, runtimes and listed junk are different things;
`RootAssumption`: mount points, cloud folders and spellings are about the places there are, and used
space is among the attributes; `ExplainAssumption` and `ScanAssumption`: the special values are
special); the bounds of the runs are not assumed.

Why the properties of the runner need a strengthening: `NothingLeftRunning` speaks of the return
only, but what makes it true is which states of the child are possible at each earlier stage
(`Stages`), and why the loop was left: an exit status was seen, the deadline passed, or `try_wait`
failed, which only happens once the child is gone (`Attribution`). `OutputIsWhole` rests on what a
finished reader knows: end of file is only seen when nobody holds the write end, so the child has
ended, there is no heir and all that was written was read (`Drained`); `Established` carries that from
the first join to the answer. `InductiveStep` has one step per action. The refinement uses `Admission`
(an admitted call is below its limit) and maps every step inside a call to a stutter.

`WalkInv` says of every entry ever listed where it is now: done, excluded, pending, among the entries
at hand, or the one being read; and that this one was tested. Since `Others` changes the tree but not
the walk's own lists, the proof is short and holds for any tree and any change.

`VersionInv` says that every reference git left in a file has been pointed to, the packed one too,
because packing precedes removal.

`QuietInv` is about the walk as long as `changes` is 0. The tree is then the one it started in, and the
invariant says four things of it: every path met is in one place only (done, excluded, pending, at
hand), since a path is met when the one directory above it is read, and that happens once (`Placed`); a
directory that was read had all its entries listed (`Walked`); what the system calls said is still true
of the entry at hand (`LookedAt`); and each object's count is the number of its paths that are done
(`Tallied`). That the answer then is exact (`EverythingMet`) takes the shortest path of the store that
was never met: the directory above it was met, therefore read, therefore it was listed.

`DispositionInv` says that each bound is, after every observation, the total of the known sizes that
count for it (`Freeable`, `Observed`), which needs that the sizes say the truth where they say anything
(`WorldInv`). The interval then holds the truth because what is freed of a set of files is at least
their private blocks (`FreedIsBetween`, the private blocks of two files being disjoint) and at most all
their blocks, and an overflow is real because every partial total is at most the total of all blocks
(`TotalsBounded`).

`StillInv` carries the same argument through any number of changes, for the paths nobody touched: such a
path still holds what the tree the walk started in has there, so a directory among them that was read had
all its untouched entries listed, with their right kind; what the first call says of one is true, since no
directory above it was replaced (`ReadStill`); and at most as many of an object's untouched paths are done as
links were counted for it (`MetadataStill`). That every one of them is done at the end takes, again, the
shortest one that was never met (`SteadyMet`).

Totals are `SumFunctionOnSet` of the community modules, a fold over a set. The first section of
`MeasurementProofs` proves what is needed of it (it does not depend on the order, grows with the set, adds
over disjoint sets). The library's induction rules take an operator and cannot be used here; the proofs
take a minimal counterexample instead, with `WFMin` on the strict subsets of a finite set (`Minimal`). The
powers of `RoundedBytes` are recursive functions; that a table of all of them exists, is unique and
multiplies when exponents are added is proved by the same means (`PowersExist`, `PowersAgree`,
`PowerSum`).

`RoundedInv` only says that what was printed is a print of the size and that the bounds are the answer
for it. The argument is arithmetic: `PrintedIs` (the unit is the largest one the size reaches, a
formatter with this many digits has room for the number, and dropping zeros divides by a power of ten);
`ZerosCancel` (half a unit of the digits rounded is at most one unit of the digits printed);
`QuotientsBracket` (the two divisions round outward); and `RefusedIsLarge` (all that must fit is at most
the size times `Tens[Digits]`).

`BrewInv` follows everything found to its end, as in the other adapters: it is an item, still to do, or
there is a gap about it (`Accounted`); whatever could not be learnt on either side of the prefix has left
its gap before the rules are expanded (`Admitted`); and a link that leaves a reported cask is disclosed, or
the cask is being searched and the link's directory, or the cask itself, is still on the stack (`Sought`).

`OutsideInv` adds to the property that whatever is at hand lies below the store, and that the objects
inside are among those `reached`: what `getattrlist` finds at an entry, following no link, then is one of
them, whatever became of the path before the second call.

The adapters: `DockerInv` (`Asked`, `Listed`, `Chosen`, `Kept`, `Final`), `XcodeInv` (`Behind`, `Spared`,
`Handled`, `Sound`, `Explained`) and `GoInv` (`Typed`, `Unguessed`, `Accounted`, `Final`) say of each stage
what was already learnt. That nothing is lost speaks of the end only; the invariant follows each thing
from the listing that named it: it is still to do, it is an item, it was excluded, or there is a gap
about it, and gaps are never taken back (`UnmeasuredGrows`). That the status is honest needs besides
that the reasons the code uses are failures and that an exclude is none (`ReasonsAreFailures`,
`ExclusionsDoNotCount`). That the right image is chosen needs that the folder was named by some reading
of the configuration, however often it is edited (`Chosen`).

`CommandsProofs` has four invariants, each for one question. `PolicyInv`: at each stage the policies
before it are in force, so that when a path is first looked at all are, and nothing dataless can be
brought back later since policies are never taken away. `Told`: explain ends in an answer only with what
the rescan found, and a complete rescan found what was there unless that was denied to an adapter which
is silent about it. `RootInv`: what belongs to the cloud stays a directory and, with HOME spelled the
way it is, never becomes the canonical path, therefore not what a look that follows no link can pin; the
answer of `snapshot_count` is of the volume that was looked up, and of the pinned one while nothing
changed. `ScanInv`: an accepted exclude is valid, and the regions up to the adapter whose turn it is are
what the command line and the root make of them.

Every safety property of the passing runs is a theorem. Model-checked only: the liveness properties
`CallsReturn`, `NoPipeDeadlock` and `WalkEnds`, which TLAPS does not handle under fairness. The
divergences of section 6 are counterexamples TLC finds.

## 6. Where the code and its documents differ

Runs that show a violation:

1. `ProbeRunner!TimeoutIsHard` (`src/policy.rs:337`). After a timeout the child is killed and reaped,
   and then the readers are joined. A descendant that holds a pipe keeps `run` waiting for ever, and
   no document is produced. SPEC.md:587 asks for a hard timeout.
2. `DockerAdapter!DeniedIsNotAbsent` (`src/scan.rs:338`). Without a docker program, a data folder the
   system denies still yields `not_present`. SPEC.md:1101.
3. `HomebrewAdapter!ExcludedUntouched` (`src/adapters/homebrew.rs:577`). The search of a cask lists
   excluded directories. SPEC.md:817. With the receipt of a keg or `"git"` in `Excludable`, TLC
   finds that they are read too (`homebrew.rs:525`, `453`).

Stated in the modules and refuted by TLC as well, without a run of their own:

4. `DockerAdapter!ExcludedUntouched` (`src/adapters/docker.rs:194`, `src/scan.rs:445`). The default
   folder is looked for, and the configuration is read again for the report, whatever is excluded.
   SPEC.md:817.
5. `DockerAdapter!StatusIsExplained` (`src/adapters/docker.rs:84`). An unknown version or a refused
   context makes the region unmeasurable and leaves no gap. README.md:24.
6. `GoAdapter!DenialIsVisible` (`src/adapters/go.rs:231`, `src/fsx/mod.rs:148`). A cache outside the
   home directory that the system denies counts as absent. SPEC.md:226.
7. `HomebrewVersion!VersionIsNeverOlder` (`src/adapters/homebrew.rs:478`). A loose reference that
   exists and cannot be read is treated like one that does not exist. SPEC.md:953.
8. `ScanRun!ExclusionIsRecorded` (`src/scan.rs:436`). An exclude above a root of Docker or Go takes
   effect and is not recorded; nor is one inside a folder or cache that the configuration has stopped
   naming by the time the report is made. SPEC.md:819.
9. `ScanRun!CoveringIsAccepted` (`src/main.rs:767`). An exclude that covers a custom folder, or a
   cache outside Home, is refused because no opened root can look it up. SPEC.md:818.
10. `DockerAdapter!SkippedIsRecorded` (`src/scan.rs:445`). The report reads the configuration again to
    see which excludes concern Docker; edited in between, a folder that was passed over for its exclude
    is not on record. SPEC.md:819.
11. `RootOpen!CloudNeverPinnedFromAnyHome` (`src/fsx/mod.rs:144`, `529`). The physical path is compared
    with folders below HOME as HOME is spelled. Where HOME is reached through a link, a link into the
    cloud folder is not recognized. SPEC.md:251-254.
12. `RootOpen!CapacityIsOfTheRoot`, `SnapshotsAreOfTheRoot` (`src/fsx/mod.rs:298`, `310`). Both look the
    path up again by name, and nothing compares the volume they find with the identity that was
    pinned: after a remount, or once a directory on the way is replaced by a link, the numbers are of
    another volume, and those of one report may be of two.
13. `Explain!DisappearanceIsTold` (`src/main.rs:546`). When the toolchain itself is gone the region is
    not present, and explain answers `rescan_unmeasurable`. SPEC.md:807.
14. `Explain!GatedFileIsRead`, `CloudFileNotRead` (`src/main.rs:600`). The gate looks at the name, which
    may be a link; the read follows it, to a file that was never looked at, below the cloud folder too.
    An evicted one is not brought back, because of the policy (`NothingMaterialized`). SPEC.md:897.
15. `Explain!GoneWasGone` (`src/main.rs:546`). A cache of Go outside the home directory that the system
   denies (item 6) is missing from a complete region, and explain answers `not_found_after_rescan` although
   it never was absent. SPEC.md:807.
16. `StoreWalk!SizeIsOfTheObject` (`src/fsx/mod.rs:183`). The second call of `measure_object` follows a
   link above the last component: once a directory is replaced by one between the two calls, the size and
   the link count of another object, outside the store perhaps, are counted under the identity of the
   first. SPEC.md:437.

## 7. Not modelled

- Rules as data: the built-in rules are compiled in and a test fixes that they parse, so
  `RuleSetInvalid` cannot be met.
- The decoding of `getattrlist` buffers (`Cursor` in `fsx/sys.rs`): unsafe code against the ABI of the
  macOS kernel. Its failures are failures of the calls in `RootOpen` and `StoreWalk`.
- The amounts of the capacity report: where each comes from is modelled, not how many bytes it is.
- Gap and finding ids, the order of the document, summaries, advice, warnings, human output, shell
  completion: wording and sort keys.
- The flags the second call of `measure_object` reads (dataless withholds the allocated size): in
  `StoreWalk` an object has an allocated size or has none.
- What the receipt of a keg says (`installed_on_request`): a detail of a finding. That it is read is
  modelled.
- The spelling of an exclude: an argument is the physical path it stands for, or malformed
  (section 2).
- `rules` and `completion`: they print data compiled in.
- CI, scripts and documentation generators.

--------------------------- MODULE HomebrewAdapter ---------------------------
(***************************************************************************)
(* homebrew_report of src/scan.rs and src/adapters/homebrew.rs: no command *)
(* is run.  A prefix is found, opened as a root of its own, the stores on  *)
(* either side of it are expanded and measured, and every cask is searched *)
(* for links that leave the prefix.  The version (module HomebrewVersion)  *)
(* is either read or not.                                                  *)
(***************************************************************************)
EXTENDS Reports, Sequences

CONSTANTS
  HomeStores, Taps, Kegs, Casks,  \* paths the rules of each kind can match
  Inner,                          \* Inner[c]: the directories inside cask c
  Receipt,                        \* Receipt[k]: the INSTALL_RECEIPT.json of keg k
  Errors,                         \* BOUND: the I/O errors told apart
  Excludable                      \* BOUND: what the user may exclude

ASSUME HomebrewAssumption ==
  /\ DOMAIN Inner = Casks
  /\ DOMAIN Receipt = Kegs
  /\ Errors \subseteq IoReasons
  /\ Excludable \subseteq HomeStores \cup Taps \cup Kegs \cup Casks \cup
                          (UNION {Inner[c] : c \in Casks}) \cup
                          {Receipt[k] : k \in Kegs} \cup {"git"}

\* What discover_layout looks at: bin/brew, Cellar and Caskroom of both
\* prefixes, and the Cellar of the Intel repository.
ARM == "opt_homebrew"
INTEL == "usr_local"
Prefixes == {ARM, INTEL}
Parts == (Prefixes \X {"brew", "Cellar", "Caskroom"}) \cup {<<INTEL, "repositoryCellar">>}

NoLayout == [prefix |-> "none", cellar |-> "none"]
Stores == HomeStores \cup Taps \cup Kegs \cup Casks
Dirs == Casks \cup (UNION {Inner[c] : c \in Casks})
Receipts == {Receipt[k] : k \in Kegs}
GIT == "git"
CACHE_ROOT == "cache_root"

VARIABLES
  excludes,
  cacheRoot,    \* ~/Library/Caches/Homebrew: "there", "absent" or "denied"
  escaping,     \* directories of casks that hold a link leaving the prefix
  pc, layout, opened, snapshots, state,
  patterns, todo, stack, cask,
  items, gaps, status,
  seen, touched \* history: all that was found; all that was looked into

given == <<excludes, cacheRoot, escaping>>
found == <<layout, opened, snapshots, state>>
vars == <<given, found, pc, patterns, todo, stack, cask, items, gaps, status, seen, touched>>

Above(x) == {x} \cup {c \in Casks : x \in Inner[c]} \cup {k \in Kegs : x = Receipt[k]}
Excluded(x) == Above(x) \cap excludes # {}

Init ==
  /\ excludes \in SUBSET Excludable
  /\ cacheRoot \in {"there", "absent", "denied"}
  /\ escaping \in SUBSET Dirs
  /\ pc = "discover"
  /\ layout = NoLayout
  /\ opened = FALSE
  /\ snapshots = [home |-> FALSE, prefix |-> FALSE]
  /\ state = NotPresent
  /\ patterns = <<>> /\ todo = {} /\ stack = {} /\ cask = "none"
  /\ items = {} /\ gaps = {} /\ status = "none"
  /\ seen = {} /\ touched = {}

-----------------------------------------------------------------------------
Usable(p, facts) ==
  /\ <<p, "brew">> \in facts
  /\ \E part \in {"Cellar", "Caskroom"} : <<p, part>> \in facts

\* The Cellar may be the repository's, which on ARM is the prefix.
CellarOf(p, facts) ==
  IF <<p, "Cellar">> \in facts THEN "own"
  ELSE IF <<p, "repositoryCellar">> \in facts THEN "repository" ELSE "none"

Layout(facts) ==
  LET chosen == IF Usable(ARM, facts) THEN ARM ELSE INTEL
  IN IF ~Usable(chosen, facts) THEN NoLayout
     ELSE [prefix |-> chosen, cellar |-> CellarOf(chosen, facts)]

Discover ==
  /\ pc = "discover"
  /\ \E facts \in SUBSET Parts : layout' = Layout(facts)
  /\ IF layout' = NoLayout THEN pc' = "done" /\ status' = "NotPresent"
     ELSE pc' = "open" /\ UNCHANGED status
  /\ UNCHANGED <<given, opened, snapshots, state, patterns, todo, stack, cask, items,
                gaps, seen, touched>>

\* Both volumes are asked for snapshots; a prefix that does not open is not.
OpenPrefix ==
  /\ pc = "open"
  /\ opened' \in BOOLEAN
  /\ snapshots' \in [home : BOOLEAN, prefix : IF opened' THEN BOOLEAN ELSE {TRUE}]
  /\ pc' = "version"
  /\ UNCHANGED <<given, layout, state, patterns, todo, stack, cask, items, gaps,
                status, seen, touched>>

\* read_version, which the excludes are not told to.
ReadVersion ==
  /\ pc = "version"
  /\ \/ opened /\ state' = Ready
     \/ state' = Degraded("UnknownVersion")
  /\ touched' = touched \cup (IF opened THEN {GIT} ELSE {})
  /\ pc' = "inventory"
  /\ UNCHANGED <<given, layout, opened, snapshots, patterns, todo, stack, cask,
                items, gaps, status, seen>>

\* MUTANT of CacheGaps: a cache root that cannot be looked at counts as moved.
DeniedIsMoved ==
  {IF cacheRoot = "there" THEN {} ELSE {Gap(CACHE_ROOT, "UnsupportedPathOverride")}}
CacheGaps ==
  CASE cacheRoot = "there"  -> {{}}
    [] cacheRoot = "absent" -> {{Gap(CACHE_ROOT, "UnsupportedPathOverride")}}
    [] cacheRoot = "denied" ->
         {{Gap(CACHE_ROOT, reason)} : reason \in Errors \ {"AbsentOrChanged"}}

PrefixGap == IF opened THEN {} ELSE {Gap("prefix", "TraversalFailed")}

SnapshotGaps ==
  {Gap(side, "VolumeSnapshotStateUnavailable") : side \in {s \in {"home", "prefix"} : ~snapshots[s]}}

\* inventory_stores, up to the rules.
Inventory ==
  /\ pc = "inventory"
  /\ \E cacheGaps \in CacheGaps : gaps' = gaps \cup cacheGaps \cup PrefixGap \cup SnapshotGaps
  /\ patterns' = <<"home", "kegs", "casks", "taps">>
  /\ pc' = "expand"
  /\ UNCHANGED <<given, found, todo, stack, cask, items, status, seen, touched>>

-----------------------------------------------------------------------------
\* Where a pattern leads: nowhere when its side of the prefix is missing.
Universe(pattern) ==
  CASE pattern = "home"  -> HomeStores
    [] pattern = "taps"  -> IF opened THEN Taps ELSE {}
    [] pattern = "casks" -> IF opened THEN Casks ELSE {}
    [] pattern = "kegs"  -> IF opened /\ layout.cellar # "none" THEN Kegs ELSE {}

\* MUTANT of ExpansionGap: a pattern that fails is skipped.
NoExpansionGap(reason) == {}
ExpansionGap(reason) == {Gap("homebrew", reason)}

\* A pattern fails as a whole when any directory on its way cannot be listed.
Expand ==
  /\ pc = "expand"
  /\ patterns' = Tail(patterns)
  /\ \E present \in SUBSET {x \in Universe(Head(patterns)) : ~Excluded(x)} :
       /\ seen' = seen \cup present
       /\ \/ todo' = present /\ UNCHANGED gaps
          \/ /\ Universe(Head(patterns)) # {}
             /\ \E reason \in Errors \ {"AbsentOrChanged"} :
                  gaps' = gaps \cup ExpansionGap(reason)
             /\ todo' = {}
  /\ pc' = "measure"
  /\ UNCHANGED <<given, found, stack, cask, items, status, touched>>

\* keg_identity, which the excludes are not told to either: whether it can be
\* read or not only decides a detail of the finding.
ReceiptOf(x) == IF x \in Kegs THEN {Receipt[x]} ELSE {}

\* measure_rule_store.  A cask that was measured is searched next.
MeasureStore(x) ==
  /\ pc = "measure"
  /\ x \in todo
  /\ todo' = todo \ {x}
  /\ \/ /\ items' = items \cup {x}
        /\ touched' = touched \cup {x} \cup ReceiptOf(x)
        /\ IF x \in Casks THEN pc' = "cask" /\ stack' = {x} /\ cask' = x
           ELSE UNCHANGED <<pc, stack, cask>>
        /\ UNCHANGED gaps
     \/ /\ \E reason \in Errors : gaps' = gaps \cup {Gap(x, reason)}
        /\ touched' = touched \cup {x}
        /\ UNCHANGED <<pc, stack, cask, items>>
  /\ UNCHANGED <<given, found, patterns, status, seen>>

MeasureDone ==
  /\ pc = "measure"
  /\ todo = {}
  /\ pc' = IF patterns = <<>> THEN "report" ELSE "expand"
  /\ UNCHANGED <<given, found, patterns, todo, stack, cask, items, gaps, status, seen,
                touched>>

\* MUTANT of Below: the search does not descend.
NothingBelow(d) == {}
Below(d) == IF d \in Casks THEN Inner[d] ELSE {}

\* cask_artifact_outside_prefix: the first link that leaves the prefix ends the
\* search, and so does the first failure.  The excludes are not told to it.
SearchCask(d) ==
  /\ pc = "cask"
  /\ d \in stack
  /\ touched' = touched \cup {d}
  /\ \/ /\ d \in escaping
        /\ gaps' = gaps \cup {Gap(cask, "CaskArtifactOutsidePrefix")}
        /\ stack' = {}
     \/ /\ d \notin escaping
        /\ stack' = (stack \ {d}) \cup Below(d)
        /\ UNCHANGED gaps
     \/ /\ \E reason \in Errors : gaps' = gaps \cup {Gap(cask, reason)}
        /\ stack' = {}
  /\ UNCHANGED <<given, found, pc, patterns, todo, cask, items, status, seen>>

CaskDone ==
  /\ pc = "cask"
  /\ stack = {}
  /\ pc' = "measure"
  /\ UNCHANGED <<given, found, patterns, todo, stack, cask, items, gaps, status, seen,
                touched>>

VersionGap == IF state.kind = "Degraded" THEN {Gap("homebrew", state.reason)} ELSE {}

Report ==
  /\ pc = "report"
  /\ gaps' = gaps \cup VersionGap \cup {Gap(x, "ExcludedByUser") : x \in excludes}
  /\ status' = Status(state, gaps')
  /\ pc' = "done"
  /\ UNCHANGED <<given, found, patterns, todo, stack, cask, items, seen, touched>>

Done == pc = "done" /\ UNCHANGED vars

Next ==
  \/ Discover \/ OpenPrefix \/ ReadVersion \/ Inventory \/ Expand
  \/ \E x \in todo : MeasureStore(x)
  \/ MeasureDone
  \/ \E d \in stack : SearchCask(d)
  \/ CaskDone \/ Report \/ Done

Spec == Init /\ [][Next]_vars

-----------------------------------------------------------------------------
TypeOK ==
  /\ layout \in {NoLayout} \cup [prefix : Prefixes, cellar : {"own", "repository", "none"}]
  /\ state \in States
  /\ todo \cup items \cup seen \subseteq Stores
  /\ stack \subseteq Dirs
  /\ touched \subseteq Stores \cup Dirs \cup Receipts \cup {GIT}
  /\ \A g \in gaps : g.reason \in Failures \cup Boundaries \cup {"ExcludedByUser"}
  /\ status \in {"none", "Complete", "NotPresent", "Unmeasurable"}

\* Whatever exists where the rules look is measured, or excluded, or a gap that
\* names it or its region makes the region unmeasurable: a failure on one side
\* of the prefix never hides what the other side or another rule would have
\* found (homebrew.rs:233-364).
NothingLost ==
  pc = "done" =>
    \A x \in seen :
      \/ x \in items
      \/ \E g \in Unmeasured(gaps) : g.at \in {x, "homebrew"}

\* SPEC.md:796, 1010, README.md:24: a region is only complete when its version,
\* both roots and both snapshot states are known, everything found was measured
\* and the default cache was there or is known not to be (a cask that leaves the
\* prefix does not keep it from being complete); and it is unmeasurable exactly
\* when some gap says why.
StatusIsHonest ==
  /\ status = "Complete" =>
       /\ state = Ready /\ opened
       /\ snapshots.home /\ snapshots.prefix
       /\ cacheRoot # "denied"
       /\ seen = items
  /\ status \in {"Complete", "Unmeasurable"} =>
       (status = "Unmeasurable" <=> Unmeasured(gaps) # {})

\* SPEC.md:1010: what a reported cask installed outside the prefix is disclosed,
\* in whichever of its directories the link lies, or a failure is
\* (homebrew.rs:570-606).
EscapesAreDisclosed ==
  pc = "done" =>
    \A c \in items \cap Casks :
      ({c} \cup Inner[c]) \cap escaping # {} =>
        \E g \in gaps : g.at = c /\ (g.reason = "CaskArtifactOutsidePrefix" \/ g \in Unmeasured(gaps))

\* SPEC.md:817: nothing below an excluded path is looked into.  Violated by
\* HomebrewAdapter_touched (the search of a cask), and by the reads of a receipt
\* and of the repository when these are Excludable.
ExcludedUntouched == \A x \in touched : ~Excluded(x)

-----------------------------------------------------------------------------
(* The inductive invariant behind the three: what each stage already knows. *)

\* Stages, and when something is still to do.
Staged ==
  /\ pc \in {"discover", "open", "version", "inventory", "expand", "measure", "cask",
            "report", "done"}
  /\ pc \notin {"measure", "cask"} => todo = {}
  /\ pc \in {"discover", "open", "version"} => state = NotPresent /\ gaps = {}
  /\ pc \in {"inventory", "expand", "measure", "cask", "report"} =>
       state \in {Ready, Degraded("UnknownVersion")}
  /\ pc # "done" => status = "none"

\* Everything found is measured, still to do, or a gap says why not.
Accounted ==
  /\ items \cup todo \subseteq seen
  /\ \A x \in seen :
       x \in items \/ x \in todo \/ \E g \in Unmeasured(gaps) : g.at \in {x, "homebrew"}

\* From the inventory on, what could not be learnt has its gap.
Admitted ==
  pc \in {"expand", "measure", "cask", "report"} =>
    (~opened \/ ~snapshots.home \/ ~snapshots.prefix \/ cacheRoot = "denied" =>
       Unmeasured(gaps) # {})

\* A link that leaves a reported cask is disclosed, or the search has yet to
\* come to its directory.
Disclosed(c) == \E g \in gaps : g.at = c /\ (g.reason = "CaskArtifactOutsidePrefix" \/ g \in Unmeasured(gaps))

Sought ==
  \A c \in items \cap Casks : \A d \in ({c} \cup Inner[c]) \cap escaping :
    Disclosed(c) \/ (pc = "cask" /\ cask = c /\ stack \cap {c, d} # {})

BrewInv == Staged /\ Accounted /\ Admitted /\ Sought /\ StatusIsHonest
=============================================================================

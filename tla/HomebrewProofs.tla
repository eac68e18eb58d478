---------------------------- MODULE HomebrewProofs ----------------------------
(***************************************************************************)
(* The Homebrew adapter.  First the version: that what is read from the    *)
(* git directory was current, for any set of commits and any number of     *)
(* concurrent steps of git.  Then the inventory: nothing found is lost,    *)
(* the status is honest and casks that leave the prefix are disclosed, for *)
(* any stores, casks, excludes and errors.                                 *)
(***************************************************************************)
EXTENDS HomebrewAdapter, HomebrewVersion, ReportsProofs

LEMMA VersionStart == VersionInit => VersionInv
BY VersionAssumption
   DEF VersionInit, VersionInv, VersionTypeOK, VersionWasCurrent, BRANCH, JUNK, None

\* A read: git's files stay, and what is found has been pointed to.
LEMMA ReadKeeps == VersionInv /\ Read => VersionInv'
<1> SUFFICES ASSUME VersionInv, Read PROVE VersionInv'
    OBVIOUS
<1> USE VersionAssumption DEF VersionInv, VersionTypeOK, git
<1>1. CASE ReadHead
  BY <1>1 DEF ReadHead, Unknown, Found, ValidSha, VersionWasCurrent, BRANCH, JUNK, None
<1>2. CASE ReadLoose
  BY <1>2 DEF ReadLoose, TriesPacked, Unknown, Found, ValidSha, VersionWasCurrent, BRANCH, JUNK, None
<1>3. CASE ReadPacked
  BY <1>3 DEF ReadPacked, Unknown, Found, VersionWasCurrent, BRANCH, JUNK, None
<1>4. CASE ReadDescribe
  BY <1>4 DEF ReadDescribe, VersionOf, Unknown, VersionWasCurrent, BRANCH, JUNK, None
<1> QED
  BY <1>1, <1>2, <1>3, <1>4 DEF Read

\* A step of git or brew: what it points to is remembered, and what it removes
\* has been packed.
LEMMA OthersKeep == VersionInv /\ Others => VersionInv'
<1> SUFFICES ASSUME VersionInv, Others PROVE VersionInv'
    OBVIOUS
<1> USE VersionAssumption
        DEF VersionInv, VersionTypeOK, Change, VersionWasCurrent, BRANCH, JUNK, None
<1>1. ASSUME NEW c \in Commits, Advance(c) PROVE VersionInv'
  BY <1>1 DEF Advance
<1>2. ASSUME NEW c \in Commits, Describe(c) PROVE VersionInv'
  BY <1>2 DEF Describe
<1>3. CASE Pack
  BY <1>3 DEF Pack
<1>4. CASE Prune
  BY <1>4 DEF Prune
<1>5. ASSUME NEW h \in Commits \cup {BRANCH}, Checkout(h) PROVE VersionInv'
  BY <1>5 DEF Checkout
<1> QED
  BY <1>1, <1>2, <1>3, <1>4, <1>5 DEF Others

\* The strengthening is an invariant (homebrew.rs:451-490).
THEOREM VersionInductive == VersionSpec => []VersionInv
<1>1. VersionInv /\ [VersionNext]_versionVars => VersionInv'
  <2> SUFFICES ASSUME VersionInv, [VersionNext]_versionVars PROVE VersionInv'
      OBVIOUS
  <2>1. CASE UNCHANGED versionVars
    BY <2>1 DEF versionVars, git, VersionInv, VersionTypeOK, VersionWasCurrent
  <2>2. CASE Ended
    BY <2>2 DEF Ended, versionVars, git, VersionInv, VersionTypeOK, VersionWasCurrent
  <2> QED
    BY <2>1, <2>2, ReadKeeps, OthersKeep DEF VersionNext
<1> QED
  BY <1>1, VersionStart, PTL DEF VersionSpec

\* A version that is reported is that of a commit that was checked out, or the
\* head of the branch, during the scan.
THEOREM CurrentVersion == VersionSpec => []VersionWasCurrent
<1>1. VersionInv => VersionWasCurrent
  BY DEF VersionInv
<1> QED
  BY <1>1, VersionInductive, PTL

-----------------------------------------------------------------------------
(* The inventory.                                                          *)

LEMMA Start == Init => BrewInv
BY DEF Init, BrewInv, Staged, Accounted, Admitted, Sought, StatusIsHonest

\* Errors the adapter reports are failures.
LEMMA ErrorsCount == Errors \subseteq Failures
BY HomebrewAssumption, ReasonsAreFailures

\* Before the report.
LEMMA ProbeKeeps ==
  ASSUME BrewInv, Discover \/ OpenPrefix \/ ReadVersion PROVE BrewInv'
<1> USE DEF BrewInv, Staged, Accounted, Admitted, Sought, Disclosed, StatusIsHonest, given, found
<1>1. CASE Discover
  BY <1>1 DEF Discover
<1>2. CASE OpenPrefix
  BY <1>2 DEF OpenPrefix
<1>3. CASE ReadVersion
  BY <1>3 DEF ReadVersion
<1> QED BY <1>1, <1>2, <1>3

\* inventory_stores makes a gap of everything it could not learn.
LEMMA InventoryKeeps == ASSUME BrewInv, Inventory PROVE BrewInv'
<1>1. PICK cacheGaps \in CacheGaps : gaps' = gaps \cup cacheGaps \cup PrefixGap \cup SnapshotGaps
  BY DEF Inventory
<1>2. ~opened => Unmeasured(gaps') # {}
  <2>1. ~opened => Gap("prefix", "TraversalFailed") \in gaps'
    BY <1>1 DEF PrefixGap
  <2> QED BY <2>1, FailureIsUnmeasured DEF Failures
<1>3. ~snapshots.home \/ ~snapshots.prefix => Unmeasured(gaps') # {}
  <2>1. ASSUME NEW side \in {"home", "prefix"}, ~snapshots[side]
        PROVE  Gap(side, "VolumeSnapshotStateUnavailable") \in gaps'
    BY <1>1, <2>1 DEF SnapshotGaps
  <2> QED BY <2>1, FailureIsUnmeasured DEF Failures
<1>4. cacheRoot = "denied" => Unmeasured(gaps') # {}
  <2> SUFFICES ASSUME cacheRoot = "denied" PROVE Unmeasured(gaps') # {}
    OBVIOUS
  <2>1. PICK reason \in Errors : Gap(CACHE_ROOT, reason) \in gaps'
    BY <1>1 DEF CacheGaps
  <2> QED BY <2>1, ErrorsCount, FailureIsUnmeasured
<1>5. Admitted'
  BY <1>2, <1>3, <1>4 DEF Inventory, Admitted, found, given
<1>6. gaps \subseteq gaps' /\ Unmeasured(gaps) \subseteq Unmeasured(gaps')
  BY <1>1, UnmeasuredGrows
<1> QED
  BY <1>5, <1>6 DEF Inventory, BrewInv, Staged, Accounted, Sought, Disclosed, StatusIsHonest, given, found

\* A pattern that fails as a whole leaves a gap for all it would have found.
LEMMA ExpandKeeps == ASSUME BrewInv, Expand PROVE BrewInv'
<1>1. PICK present : 
        /\ seen' = seen \cup present
        /\ \/ todo' = present /\ UNCHANGED gaps
           \/ /\ \E reason \in Errors : gaps' = gaps \cup ExpansionGap(reason)
              /\ todo' = {}
  BY DEF Expand
<1>2. gaps \subseteq gaps' /\ Unmeasured(gaps) \subseteq Unmeasured(gaps')
  BY <1>1, UnmeasuredGrows
<1>3. todo = {} /\ pc = "expand" /\ pc' = "measure" /\ UNCHANGED <<given, found, cask, items, status>>
  BY DEF Expand, BrewInv, Staged
<1>4. todo' = present \/ \E g \in Unmeasured(gaps') : g.at = "homebrew"
  <2>1. ASSUME NEW reason \in Errors, gaps' = gaps \cup ExpansionGap(reason)
        PROVE  \E g \in Unmeasured(gaps') : g.at = "homebrew"
    <3>1. Gap("homebrew", reason) \in Unmeasured(gaps')
      BY <2>1, ErrorsCount, FailureIsUnmeasured DEF ExpansionGap
    <3> QED BY <3>1 DEF Gap
  <2> QED BY <1>1, <2>1
<1>5. Accounted'
  <2>1. (items \cup todo \subseteq seen)'
    BY <1>1, <1>3 DEF BrewInv, Accounted
  <2>2. ASSUME NEW x \in seen'
        PROVE  x \in items' \/ x \in todo' \/ \E g \in Unmeasured(gaps') : g.at \in {x, "homebrew"}
    BY <1>1, <1>2, <1>3, <1>4, <2>2 DEF BrewInv, Accounted
  <2> QED BY <2>1, <2>2 DEF Accounted
<1>6. Admitted'
  BY <1>2, <1>3 DEF BrewInv, Admitted, given, found
<1>7. Sought'
  BY <1>2, <1>3 DEF BrewInv, Sought, Disclosed, given
<1> QED
  BY <1>3, <1>5, <1>6, <1>7 DEF BrewInv, Staged, StatusIsHonest, found

\* A store that was measured is an item; one that was not has a gap.
LEMMA MeasureKeeps == ASSUME BrewInv, NEW x \in todo, MeasureStore(x) PROVE BrewInv'
<1>1. /\ pc = "measure" /\ todo' = todo \ {x}
      /\ UNCHANGED <<given, found, status, seen>>
  BY DEF MeasureStore
<1>2. CASE /\ items' = items \cup {x} /\ UNCHANGED gaps
           /\ IF x \in Casks THEN pc' = "cask" /\ stack' = {x} /\ cask' = x
              ELSE UNCHANGED <<pc, stack, cask>>
  <2>1. Accounted'
    BY <1>1, <1>2 DEF BrewInv, Accounted
  <2>2. Sought'
    BY <1>1, <1>2 DEF BrewInv, Sought, Disclosed, given
  <2>3. Admitted'
    BY <1>1, <1>2 DEF BrewInv, Admitted, given, found
  <2> QED
    BY <1>1, <1>2, <2>1, <2>2, <2>3 DEF BrewInv, Staged, StatusIsHonest, found
<1>3. CASE /\ \E reason \in Errors : gaps' = gaps \cup {Gap(x, reason)}
           /\ UNCHANGED <<pc, stack, cask, items>>
  <2>1. PICK reason \in Errors : gaps' = gaps \cup {Gap(x, reason)}
    BY <1>3
  <2>2. Gap(x, reason) \in Unmeasured(gaps') /\ Gap(x, reason).at = x
    BY <2>1, ErrorsCount, FailureIsUnmeasured DEF Gap
  <2>3. gaps \subseteq gaps' /\ Unmeasured(gaps) \subseteq Unmeasured(gaps')
    BY <2>1, UnmeasuredGrows
  <2>4. Accounted'
    BY <1>1, <1>3, <2>2, <2>3 DEF BrewInv, Accounted
  <2>5. Sought'
    BY <1>1, <1>3, <2>3 DEF BrewInv, Sought, Disclosed, given
  <2>6. Admitted'
    BY <1>1, <1>3, <2>3 DEF BrewInv, Admitted, given, found
  <2> QED
    BY <1>1, <1>3, <2>4, <2>5, <2>6 DEF BrewInv, Staged, StatusIsHonest, found
<1> QED BY <1>2, <1>3 DEF MeasureStore

\* Each directory of a cask is searched, up to the first gap.
LEMMA SearchKeeps == ASSUME BrewInv, NEW d \in stack, SearchCask(d) PROVE BrewInv'
<1>1. pc = "cask" /\ UNCHANGED <<given, found, pc, todo, cask, items, status, seen>>
  BY DEF SearchCask
<1>2. gaps \subseteq gaps' /\ Unmeasured(gaps) \subseteq Unmeasured(gaps')
  BY UnmeasuredGrows DEF SearchCask
<1>3. Accounted' /\ Admitted'
  BY <1>1, <1>2 DEF BrewInv, Accounted, Admitted, given, found
<1>4. ASSUME gaps' = gaps \cup {Gap(cask, "CaskArtifactOutsidePrefix")} PROVE Sought'
  <2>1. LET g == Gap(cask, "CaskArtifactOutsidePrefix")
        IN  g \in gaps' /\ g.at = cask /\ g.reason = "CaskArtifactOutsidePrefix"
    BY <1>4 DEF Gap
  <2>2. Disclosed(cask)'
    BY <1>1, <2>1 DEF Disclosed
  <2> QED BY <1>1, <1>2, <2>2 DEF BrewInv, Sought, Disclosed, given
<1>5. ASSUME d \notin escaping, stack' = (stack \ {d}) \cup Below(d), UNCHANGED gaps
      PROVE  Sought'
  <2> SUFFICES ASSUME NEW c \in items \cap Casks, NEW e \in ({c} \cup Inner[c]) \cap escaping
               PROVE  (Disclosed(c) \/ (pc = "cask" /\ cask = c /\ stack \cap {c, e} # {}))'
    BY <1>1 DEF Sought, given
  <2>1. CASE Disclosed(c)
    BY <2>1, <1>5 DEF Disclosed
  <2>2. CASE cask = c /\ stack \cap {c, e} # {}
    <3>1. e # d
      BY <1>5
    <3>2. c = d => e \in Below(d)
      BY <3>1 DEF Below
    <3> QED BY <1>1, <1>5, <2>2, <3>1, <3>2
  <2> QED BY <2>1, <2>2 DEF BrewInv, Sought
<1>6. ASSUME \E reason \in Errors : gaps' = gaps \cup {Gap(cask, reason)} PROVE Sought'
  <2>1. PICK reason \in Errors : gaps' = gaps \cup {Gap(cask, reason)}
    BY <1>6
  <2>2. Gap(cask, reason) \in Unmeasured(gaps') /\ Gap(cask, reason).at = cask
    BY <2>1, ErrorsCount, FailureIsUnmeasured DEF Gap
  <2>3. Disclosed(cask)'
    BY <1>1, <2>1, <2>2 DEF Disclosed, Unmeasured
  <2> QED BY <1>1, <1>2, <2>3 DEF BrewInv, Sought, Disclosed, given
<1>7. Sought'
  BY <1>4, <1>5, <1>6 DEF SearchCask
<1> QED
  BY <1>1, <1>3, <1>7 DEF BrewInv, Staged, StatusIsHonest, found

\* The steps that only move on.
LEMMA MoveKeeps == ASSUME BrewInv, MeasureDone \/ CaskDone \/ Done PROVE BrewInv'
<1> USE DEF BrewInv, Staged, Accounted, Admitted, Sought, Disclosed, StatusIsHonest, given, found
<1>1. CASE MeasureDone
  BY <1>1 DEF MeasureDone
<1>2. CASE CaskDone
  BY <1>2 DEF CaskDone
<1>3. CASE Done
  BY <1>3 DEF Done, vars
<1> QED BY <1>1, <1>2, <1>3

\* The status is made from all that is known by then.
LEMMA ReportKeeps == ASSUME BrewInv, Report PROVE BrewInv'
<1>1. /\ pc = "report" /\ pc' = "done" /\ todo = {}
      /\ UNCHANGED <<given, found, todo, stack, cask, items, seen>>
      /\ state \in {Ready, Degraded("UnknownVersion")}
  BY DEF Report, BrewInv, Staged
<1>2. gaps' = gaps \cup VersionGap \cup {Gap(x, "ExcludedByUser") : x \in excludes}
  BY DEF Report
<1>3. gaps \subseteq gaps' /\ Unmeasured(gaps) \subseteq Unmeasured(gaps')
  BY <1>2, UnmeasuredGrows
<1>4. /\ state \in States /\ Ready # Degraded("UnknownVersion")
      /\ NotPresent \notin {Ready, Degraded("UnknownVersion")}
  BY <1>1 DEF States, DegradedReasons, Ready, NotPresent, Degraded
<1>5. state = Degraded("UnknownVersion") => Unmeasured(gaps') # {}
  <2>1. state = Degraded("UnknownVersion") => Gap("homebrew", "UnknownVersion") \in gaps'
    BY <1>2 DEF VersionGap, Degraded
  <2> QED BY <2>1, FailureIsUnmeasured DEF Failures
<1>6. /\ status' \in {"Complete", "Unmeasurable"}
      /\ status' = "Complete" => state = Ready /\ Unmeasured(gaps') = {}
      /\ status' = "Unmeasurable" => Unmeasured(gaps') # {}
  <2>1. status' = Status(state, gaps')
    BY DEF Report
  <2>2. state = Ready => status' = IF Unmeasured(gaps') = {} THEN "Complete" ELSE "Unmeasurable"
    BY <1>4, <2>1, StatusOf
  <2>3. state = Degraded("UnknownVersion") => status' = "Unmeasurable"
    BY <1>4, <2>1, StatusOf
  <2> QED BY <1>1, <1>5, <2>2, <2>3
<1>7. Accounted' /\ Sought'
  BY <1>1, <1>3 DEF BrewInv, Accounted, Sought, Disclosed, given
<1>8. Unmeasured(gaps') = {} => opened /\ snapshots.home /\ snapshots.prefix /\ cacheRoot # "denied"
  BY <1>1, <1>3 DEF BrewInv, Admitted
<1>9. Unmeasured(gaps') = {} => seen = items
  BY <1>1, <1>3 DEF BrewInv, Accounted
<1>10. StatusIsHonest'
  BY <1>1, <1>6, <1>8, <1>9 DEF StatusIsHonest, given, found
<1> QED
  BY <1>1, <1>7, <1>10 DEF BrewInv, Staged, Admitted, found

\* The inductive invariant, for every instance.
THEOREM BrewInductive == Spec => []BrewInv
<1>1. BrewInv /\ [Next]_vars => BrewInv'
  <2> SUFFICES ASSUME BrewInv, [Next]_vars PROVE BrewInv'
    OBVIOUS
  <2>1. CASE UNCHANGED vars
    BY <2>1 DEF vars, given, found, BrewInv, Staged, Accounted, Admitted, Sought, Disclosed, StatusIsHonest
  <2>2. CASE Next
    BY <2>2, ProbeKeeps, InventoryKeeps, ExpandKeeps, MeasureKeeps, SearchKeeps, MoveKeeps,
       ReportKeeps DEF Next
  <2> QED BY <2>1, <2>2
<1> QED BY <1>1, Start, PTL DEF Spec

\* Whatever exists where the rules look is measured, or a gap that makes the
\* region unmeasurable names it or the region (homebrew.rs:233-364).
THEOREM NothingIsLost == Spec => []NothingLost
<1>1. BrewInv => NothingLost
  BY DEF BrewInv, Staged, Accounted, NothingLost
<1> QED BY <1>1, BrewInductive, PTL

\* A region is complete only when all it depends on is known, and unmeasurable
\* exactly when some gap says why (scan.rs:86-171).
THEOREM StatusIsAlwaysHonest == Spec => []StatusIsHonest
<1>1. BrewInv => StatusIsHonest
  BY DEF BrewInv
<1> QED BY <1>1, BrewInductive, PTL

\* A reported cask with a link that leaves the prefix, wherever in it, is
\* disclosed, or the failure to look is (homebrew.rs:570-606).
THEOREM EscapesAreAlwaysDisclosed == Spec => []EscapesAreDisclosed
<1>1. BrewInv => EscapesAreDisclosed
  BY DEF BrewInv, Sought, Disclosed, EscapesAreDisclosed
<1> QED BY <1>1, BrewInductive, PTL
=============================================================================

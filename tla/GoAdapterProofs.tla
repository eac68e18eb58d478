--------------------------- MODULE GoAdapterProofs ---------------------------
(***************************************************************************)
(* A Go region: no cache is guessed, and none that exists, or that this    *)
(* process may not look at, is missing from a complete report.             *)
(***************************************************************************)
EXTENDS GoAdapter, ReportsProofs

\* The configuration could not be read, or not understood.
Unresolved == \E g \in Unmeasured(gaps) : g.at = "go"

Typed ==
  /\ state \in States
  /\ roots \in [Caches -> {"home", "elsewhere"}]
  /\ items \subseteq Caches

\* Nothing is looked for before the configuration was read, nor if it makes no
\* sense.
Unguessed ==
  /\ pc \in {"probe", "goenv"} => items = {}
  /\ goenv = "bad" /\ "goenv" \notin excluded => items = {} /\ pc # "measure"

\* What became of a cache: measured, absent, or a gap that says why not.
Handled(c) ==
  /\ condition[c] = "there" =>
       c \in items \/ \E g \in Unmeasured(gaps) : g.at = c
  /\ condition[c] = "denied" /\ roots[c] = "home" =>
       \E g \in Unmeasured(gaps) : g.at = c

\* From the configuration on, every cache that is wanted is in one place: still
\* to do or handled, unless the region is unmeasured as a whole.
Accounted ==
  pc \in {"measure", "report", "done"} =>
    \/ Unresolved
    \/ /\ "goenv" \notin excluded => roots = Resolved
       /\ pc # "measure" => todo = {}
       /\ \A c \in Caches \ excluded : c \in todo \/ Handled(c)

Final ==
  /\ pc # "done" => status = "none"
  /\ pc = "done" => status = Status(state, gaps)

GoInv == Typed /\ Unguessed /\ Accounted /\ Final

-----------------------------------------------------------------------------
LEMMA GoStart == Init => GoInv
BY DEF Init, GoInv, Typed, Unguessed, Accounted, Final, States

\* What is handled stays handled as items and gaps are added.
LEMMA HandledStays ==
  ASSUME NEW c \in Caches, Handled(c), items \subseteq items', gaps \subseteq gaps',
         UNCHANGED <<condition, roots>>
  PROVE  Handled(c)'
BY UnmeasuredGrows DEF Handled

LEMMA StateStep == GoInv /\ (Absent \/ \E p \in Probes : Probe(p)) => GoInv'
<1> SUFFICES ASSUME GoInv, Absent \/ \E p \in Probes : Probe(p) PROVE GoInv'
  OBVIOUS
<1> USE DEF GoInv, Typed, Unguessed, Accounted, Final, given
<1>1. NotPresent \in States /\ Ready \in States
  BY DEF States
<1>2. \A r \in DegradedReasons : Degraded(r) \in States
  BY DEF States
<1>3. \A a : DegradedFrom(a) \in States
  BY <1>2 DEF DegradedFrom, DegradedReasons
<1>4. pc = "probe" /\ pc' = "goenv" /\ state' \in States
  BY <1>1, <1>2, <1>3 DEF Absent, Probe, Probed, DegradedReasons
<1>5. UNCHANGED <<given, roots, todo, items, gaps, status>>
  BY DEF Absent, Probe
<1> QED
  BY <1>4, <1>5

LEMMA ReadStep == GoInv /\ ReadGoenv => GoInv'
<1> SUFFICES ASSUME GoInv, ReadGoenv PROVE GoInv'
  OBVIOUS
<1> USE DEF GoInv, Final, given
<1>1. UNCHANGED <<given, calls, state, items, status>> /\ pc = "goenv" /\ items = {}
  BY DEF ReadGoenv, Unguessed
<1>2. CASE pc' = "measure"
  <2>1. todo' = Caches \ excluded /\ (\A c \in Caches \ excluded : c \in todo')
    BY <1>2 DEF ReadGoenv, Wanted
  <2>2. /\ "goenv" \in excluded \/ goenv # "bad"
        /\ "goenv" \in excluded => roots' = roots
        /\ "goenv" \notin excluded => roots' = Resolved
    BY <1>2 DEF ReadGoenv, Unreadable
  <2>3. Resolved \in [Caches -> {"home", "elsewhere"}] /\ Resolved' = Resolved
    BY <1>1 DEF Resolved
  <2>4. Typed'
    BY <1>1, <2>2, <2>3 DEF Typed
  <2>5. Accounted'
    BY <1>1, <1>2, <2>1, <2>2, <2>3 DEF Accounted
  <2> QED
    BY <1>1, <1>2, <2>2, <2>4, <2>5 DEF Unguessed
<1>3. CASE pc' # "measure"
  <2>1. /\ pc' = "report" /\ UNCHANGED roots
        /\ \E reason \in IoReasons \cup {"InvalidToolOutput"} : Gap("go", reason) \in gaps'
    BY <1>3 DEF ReadGoenv
  <2>2. Unresolved'
    <3>1. PICK reason \in IoReasons \cup {"InvalidToolOutput"} : Gap("go", reason) \in gaps'
      BY <2>1
    <3>2. Gap("go", reason) \in Unmeasured(gaps')
      BY <3>1, ReasonsAreFailures, FailureIsUnmeasured
    <3> QED
      BY <3>2 DEF Unresolved, Gap
  <2> QED
    BY <1>1, <2>1, <2>2 DEF Typed, Unguessed, Accounted
<1> QED
  BY <1>2, <1>3

\* One cache, wherever it is looked for.
LEMMA CacheHandled ==
  ASSUME GoInv, NEW c \in Caches, MeasureCache(c)
  PROVE  Handled(c)' /\ items \subseteq items' /\ gaps \subseteq gaps' /\ items' \subseteq items \cup {c}
<1>1. UNCHANGED <<given, pc, calls, state, roots, status>>
  BY DEF MeasureCache
<1>2. roots[c] = "home" => InHome(c)
  BY DEF MeasureCache
<1>3. roots[c] # "home" => AsRoot(c)
  BY DEF MeasureCache
<1>4. \A r \in Failures : Gap(c, r) \in gaps' => \E g \in Unmeasured(gaps') : g.at = c
  BY FailureIsUnmeasured DEF Gap
<1>5. IoReasons \cup {"AccessDenied", "PolicyDeniedUnknown", "TraversalFailed"} \subseteq Failures
  BY DEF IoReasons, Failures
<1>6. Measured(c) => c \in items' \/ \E r \in Failures : Gap(c, r) \in gaps'
  BY <1>5 DEF Measured
<1>7. condition[c] = "there" => c \in items' \/ \E r \in Failures : Gap(c, r) \in gaps'
  BY <1>2, <1>3, <1>5, <1>6 DEF InHome, AsRoot
<1>8. condition[c] = "denied" /\ roots[c] = "home" => \E r \in Failures : Gap(c, r) \in gaps'
  BY <1>2, <1>5 DEF InHome
<1>9. items \subseteq items' /\ gaps \subseteq gaps' /\ items' \subseteq items \cup {c}
  BY <1>2, <1>3 DEF InHome, AsRoot, Measured
<1>10. UNCHANGED <<condition, roots>>
  BY <1>1 DEF given
<1>11. Handled(c)'
  BY <1>4, <1>7, <1>8, <1>10 DEF Handled
<1> QED
  BY <1>9, <1>11

LEMMA MeasureStep == GoInv /\ (\E c \in Caches : MeasureCache(c)) => GoInv'
<1> SUFFICES ASSUME GoInv, NEW c \in Caches, MeasureCache(c) PROVE GoInv'
  OBVIOUS
<1> USE DEF GoInv, given
<1>1. /\ pc = "measure" /\ todo' = todo \ {c}
      /\ UNCHANGED <<given, pc, calls, state, roots, status>>
  BY DEF MeasureCache
<1>2. /\ Handled(c)' /\ items \subseteq items' /\ gaps \subseteq gaps'
      /\ items' \subseteq items \cup {c}
  BY CacheHandled
<1>3. Typed' /\ Unguessed' /\ Final'
  BY <1>1, <1>2 DEF Typed, Unguessed, Final
<1>4. CASE Unresolved
  BY <1>1, <1>2, <1>3, <1>4, UnmeasuredGrows DEF Accounted, Unresolved
<1>5. CASE ~Unresolved
  <2>1. \A b \in Caches \ excluded : b \in todo \/ Handled(b)
    BY <1>1, <1>5 DEF Accounted
  <2>2. \A b \in Caches \ excluded : b \in todo' \/ Handled(b)'
    BY <1>1, <1>2, <2>1, HandledStays
  <2>3. "goenv" \notin excluded' => roots' = Resolved'
    BY <1>1, <1>5 DEF Accounted, Resolved
  <2> QED
    BY <1>1, <1>3, <2>2, <2>3 DEF Accounted
<1> QED
  BY <1>3, <1>4, <1>5

LEMMA CloseStep == GoInv /\ (MeasureDone \/ Report) => GoInv'
<1> SUFFICES ASSUME GoInv, MeasureDone \/ Report PROVE GoInv'
  OBVIOUS
<1> USE DEF GoInv, given
<1>1. /\ UNCHANGED <<given, calls, state, roots, todo, items>> /\ gaps \subseteq gaps'
      /\ pc \in {"measure", "report"} /\ pc' \in {"report", "done"}
      /\ pc = "measure" => todo = {}
  BY DEF MeasureDone, Report
<1>2. Typed' /\ Unguessed'
  BY <1>1 DEF Typed, Unguessed
<1>3. Final'
  BY DEF MeasureDone, Report, Final
<1>4. Accounted'
  <2>1. CASE Unresolved
    BY <1>1, <2>1, UnmeasuredGrows DEF Accounted, Unresolved
  <2>2. CASE ~Unresolved
    <3>1. \A c \in Caches \ excluded : c \in todo \/ Handled(c)
      BY <1>1, <2>2 DEF Accounted
    <3>2. \A c \in Caches \ excluded : c \in todo' \/ Handled(c)'
      BY <1>1, <3>1, HandledStays
    <3>3. "goenv" \notin excluded' => roots' = Resolved'
      BY <1>1, <2>2 DEF Accounted, Resolved
    <3>4. todo' = {}
      BY <1>1, <2>2 DEF Accounted
    <3> QED
      BY <1>1, <3>2, <3>3, <3>4 DEF Accounted
  <2> QED
    BY <2>1, <2>2
<1> QED
  BY <1>2, <1>3, <1>4

LEMMA GoStep == GoInv /\ [Next]_vars => GoInv'
<1>1. GoInv /\ (Done \/ UNCHANGED vars) => GoInv'
  BY DEF GoInv, Typed, Unguessed, Accounted, Final, Unresolved, Handled, Resolved, Done, vars, given
<1> QED
  BY <1>1, StateStep, ReadStep, MeasureStep, CloseStep DEF Next

LEMMA GoInvariant == Spec => []GoInv
  BY GoStart, GoStep, PTL DEF Spec

-----------------------------------------------------------------------------
\* SPEC.md:875: no cache is guessed under a configuration that makes no sense.
THEOREM NothingIsGuessed == Spec => []NoGuess
<1>1. GoInv => NoGuess
  BY DEF GoInv, Unguessed, NoGuess
<1> QED
  BY <1>1, GoInvariant, PTL

\* Every cache that exists is measured where the configuration puts it, was
\* excluded, or is behind a gap.
THEOREM NoCacheIsLost == Spec => []CacheNotLost
<1>1. GoInv => CacheNotLost
  <2> SUFFICES ASSUME GoInv, pc = "done", NEW c \in Caches, condition[c] = "there", c \notin excluded,
                      ~Unresolved
               PROVE  \/ c \in items /\ ("goenv" \notin excluded =>
                                           (roots[c] = "elsewhere" <=> c \in elsewhere))
                      \/ \E g \in Unmeasured(gaps) : g.at \in {c, "go"}
    BY DEF CacheNotLost, Unresolved
  <2>1. /\ "goenv" \notin excluded => roots = Resolved
        /\ Handled(c)
    BY DEF GoInv, Accounted
  <2>2. "goenv" \notin excluded => (roots[c] = "elsewhere" <=> c \in elsewhere)
    BY <2>1 DEF Resolved
  <2> QED
    BY <2>1, <2>2 DEF Handled
<1> QED
  BY <1>1, GoInvariant, PTL

\* A cache below the home directory that is denied keeps the region from being
\* complete.
THEOREM HomeDenialIsAlwaysVisible == Spec => []HomeDenialIsVisible
<1>1. GoInv => HomeDenialIsVisible
  <2> SUFFICES ASSUME GoInv, status = "Complete", NEW c \in Caches \ excluded, roots[c] = "home",
                      condition[c] = "denied"
               PROVE  FALSE
    BY DEF HomeDenialIsVisible
  <2>1. pc = "done" /\ Status(state, gaps) = "Complete"
    BY DEF GoInv, Final
  <2>2. Unmeasured(gaps) = {}
    BY <2>1, StatusOf DEF GoInv, Typed
  <2>3. Handled(c)
    BY <2>1, <2>2 DEF GoInv, Accounted, Unresolved
  <2> QED
    BY <2>2, <2>3 DEF Handled
<1> QED
  BY <1>1, GoInvariant, PTL
=============================================================================

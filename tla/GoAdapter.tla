------------------------------ MODULE GoAdapter ------------------------------
(***************************************************************************)
(* go_report of src/scan.rs and src/adapters/go.rs: one version probe, and *)
(* the build and module caches, which are measured whatever the probe says *)
(* as long as the configuration that may move them can be read.            *)
(***************************************************************************)
EXTENDS Reports

Caches == {"build", "module"}
HOMEBREW_VERSION == "homebrew_version"
PKG_VERSION == "pkg_version"
Probes == {HOMEBREW_VERSION, PKG_VERSION}

VARIABLES
  off, installed,   \* the probes are disabled; the go programs that exist
  excluded,         \* what the user excluded: caches, "goenv"
  goenv,            \* what the configuration says: "good" or "bad"
  elsewhere,        \* the caches it moves out of the home directory
  condition,        \* each cache: "there", "absent", or "denied" to this process
  pc, calls, state,
  roots,            \* where each cache is looked for, once resolved
  todo, items, gaps, status

given == <<off, installed, excluded, goenv, elsewhere, condition>>
vars == <<given, pc, calls, state, roots, todo, items, gaps, status>>

Init ==
  /\ off \in BOOLEAN
  /\ installed \in SUBSET Probes
  /\ excluded \in SUBSET (Caches \cup {"goenv"})
  /\ goenv \in {"good", "bad"}
  /\ elsewhere \in SUBSET Caches
  /\ condition \in [Caches -> {"there", "absent", "denied"}]
  /\ pc = "probe"
  /\ calls = [p \in Probes |-> 0]
  /\ state = NotPresent
  /\ roots = [c \in Caches |-> "home"]
  /\ todo = {} /\ items = {} /\ gaps = {}
  /\ status = "none"

-----------------------------------------------------------------------------
\* The Homebrew program comes first.
Chosen ==
  IF HOMEBREW_VERSION \in installed THEN {HOMEBREW_VERSION} ELSE installed

Probed(s) == state' = s /\ pc' = "goenv"

Absent ==
  /\ pc = "probe"
  /\ installed = {}
  /\ Probed(NotPresent)
  /\ UNCHANGED <<given, calls, roots, todo, items, gaps, status>>

Probe(p) ==
  /\ pc = "probe"
  /\ p \in Chosen
  /\ \E a \in Possible(off, calls[p], 1) :
       /\ calls' = [calls EXCEPT ![p] = IF a \in Refusals THEN @ ELSE @ + 1]
       /\ \/ a = "Success" /\ Probed(Ready)
          \/ a = "Success" /\ Probed(Degraded("UnknownVersion"))
          \/ a = "Failure" /\ Probed(Degraded("ProbeFailed"))
          \/ a = "InvocationFailed" /\ Probed(NotPresent)
          \/ a \in {"TimedOut"} \cup Refusals /\ Probed(DegradedFrom(a))
  /\ UNCHANGED <<given, roots, todo, items, gaps, status>>

\* Only a disabled or failed probe leaves a gap; an unknown version does not.
StateGaps ==
  IF state.kind = "Degraded" /\ state.reason \in {"Disabled", "ProbeFailed"}
  THEN {Gap("go", state.reason)} ELSE {}

\* MUTANT of Unreadable: a configuration that makes no sense is ignored.
NeverUnreadable == FALSE
Unreadable == goenv = "bad"

\* MUTANT of Resolved: the configuration is honoured for the build cache only.
BuildOnly == [c \in Caches |-> IF c = "build" /\ c \in elsewhere THEN "elsewhere" ELSE "home"]
Resolved == [c \in Caches |-> IF c \in elsewhere THEN "elsewhere" ELSE "home"]

Wanted == Caches \ excluded

\* resolved_caches.  A configuration that cannot be read or understood ends the
\* inventory: no cache is guessed.  An excluded one counts as unset.
ReadGoenv ==
  /\ pc = "goenv"
  /\ \/ /\ "goenv" \in excluded
        /\ todo' = Wanted
        /\ gaps' = gaps \cup StateGaps
        /\ pc' = "measure"
        /\ UNCHANGED roots
     \/ /\ "goenv" \notin excluded
        /\ ~Unreadable
        /\ roots' = Resolved
        /\ todo' = Wanted
        /\ gaps' = gaps \cup StateGaps
        /\ pc' = "measure"
     \/ /\ "goenv" \notin excluded
        /\ \/ \E reason \in IoReasons : gaps' = gaps \cup StateGaps \cup {Gap("go", reason)}
           \/ Unreadable /\ gaps' = gaps \cup StateGaps \cup {Gap("go", "InvalidToolOutput")}
        /\ pc' = "report"
        /\ UNCHANGED <<roots, todo>>
  /\ UNCHANGED <<given, calls, state, items, status>>

Measured(c) ==
  \/ items' = items \cup {c} /\ UNCHANGED gaps
  \/ /\ \E reason \in IoReasons : gaps' = gaps \cup {Gap(c, reason)}
     /\ UNCHANGED items

\* MUTANT of InHome: a cache in the home directory that is denied is taken for
\* an absent one.
DeniedIsAbsent(c) ==
  \/ condition[c] # "there" /\ UNCHANGED <<items, gaps>>
  \/ condition[c] = "there" /\ Measured(c)

\* measure_cache below the home directory: absent is seen in a listing, denied
\* is an error.
InHome(c) ==
  \/ condition[c] = "absent" /\ UNCHANGED <<items, gaps>>
  \/ condition[c] = "there" /\ Measured(c)
  \/ /\ condition[c] = "denied"
     /\ \E reason \in {"AccessDenied", "PolicyDeniedUnknown"} : gaps' = gaps \cup {Gap(c, reason)}
     /\ UNCHANGED items

\* measure_cache elsewhere: Root::open cannot tell absent from denied, and both
\* count as absent.
AsRoot(c) ==
  \/ condition[c] # "there" /\ UNCHANGED <<items, gaps>>
  \/ condition[c] = "there" /\ Measured(c)
  \/ gaps' = gaps \cup {Gap(c, "TraversalFailed")} /\ UNCHANGED items

MeasureCache(c) ==
  /\ pc = "measure"
  /\ c \in todo
  /\ todo' = todo \ {c}
  /\ IF roots[c] = "home" THEN InHome(c) ELSE AsRoot(c)
  /\ UNCHANGED <<given, pc, calls, state, roots, status>>

MeasureDone ==
  /\ pc = "measure"
  /\ todo = {}
  /\ pc' = "report"
  /\ UNCHANGED <<given, calls, state, roots, todo, items, gaps, status>>

Report ==
  /\ pc = "report"
  /\ gaps' = gaps \cup {Gap("go", "ExcludedByUser") : c \in excluded \cap Caches}
  /\ status' = Status(state, gaps')
  /\ pc' = "done"
  /\ UNCHANGED <<given, calls, state, roots, todo, items>>

Done == pc = "done" /\ UNCHANGED vars

Next ==
  \/ Absent \/ \E p \in Probes : Probe(p)
  \/ ReadGoenv \/ \E c \in Caches : MeasureCache(c)
  \/ MeasureDone \/ Report \/ Done

Spec == Init /\ [][Next]_vars

-----------------------------------------------------------------------------
TypeOK ==
  /\ calls \in [Probes -> 0..1]
  /\ state \in States
  /\ roots \in [Caches -> {"home", "elsewhere"}]
  /\ todo \cup items \subseteq Caches
  /\ \A g \in gaps : g.reason \in Failures \cup {"ExcludedByUser"}
  /\ status \in {"none", "Complete", "NotPresent", "Unmeasurable"}

\* SPEC.md:875: no cache is guessed when the configuration that may have moved
\* it makes no sense (go.rs:83-89, 163-185).
NoGuess == goenv = "bad" /\ "goenv" \notin excluded => items = {}

\* Whatever the probe found out, an existing cache is measured where the
\* configuration puts it, or excluded, or a gap says why not (go.rs:70-101).
CacheNotLost ==
  pc = "done" =>
    \A c \in Caches : condition[c] = "there" =>
      \/ c \in excluded
      \/ c \in items /\ ("goenv" \notin excluded => (roots[c] = "elsewhere" <=> c \in elsewhere))
      \/ \E g \in Unmeasured(gaps) : g.at \in {c, "go"}

\* A cache in the home directory that this process may not read keeps the
\* region from being complete (go.rs:247-252).
HomeDenialIsVisible ==
  status = "Complete" =>
    \A c \in Caches \ excluded : roots[c] = "home" => condition[c] # "denied"

\* SPEC.md:226: a refusal is never reported as nothing.  Does not hold for a
\* cache outside the home directory (README.md, section 6).
DenialIsVisible ==
  status = "Complete" => \A c \in Caches \ excluded : condition[c] # "denied"
=============================================================================

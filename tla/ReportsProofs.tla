----------------------------- MODULE ReportsProofs -----------------------------
(***************************************************************************)
(* Lemmas on the vocabulary of the adapters: which gaps count, and what a   *)
(* status says of the state and the gaps it was made from.                  *)
(***************************************************************************)
EXTENDS Reports, TLAPS

\* What counts as unmeasured, and what does not.
LEMMA GapStatusOf ==
  /\ \A r \in Failures : GapStatus(r) = "Unmeasurable"
  /\ GapStatus("ExcludedByUser") = "ExcludedByUser"
<1>1. \A r \in Failures : r \notin Boundaries
  BY DEF Failures, Boundaries
<1>2. "ExcludedByUser" \notin Failures \cup Boundaries
  BY DEF Failures, Boundaries
<1> QED
  BY <1>1, <1>2 DEF GapStatus

LEMMA FailureIsUnmeasured ==
  ASSUME NEW at, NEW r \in Failures, NEW S, Gap(at, r) \in S
  PROVE  Gap(at, r) \in Unmeasured(S)
BY GapStatusOf DEF Unmeasured, Gap

LEMMA UnmeasuredGrows ==
  ASSUME NEW S, NEW T, S \subseteq T
  PROVE  Unmeasured(S) \subseteq Unmeasured(T)
BY DEF Unmeasured

\* What the user excluded is no failure.
LEMMA ExclusionsDoNotCount ==
  ASSUME NEW S, NEW X
  PROVE  Unmeasured(S \cup {Gap(x, "ExcludedByUser") : x \in X}) = Unmeasured(S)
<1>1. \A x : GapStatus(Gap(x, "ExcludedByUser").reason) # "Unmeasurable"
  BY GapStatusOf DEF Gap
<1> QED
  BY <1>1 DEF Unmeasured

\* The reasons file-system errors and policy errors are reported as.
LEMMA ReasonsAreFailures ==
  /\ IoReasons \subseteq Failures
  /\ \A a \in Ends \cup Refusals : PolicyGap(a) \in Failures
  /\ {"InvalidToolOutput", "ProbeFailed", "AmbiguousDiskImage"} \subseteq Failures
BY DEF IoReasons, Failures, PolicyGap

LEMMA StatusOf ==
  ASSUME NEW s \in States, NEW S
  PROVE  /\ s = Ready /\ Unmeasured(S) = {} => Status(s, S) = "Complete"
         /\ s = Ready /\ Unmeasured(S) # {} => Status(s, S) = "Unmeasurable"
         /\ s = NotPresent => Status(s, S) = "NotPresent"
         /\ s \notin {Ready, NotPresent} => Status(s, S) = "Unmeasurable"
<1>1. CASE s = Ready
  BY <1>1 DEF Status, Ready, NotPresent
<1>2. CASE s = NotPresent
  BY <1>2 DEF Status, NotPresent, Ready
<1>3. CASE \E r \in DegradedReasons : s = Degraded(r)
  <2>1. s.kind = "Degraded"
    BY <1>3 DEF Degraded
  <2>2. Status(s, S) = "Unmeasurable"
    BY <2>1 DEF Status
  <2> QED
    BY <2>1, <2>2 DEF Ready, NotPresent
<1> QED
  BY <1>1, <1>2, <1>3 DEF States
=============================================================================

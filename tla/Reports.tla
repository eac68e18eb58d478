------------------------------- MODULE Reports -------------------------------
(***************************************************************************)
(* The vocabulary the four adapters share: what a probe call may answer,   *)
(* the state an adapter derives from it, the coverage gaps that say what   *)
(* was not measured, and the status a region gets from both.  A gap is     *)
(* [at, reason]: the region or path it names, and why.  The order of gaps  *)
(* and the ids numbered along it carry no property and are left out.       *)
(***************************************************************************)
EXTENDS Naturals, FiniteSets

\* InventoryGapReason, split the way coverage_gap_status splits it.
Boundaries ==
  {"CaskArtifactOutsidePrefix", "UnsupportedPathOverride",
   "DaemonInventoryExcludesInactiveStore"}

Failures ==
  {"AbsentOrChanged", "AccessDenied", "PolicyDeniedUnknown", "UnknownVersion",
   "NotReady", "Disabled", "ProbeFailed", "TraversalFailed", "InvalidToolOutput",
   "CoreSimulatorVersionMismatch", "SimulatorIdentityUnavailable",
   "RuntimeSizeUnavailable", "TimedOut", "RuleSetInvalid",
   "VolumeSnapshotStateUnavailable", "AmbiguousDiskImage", "RootUnmeasurable"}

GapStatus(reason) ==
  CASE reason \in Boundaries       -> "DeclaredScopeBoundary"
    [] reason \in Failures         -> "Unmeasurable"
    [] reason = "ExcludedByUser"   -> "ExcludedByUser"

Gap(at, reason) == [at |-> at, reason |-> reason]
Unmeasured(gaps) == {g \in gaps : GapStatus(g.reason) = "Unmeasurable"}

\* io_gap: what an errno of a file-system call is reported as.
IoReasons == {"AbsentOrChanged", "AccessDenied", "PolicyDeniedUnknown", "TraversalFailed"}

-----------------------------------------------------------------------------
\* What run may answer, as ProbeContract promises: a disabled probe does not
\* start, one at its limit does not start again, and any other start ends in
\* one of four ways.
Refusals == {"Disabled", "CallLimitExceeded"}
Ends == {"Success", "Failure", "InvocationFailed", "TimedOut"}

Possible(off, calls, limit) ==
  IF off THEN {"Disabled"} ELSE IF calls >= limit THEN {"CallLimitExceeded"} ELSE Ends

\* AdapterState: Ready, NotPresent, or Degraded with its reason.
Ready == [kind |-> "Ready", reason |-> "none"]
NotPresent == [kind |-> "NotPresent", reason |-> "none"]
Degraded(reason) == [kind |-> "Degraded", reason |-> reason]
DegradedReasons == {"UnknownVersion", "NotReady", "Disabled", "ProbeFailed", "InvalidSelection"}
States == {Ready, NotPresent} \cup {Degraded(r) : r \in DegradedReasons}

\* degraded_from_policy and policy_gap of an answer that is an error.
DegradedFrom(a) == Degraded(IF a = "Disabled" THEN "Disabled" ELSE "ProbeFailed")
PolicyGap(a) == IF a \in {"TimedOut", "Disabled"} THEN a ELSE "ProbeFailed"

\* The end of every *_report: the status of the region.
Status(state, gaps) ==
  CASE state.kind = "Ready" /\ Unmeasured(gaps) = {}  -> "Complete"
    [] state.kind = "Ready" /\ Unmeasured(gaps) # {}  -> "Unmeasurable"
    [] state.kind = "NotPresent"                      -> "NotPresent"
    [] state.kind = "Degraded"                        -> "Unmeasurable"
=============================================================================

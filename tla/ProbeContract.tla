---------------------------- MODULE ProbeContract ----------------------------
(***************************************************************************)
(* What a scan may rely on when it runs an external read-only probe: a     *)
(* probe that is not declared, or that the user disabled, never starts; a  *)
(* declared one starts at most MaxCalls[p] times per scan; calls do not    *)
(* overlap; and each call that starts ends in one of three answers.  How   *)
(* the process, its pipes and its reader threads produce the answer is the *)
(* business of ProbeRunner, which implements this specification.           *)
(***************************************************************************)
EXTENDS Naturals

CONSTANTS
  Probes,       \* probe ids of the side-effect registry
  Strangers,    \* ids a caller may name that the registry does not hold
  Families,     \* the environment variables that disable probes
  Family,       \* the variable that disables each probe
  MaxCalls      \* call limit of each probe per scan

VARIABLES
  phase,        \* "idle" or "busy": at most one call is in flight
  probe,        \* the probe of the current or of the last call
  used,         \* how often each probe was started in this scan
  disabled,     \* the disabling variables present in the environment
  answer        \* what the last call returned

contractVars == <<phase, probe, used, disabled, answer>>

Refusals == {"UndeclaredProbe", "Disabled", "CallLimitExceeded"}
Answers  == {"Success", "Failure", "InvocationFailed", "TimedOut"}

Init ==
  /\ phase = "idle"
  /\ probe \in Probes
  /\ used = [p \in Probes |-> 0]
  /\ disabled \in SUBSET Families
  /\ answer = "None"

Refuse(p, why) ==
  /\ phase = "idle"
  /\ why = "UndeclaredProbe"   => p \notin Probes
  /\ why = "Disabled"          => p \in Probes /\ Family[p] \in disabled
  /\ why = "CallLimitExceeded" => p \in Probes /\ used[p] = MaxCalls[p]
  /\ probe' = p
  /\ answer' = why
  /\ UNCHANGED <<phase, used, disabled>>

Begin(p) ==
  /\ phase = "idle"
  /\ Family[p] \notin disabled
  /\ used[p] < MaxCalls[p]
  /\ used' = [used EXCEPT ![p] = @ + 1]
  /\ phase' = "busy"
  /\ probe' = p
  /\ answer' = "None"
  /\ UNCHANGED disabled

Finish(a) ==
  /\ phase = "busy"
  /\ phase' = "idle"
  /\ answer' = a
  /\ UNCHANGED <<probe, used, disabled>>

Next ==
  \/ \E p \in Probes \cup Strangers, why \in Refusals : Refuse(p, why)
  \/ \E p \in Probes : Begin(p)
  \/ \E a \in Answers : Finish(a)

Spec == Init /\ [][Next]_contractVars
=============================================================================

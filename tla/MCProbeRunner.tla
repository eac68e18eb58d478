---------------------------- MODULE MCProbeRunner ----------------------------
(* Small instances of ProbeRunner: two declared probes of two families and  *)
(* one id the registry does not hold.  Every probe may run once, as all of  *)
(* SIDE_EFFECT_REGISTRY may.                                                *)
EXTENDS ProbeRunner

CONSTANTS p1, p2, p3, env1, env2

MCFamily == [p \in {p1, p2} |-> IF p = p1 THEN env1 ELSE env2]
MCMaxCalls == [p \in {p1, p2} |-> 1]

(* One probe, called once: enough for the properties of a single call.      *)
OneFamily == [p \in {p1} |-> env1]
OneCall == [p \in {p1} |-> 1]
=============================================================================

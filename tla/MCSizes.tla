------------------------------- MODULE MCSizes -------------------------------
(* Two functions of src/model.rs that turn sizes into bounds.  Units of a    *)
(* hundred and three digits stand for units of a thousand and four: as there, *)
(* a number has one digit after the point where it is longest, and rounding   *)
(* may carry into the next unit.                                              *)
EXTENDS Disposition, RoundedBytes

RoundedIdle == size = 0 /\ printed = Blank /\ bounds = Nowhere

DispositionIdle ==
  /\ blocks = [o \in Identities |-> {}] /\ others = {} /\ held = {}
  /\ link_count = [o \in Identities |-> 1] /\ covered_link_count = [o \in Identities |-> 1]
  /\ allocated_bytes = [o \in Identities |-> 0] /\ private_bytes = [o \in Identities |-> 0]
  /\ snapshots_stable = FALSE
  /\ remaining = {} /\ floor = 0 /\ ceiling = 0 /\ unmeasurable = FALSE /\ result = "idle"

SizesInit == (DispositionInit /\ RoundedIdle) \/ (DispositionIdle /\ RoundedInit)

SizesNext ==
  \/ result # "idle" /\ DispositionNext /\ UNCHANGED roundedVars
  \/ result = "idle" /\ RoundedNext /\ UNCHANGED dispositionVars

SizesSpec == SizesInit /\ [][SizesNext]_<<dispositionVars, roundedVars>>
=============================================================================

--------------------------- MODULE MCXcodeAdapter ---------------------------
(* A store, two devices, two verified versions with different pins and one  *)
(* version nobody verified.                                                 *)
EXTENDS XcodeAdapter

CONSTANTS s1, d1, d2, r1, bad, odd, root

MCPinned == [v \in {"xcode16", "xcode26"} |-> IF v = "xcode16" THEN "sim1010" ELSE "sim1051"]
=============================================================================

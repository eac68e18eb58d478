------------------------------ MODULE Commands -------------------------------
(***************************************************************************)
(* The program: one command per process, scan and doctor (ScanRun), or     *)
(* explain and the opening of a root on its own (Explain).  What the other *)
(* half would use keeps one value.                                         *)
(***************************************************************************)
EXTENDS ScanRun, Explain

scanVars == vars
commandVars == <<scanVars, openVars, explainVars>>

\* No scan.
ScanIdle ==
  /\ command = "explain"
  /\ enabled = {} /\ requested = {} /\ absent = {}
  /\ opened = FALSE /\ installed = FALSE
  /\ folder = {} /\ caches = {} /\ reachable = FALSE
  /\ pc = "start" /\ todo = {} /\ excludes = {} /\ next = 1
  /\ capacity = "none" /\ regions = [a \in {} |-> "none"] /\ recorded = {} /\ exit = 0

\* No explain.
ExplainIdle ==
  /\ OpenIdle
  /\ mode = "none" /\ owner = Foreign
  /\ stage = "idle" /\ exists = FALSE /\ seen = {"absent"}
  /\ denied = FALSE /\ region = "none" /\ found = FALSE
  /\ report = [d \in ReportDirs |-> "none"] /\ measured = Nothing
  /\ answer = "none" /\ code = 0

CommandInit ==
  \/ Init /\ ExplainIdle
  \/ ScanIdle /\ ExplainInit

CommandNext ==
  \/ command # "explain" /\ Next /\ UNCHANGED <<openVars, explainVars>>
  \/ command = "explain" /\ ExplainNext /\ UNCHANGED scanVars

CommandSpec == CommandInit /\ [][CommandNext]_commandVars

CommandTypeOK ==
  /\ command # "explain" => TypeOK
  /\ ExplainTypeOK
=============================================================================

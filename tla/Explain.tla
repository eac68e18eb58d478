------------------------------- MODULE Explain -------------------------------
(***************************************************************************)
(* sizetrail explain (src/main.rs).  Live, it runs the one adapter the     *)
(* finding belongs to again and says whether the finding is still there,   *)
(* while other processes create and remove what it is about.  With --from  *)
(* it reads a report from standard input, or from a file through a root of *)
(* its own: RootOpen, followed by the gate for dataless files and the      *)
(* read, with the file being evicted or replaced in between.               *)
(***************************************************************************)
EXTENDS RootOpen

CONSTANTS
  Compiled,     \* the adapters there are
  Silent,       \* those that may miss something and still be complete
  Foreign,      \* an adapter that is not compiled
  ReportDirs,   \* the places that may hold a file of the report's name
  CloudFile     \* the place of the file a link with that name leads to

ASSUME ExplainAssumption ==
  /\ Foreign \notin Compiled /\ Silent \subseteq Compiled
  /\ ReportDirs \subseteq Paths
  /\ CloudFile \in ReportDirs

VARIABLES
  mode,         \* live, stdin, file, or none: the root is opened by a scan
  stage,        \* where explain is
  owner,        \* the adapter the finding belongs to
  exists,       \* the finding would be found if looked for now
  seen,         \* history: whether it was there, since explain started
  denied,       \* history: the system denied the place the rescan looked at
  region, found,
  report,       \* what has the report's name, place by place
  measured,     \* history: the place the gate looked at
  answer, code

asked == <<mode, owner>>
outcome == <<answer, code>>
rescan == <<denied, region, found>>
explainVars == <<asked, stage, exists, seen, rescan, report, measured, outcome>>

Presence(there) == IF there THEN "present" ELSE "absent"

\* What a mode does not use has one value.
ExplainInit ==
  /\ mode \in {"live", "stdin", "file", "none"}
  /\ IF mode \in {"file", "none"} THEN OpenInit ELSE OpenIdle
  /\ (mode = "file") = (purpose = "report")
  /\ stage = IF mode = "none" THEN "idle" ELSE "id"
  /\ owner \in IF mode = "live" THEN Compiled \cup {Foreign} ELSE {Foreign}
  /\ exists \in IF mode = "live" THEN BOOLEAN ELSE {FALSE}
  /\ seen = {Presence(exists)}
  /\ denied = FALSE /\ region = "none" /\ found = FALSE
  /\ report \in [ReportDirs -> IF mode = "file" THEN {"file", "evicted", "link", "none"}
                              ELSE {"none"}]
  /\ report[CloudFile] # "link"
  /\ measured = Nothing
  /\ answer = "none" /\ code = 0

Die == stage' = "exit" /\ code' = 1 /\ UNCHANGED answer

\* render_explanation: with --path a set of objects has nothing to print.
Render(provenance) ==
  \/ Die
  \/ stage' = "exit" /\ code' = 0 /\ answer' = provenance

\* The id carries the version of its algorithm.
CheckId ==
  /\ stage = "id"
  /\ \/ Die
     \/ /\ \/ mode = "live" /\ stage' = "owner"
           \/ mode = "file" /\ stage' = "open"
           \/ mode = "stdin" /\ stage' = "parse"
        /\ UNCHANGED outcome
  /\ UNCHANGED <<openVars, asked, exists, seen, rescan, report, measured>>

-----------------------------------------------------------------------------
(* Live                                                                    *)

\* The adapter is compiled in; HOME or --root is given, and the clock can be
\* read.  The capacity is measured as well and does not matter.
CheckOwner ==
  /\ stage = "owner"
  /\ \/ Die
     \/ owner # Foreign /\ stage' = "rescan" /\ UNCHANGED outcome
  /\ UNCHANGED <<openVars, asked, exists, seen, rescan, report, measured>>

\* What the adapters' modules show of a report: complete, it tells what is
\* there, except that a cache of go outside HOME that the system denies is passed
\* over like one that does not exist (GoAdapter!AsRoot); otherwise it may lack
\* it, but nothing is made up.  A root that does not open makes the region
\* unmeasurable, with nothing in it.
Rescan ==
  /\ stage = "rescan"
  /\ denied' \in IF owner \in Silent THEN BOOLEAN ELSE {FALSE}
  /\ \/ region' = "Complete" /\ found' = (exists /\ ~denied')
     \/ /\ region' \in {"NotPresent", "Unmeasurable"}
        /\ found' \in {FALSE, exists}
  /\ stage' = "answer"
  /\ UNCHANGED <<openVars, asked, exists, seen, report, measured, outcome>>

\* MUTANT of Proves: whatever ends in exit code 0 counts.
Settled(status) == status # "Unmeasurable"
Proves(status) == status = "Complete"

Answer ==
  /\ stage = "answer"
  /\ \/ found /\ Render("live")
     \/ /\ ~found
        /\ stage' = "exit"
        /\ answer' = IF Proves(region) THEN "not_found_after_rescan" ELSE "rescan_unmeasurable"
        /\ code' = 3
  /\ UNCHANGED <<openVars, asked, exists, seen, rescan, report, measured>>

-----------------------------------------------------------------------------
(* --from                                                                  *)

\* The parent of the report, made absolute, is opened as a root.
OpenParent ==
  /\ stage = "open"
  /\ Open
  /\ UNCHANGED explainVars

ParentOpened ==
  /\ stage = "open"
  /\ \/ step = "failed" /\ Die
     \/ step = "pinned" /\ stage' = "gate" /\ UNCHANGED outcome
  /\ UNCHANGED <<openVars, asked, exists, seen, rescan, report, measured>>

\* Whatever has the report's name in the directory a path leads to.
Named(place) == IF place \in ReportDirs THEN report[place] ELSE "none"

\* measure_object, first call: getattrlist looks at the name itself, through no
\* link and on the pinned volume only.
Gate ==
  /\ stage = "gate"
  /\ \/ Die
     \/ /\ holds[physical] = "dir"
        /\ Named(physical) # "none"
        /\ VolumeAt(physical) = identity.volume
        /\ stage' = "dataless"
        /\ UNCHANGED outcome
  /\ UNCHANGED <<openVars, asked, exists, seen, rescan, report, measured>>

\* Its second call: symlink_metadata does not follow the name, but the way to it.
CheckDataless ==
  /\ stage = "dataless"
  /\ \/ Die /\ UNCHANGED measured
     \/ /\ holds[Resolve(physical)] = "dir"
        /\ Named(Resolve(physical)) \in {"file", "link"}
        /\ measured' = Resolve(physical)
        /\ stage' = "read"
        /\ UNCHANGED outcome
  /\ UNCHANGED <<openVars, asked, exists, seen, rescan, report>>

\* The name may be a link to a file below the cloud folder.
Target == IF Named(Resolve(physical)) = "link" THEN CloudFile ELSE Resolve(physical)

\* fs::read_to_string follows every link; to read an evicted file is to bring it
\* back, unless the policy makes that an error.
ReadReport ==
  /\ stage = "read"
  /\ LET there == holds[Resolve(physical)] = "dir"
         evicted == there /\ Named(Target) = "evicted"
         brought == IF evicted /\ "materialize" \notin policies THEN {Target} ELSE {}
     IN /\ materialized' = materialized \cup brought
        /\ \/ Die
           \/ /\ there
              /\ Named(Target) = "file" \/ brought # {}
              /\ stage' = "parse"
              /\ UNCHANGED outcome
  /\ UNCHANGED <<system, request, policies, step, pin, failure, answers, listing>>
  /\ UNCHANGED <<asked, exists, seen, rescan, report, measured>>

\* Not JSON, another schema, or without the finding; or rendered as it was.
Parse ==
  /\ stage = "parse"
  /\ Die \/ Render("snapshot_only")
  /\ UNCHANGED <<openVars, asked, exists, seen, rescan, report, measured>>

-----------------------------------------------------------------------------
(* The environment                                                         *)

\* What the finding is about comes or goes.
Toggle ==
  /\ stage \in {"id", "owner", "rescan", "answer"}
  /\ mode = "live"
  /\ changes < MaxChanges
  /\ changes' = changes + 1
  /\ exists' = ~exists
  /\ seen' = seen \cup {Presence(exists')}
  /\ UNCHANGED <<holds, mounted, dataless, request, policies, step, pin, failure>>
  /\ UNCHANGED <<answers, listing, materialized>>
  /\ UNCHANGED <<asked, stage, rescan, report, measured, outcome>>

\* The report is replaced, removed, evicted or brought back by somebody else.
Touch(place) ==
  /\ mode = "file"
  /\ Changing(UNCHANGED <<holds, mounted, dataless>>)
  /\ \E what \in {"file", "evicted", "link", "none"} :
       /\ place = CloudFile => what # "link"
       /\ report' = [report EXCEPT ![place] = what]
  /\ UNCHANGED <<asked, stage, exists, seen, rescan, measured, outcome>>

\* Nobody looks at the file system any more once the root is done with.
Watching ==
  /\ mode \in {"file", "none"} /\ step \notin {"failed", "reported"} /\ stage # "exit"
  /\ UNCHANGED explainVars
Finished ==
  /\ stage = "exit" \/ (mode = "none" /\ step \in {"failed", "reported"})
  /\ UNCHANGED <<openVars, explainVars>>

ExplainNext ==
  \/ CheckId \/ CheckOwner \/ Rescan \/ Answer
  \/ OpenParent \/ ParentOpened \/ Gate \/ CheckDataless \/ ReadReport \/ Parse
  \/ mode = "none" /\ (Open \/ Capacity \/ Snapshots) /\ UNCHANGED explainVars
  \/ Watching /\ OthersAct
  \/ Toggle \/ \E place \in ReportDirs : Touch(place)
  \/ Finished

-----------------------------------------------------------------------------
ExplainTypeOK ==
  /\ OpenTypeOK
  /\ region \in {"none", "Complete", "NotPresent", "Unmeasurable"}
  /\ answer \in {"none", "live", "snapshot_only", "not_found_after_rescan", "rescan_unmeasurable"}
  /\ code \in {0, 1, 3}
  /\ code # 0 => stage = "exit"

\* SPEC.md:807 and main.rs:536-572: explain only says that a finding is gone if
\* it was, at some moment since explain was started, or if it is a cache of go
\* that the system denied (README.md, section 6), and only shows it live if it was
\* there at one.
AbsenceIsProved ==
  /\ answer = "not_found_after_rescan" =>
       "absent" \in seen \/ (denied /\ owner \in Silent)
  /\ answer = "live" => "present" \in seen

\* The next four do not hold (README.md, section 6).
\* SPEC.md:807: what explain calls gone was gone, whichever adapter looked.
GoneWasGone == answer = "not_found_after_rescan" => "absent" \in seen

\* SPEC.md:807: a finding that disappeared is answered with
\* not_found_after_rescan unless something could not be measured.
DisappearanceIsTold == answer = "rescan_unmeasurable" => region = "Unmeasurable"

\* SPEC.md:897: dataless gate; the file that is read was looked at before.
GatedFileIsRead ==
  stage = "parse" /\ mode = "file" /\ changes = 0 => Named(measured) = "file"

\* SPEC.md 3.2: nothing is read from a cloud folder.
CloudFileNotRead ==
  stage = "parse" /\ mode = "file" /\ changes = 0 => Named(physical) # "link"
=============================================================================

---------------------------- MODULE DockerAdapter ----------------------------
(***************************************************************************)
(* docker_report of src/scan.rs and src/adapters/docker.rs: the OrbStack   *)
(* disk image on the host and the object sets of its daemon.  Two probes   *)
(* decide whether the daemon may be asked; the disk is measured whatever   *)
(* they say, in the folder the user's configuration names.  A path is the  *)
(* sequence of its components below the scan root, <<"volume">> one        *)
(* outside it.                                                             *)
(***************************************************************************)
EXTENDS Reports, Sequences, SequencesExt

CONSTANTS
  Custom,       \* the folder the configuration may name as data_dir
  Excludable    \* paths validate_excludes accepts

ASSUME DockerAssumption ==
  /\ Custom \in Seq(STRING)
  /\ Excludable \subseteq Seq(STRING)

Config == <<"orbstack", "vmconfig">>
StoreRoot == <<"containers", "orbstack">>
DataFolder == Append(StoreRoot, "data")
Raw(folder) == Append(folder, "raw")
Sparse(folder) == Append(folder, "sparse")
Candidates(folder) == {Raw(folder), Sparse(folder)}
Images == Candidates(DataFolder) \cup Candidates(Custom)

CONTEXT == "context_inspect"
VERSION == "version"
SYSTEM_DF == "system_df"
Probes == {CONTEXT, VERSION, SYSTEM_DF}
Classes == {"images", "containers", "volumes", "build_cache"}

VARIABLES
  excludes, off,   \* the user's excludes; the probes are disabled
  setting,         \* what the configuration says: "unset", "custom", "bad"
  settings,        \* history: what it said while the adapter ran
  present,         \* the disk images that exist
  pc, calls, state,
  folder,          \* the data folder the images are looked for in
  found,           \* the images seen there
  images, rows,    \* what was reported: disk images, object sets
  gaps, status,
  verified,        \* history: the context and the version both matched
  touched          \* history: paths a system call was made for

given == <<excludes, off, setting, settings, present>>
disk == <<folder, found, images>>
vars == <<given, pc, calls, state, disk, rows, gaps, status, verified, touched>>

Excluded(p) == \E e \in excludes : IsPrefix(e, p)
Parents(p) == {SubSeq(p, 1, n) : n \in 0..(Len(p) - 1)}

Init ==
  /\ excludes \in SUBSET Excludable
  /\ off \in BOOLEAN
  /\ setting \in {"unset", "custom", "bad"}
  /\ settings = {setting}
  /\ present \in SUBSET Images
  /\ pc = CONTEXT
  /\ calls = [p \in Probes |-> 0]
  /\ state = NotPresent
  /\ folder = <<>> /\ found = {}
  /\ images = {} /\ rows = {} /\ gaps = {} /\ status = "none"
  /\ verified = FALSE /\ touched = {}

Answered(p, a) ==
  /\ a \in Possible(off, calls[p], 1)
  /\ calls' = [calls EXCEPT ![p] = IF a \in Refusals THEN @ ELSE @ + 1]

-----------------------------------------------------------------------------
(* probe                                                                   *)

Probed(s) == state' = s /\ pc' = "settings"

\* The context must be the local OrbStack socket, and nothing else.
ContextInspect ==
  /\ pc = CONTEXT
  /\ \E a \in Ends \cup Refusals :
       /\ Answered(CONTEXT, a)
       /\ \/ a = "Success" /\ pc' = VERSION /\ UNCHANGED state
          \/ a \in {"Success", "Failure"} /\ Probed(Degraded("InvalidSelection"))
          \/ a = "InvocationFailed" /\ Probed(NotPresent)
          \/ a \in {"TimedOut"} \cup Refusals /\ Probed(DegradedFrom(a))
  /\ UNCHANGED <<given, disk, rows, gaps, status, verified, touched>>

\* MUTANT of Verified: any version that parses is good enough.
Parsed(v) == v # "garbled"
Verified(v) == v = "pinned"

Version ==
  /\ pc = VERSION
  /\ \E a \in Ends \cup Refusals, v \in {"pinned", "other", "garbled"} :
       /\ Answered(VERSION, a)
       /\ verified' = (a = "Success" /\ v = "pinned")
       /\ \/ a = "Success" /\ Verified(v) /\ Probed(Ready)
          \/ a = "Success" /\ ~Verified(v) /\ Probed(Degraded("UnknownVersion"))
          \/ a = "Failure" /\ Probed(Degraded("ProbeFailed"))
          \/ a \notin {"Success", "Failure"} /\ Probed(DegradedFrom(a))
  /\ UNCHANGED <<given, disk, rows, gaps, status, touched>>

-----------------------------------------------------------------------------
(* disk_inventory                                                          *)

\* MUTANT of DiskGap: an image that cannot be read is left out quietly.
QuietDisk(reason) == UNCHANGED gaps
DiskGap(reason) == gaps' = gaps \cup {Gap("virtual_disk", reason)}

\* configured_data_folder.  A setting that cannot be read or understood ends
\* the disk inventory: no folder is guessed.  An excluded one counts as unset.
Settings ==
  /\ pc = "settings"
  /\ touched' = IF Excluded(Config) THEN touched
                ELSE touched \cup Parents(Config) \cup {Config}
  /\ \/ /\ setting = "unset" \/ Excluded(Config)
        /\ folder' = DataFolder
        /\ pc' = "folder"
        /\ UNCHANGED gaps
     \/ /\ setting = "custom" /\ ~Excluded(Config)
        /\ folder' = Custom
        /\ pc' = "folder"
        /\ UNCHANGED gaps
     \/ /\ ~Excluded(Config)
        /\ \/ \E reason \in IoReasons : DiskGap(reason)
           \/ setting = "bad" /\ DiskGap("InvalidToolOutput")
        /\ pc' = SYSTEM_DF
        /\ UNCHANGED folder
  /\ UNCHANGED <<given, calls, state, found, images, rows, status, verified>>

\* A configured folder is opened as a root of its own; the default one must
\* exist below the scan root.  Only the configured one is checked against the
\* excludes before it is looked for.
OpenFolder ==
  /\ pc = "folder"
  /\ \/ /\ folder = Custom /\ Excluded(Custom)
        /\ pc' = SYSTEM_DF
        /\ UNCHANGED <<gaps, touched>>
     \/ /\ folder = Custom /\ ~Excluded(Custom)
        /\ touched' = touched \cup {Custom}
        /\ \/ pc' = "candidates" /\ UNCHANGED gaps
           \/ /\ \E reason \in IoReasons \ {"AccessDenied"} : DiskGap(reason)
              /\ pc' = SYSTEM_DF
     \/ /\ folder = DataFolder
        /\ touched' = touched \cup Parents(DataFolder)
        /\ \/ pc' = "candidates" /\ UNCHANGED gaps
           \/ /\ present \cap Candidates(DataFolder) = {}
              /\ pc' = SYSTEM_DF
              /\ UNCHANGED gaps
           \/ /\ \E reason \in IoReasons : DiskGap(reason)
              /\ pc' = SYSTEM_DF
  /\ UNCHANGED <<given, calls, state, disk, rows, status, verified>>

Wanted(f) == {p \in Candidates(f) : ~Excluded(p)}

FindImages ==
  /\ pc = "candidates"
  /\ touched' = touched \cup (IF Wanted(folder) = {} THEN {} ELSE {folder})
  /\ \/ /\ found' = Wanted(folder) \cap present
        /\ pc' = "select"
        /\ UNCHANGED gaps
     \/ /\ Wanted(folder) # {}
        /\ \E reason \in IoReasons : DiskGap(reason)
        /\ pc' = SYSTEM_DF
        /\ UNCHANGED found
  /\ UNCHANGED <<given, calls, state, folder, images, rows, status,
                 verified>>

\* MUTANT of Selected: the raw image is taken whatever is known of the daemon.
RawAnyway == IF Raw(folder) \in found THEN {Raw(folder)} ELSE found
\* Two images: only a verified OrbStack says that the raw one is in use.
Selected ==
  IF Cardinality(found) < 2 THEN found
  ELSE IF state = Ready THEN {Raw(folder)} ELSE {}

MeasureImage ==
  /\ pc = "select"
  /\ touched' = touched \cup Selected
  /\ \/ /\ images' = images \cup Selected
        /\ gaps' = IF found # {} /\ Selected = {}
                   THEN gaps \cup {Gap("virtual_disk", "AmbiguousDiskImage")} ELSE gaps
     \/ /\ Selected # {}
        /\ \E reason \in IoReasons : DiskGap(reason)
        /\ UNCHANGED images
  /\ pc' = SYSTEM_DF
  /\ UNCHANGED <<given, calls, state, folder, found, rows, status, verified>>

-----------------------------------------------------------------------------
(* append_daemon_inventory and the report                                  *)

\* MUTANT of Rows: a class not printed, or not understood, is left out.
RowsPrinted(printed) == printed
\* parse_system_df and daemon_item: a readable row of each class, or none.
Rows(printed) == IF printed = Classes THEN Classes ELSE {}

SkipDaemon ==
  /\ pc = SYSTEM_DF
  /\ state # Ready
  /\ pc' = "report"
  /\ UNCHANGED <<given, calls, state, disk, rows, gaps, status, verified, touched>>

SystemDf ==
  /\ pc = SYSTEM_DF
  /\ state = Ready
  /\ \E a \in Ends \cup Refusals, printed \in SUBSET Classes :
       /\ Answered(SYSTEM_DF, a)
       /\ \/ /\ a = "Success"
             /\ rows' = Rows(printed)
             /\ gaps' = IF Rows(printed) # {} THEN gaps
                        ELSE gaps \cup {Gap("daemon_inventory", "InvalidToolOutput")}
          \/ /\ a # "Success"
             /\ gaps' = gaps \cup {Gap("daemon_inventory",
                                       IF a = "Failure" THEN "ProbeFailed" ELSE PolicyGap(a))}
             /\ UNCHANGED rows
  /\ pc' = "report"
  /\ UNCHANGED <<given, state, disk, status, verified, touched>>

\* docker_exclude_applies: the configuration is read again, excluded or not,
\* for every exclude that is not below the default store.
Applies(e) ==
  IsPrefix(StoreRoot, e) \/ (setting = "custom" /\ IsPrefix(Custom, e))

Report ==
  /\ pc = "report"
  /\ touched' = touched \cup (IF \A e \in excludes : IsPrefix(StoreRoot, e) THEN {}
                              ELSE Parents(Config) \cup {Config})
  /\ gaps' = gaps \cup {Gap("docker", "ExcludedByUser") :
                          e \in {x \in excludes : Applies(x)}}
  /\ status' = Status(state, gaps')
  /\ pc' = "done"
  /\ UNCHANGED <<given, calls, state, disk, rows, verified>>

Done == pc = "done" /\ UNCHANGED vars

\* OrbStack or the user changes the configuration.  BOUND: once.
Edit ==
  /\ pc # "done"
  /\ settings = {setting}
  /\ setting' \in {"unset", "custom", "bad"} \ {setting}
  /\ settings' = settings \cup {setting'}
  /\ UNCHANGED <<excludes, off, present, pc, calls, state, disk, rows, gaps, status,
                 verified, touched>>

Next ==
  \/ ContextInspect \/ Version
  \/ Settings \/ OpenFolder \/ FindImages \/ MeasureImage
  \/ SkipDaemon \/ SystemDf \/ Report \/ Done
  \/ Edit

Spec == Init /\ [][Next]_vars

-----------------------------------------------------------------------------
TypeOK ==
  /\ calls \in [Probes -> 0..1]
  /\ state \in States
  /\ folder \in {<<>>, DataFolder, Custom}
  /\ found \cup images \subseteq Images
  /\ rows \subseteq Classes
  /\ \A g \in gaps : g.reason \in Failures \cup {"ExcludedByUser"}
  /\ status \in {"none", "Complete", "NotPresent", "Unmeasurable"}

\* SPEC.md:1083: the daemon is only asked behind the local OrbStack context and
\* the exact verified version pair (docker.rs:546-588): no other daemon's
\* objects are ever attributed to this machine.
DaemonIsPinned == calls[SYSTEM_DF] > 0 => verified /\ state = Ready

\* SPEC.md:1085: the four object sets are reported together or not at all, and
\* a region that is complete has them (docker.rs:206-240, 710-765).
DaemonAllOrNothing ==
  /\ rows \in {{}, Classes}
  /\ status = "Complete" => rows = Classes

\* At most one image is reported, from a folder the configuration named while
\* the adapter ran, and of two only the raw one, behind a verified version
\* (docker.rs:173-204, 311-334): sizes of images not in use are never added up,
\* even if the configuration is changed meanwhile.
RightImage ==
  /\ Cardinality(images) <= 1
  /\ images \subseteq Candidates(folder)
  /\ settings = {"bad"} /\ ~Excluded(Config) => images = {}
  /\ "unset" \notin settings /\ ~Excluded(Config) => images \subseteq Candidates(Custom)
  /\ \A p \in images : Cardinality(found) = 2 => state = Ready /\ p = Raw(folder)

\* A complete region lost no image: what exists in the folder in use was
\* measured, excluded, or lies beside the raw image that was measured.
DiskNotLost ==
  status = "Complete" =>
    \A p \in present \cap Candidates(folder) :
      Excluded(p) \/ p \in images \/ Raw(folder) \in images

\* The next three do not hold (README.md, section 6).
\* SPEC.md:819: a configured folder that was passed over for an exclude of its
\* own is on record.
SkippedIsRecorded ==
  pc = "done" /\ folder = Custom /\ Custom \in excludes =>
    Gap("docker", "ExcludedByUser") \in gaps

\* SPEC.md:817: no stat and no getattrlist in an excluded subtree.
ExcludedUntouched == \A p \in touched : ~Excluded(p)

\* README.md:24: missing coverage, unknown versions included, has typed reasons.
StatusIsExplained == status = "Unmeasurable" => Unmeasured(gaps) # {}

\* Violated by DockerAdapter_denied.
\* SPEC.md:1101: when the system refuses access to the default store, the region
\* is not reported as not present.
DeniedIsNotAbsent ==
  status = "NotPresent" /\ folder = DataFolder =>
    \A g \in gaps : g.reason \notin {"AccessDenied", "PolicyDeniedUnknown"}
=============================================================================

-------------------------- MODULE DockerAdapterProofs --------------------------
(***************************************************************************)
(* The Docker adapter for any excludes, any configured folder and any      *)
(* change of the configuration: whose daemon is asked, and which disk      *)
(* images a region stands for.                                             *)
(***************************************************************************)
EXTENDS DockerAdapter, ReportsProofs, FiniteSetTheorems, SequenceTheorems

-----------------------------------------------------------------------------
(* Paths                                                                   *)

\* What lies below a path lies below what is above it.
LEMMA PrefixOfAppend ==
  ASSUME NEW S, NEW e \in Seq(S), NEW s \in Seq(S), NEW x \in S, IsPrefix(e, s)
  PROVE  IsPrefix(e, Append(s, x))
<1> DEFINE t == Append(s, x)
           n == Len(e)
<1>1. /\ n \in Nat /\ Len(s) \in Nat /\ n <= Len(s)
      /\ SubSeq(e, 1, n) = SubSeq(s, 1, n)
  BY LenProperties DEF IsPrefix
<1>2. /\ Len(t) = Len(s) + 1
      /\ \A i \in 1..n : t[i] = s[i] /\ s[i] \in S
  BY <1>1, AppendProperties, ElementOfSeq
<1> HIDE DEF t, n
<1>3. /\ SubSeq(s, 1, n) \in Seq(S) /\ SubSeq(t, 1, n) \in Seq(S)
      /\ Len(SubSeq(s, 1, n)) = n /\ Len(SubSeq(t, 1, n)) = n
      /\ \A i \in 1..n : SubSeq(s, 1, n)[i] = s[i] /\ SubSeq(t, 1, n)[i] = t[i]
  BY <1>1, <1>2, SubSeqProperties
<1>4. SubSeq(s, 1, n) = SubSeq(t, 1, n)
  BY <1>2, <1>3, SeqEqual
<1> QED
  BY <1>1, <1>2, <1>4 DEF IsPrefix, t, n

\* The images of a folder, of which there are at most two.
LEMMA CandidatesFacts ==
  ASSUME NEW f
  PROVE  IsFiniteSet(Candidates(f)) /\ Raw(f) \in Candidates(f)
<1>1. Candidates(f) = {Raw(f)} \cup {Sparse(f)}
  BY DEF Candidates
<1>2. IsFiniteSet({Raw(f)} \cup {Sparse(f)})
  <2>1. IsFiniteSet({Raw(f)})
    BY FS_Singleton
  <2> QED
    BY <2>1, FS_AddElement
<1> QED
  BY <1>1, <1>2

\* Where the folder is excluded, so is what lies in it.
LEMMA ExcludedFolder ==
  ASSUME excludes \subseteq Excludable, Excluded(Custom)
  PROVE  \A p \in Candidates(Custom) : Excluded(p)
<1> SUFFICES ASSUME NEW p \in Candidates(Custom) PROVE Excluded(p)
  OBVIOUS
<1> DEFINE S == STRING \cup {"raw", "sparse"}
<1>1. PICK e \in excludes : IsPrefix(e, Custom)
  BY DEF Excluded
<1>2. e \in Seq(STRING) /\ Custom \in Seq(STRING) /\ STRING \subseteq S
  BY DockerAssumption
<1>3. e \in Seq(S) /\ Custom \in Seq(S) /\ "raw" \in S /\ "sparse" \in S
  <2>1. "raw" \in S /\ "sparse" \in S
    OBVIOUS
  <2> HIDE DEF S
  <2> QED
    BY <1>2, <2>1, SeqMonotonic
<1> HIDE DEF S
<1>4. IsPrefix(e, Append(Custom, "raw")) /\ IsPrefix(e, Append(Custom, "sparse"))
  BY <1>1, <1>3, PrefixOfAppend
<1>5. p = Append(Custom, "raw") \/ p = Append(Custom, "sparse")
  BY Zenon DEF Candidates, Raw, Sparse
<1> QED
  BY <1>4, <1>5 DEF Excluded

-----------------------------------------------------------------------------
(* The inductive invariant                                                 *)

\* The daemon is asked last, and the adapter is ready just behind a context and
\* a version that both matched.
Asked ==
  /\ calls \in [Probes -> Nat]
  /\ pc \in {CONTEXT, VERSION} => state = NotPresent
  /\ state \in States
  /\ state = Ready => verified
  /\ pc \notin {"report", "done"} => calls[SYSTEM_DF] = 0
  /\ calls[SYSTEM_DF] > 0 => state = Ready

\* The rows of a daemon that was asked, or a gap.
Listed ==
  /\ rows \in {{}, Classes}
  /\ pc = "report" /\ state = Ready => rows = Classes \/ Unmeasured(gaps) # {}

\* Where the images are looked for, and which of them is taken.
Searching == pc \in {"folder", "candidates", "select"}
Configured ==
  ~Excluded(Config) =>
    \/ folder = DataFolder /\ "unset" \in settings
    \/ folder = Custom /\ "custom" \in settings
Chosen ==
  /\ excludes \subseteq Excludable
  /\ setting \in settings
  /\ Searching \/ images # {} => Configured
  /\ pc = "folder" => folder \in {DataFolder, Custom}
  /\ images \in {{}, Selected}
  /\ found \subseteq Candidates(folder)
  /\ pc \in {CONTEXT, VERSION, "settings"} \cup {"folder", "candidates"} => found = {}
  /\ pc \in {CONTEXT, VERSION, "settings"} \/ Searching => images = {}

\* What becomes of an image that exists.
Accounted ==
  \A p \in present \cap Candidates(folder) :
    Excluded(p) \/ p \in images \/ Raw(folder) \in images
Kept ==
  /\ pc = "select" => found = Wanted(folder) \cap present
  /\ pc \in {SYSTEM_DF, "report"} => Accounted \/ Unmeasured(gaps) # {}

Final ==
  /\ pc # "done" => status = "none"
  /\ status = "Complete" => rows = Classes /\ Accounted

DockerInv == Asked /\ Listed /\ Chosen /\ Kept /\ Final

LEMMA DockerInit == Init => DockerInv
<1> SUFFICES ASSUME Init PROVE DockerInv
  OBVIOUS
<1>1. Asked
  BY DEF Init, Asked, States, NotPresent, Ready, Probes, CONTEXT, VERSION, SYSTEM_DF
<1>2. Listed /\ Kept /\ Final
  BY DEF Init, Listed, Kept, Final, CONTEXT, SYSTEM_DF
<1>3. Chosen
  BY DEF Init, Chosen, Searching, CONTEXT
<1> QED
  BY <1>1, <1>2, <1>3 DEF DockerInv

LEMMA AskedStep == Asked /\ [Next]_vars => Asked'
<1> SUFFICES ASSUME Asked, [Next]_vars PROVE Asked'
  OBVIOUS
<1> USE DEF Asked, CONTEXT, VERSION, SYSTEM_DF, Probes
<1>1. \A p \in Probes : \A a : Answered(p, a) =>
        /\ calls' \in [Probes -> Nat]
        /\ \A q \in Probes : q # p => calls'[q] = calls[q]
  BY DEF Answered
<1>2. \A r : Degraded(r) # Ready
  BY DEF Degraded, Ready
<1>3. CASE ContextInspect
  <2>1. PICK a \in Ends \cup Refusals : Answered(CONTEXT, a)
    BY <1>3 DEF ContextInspect
  <2>2. calls' \in [Probes -> Nat] /\ calls'[SYSTEM_DF] = 0
    BY <1>1, <1>3, <2>1 DEF ContextInspect
  <2>3. \/ pc' = VERSION /\ state' = state
        \/ pc' = "settings" /\ state' \in States \ {Ready}
    BY <1>2, <1>3 DEF ContextInspect, Probed, DegradedFrom, States, DegradedReasons,
       NotPresent, Ready
  <2> QED
    BY <1>3, <2>2, <2>3 DEF ContextInspect, NotPresent, Ready
<1>4. CASE Version
  <2>1. PICK a \in Ends \cup Refusals, v \in {"pinned", "other", "garbled"} :
          /\ Answered(VERSION, a)
          /\ verified' = (a = "Success" /\ v = "pinned")
          /\ \/ a = "Success" /\ Verified(v) /\ Probed(Ready)
             \/ a = "Success" /\ ~Verified(v) /\ Probed(Degraded("UnknownVersion"))
             \/ a = "Failure" /\ Probed(Degraded("ProbeFailed"))
             \/ a \notin {"Success", "Failure"} /\ Probed(DegradedFrom(a))
    BY <1>4 DEF Version
  <2>2. calls' \in [Probes -> Nat] /\ calls'[SYSTEM_DF] = 0
    BY <1>1, <1>4, <2>1 DEF Version
  <2>3. pc' = "settings" /\ state' \in States /\ (state' = Ready => verified')
    BY <1>2, <2>1 DEF Verified, Probed, DegradedFrom, States, DegradedReasons
  <2> QED
    BY <2>2, <2>3
<1>5. CASE SystemDf
  <2>1. PICK a \in Ends \cup Refusals : Answered(SYSTEM_DF, a)
    BY <1>5 DEF SystemDf
  <2> QED
    BY <1>1, <1>5, <2>1 DEF SystemDf
<1>6. CASE Settings \/ OpenFolder \/ FindImages \/ MeasureImage \/ SkipDaemon
  BY <1>6 DEF Settings, OpenFolder, FindImages, MeasureImage, SkipDaemon
<1>7. CASE Report \/ Done \/ Edit \/ UNCHANGED vars
  BY <1>7 DEF Report, Done, Edit, vars
<1> QED
  BY <1>3, <1>4, <1>5, <1>6, <1>7 DEF Next

\* The rows come all together, or a gap says that they are missing.
LEMMA ListedStep == DockerInv /\ [Next]_vars => Listed'
<1> SUFFICES ASSUME DockerInv, [Next]_vars PROVE Listed'
  OBVIOUS
<1> USE DEF Listed, CONTEXT, VERSION, SYSTEM_DF
<1>1. CASE SystemDf
  <2>1. PICK a \in Ends \cup Refusals, printed \in SUBSET Classes :
          \/ /\ a = "Success"
             /\ rows' = Rows(printed)
             /\ gaps' = IF Rows(printed) # {} THEN gaps
                        ELSE gaps \cup {Gap("daemon_inventory", "InvalidToolOutput")}
          \/ /\ a # "Success"
             /\ gaps' = gaps \cup {Gap("daemon_inventory",
                                       IF a = "Failure" THEN "ProbeFailed" ELSE PolicyGap(a))}
             /\ UNCHANGED rows
    BY <1>1 DEF SystemDf
  <2>2. rows' \in {{}, Classes}
    BY <2>1 DEF DockerInv, Rows
  <2>3. rows' = Classes \/ \E r \in Failures : Gap("daemon_inventory", r) \in gaps'
    <3>1. CASE a = "Success"
      BY <2>1, <3>1 DEF Rows, Failures, Classes
    <3>2. CASE a # "Success"
      <4>1. (IF a = "Failure" THEN "ProbeFailed" ELSE PolicyGap(a)) \in Failures
        BY <3>2, ReasonsAreFailures
      <4> QED
        BY <2>1, <3>2, <4>1
    <3> QED
      BY <3>1, <3>2
  <2> QED
    BY <2>2, <2>3, FailureIsUnmeasured
<1>2. CASE SkipDaemon
  BY <1>2 DEF DockerInv, SkipDaemon
<1>3. CASE ContextInspect \/ Version
  BY <1>3 DEF DockerInv, ContextInspect, Version, Probed
<1>4. CASE Settings \/ OpenFolder \/ FindImages \/ MeasureImage
  BY <1>4 DEF DockerInv, Settings, OpenFolder, FindImages, MeasureImage
<1>5. CASE Report \/ Done \/ Edit \/ UNCHANGED vars
  BY <1>5 DEF DockerInv, Report, Done, Edit, vars
<1> QED
  BY <1>1, <1>2, <1>3, <1>4, <1>5 DEF Next

\* A folder is only searched that the configuration named, and an image only
\* taken from what was found there.
LEMMA ChosenStep == DockerInv /\ [Next]_vars => Chosen'
<1> SUFFICES ASSUME DockerInv, [Next]_vars PROVE Chosen'
  OBVIOUS
<1> USE DEF Chosen, Searching, CONTEXT, VERSION, SYSTEM_DF
<1>1. CASE Settings
  BY <1>1 DEF DockerInv, Settings, Configured, Excluded, Selected, given
<1>2. CASE OpenFolder
  BY <1>2 DEF DockerInv, OpenFolder, Configured, Excluded, Selected, disk, given
<1>3. CASE FindImages
  <2>1. Wanted(folder) \subseteq Candidates(folder)
    BY DEF Wanted
  <2> QED
    BY <1>3, <2>1 DEF DockerInv, FindImages, Configured, Excluded, Selected, given
<1>4. CASE MeasureImage
  <2>1. images = {} /\ images' \in {{}, Selected} /\ Selected' = Selected
    BY <1>4 DEF DockerInv, MeasureImage, Selected
  <2> QED
    BY <1>4, <2>1 DEF DockerInv, MeasureImage, Configured, Excluded, given
<1>5. CASE ContextInspect \/ Version
  BY <1>5 DEF DockerInv, ContextInspect, Version, Probed, Configured, Excluded, Selected,
     disk, given, Asked
<1>6. CASE SkipDaemon \/ SystemDf
  BY <1>6 DEF DockerInv, SkipDaemon, SystemDf, Configured, Excluded, Selected, disk, given
<1>7. CASE Report \/ Done \/ UNCHANGED vars
  BY <1>7 DEF DockerInv, Report, Done, Configured, Excluded, Selected, disk, given, vars
<1>8. CASE Edit
  BY <1>8 DEF DockerInv, Edit, Configured, Excluded, Selected, disk
<1> QED
  BY <1>1, <1>2, <1>3, <1>4, <1>5, <1>6, <1>7, <1>8 DEF Next

\* An image that exists is taken, excluded, or beside the one in use; otherwise a
\* gap says so.
LEMMA KeptStep == DockerInv /\ [Next]_vars => Kept'
<1> SUFFICES ASSUME DockerInv, [Next]_vars PROVE Kept'
  OBVIOUS
<1> USE DEF Kept, CONTEXT, VERSION, SYSTEM_DF
<1>1. \A r \in Failures : DiskGap(r) => Unmeasured(gaps') # {}
  BY FailureIsUnmeasured DEF DiskGap
<1>2. IoReasons \subseteq Failures /\ {"InvalidToolOutput", "AmbiguousDiskImage"} \subseteq Failures
  BY ReasonsAreFailures
<1>3. CASE Settings
  BY <1>1, <1>2, <1>3 DEF Settings
<1>4. CASE OpenFolder
  <2> SUFFICES ASSUME pc' = SYSTEM_DF
               PROVE  Accounted' \/ Unmeasured(gaps') # {}
    BY <1>4 DEF OpenFolder
  <2>1. UNCHANGED <<present, excludes, folder, images>>
    BY <1>4 DEF OpenFolder, given, disk
  <2>2. CASE folder = Custom /\ Excluded(Custom)
    <3>1. \A p \in Candidates(folder) : Excluded(p)
      BY <2>2, ExcludedFolder DEF DockerInv, Chosen
    <3> QED
      BY <2>1, <3>1 DEF Accounted, Excluded
  <2>3. CASE present \cap Candidates(folder) = {}
    BY <2>1, <2>3 DEF Accounted
  <2>4. CASE \E reason \in IoReasons : DiskGap(reason)
    BY <1>1, <1>2, <2>4
  <2> QED
    BY <1>4, <2>2, <2>3, <2>4 DEF OpenFolder
<1>5. CASE FindImages
  <2>1. CASE pc' = "select"
    BY <1>5, <2>1 DEF FindImages, Wanted, Excluded, given
  <2>2. CASE pc' = SYSTEM_DF
    BY <1>1, <1>2, <1>5, <2>2 DEF FindImages
  <2> QED
    BY <1>5, <2>1, <2>2 DEF FindImages
<1>6. CASE MeasureImage
  <2>1. found = Wanted(folder) \cap present /\ images = {}
    BY <1>6 DEF MeasureImage, DockerInv, Chosen, Searching
  <2>2. UNCHANGED <<present, excludes, folder>> /\ pc' = SYSTEM_DF
    BY <1>6 DEF MeasureImage, given
  <2>3. CASE \E reason \in IoReasons : DiskGap(reason)
    BY <1>1, <1>2, <2>2, <2>3
  <2>4. CASE images' = images \cup Selected /\ Selected = found
    BY <2>1, <2>2, <2>4 DEF Accounted, Wanted, Excluded
  <2>5. CASE images' = images \cup Selected /\ Selected = {Raw(folder)}
    BY <2>1, <2>2, <2>5 DEF Accounted, Raw
  <2>6. CASE /\ found # {} /\ Selected = {}
             /\ gaps' = gaps \cup {Gap("virtual_disk", "AmbiguousDiskImage")}
    BY <1>2, <2>2, <2>6, FailureIsUnmeasured
  <2> QED
    BY <1>6, <2>3, <2>4, <2>5, <2>6 DEF MeasureImage, Selected
<1>7. CASE SkipDaemon
  BY <1>7 DEF SkipDaemon, DockerInv, Accounted, Excluded, given, disk
<1>8. CASE SystemDf
  <2>1. gaps \subseteq gaps'
    BY <1>8 DEF SystemDf
  <2>2. pc' = "report" /\ UNCHANGED <<present, excludes, folder, images>>
    BY <1>8 DEF SystemDf, given, disk
  <2> QED
    BY <1>8, <2>1, <2>2, UnmeasuredGrows DEF SystemDf, DockerInv, Accounted, Excluded
<1>9. CASE ContextInspect \/ Version
  BY <1>9 DEF ContextInspect, Version, Probed
<1>10. CASE Report \/ Done \/ UNCHANGED vars
  BY <1>10 DEF Report, Done, DockerInv, Wanted, Accounted, Excluded, given, disk, vars
<1>11. CASE Edit
  BY <1>11 DEF Edit, DockerInv, Wanted, Accounted, Excluded, disk
<1> QED
  BY <1>3, <1>4, <1>5, <1>6, <1>7, <1>8, <1>9, <1>10, <1>11 DEF Next

\* The status is only decided at the end, from every gap.
LEMMA FinalStep == DockerInv /\ [Next]_vars => Final'
<1> SUFFICES ASSUME DockerInv, [Next]_vars PROVE Final'
  OBVIOUS
<1> USE DEF Final, CONTEXT, VERSION, SYSTEM_DF
<1>1. CASE Report
  <2> SUFFICES ASSUME status' = "Complete" PROVE (rows = Classes /\ Accounted)'
    BY <1>1 DEF Report
  <2>1. state = Ready /\ Unmeasured(gaps') = {}
    <3>1. state \in States /\ Status(state, gaps') = "Complete"
      BY <1>1 DEF Report, DockerInv, Asked
    <3> QED
      BY <3>1, StatusOf
  <2>2. Unmeasured(gaps) = {}
    BY <1>1, <2>1, UnmeasuredGrows DEF Report
  <2>3. rows = Classes /\ Accounted
    BY <1>1, <2>1, <2>2 DEF Report, DockerInv, Listed, Kept
  <2> QED
    BY <1>1, <2>3 DEF Report, Accounted, Excluded, given, disk
<1>2. CASE Done \/ UNCHANGED vars
  BY <1>2 DEF Done, DockerInv, Accounted, Excluded, given, disk, vars
<1>3. CASE pc # "done" /\ status' = status
  BY <1>3 DEF DockerInv
<1>4. CASE Settings \/ OpenFolder \/ FindImages \/ MeasureImage \/ SkipDaemon \/ SystemDf
  BY <1>3, <1>4 DEF Settings, OpenFolder, FindImages, MeasureImage, SkipDaemon, SystemDf
<1>5. CASE ContextInspect \/ Version \/ Edit
  BY <1>3, <1>5 DEF ContextInspect, Version, Edit
<1> QED
  BY <1>1, <1>2, <1>4, <1>5 DEF Next

LEMMA DockerStep == DockerInv /\ [Next]_vars => DockerInv'
BY AskedStep, ListedStep, ChosenStep, KeptStep, FinalStep DEF DockerInv

-----------------------------------------------------------------------------
(* What the invariant says of a report                                     *)

\* SPEC.md:1083: for any excludes, folder and course of the probes, the daemon is
\* only asked behind the verified context and version.
THEOREM DaemonIsAlwaysPinned == Spec => []DaemonIsPinned
<1>1. DockerInv => DaemonIsPinned
  BY DEF DockerInv, Asked, DaemonIsPinned
<1> QED
  BY <1>1, DockerInit, DockerStep, PTL DEF Spec

\* SPEC.md:1085: the object sets are reported together or not at all, and a
\* complete region has them.
THEOREM DaemonIsAllOrNothing == Spec => []DaemonAllOrNothing
<1>1. DockerInv => DaemonAllOrNothing
  BY DEF DockerInv, Listed, Final, DaemonAllOrNothing
<1> QED
  BY <1>1, DockerInit, DockerStep, PTL DEF Spec

\* SPEC.md:1085: at most one image is reported, from a folder the configuration
\* named meanwhile, and of two the raw one behind a verified version.
THEOREM ImageIsRight == Spec => []RightImage
<1>1. DockerInv => RightImage
  <2> SUFFICES ASSUME DockerInv PROVE RightImage
    OBVIOUS
  <2>1. /\ images \in {{}, Selected} /\ found \subseteq Candidates(folder)
        /\ images # {} => Configured
    BY DEF DockerInv, Chosen
  <2>2. IsFiniteSet(found)
    BY <2>1, CandidatesFacts, FS_Subset
  <2>3. Cardinality(found) \in Nat
    BY <2>2, FS_CardinalityType
  <2>4. Cardinality(images) <= 1
    <3>1. Cardinality({}) = 0 /\ Cardinality({Raw(folder)}) = 1
      BY FS_EmptySet, FS_Singleton
    <3>2. images = {} \/ images = {Raw(folder)} \/ (images = found /\ Cardinality(found) < 2)
      BY <2>1 DEF Selected
    <3> QED
      BY <2>3, <3>1, <3>2
  <2>5. images \subseteq Candidates(folder)
    BY <2>1, CandidatesFacts DEF Selected
  <2>6. \A p \in images : Cardinality(found) = 2 => state = Ready /\ p = Raw(folder)
    BY <2>1 DEF Selected
  <2>7. /\ settings = {"bad"} /\ ~Excluded(Config) => images = {}
        /\ "unset" \notin settings /\ ~Excluded(Config) => images \subseteq Candidates(Custom)
    BY <2>1, <2>5 DEF Configured
  <2> QED
    BY <2>4, <2>5, <2>6, <2>7 DEF RightImage
<1> QED
  BY <1>1, DockerInit, DockerStep, PTL DEF Spec

\* SPEC.md:796: a complete region lost no image that exists in the folder in use.
THEOREM DiskIsNotLost == Spec => []DiskNotLost
<1>1. DockerInv => DiskNotLost
  BY DEF DockerInv, Final, Accounted, DiskNotLost
<1> QED
  BY <1>1, DockerInit, DockerStep, PTL DEF Spec
================================================================================

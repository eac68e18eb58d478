----------------------------- MODULE ProbeRunner -----------------------------
(***************************************************************************)
(* PolicyCtx::run of src/policy.rs: the one place where the program starts *)
(* another program.  A call is admitted by the invocation tracker, spawns  *)
(* a child whose standard output and error are pipes, starts one reader    *)
(* thread per pipe, polls the child against a deadline, and joins the      *)
(* readers before it answers.  The processes are the caller ("runner"),    *)
(* the two readers, the child, and possibly a descendant of the child that *)
(* inherited the write ends of the pipes and outlives it.                  *)
(***************************************************************************)
EXTENDS Naturals

CONSTANTS
  Probes, Strangers, Families, Family, MaxCalls,  \* see ProbeContract
  PipeCap,      \* units a pipe holds before its writer blocks
  MaxOut,       \* BOUND: units a child writes to one stream
  SigchldIgnored  \* the values the inherited SIGCHLD disposition may have

ASSUME RunnerAssumption ==
  /\ Probes \cap Strangers = {}
  /\ Family \in [Probes -> Families]
  /\ MaxCalls \in [Probes -> Nat]
  /\ PipeCap \in Nat \ {0}
  /\ MaxOut \in Nat
  /\ SigchldIgnored \subseteq BOOLEAN

Streams == {"stdout", "stderr"}

VARIABLES
  pc,           \* where the runner is
  probe,        \* the probe of the current or of the last call
  counts,       \* InvocationTracker.counts
  disabled,     \* disabling variables present in the environment
  autoReap,     \* SIGCHLD ignored: the kernel discards exit statuses
  answer,       \* what run returned last
  ending,       \* why the polling loop was left
  killed,       \* Child::kill succeeded
  child,        \* the child process
  doomed,       \* SIGKILL is pending for the child
  success,      \* the exit status of the child is zero
  heir,         \* a descendant of the child holds the write ends
  toWrite,      \* units the child still wants to write to each stream
  written, got, \* units written to, and read from, each pipe
  reader,       \* the thread that read_all started for each stream
  expired       \* Instant::now() >= deadline

tracker == <<counts, disabled, autoReap>>
process == <<child, doomed, success, heir, toWrite, written>>
threads == <<got, reader>>
call    == <<probe, ending, killed>>
vars == <<pc, answer, expired, tracker, process, threads, call>>

Init ==
  /\ pc = "idle"
  /\ probe \in Probes
  /\ counts = [p \in Probes |-> 0]
  /\ disabled \in SUBSET Families
  /\ autoReap \in SigchldIgnored
  /\ answer = "None"
  /\ ending = "none"
  /\ killed = FALSE
  /\ child = "none"
  /\ doomed = FALSE
  /\ success = FALSE
  /\ heir = FALSE
  /\ toWrite = [s \in Streams |-> 0]
  /\ written = [s \in Streams |-> 0]
  /\ got = [s \in Streams |-> 0]
  /\ reader = [s \in Streams |-> "none"]
  /\ expired = FALSE

-----------------------------------------------------------------------------
(* The tracker: InvocationTracker::reserve, in the order of its checks.    *)

\* MUTANT of Refusal: one call too many.
RefusalOffByOne(p) ==
  CASE p \notin Probes               -> "UndeclaredProbe"
    [] p \in Probes /\ Family[p] \in disabled -> "Disabled"
    [] p \in Probes /\ Family[p] \notin disabled /\ counts[p] > MaxCalls[p]
                                     -> "CallLimitExceeded"
    [] OTHER                         -> "Admitted"

Refusal(p) ==
  CASE p \notin Probes           -> "UndeclaredProbe"
    [] p \in Probes /\ Family[p] \in disabled -> "Disabled"
    [] p \in Probes /\ Family[p] \notin disabled /\ counts[p] >= MaxCalls[p]
                                 -> "CallLimitExceeded"
    [] OTHER                     -> "Admitted"

Refuse(p) ==
  /\ pc = "idle"
  /\ Refusal(p) # "Admitted"
  /\ probe' = p
  /\ answer' = Refusal(p)
  /\ UNCHANGED <<pc, expired, tracker, process, threads, ending, killed>>

\* MUTANT of Counted: the count runs the wrong way.
CountedDown(p) == [counts EXCEPT ![p] = @ - 1]
Counted(p) == [counts EXCEPT ![p] = @ + 1]

\* The call is counted before anything is spawned, and stays counted.
Reserve(p) ==
  /\ pc = "idle"
  /\ Refusal(p) = "Admitted"
  /\ counts' = Counted(p)
  /\ probe' = p
  /\ pc' = "spawn"
  /\ answer' = "None"
  /\ ending' = "none"
  /\ UNCHANGED <<disabled, autoReap, expired, process, threads, killed>>

Return(a) ==
  /\ pc' = "idle"
  /\ answer' = a

SpawnFails ==
  /\ pc = "spawn"
  /\ Return("InvocationFailed")
  /\ child' = "none"
  /\ reader' = [s \in Streams |-> "none"]
  /\ UNCHANGED <<expired, tracker, doomed, success, heir, toWrite, written,
                 got, call>>

\* Spawn, take both pipe ends, start both readers, set the deadline.
Spawn ==
  /\ pc = "spawn"
  /\ pc' = "poll"
  /\ child' = "running"
  /\ doomed' = FALSE
  /\ success' = FALSE
  /\ heir' = FALSE
  /\ toWrite' \in [Streams -> 0..MaxOut]
  /\ written' = [s \in Streams |-> 0]
  /\ got' = [s \in Streams |-> 0]
  /\ reader' = [s \in Streams |-> "reading"]
  /\ expired' = FALSE
  /\ killed' = FALSE
  /\ UNCHANGED <<answer, tracker, probe, ending>>

-----------------------------------------------------------------------------
(* The polling loop.  The sleep between two polls changes nothing.         *)

PollExited ==
  /\ pc = "poll"
  /\ child = "exited"
  /\ child' = "reaped"
  /\ ending' = "exit"
  /\ pc' = "joinStdout"
  /\ UNCHANGED <<answer, expired, tracker, doomed, success, heir, toWrite,
                 written, threads, probe, killed>>

DeadlinePassed == child = "running" /\ expired

PollDeadline ==
  /\ pc = "poll"
  /\ DeadlinePassed
  /\ ending' = "timeout"
  /\ pc' = "kill"
  /\ UNCHANGED <<answer, expired, tracker, process, threads, probe, killed>>

\* With SIGCHLD ignored, waiting for an ended child fails with ECHILD.
PollError ==
  /\ pc = "poll"
  /\ child = "gone"
  /\ ending' = "error"
  /\ pc' = "kill"
  /\ UNCHANGED <<answer, expired, tracker, process, threads, probe, killed>>

\* MUTANT of Signalled: the child is never sent SIGKILL.
SignalForgotten == doomed
Signalled == doomed \/ child = "running"

\* terminate: kill and wait are both attempted, whatever the first returns.
Kill ==
  /\ pc = "kill"
  /\ killed' = (child # "gone")
  /\ doomed' = Signalled
  /\ pc' = "wait"
  /\ UNCHANGED <<answer, expired, tracker, child, success, heir, toWrite,
                 written, threads, probe, ending>>

\* MUTANT of Wait: a child that was killed is not reaped.
WaitSkipped ==
  /\ pc = "wait"
  /\ IF killed THEN pc' = "joinStdout" /\ UNCHANGED answer
               ELSE Return("InvocationFailed")
  /\ UNCHANGED <<expired, tracker, process, threads, call>>

Wait ==
  /\ pc = "wait"
  /\ \/ /\ child = "exited"
        /\ child' = "reaped"
        /\ IF killed THEN pc' = "joinStdout" /\ UNCHANGED answer
                     ELSE Return("InvocationFailed")
     \/ /\ child = "gone"
        /\ Return("InvocationFailed")
        /\ UNCHANGED child
  /\ UNCHANGED <<expired, tracker, doomed, success, heir, toWrite, written,
                 threads, call>>

\* MUTANTS of Joined: a failed reader is taken for a finished one; the join
\* does not wait for the thread.
JoinErrorIgnored(s) == reader[s] \in {"done", "failed"}
JoinNotAwaited(s)   == reader[s] \in {"done", "reading"}
Joined(s)           == reader[s] = "done"

JoinStdout ==
  /\ pc = "joinStdout"
  /\ \/ Joined("stdout") /\ pc' = "joinStderr" /\ UNCHANGED answer
     \/ reader["stdout"] = "failed" /\ Return("InvocationFailed")
  /\ UNCHANGED <<expired, tracker, process, threads, call>>

Verdict ==
  CASE ending = "exit" /\ success  -> "Success"
    [] ending = "exit" /\ ~success -> "Failure"
    [] ending = "timeout"          -> "TimedOut"
    [] OTHER                       -> "InvocationFailed"

JoinStderr ==
  /\ pc = "joinStderr"
  /\ \/ Joined("stderr") /\ Return(Verdict)
     \/ reader["stderr"] = "failed" /\ Return("InvocationFailed")
  /\ UNCHANGED <<expired, tracker, process, threads, call>>

Runner ==
  \/ SpawnFails \/ Spawn
  \/ PollExited \/ PollDeadline \/ PollError
  \/ Kill \/ Wait \/ JoinStdout \/ JoinStderr

-----------------------------------------------------------------------------
(* The reader threads: read_all reads to the end of its pipe.              *)

WriteEndOpen == child = "running" \/ heir

\* MUTANT of CanRead: the pipes are only read once the child has ended.
ReadAfterExit(s) ==
  reader[s] = "reading" /\ got[s] < written[s] /\ child # "running"
CanRead(s) == reader[s] = "reading" /\ got[s] < written[s]

Read(s) ==
  /\ CanRead(s)
  /\ got' = [got EXCEPT ![s] = @ + 1]
  /\ UNCHANGED <<pc, answer, expired, tracker, process, reader, call>>

ReadEnd(s) ==
  /\ reader[s] = "reading"
  /\ got[s] = written[s]
  /\ ~WriteEndOpen
  /\ reader' = [reader EXCEPT ![s] = "done"]
  /\ UNCHANGED <<pc, answer, expired, tracker, process, got, call>>

ReadFails(s) ==
  /\ reader[s] = "reading"
  /\ reader' = [reader EXCEPT ![s] = "failed"]
  /\ UNCHANGED <<pc, answer, expired, tracker, process, got, call>>

-----------------------------------------------------------------------------
(* The child, its descendant, and time.                                    *)

\* A write blocks on a full pipe; once the reader is gone it is discarded.
Write(s) ==
  /\ child = "running"
  /\ toWrite[s] > 0
  /\ toWrite' = [toWrite EXCEPT ![s] = @ - 1]
  /\ \/ /\ reader[s] = "reading"
        /\ written[s] - got[s] < PipeCap
        /\ written' = [written EXCEPT ![s] = @ + 1]
     \/ /\ reader[s] = "failed"
        /\ UNCHANGED written
  /\ UNCHANGED <<pc, answer, expired, tracker, child, doomed, success, heir,
                 threads, call>>

\* A descendant that keeps standard output and error outlives the child.
Bequeath ==
  /\ child = "running"
  /\ ~heir
  /\ heir' = TRUE
  /\ UNCHANGED <<pc, answer, expired, tracker, child, doomed, success,
                 toWrite, written, threads, call>>

HeirCloses ==
  /\ heir
  /\ heir' = FALSE
  /\ UNCHANGED <<pc, answer, expired, tracker, child, doomed, success,
                 toWrite, written, threads, call>>

Exit(ok) ==
  /\ child = "running"
  /\ child' = IF autoReap THEN "gone" ELSE "exited"
  /\ success' = ok
  /\ doomed' = FALSE
  /\ UNCHANGED <<pc, answer, expired, tracker, heir, toWrite, written,
                 threads, call>>

\* The child has written all its output and exits with a status.
Finish(ok) == (\A s \in Streams : toWrite[s] = 0) /\ Exit(ok)

\* It ends earlier, with a failure status: a crash, or the SIGKILL of Kill.
Crash == ~doomed /\ Exit(FALSE)
Die   == doomed /\ Exit(FALSE)

Expire ==
  /\ pc = "poll"
  /\ ~expired
  /\ expired' = TRUE
  /\ UNCHANGED <<pc, answer, tracker, process, threads, call>>

Threads == \E s \in Streams : Read(s) \/ ReadEnd(s)

Environment ==
  \/ \E s \in Streams : Write(s) \/ ReadFails(s)
  \/ Bequeath \/ HeirCloses
  \/ \E ok \in BOOLEAN : Finish(ok)
  \/ Crash \/ Die \/ Expire

Next ==
  \/ \E p \in Probes \cup Strangers : Refuse(p)
  \/ \E p \in Probes : Reserve(p)
  \/ Runner \/ Threads \/ Environment

Spec == Init /\ [][Next]_vars

-----------------------------------------------------------------------------
(* Fairness: the operating system schedules the runner and the readers,    *)
(* and delivers SIGKILL.  That time passes, that a child does its work and *)
(* that a descendant lets go of the pipes are premises of the properties   *)
(* that need them.                                                         *)

FairSpec ==
  /\ Spec
  /\ WF_vars(Runner)
  /\ \A s \in Streams : WF_vars(Read(s) \/ ReadEnd(s))
  /\ WF_vars(Die)

-----------------------------------------------------------------------------
TypeOK ==
  /\ pc \in {"idle", "spawn", "poll", "kill", "wait", "joinStdout", "joinStderr"}
  /\ probe \in Probes \cup Strangers
  /\ counts \in [Probes -> Nat]
  /\ disabled \subseteq Families
  /\ autoReap \in BOOLEAN
  /\ answer \in {"None", "UndeclaredProbe", "Disabled", "CallLimitExceeded",
                 "Success", "Failure", "InvocationFailed", "TimedOut"}
  /\ ending \in {"none", "exit", "timeout", "error"}
  /\ killed \in BOOLEAN
  /\ child \in {"none", "running", "exited", "gone", "reaped"}
  /\ doomed \in BOOLEAN
  /\ success \in BOOLEAN
  /\ heir \in BOOLEAN
  /\ toWrite \in [Streams -> Nat]
  /\ written \in [Streams -> Nat]
  /\ got \in [Streams -> Nat]
  /\ reader \in [Streams -> {"none", "reading", "done", "failed"}]
  /\ expired \in BOOLEAN

\* Whatever run returns, it leaves neither a running child nor a zombie behind
\* (terminate kills and waits even when the kill fails, policy.rs:384-392).
NothingLeftRunning == pc = "idle" => child \notin {"running", "exited"}

\* An answer that carries output carries all of it: both readers reached the
\* end of their pipes, and a successful child had nothing left to write, so no
\* adapter ever parses a truncated listing (policy.rs:327-334, 366-382).
OutputIsWhole ==
  pc = "idle" /\ answer \in {"Success", "Failure"} =>
    \A s \in Streams :
      /\ reader[s] = "done"
      /\ got[s] = written[s]
      /\ answer = "Success" => toWrite[s] = 0

\* TimedOut is only reported for a child that outlived its deadline, that has
\* been reaped, and whose reader threads have ended (policy.rs:335-340).
TimeoutIsClean ==
  pc = "idle" /\ answer = "TimedOut" =>
    expired /\ child = "reaped" /\ \A s \in Streams : reader[s] = "done"

\* No child is killed before its deadline has passed (policy.rs:335).
NoEarlyKill == doomed => expired

\* The inductive invariant behind the four properties above.  The state of the
\* child at each point of run:
Stages ==
  /\ pc \in {"idle", "spawn"} => child \in {"none", "gone", "reaped"}
  /\ pc \in {"poll", "kill", "wait"} => child \in {"running", "exited", "gone"}
  /\ pc \in {"joinStdout", "joinStderr"} => child = "reaped"

\* why the loop was left, and what that says about the clock:
Attribution ==
  /\ pc \in {"spawn", "poll"} => ending = "none"
  /\ pc \in {"joinStdout", "joinStderr"} => ending \in {"exit", "timeout"}
  /\ pc = "kill" => ending = "timeout" \/ (ending = "error" /\ child = "gone")
  /\ pc = "wait" /\ killed => ending = "timeout"
  /\ ending = "timeout" => expired
  /\ doomed => expired

\* what a reader thread that has ended knows:
Drained ==
  \A s \in Streams : reader[s] = "done" =>
    got[s] = written[s] /\ child # "running" /\ ~heir

\* and what run has established when it answers.
Established ==
  /\ pc = "joinStderr" => reader["stdout"] = "done"
  /\ success => child # "running" /\ \A s \in Streams : toWrite[s] = 0
  /\ pc = "idle" /\ answer \in {"Success", "Failure", "TimedOut"} =>
       child = "reaped" /\ \A s \in Streams : reader[s] = "done"
  /\ pc = "idle" /\ answer = "Success" => success
  /\ pc = "idle" /\ answer = "TimedOut" => expired

Limits == \A p \in Probes : counts[p] <= MaxCalls[p]

IInv == Stages /\ Attribution /\ Drained /\ Established /\ Limits

\* The abstract contract: declared and enabled probes only, never more often
\* than the limit, one call at a time, one answer per call.
Contract ==
  INSTANCE ProbeContract
    WITH phase <- IF pc = "idle" THEN "idle" ELSE "busy", used <- counts

ContractSpec == Contract!Spec

\* Every call returns, by its deadline at the latest (policy.rs:326-351), as
\* long as whoever keeps the write ends of the pipes closes them some day.
CallsReturn ==
  WF_vars(Expire) /\ WF_vars(HeirCloses) => (pc # "idle" ~> pc = "idle")

\* Even if the deadline never came, a child that keeps writing, then exits and
\* leaves nobody behind is answered: the readers drain both pipes while the
\* runner polls, so a full pipe never blocks the child (policy.rs:322-324).
NoPipeDeadlock ==
  /\ \A s \in Streams : WF_vars(Write(s))
  /\ WF_vars(\E ok \in BOOLEAN : Finish(ok))
  /\ WF_vars(HeirCloses)
  => (pc = "poll" ~> pc = "idle")

\* SPEC.md:587: a timeout must end and reap the child and map to a typed
\* answer.  Nothing is assumed of a descendant that keeps the pipes open.
TimeoutIsHard == ending = "timeout" /\ pc # "idle" ~> pc = "idle"
=============================================================================

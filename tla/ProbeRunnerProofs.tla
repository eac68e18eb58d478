-------------------------- MODULE ProbeRunnerProofs --------------------------
(***************************************************************************)
(* ProbeRunner for every registry, call limit, pipe capacity and amount of *)
(* output: its type invariant, its four safety properties, and that it     *)
(* implements ProbeContract.  All rest on the inductive invariant IInv.    *)
(***************************************************************************)
EXTENDS ProbeRunner, TLAPS

LEMMA VarsUnchanged == UNCHANGED vars => UNCHANGED <<pc, probe, counts, disabled,
    autoReap, answer, ending, killed, child, doomed, success, heir, toWrite,
    written, got, reader, expired>>
BY DEF vars, tracker, process, threads, call

\* Every state has the shape that TypeOK gives it, whatever the registry.
THEOREM TypeCorrect == Spec => []TypeOK
<1>1. Init => TypeOK
  <2> SUFFICES ASSUME Init PROVE TypeOK
    OBVIOUS
  <2>1. autoReap \in BOOLEAN
    BY RunnerAssumption, Zenon DEF Init
  <2>2. /\ toWrite \in [Streams -> Nat]
        /\ written \in [Streams -> Nat]
        /\ got \in [Streams -> Nat]
        /\ reader \in [Streams -> {"none", "reading", "done", "failed"}]
        /\ counts \in [Probes -> Nat]
    BY DEF Init
  <2> QED
    BY <2>1, <2>2 DEF Init, TypeOK
<1>2. TypeOK /\ [Next]_vars => TypeOK'
  <2> SUFFICES ASSUME TypeOK, [Next]_vars PROVE TypeOK'
    OBVIOUS
  <2> USE RunnerAssumption DEF TypeOK, tracker, process, threads, call
  <2>0. CASE UNCHANGED vars
    BY <2>0, VarsUnchanged
  <2>1. ASSUME NEW p \in Probes \cup Strangers, Refuse(p) PROVE TypeOK'
    BY <2>1 DEF Refuse, Refusal
  <2>2. ASSUME NEW p \in Probes, Reserve(p) PROVE TypeOK'
    BY <2>2 DEF Reserve, Counted
  <2>3. ASSUME SpawnFails PROVE TypeOK'
    BY <2>3 DEF SpawnFails, Return
  <2>4. ASSUME Spawn PROVE TypeOK'
    <3>1. toWrite' \in [Streams -> Nat]
      BY <2>4 DEF Spawn
    <3>2. QED
      BY <2>4, <3>1 DEF Spawn
  <2>5. ASSUME PollExited PROVE TypeOK'
    BY <2>5 DEF PollExited
  <2>6. ASSUME PollDeadline PROVE TypeOK'
    BY <2>6 DEF PollDeadline
  <2>7. ASSUME PollError PROVE TypeOK'
    BY <2>7 DEF PollError
  <2>8. ASSUME Kill PROVE TypeOK'
    BY <2>8 DEF Kill, Signalled
  <2>9. ASSUME Wait PROVE TypeOK'
    BY <2>9 DEF Wait, Return
  <2>10. ASSUME JoinStdout PROVE TypeOK'
    BY <2>10 DEF JoinStdout, Return
  <2>11. ASSUME JoinStderr PROVE TypeOK'
    BY <2>11 DEF JoinStderr, Return, Verdict
  <2>12. ASSUME NEW s \in Streams, Read(s) \/ ReadEnd(s) \/ ReadFails(s) \/ Write(s)
         PROVE TypeOK'
    BY <2>12 DEF Read, CanRead, ReadEnd, ReadFails, Write
  <2>13. ASSUME Bequeath PROVE TypeOK'
    BY <2>13 DEF Bequeath
  <2>14. ASSUME HeirCloses PROVE TypeOK'
    <3>1. /\ killed' \in BOOLEAN /\ doomed' \in BOOLEAN /\ success' \in BOOLEAN
          /\ heir' \in BOOLEAN /\ expired' \in BOOLEAN /\ autoReap' \in BOOLEAN
      BY <2>14, Zenon DEF HeirCloses
    <3> QED
      BY <2>14, <3>1 DEF HeirCloses
  <2>15. ASSUME Expire PROVE TypeOK'
    BY <2>15 DEF Expire
  <2>16. ASSUME NEW ok \in BOOLEAN, Finish(ok) PROVE TypeOK'
    <3>1. /\ killed' \in BOOLEAN /\ doomed' \in BOOLEAN /\ success' \in BOOLEAN
          /\ heir' \in BOOLEAN /\ expired' \in BOOLEAN /\ autoReap' \in BOOLEAN
      BY <2>16, Zenon DEF Finish, Exit
    <3> QED
      BY <2>16, <3>1 DEF Finish, Exit
  <2>17. ASSUME Crash PROVE TypeOK'
    <3>1. /\ killed' \in BOOLEAN /\ doomed' \in BOOLEAN /\ success' \in BOOLEAN
          /\ heir' \in BOOLEAN /\ expired' \in BOOLEAN /\ autoReap' \in BOOLEAN
      BY <2>17, Zenon DEF Crash, Exit
    <3> QED
      BY <2>17, <3>1 DEF Crash, Exit
  <2>18. ASSUME Die PROVE TypeOK'
    <3>1. /\ killed' \in BOOLEAN /\ doomed' \in BOOLEAN /\ success' \in BOOLEAN
          /\ heir' \in BOOLEAN /\ expired' \in BOOLEAN /\ autoReap' \in BOOLEAN
      BY <2>18, Zenon DEF Die, Exit
    <3> QED
      BY <2>18, <3>1 DEF Die, Exit
  <2>19. CASE Next
    BY <2>19, <2>1, <2>2, <2>3, <2>4, <2>5, <2>6, <2>7, <2>8, <2>9, <2>10,
       <2>11, <2>12, <2>13, <2>14, <2>15, <2>16, <2>17, <2>18 DEF Next, Runner, Threads, Environment
  <2> QED
    BY <2>0, <2>19
<1> QED
  BY <1>1, <1>2, PTL DEF Spec
\* reserve admits a declared probe whose variable is unset and limit not reached.
LEMMA Admission ==
  ASSUME TypeOK, NEW p \in Probes, Refusal(p) = "Admitted"
  PROVE  Family[p] \notin disabled /\ counts[p] < MaxCalls[p]
<1>1. counts[p] \in Nat /\ MaxCalls[p] \in Nat
  BY RunnerAssumption DEF TypeOK
<1>2. Family[p] \notin disabled
  BY DEF Refusal
<1>3. ~(counts[p] >= MaxCalls[p])
  BY <1>2 DEF Refusal
<1> QED
  BY <1>1, <1>2, <1>3

\* The inductive invariant holds initially and is preserved by every step.
LEMMA InductiveInit == Init => IInv
<1> SUFFICES ASSUME Init PROVE IInv
  OBVIOUS
<1>1. Stages
  BY DEF Init, Stages
<1>2. Attribution
  BY DEF Init, Attribution
<1>3. Drained
  BY DEF Init, Drained
<1>4. Established
  BY DEF Init, Established
<1>5. Limits
  <2> SUFFICES ASSUME NEW p \in Probes PROVE counts[p] <= MaxCalls[p]
    BY DEF Limits
  <2>1. MaxCalls[p] \in Nat
    BY RunnerAssumption
  <2> QED
    BY <2>1 DEF Init
<1> QED
  BY <1>1, <1>2, <1>3, <1>4, <1>5 DEF IInv

LEMMA InductiveStep == TypeOK /\ IInv /\ [Next]_vars => IInv'
<1> SUFFICES ASSUME TypeOK, IInv, [Next]_vars PROVE IInv'
  OBVIOUS
<1> USE DEF IInv, tracker, process, threads, call
<1>0. CASE UNCHANGED vars
  BY <1>0, VarsUnchanged DEF Stages, Attribution, Drained, Established, Limits
<1>1. ASSUME NEW p \in Probes \cup Strangers, Refuse(p) PROVE IInv'
  <2>1. Stages' /\ Attribution'
    BY <1>1 DEF Refuse, Refusal, Stages, Attribution, TypeOK
  <2>2. Drained'
    BY <1>1 DEF Refuse, Refusal, Drained, TypeOK, Stages
  <2>3. Established'
    BY <1>1 DEF Refuse, Refusal, Established, TypeOK, Stages, Attribution, Drained
  <2>4. Limits'
    BY <1>1, RunnerAssumption DEF Refuse, Refusal, Limits, TypeOK
  <2> QED
    BY <2>1, <2>2, <2>3, <2>4
<1>2. ASSUME NEW p \in Probes, Reserve(p) PROVE IInv'
  <2>1. Stages' /\ Attribution'
    BY <1>2 DEF Reserve, Refusal, Counted, Stages, Attribution, TypeOK
  <2>2. Drained'
    BY <1>2 DEF Reserve, Refusal, Counted, Drained, TypeOK, Stages
  <2>3. Established'
    BY <1>2 DEF Reserve, Refusal, Counted, Established, TypeOK, Stages, Attribution, Drained
  <2>4. Limits'
    <3>1. counts[p] < MaxCalls[p] /\ counts[p] \in Nat
      BY <1>2, Admission DEF Reserve, TypeOK
    <3>2. counts' = [counts EXCEPT ![p] = @ + 1]
      BY <1>2 DEF Reserve, Counted
    <3>3. \A q \in Probes : counts'[q] = IF q = p THEN counts[p] + 1 ELSE counts[q]
      BY <3>2 DEF TypeOK
    <3>4. \A q \in Probes : MaxCalls[q] \in Nat
      BY RunnerAssumption
    <3> QED
      BY <3>1, <3>3, <3>4 DEF Limits
  <2> QED
    BY <2>1, <2>2, <2>3, <2>4
<1>3. ASSUME SpawnFails PROVE IInv'
  <2>1. Stages' /\ Attribution'
    BY <1>3 DEF SpawnFails, Return, Stages, Attribution, TypeOK
  <2>2. Drained'
    BY <1>3 DEF SpawnFails, Return, Drained, TypeOK, Stages
  <2>3. Established'
    BY <1>3 DEF SpawnFails, Return, Established, TypeOK, Stages, Attribution, Drained
  <2>4. Limits'
    BY <1>3, RunnerAssumption DEF SpawnFails, Return, Limits, TypeOK
  <2> QED
    BY <2>1, <2>2, <2>3, <2>4
<1>4. ASSUME Spawn PROVE IInv'
  <2>1. Stages' /\ Attribution'
    BY <1>4 DEF Spawn, Stages, Attribution, TypeOK
  <2>2. Drained'
    BY <1>4 DEF Spawn, Drained, TypeOK, Stages
  <2>3. Established'
    BY <1>4 DEF Spawn, Established, TypeOK, Stages, Attribution, Drained
  <2>4. Limits'
    BY <1>4, RunnerAssumption DEF Spawn, Limits, TypeOK
  <2> QED
    BY <2>1, <2>2, <2>3, <2>4
<1>5. ASSUME PollExited PROVE IInv'
  <2>1. Stages' /\ Attribution'
    BY <1>5 DEF PollExited, Stages, Attribution, TypeOK
  <2>2. Drained'
    BY <1>5 DEF PollExited, Drained, TypeOK, Stages
  <2>3. Established'
    BY <1>5 DEF PollExited, Established, TypeOK, Stages, Attribution, Drained
  <2>4. Limits'
    BY <1>5, RunnerAssumption DEF PollExited, Limits, TypeOK
  <2> QED
    BY <2>1, <2>2, <2>3, <2>4
<1>6. ASSUME PollDeadline PROVE IInv'
  <2>1. Stages' /\ Attribution'
    BY <1>6 DEF PollDeadline, DeadlinePassed, Stages, Attribution, TypeOK
  <2>2. Drained'
    BY <1>6 DEF PollDeadline, DeadlinePassed, Drained, TypeOK, Stages
  <2>3. Established'
    BY <1>6 DEF PollDeadline, DeadlinePassed, Established, TypeOK, Stages, Attribution, Drained
  <2>4. Limits'
    BY <1>6, RunnerAssumption DEF PollDeadline, DeadlinePassed, Limits, TypeOK
  <2> QED
    BY <2>1, <2>2, <2>3, <2>4
<1>7. ASSUME PollError PROVE IInv'
  <2>1. Stages' /\ Attribution'
    BY <1>7 DEF PollError, Stages, Attribution, TypeOK
  <2>2. Drained'
    BY <1>7 DEF PollError, Drained, TypeOK, Stages
  <2>3. Established'
    BY <1>7 DEF PollError, Established, TypeOK, Stages, Attribution, Drained
  <2>4. Limits'
    BY <1>7, RunnerAssumption DEF PollError, Limits, TypeOK
  <2> QED
    BY <2>1, <2>2, <2>3, <2>4
<1>8. ASSUME Kill PROVE IInv'
  <2>1. Stages' /\ Attribution'
    BY <1>8 DEF Kill, Signalled, Stages, Attribution, TypeOK
  <2>2. Drained'
    BY <1>8 DEF Kill, Signalled, Drained, TypeOK, Stages
  <2>3. Established'
    BY <1>8 DEF Kill, Signalled, Established, TypeOK, Stages, Attribution, Drained
  <2>4. Limits'
    BY <1>8, RunnerAssumption DEF Kill, Signalled, Limits, TypeOK
  <2> QED
    BY <2>1, <2>2, <2>3, <2>4
<1>9. ASSUME Wait PROVE IInv'
  <2>1. Stages' /\ Attribution'
    BY <1>9 DEF Wait, Return, Stages, Attribution, TypeOK
  <2>2. Drained'
    BY <1>9 DEF Wait, Return, Drained, TypeOK, Stages
  <2>3. Established'
    BY <1>9 DEF Wait, Return, Established, TypeOK, Stages, Attribution, Drained
  <2>4. Limits'
    BY <1>9, RunnerAssumption DEF Wait, Return, Limits, TypeOK
  <2> QED
    BY <2>1, <2>2, <2>3, <2>4
<1>10. ASSUME JoinStdout PROVE IInv'
  <2>1. Stages' /\ Attribution'
    BY <1>10 DEF JoinStdout, Joined, Return, Stages, Attribution, TypeOK
  <2>2. Drained'
    BY <1>10 DEF JoinStdout, Joined, Return, Drained, TypeOK, Stages
  <2>3. Established'
    BY <1>10 DEF JoinStdout, Joined, Return, Established, TypeOK, Stages, Attribution, Drained
  <2>4. Limits'
    BY <1>10, RunnerAssumption DEF JoinStdout, Joined, Return, Limits, TypeOK
  <2> QED
    BY <2>1, <2>2, <2>3, <2>4
<1>11. ASSUME JoinStderr PROVE IInv'
  <2>1. Stages' /\ Attribution'
    BY <1>11 DEF JoinStderr, Joined, Return, Verdict, Stages, Attribution, TypeOK
  <2>2. Drained'
    BY <1>11 DEF JoinStderr, Joined, Return, Verdict, Drained, TypeOK, Stages
  <2>3. Established'
    <3>1. CASE reader["stderr"] = "failed" /\ Return("InvocationFailed")
      BY <1>11, <3>1 DEF JoinStderr, Return, Established
    <3>2. CASE Joined("stderr") /\ Return(Verdict)
      <4>1. /\ Verdict \in {"Success", "Failure", "TimedOut"}
            /\ Verdict = "Success" => success
            /\ Verdict = "TimedOut" => ending = "timeout"
        BY <1>11 DEF JoinStderr, Attribution, Verdict
      <4>2. reader["stdout"] = "done" /\ reader["stderr"] = "done" /\ child = "reaped"
        BY <1>11, <3>2 DEF JoinStderr, Joined, Established, Stages
      <4>3. pc' = "idle" /\ answer' = Verdict /\ UNCHANGED <<child, reader, success, toWrite, expired>>
        BY <1>11, <3>2 DEF JoinStderr, Return
      <4> QED
        BY <4>1, <4>2, <4>3 DEF Established, Attribution, Streams
    <3> QED
      BY <1>11, <3>1, <3>2 DEF JoinStderr
  <2>4. Limits'
    BY <1>11, RunnerAssumption DEF JoinStderr, Joined, Return, Verdict, Limits, TypeOK
  <2> QED
    BY <2>1, <2>2, <2>3, <2>4
<1>12. ASSUME NEW t \in Streams, Read(t) PROVE IInv'
  <2>1. Stages' /\ Attribution'
    BY <1>12 DEF Read, CanRead, Stages, Attribution, TypeOK
  <2>2. Drained'
    BY <1>12 DEF Read, CanRead, Drained, TypeOK, Stages
  <2>3. Established'
    BY <1>12 DEF Read, CanRead, Established, TypeOK, Stages, Attribution, Drained
  <2>4. Limits'
    BY <1>12, RunnerAssumption DEF Read, CanRead, Limits, TypeOK
  <2> QED
    BY <2>1, <2>2, <2>3, <2>4
<1>13. ASSUME NEW t \in Streams, ReadEnd(t) PROVE IInv'
  <2>1. Stages' /\ Attribution'
    BY <1>13 DEF ReadEnd, WriteEndOpen, Stages, Attribution, TypeOK
  <2>2. Drained'
    BY <1>13 DEF ReadEnd, WriteEndOpen, Drained, TypeOK, Stages
  <2>3. Established'
    BY <1>13 DEF ReadEnd, WriteEndOpen, Established, TypeOK, Stages, Attribution, Drained
  <2>4. Limits'
    BY <1>13, RunnerAssumption DEF ReadEnd, WriteEndOpen, Limits, TypeOK
  <2> QED
    BY <2>1, <2>2, <2>3, <2>4
<1>14. ASSUME NEW t \in Streams, ReadFails(t) PROVE IInv'
  <2>1. Stages' /\ Attribution'
    BY <1>14 DEF ReadFails, Stages, Attribution, TypeOK
  <2>2. Drained'
    BY <1>14 DEF ReadFails, Drained, TypeOK, Stages
  <2>3. Established'
    BY <1>14 DEF ReadFails, Established, TypeOK, Stages, Attribution, Drained
  <2>4. Limits'
    BY <1>14, RunnerAssumption DEF ReadFails, Limits, TypeOK
  <2> QED
    BY <2>1, <2>2, <2>3, <2>4
<1>15. ASSUME NEW t \in Streams, Write(t) PROVE IInv'
  <2>1. Stages' /\ Attribution'
    BY <1>15 DEF Write, Stages, Attribution, TypeOK
  <2>2. Drained'
    BY <1>15 DEF Write, Drained, TypeOK, Stages
  <2>3. Established'
    BY <1>15 DEF Write, Established, TypeOK, Stages, Attribution, Drained
  <2>4. Limits'
    BY <1>15, RunnerAssumption DEF Write, Limits, TypeOK
  <2> QED
    BY <2>1, <2>2, <2>3, <2>4
<1>16. ASSUME Bequeath PROVE IInv'
  <2>1. Stages' /\ Attribution'
    BY <1>16 DEF Bequeath, Stages, Attribution, TypeOK
  <2>2. Drained'
    BY <1>16 DEF Bequeath, Drained, TypeOK, Stages
  <2>3. Established'
    BY <1>16 DEF Bequeath, Established, TypeOK, Stages, Attribution, Drained
  <2>4. Limits'
    BY <1>16, RunnerAssumption DEF Bequeath, Limits, TypeOK
  <2> QED
    BY <2>1, <2>2, <2>3, <2>4
<1>17. ASSUME HeirCloses PROVE IInv'
  <2>1. Stages' /\ Attribution'
    BY <1>17 DEF HeirCloses, Stages, Attribution, TypeOK
  <2>2. Drained'
    BY <1>17 DEF HeirCloses, Drained, TypeOK, Stages
  <2>3. Established'
    BY <1>17 DEF HeirCloses, Established, TypeOK, Stages, Attribution, Drained
  <2>4. Limits'
    BY <1>17, RunnerAssumption DEF HeirCloses, Limits, TypeOK
  <2> QED
    BY <2>1, <2>2, <2>3, <2>4
<1>18. ASSUME Expire PROVE IInv'
  <2>1. Stages' /\ Attribution'
    BY <1>18 DEF Expire, Stages, Attribution, TypeOK
  <2>2. Drained'
    BY <1>18 DEF Expire, Drained, TypeOK, Stages
  <2>3. Established'
    BY <1>18 DEF Expire, Established, TypeOK, Stages, Attribution, Drained
  <2>4. Limits'
    BY <1>18, RunnerAssumption DEF Expire, Limits, TypeOK
  <2> QED
    BY <2>1, <2>2, <2>3, <2>4
<1>19. ASSUME NEW ok \in BOOLEAN, Finish(ok) PROVE IInv'
  <2>1. Stages' /\ Attribution'
    BY <1>19 DEF Finish, Exit, Stages, Attribution, TypeOK
  <2>2. Drained'
    BY <1>19 DEF Finish, Exit, Drained, TypeOK, Stages
  <2>3. Established'
    BY <1>19 DEF Finish, Exit, Established, TypeOK, Stages, Attribution, Drained
  <2>4. Limits'
    BY <1>19, RunnerAssumption DEF Finish, Exit, Limits, TypeOK
  <2> QED
    BY <2>1, <2>2, <2>3, <2>4
<1>20. ASSUME Crash PROVE IInv'
  <2>1. Stages' /\ Attribution'
    BY <1>20 DEF Crash, Exit, Stages, Attribution, TypeOK
  <2>2. Drained'
    BY <1>20 DEF Crash, Exit, Drained, TypeOK, Stages
  <2>3. Established'
    BY <1>20 DEF Crash, Exit, Established, TypeOK, Stages, Attribution, Drained
  <2>4. Limits'
    BY <1>20, RunnerAssumption DEF Crash, Exit, Limits, TypeOK
  <2> QED
    BY <2>1, <2>2, <2>3, <2>4
<1>21. ASSUME Die PROVE IInv'
  <2>1. Stages' /\ Attribution'
    BY <1>21 DEF Die, Exit, Stages, Attribution, TypeOK
  <2>2. Drained'
    BY <1>21 DEF Die, Exit, Drained, TypeOK, Stages
  <2>3. Established'
    BY <1>21 DEF Die, Exit, Established, TypeOK, Stages, Attribution, Drained
  <2>4. Limits'
    BY <1>21, RunnerAssumption DEF Die, Exit, Limits, TypeOK
  <2> QED
    BY <2>1, <2>2, <2>3, <2>4
<1>22. CASE Next
  BY <1>22, <1>1, <1>2, <1>3, <1>4, <1>5, <1>6, <1>7, <1>8, <1>9, <1>10, <1>11,
     <1>12, <1>13, <1>14, <1>15, <1>16, <1>17, <1>18, <1>19, <1>20, <1>21
     DEF Next, Runner, Threads, Environment
<1> QED
  BY <1>0, <1>22

\* IInv is an invariant of the specification, for every registry and bound.
THEOREM Inductive == Spec => []IInv
  BY InductiveInit, InductiveStep, TypeCorrect, PTL DEF Spec

\* A call that has returned left no running child and no zombie behind.
THEOREM NothingLeft == Spec => []NothingLeftRunning
<1>1. IInv => NothingLeftRunning
  BY DEF IInv, Stages, NothingLeftRunning
<1> QED
  BY <1>1, Inductive, PTL

\* An answer with output carries everything that was written to the pipes.
THEOREM WholeOutput == Spec => []OutputIsWhole
<1>1. IInv => OutputIsWhole
  BY DEF IInv, Drained, Established, OutputIsWhole
<1> QED
  BY <1>1, Inductive, PTL

\* TimedOut: the deadline passed, the child is reaped, the readers have ended.
THEOREM CleanTimeout == Spec => []TimeoutIsClean
<1>1. IInv => TimeoutIsClean
  BY DEF IInv, Established, TimeoutIsClean
<1> QED
  BY <1>1, Inductive, PTL

\* A child is never killed before its deadline.
THEOREM KillsAreLate == Spec => []NoEarlyKill
<1>1. IInv => NoEarlyKill
  BY DEF IInv, Attribution, NoEarlyKill
<1> QED
  BY <1>1, Inductive, PTL

\* Every step of the runner is a step of the contract, or changes nothing that
\* the contract sees: what ProbeContract promises, run of policy.rs delivers.
THEOREM ImplementsContract == Spec => ContractSpec
<1>1. Init => Contract!Init
  BY DEF Init, Contract!Init
<1>2. TypeOK /\ IInv /\ [Next]_vars => [Contract!Next]_(Contract!contractVars)
  <2> SUFFICES ASSUME TypeOK, IInv, [Next]_vars
               PROVE  Contract!Next \/ UNCHANGED Contract!contractVars
    OBVIOUS
  <2> USE DEF Contract!contractVars, Contract!Next, tracker, process, threads, call
  <2>0. CASE UNCHANGED vars
    BY <2>0, VarsUnchanged
  <2>1. ASSUME NEW p \in Probes \cup Strangers, Refuse(p)
        PROVE  Contract!Next
    <3>1. Contract!Refuse(p, Refusal(p))
      <4>1. p \in Probes => counts[p] \in Nat /\ MaxCalls[p] \in Nat /\ counts[p] <= MaxCalls[p]
        BY RunnerAssumption DEF TypeOK, IInv, Limits
      <4> QED
        BY <2>1, <4>1 DEF Refuse, Refusal, Contract!Refuse
    <3>2. Refusal(p) \in Contract!Refusals
      BY <2>1 DEF Refuse, Refusal, Contract!Refusals
    <3> QED
      BY <3>1, <3>2
  <2>2. ASSUME NEW p \in Probes, Reserve(p)
        PROVE  Contract!Next
    <3>1. Contract!Begin(p)
      BY <2>2, Admission DEF Reserve, Counted, Contract!Begin
    <3> QED
      BY <3>1
  <2>3. ASSUME NEW a \in Contract!Answers, pc # "idle", Return(a),
               UNCHANGED <<probe, counts, disabled>>
        PROVE  Contract!Next
    <3>1. Contract!Finish(a)
      BY <2>3 DEF Return, Contract!Finish
    <3> QED
      BY <3>1
  <2>4. ASSUME UNCHANGED <<probe, counts, disabled, answer>>,
               (pc = "idle") <=> (pc' = "idle")
        PROVE  UNCHANGED Contract!contractVars
    BY <2>4
  <2>5. CASE SpawnFails
    BY <2>5, <2>3 DEF SpawnFails, Contract!Answers
  <2>6. CASE Wait
    BY <2>6, <2>3, <2>4 DEF Wait, Contract!Answers
  <2>7. CASE JoinStdout
    BY <2>7, <2>3, <2>4 DEF JoinStdout, Contract!Answers
  <2>8. CASE JoinStderr
    <3>1. Verdict \in Contract!Answers
      BY DEF Verdict, Contract!Answers
    <3> QED
      BY <2>8, <3>1, <2>3 DEF JoinStderr, Contract!Answers
  <2>9. CASE Spawn \/ PollExited \/ PollDeadline \/ PollError \/ Kill
    BY <2>9, <2>4 DEF Spawn, PollExited, PollDeadline, PollError, Kill
  <2>10. CASE Threads
    BY <2>10, <2>4 DEF Threads, Read, ReadEnd
  <2>11. CASE Environment
    BY <2>11, <2>4 DEF Environment, Write, ReadFails, Bequeath, HeirCloses,
         Finish, Crash, Die, Exit, Expire
  <2> QED
    BY <2>0, <2>1, <2>2, <2>5, <2>6, <2>7, <2>8, <2>9, <2>10, <2>11 DEF Next, Runner
<1> QED
  BY <1>1, <1>2, TypeCorrect, Inductive, PTL DEF Spec, ContractSpec, Contract!Spec
=============================================================================

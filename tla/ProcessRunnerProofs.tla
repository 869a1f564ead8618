------------------------- MODULE ProcessRunnerProofs -------------------------
(***************************************************************************)
(* Theorems about ProcessRunner, for every number of requests, every limit *)
(* and every size of the pipe.                                             *)
(***************************************************************************)
EXTENDS ProcessRunner, TLAPS

-----------------------------------------------------------------------------
(* Type correctness.                                                       *)

\* The flags of the environment stay Boolean.
LEMMA FlagStep ==
  ASSUME FlagType, [Next]_vars
  PROVE  FlagType'
<1> USE DEF FlagType
<1>1. CASE Start
  BY <1>1 DEF Start
<1>2. CASE LeaveLoop
  BY <1>2 DEF LeaveLoop
<1>3. CASE Fork
  BY <1>3 DEF Fork
<1>4. CASE ReadSome
  BY <1>4 DEF ReadSome
<1>5. CASE ReadDone
  BY <1>5 DEF ReadDone
<1>6. CASE WaitExited
  BY <1>6 DEF WaitExited
<1>7. CASE WaitRunning
  BY <1>7 DEF WaitRunning
<1>8. CASE CheckCancelled
  BY <1>8 DEF CheckCancelled
<1>9. CASE CheckDeadline
  BY <1>9 DEF CheckDeadline
<1>10. CASE Poll
  BY <1>10 DEF Poll
<1>11. CASE Terminate
  BY <1>11 DEF Terminate
<1>12. CASE GraceReap
  BY <1>12 DEF GraceReap
<1>13. CASE GraceWait
  BY <1>13 DEF GraceWait
<1>14. CASE Kill
  BY <1>14 DEF Kill
<1>15. CASE Reap
  BY <1>15 DEF Reap
<1>16. CASE Classify
  BY <1>16 DEF Classify
<1>17. CASE ChildWrites
  BY <1>17 DEF ChildWrites
<1>18. CASE Exit
  BY <1>18 DEF Exit, ChildEnds
<1>19. CASE ObeyTerm
  BY <1>19 DEF ObeyTerm, ChildEnds
<1>20. CASE ObeyKill
  BY <1>20 DEF ObeyKill, ChildEnds
<1>21. CASE Cancel
  BY <1>21 DEF Cancel
<1>22. CASE Expire
  BY <1>22 DEF Expire
<1>23. CASE Idle \/ UNCHANGED vars
  BY <1>23 DEF Idle, vars, threadVars, childVars
<1> QED
  BY <1>1, <1>2, <1>3, <1>4, <1>5, <1>6, <1>7, <1>8, <1>9, <1>10, <1>11, <1>12, <1>13,
     <1>14, <1>15, <1>16, <1>17, <1>18, <1>19, <1>20, <1>21, <1>22, <1>23 DEF Next,
     Thread, RunProcess, StopProcess, Child

\* The worker thread's variables keep their types: RunProcess never keeps more
\* output than the limit, and reports none for a child that failed.
LEMMA ThreadStep ==
  ASSUME ThreadType, ChildType, OutputInvariant, [Next]_vars
  PROVE  ThreadType'
<1> USE RunnerAssumption DEF ThreadType
<1>1. CASE Start
  BY <1>1 DEF Start, Respond, Goto
<1>2. CASE LeaveLoop
  BY <1>2 DEF LeaveLoop, Respond, Goto
<1>3. CASE Fork
  BY <1>3 DEF Fork, Goto, threadVars
<1>4. CASE ReadSome
  BY <1>4 DEF ReadSome, Goto, threadVars, AppendWithLimit, Least, ChildType
<1>5. CASE ReadDone
  BY <1>5 DEF ReadDone, Goto, threadVars
<1>6. CASE WaitExited
  BY <1>6 DEF WaitExited, Goto, threadVars
<1>7. CASE WaitRunning
  BY <1>7 DEF WaitRunning, Goto, threadVars
<1>8. CASE CheckCancelled
  BY <1>8 DEF CheckCancelled, Goto, threadVars
<1>9. CASE CheckDeadline
  BY <1>9 DEF CheckDeadline, Goto, threadVars
<1>10. CASE Poll
  BY <1>10 DEF Poll, Goto, threadVars
<1>11. CASE Terminate
  BY <1>11 DEF Terminate, Goto, threadVars
<1>12. CASE GraceReap
  BY <1>12 DEF GraceReap, Goto, threadVars
<1>13. CASE GraceWait
  BY <1>13 DEF GraceWait, Goto, threadVars
<1>14. CASE Kill
  BY <1>14 DEF Kill, Goto, threadVars
<1>15. CASE Reap
  BY <1>15 DEF Reap, Goto, threadVars
<1>16. CASE Classify
  <2> DEFINE report == [status |-> status, written |-> written, captured |-> captured]
  <2>1. CASE outcome # "none" \/ status # "exit0"
    BY <1>16, <2>1 DEF Classify, Respond, Goto
  <2>2. CASE ~(outcome # "none" \/ status # "exit0")
    <3>1. /\ pc' = "next" /\ index' = index + 1 /\ outputs' = Append(outputs, report)
          /\ UNCHANGED <<captured, outcome, attempts, answer>>
      BY <1>16, <2>2 DEF Classify, Goto
    <3>2. report \in Output
      BY <2>2 DEF Output, ChildType
    <3>3. outputs' \in Seq(Output)
      BY <3>1, <3>2
    <3>4. index <= Requests
      BY <1>16 DEF Classify, OutputInvariant
    <3>5. index' \in 1..(Requests + 1)
      BY <3>1, <3>4
    <3> QED
      BY <3>1, <3>3, <3>5
  <2> QED
    BY <2>1, <2>2
<1>17. CASE ChildWrites
  BY <1>17 DEF ChildWrites, threadVars
<1>18. CASE Exit
  BY <1>18 DEF Exit, ChildEnds, threadVars
<1>19. CASE ObeyTerm
  BY <1>19 DEF ObeyTerm, ChildEnds, threadVars
<1>20. CASE ObeyKill
  BY <1>20 DEF ObeyKill, ChildEnds, threadVars
<1>21. CASE Cancel
  BY <1>21 DEF Cancel, threadVars
<1>22. CASE Expire
  BY <1>22 DEF Expire, threadVars
<1>23. CASE Idle \/ UNCHANGED vars
  BY <1>23 DEF Idle, vars, threadVars, childVars
<1> QED
  BY <1>1, <1>2, <1>3, <1>4, <1>5, <1>6, <1>7, <1>8, <1>9, <1>10, <1>11, <1>12, <1>13,
     <1>14, <1>15, <1>16, <1>17, <1>18, <1>19, <1>20, <1>21, <1>22, <1>23 DEF Next,
     Thread, RunProcess, StopProcess, Child

\* So do those of the child and its pipe.
LEMMA ChildStep ==
  ASSUME ChildType, [Next]_vars
  PROVE  ChildType'
<1> USE RunnerAssumption DEF ChildType
<1>1. CASE Start
  BY <1>1 DEF Start, childVars
<1>2. CASE LeaveLoop
  BY <1>2 DEF LeaveLoop, childVars
<1>3. CASE Fork
  BY <1>3 DEF Fork, childVars
<1>4. CASE ReadSome
  BY <1>4 DEF ReadSome, childVars, Least
<1>5. CASE ReadDone
  BY <1>5 DEF ReadDone, childVars
<1>6. CASE WaitExited
  BY <1>6 DEF WaitExited, childVars
<1>7. CASE WaitRunning
  BY <1>7 DEF WaitRunning, childVars
<1>8. CASE CheckCancelled
  BY <1>8 DEF CheckCancelled, childVars
<1>9. CASE CheckDeadline
  BY <1>9 DEF CheckDeadline, childVars
<1>10. CASE Poll
  BY <1>10 DEF Poll, childVars
<1>11. CASE Terminate
  BY <1>11 DEF Terminate, childVars
<1>12. CASE GraceReap
  BY <1>12 DEF GraceReap, childVars
<1>13. CASE GraceWait
  BY <1>13 DEF GraceWait, childVars
<1>14. CASE Kill
  BY <1>14 DEF Kill, childVars
<1>15. CASE Reap
  BY <1>15 DEF Reap, childVars
<1>16. CASE Classify
  BY <1>16 DEF Classify, childVars
<1>17. CASE ChildWrites
  BY <1>17 DEF ChildWrites, childVars, Least
<1>18. CASE Exit
  BY <1>18 DEF Exit, ChildEnds
<1>19. CASE ObeyTerm
  BY <1>19 DEF ObeyTerm, ChildEnds
<1>20. CASE ObeyKill
  BY <1>20 DEF ObeyKill, ChildEnds
<1>21. CASE Cancel
  BY <1>21 DEF Cancel, childVars
<1>22. CASE Expire
  BY <1>22 DEF Expire, childVars
<1>23. CASE Idle \/ UNCHANGED vars
  BY <1>23 DEF Idle, vars, threadVars, childVars
<1> QED
  BY <1>1, <1>2, <1>3, <1>4, <1>5, <1>6, <1>7, <1>8, <1>9, <1>10, <1>11, <1>12, <1>13,
     <1>14, <1>15, <1>16, <1>17, <1>18, <1>19, <1>20, <1>21, <1>22, <1>23 DEF Next,
     Thread, RunProcess, StopProcess, Child

-----------------------------------------------------------------------------
(* Control.                                                                *)

\* Every step keeps the relation between the control point, the child and the
\* reason to stop it.
LEMMA ControlStep ==
  ASSUME ThreadType, ChildType, ControlInvariant, [Next]_vars
  PROVE  ControlInvariant'
<1> USE DEF ThreadType, ChildType, ControlInvariant
<1>1. CASE Start
  BY <1>1 DEF Start, Respond, Goto, childVars
<1>2. CASE LeaveLoop
  BY <1>2 DEF LeaveLoop, Respond, Goto, childVars
<1>3. CASE Fork
  BY <1>3 DEF Fork, Goto, threadVars, childVars
<1>4. CASE ReadSome
  BY <1>4 DEF ReadSome, Goto, threadVars, childVars
<1>5. CASE ReadDone
  BY <1>5 DEF ReadDone, Goto, threadVars, childVars
<1>6. CASE WaitExited
  BY <1>6 DEF WaitExited, Goto, threadVars, childVars
<1>7. CASE WaitRunning
  BY <1>7 DEF WaitRunning, Goto, threadVars, childVars
<1>8. CASE CheckCancelled
  BY <1>8 DEF CheckCancelled, Goto, threadVars, childVars
<1>9. CASE CheckDeadline
  BY <1>9 DEF CheckDeadline, Goto, threadVars, childVars
<1>10. CASE Poll
  BY <1>10 DEF Poll, Goto, threadVars, childVars
<1>11. CASE Terminate
  BY <1>11 DEF Terminate, Goto, threadVars, childVars
<1>12. CASE GraceReap
  BY <1>12 DEF GraceReap, Goto, threadVars, childVars
<1>13. CASE GraceWait
  BY <1>13 DEF GraceWait, Goto, threadVars, childVars
<1>14. CASE Kill
  BY <1>14 DEF Kill, Goto, threadVars, childVars
<1>15. CASE Reap
  BY <1>15 DEF Reap, Goto, threadVars, childVars
<1>16. CASE Classify
  BY <1>16 DEF Classify, Respond, Goto, childVars
<1>17. CASE ChildWrites
  BY <1>17 DEF ChildWrites, threadVars, childVars
<1>18. CASE Exit
  BY <1>18 DEF Exit, ChildEnds, threadVars
<1>19. CASE ObeyTerm
  BY <1>19 DEF ObeyTerm, ChildEnds, threadVars
<1>20. CASE ObeyKill
  BY <1>20 DEF ObeyKill, ChildEnds, threadVars
<1>21. CASE Cancel
  BY <1>21 DEF Cancel, threadVars, childVars
<1>22. CASE Expire
  BY <1>22 DEF Expire, threadVars, childVars
<1>23. CASE Idle \/ UNCHANGED vars
  BY <1>23 DEF Idle, vars, threadVars, childVars
<1> QED
  BY <1>1, <1>2, <1>3, <1>4, <1>5, <1>6, <1>7, <1>8, <1>9, <1>10, <1>11, <1>12, <1>13,
     <1>14, <1>15, <1>16, <1>17, <1>18, <1>19, <1>20, <1>21, <1>22, <1>23 DEF Next,
     Thread, RunProcess, StopProcess, Child

-----------------------------------------------------------------------------
(* Output.                                                                 *)

\* Reading n bytes keeps what was captured in step with what was read.
LEMMA LimitedSum ==
  ASSUME NEW limit \in Nat, NEW a \in Nat, NEW n \in Nat
  PROVE  Least(limit, Least(limit, a) + n) = Least(limit, a + n)
BY DEF Least

\* A write that the saturating count does not see is beyond the limit.
LEMMA SaturatedWrite ==
  ASSUME NEW w \in Nat, NEW u \in Nat, w <= MaxOutput, u <= w, u < PipeCapacity
  PROVE  /\ u + 1 <= Least(MaxOutput, w + 1)
         /\ Least(OutputLimit, Least(MaxOutput, w + 1) - (u + 1))
              = Least(OutputLimit, w - u)
BY RunnerAssumption DEF Least

\* Every step keeps the captured output complete up to the limit.
LEMMA OutputStep ==
  ASSUME ThreadType, ChildType, ControlInvariant, OutputInvariant, [Next]_vars
  PROVE  OutputInvariant'
<1> /\ index \in Nat /\ captured \in Nat /\ written \in Nat /\ unread \in Nat
    /\ index <= Requests + 1 /\ outputs \in Seq(Output)
    /\ Requests \in Nat /\ OutputLimit \in Nat /\ ChunkSize \in Nat
  <2>1. index \in Nat /\ captured \in Nat /\ index <= Requests + 1 /\ outputs \in Seq(Output)
    BY RunnerAssumption DEF ThreadType
  <2>2. written \in Nat /\ unread \in Nat
    BY RunnerAssumption DEF ChildType
  <2> QED
    BY <2>1, <2>2, RunnerAssumption
<1> USE DEF OutputInvariant, OutputsComplete
<1>1. CASE Start
  BY <1>1 DEF Start, Respond, Goto, childVars
<1>2. CASE LeaveLoop
  BY <1>2 DEF LeaveLoop, Respond, Goto, childVars
<1>3. CASE Fork
  BY <1>3 DEF Fork, Goto, threadVars, childVars, Least
<1>4. CASE ReadSome
  <2> DEFINE n == Least(unread, ChunkSize)
  <2>1. /\ pc \in {"read", "finalread"}
        /\ captured' = Least(OutputLimit, captured + n)
        /\ unread' = unread - n
        /\ UNCHANGED <<pc, index, outputs, answer, written>>
    BY <1>4 DEF ReadSome, AppendWithLimit
  <2>2. n \in Nat /\ n <= unread
    BY DEF Least
  <2>3. written - unread \in Nat
    OBVIOUS
  <2>4. captured' = Least(OutputLimit, (written - unread) + n)
    <3> HIDE DEF n
    <3> QED
      BY <2>1, <2>2, <2>3, LimitedSum
  <2>5. (written - unread) + n = written' - unread' /\ unread' <= written'
    <3> HIDE DEF n
    <3> QED
      BY <2>1, <2>2
  <2>6. captured' = Least(OutputLimit, written' - unread')
    BY <2>4, <2>5
  <2> QED
    BY <2>1, <2>5, <2>6
<1>5. CASE ReadDone
  BY <1>5 DEF ReadDone, Goto, threadVars, childVars
<1>6. CASE WaitExited
  BY <1>6 DEF WaitExited, Goto, threadVars, childVars
<1>7. CASE WaitRunning
  BY <1>7 DEF WaitRunning, Goto, threadVars, childVars
<1>8. CASE CheckCancelled
  BY <1>8 DEF CheckCancelled, Goto, threadVars, childVars
<1>9. CASE CheckDeadline
  BY <1>9 DEF CheckDeadline, Goto, threadVars, childVars
<1>10. CASE Poll
  BY <1>10 DEF Poll, Goto, threadVars, childVars
<1>11. CASE Terminate
  BY <1>11 DEF Terminate, Goto, threadVars, childVars
<1>12. CASE GraceReap
  BY <1>12 DEF GraceReap, Goto, threadVars, childVars
<1>13. CASE GraceWait
  BY <1>13 DEF GraceWait, Goto, threadVars, childVars
<1>14. CASE Kill
  BY <1>14 DEF Kill, Goto, threadVars, childVars
<1>15. CASE Reap
  BY <1>15 DEF Reap, Goto, threadVars, childVars
<1>16. CASE Classify
  <2> DEFINE report == [status |-> status, written |-> written, captured |-> captured]
  <2>1. /\ pc = "classify"
        /\ UNCHANGED <<captured, written, unread>>
    BY <1>16 DEF Classify, childVars
  <2>2. CASE outcome # "none" \/ status # "exit0"
    <3>1. /\ pc' = "returned" /\ answer' \in {"cancelled", "unavailable"}
          /\ UNCHANGED <<index, outputs>>
      BY <1>16, <2>2 DEF Classify, Respond, Goto
    <3> QED
      BY <2>1, <3>1
  <2>3. CASE ~(outcome # "none" \/ status # "exit0")
    <3>1. /\ pc' = "next" /\ index' = index + 1 /\ answer' = answer
          /\ outputs' = Append(outputs, report)
      BY <1>16, <2>3 DEF Classify, Goto
    <3>2. Len(outputs') = index' - 1
      BY <3>1
    <3>3. captured = Least(OutputLimit, written)
      BY <2>1
    <3>4. \A i \in DOMAIN outputs' :
            outputs'[i].captured = Least(OutputLimit, outputs'[i].written)
      BY <3>1, <3>3
    <3>5. answer' # "ok"
      BY <2>1, <3>1
    <3> QED
      BY <2>1, <3>1, <3>2, <3>4, <3>5
  <2> QED
    BY <2>2, <2>3
<1>17. CASE ChildWrites
  <2>1. /\ written' = Least(MaxOutput, written + 1) /\ unread' = unread + 1
        /\ unread < PipeCapacity
        /\ child = "running"
        /\ UNCHANGED <<pc, index, captured, outputs, answer>>
    BY <1>17 DEF ChildWrites, threadVars
  <2>2. unread' <= written' /\ captured' = Least(OutputLimit, written' - unread')
    <3>2. written <= MaxOutput
      BY RunnerAssumption DEF ChildType
    <3>3. /\ unread + 1 <= Least(MaxOutput, written + 1)
          /\ Least(OutputLimit, Least(MaxOutput, written + 1) - (unread + 1))
               = Least(OutputLimit, written - unread)
      <4>1. unread <= written /\ unread < PipeCapacity
        BY <2>1
      <4> HIDE DEF OutputInvariant, OutputsComplete
      <4> QED
        BY <3>2, <4>1, SaturatedWrite
    <3> QED
      BY <2>1, <3>3
  <2>3. pc # "classify"
    BY <2>1 DEF ControlInvariant
  <2> QED
    BY <2>1, <2>2, <2>3
<1>18. CASE Exit
  BY <1>18 DEF Exit, ChildEnds, threadVars
<1>19. CASE ObeyTerm
  BY <1>19 DEF ObeyTerm, ChildEnds, threadVars
<1>20. CASE ObeyKill
  BY <1>20 DEF ObeyKill, ChildEnds, threadVars
<1>21. CASE Cancel
  BY <1>21 DEF Cancel, threadVars, childVars
<1>22. CASE Expire
  BY <1>22 DEF Expire, threadVars, childVars
<1>23. CASE Idle \/ UNCHANGED vars
  BY <1>23 DEF Idle, vars, threadVars, childVars
<1> QED
  BY <1>1, <1>2, <1>3, <1>4, <1>5, <1>6, <1>7, <1>8, <1>9, <1>10, <1>11, <1>12, <1>13,
     <1>14, <1>15, <1>16, <1>17, <1>18, <1>19, <1>20, <1>21, <1>22, <1>23 DEF Next,
     Thread, RunProcess, StopProcess, Child

-----------------------------------------------------------------------------
(* Theorems.                                                               *)

\* The inductive invariant.
Inv == TypeOK /\ ControlInvariant /\ OutputInvariant

\* ProcessBatch starts in the invariant.
LEMMA InitInv == Init => Inv
<1> SUFFICES ASSUME Init PROVE Inv
  OBVIOUS
<1>1. ThreadType /\ ChildType
  BY RunnerAssumption DEF Init, ThreadType, ChildType
<1>2. FlagType
  BY DEF Init, FlagType
<1>3. ControlInvariant
  BY DEF Init, ControlInvariant
<1>4. OutputInvariant
  BY RunnerAssumption DEF Init, OutputInvariant, OutputsComplete, Least
<1> QED
  BY <1>1, <1>2, <1>3, <1>4 DEF Inv, TypeOK

\* Every reachable state satisfies it.
LEMMA Invariance == Spec => []Inv
<1>1. Inv /\ [Next]_vars => Inv'
  BY FlagStep, ThreadStep, ChildStep, ControlStep, OutputStep DEF Inv, TypeOK
<1> QED
  BY InitInv, <1>1, PTL DEF Spec

\* Every variable keeps its type: in particular RunProcess keeps at most
\* OutputLimit bytes of a child's output.
THEOREM TypeCorrect == Spec => []TypeOK
<1>1. Inv => TypeOK
  BY DEF Inv
<1> QED
  BY <1>1, Invariance, PTL

\* RunProcess returns only after it has waited for its child, on every path
\* through exit, cancellation, deadline, SIGTERM and SIGKILL.
THEOREM NoChildLeftHolds == Spec => []NoChildLeft
<1>1. Inv => NoChildLeft
  BY DEF Inv, ControlInvariant, NoChildLeft
<1> QED
  BY <1>1, Invariance, PTL

\* ReadAvailable after the exit completes the output, however the child's
\* writes fall between the reads.
THEOREM OutputsCompleteHolds == Spec => []OutputsComplete
<1>1. Inv => OutputsComplete
  BY DEF Inv, OutputInvariant
<1> QED
  BY <1>1, Invariance, PTL

\* ProcessBatch reports success with one output per request.
THEOREM AnsweredInFullHolds == Spec => []AnsweredInFull
<1>1. Inv => AnsweredInFull
  BY RunnerAssumption DEF Inv, OutputInvariant, AnsweredInFull
<1> QED
  BY <1>1, Invariance, PTL

\* StopProcess is called, and a cancellation reported, only with a reason.
THEOREM StoppedForCauseHolds == Spec => []StoppedForCause
<1>1. Inv => StoppedForCause
  BY DEF Inv, ControlInvariant, StoppedForCause
<1> QED
  BY <1>1, Invariance, PTL

\* StopProcess never signals a process id that waitpid has given back.
THEOREM SignalsReachOwnChildHolds == Spec => SignalsReachOwnChild
<1>1. ASSUME Inv, [Next]_vars, signal' # signal, signal' # "none"
      PROVE  child \in {"running", "zombie"}
  <2>1. CASE Terminate \/ Kill
    BY <1>1, <2>1 DEF Inv, ControlInvariant, Terminate, Kill
  <2>2. CASE ~(Terminate \/ Kill)
    BY <1>1, <2>2
    DEF Next, Thread, RunProcess, StopProcess, Child, vars, threadVars, childVars,
        Start, LeaveLoop, Fork, ReadSome, ReadDone, WaitExited, WaitRunning,
        CheckCancelled, CheckDeadline, Poll, GraceReap, GraceWait, Reap, Classify,
        ChildWrites, Exit, ObeyTerm, ObeyKill, ChildEnds, Cancel, Expire, Idle
  <2> QED
    BY <2>1, <2>2
<1>2. Inv /\ [Next]_vars
        => [signal' # signal /\ signal' # "none" => child \in {"running", "zombie"}]_vars
  BY <1>1
<1> QED
  BY <1>2, Invariance, PTL DEF Spec, SignalsReachOwnChild

-----------------------------------------------------------------------------
(* Refinement.                                                             *)

\* A step that leaves the answer, the outputs and the cancellation alone is a
\* stutter of the contract.
LEMMA Stutter ==
  ASSUME UNCHANGED <<answer, outputs, cancelled>>
  PROVE  UNCHANGED Contract!vars
BY DEF Contract!vars

\* ProcessBatch returns with an error: whatever it had produced is dropped.
LEMMA FailRefines ==
  ASSUME NEW failure \in {"cancelled", "unavailable"},
         answer = "none", answer' = failure, cancelled' = cancelled,
         failure = "cancelled" => cancelled
  PROVE  Contract!Next
<1>1. Contract!Fail(failure)
  BY DEF Contract!Fail
<1> QED
  BY <1>1 DEF Contract!Next

\* Every step of RunProcess, StopProcess, the child and the environment is a step
\* of the contract or a stutter.
LEMMA StepRefines ==
  ASSUME Inv, [Next]_vars
  PROVE  [Contract!Next]_(Contract!vars)
<1> USE DEF Inv, TypeOK
<1>0. /\ Requests \in Nat /\ index \in Nat /\ index <= Requests + 1
      /\ outputs \in Seq(Output) /\ Len(outputs) = index - 1
      /\ pc # "returned" => answer = "none"
      /\ pc \notin {"start", "next", "returned"} => index <= Requests
  BY RunnerAssumption DEF ThreadType, ControlInvariant, OutputInvariant
<1>1. CASE Start
  <2>1. pc = "start" /\ cancelled' = cancelled /\ outputs' = outputs
    BY <1>1 DEF Start
  <2>2. \/ cancelled /\ answer' = "cancelled"
        \/ answer' = "unavailable"
        \/ answer' = answer
    BY <1>1 DEF Start, Respond
  <2> QED
    BY <1>0, <2>1, <2>2, FailRefines, Stutter
<1>2. CASE LeaveLoop
  <2>1. pc = "next" /\ cancelled' = cancelled /\ outputs' = outputs
    BY <1>2 DEF LeaveLoop
  <2>2. CASE index > Requests
    <3>1. answer' = "ok"
      BY <1>2, <2>2 DEF LeaveLoop, Respond
    <3>2. Len(outputs) = Requests
      BY <1>0, <2>2
    <3>3. Contract!Succeed
      BY <1>0, <2>1, <3>1, <3>2 DEF Contract!Succeed
    <3> QED
      BY <3>3 DEF Contract!Next
  <2>3. CASE ~(index > Requests)
    <3>1. \/ cancelled /\ answer' = "cancelled"
          \/ answer' = "unavailable"
      BY <1>2, <2>3 DEF LeaveLoop, Respond
    <3> QED
      BY <1>0, <2>1, <3>1, FailRefines
  <2> QED
    BY <2>2, <2>3
<1>3. CASE Classify
  <2>1. pc = "classify" /\ cancelled' = cancelled
    BY <1>3 DEF Classify
  <2>2. CASE outcome # "none" \/ status # "exit0"
    <3>1. \/ outcome = "cancelled" /\ answer' = "cancelled"
          \/ answer' = "unavailable"
      BY <1>3, <2>2 DEF Classify, Respond
    <3>2. outcome = "cancelled" => cancelled
      BY DEF ControlInvariant
    <3> QED
      BY <1>0, <2>1, <3>1, <3>2, FailRefines
  <2>3. CASE ~(outcome # "none" \/ status # "exit0")
    <3>1. /\ answer' = answer /\ Len(outputs') = Len(outputs) + 1
      BY <1>0, <1>3, <2>3 DEF Classify
    <3>2. Len(outputs) + 1 <= Requests /\ Len(outputs) \in Nat
      BY <1>0, <2>1
    <3>3. Len(outputs') \in (Len(outputs) + 1)..Requests
      BY <1>0, <3>1, <3>2
    <3>4. Contract!Produce
      BY <1>0, <2>1, <3>1, <3>3 DEF Contract!Produce
    <3> QED
      BY <3>4 DEF Contract!Next
  <2> QED
    BY <2>2, <2>3
<1>4. CASE Cancel
  <2>1. Contract!Cancel
    BY <1>4 DEF Cancel, Contract!Cancel, threadVars
  <2> QED
    BY <2>1 DEF Contract!Next
<1>5. CASE ~(Start \/ LeaveLoop \/ Classify \/ Cancel)
  <2>1. UNCHANGED <<answer, outputs, cancelled>>
    BY <1>5
    DEF Next, Thread, RunProcess, StopProcess, Child, vars, threadVars, childVars,
        Fork, ReadSome, ReadDone, WaitExited, WaitRunning, CheckCancelled,
        CheckDeadline, Poll, Terminate, GraceReap, GraceWait, Kill, Reap,
        ChildWrites, Exit, ObeyTerm, ObeyKill, ChildEnds, Expire, Idle
  <2> QED
    BY <2>1, Stutter
<1> QED
  BY <1>1, <1>2, <1>3, <1>4, <1>5

\* LlamaCppBackend::ProcessBatch implements the contract of InferenceBackend.
THEOREM Refinement == Spec => ImplementsContract
<1>1. Init => Contract!Init
  BY DEF Init, Contract!Init
<1>2. Inv /\ [Next]_vars => [Contract!Next]_(Contract!vars)
  BY StepRefines
<1> QED
  BY <1>1, <1>2, Invariance, PTL DEF Spec, ImplementsContract, Contract!Spec

=============================================================================

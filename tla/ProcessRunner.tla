---------------------------- MODULE ProcessRunner ----------------------------
(***************************************************************************)
(* RunProcess and StopProcess of backend/inference_backend.cc, called by   *)
(* LlamaCppBackend::ProcessBatch once per request of a batch.  The worker  *)
(* thread forks a child, reads its output from a non-blocking pipe, polls  *)
(* for its exit, for cancellation and for the deadline, and stops it with  *)
(* SIGTERM and then SIGKILL.  The child writes, exits, and obeys or        *)
(* ignores SIGTERM as it likes.  waitpid cannot fail here: nobody else     *)
(* waits for the child, and an EINTR is a retry.                           *)
(***************************************************************************)
EXTENDS Integers, Sequences

CONSTANTS
  Requests,        \* number of requests in the batch
  OutputLimit,     \* kMaxCapturedOutputBytes
  ChunkSize,       \* the buffer of ReadAvailable
  PipeCapacity,    \* what the pipe holds before a write blocks
  MaxOutput,       \* where the count of the bytes written stops
  StopAttempts     \* the waits of StopProcess before SIGKILL

ASSUME RunnerAssumption ==
  /\ Requests \in Nat /\ OutputLimit \in Nat /\ MaxOutput \in Nat
  /\ ChunkSize \in Nat \ {0} /\ PipeCapacity \in Nat \ {0}
  /\ MaxOutput >= OutputLimit + PipeCapacity
  /\ StopAttempts \in Nat

VARIABLES
  \* --- the worker thread
  pc,              \* its control point
  index,           \* the request it is at
  captured,        \* bytes in ProcessResult.output
  outcome,         \* the flag set in ProcessResult, or "none"
  attempts,        \* the loop counter of StopProcess
  outputs,         \* BackendResult.outputs, each with its child's history
  answer,          \* BackendResult.code once returned
  \* --- the child and its pipe
  child,           \* "none", "running", "zombie" or "reaped"
  status,          \* how it ended
  signal,          \* the last signal sent to it
  written,         \* bytes it has written, counted up to MaxOutput
  unread,          \* bytes in the pipe
  \* --- environment
  cancelled,       \* is_cancelled()
  expired          \* the deadline of this RunProcess has passed

threadVars == <<index, captured, outcome, attempts, outputs, answer>>
childVars == <<child, status, signal, written, unread>>
vars == <<pc, threadVars, childVars, cancelled, expired>>

Least(a, b) == IF a < b THEN a ELSE b

Goto(label) == pc' = label

Respond(code) == Goto("returned") /\ answer' = code

-----------------------------------------------------------------------------
(* LlamaCppBackend::ProcessBatch around RunProcess.                        *)

\* A cancelled call and an unusable model or binary are answered at once.
Start ==
  /\ pc = "start"
  /\ \/ cancelled /\ Respond("cancelled")
     \/ ~cancelled /\ Respond("unavailable")
     \/ ~cancelled /\ Goto("next") /\ UNCHANGED answer
  /\ UNCHANGED <<index, captured, outcome, attempts, outputs, childVars, cancelled,
                 expired>>

\* Between two requests: the batch is complete, or cancelled, or pipe or fork
\* fails.
LeaveLoop ==
  /\ pc = "next"
  /\ IF index > Requests THEN Respond("ok")
     ELSE Respond(IF cancelled THEN "cancelled" ELSE "unavailable")
  /\ UNCHANGED <<index, captured, outcome, attempts, outputs, childVars, cancelled,
                 expired>>

\* The next child is forked, with a pipe and a deadline of its own.
Fork ==
  /\ pc = "next"
  /\ index <= Requests /\ ~cancelled
  /\ child' = "running" /\ status' = "none" /\ signal' = "none"
  /\ written' = 0 /\ unread' = 0 /\ captured' = 0
  /\ outcome' = "none" /\ attempts' = 0
  /\ expired' = FALSE
  /\ Goto("read")
  /\ UNCHANGED <<index, outputs, answer, cancelled>>

-----------------------------------------------------------------------------
(* The loop of RunProcess.                                                 *)

\* What exceeds the limit is read and dropped.
AppendWithLimit(n) == captured' = Least(OutputLimit, captured + n)

\* ReadAvailable, inside the loop and once more after it.
ReadSome ==
  /\ pc \in {"read", "finalread"}
  /\ unread > 0
  /\ AppendWithLimit(Least(unread, ChunkSize))
  /\ unread' = unread - Least(unread, ChunkSize)
  /\ UNCHANGED <<pc, index, outcome, attempts, outputs, answer, child, status, signal,
                 written, cancelled, expired>>

ReadDone ==
  /\ pc \in {"read", "finalread"}
  /\ unread = 0
  /\ Goto(IF pc = "read" THEN "wait" ELSE "classify")
  /\ UNCHANGED <<threadVars, childVars, cancelled, expired>>

\* Seeded fault: the output is not read again after the child's exit.
WaitExited_noDrain ==
  /\ pc = "wait" /\ child = "zombie"
  /\ child' = "reaped"
  /\ Goto("classify")
  /\ UNCHANGED <<threadVars, status, signal, written, unread, cancelled, expired>>

\* waitpid with WNOHANG finds the child's status ...
WaitExited ==
  /\ pc = "wait" /\ child = "zombie"
  /\ child' = "reaped"
  /\ Goto("finalread")
  /\ UNCHANGED <<threadVars, status, signal, written, unread, cancelled, expired>>

\* ... or the child is still running.
WaitRunning ==
  /\ pc = "wait" /\ child = "running"
  /\ Goto("cancellation")
  /\ UNCHANGED <<threadVars, childVars, cancelled, expired>>

CheckCancelled ==
  /\ pc = "cancellation"
  /\ IF cancelled THEN Goto("stop") /\ outcome' = "cancelled"
     ELSE Goto("deadline") /\ UNCHANGED outcome
  /\ UNCHANGED <<index, captured, attempts, outputs, answer, childVars, cancelled,
                 expired>>

CheckDeadline ==
  /\ pc = "deadline"
  /\ IF expired THEN Goto("stop") /\ outcome' = "timed_out"
     ELSE Goto("poll") /\ UNCHANGED outcome
  /\ UNCHANGED <<index, captured, attempts, outputs, answer, childVars, cancelled,
                 expired>>

\* poll returns with data, a hang-up or after 25 milliseconds at the latest.
Poll ==
  /\ pc = "poll"
  /\ Goto("read")
  /\ UNCHANGED <<threadVars, childVars, cancelled, expired>>

-----------------------------------------------------------------------------
(* StopProcess.                                                            *)

\* SIGTERM goes to the group and to the child itself, which may not have
\* called setpgid yet.
Terminate ==
  /\ pc = "stop"
  /\ signal' = "TERM"
  /\ Goto("grace")
  /\ UNCHANGED <<threadVars, child, status, written, unread, cancelled, expired>>

\* Seeded fault: a reaped child does not end the loop.
GraceReap_goOn ==
  /\ pc = "grace" /\ attempts < StopAttempts /\ child = "zombie"
  /\ child' = "reaped"
  /\ attempts' = attempts + 1
  /\ UNCHANGED <<pc, index, captured, outcome, outputs, answer, status, signal, written,
                 unread, cancelled, expired>>

GraceReap ==
  /\ pc = "grace" /\ attempts < StopAttempts /\ child = "zombie"
  /\ child' = "reaped"
  /\ Goto("finalread")
  /\ UNCHANGED <<threadVars, status, signal, written, unread, cancelled, expired>>

GraceWait ==
  /\ pc = "grace" /\ attempts < StopAttempts /\ child # "zombie"
  /\ attempts' = attempts + 1
  /\ UNCHANGED <<pc, index, captured, outcome, outputs, answer, childVars, cancelled,
                 expired>>

\* Seeded fault: after SIGKILL nobody waits for the child.
Kill_unreaped ==
  /\ pc = "grace" /\ attempts >= StopAttempts
  /\ signal' = "KILL"
  /\ Goto("finalread")
  /\ UNCHANGED <<threadVars, child, status, written, unread, cancelled, expired>>

\* Seeded fault: the child is asked again instead of killed.
Kill_politely ==
  /\ pc = "grace" /\ attempts >= StopAttempts
  /\ signal' = "TERM"
  /\ Goto("reap")
  /\ UNCHANGED <<threadVars, child, status, written, unread, cancelled, expired>>

Kill ==
  /\ pc = "grace" /\ attempts >= StopAttempts
  /\ signal' = "KILL"
  /\ Goto("reap")
  /\ UNCHANGED <<threadVars, child, status, written, unread, cancelled, expired>>

\* The blocking waitpid.
Reap ==
  /\ pc = "reap" /\ child = "zombie"
  /\ child' = "reaped"
  /\ Goto("finalread")
  /\ UNCHANGED <<threadVars, status, signal, written, unread, cancelled, expired>>

-----------------------------------------------------------------------------
(* What ProcessBatch makes of the ProcessResult.                           *)

\* Seeded fault: a request whose child failed is passed over.
Classify_skips ==
  /\ pc = "classify"
  /\ IF outcome # "none"
     THEN /\ Respond(IF outcome = "cancelled" THEN "cancelled" ELSE "unavailable")
          /\ UNCHANGED <<index, outputs>>
     ELSE /\ outputs' = IF status # "exit0" THEN outputs
                        ELSE Append(outputs, [status |-> status, written |-> written,
                                              captured |-> captured])
          /\ index' = index + 1
          /\ Goto("next")
          /\ UNCHANGED answer
  /\ UNCHANGED <<captured, outcome, attempts, childVars, cancelled, expired>>

\* A child that was stopped or failed fails the whole batch.
Classify ==
  /\ pc = "classify"
  /\ IF outcome # "none" \/ status # "exit0"
     THEN /\ Respond(IF outcome = "cancelled" THEN "cancelled" ELSE "unavailable")
          /\ UNCHANGED <<index, outputs>>
     ELSE /\ outputs' = Append(outputs, [status |-> status, written |-> written,
                                         captured |-> captured])
          /\ index' = index + 1
          /\ Goto("next")
          /\ UNCHANGED answer
  /\ UNCHANGED <<captured, outcome, attempts, childVars, cancelled, expired>>

-----------------------------------------------------------------------------
(* The child and the rest of the world.                                    *)

\* A child may write for ever; what it wrote is counted only as far as a reader
\* who keeps OutputLimit bytes can tell.
ChildWrites ==
  /\ child = "running"
  /\ unread < PipeCapacity
  /\ written' = Least(MaxOutput, written + 1)
  /\ unread' = unread + 1
  /\ UNCHANGED <<pc, threadVars, child, status, signal, cancelled, expired>>

ChildEnds(how) ==
  /\ child = "running"
  /\ child' = "zombie"
  /\ status' = how
  /\ UNCHANGED <<pc, threadVars, signal, written, unread, cancelled, expired>>

\* A child may ignore SIGTERM, but not SIGKILL.
ObeyTerm == signal = "TERM" /\ ChildEnds("signalled")
ObeyKill == signal = "KILL" /\ ChildEnds("signalled")
Exit == \E code \in {"exit0", "exit1"} : ChildEnds(code)

Cancel ==
  /\ ~cancelled
  /\ cancelled' = TRUE
  /\ UNCHANGED <<pc, threadVars, childVars, expired>>

Expire ==
  /\ child # "none" /\ ~expired
  /\ expired' = TRUE
  /\ UNCHANGED <<pc, threadVars, childVars, cancelled>>

\* ProcessBatch has returned for good.
Idle == pc = "returned" /\ UNCHANGED vars

-----------------------------------------------------------------------------
Init ==
  /\ pc = "start" /\ index = 1
  /\ captured = 0 /\ outcome = "none" /\ attempts = 0
  /\ outputs = <<>> /\ answer = "none"
  /\ child = "none" /\ status = "none" /\ signal = "none"
  /\ written = 0 /\ unread = 0
  /\ cancelled \in BOOLEAN /\ expired = FALSE

RunProcess ==
  \/ Fork \/ ReadSome \/ ReadDone \/ WaitExited \/ WaitRunning
  \/ CheckCancelled \/ CheckDeadline \/ Poll

StopProcess == Terminate \/ GraceReap \/ GraceWait \/ Kill \/ Reap

Thread == Start \/ LeaveLoop \/ RunProcess \/ StopProcess \/ Classify

Child == ChildWrites \/ Exit \/ ObeyTerm \/ ObeyKill

Next == Thread \/ Child \/ Cancel \/ Expire \/ Idle

Spec == Init /\ [][Next]_vars

\* The worker thread runs, time passes, and the kernel delivers SIGKILL.  The
\* child need not do anything.
Fairness == WF_vars(Thread) /\ WF_vars(Expire) /\ WF_vars(ObeyKill)

FairSpec == Spec /\ Fairness

-----------------------------------------------------------------------------
Output == [status : {"exit0"}, written : Nat, captured : 0..OutputLimit]

ThreadType ==
  /\ pc \in {"start", "next", "read", "wait", "cancellation", "deadline", "poll",
             "stop", "grace", "reap", "finalread", "classify", "returned"}
  /\ index \in 1..(Requests + 1)
  /\ captured \in 0..OutputLimit
  /\ outcome \in {"none", "cancelled", "timed_out"}
  /\ attempts \in 0..StopAttempts
  /\ outputs \in Seq(Output)
  /\ answer \in {"none", "ok", "cancelled", "unavailable"}

ChildType ==
  /\ child \in {"none", "running", "zombie", "reaped"}
  /\ status \in {"none", "exit0", "exit1", "signalled"}
  /\ signal \in {"none", "TERM", "KILL"}
  /\ written \in 0..MaxOutput /\ unread \in 0..PipeCapacity

FlagType == cancelled \in BOOLEAN /\ expired \in BOOLEAN

TypeOK == ThreadType /\ ChildType /\ FlagType

\* Whichever way a RunProcess ends, its child has been waited for: no process
\* and no zombie is left behind when the next one is forked or the batch
\* returns.
NoChildLeft == pc \in {"start", "next", "returned"} => child \in {"none", "reaped"}

\* An output is reported for a child only with everything the child wrote, up
\* to the limit, although it may write and exit between two reads.
OutputsComplete ==
  \A i \in DOMAIN outputs : outputs[i].captured = Least(OutputLimit, outputs[i].written)

\* A batch is answered with one output per request or not at all.
AnsweredInFull == answer = "ok" => Len(outputs) = Requests

\* No signal is ever sent to a process id that has been waited for, which may
\* belong to somebody else by then.
SignalsReachOwnChild ==
  [][signal' # signal /\ signal' # "none" => child \in {"running", "zombie"}]_vars

\* A child is signalled only for a cancelled call or a passed deadline, and a
\* cancellation is reported only if there was one.
StoppedForCause ==
  /\ signal # "none" => cancelled \/ expired
  /\ answer = "cancelled" => cancelled

-----------------------------------------------------------------------------
(* The inductive invariant behind the safety properties.                   *)

\* What the control point says about the child and about the reason to stop it.
ControlInvariant ==
  /\ pc \in {"start", "next", "returned"} => child \in {"none", "reaped"}
  /\ pc \in {"read", "wait", "cancellation", "deadline", "poll", "stop", "grace", "reap"}
       => child \in {"running", "zombie"}
  /\ pc \in {"finalread", "classify"} => child = "reaped"
  /\ pc \in {"stop", "grace", "reap"} => outcome # "none"
  /\ outcome = "cancelled" => cancelled
  /\ outcome = "timed_out" => expired
  /\ signal # "none" => cancelled \/ expired
  /\ answer = "cancelled" => cancelled
  /\ pc # "returned" => answer = "none"

\* What has been read is what was kept, up to the limit; and one output is
\* reported per request passed.
OutputInvariant ==
  /\ unread <= written
  /\ captured = Least(OutputLimit, written - unread)
  /\ pc = "classify" => unread = 0
  /\ Len(outputs) = index - 1
  /\ pc \notin {"start", "next", "returned"} => index <= Requests
  /\ answer = "ok" => index = Requests + 1
  /\ OutputsComplete

-----------------------------------------------------------------------------
(* Liveness.                                                               *)

\* ProcessBatch returns although its children may hang, fill the pipe and
\* ignore SIGTERM, unless a child never stops writing: ReadAvailable reads until
\* the pipe is empty, and as long as the child refills it in time, neither the
\* deadline nor the cancellation is looked at.
Returns == <>(pc = "returned") \/ []<><<ChildWrites>>_vars

-----------------------------------------------------------------------------
(* Refinement.                                                             *)

Contract == INSTANCE BackendContract WITH
  Batch <- Requests,
  code <- answer,
  outputs <- IF answer \in {"none", "ok"} THEN Len(outputs) ELSE 0

\* LlamaCppBackend::ProcessBatch keeps the contract of InferenceBackend: it
\* answers once, with an output of every child or with none, and it reports a
\* cancellation only if there was one.
ImplementsContract == Contract!Spec

=============================================================================

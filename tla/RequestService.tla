--------------------------- MODULE RequestService ----------------------------
(***************************************************************************)
(* What the gateway promises the callers of Batcher.submit, with nothing   *)
(* of how it is done: no queue, no batches, no timer, no worker and no     *)
(* circuit.  A request is taken in when its tokens fit the budget and      *)
(* refused when they do not; one that is taken in is charged until some    *)
(* moment before it is answered, and it is answered once, with the result  *)
(* for its own prompt or with an error; it is told that it was cancelled   *)
(* only if its context was.  Batcher implements this specification.        *)
(***************************************************************************)
CONSTANTS
  Requests,       \* the requests
  Affordable,     \* the sets of requests the token budget can carry at once
  Refused,        \* the answer to a request the budget has no room for
  Cancelled,      \* the answer to a request whose context was cancelled
  Failed,         \* the other errors
  OwnResult(_),   \* the answer with the result for a request's own prompt
  NoResponse      \* no answer yet

VARIABLES
  phase,          \* "new", "pending" or "done"
  charged,        \* the requests whose tokens are charged to the budget
  cancelled,      \* has the request's context been cancelled
  answer          \* what the caller was told

vars == <<phase, charged, cancelled, answer>>

Init ==
  /\ phase = [r \in Requests |-> "new"]
  /\ charged = {}
  /\ cancelled = [r \in Requests |-> FALSE]
  /\ answer = [r \in Requests |-> NoResponse]

Accept(r) ==
  /\ phase[r] = "new"
  /\ charged \cup {r} \in Affordable
  /\ charged' = charged \cup {r}
  /\ phase' = [phase EXCEPT ![r] = "pending"]
  /\ UNCHANGED <<cancelled, answer>>

Refuse(r) ==
  /\ phase[r] = "new"
  /\ charged \cup {r} \notin Affordable
  /\ phase' = [phase EXCEPT ![r] = "done"]
  /\ answer' = [answer EXCEPT ![r] = Refused]
  /\ UNCHANGED <<charged, cancelled>>

\* The tokens come back before the answer does, or with it.
Discharge(r) ==
  /\ phase[r] = "pending"
  /\ r \in charged
  /\ charged' = charged \ {r}
  /\ UNCHANGED <<phase, cancelled, answer>>

Answer(r) ==
  /\ phase[r] = "pending"
  /\ phase' = [phase EXCEPT ![r] = "done"]
  /\ charged' = charged \ {r}
  /\ \/ answer' = [answer EXCEPT ![r] = OwnResult(r)]
     \/ \E error \in Failed : answer' = [answer EXCEPT ![r] = error]
     \/ cancelled[r] /\ answer' = [answer EXCEPT ![r] = Cancelled]
  /\ UNCHANGED cancelled

\* Environment: the client of a request that has no answer yet goes away.
Cancel(r) ==
  /\ phase[r] # "done"
  /\ ~cancelled[r]
  /\ cancelled' = [cancelled EXCEPT ![r] = TRUE]
  /\ UNCHANGED <<phase, charged, answer>>

Next == \E r \in Requests :
          Accept(r) \/ Refuse(r) \/ Discharge(r) \/ Answer(r) \/ Cancel(r)

Spec == Init /\ [][Next]_vars

=============================================================================

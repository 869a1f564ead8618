-------------------------- MODULE MCWorkerService ----------------------------
(***************************************************************************)
(* WorkerService with a batch of three prompts and a stream, over every    *)
(* kind of backend.                                                        *)
(***************************************************************************)
EXTENDS WorkerService

\* A prompt without words is among them.
TwoCalls == [batch |-> <<2, 0, 1>>, stream |-> <<0>>]
StreamCalls == {"stream"}

\* Below, inside and above the bounds of every variable.
SomeValues == {Unset, Malformed, Number(-1), Number(1), Number(150), Number(2000000)}

=============================================================================

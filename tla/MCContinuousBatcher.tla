------------------------ MODULE MCContinuousBatcher --------------------------
(***************************************************************************)
(* ContinuousBatcher on batches of three requests.                         *)
(***************************************************************************)
EXTENDS ContinuousBatcher

CONSTANTS s0, s1, s2, s3

ThreeIndices == 1..3
AllIds == {s0, s1, s2, s3}

Req(id, prompt, generate, priority, key) ==
  [id |-> id, promptTokens |-> prompt, maxGenerated |-> generate,
   priority |-> priority, key |-> key, prefixTokens |-> IF key = NoKey THEN -1 ELSE 1]

\* Sequences of different length and priority.  A key is used with one prefix
\* length and only when the prompt is long enough, as the backend does it.
Ids == {<<s1, s2, s3>>, <<s1, s2, s1>>, <<s0, s1, s2>>}
Shapes == {<<0, 2, 0>>, <<1, 2, 1>>, <<3, 1, 1>>, <<2, 0, 1>>, <<2, 3, 0>>, <<2, 1, 2>>}
MixedWorkloads ==
  {[i \in ThreeIndices |->
      Req(ids[i], shapes[i][1], shapes[i][2], priorities[i], shapes[i][3])] :
     ids \in Ids, shapes \in [ThreeIndices -> Shapes],
     priorities \in {<<0, 0, 0>>, <<0, 1, 0>>, <<0, 0, 1>>, <<0, 1, 2>>}}

=============================================================================

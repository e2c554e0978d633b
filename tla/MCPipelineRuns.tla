-------------------------- MODULE MCPipelineRuns --------------------------
(* Small instances of PipelineRuns for TLC. *)
EXTENDS PipelineRuns, TLC

CONSTANTS c1, c2, r1, r2, summary

(* A triggered call and its retry: two calls with one key. *)
SameRun == (c1 :> r1) @@ (c2 :> r1)

OnePipeline == [r \in Runs |-> summary]

(* Two provider's nodes in a row, or one; or a write alone.            *)
AskTwiceOrWrite == {<<"llm", "llm">>, <<"data">>}

AskOrWrite == {<<"llm", "data">>, <<"data">>}
=============================================================================

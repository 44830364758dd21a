--------------------------- MODULE MCStepPipeline ---------------------------
(***************************************************************************)
(* Small instance of StepPipeline.  With depths 0 and 1 and parallel       *)
(* drafting, PlannedQLen is 1 or 2 and the classification ceiling 1 or 3,  *)
(* so one-token, full-depth, reduced-depth, over-deep and prefill queries  *)
(* (length 4) all occur.  Graphs exist for 2 requests only: a single       *)
(* request is padded, three run the persistent path without a graph at     *)
(* depth 0 and exceed MaxCapture at depth 1.                               *)
(***************************************************************************)
EXTENDS StepPipeline

MCSpecDepths == {0, 1}
MCCaptureReqs == {2}
=============================================================================

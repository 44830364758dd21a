------------------------- MODULE MCAttentionKernel --------------------------
(***************************************************************************)
(* Small instances of AttentionKernel: one kernel for each way the loop    *)
(* differs, on chunks of up to MaxTiles tiles of which the mask may leave  *)
(* fewer, the last one full or partly past the end.                        *)
(***************************************************************************)
EXTENDS AttentionKernel

(* decode and long prefill on NVFP4, with packed and plain Q; wide heads   *)
(* on NVFP4; repacked FP8; a buffer shared between K and V                 *)
MCKernels ==
  {[kv |-> "fp4", wide |-> FALSE, tileQ |-> 16, packedQ |-> TRUE, floatOut |-> FALSE],
   [kv |-> "fp4", wide |-> FALSE, tileQ |-> 16, packedQ |-> FALSE, floatOut |-> TRUE],
   [kv |-> "fp4", wide |-> FALSE, tileQ |-> 64, packedQ |-> TRUE, floatOut |-> FALSE],
   [kv |-> "fp4", wide |-> TRUE, tileQ |-> 16, packedQ |-> FALSE, floatOut |-> FALSE],
   [kv |-> "fp8", wide |-> FALSE, tileQ |-> 64, packedQ |-> FALSE, floatOut |-> FALSE],
   [kv |-> "b16", wide |-> TRUE, tileQ |-> 16, packedQ |-> FALSE, floatOut |-> TRUE]}
=============================================================================

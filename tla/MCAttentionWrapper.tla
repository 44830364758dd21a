------------------------- MODULE MCAttentionWrapper -------------------------
(* Instances of AttentionWrapper for TLC. *)
EXTENDS AttentionWrapper

MCDecodeLanes ==
  [decode : {TRUE}, tensorCores : BOOLEAN, cudaGraph : {FALSE}, fixed : {0},
   backend : {"auto", "fa2"}, hopper : BOOLEAN]
MCDecodeGraphLanes ==
  [decode : {TRUE}, tensorCores : BOOLEAN, cudaGraph : {TRUE}, fixed : {2},
   backend : {"auto", "fa2"}, hopper : BOOLEAN]
MCPrefillLanes ==
  [decode : {FALSE}, tensorCores : {TRUE}, cudaGraph : {FALSE}, fixed : {0},
   backend : {"auto", "fa2"}, hopper : BOOLEAN]
MCPrefillGraphLanes ==
  [decode : {FALSE}, tensorCores : {TRUE}, cudaGraph : {TRUE}, fixed : {2},
   backend : {"auto", "fa2"}, hopper : BOOLEAN]

(* The device only matters to a wrapper that leaves the backend open, and  *)
(* to one planned for fa2 on Hopper, which keeps one lane of each kind.    *)
MCLanes ==
  {l \in MCDecodeLanes \union MCDecodeGraphLanes
           \union MCPrefillLanes \union MCPrefillGraphLanes :
     l.hopper /\ l.backend = "fa2" => ~l.cudaGraph /\ l.tensorCores}

MCData(qd, kd, hd, win, nvf4) ==
  [qd |-> qd, kd |-> kd, hd |-> hd, win |-> win, nvf4 |-> nvf4]

(* A cache in the query type, 8 bits throughout, and the two ways to read a*)
(* 4-bit cache; a window; a head size A4Q does not support.                *)
MCTypes ==
  {MCData("bf16", "bf16", 128, FALSE, FALSE),
   MCData("bf16", "bf16", 128, TRUE, FALSE),
   MCData("fp8", "fp8", 128, FALSE, FALSE),
   MCData("bf16", "nvfp4", 128, FALSE, FALSE),
   MCData("bf16", "nvfp4", 128, FALSE, TRUE),
   MCData("bf16", "nvfp4", 512, FALSE, TRUE)}

(* One or two requests of one or two rows; with keys for all rows or not.  *)
MCShapes ==
  {[n |-> 1, q |-> 1, kv |-> 1], [n |-> 2, q |-> 1, kv |-> 1],
   [n |-> 1, q |-> 2, kv |-> 2], [n |-> 2, q |-> 2, kv |-> 2],
   [n |-> 2, q |-> 2, kv |-> 1]}

MCCall(b, d, noSplit) ==
  [n |-> b.n, q |-> b.q, kv |-> b.kv, qd |-> d.qd, kd |-> d.kd, hd |-> d.hd,
   win |-> d.win, nvf4 |-> d.nvf4, noSplit |-> noSplit]

MCCalls == {MCCall(b, d, FALSE) : b \in MCShapes, d \in MCTypes}
=============================================================================

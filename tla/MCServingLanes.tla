-------------------------- MODULE MCServingLanes --------------------------
(* Configurations of ServingLanes for TLC.                                 *)
EXTENDS ServingLanes

(* Every combination; the head size matters to A4Q alone, and A4Q, whose   *)
(* flags need a 4-bit cache, is left out elsewhere. 64 and 512 are below   *)
(* and above what A4Q's kernels take.                                      *)
MCConfigurations ==
  {c \in Options :
     /\ c.quantized => c.cache # "auto"
     /\ c.head # 128
     /\ c.a4q => c.cache = "nvfp4"
     /\ ~c.a4q => c.head = 256}
=============================================================================

----------------------------- MODULE MCKvTiling -----------------------------
(***************************************************************************)
(* Small instances of KvTiling: groups that do not divide the tile, so     *)
(* that a token's heads lie in two tiles; windows shorter and longer than  *)
(* the keys; chunks that end inside a tile.                                *)
(***************************************************************************)
EXTENDS KvTiling

CONSTANTS MaxQo, MaxKv

MCRequests ==
  {x \in [qo : 1..MaxQo, kv : 0..MaxKv, window : {-1, 0, 1, 3}, chunk : {0, 3, 4},
          causal : BOOLEAN] : RequestOK(x)}
=============================================================================

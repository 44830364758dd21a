---------------------------- MODULE BlockService -----------------------------
(***************************************************************************)
(* What a thread block of the attention kernel promises the launch: its    *)
(* warps fold the tiles of the chunk together, none taking up a tile while *)
(* another is still at the one before, and a warp writes its part of the   *)
(* output once, when every warp has folded every tile.                     *)
(***************************************************************************)
EXTENDS Naturals, Sequences

CONSTANT Warps

VARIABLES
  tiles,    \* tiles of the chunk
  folded,   \* tiles each warp has folded, in order
  output    \* what each warp has written

Init ==
  /\ tiles \in Nat
  /\ folded = [w \in Warps |-> << >>]
  /\ output = [w \in Warps |-> "none"]

FoldTile(w) ==
  /\ Len(folded[w]) < tiles
  /\ \A v \in Warps : Len(folded[w]) <= Len(folded[v])
  /\ folded' = [folded EXCEPT ![w] = Append(@, Len(@) + 1)]
  /\ UNCHANGED <<tiles, output>>

Write(w) ==
  /\ \A v \in Warps : Len(folded[v]) = tiles
  /\ output[w] = "none"
  /\ output' = [output EXCEPT ![w] = "whole"]
  /\ UNCHANGED <<tiles, folded>>

Next == \E w \in Warps : FoldTile(w) \/ Write(w)

Spec == Init /\ [][Next]_<<tiles, folded, output>>
=============================================================================

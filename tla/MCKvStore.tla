----------------------------- MODULE MCKvStore ------------------------------
(***************************************************************************)
(* Small instance of KvStore.  A page is one tile of four tokens, the      *)
(* least the swizzle works on, and a head has four groups, the least too;  *)
(* three of the eight slots of two pages are used, two of one tile and the *)
(* last of the other page.  Two launches of up to three tokens store them  *)
(* side by side, alone and again.                                          *)
(***************************************************************************)
EXTENDS KvStore

MCMajors == {10, 12}
MCUsedSlots == {0, 2, 7}
=============================================================================

--------------------------- MODULE MCPagedMetadata --------------------------
(***************************************************************************)
(* Small instance of PagedMetadata.  With pages of two tokens the lengths  *)
(* 0 to 5 are: padding, partial and exact pages, up to three pages.  With  *)
(* chunks of two pages a program of three pages takes two turns and masks  *)
(* the second.  Two steps: the second one runs over what the first left.   *)
(***************************************************************************)
EXTENDS PagedMetadata
=============================================================================

----------------------------- MODULE MCNumbers ------------------------------
(***************************************************************************)
(* Numbers of one byte: base 2 fills the buffer of 8 as base 8 would fill  *)
(* one of 22, and the buffer of 32 has more room than that.                *)
(***************************************************************************)
EXTENDS Numbers

MCRadices == {2, 8, 10, 16}
=============================================================================

------------------------------ MODULE MCPaging ------------------------------
(***************************************************************************)
(* Paging with three directory entries, the window in the last, and four   *)
(* pages: page 0 under the window, two the kernel runs on, one free.       *)
(***************************************************************************)
EXTENDS Paging

MCResident == {1, 2}
MCMappable == {0, 3}
=============================================================================

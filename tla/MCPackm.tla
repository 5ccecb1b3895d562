------------------------------ MODULE MCPackm ------------------------------
(***************************************************************************)
(* Three threads pack four times: a block is acquired, replaced by a larger *)
(* one unless the first was large enough, not needed, and reused.          *)
(***************************************************************************)
EXTENDS Packm

MCPacks == <<1, 2, 0, 1>>
=============================================================================

--------------------------- MODULE MCFwUploadTab ---------------------------
(* FwUploadTab for TLC: a binary of two blocks and one of a single block. *)
EXTENDS FwUploadTab

ImagesOfTwoSizes == {<<"a1", "a2">>, <<"b1">>}
=============================================================================

-------------------------- MODULE MCVarLengthStore --------------------------
(* Frames of three bytes and objects of one to three: frames that are full *)
(* to the last byte, that have too little left, and that are skipped.      *)
EXTENDS VarLengthStore

=============================================================================

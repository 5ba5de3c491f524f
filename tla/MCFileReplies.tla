---------------------------- MODULE MCFileReplies ----------------------------
(* Instances of FileReplies for TLC. Four bytes in up to three parts give   *)
(* plans that fit, plans that end early and plans with a part too many.      *)
EXTENDS FileReplies
=============================================================================

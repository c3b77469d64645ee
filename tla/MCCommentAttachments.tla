------------------------- MODULE MCCommentAttachments -------------------------
(***************************************************************************)
(* CommentAttachments for TLC: a comment with two files and one with a     *)
(* file that has the name of one of them.                                  *)
(***************************************************************************)
EXTENDS CommentAttachments, TLC

CONSTANTS c1, c2

\* The runs are alike, and nothing but safety is checked.
RunSymmetry == Permutations(Runs)

SmallFiles == (c1 :> {"log", "video"}) @@ (c2 :> {"log"})

==============================================================================

---------------------------- MODULE MCDefectFetch ----------------------------
(***************************************************************************)
(* Instances of DefectFetch for TLC.                                       *)
(***************************************************************************)
EXTENDS DefectFetch

\* outer.zip has inner.zip, which has deep.log and a plain.log that replaces the
\* site's; the user adds an archive too.  The attachment has a name no URL carries.
Order == <<"CommentAttachment/0/#1.txt", "deep.log", "inner.zip", "outer.zip", "plain.log",
           "user_added_log/u.log", "user_added_log/u.zip">>
MCPlace == [n \in Range(Order) |-> CHOOSE i \in DOMAIN Order : Order[i] = n]
MCInside ==
    [a \in {"inner.zip", "outer.zip", "user_added_log/u.zip"} |->
        CASE a = "outer.zip" -> <<"inner.zip">>
          [] a = "inner.zip" -> <<"deep.log", "plain.log">>
          [] OTHER           -> <<"user_added_log/u.log">>]
MCFiles       == {"outer.zip", "plain.log"}
MCAttachments == {"CommentAttachment/0/#1.txt"}
MCUserFiles   == {"user_added_log/u.zip"}

=============================================================================

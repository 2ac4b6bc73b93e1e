------------------------------ MODULE MCUpload ------------------------------
(* Three chunks: one can be skipped, and one come twice.                    *)
EXTENDS Upload

(* Bound: replies waiting in the host's buffer.                             *)
FewReplies == Len(replies) <= 2
=============================================================================

---------------------------- MODULE MCDeviceJob ----------------------------
(* Small instances of DeviceJob for TLC. *)
EXTENDS DeviceJobRefinement, TLC

CONSTANTS h1, h2, j1, j2

OneHandle  == {h1}
TwoHandles == {h1, h2}
OneJob     == {j1}
TwoJobs    == {j1, j2}

OneParam  == {"p"}
TwoParams == {"p", "q"}

\* One code for each way Handle_response can end.
AllErrors  == {400, 403, 404, 500, 504}
FewErrors  == {404, 500}
NoErrors   == {}           \* nothing but transport errors

\* ret is written by every step that ends a call and read by none: two states
\* that differ only in it have the same futures.
WithoutRet == <<handleVars, call, reply, serverVars>>

\* What two handles do to each other goes through the remote job only; the
\* downloads of histograms and shots, which leave it alone, are left to the runs
\* with one handle.
NoDownloads == \A h \in Handles : call[h] \notin {"counts", "shots_counts", "shots"}

HandleSymmetry == Permutations(TwoHandles)
JobSymmetry    == Permutations(TwoJobs)
=============================================================================

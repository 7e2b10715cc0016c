--------------------------- MODULE MCRunAdmission ---------------------------
(* RunAdmission on small instances. *)
EXTENDS RunAdmission

MCTasks == {"api", "browser"}

\* Two calls of one task and one of the other: enough for a queue whose head
\* sleeps while others join, and for one call too many.
MCRequests == {<<"api", 1>>, <<"api", 2>>, <<"browser", 1>>}

\* One task making calls back to back, to look at its rate.
BurstTasks    == {"api"}
BurstRequests == {"api"} \X (1..3)
=============================================================================

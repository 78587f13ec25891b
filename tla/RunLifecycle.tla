---------------------------- MODULE RunLifecycle ----------------------------
(***************************************************************************)
(* What the status of a research run promises to whoever watches it: the   *)
(* transitions of services/run_orchestrator.py and of the funnel, each one *)
(* atomic.  A terminal run never moves again.                              *)
(***************************************************************************)
VARIABLE status

Live == {"queued", "running"}
Terminal == {"succeeded", "failed", "cancelled"}
Statuses == Live \cup {"paused"} \cup Terminal

Created == status = "queued"

Move(from, to) == status \in from /\ status' = to

Transition ==
    \/ Move({"queued"}, "running")
    \/ Move({"running"}, "succeeded")
    \/ Move(Live, "failed")
    \/ Move({"running"}, "paused")
    \/ Move({"paused"}, "queued")
    \/ Move(Live \cup {"paused"}, "cancelled")

Lifecycle == Created /\ [][Transition]_status
=============================================================================

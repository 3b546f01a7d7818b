------------------------------ MODULE Observer ------------------------------
(* What both ends of a session tell their observers about it. *)

\* The values of type Outcome.
Outcomes == {"normal", "canceled", "failed"}
=============================================================================

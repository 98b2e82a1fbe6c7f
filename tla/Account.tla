------------------------------ MODULE Account -------------------------------
(* What the models of one account on the server share. *)
CONSTANT Requests   \* requests that may run at once
=============================================================================

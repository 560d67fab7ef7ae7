---------------------------- MODULE MCHttpStream ----------------------------
(* A large chunk among small ones, so that the limits are met at different *)
(* places. *)
EXTENDS HttpStream

MCSize == <<1, 2, 1, 1, 2, 1>>
=============================================================================

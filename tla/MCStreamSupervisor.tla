-------------------------- MODULE MCStreamSupervisor --------------------------
(***************************************************************************)
(* Two markets on one login, with the code's backoff of 10 s to 300 s.     *)
(***************************************************************************)
EXTENDS StreamSupervisor

=============================================================================

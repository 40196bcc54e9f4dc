----------------------------- MODULE MCIGSession -----------------------------
(* IGSession with two tasks and a few faults, with its own login or a shared one. *)
EXTENDS IGSession

TwoTasks == 1..2
OwnOrShared == {None, 1}
=============================================================================

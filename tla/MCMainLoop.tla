----------------------------- MODULE MCMainLoop -----------------------------
(***************************************************************************)
(* The super-loop on small instances: the cfg files choose a loop that is  *)
(* fast enough (Timely) or may stall for seconds, a tick counter that      *)
(* wraps within the run, and short lwIP periods.                           *)
(***************************************************************************)
EXTENDS MainLoop

AllInputs == (0..1) \X (0..1)
ValidOnly == {<<1, 0>>}
=============================================================================

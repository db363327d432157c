--------------------------------- MODULE MCBox ---------------------------------
(* Box on a small instance: two tasks, so that one may wait behind a job that *)
(* was given up.                                                              *)
EXTENDS Box
=============================================================================

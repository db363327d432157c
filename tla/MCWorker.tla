------------------------------- MODULE MCWorker -------------------------------
(* Worker on a small instance: see the .cfg files for the bounds of each run. *)
EXTENDS Worker, TLC

CONSTANTS v1, v2, i1

MCWorkerKind == [w \in Workers |-> IF w = i1 THEN "image" ELSE "video"]

(* Video tasks are alike, and so are the video workers.                       *)
Alike == Permutations(VideoTasks) \cup Permutations({v1, v2})
=============================================================================

---------------------------- MODULE MCDynamoQueue ----------------------------
(* DynamoQueue on a small instance; the bounds are in the .cfg files.         *)
EXTENDS DynamoQueue, TLC

CONSTANTS v1, v2, i1

MCWorkerKind == [w \in Workers |-> IF w = i1 THEN "image" ELSE "video"]
Alike == Permutations(VideoTasks) \cup Permutations({v1, v2})
=============================================================================

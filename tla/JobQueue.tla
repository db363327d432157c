------------------------------- MODULE JobQueue -------------------------------
(***************************************************************************)
(* What the task queue and its workers promise together, with no clock, no *)
(* timestamps and no table: a task is done by one worker at a time, it is  *)
(* handed out again only when no live worker has it, its verdict is final, *)
(* and its owner is charged at most once, and only for a success.          *)
(*                                                                         *)
(* Worker (the SQLite store) and DynamoQueue (the DynamoDB store) are both *)
(* shown to implement it.                                                  *)
(***************************************************************************)
EXTENDS Naturals

CONSTANTS Tasks, Workers, NoTask

VARIABLES
  status,    \* status[t]: the verdict on t so far
  doing,     \* doing[w]: the task the live worker w is busy with, or NoTask
  charges    \* charges[t]: how often t's owner was charged for it

jobVars == <<status, doing, charges>>

Init ==
  /\ status = [t \in Tasks |-> "absent"]
  /\ doing = [w \in Workers |-> NoTask]
  /\ charges = [t \in Tasks |-> 0]

Submit(t) ==
  /\ status[t] = "absent"
  /\ status' = [status EXCEPT ![t] = "queued"]
  /\ UNCHANGED <<doing, charges>>

Take(w, t) ==
  /\ doing[w] = NoTask
  /\ status[t] = "queued"
  /\ \A v \in Workers : doing[v] # t
  /\ status' = [status EXCEPT ![t] = "running"]
  /\ doing' = [doing EXCEPT ![w] = t]
  /\ UNCHANGED charges

Succeed(w) ==
  /\ doing[w] \in Tasks
  /\ status[doing[w]] = "running"
  /\ status' = [status EXCEPT ![doing[w]] = "succeeded"]
  /\ UNCHANGED <<doing, charges>>

(* The owner of a success is charged, and the worker is free again.          *)
Charge(w) ==
  /\ doing[w] \in Tasks
  /\ status[doing[w]] = "succeeded"
  /\ charges[doing[w]] = 0
  /\ charges' = [charges EXCEPT ![doing[w]] = 1]
  /\ doing' = [doing EXCEPT ![w] = NoTask]
  /\ UNCHANGED status

Fail(w) ==
  /\ doing[w] \in Tasks
  /\ status[doing[w]] = "running"
  /\ status' = [status EXCEPT ![doing[w]] = "failed"]
  /\ doing' = [doing EXCEPT ![w] = NoTask]
  /\ UNCHANGED charges

(* The worker dies: its task keeps the status it has.                        *)
Die(w) ==
  /\ doing[w] \in Tasks
  /\ doing' = [doing EXCEPT ![w] = NoTask]
  /\ UNCHANGED <<status, charges>>

(* Tasks that run nowhere are put back, any number of them at once.          *)
PutBack(S) ==
  /\ \A t \in S : status[t] = "running" /\ \A w \in Workers : doing[w] # t
  /\ status' = [t \in Tasks |-> IF t \in S THEN "queued" ELSE status[t]]
  /\ UNCHANGED <<doing, charges>>

Next ==
  \/ \E t \in Tasks : Submit(t)
  \/ \E w \in Workers : Succeed(w) \/ Charge(w) \/ Fail(w) \/ Die(w)
  \/ \E w \in Workers, t \in Tasks : Take(w, t)
  \/ \E S \in SUBSET Tasks : PutBack(S)

Spec == Init /\ [][Next]_jobVars
=============================================================================

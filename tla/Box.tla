---------------------------------- MODULE Box ----------------------------------
(***************************************************************************)
(* The GPU box, whoever starts and stops it, and the work that is why:     *)
(* the task table, one worker with its backend and shim (Shim), the EC2    *)
(* instance, and its controller, which is either the autostop Lambda over  *)
(* DynamoDB (path "serverless", gateway/lambdas/autostop.py, the worker on *)
(* the box) or the loop of infra/autostop_controller.py over SQLite (path  *)
(* "single", the worker in the gateway's process next to it).              *)
(*                                                                         *)
(* There is no clock: that the idle window or a deadline has passed is an  *)
(* event.  A task's row is its status; Worker has the rest of it.          *)
(***************************************************************************)
EXTENDS Shim, Integers

CONSTANT MaxErrors    \* bound: how many steps of the loop fail

VARIABLES
  path,      \* which controller
  inst,      \* the instance: "stopped", "pending", "running", "stopping"
  worker,    \* the worker: "down", "idle", "busy"
  task,      \* the one it has in hand
  status,    \* per task: "absent", "queued", "running", "succeeded", "failed"
  view,      \* per task: the statuses a read that is not consistent may return
  fresh,     \* the tasks written within the last IDLE_STOP_MINUTES (serverless)
  recent,    \* those of them whose write before that was within them as well, as long as
             \*   a read may miss the last
  ev,        \* the evaluation: "rest", "queued" or "active" counted, "looked"
  evActive,  \* it counted a task
  evQuiet,   \* it found no task written for IDLE_STOP_MINUTES
  idle,      \* idle_since of the loop: "none", "ticking", "elapsed" for IDLE_STOP_MINUTES
  errors,    \* how many of them failed
  touched,   \* history: the active tasks written since the controller last knew all about them
  blind      \* history: idle_since was set by a count that failed, and none succeeded since

evVars  == <<ev, evActive, evQuiet, idle, errors>>
rowVars == <<status, view, fresh, recent>>
history == <<touched, blind>>
workVars == <<worker, task>>
aroundVars == <<path, inst, workVars, rowVars, evVars, history>>
boxVars == <<aroundVars, shimVars>>

Ended == {"succeeded", "failed"}
Active == {t \in Tasks : status[t] \in {"queued", "running"}}

BoxInit ==
  /\ ShimInit /\ path \in {"serverless", "single"}
  /\ inst = "stopped"
  /\ worker = (IF path = "single" THEN "idle" ELSE "down") /\ task = NoTask
  /\ status = [t \in Tasks |-> "absent"] /\ view = [t \in Tasks |-> {"absent"}]
  /\ fresh = {} /\ recent = {}
  /\ ev = "rest" /\ evActive = FALSE /\ evQuiet = FALSE
  /\ idle = "none" /\ errors = 0
  /\ touched = {} /\ blind = FALSE

(* Every write of a row sets its updated_at; a read that is not consistent    *)
(* may be one write behind.                                                   *)
WriteRows(T, to) ==
  /\ status' = [t \in Tasks |-> IF t \in T THEN to ELSE status[t]]
  /\ view' = [t \in Tasks |-> IF t \notin T THEN view[t]
                              ELSE IF path = "single" THEN {to} ELSE {status[t], to}]
  /\ fresh' = IF path = "single" THEN {} ELSE fresh \cup T
  /\ recent' = (recent \ T) \cup (fresh \cap T)
  /\ touched' = IF to \in Ended THEN touched \ T ELSE touched \cup T
Replicate(t) ==
  /\ view[t] # {status[t]} /\ view' = [view EXCEPT ![t] = {status[t]}]
  /\ recent' = recent \ {t}
  /\ UNCHANGED <<path, inst, workVars, status, fresh, evVars, history, shimVars>>

-----------------------------------------------------------------------------
(* A gateway enqueues; the worker claims, calls generate() and writes what    *)
(* came of it.                                                                *)
Enqueue(t) ==
  /\ status[t] = "absent" /\ WriteRows({t}, "queued")
  /\ UNCHANGED <<path, inst, workVars, evVars, blind, shimVars>>

Claim(t) ==
  /\ worker = "idle" /\ status[t] = "queued" /\ WriteRows({t}, "running")
  /\ worker' = "busy" /\ task' = t
  /\ call' = "submit" /\ subject' = t /\ seen' = "none"
  /\ UNCHANGED <<path, inst, evVars, blind, jobVars>>

CallEnds == call' = "none" /\ subject' = NoTask /\ seen' = "none"
Record ==
  /\ worker = "busy" /\ call \in {"made", "raised"}
  /\ WriteRows({task}, IF call = "made" THEN "succeeded" ELSE "failed")
  /\ worker' = "idle" /\ task' = NoTask /\ CallEnds
  /\ UNCHANGED <<path, inst, evVars, blind, jobVars>>

ShimRuns == inst \in {"running", "stopping"} /\ (Listen \/ Warm \/ ShimStep) /\ UNCHANGED aroundVars
Calls    == CallStep /\ UNCHANGED aroundVars
GivesUp  == GiveUp /\ UNCHANGED aroundVars

-----------------------------------------------------------------------------
(* The instance boots: a worker on it requeues the rows its predecessor left  *)
(* running for longer than the cutoff, any of them.  It halts.                *)
Boot ==
  /\ inst = "pending" /\ inst' = "running"
  /\ IF path = "single" THEN UNCHANGED <<worker, rowVars, touched>>
     ELSE worker' = "idle" /\ \E T \in SUBSET {t \in Tasks : status[t] = "running"} :
                                WriteRows(T, "queued")
  /\ UNCHANGED <<path, task, evVars, blind, shimVars>>

Halt ==
  /\ inst = "stopping" /\ inst' = "stopped"
  /\ ShimDies
  /\ IF path = "single" THEN CallBroken /\ UNCHANGED workVars
     ELSE worker' = "down" /\ task' = NoTask /\ CallEnds
  /\ UNCHANGED <<path, rowVars, evVars, history>>

(* IDLE_STOP_MINUTES pass since a write, or since the one before it: far more *)
(* than a read is ever behind, or the Lambda takes from its first read to its *)
(* scan.                                                                      *)
WindowPasses ==
  /\ \/ ev \notin {"queued", "active"} /\ UNCHANGED idle
        /\ \E t \in fresh :
             \/ view[t] = {status[t]} /\ fresh' = fresh \ {t} /\ UNCHANGED recent
             \/ t \in recent /\ recent' = recent \ {t} /\ UNCHANGED fresh
     \/ idle = "ticking" /\ idle' = "elapsed" /\ UNCHANGED <<fresh, recent>>
  /\ UNCHANGED <<path, inst, workVars, status, view, ev, evActive, evQuiet, errors,
                 history, shimVars>>

-----------------------------------------------------------------------------
(* One evaluation of the Lambda: it counts each status of the index, which    *)
(* may show a row as it was, scans for the newest update, and looks the       *)
(* instance up.                                                               *)
MayFind(s)  == \E t \in Tasks : s \in view[t]
MustFind(s) == \E t \in Tasks : view[t] = {s}
CountStatus(s, from, to) ==
  /\ path = "serverless" /\ ev = from /\ ev' = to
  /\ \/ MayFind(s) /\ evActive' = TRUE
     \/ ~ MustFind(s) /\ UNCHANGED evActive
  /\ UNCHANGED <<path, inst, workVars, rowVars, evQuiet, idle, errors, history, shimVars>>

(* Slip: only running tasks are work.                                         *)
RunningOnly == CountStatus("running", "rest", "queued")

CountQueued  == CountStatus("queued", "rest", "queued")
CountRunning == CountStatus("running", "queued", "active")

(* The scan may see a row as it was before its last write, with the time of   *)
(* the write before.                                                          *)
Behind == {t \in Tasks : view[t] # {status[t]}}
Scan ==
  /\ path = "serverless" /\ ev = "active" /\ ev' = "looked"
  /\ evQuiet' \in {fresh = {}, fresh \subseteq Behind \ recent}
  /\ touched' = Behind \cap Active
  /\ UNCHANGED <<path, inst, workVars, rowVars, evActive, idle, errors, blind, shimVars>>

(* Slip: any task is work, ended ones too.                                    *)
CountAll ==
  /\ path = "single" /\ ev = "rest" /\ ev' = "looked"
  /\ evActive' = (\E t \in Tasks : status[t] # "absent") /\ touched' = {} /\ blind' = FALSE
  /\ UNCHANGED <<path, inst, workVars, rowVars, evQuiet, idle, errors, shimVars>>

(* One evaluation of the loop: pending_work counts both statuses at once, and *)
(* an error counts as no work.                                                *)
CountWork ==
  /\ path = "single" /\ ev = "rest" /\ ev' = "looked"
  /\ evActive' = (Active # {}) /\ touched' = {} /\ blind' = FALSE
  /\ UNCHANGED <<path, inst, workVars, rowVars, evQuiet, idle, errors, shimVars>>
CountFails ==
  /\ path = "single" /\ ev = "rest" /\ ev' = "looked"
  /\ errors < MaxErrors /\ errors' = errors + 1
  /\ evActive' = FALSE /\ blind' = (blind \/ idle = "none")
  /\ UNCHANGED <<path, inst, workVars, rowVars, evQuiet, idle, touched, shimVars>>

EvaluationOver == evActive' = FALSE /\ evQuiet' = FALSE

(* Both then look the instance up and act; that nothing but this moves it     *)
(* from "stopped" or "running" makes the two one step.  A lookup that fails   *)
(* ends the loop's process, which is started again (and only skips a round of *)
(* the Lambda).                                                               *)
DescribeFails ==
  /\ path = "single" /\ ev = "looked" /\ ev' = "rest" /\ EvaluationOver
  /\ errors < MaxErrors /\ errors' = errors + 1
  /\ idle' = "none"
  /\ UNCHANGED <<path, inst, workVars, rowVars, history, shimVars>>

(* What an evaluation does: start a stopped box if there is work, stop a      *)
(* running one that was idle for the window.                                  *)
Starts == evActive /\ inst = "stopped"
Stops  == ~ evActive /\ inst = "running"
          /\ IF path = "single" THEN idle = "elapsed" ELSE evQuiet

(* Slip: the clock of the loop goes on while there is work.                   *)
ForgetfulClock == IF inst # "running" \/ Stops THEN "none"
                  ELSE IF idle = "none" THEN "ticking" ELSE idle

(* idle_since, after one round of the loop.                                   *)
IdleSince == IF evActive \/ inst # "running" \/ Stops THEN "none"
             ELSE IF idle = "none" THEN "ticking" ELSE idle

Act ==
  /\ ev = "looked" /\ ev' = "rest" /\ EvaluationOver
  /\ inst' = IF Starts THEN "pending"
             ELSE IF Stops THEN "stopping" ELSE inst
  /\ idle' = IF path = "single" THEN IdleSince ELSE idle
  /\ UNCHANGED <<path, workVars, rowVars, errors, history, shimVars>>

Evaluate == CountQueued \/ CountRunning \/ Scan \/ CountWork \/ Act

BoxNext ==
  \/ \E t \in Tasks : Enqueue(t) \/ Claim(t) \/ Replicate(t)
  \/ Record \/ ShimRuns \/ Calls \/ GivesUp \/ Boot \/ Halt \/ WindowPasses
  \/ Evaluate \/ CountFails \/ DescribeFails

BoxSpec == BoxInit /\ [][BoxNext]_boxVars

(* The worker, the shim and its client go on, deadlines and windows pass, EC2 *)
(* does what it is told, replicas catch up, and the controller is invoked     *)
(* again and again.                                                           *)
WorkerStep == (\E t \in Tasks : Claim(t)) \/ Record \/ Calls
BoxFairness ==
  /\ WF_boxVars(WorkerStep) /\ WF_boxVars(inst = "running" /\ ShimRuns)
  /\ SF_boxVars(GivesUp) /\ SF_boxVars(WindowPasses)
  /\ WF_boxVars(Boot \/ Halt) /\ WF_boxVars(Evaluate)
  /\ \A t \in Tasks : WF_boxVars(Replicate(t))
BoxFairSpec == BoxSpec /\ BoxFairness

-----------------------------------------------------------------------------
(* The box is never stopped under a task that was queued or running before    *)
(* the controller last looked: the Lambda overtakes only what was written     *)
(* after its scan or was not to be seen by it, the loop what was written      *)
(* after its last good count, or anything if every count of the window        *)
(* failed.                                                                    *)
StopSparesWork ==
  [][inst = "running" /\ inst' = "stopping" =>
       Active \subseteq touched \/ (path = "single" /\ blind)]_boxVars

(* A job the client sees completed has its files for the client to read, and  *)
(* a task succeeds only with the clip made for it.                            *)
CompletedHasFiles ==
  /\ call = "read" /\ seen = "completed" => subject \in files
  /\ worker = "busy" => subject = task /\ status[task] = "running"

(* A box nobody has work for is stopped in the end.                           *)
IdleBoxStops == []<>(inst = "stopped" \/ Active # {})

(* A queued task ends, whatever stops on the way, unless the box is halted    *)
(* under it: then its row stays "running" with no worker.                     *)
Orphaned(t) == status[t] = "running" /\ task # t
TasksEndOrAreOrphaned ==
  \A t \in Tasks : status[t] = "queued" ~> status[t] \in Ended \/ Orphaned(t)
=============================================================================

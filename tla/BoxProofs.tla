------------------------------- MODULE BoxProofs -------------------------------
(***************************************************************************)
(* For any set of tasks and any number of failing steps: what a stop of    *)
(* the box may hit, whichever controller runs it, and that a clip reported *)
(* as completed is there to be read, however the box goes up and down.     *)
(***************************************************************************)
EXTENDS Box, TLAPS

Queued  == {t \in Tasks : status[t] = "queued"}
Running == {t \in Tasks : status[t] = "running"}
Windows == path # "single"

(* A row not written within the window is read as it is.                      *)
RowsSettle ==
  /\ view = [t \in Tasks |-> view[t]]
  /\ ~ Windows => fresh = {}
  /\ \A t \in Tasks : Windows /\ t \notin fresh => view[t] = {status[t]}

(* What the Lambda has counted as none was written within the window, and is  *)
(* touched once the scan found the window quiet.                              *)
LambdaKnows ==
  /\ ev \in {"queued", "active"} => Windows
  /\ ev = "queued" /\ ~ evActive => Queued \subseteq fresh
  /\ ev = "active" /\ ~ evActive => Active \subseteq fresh
  /\ Windows /\ ev = "looked" /\ ~ evActive /\ evQuiet => Active \subseteq touched

(* What the loop has counted as none, and what its idle clock runs on, was    *)
(* touched since the last good count, or there was none.                      *)
LoopKnows ==
  ~ Windows =>
    /\ ev = "looked" /\ ~ evActive => Active \subseteq touched \/ blind
    /\ ev = "rest" /\ idle # "none" => Active \subseteq touched \/ blind

BoxInv == RowsSettle /\ LambdaKnows /\ LoopKnows

LEMMA BoxInvInit == BoxInit => BoxInv
<1> SUFFICES ASSUME BoxInit PROVE BoxInv
  OBVIOUS
<1>1. RowsSettle
  BY DEF BoxInit, RowsSettle, Windows
<1>2. LambdaKnows
  BY DEF BoxInit, LambdaKnows
<1>3. LoopKnows
  BY DEF BoxInit, LoopKnows
<1> QED
  BY <1>1, <1>2, <1>3 DEF BoxInv

-----------------------------------------------------------------------------
(* The workers' side: writes of rows, while the evaluation stands where it    *)
(* is, and steps that leave all of this alone.                                *)
LEMMA WriteKeepsBoxInv ==
  ASSUME BoxInv, NEW T, NEW to, WriteRows(T, to),
         UNCHANGED <<path, evVars, blind>>
  PROVE  BoxInv'
<1>1. Active' \subseteq Active \cup T /\ Queued' \subseteq Queued \cup T
  BY DEF WriteRows, Active, Queued
<1>2. (Active' \subseteq Active /\ Active' \cap T = {}) \/ to \notin Ended
  BY DEF WriteRows, Active, Ended
<1>3. Windows' = Windows /\ (Active \subseteq touched => Active' \subseteq touched')
  BY <1>1, <1>2 DEF WriteRows, Windows
<1>4. /\ Windows => fresh' = fresh \cup T
      /\ ~ Windows => fresh' = {}
  BY DEF WriteRows, Windows
<1>5. RowsSettle'
  <2>1. view' = [t \in Tasks |-> view'[t]]
    BY DEF WriteRows
  <2>2. ASSUME NEW t \in Tasks, Windows, t \notin fresh' PROVE view'[t] = {status'[t]}
    <3>1. t \notin T /\ t \notin fresh
      BY <1>4, <2>2
    <3>2. view'[t] = view[t] /\ status'[t] = status[t]
      BY <3>1 DEF WriteRows
    <3> QED
      BY <2>2, <3>1, <3>2 DEF BoxInv, RowsSettle
  <2> QED
    BY <1>3, <1>4, <2>1, <2>2 DEF RowsSettle
<1>6. LambdaKnows'
  <2>1. UNCHANGED <<ev, evActive, evQuiet>>
    BY DEF evVars
  <2> QED
    BY <1>1, <1>3, <1>4, <2>1 DEF BoxInv, LambdaKnows
<1>7. LoopKnows'
  <2>1. UNCHANGED <<ev, evActive, idle, blind>>
    BY DEF evVars
  <2> QED
    BY <1>3, <2>1 DEF BoxInv, LoopKnows
<1> QED
  BY <1>5, <1>6, <1>7 DEF BoxInv

LEMMA OthersKeepBoxInv ==
  ASSUME BoxInv, UNCHANGED <<path, rowVars, evVars, history>>
  PROVE  BoxInv'
  BY DEF BoxInv, RowsSettle, LambdaKnows, LoopKnows, Windows, Active, Queued, rowVars, evVars,
         history

LEMMA ReplicateKeepsBoxInv ==
  ASSUME BoxInv, NEW r \in Tasks, Replicate(r)
  PROVE  BoxInv'
<1>1. UNCHANGED <<path, status, fresh, evVars, history>>
  BY DEF Replicate
<1>2. RowsSettle'
  <2>1. view' = [view EXCEPT ![r] = {status[r]}]
    BY DEF Replicate
  <2>2. \A t \in Tasks : view'[t] = IF t = r THEN {status[r]} ELSE view[t]
    BY <2>1 DEF BoxInv, RowsSettle
  <2>3. view' = [t \in Tasks |-> view'[t]]
    BY <2>1 DEF BoxInv, RowsSettle
  <2> QED
    BY <1>1, <2>2, <2>3 DEF BoxInv, RowsSettle, Windows
<1>3. LambdaKnows' /\ LoopKnows'
  BY <1>1 DEF BoxInv, LambdaKnows, LoopKnows, Windows, Active, Queued, evVars, history
<1> QED
  BY <1>2, <1>3 DEF BoxInv

LEMMA WindowKeepsBoxInv ==
  ASSUME BoxInv, WindowPasses
  PROVE  BoxInv'
<1>1. UNCHANGED <<path, status, view, ev, evActive, evQuiet, touched, blind>>
  BY DEF WindowPasses, history
<1>2. /\ fresh' \subseteq fresh
      /\ ev \in {"queued", "active"} => fresh' = fresh
      /\ \A t \in fresh : t \notin fresh' => view[t] = {status[t]}
  BY DEF WindowPasses
<1>3. idle' # "none" => idle # "none"
  BY DEF WindowPasses
<1>4. RowsSettle'
  BY <1>1, <1>2 DEF BoxInv, RowsSettle, Windows
<1>5. LambdaKnows'
  BY <1>1, <1>2 DEF BoxInv, LambdaKnows, Windows, Active, Queued
<1>6. LoopKnows'
  BY <1>1, <1>3 DEF BoxInv, LoopKnows, Windows, Active
<1> QED
  BY <1>4, <1>5, <1>6 DEF BoxInv

-----------------------------------------------------------------------------
(* One evaluation of the Lambda.                                              *)
LEMMA NoneFound ==
  ASSUME BoxInv, Windows, NEW s, ~ MustFind(s)
  PROVE  {t \in Tasks : status[t] = s} \subseteq fresh
  BY DEF BoxInv, RowsSettle, MustFind

LEMMA CountQueuedKeepsBoxInv ==
  ASSUME BoxInv, CountQueued
  PROVE  BoxInv'
<1>1. /\ path = "serverless" /\ ev' = "queued"
      /\ UNCHANGED <<path, status, view, fresh>>
  BY DEF CountQueued, CountStatus, rowVars
<1>2. Windows'
  BY <1>1 DEF Windows
<1>3. ASSUME ~ evActive' PROVE Queued' \subseteq fresh'
  <2>1. ~ MustFind("queued")
    BY <1>3 DEF CountQueued, CountStatus
  <2>2. Queued \subseteq fresh
    BY <1>1, <2>1, NoneFound DEF Windows, Queued
  <2> QED
    BY <1>1, <2>2 DEF Queued
<1>4. RowsSettle'
  BY <1>1 DEF BoxInv, RowsSettle, Windows
<1>5. LambdaKnows'
  BY <1>1, <1>2, <1>3 DEF LambdaKnows
<1>6. LoopKnows'
  BY <1>2 DEF LoopKnows
<1> QED
  BY <1>4, <1>5, <1>6 DEF BoxInv

LEMMA CountRunningKeepsBoxInv ==
  ASSUME BoxInv, CountRunning
  PROVE  BoxInv'
<1>1. /\ path = "serverless" /\ ev = "queued" /\ ev' = "active"
      /\ UNCHANGED <<path, status, view, fresh>>
  BY DEF CountRunning, CountStatus, rowVars
<1>2. Windows'
  BY <1>1 DEF Windows
<1>3. ASSUME ~ evActive' PROVE Active' \subseteq fresh'
  <2>1. ~ MustFind("running") /\ ~ evActive
    BY <1>3 DEF CountRunning, CountStatus
  <2>2. Running \subseteq fresh
    BY <1>1, <2>1, NoneFound DEF Windows, Running
  <2>3. Queued \subseteq fresh
    BY <1>1, <2>1 DEF BoxInv, LambdaKnows
  <2> QED
    BY <1>1, <2>2, <2>3 DEF Active, Queued, Running
<1>4. RowsSettle'
  BY <1>1 DEF BoxInv, RowsSettle, Windows
<1>5. LambdaKnows'
  BY <1>1, <1>2, <1>3 DEF LambdaKnows
<1>6. LoopKnows'
  BY <1>2 DEF LoopKnows
<1> QED
  BY <1>4, <1>5, <1>6 DEF BoxInv

LEMMA ScanKeepsBoxInv ==
  ASSUME BoxInv, Scan
  PROVE  BoxInv'
<1>1. /\ path = "serverless" /\ ev = "active" /\ ev' = "looked"
      /\ UNCHANGED <<path, status, view, fresh, evActive>>
  BY DEF Scan, rowVars
<1>2. Windows'
  BY <1>1 DEF Windows
<1>3. ASSUME ~ evActive', evQuiet' PROVE Active' \subseteq touched'
  <2>1. fresh \cap Active \subseteq touched'
    BY <1>3 DEF Scan
  <2>2. Active \subseteq fresh
    BY <1>1, <1>3 DEF BoxInv, LambdaKnows
  <2> QED
    BY <1>1, <2>1, <2>2 DEF Active
<1>4. RowsSettle'
  BY <1>1 DEF BoxInv, RowsSettle, Windows
<1>5. LambdaKnows'
  BY <1>1, <1>2, <1>3 DEF LambdaKnows
<1>6. LoopKnows'
  BY <1>2 DEF LoopKnows
<1> QED
  BY <1>4, <1>5, <1>6 DEF BoxInv

-----------------------------------------------------------------------------
(* One evaluation of the loop.                                                *)
LEMMA CountWorkKeepsBoxInv ==
  ASSUME BoxInv, CountWork
  PROVE  BoxInv'
<1>1. /\ path = "single" /\ ev' = "looked"
      /\ UNCHANGED <<path, status, view, fresh>>
  BY DEF CountWork, rowVars
<1>2. ASSUME ~ evActive' PROVE Active' = {}
  BY <1>1, <1>2 DEF CountWork, Active
<1>3. RowsSettle'
  BY <1>1 DEF BoxInv, RowsSettle, Windows
<1>4. LambdaKnows'
  BY <1>1 DEF LambdaKnows, Windows
<1>5. LoopKnows'
  BY <1>1, <1>2 DEF LoopKnows
<1> QED
  BY <1>3, <1>4, <1>5 DEF BoxInv

LEMMA CountFailsKeepsBoxInv ==
  ASSUME BoxInv, CountFails
  PROVE  BoxInv'
<1>1. /\ path = "single" /\ ev = "rest" /\ ev' = "looked"
      /\ UNCHANGED <<path, status, view, fresh, touched>>
      /\ blind' = (blind \/ idle = "none")
  BY DEF CountFails, rowVars
<1>2. ASSUME ~ blind' PROVE Active' \subseteq touched'
  <2>1. ~ blind /\ idle # "none"
    BY <1>1, <1>2
  <2>2. Active \subseteq touched
    BY <1>1, <2>1 DEF BoxInv, LoopKnows, Windows
  <2> QED
    BY <1>1, <2>2 DEF Active
<1>3. RowsSettle'
  BY <1>1 DEF BoxInv, RowsSettle, Windows
<1>4. LambdaKnows'
  BY <1>1 DEF LambdaKnows, Windows
<1>5. LoopKnows'
  BY <1>1, <1>2 DEF LoopKnows
<1> QED
  BY <1>3, <1>4, <1>5 DEF BoxInv

LEMMA DescribeFailsKeepsBoxInv ==
  ASSUME BoxInv, DescribeFails
  PROVE  BoxInv'
<1>1. /\ path = "single" /\ ev' = "rest" /\ idle' = "none"
      /\ UNCHANGED <<path, status, view, fresh>>
  BY DEF DescribeFails, rowVars
<1>2. RowsSettle'
  BY <1>1 DEF BoxInv, RowsSettle, Windows
<1>3. LambdaKnows'
  BY <1>1 DEF LambdaKnows
<1>4. LoopKnows'
  BY <1>1 DEF LoopKnows
<1> QED
  BY <1>2, <1>3, <1>4 DEF BoxInv

LEMMA ActKeepsBoxInv ==
  ASSUME BoxInv, Act
  PROVE  BoxInv'
<1>1. /\ ev = "looked" /\ ev' = "rest"
      /\ UNCHANGED <<path, status, view, fresh, touched, blind>>
  BY DEF Act, rowVars, history
<1>2. ASSUME ~ Windows', idle' # "none" PROVE ~ evActive
  BY <1>1, <1>2 DEF Act, IdleSince, Windows
<1>3. RowsSettle'
  BY <1>1 DEF BoxInv, RowsSettle, Windows
<1>4. LambdaKnows'
  BY <1>1 DEF LambdaKnows
<1>5. LoopKnows'
  BY <1>1, <1>2 DEF BoxInv, LoopKnows, Windows, Active
<1> QED
  BY <1>3, <1>4, <1>5 DEF BoxInv

-----------------------------------------------------------------------------
LEMMA BoxInvNext == BoxInv /\ [BoxNext]_boxVars => BoxInv'
<1> SUFFICES ASSUME BoxInv, [BoxNext]_boxVars PROVE BoxInv'
  OBVIOUS
<1>1. ASSUME NEW t \in Tasks, Enqueue(t) PROVE BoxInv'
  <2>1. WriteRows({t}, "queued") /\ UNCHANGED <<path, evVars, blind>>
    BY <1>1 DEF Enqueue
  <2> QED
    BY <2>1, WriteKeepsBoxInv
<1>2. ASSUME NEW t \in Tasks, Claim(t) PROVE BoxInv'
  <2>1. WriteRows({t}, "running") /\ UNCHANGED <<path, evVars, blind>>
    BY <1>2 DEF Claim
  <2> QED
    BY <2>1, WriteKeepsBoxInv
<1>3. ASSUME NEW t \in Tasks, Replicate(t) PROVE BoxInv'
  BY <1>3, ReplicateKeepsBoxInv
<1>4. ASSUME Record PROVE BoxInv'
  <2>1. \E to : WriteRows({task}, to)
    BY <1>4 DEF Record
  <2>2. UNCHANGED <<path, evVars, blind>>
    BY <1>4 DEF Record
  <2> QED
    BY <2>1, <2>2, WriteKeepsBoxInv
<1>5. ASSUME ShimRuns \/ Calls \/ GivesUp PROVE BoxInv'
  <2>1. UNCHANGED <<path, rowVars, evVars, history>>
    BY <1>5 DEF ShimRuns, Calls, GivesUp, aroundVars
  <2> QED
    BY <2>1, OthersKeepBoxInv
<1>6. ASSUME Boot PROVE BoxInv'
  <2>1. UNCHANGED <<path, evVars, blind>>
    BY <1>6 DEF Boot
  <2>2. ASSUME path = "single" PROVE BoxInv'
    <3>1. UNCHANGED <<rowVars, touched>>
      BY <1>6, <2>2 DEF Boot
    <3> QED
      BY <2>1, <3>1, OthersKeepBoxInv DEF history
  <2>3. ASSUME path # "single" PROVE BoxInv'
    <3>1. \E T : WriteRows(T, "queued")
      BY <1>6, <2>3 DEF Boot
    <3> QED
      BY <2>1, <3>1, WriteKeepsBoxInv
  <2> QED
    BY <2>2, <2>3
<1>7. ASSUME Halt PROVE BoxInv'
  <2>1. UNCHANGED <<path, rowVars, evVars, history>>
    BY <1>7 DEF Halt
  <2> QED
    BY <2>1, OthersKeepBoxInv
<1>8. ASSUME WindowPasses PROVE BoxInv'
  BY <1>8, WindowKeepsBoxInv
<1>9. ASSUME Evaluate PROVE BoxInv'
  BY <1>9, CountQueuedKeepsBoxInv, CountRunningKeepsBoxInv, ScanKeepsBoxInv,
     CountWorkKeepsBoxInv, ActKeepsBoxInv DEF Evaluate
<1>10. ASSUME CountFails \/ DescribeFails PROVE BoxInv'
  BY <1>10, CountFailsKeepsBoxInv, DescribeFailsKeepsBoxInv
<1>11. ASSUME UNCHANGED boxVars PROVE BoxInv'
  <2>1. UNCHANGED <<path, rowVars, evVars, history>>
    BY <1>11 DEF boxVars, aroundVars
  <2> QED
    BY <2>1, OthersKeepBoxInv
<1> QED
  BY <1>1, <1>2, <1>3, <1>4, <1>5, <1>6, <1>7, <1>8, <1>9, <1>10, <1>11 DEF BoxNext

-----------------------------------------------------------------------------
(* Only an evaluation's end stops a running box.                              *)
LEMMA OnlyActStops ==
  ASSUME BoxNext, inst = "running", inst' = "stopping"
  PROVE  Act
<1>1. inst' # inst
  OBVIOUS
<1>2. ASSUME NEW t \in Tasks, Enqueue(t) \/ Claim(t) \/ Replicate(t) PROVE inst' = inst
  BY <1>2 DEF Enqueue, Claim, Replicate
<1>3. ASSUME Record PROVE inst' = inst
  BY <1>3 DEF Record
<1>4. ASSUME ShimRuns \/ Calls \/ GivesUp PROVE inst' = inst
  BY <1>4 DEF ShimRuns, Calls, GivesUp, aroundVars
<1>5. ASSUME Boot \/ Halt PROVE FALSE
  BY <1>5 DEF Boot, Halt
<1>6. ASSUME WindowPasses PROVE inst' = inst
  BY <1>6 DEF WindowPasses
<1>7. ASSUME CountQueued \/ CountRunning \/ Scan PROVE inst' = inst
  BY <1>7 DEF CountQueued, CountRunning, CountStatus, Scan
<1>8. ASSUME CountWork \/ CountFails \/ DescribeFails PROVE inst' = inst
  BY <1>8 DEF CountWork, CountFails, DescribeFails
<1> QED
  BY <1>1, <1>2, <1>3, <1>4, <1>5, <1>6, <1>7, <1>8 DEF BoxNext, Evaluate

(* A stop hits only tasks that were written since the controller last knew    *)
(* all of them, or, under the loop, anything if no count of the idle window   *)
(* succeeded (autostop.py:83, autostop_controller.py:61).                     *)
THEOREM StopsSpareWork == BoxSpec => StopSparesWork
<1>1. BoxInv /\ [BoxNext]_boxVars =>
        [inst = "running" /\ inst' = "stopping" =>
           Active \subseteq touched \/ (path = "single" /\ blind)]_boxVars
  <2> SUFFICES ASSUME BoxInv, BoxNext, inst = "running", inst' = "stopping"
               PROVE  Active \subseteq touched \/ (path = "single" /\ blind)
    OBVIOUS
  <2>1. Act
    BY OnlyActStops
  <2>2. ev = "looked" /\ Stops
    BY <2>1 DEF Act, Starts
  <2>3. CASE path = "single"
    BY <2>2, <2>3 DEF Stops, BoxInv, LoopKnows, Windows
  <2>4. CASE path # "single"
    BY <2>2, <2>4 DEF Stops, BoxInv, LambdaKnows, Windows
  <2> QED
    BY <2>3, <2>4
<1>2. BoxSpec => []BoxInv
  BY BoxInvInit, BoxInvNext, PTL DEF BoxSpec
<1> QED
  BY <1>1, <1>2, PTL DEF BoxSpec, StopSparesWork
-----------------------------------------------------------------------------
(* What the worker, its call and the shim's records know of each other: a     *)
(* busy worker is inside one call, for a row that is its own to end (the      *)
(* worker of the serverless path is down until the box has booted, so no boot *)
(* requeues under it), and a completed job has its files.                     *)
WorkerKnows ==
  /\ worker = "busy" => subject = task /\ task \in Tasks /\ status[task] = "running"
  /\ worker # "busy" => call = "none"
  /\ Windows /\ inst \in {"stopped", "pending"} => worker = "down"
RecordsHold ==
  /\ job = [t \in Tasks |-> job[t]]
  /\ \A t \in Tasks : job[t] = "completed" => t \in files
  /\ call = "read" /\ seen = "completed" => subject \in files
CallInv == WorkerKnows /\ RecordsHold

LEMMA CallInvInit == BoxInit => CallInv
  BY DEF BoxInit, ShimInit, CallInv, WorkerKnows, RecordsHold, Windows

(* A write of one row is nobody's business but the worker's that has it.      *)
LEMMA OneRowWritten ==
  ASSUME NEW T, NEW to, WriteRows(T, to)
  PROVE  \A t \in Tasks : status'[t] = IF t \in T THEN to ELSE status[t]
  BY DEF WriteRows

LEMMA WorkerKeepsCallInv ==
  ASSUME CallInv, (\E t \in Tasks : Enqueue(t) \/ Claim(t)) \/ Record
  PROVE  CallInv'
<1>1. ASSUME NEW t \in Tasks, Enqueue(t) PROVE WorkerKnows'
  <2>1. status[t] = "absent" /\ \A u \in Tasks : u # t => status'[u] = status[u]
    BY <1>1, OneRowWritten DEF Enqueue
  <2>2. UNCHANGED <<path, inst, worker, task, call, subject>>
    BY <1>1 DEF Enqueue, workVars, shimVars, callVars
  <2> QED
    BY <2>1, <2>2 DEF CallInv, WorkerKnows, Windows
<1>2. ASSUME NEW t \in Tasks, Claim(t) PROVE WorkerKnows'
  <2>1. status'[t] = "running"
    BY <1>2, OneRowWritten DEF Claim
  <2> QED
    BY <1>2, <2>1 DEF Claim, CallInv, WorkerKnows, Windows
<1>3. ASSUME Record PROVE WorkerKnows'
  BY <1>3 DEF Record, CallEnds, CallInv, WorkerKnows, Windows
<1>4. RecordsHold'
  BY DEF Enqueue, Claim, Record, CallEnds, shimVars, jobVars, callVars, CallInv, RecordsHold
<1> QED
  BY <1>1, <1>2, <1>3, <1>4 DEF CallInv

LEMMA ShimKeepsCallInv ==
  ASSUME CallInv, ShimRuns
  PROVE  CallInv'
<1>1. UNCHANGED <<path, inst, worker, task, status, callVars>>
  BY DEF ShimRuns, aroundVars, workVars, rowVars, Listen, Warm, ShimStep, Take, Finish, InferenceFails
<1>2. WorkerKnows'
  BY <1>1 DEF CallInv, WorkerKnows, Windows, callVars
<1>3. files \subseteq files'
  BY DEF ShimRuns, Listen, Warm, ShimStep, Take, Finish, InferenceFails
<1>4. \/ job' = job
      \/ \E x : \E k \in {"running", "failed"} : job' = [job EXCEPT ![x] = k]
      \/ thread \in files /\ job' = [job EXCEPT ![thread] = "completed"]
  BY DEF ShimRuns, Listen, Warm, ShimStep, Take, Finish, InferenceFails
<1>5. RecordsHold'
  BY <1>1, <1>3, <1>4 DEF CallInv, RecordsHold, callVars
<1> QED
  BY <1>2, <1>5 DEF CallInv

LEMMA ClientKeepsCallInv ==
  ASSUME CallInv, Calls \/ GivesUp
  PROVE  CallInv'
<1>1. UNCHANGED <<path, inst, worker, task, status, subject>>
  BY DEF Calls, GivesUp, CallStep, Post, GetStatus, GetFiles, GiveUp, aroundVars, workVars, rowVars
<1>2. call # "none"
  BY DEF Calls, GivesUp, CallStep, Post, GetStatus, GetFiles, GiveUp
<1>3. worker = "busy" /\ subject \in Tasks
  BY <1>2 DEF CallInv, WorkerKnows
<1>4. WorkerKnows'
  BY <1>1, <1>3 DEF CallInv, WorkerKnows, Windows
<1>5. ASSUME Post PROVE RecordsHold'
  BY <1>5 DEF Post, CallInv, RecordsHold
<1>6. ASSUME GetStatus PROVE RecordsHold'
  BY <1>3, <1>6 DEF GetStatus, jobVars, CallInv, RecordsHold
<1>7. ASSUME GetFiles PROVE RecordsHold'
  <2>1. call' # "read"
    BY <1>7 DEF GetFiles
  <2>2. CASE call' = "poll"
    BY <1>7, <2>1, <2>2 DEF GetFiles, CallInv, RecordsHold
  <2>3. CASE call' # "poll"
    <3>1. job' = [job EXCEPT ![subject] = "none"] /\ files \ {subject} \subseteq files'
      BY <1>7, <2>3 DEF GetFiles
    <3> QED
      BY <1>3, <2>1, <3>1 DEF CallInv, RecordsHold
  <2> QED
    BY <2>2, <2>3
<1>8. ASSUME GiveUp PROVE RecordsHold'
  BY <1>8 DEF GiveUp, jobVars, CallInv, RecordsHold
<1> QED
  BY <1>4, <1>5, <1>6, <1>7, <1>8 DEF Calls, GivesUp, CallStep, CallInv

LEMMA BootAndHaltKeepCallInv ==
  ASSUME CallInv, Boot \/ Halt
  PROVE  CallInv'
<1>1. CASE Boot
  <2>1. UNCHANGED <<path, task, shimVars>> /\ inst = "pending" /\ inst' = "running"
    BY <1>1 DEF Boot
  <2>2. RecordsHold'
    BY <2>1 DEF shimVars, jobVars, callVars, CallInv, RecordsHold
  <2>3. ASSUME path = "single" PROVE WorkerKnows'
    BY <1>1, <2>1, <2>3 DEF Boot, rowVars, shimVars, callVars, CallInv, WorkerKnows, Windows
  <2>4. ASSUME path # "single" PROVE WorkerKnows'
    BY <1>1, <2>1, <2>4 DEF Boot, shimVars, callVars, CallInv, WorkerKnows, Windows
  <2> QED
    BY <2>2, <2>3, <2>4 DEF CallInv
<1>2. CASE Halt
  <2>1. job' = [t \in Tasks |-> "none"] /\ UNCHANGED <<path, status>>
    BY <1>2 DEF Halt, ShimDies, rowVars
  <2>2. CASE path = "single"
    <3>1. CallBroken /\ UNCHANGED <<worker, task>>
      BY <1>2, <2>2 DEF Halt, workVars
    <3>2. call' # "read" /\ subject' = subject /\ (call = "none" => call' = "none")
      BY <3>1 DEF CallBroken
    <3> QED
      BY <1>2, <2>1, <2>2, <3>1, <3>2 DEF Halt, CallInv, WorkerKnows, RecordsHold, Windows
  <2>3. CASE path # "single"
    <3>1. worker' = "down" /\ call' = "none"
      BY <1>2, <2>3 DEF Halt, CallEnds
    <3> QED
      BY <2>1, <3>1 DEF CallInv, WorkerKnows, RecordsHold, Windows
  <2> QED
    BY <2>2, <2>3
<1> QED
  BY <1>1, <1>2

(* The controller looks at rows and at the instance, and only starts a        *)
(* stopped box or stops a running one.                                        *)
LEMMA ControllerKeepsCallInv ==
  ASSUME CallInv,
         \/ \E t \in Tasks : Replicate(t)
         \/ WindowPasses \/ Evaluate \/ CountFails \/ DescribeFails \/ UNCHANGED boxVars
  PROVE  CallInv'
<1>1. UNCHANGED <<path, worker, task, status, shimVars>>
  BY DEF Replicate, WindowPasses, Evaluate, CountQueued, CountRunning, CountStatus, Scan, CountWork,
         Act, CountFails, DescribeFails, boxVars, aroundVars, workVars, rowVars
<1>2. inst' = inst \/ (inst = "stopped" /\ inst' = "pending") \/ inst' = "stopping"
  BY DEF Replicate, WindowPasses, Evaluate, CountQueued, CountRunning, CountStatus, Scan, CountWork,
         Act, Starts, CountFails, DescribeFails, boxVars, aroundVars
<1>3. WorkerKnows'
  BY <1>1, <1>2 DEF CallInv, WorkerKnows, Windows, shimVars, callVars
<1>4. RecordsHold'
  BY <1>1 DEF CallInv, RecordsHold, shimVars, jobVars, callVars
<1> QED
  BY <1>3, <1>4 DEF CallInv

LEMMA CallInvNext == CallInv /\ [BoxNext]_boxVars => CallInv'
<1> SUFFICES ASSUME CallInv, [BoxNext]_boxVars PROVE CallInv'
  OBVIOUS
<1>1. CASE (\E t \in Tasks : Enqueue(t) \/ Claim(t)) \/ Record
  BY <1>1, WorkerKeepsCallInv
<1>2. CASE \/ \E t \in Tasks : Replicate(t)
           \/ WindowPasses \/ Evaluate \/ CountFails \/ DescribeFails \/ UNCHANGED boxVars
  BY <1>2, ControllerKeepsCallInv
<1>3. CASE ShimRuns \/ Calls \/ GivesUp \/ Boot \/ Halt
  BY <1>3, ShimKeepsCallInv, ClientKeepsCallInv, BootAndHaltKeepCallInv
<1> QED
  BY <1>1, <1>2, <1>3 DEF BoxNext

(* Whatever stops, dies or is given up in between, a job that the client has  *)
(* seen completed has its files there to be read (h3_turbo_server.py:241      *)
(* names them first), and a worker ends only a task it still has.             *)
THEOREM ClipsAreThere == BoxSpec => []CompletedHasFiles
<1>1. CallInv => CompletedHasFiles
  BY DEF CallInv, WorkerKnows, RecordsHold, CompletedHasFiles
<1> QED
  BY <1>1, CallInvInit, CallInvNext, PTL DEF BoxSpec
=============================================================================

-------------------------------- MODULE Gateway --------------------------------
(***************************************************************************)
(* The gateway's routes with the key that opens them, in both deployments: *)
(* "process" is the FastAPI gateway over SQLite (gateway/app/main.py),     *)
(* "lambda" the authorizer and API Lambdas over DynamoDB                   *)
(* (gateway/lambdas/authorizer.py, api.py), where API Gateway caches the   *)
(* authorizer's answers, reads may be stale, and a Lambda that takes too   *)
(* long is cut off.  One key, the clients that use it, and the tasks they  *)
(* submit; of the limiter only that it may refuse is left (RateLimiter has *)
(* the rest) and that its answers may be lost, of the worker only that it  *)
(* ends tasks, and may take a success back (Worker, DynamoQueue).          *)
(*                                                                         *)
(* Time is kept as ages, which stop at Horizon, past every bound.  A read  *)
(* that is not consistent returns any value of a set until it is Lag old.  *)
(***************************************************************************)
EXTENDS Integers, FiniteSets

CONSTANTS
  Clients, ImageClients,   \* who calls, and which of them ask for images
  Tasks, NoTask,           \* task ids, and "no task"
  TTL,                     \* AuthorizerResultTtlInSeconds
  Lag,                     \* how long a DynamoDB read may be behind
  AuthTimeout, ApiTimeout, \* the Timeout of either Lambda
  ImageWait,               \* IMAGE_WAIT_S
  MaxTroubles              \* bound: reads of the key that fail, answers of the limiter that
                           \*   are lost, and calls that end without an answer, together

ASSUME GatewayAssumption ==
  /\ NoTask \notin Tasks
  /\ TTL \in Nat /\ Lag \in Nat /\ AuthTimeout \in Nat /\ ApiTimeout \in Nat
  /\ ImageWait \in Nat /\ MaxTroubles \in Nat

VARIABLES
  mode,                    \* the deployment
  key, keyReads, keyAge,   \* the key, what a read of it may return, age of its last change
  entry, entryAge,         \* API Gateway's cached answer for the key, and its age
  faults, faultAge,        \* reads of the key that failed, and the age of the last one
  pc, age, waited,         \* per call: where it is, the age of its Lambda's run, how long
                           \*   it has waited for its image
  task,                    \* per client: the task it polls or waits for
  troubles,                \* how many answers of the limiter were lost and calls broken off,
                           \*   not counting image waits cut off by the Lambda's Timeout
  status, reads,           \* per task: its status, and what a read may return
  bill,                    \* per task: the charge for its success is "due", "settled", or
                           \*   "raised" instead
  told,                    \* per task: why its client stopped asking about it
  counted                  \* the key's submits

keyVars   == <<key, keyReads, keyAge>>
authVars  == <<entry, entryAge, faults, faultAge>>
callVars  == <<pc, age, waited>>
taskVars  == <<status, reads, bill>>
gwVars == <<mode, keyVars, authVars, callVars, task, troubles, taskVars, told, counted>>

Horizon == Lag + AuthTimeout + TTL + ApiTimeout + 1
FaultHorizon == AuthTimeout + TTL + 1
Older(a, bound) == IF a < bound THEN a + 1 ELSE a

InAuthorizer == {"verifying", "allowed", "rejected"}
InHandler    == {"handling", "counted", "replying", "waiting"}
PCs       == {"idle", "sent"} \cup InAuthorizer \cup InHandler
Verdicts  == {"succeeded", "failed"}
Statuses  == {"absent", "pending"} \cup Verdicts
KeyStates == {"absent", "active", "revoked"}

GTypeOK ==
  /\ mode \in {"process", "lambda"}
  /\ key \in KeyStates /\ keyReads \in SUBSET KeyStates /\ keyAge \in Nat
  /\ entry \in {"none", "allow", "deny"} /\ entryAge \in Nat
  /\ faults \in Nat /\ faultAge \in Nat
  /\ pc \in [Clients -> PCs] /\ age \in [Clients -> Nat] /\ waited \in [Clients -> Nat]
  /\ task \in [Clients -> Tasks \cup {NoTask}]
  /\ troubles \in Nat
  /\ status \in [Tasks -> Statuses] /\ reads \in [Tasks -> SUBSET Statuses]
  /\ bill \in [Tasks -> {"none", "due", "settled", "raised"}]
  /\ told \in [Tasks -> {"nothing", "denied", "not found", "timed out", "cut off"} \cup Verdicts]
  /\ counted \in Nat

GInit ==
  /\ mode \in {"process", "lambda"}
  /\ key = "absent" /\ keyReads = {"absent"} /\ keyAge = 0
  /\ entry = "none" /\ entryAge = 0 /\ faults = 0 /\ faultAge = FaultHorizon
  /\ pc = [c \in Clients |-> "idle"] /\ age = [c \in Clients |-> 0]
  /\ waited = [c \in Clients |-> 0]
  /\ task = [c \in Clients |-> NoTask] /\ troubles = 0
  /\ status = [t \in Tasks |-> "absent"] /\ reads = [t \in Tasks |-> {"absent"}]
  /\ bill = [t \in Tasks |-> "none"] /\ told = [t \in Tasks |-> "nothing"]
  /\ counted = 0

(* What may be read after a write: SQLite shows the write, DynamoDB without   *)
(* ConsistentRead that or what it showed before.                              *)
After(new, old) == IF mode = "process" THEN {new} ELSE old \cup {new}

-----------------------------------------------------------------------------
(* The operator issues the key, and revokes it.                               *)
WriteKey(from, to) ==
  /\ key = from
  /\ key' = to /\ keyReads' = After(to, keyReads) /\ keyAge' = 0
  /\ UNCHANGED <<mode, authVars, callVars, task, troubles, taskVars, told, counted>>
Issue  == WriteKey("absent", "active")
Revoke == WriteKey("active", "revoked")

(* Slips: a revoked key is known, and so accepted; a failing read of the key  *)
(* answered 401; an image submit that is not counted.                         *)
KnownIsValid(read) == read # "absent"

(* verify, of what its read of the key returned.                              *)
Valid(read) == read = "active"

(* A client's call comes in: a submit, or a poll if it has a task.            *)
Send(c) ==
  /\ pc[c] = "idle" /\ key # "absent"
  /\ pc' = [pc EXCEPT ![c] = "sent"] /\ age' = [age EXCEPT ![c] = 0]
  /\ UNCHANGED <<mode, keyVars, authVars, waited, task, troubles, taskVars, told, counted>>

(* The call of c ends, and with it its interest in its task if a reason why.  *)
Return(c) == pc' = [pc EXCEPT ![c] = "idle"] /\ age' = [age EXCEPT ![c] = 0]
             /\ waited' = [waited EXCEPT ![c] = 0]
Conclude(c, why) ==
  /\ task' = [task EXCEPT ![c] = NoTask]
  /\ told' = [t \in Tasks |-> IF t = task[c] THEN why ELSE told[t]]

(* A call is let into its handler, or answered 401 (process) or 403 (lambda): *)
(* to a client that polls, the verdict on its task.                           *)
Admit(c) ==
  /\ pc' = [pc EXCEPT ![c] = "handling"] /\ age' = [age EXCEPT ![c] = 0]
  /\ UNCHANGED <<waited, task, told>>
Reject(c) == Return(c) /\ Conclude(c, "denied")

FaultIsRefusal(c) ==
  /\ mode = "process" /\ pc[c] = "sent"
  /\ \/ \E read \in keyReads : IF Valid(read) THEN Admit(c) ELSE Reject(c)
     \/ Reject(c)
  /\ UNCHANGED <<mode, keyVars, authVars, troubles, taskVars, counted>>

(* require_key.                                                               *)
RequireKey(c) ==
  /\ mode = "process" /\ pc[c] = "sent"
  /\ \E read \in keyReads : IF Valid(read) THEN Admit(c) ELSE Reject(c)
  /\ UNCHANGED <<mode, keyVars, authVars, troubles, taskVars, counted>>

(* API Gateway answers from its cache.                                        *)
AuthHit(c) ==
  /\ mode = "lambda" /\ pc[c] = "sent" /\ entry # "none"
  /\ IF entry = "allow" THEN Admit(c) ELSE Reject(c)
  /\ UNCHANGED <<mode, keyVars, authVars, troubles, taskVars, counted>>

(* Or it calls the authorizer, of which several may be running.               *)
AuthMiss(c) ==
  /\ mode = "lambda" /\ pc[c] = "sent" /\ entry = "none"
  /\ pc' = [pc EXCEPT ![c] = "verifying"] /\ age' = [age EXCEPT ![c] = 0]
  /\ UNCHANGED <<mode, keyVars, authVars, waited, task, troubles, taskVars, told, counted>>

(* The authorizer reads the key; a read that raises rejects the caller too.   *)
Verify(c) ==
  /\ pc[c] = "verifying"
  /\ \E read \in keyReads :
       pc' = [pc EXCEPT ![c] = IF Valid(read) THEN "allowed" ELSE "rejected"]
  /\ UNCHANGED <<mode, keyVars, authVars, age, waited, task, troubles, taskVars, told,
                 counted>>
VerifyFault(c) ==
  /\ pc[c] = "verifying" /\ faults + troubles < MaxTroubles
  /\ pc' = [pc EXCEPT ![c] = "rejected"]
  /\ faults' = faults + 1 /\ faultAge' = 0
  /\ UNCHANGED <<mode, keyVars, entry, entryAge, age, waited, task, troubles, taskVars,
                 told, counted>>

(* Its answer reaches API Gateway, which keeps it.                            *)
Authorized(c) ==
  /\ pc[c] \in {"allowed", "rejected"}
  /\ LET answer == IF pc[c] = "allowed" THEN "allow" ELSE "deny"
     IN  /\ entry' = IF TTL = 0 THEN "none" ELSE answer
         /\ IF answer = "allow" THEN Admit(c) ELSE Reject(c)
  /\ entryAge' = 0
  /\ UNCHANGED <<mode, keyVars, faults, faultAge, troubles, taskVars, counted>>

-----------------------------------------------------------------------------
(* A submit handler refuses the body, or the limiter the submit.              *)
Decline(c) ==
  /\ pc[c] = "handling" /\ task[c] = NoTask
  /\ Return(c)
  /\ UNCHANGED <<mode, keyVars, authVars, task, troubles, taskVars, told, counted>>

(* check_and_count_submit.  Bound: a task id is left for every submit under   *)
(* way.                                                                       *)
Absent == {t \in Tasks : status[t] = "absent"}
UncountedImages(c) ==
  /\ pc[c] = "handling" /\ task[c] = NoTask
  /\ Cardinality({d \in Clients : pc[d] = "counted"}) < Cardinality(Absent)
  /\ pc' = [pc EXCEPT ![c] = "counted"]
  /\ counted' = IF c \in ImageClients THEN counted ELSE counted + 1
  /\ UNCHANGED <<mode, keyVars, authVars, age, waited, task, troubles, taskVars, told>>
Count(c) ==
  /\ pc[c] = "handling" /\ task[c] = NoTask
  /\ Cardinality({d \in Clients : pc[d] = "counted"}) < Cardinality(Absent)
  /\ pc' = [pc EXCEPT ![c] = "counted"]
  /\ counted' = counted + 1
  /\ UNCHANGED <<mode, keyVars, authVars, age, waited, task, troubles, taskVars, told>>

(* DynamoDB's update takes effect and its answer is lost: the client library  *)
(* sends it again, to be counted once more or refused.                        *)
CountLost(c) ==
  /\ mode = "lambda" /\ pc[c] = "handling" /\ task[c] = NoTask
  /\ faults + troubles < MaxTroubles /\ troubles' = troubles + 1
  /\ counted' = counted + 1
  /\ UNCHANGED <<mode, keyVars, authVars, callVars, task, taskVars, told>>

WriteTask(t, to) ==
  /\ status' = [status EXCEPT ![t] = to]
  /\ reads' = [reads EXCEPT ![t] = After(to, @)]

(* enqueue: a video's route goes on to answer, an image's to wait.            *)
Enqueue(c) ==
  /\ pc[c] = "counted"
  /\ \E t \in Absent : WriteTask(t, "pending") /\ task' = [task EXCEPT ![c] = t]
  /\ pc' = [pc EXCEPT ![c] = IF c \in ImageClients THEN "waiting" ELSE "replying"]
  /\ UNCHANGED <<mode, keyVars, authVars, age, waited, troubles, bill, told, counted>>
Accept(c) ==
  /\ pc[c] = "replying"
  /\ Return(c)
  /\ UNCHANGED <<mode, keyVars, authVars, task, troubles, taskVars, told, counted>>

(* Slips: a task that is not there has failed; only a success is a verdict;   *)
(* the image route waits without a deadline.                                  *)
AbsentIsFailure(read)  == IF read = "absent" THEN "failed" ELSE read
OnlySuccessCounts(read) == IF read = "failed" THEN "pending" ELSE
                           IF read = "absent" THEN "not found" ELSE read

(* A poll of the video route, by what its read of the task returned.          *)
Finding(read) == IF read = "absent" THEN "not found" ELSE read
AnswerPoll(c) ==
  /\ pc[c] = "handling" /\ task[c] # NoTask
  /\ Return(c)
  /\ \E read \in reads[task[c]] :
       IF Finding(read) = "pending" THEN UNCHANGED <<task, told>> ELSE Conclude(c, Finding(read))
  /\ UNCHANGED <<mode, keyVars, authVars, troubles, taskVars, counted>>

(* A look of the image route at its task: it ends, or its deadline passes.    *)
NoDeadline(c) ==
  /\ pc[c] = "waiting"
  /\ \E read \in reads[task[c]] : read \in Verdicts /\ Conclude(c, read)
  /\ Return(c)
  /\ UNCHANGED <<mode, keyVars, authVars, troubles, taskVars, counted>>
Look(c) ==
  /\ pc[c] = "waiting"
  /\ \E read \in reads[task[c]] :
       \/ read \in Verdicts /\ Conclude(c, read)
       \/ read \notin Verdicts /\ waited[c] >= ImageWait /\ Conclude(c, "timed out")
  /\ Return(c)
  /\ UNCHANGED <<mode, keyVars, authVars, troubles, taskVars, counted>>

(* A call ends without its answer: the client reads a 5xx, or nothing.  A     *)
(* poll is tried again; a submit too, and what it had done so far is nobody's.*)
Abandon(c) ==
  /\ IF pc[c] \in {"replying", "waiting"} THEN Conclude(c, "cut off") ELSE UNCHANGED <<task, told>>
  /\ Return(c)
  /\ UNCHANGED <<mode, keyVars, authVars, taskVars, counted>>

(* A Lambda reaches its Timeout.                                              *)
CutOff(c) ==
  /\ mode = "lambda"
  /\ \/ pc[c] \in InAuthorizer /\ age[c] = AuthTimeout
     \/ pc[c] \in InHandler /\ age[c] = ApiTimeout
  /\ IF pc[c] = "waiting" THEN UNCHANGED troubles
     ELSE faults + troubles < MaxTroubles /\ troubles' = troubles + 1
  /\ Abandon(c)

(* The key check of main.py or a handler raises (a store call fails), or its  *)
(* process or connection ends; with the FastAPI process, all calls, one by    *)
(* one.                                                                       *)
BreakOff(c) ==
  /\ pc[c] \in InHandler \/ (mode = "process" /\ pc[c] = "sent")
  /\ faults + troubles < MaxTroubles /\ troubles' = troubles + 1
  /\ Abandon(c)

-----------------------------------------------------------------------------
(* The worker ends a task, and charges a success; if the charge (or the       *)
(* answer to the verdict) raises, it makes the task a failure after all.      *)
WorkerEnds(t) ==
  /\ status[t] = "pending"
  /\ \E v \in Verdicts :
       WriteTask(t, v) /\ bill' = [bill EXCEPT ![t] = IF v = "succeeded" THEN "due" ELSE @]
  /\ UNCHANGED <<mode, keyVars, authVars, callVars, task, troubles, told, counted>>
Charge(t) ==
  /\ bill[t] = "due" /\ bill' = [bill EXCEPT ![t] = "settled"]
  /\ UNCHANGED <<mode, keyVars, authVars, callVars, task, troubles, status, reads, told, counted>>
ChargeRaises(t) ==
  /\ bill[t] = "due" /\ bill' = [bill EXCEPT ![t] = "raised"]
  /\ WriteTask(t, "failed")
  /\ UNCHANGED <<mode, keyVars, authVars, callVars, task, troubles, told, counted>>

(* DynamoDB's replicas catch up; time passes, but no Lambda outlives its      *)
(* Timeout, no read is older than Lag, and the image route looks when its     *)
(* deadline has come.                                                         *)

ReplicateKey ==
  /\ keyReads # {key} /\ keyReads' = {key}
  /\ UNCHANGED <<mode, key, keyAge, authVars, callVars, task, troubles, taskVars, told,
                 counted>>
Replicate(t) ==
  /\ reads[t] # {status[t]} /\ reads' = [reads EXCEPT ![t] = {status[t]}]
  /\ UNCHANGED <<mode, keyVars, authVars, callVars, task, troubles, status, bill, told,
                 counted>>

Tick ==
  /\ keyReads # {key} => keyAge < Lag
  /\ \A c \in Clients :
       /\ pc[c] \in InAuthorizer => age[c] < AuthTimeout
       /\ pc[c] \in InHandler /\ mode = "lambda" => age[c] < ApiTimeout
       /\ pc[c] = "waiting" => waited[c] < ImageWait
  /\ keyAge' = Older(keyAge, Horizon) /\ faultAge' = Older(faultAge, FaultHorizon)
  /\ LET expired == entry # "none" /\ entryAge >= TTL
     IN  /\ entry' = IF expired THEN "none" ELSE entry
         /\ entryAge' = IF expired \/ entry = "none" THEN 0 ELSE entryAge + 1
  /\ age' = [c \in Clients |->
              IF pc[c] \in InAuthorizer \cup InHandler THEN Older(age[c], Horizon) ELSE 0]
  /\ waited' = [c \in Clients |-> IF pc[c] = "waiting" THEN waited[c] + 1 ELSE 0]
  /\ UNCHANGED <<mode, key, keyReads, faults, pc, task, troubles, taskVars, told, counted>>

(* What the gateway does of itself with a call, and what may go wrong.        *)
Serve(c) ==
  \/ RequireKey(c) \/ AuthHit(c) \/ AuthMiss(c) \/ Verify(c) \/ Authorized(c)
  \/ Decline(c) \/ Count(c) \/ Enqueue(c) \/ Accept(c) \/ AnswerPoll(c) \/ Look(c) \/ CutOff(c)
Mishap(c) == VerifyFault(c) \/ CountLost(c) \/ BreakOff(c)

GNext ==
  \/ Issue \/ Revoke \/ ReplicateKey \/ Tick
  \/ \E c \in Clients : Send(c) \/ Serve(c) \/ Mishap(c)
  \/ \E t \in Tasks : WorkerEnds(t) \/ Charge(t) \/ ChargeRaises(t) \/ Replicate(t)

GSpec == GInit /\ [][GNext]_gwVars

(* A call is served, replicas catch up and time passes, whatever the worker   *)
(* does.  For PollerHears, clients also go on polling and the worker works.   *)
GFairness ==
  /\ WF_gwVars(Tick) /\ WF_gwVars(ReplicateKey)
  /\ \A t \in Tasks : WF_gwVars(Replicate(t))
  /\ \A c \in Clients : WF_gwVars(Serve(c))
PollFairness ==
  /\ \A c \in Clients : WF_gwVars(task[c] # NoTask /\ Send(c))
  /\ \A t \in Tasks : WF_gwVars(WorkerEnds(t))
GFairSpec == GSpec /\ GFairness

-----------------------------------------------------------------------------
(* How long after its last change a key may be taken for what it was.         *)
Grace == IF mode = "lambda" THEN Lag + AuthTimeout + TTL ELSE 0

(* After a revocation, nothing is submitted with the key but by calls that    *)
(* were let in before it, or within Grace of it.                              *)
RevocationTakesHold ==
  [][\A c \in Clients :
       Enqueue(c) => key = "active" \/ (key = "revoked" /\ keyAge <= Grace + age[c])]_gwVars

(* A caller with a good key is turned away only within Grace of the key's     *)
(* being issued, or for as long as the failure of one read is cached.         *)
GoodKeyRefusedBriefly ==
  [][\A c \in Clients :
       (key = "active" /\ pc[c] \in {"sent", "rejected"} /\ pc'[c] = "idle"
          /\ troubles' = troubles) =>
         mode = "lambda" /\ (keyAge <= Grace \/ faultAge <= AuthTimeout + TTL)]_gwVars

(* What is counted for the key is its tasks and the submits about to be one,  *)
(* and beyond these no more than what went wrong: each lost answer and each   *)
(* call broken off accounts for one submit that was counted for nothing.  No  *)
(* task came without being counted.                                           *)
SubmitsAccounted ==
  LET owed == Cardinality(Tasks \ Absent) + Cardinality({c \in Clients : pc[c] = "counted"})
  IN  owed <= counted /\ counted <= owed + troubles

(* A client is told that its task failed only if it did, that it succeeded    *)
(* only if it did, even though a charge that raises may take that back.  It   *)
(* is told of no task of its as unknown but by a stale read, and loses one    *)
(* only to a call that broke off or a Lambda's Timeout.  And each task has    *)
(* one client asking, or one that was told.                                   *)
HeardIsTrue ==
  \A t \in Tasks :
    /\ told[t] = "failed" => status[t] = "failed"
    /\ told[t] = "succeeded" => status[t] = "succeeded" \/ bill[t] = "raised"
    /\ told[t] = "not found" => mode = "lambda"
    /\ told[t] = "cut off" => mode = "lambda" \/ troubles > 0
    /\ told[t] = "timed out" => mode = "process" \/ ImageWait <= ApiTimeout
    /\ Cardinality({c \in Clients : task[c] = t})
         = IF status[t] # "absent" /\ told[t] = "nothing" THEN 1 ELSE 0

(* Every call is answered, even if no worker ever works.                      *)
EveryCallReturns == \A c \in Clients : pc[c] # "idle" ~> pc[c] = "idle"

(* A client that goes on polling hears something final in the end.            *)
PollerHears ==
  PollFairness => \A t \in Tasks : status[t] # "absent" ~> told[t] # "nothing"
=============================================================================

----------------------------- MODULE DynamoProofs -----------------------------
(***************************************************************************)
(* What holds of the workers over the DynamoDB store, however far its      *)
(* indexes lag and whatever runs between two calls of a claim or requeue.  *)
(*                                                                         *)
(* A worker in the middle of a claim or requeue has nothing in hand.  Seen *)
(* as idle until its conditional update succeeds, it takes the steps of    *)
(* WorkerProofs, and what was proved of these carries over.                *)
(***************************************************************************)
EXTENDS DynamoQueue, SequenceTheorems, TLAPS

Between == {"requeueing", "claiming"}
Seen == [w \in Workers |-> IF pc[w] \in Between THEN "idle" ELSE pc[w]]
W == INSTANCE WorkerProofs WITH pc <- Seen

(* What makes a requeue's update safe: the cutoff it compares with was taken *)
(* in the past, so by the time of the update it is, if anything, too low.    *)
CutoffPast == \A w \in Workers : pc[w] = "requeueing" => cutoff[w] <= now - StaleCutoff

(* DTypeOK but for what is on its way to the indexes.                        *)
Typed ==
  /\ pc \in [Workers -> PCs \cup Between]
  /\ todo \in [Workers -> SUBSET Tasks] /\ cutoff \in [Workers -> Int]

DInv == W!Inv /\ Typed /\ CutoffPast /\ faults = 0

LEMMA WorkerAssumptions ==
  /\ W!Tasks = Tasks /\ W!Kinds = Kinds /\ W!PCs = PCs /\ W!Busy = Busy
  /\ W!Rows = Rows /\ W!Terminal = Terminal
BY DEF W!Tasks, Tasks, W!Kinds, Kinds, W!PCs, PCs, W!Busy, Busy, W!Rows, Rows,
       W!Statuses, Statuses, W!Terminal, Terminal

LEMMA SeenInit == DInit => DInv
<1> SUFFICES ASSUME DInit PROVE DInv
  OBVIOUS
<1>1. Init
  BY DEF DInit
<1>2. Seen = [w \in Workers |-> "down"] /\ pc = [w \in Workers |-> "down"]
  BY <1>1 DEF Init, Seen, Between
<1>3. W!Init
  BY <1>1, <1>2, WorkerAssumptions
     DEF Init, StoreInit, NoRow, W!Init, W!StoreInit, W!NoRow
<1>4. W!Inv
  BY <1>3, W!InvInit, WorkerAssumptions, KindsDisjoint, DurationsType, NoTaskOutside,
     WorkerKindType, BoundsType, CutoffCoversGeneration
<1>5. Typed /\ CutoffPast /\ faults = 0
  BY <1>1, <1>2 DEF DInit, Init, Typed, CutoffPast, PCs
<1> QED
  BY <1>4, <1>5 DEF DInv

(* A move of the worker that another worker or a client sees.                *)
LEMMA SeenGoto ==
  ASSUME Typed, NEW w \in Workers, NEW label, Goto(w, label)
  PROVE  /\ label \notin Between => Seen' = [Seen EXCEPT ![w] = label]
         /\ label \in Between => Seen' = [Seen EXCEPT ![w] = "idle"]
BY DEF Typed, Goto, Seen, Between

LEMMA SeenKept == ASSUME pc' = pc PROVE Seen' = Seen
BY DEF Seen

(* The steps DynamoQueue has from Worker.                                    *)
LEMMA RunTaskSteps ==
  ASSUME Typed, NEW w \in Workers, RunTask(w) \/ Crash(w)
  PROVE  W!Steps
<1> USE DEF Goto, W!Goto, Release, W!Release, history, W!history, KindOf, W!KindOf, wvars, W!wvars
<1>1. \A l \in {"down", "idle"} \cup Busy : l \notin Between
  BY DEF Busy, Between
<1>2. pc[w] \notin Between => Seen[w] = pc[w]
  BY DEF Seen
<1>3. \A l \in {"down", "idle"} \cup Busy : pc' = [pc EXCEPT ![w] = l] => Seen' = [Seen EXCEPT ![w] = l]
  BY <1>1, SeenGoto
<1>4. Crash(w) => W!Crash(w)
  <2>1. pc[w] # "down" => Seen[w] # "down"
    BY DEF Seen
  <2> QED
    BY <1>3, <2>1 DEF Crash, W!Crash
<1>5. Generate(w) => W!Generate(w)
  BY <1>2, <1>3 DEF Generate, W!Generate, Busy, Between
<1>6. Publish(w) => W!Publish(w)
  BY <1>2, <1>3 DEF Publish, W!Publish, Busy, Between
<1>7. GenerationFails(w) => W!GenerationFails(w)
  BY <1>2, <1>3 DEF GenerationFails, W!GenerationFails, Busy, Between
<1>8. MarkSucceeded(w) => W!MarkSucceeded(w)
  BY <1>2, <1>3 DEF MarkSucceeded, W!MarkSucceeded, Succeeded, W!Succeeded, Busy, Between
<1>9. Bill(w) => W!Bill(w)
  BY <1>2, <1>3 DEF Bill, W!Bill, Billed, W!Billed, Charge, W!Charge, Busy, Between
<1>10. MarkFailed(w) => W!MarkFailed(w)
  BY <1>2, <1>3 DEF MarkFailed, W!MarkFailed, Failed, W!Failed, Busy, Between
<1> QED
  BY <1>4, <1>5, <1>6, <1>7, <1>8, <1>9, <1>10 DEF RunTask, W!Steps

LEMMA ClientSteps ==
  ASSUME Client \/ Clock, Typed PROVE W!Steps
<1> USE DEF history, W!history, wvars, W!wvars
<1>1. Seen' = Seen
  BY SeenKept DEF Client, Clock, Enqueue, Tick
<1>2. ASSUME NEW t \in Tasks, NEW k \in Keys, NEW d \in Durations \cup {0}, Enqueue(t, k, d)
      PROVE  W!Enqueue(t, k, d)
  BY <1>1, <1>2 DEF Enqueue, W!Enqueue, Enqueued, W!Enqueued, KindOf, W!KindOf
<1>3. Tick => W!Tick
  BY <1>1 DEF Tick, W!Tick, Busy, W!Busy, Seen, Between
<1> QED
  BY <1>2, <1>3, WorkerAssumptions DEF Client, Clock, W!Steps

(* A requeue's update takes effect only on a task that nobody has in hand:   *)
(* whoever has it claimed it after the cutoff.                               *)
LEMMA RequeueSparesHands ==
  ASSUME DInv, NEW w \in Workers, pc[w] = "requeueing", NEW t \in Tasks,
         rows[t].status = "running", rows[t].updated < cutoff[w]
  PROVE  ~ W!InHand(t)
<1> SUFFICES ASSUME NEW v \in Workers, cur[v] = t PROVE FALSE
  BY DEF W!InHand
<1>1. W!TypeOK /\ W!Hand(v)
  BY DEF DInv, W!Inv, W!HandInv
<1>2. Seen[v] \in W!Busy
  BY <1>1, WorkerAssumptions DEF W!Hand
<1>3. rows[t].updated = started[v] /\ now <= started[v] + GenBudget
  BY <1>1, <1>2 DEF W!Hand
<1>4. cutoff[w] <= now - StaleCutoff /\ cutoff[w] \in Int
  BY DEF DInv, CutoffPast, Typed
<1>5. started[v] \in Nat /\ now \in Nat /\ GenBudget \in Nat /\ StaleCutoff \in Nat
  BY <1>1, BoundsType DEF W!TypeOK
<1> QED
  BY <1>3, <1>4, <1>5, CutoffCoversGeneration

LEMMA RequeueSteps ==
  ASSUME DInv, NEW w \in Workers, QueryStale(w) \/ RequeueOne(w)
  PROVE  [W!Steps]_(W!vars)
<1> USE DEF history, W!history, UnchangedBy
<1>1. rows \in [Tasks -> Rows] /\ Typed
  BY WorkerAssumptions DEF DInv, W!Inv, W!TypeOK
<1>2. CASE QueryStale(w)
  <2>1. Seen[w] = "down" /\ W!Goto(w, "idle")
    BY <1>1, <1>2, SeenGoto DEF QueryStale, Seen, Between, W!Goto
  <2>2. W!Requeued({}) = rows
    BY <1>1, WorkerAssumptions DEF W!Requeued
  <2>3. W!PutsBack({})
    BY <1>2, <2>1, <2>2 DEF QueryStale, W!PutsBack
  <2> QED
    BY <2>3 DEF W!Steps
<1>3. CASE RequeueOne(w)
  <2>1. PICK t \in Oldest(w) :
          rows' = IF rows[t].status = "running" /\ rows[t].updated < cutoff[w]
                  THEN Requeued({t}) ELSE rows
    BY <1>3 DEF RequeueOne
  <2>2. t \in Tasks /\ Seen' = Seen
    BY <1>1, <1>3, SeenKept DEF Oldest, Typed, RequeueOne
  <2>3. CASE rows[t].status = "running" /\ rows[t].updated < cutoff[w]
    <3>1. ~ W!InHand(t)
      BY <1>3, <2>2, <2>3, RequeueSparesHands DEF RequeueOne
    <3>2. rows' = W!Requeued({t}) /\ {t} \subseteq W!With("running")
      BY <2>1, <2>2, <2>3, WorkerAssumptions DEF Requeued, W!Requeued, W!With
    <3>3. W!PutsBack({t})
      BY <1>3, <2>2, <3>1, <3>2 DEF RequeueOne, W!PutsBack
    <3> QED
      BY <2>2, <3>3, WorkerAssumptions DEF W!Steps
  <2>4. CASE ~ (rows[t].status = "running" /\ rows[t].updated < cutoff[w])
    BY <1>3, <2>1, <2>2, <2>4 DEF RequeueOne, W!vars
  <2> QED
    BY <2>3, <2>4
<1> QED
  BY <1>2, <1>3

(* Queries, beaten claims and empty lists are seen by nobody.                *)
LEMMA SilentSteps ==
  ASSUME Typed, NEW w \in Workers,
         RequeueDone(w) \/ QueryQueued(w) \/ ClaimBeaten(w) \/ ClaimNone(w)
  PROVE  UNCHANGED W!vars
<1>1. Seen' = Seen
  BY DEF Typed, Seen, Between, Goto, RequeueDone, QueryQueued, ClaimBeaten, ClaimNone
<1> QED
  BY <1>1 DEF RequeueDone, QueryQueued, ClaimBeaten, ClaimNone, UnchangedBy, history, W!vars

LEMMA ClaimSteps ==
  ASSUME Typed, NEW w \in Workers, TryClaim(w)
  PROVE  W!Steps
<1>1. PICK t \in Oldest(w) : rows[t].status = "queued" /\ Take(w, t)
  BY DEF TryClaim
<1>2. t \in Tasks
  BY DEF Oldest, Typed
<1>3. Seen[w] = "idle" /\ W!Goto(w, "generating")
  <2>1. Seen[w] = "idle"
    BY DEF TryClaim, Seen, Between
  <2>2. Goto(w, "generating") /\ "generating" \notin Between
    BY <1>1 DEF Take, Between
  <2>3. Seen' = [Seen EXCEPT ![w] = "generating"]
    BY <2>2, SeenGoto
  <2> QED
    BY <2>1, <2>3 DEF W!Goto
<1>4. W!Takes(w, t)
  BY <1>1, <1>2, <1>3, WorkerAssumptions DEF Take, W!Takes, Claimed, W!Claimed, W!With
<1> QED
  BY <1>2, <1>4, WorkerAssumptions DEF W!Steps

(* Every step over the DynamoDB store is one of WorkerProofs' or unseen.     *)
LEMMA SeenSteps == ASSUME DInv, [DNext]_dvars PROVE [W!Steps]_(W!vars)
<1>1. Typed
  BY DEF DInv
<1>2. CASE Client \/ Clock
  BY <1>1, <1>2, ClientSteps
<1>3. ASSUME NEW w \in Workers, DWork(w) PROVE [W!Steps]_(W!vars)
  BY <1>1, <1>3, RequeueSteps, SilentSteps, ClaimSteps, RunTaskSteps DEF DWork
<1>4. ASSUME NEW w \in Workers, DCrash(w) PROVE W!Steps
  BY <1>1, <1>4, RunTaskSteps DEF DCrash
<1>5. ASSUME UNCHANGED vars PROVE UNCHANGED W!vars
  BY <1>5, SeenKept DEF vars, W!vars
<1>6. ASSUME NEW t \in Tasks, ReplicateKind(t) \/ ReplicateStatus(t) PROVE UNCHANGED vars
  BY <1>6 DEF ReplicateKind, ReplicateStatus
<1> QED
  BY <1>2, <1>3, <1>4, <1>5, <1>6 DEF DNext, dvars

LEMMA TypedStep == ASSUME DInv, [DNext]_dvars PROVE Typed' /\ CutoffPast' /\ faults' = 0
<1> USE DEF Goto, Release
<1>1. Typed /\ CutoffPast /\ faults = 0 /\ now \in Nat /\ StaleCutoff \in Nat
  BY BoundsType DEF DInv, W!Inv, W!TypeOK
<1>2. \A w \in Workers : Oldest(w) \subseteq Tasks
  BY <1>1 DEF Typed, Oldest
<1>3. CASE Client
  BY <1>1, <1>3 DEF Client, Enqueue, calls, Typed, CutoffPast, wvars
<1>4. CASE Clock
  BY <1>1, <1>4 DEF Clock, Tick, calls, Typed, CutoffPast, wvars
<1>5. ASSUME NEW t \in Tasks, ReplicateKind(t) \/ ReplicateStatus(t)
      PROVE  Typed' /\ CutoffPast' /\ faults' = 0
  BY <1>1, <1>5 DEF ReplicateKind, ReplicateStatus, calls, vars, Typed, CutoffPast
<1>6. ASSUME NEW w \in Workers, QueryStale(w) PROVE Typed' /\ CutoffPast' /\ faults' = 0
  BY <1>1, <1>6 DEF QueryStale, UnchangedBy, Typed, CutoffPast, Between
<1>7. ASSUME NEW w \in Workers, RequeueOne(w) PROVE Typed' /\ CutoffPast' /\ faults' = 0
  BY <1>1, <1>2, <1>7 DEF RequeueOne, UnchangedBy, Typed, CutoffPast
<1>8. ASSUME NEW w \in Workers, RequeueDone(w) \/ ClaimNone(w) PROVE Typed' /\ CutoffPast' /\ faults' = 0
  BY <1>1, <1>8 DEF RequeueDone, ClaimNone, UnchangedBy, Typed, CutoffPast, PCs
<1>9. ASSUME NEW w \in Workers, QueryQueued(w) PROVE Typed' /\ CutoffPast' /\ faults' = 0
  <2>1. PICK Q \in SUBSET Tasks : todo' = [todo EXCEPT ![w] = Q]
    BY <1>9 DEF QueryQueued, OldestOf
  <2> QED
    BY <1>1, <1>9, <2>1 DEF QueryQueued, UnchangedBy, Typed, CutoffPast, Between
<1>10. ASSUME NEW w \in Workers, TryClaim(w) PROVE Typed' /\ CutoffPast' /\ faults' = 0
  BY <1>1, <1>10 DEF TryClaim, Take, Typed, CutoffPast, PCs, Busy
<1>11. ASSUME NEW w \in Workers, ClaimBeaten(w) PROVE Typed' /\ CutoffPast' /\ faults' = 0
  BY <1>1, <1>11 DEF ClaimBeaten, UnchangedBy, Typed, CutoffPast
<1>12. ASSUME NEW w \in Workers, RunTask(w) PROVE Typed' /\ CutoffPast' /\ faults' = 0
  BY <1>1, <1>12
     DEF RunTask, Generate, Publish, GenerationFails, MarkSucceeded, Bill, MarkFailed, calls,
         Typed, CutoffPast, PCs, Busy
<1>13. ASSUME NEW w \in Workers, DCrash(w) PROVE Typed' /\ CutoffPast' /\ faults' = 0
  BY <1>1, <1>13 DEF DCrash, Crash, Typed, CutoffPast, PCs
<1>14. CASE UNCHANGED dvars
  BY <1>1, <1>14 DEF dvars, vars, calls, Typed, CutoffPast
<1> QED
  BY <1>3, <1>4, <1>5, <1>6, <1>7, <1>8, <1>9, <1>10, <1>11, <1>12, <1>13, <1>14
     DEF DNext, DWork

LEMMA DInvStep == ASSUME DInv, [DNext]_dvars PROVE DInv'
<1>1. W!Inv /\ [W!Steps]_(W!vars)
  BY SeenSteps DEF DInv
<1>2. W!Inv'
  BY <1>1, W!InvStep, WorkerAssumptions, KindsDisjoint, DurationsType, NoTaskOutside,
     WorkerKindType, BoundsType, CutoffCoversGeneration
<1> QED
  BY <1>2, TypedStep DEF DInv

LEMMA DInvariance == DSpec => []DInv
<1>1. DInit => DInv
  BY SeenInit
<1>2. DInv /\ [DNext]_dvars => DInv'
  BY DInvStep
<1> QED
  BY <1>1, <1>2, PTL DEF DSpec

(* One task is never in the hands of two live workers, however stale the     *)
(* indexes are that claims and requeues find it through: the conditions of   *)
(* the single updates (tasks.py, claim_next and requeue_stale_running of     *)
(* DynamoDBTaskStore) are enough.                                            *)
THEOREM DOneExecutorPerTask == DSpec => []SingleExecutor
<1>1. DInv => SingleExecutor
  BY DEF DInv, W!Inv, W!SingleExecutor, SingleExecutor
<1> QED
  BY <1>1, DInvariance, PTL

(* A generation is repeated only at the cost of a crash: a query that shows  *)
(* an item as queued or stale long after it is neither costs nothing.        *)
THEOREM DNoIdleRerun == DSpec => []RerunsNeedTrouble
<1>1. DInv => RerunsNeedTrouble
  BY WorkerAssumptions DEF DInv, W!Inv, W!RunsInv, W!RunsOf, RerunsNeedTrouble
<1> QED
  BY <1>1, DInvariance, PTL

(* Over this store too seconds_billed of a key is what its charged tasks     *)
(* are worth, each once, and all of them are successes: no stale query makes *)
(* a worker charge twice, or for what it did not record.                     *)
THEOREM DMeterAddsUp ==
  ASSUME IsFiniteSet(Tasks)
  PROVE  DSpec => []MeterMatchesVerdicts
<1>0. /\ \A S : W!IsFiniteSet(S) <=> IsFiniteSet(S)
      /\ \A f : W!SumFunction(f) = SumFunction(f)
  BY DEF W!IsFiniteSet, IsFiniteSet, W!SumFunction, SumFunction, W!SumFunctionOnSet, SumFunctionOnSet,
     W!FoldFunctionOnSet, FoldFunctionOnSet, W!MapThenFoldSet, MapThenFoldSet
<1>1. \A t \in Tasks : W!Worth(t) = Worth(t)
  BY DEF W!Worth, Worth, W!KindOf, KindOf
<1>2. \A k : W!ChargedTo(k) = ChargedTo(k)
  BY <1>1, WorkerAssumptions DEF W!ChargedTo, ChargedTo
<1>3. W!MeterInv => MeterMatchesVerdicts
  BY <1>0, <1>2, WorkerAssumptions DEF W!MeterInv, W!MeterMatchesVerdicts, MeterMatchesVerdicts
<1>4. DInit => W!MeterInv
  <2> SUFFICES ASSUME DInit PROVE W!MeterInv
    OBVIOUS
  <2>1. \A w \in Workers : Seen[w] = "down"
    BY DEF DInit, Init, Seen, Between
  <2>2. ASSUME NEW k \in Keys PROVE SumFunction(ChargedTo(k)) = 0
    <3>1. DOMAIN ChargedTo(k) = W!Tasks /\ \A t \in W!Tasks : ChargedTo(k)[t] = 0
      BY WorkerAssumptions DEF ChargedTo, DInit, Init
    <3>2. W!IsFiniteSet(W!Tasks)
      BY <1>0, WorkerAssumptions
    <3>3. W!SumFunction(ChargedTo(k)) = 0
      <4> DEFINE S == W!Tasks  f == ChargedTo(k)
      <4>1. W!IsFiniteSet(S) /\ DOMAIN f = S /\ \A t \in S : f[t] = 0
        BY <3>1, <3>2
      <4> HIDE DEF S, f
      <4>2. W!SumFunction(f) = 0
        BY <4>1, W!SumOfNone, KindsDisjoint, DurationsType, NoTaskOutside,
           WorkerKindType, BoundsType, CutoffCoversGeneration, WorkerAssumptions
      <4> QED
        BY <4>2 DEF f
    <3> QED
      BY <1>0, <3>3
  <2> QED
    BY <1>0, <1>2, <2>1, <2>2, WorkerAssumptions
    DEF DInit, Init, W!MeterInv, W!Agreed, W!MeterMatchesVerdicts
<1>5. DInv /\ W!MeterInv /\ [DNext]_dvars => W!MeterInv'
  <2> SUFFICES ASSUME DInv, W!MeterInv, [DNext]_dvars PROVE W!MeterInv'
    OBVIOUS
  <2>1. W!Inv /\ [W!Steps]_(W!vars) /\ W!Inv' /\ W!IsFiniteSet(W!Tasks)
    BY <1>0, SeenSteps, DInvStep, WorkerAssumptions DEF DInv
  <2> QED
    BY <2>1, W!MeterNext, KindsDisjoint, DurationsType, NoTaskOutside,
       WorkerKindType, BoundsType, CutoffCoversGeneration, WorkerAssumptions
<1> QED
  BY <1>3, <1>4, <1>5, DInvariance, PTL DEF DSpec

(* A requeue takes no task out of a live worker's hands, although it selects *)
(* by the index and another worker may claim between its query and its       *)
(* update.                                                                   *)
THEOREM DRequeueTakesOrphans == DSpec => DNeverYanked
<1>1. DInv /\ [DNext]_dvars
        => [\A t \in Tasks : rows[t].status = "running" /\ rows'[t].status = "queued"
              => ~ InHand(t)]_dvars
  <2> SUFFICES ASSUME DInv, [DNext]_dvars, NEW t \in Tasks,
                      rows[t].status = "running", rows'[t].status = "queued"
               PROVE  ~ InHand(t)
    OBVIOUS
  <2>1. W!Inv /\ [W!Steps]_(W!vars)
    BY SeenSteps DEF DInv
  <2>2. ~ W!InHand(t)
    BY <2>1, W!OnlyOrphansGoBack, WorkerAssumptions, KindsDisjoint, DurationsType, NoTaskOutside,
       WorkerKindType, BoundsType, CutoffCoversGeneration
  <2> QED
    BY <2>2 DEF W!InHand, InHand
<1> QED
  BY <1>1, DInvariance, PTL DEF DSpec, DNeverYanked

(* A verdict once recorded in the DynamoDB store is never changed.           *)
THEOREM DVerdictStands == DSpec => DVerdictIsFinal
<1>1. DInv /\ [DNext]_dvars
        => [\A t \in Tasks : rows[t].status \in Terminal => rows'[t] = rows[t]]_dvars
  <2> SUFFICES ASSUME DInv, [DNext]_dvars, NEW t \in Tasks, rows[t].status \in Terminal
               PROVE  rows'[t] = rows[t]
    OBVIOUS
  <2>1. W!Inv /\ [W!Steps]_(W!vars) /\ faults = 0
    BY SeenSteps DEF DInv
  <2> QED
    BY <2>1, W!VerdictKept, WorkerAssumptions, KindsDisjoint, DurationsType, NoTaskOutside,
       WorkerKindType, BoundsType, CutoffCoversGeneration
<1> QED
  BY <1>1, DInvariance, PTL DEF DSpec, DVerdictIsFinal

-----------------------------------------------------------------------------
(* Refinement *)
LEMMA DStepImplements ==
  ASSUME DInv, [DNext]_dvars PROVE [Jobs!Next]_(Jobs!jobVars)
<1>1. W!Inv /\ [W!Steps]_(W!vars) /\ faults = 0 /\ faults' = 0
  BY SeenSteps, TypedStep DEF DInv
<1>2. [W!Jobs!Next]_(W!Jobs!jobVars)
  BY <1>1, W!StepImplements, WorkerAssumptions, KindsDisjoint, DurationsType, NoTaskOutside,
     WorkerKindType, BoundsType, CutoffCoversGeneration
<1> USE DEF W!Tasks, Tasks
<1>3. W!Jobs!jobVars = Jobs!jobVars /\ (UNCHANGED W!Jobs!jobVars <=> UNCHANGED Jobs!jobVars)
  BY DEF W!Jobs!jobVars, Jobs!jobVars
<1>4. ASSUME NEW t \in Tasks, W!Jobs!Submit(t) PROVE Jobs!Submit(t)
  BY <1>4 DEF W!Jobs!Submit, Jobs!Submit
<1>5. ASSUME NEW w \in Workers, NEW t \in Tasks, W!Jobs!Take(w, t) PROVE Jobs!Take(w, t)
  BY <1>5 DEF W!Jobs!Take, Jobs!Take
<1>6. ASSUME NEW w \in Workers,
             W!Jobs!Succeed(w) \/ W!Jobs!Charge(w) \/ W!Jobs!Fail(w) \/ W!Jobs!Die(w)
      PROVE  Jobs!Succeed(w) \/ Jobs!Charge(w) \/ Jobs!Fail(w) \/ Jobs!Die(w)
  BY <1>6
     DEF W!Jobs!Succeed, Jobs!Succeed, W!Jobs!Charge, Jobs!Charge, W!Jobs!Fail, Jobs!Fail,
         W!Jobs!Die, Jobs!Die
<1>7. ASSUME NEW S \in SUBSET Tasks, W!Jobs!PutBack(S) PROVE Jobs!PutBack(S)
  BY <1>7 DEF W!Jobs!PutBack, Jobs!PutBack
<1>8. W!Jobs!Next => Jobs!Next
  BY <1>4, <1>5, <1>6, <1>7 DEF W!Jobs!Next, Jobs!Next
<1> QED
  BY <1>2, <1>3, <1>8

(* The workers over the DynamoDB store do what JobQueue promises: with its   *)
(* two lagging indexes and its updates one item at a time it is still a      *)
(* queue that hands a task to one worker at a time.                          *)
THEOREM DynamoImplementsJobQueue == DSpec => ImplementsJobQueue
<1>1. DInit => Jobs!Init
  BY DEF DInit, Init, StoreInit, NoRow, Jobs!Init
<1>2. DInv /\ [DNext]_dvars => [Jobs!Next]_(Jobs!jobVars)
  BY DStepImplements
<1> QED
  BY <1>1, <1>2, DInvariance, PTL DEF DSpec, ImplementsJobQueue, Jobs!Spec

-----------------------------------------------------------------------------
(* What is on its way to an index ends with what the table holds.            *)
EndsWith(S, s, y) == s \in Seq(S) /\ s # <<>> /\ s[Len(s)] = y
KindFollows(t) == EndsWith(BOOLEAN, kindIdx[t], Queued(t))
StatusFollows(t) == EndsWith(Nat \cup {NotRunning}, statIdx[t], RunningSince(t))
IndexInv ==
  /\ kindIdx = [t \in Tasks |-> kindIdx[t]] /\ statIdx = [t \in Tasks |-> statIdx[t]]
  /\ \A t \in Tasks : KindFollows(t) /\ StatusFollows(t)

LEMMA FollowEnds ==
  ASSUME NEW S, NEW s, NEW x, NEW y \in S, EndsWith(S, s, x)
  PROVE  EndsWith(S, Follow(s, x, y), y)
<1>1. CASE x = y
  BY <1>1 DEF Follow, EndsWith
<1>2. CASE x # y
  <2>1. Follow(s, x, y) = Append(s, y)
    BY <1>2 DEF Follow
  <2>2. s \in Seq(S)
    BY DEF EndsWith
  <2>3. Append(s, y) \in Seq(S) /\ Append(s, y) # <<>> /\ Len(Append(s, y)) = Len(s) + 1
        /\ Append(s, y)[Len(s) + 1] = y
    BY <2>2, AppendProperties
  <2> QED
    BY <2>1, <2>3 DEF EndsWith
<1> QED
  BY <1>1, <1>2

LEMMA TailEnds ==
  ASSUME NEW S, NEW s, NEW x, EndsWith(S, s, x), Len(s) > 1
  PROVE  EndsWith(S, Tail(s), x)
<1> DEFINE u == Tail(s)
<1>1. s \in Seq(S) /\ s # <<>> /\ Len(s) \in Nat /\ s[Len(s)] = x
  BY DEF EndsWith
<1>2. u \in Seq(S) /\ Len(u) = Len(s) - 1 /\ \A i \in 1..Len(u) : u[i] = s[i + 1]
  BY <1>1, HeadTailProperties
<1> HIDE DEF u
<1>3. u # <<>> /\ Len(u) \in 1..Len(u) /\ Len(u) + 1 = Len(s)
  BY <1>1, <1>2
<1>4. EndsWith(S, u, x)
  BY <1>1, <1>2, <1>3 DEF EndsWith
<1> QED
  BY <1>4 DEF u

LEMMA IndexedKeeps ==
  ASSUME IndexInv, rows' \in [Tasks -> Rows], Indexed PROVE IndexInv'
<1>1. ASSUME NEW t \in Tasks PROVE KindFollows(t)' /\ StatusFollows(t)'
  <2>1. Queued(t)' \in BOOLEAN /\ RunningSince(t)' \in Nat \cup {NotRunning}
    <3>1. rows'[t].updated \in Nat
      BY DEF Rows
    <3> QED
      BY <3>1 DEF Queued, RunningSince
  <2>2. KindFollows(t) /\ StatusFollows(t)
    BY DEF IndexInv
  <2>3. /\ kindIdx'[t] = Follow(kindIdx[t], Queued(t), Queued(t)')
        /\ statIdx'[t] = Follow(statIdx[t], RunningSince(t), RunningSince(t)')
    BY DEF Indexed
  <2>4. EndsWith(BOOLEAN, kindIdx'[t], Queued(t)')
    BY <2>1, <2>2, <2>3, FollowEnds DEF KindFollows
  <2>5. EndsWith(Nat \cup {NotRunning}, statIdx'[t], RunningSince(t)')
    BY <2>1, <2>2, <2>3, FollowEnds DEF StatusFollows
  <2> QED
    BY <2>4, <2>5 DEF KindFollows, StatusFollows
<1> QED
  BY <1>1 DEF IndexInv, Indexed

LEMMA IndexStep == ASSUME DInv, IndexInv, [DNext]_dvars PROVE IndexInv'
<1>1. rows' \in [Tasks -> Rows]
  BY DInvStep, WorkerAssumptions DEF DInv, W!Inv, W!TypeOK
<1>2. CASE Indexed
  BY <1>1, <1>2, IndexedKeeps
<1>3. ASSUME UNCHANGED rows, NEW t \in Tasks
      PROVE  /\ kindIdx'[t] = kindIdx[t] => KindFollows(t)'
             /\ Len(kindIdx[t]) > 1 /\ kindIdx'[t] = Tail(kindIdx[t]) => KindFollows(t)'
             /\ statIdx'[t] = statIdx[t] => StatusFollows(t)'
             /\ Len(statIdx[t]) > 1 /\ statIdx'[t] = Tail(statIdx[t]) => StatusFollows(t)'
  <2>1. /\ EndsWith(BOOLEAN, kindIdx[t], Queued(t)) /\ Queued(t)' = Queued(t)
        /\ EndsWith(Nat \cup {NotRunning}, statIdx[t], RunningSince(t))
        /\ RunningSince(t)' = RunningSince(t)
    BY <1>3 DEF IndexInv, KindFollows, StatusFollows, Queued, RunningSince
  <2> QED
    BY <2>1, TailEnds DEF KindFollows, StatusFollows
<1>4. ASSUME NEW u \in Tasks, ReplicateKind(u) \/ ReplicateStatus(u) PROVE IndexInv'
  BY <1>3, <1>4 DEF ReplicateKind, ReplicateStatus, vars, IndexInv
<1>5. CASE Clock \/ UNCHANGED dvars
  BY <1>3, <1>5 DEF Clock, Tick, dvars, vars, indexes, IndexInv
<1> QED
  BY <1>2, <1>4, <1>5 DEF DNext, Client, DWork

(* Every variable keeps its type, and the last change on its way to an index *)
(* is what the table holds: no index ends up showing anything else.          *)
THEOREM DTypeCorrect == DSpec => []DTypeOK
<1>1. DInit => IndexInv
  <2> SUFFICES ASSUME DInit PROVE IndexInv
    OBVIOUS
  <2>1. \A t \in Tasks : Queued(t) = FALSE /\ RunningSince(t) = NotRunning
    BY DEF DInit, Init, StoreInit, NoRow, Queued, RunningSince
  <2>2. \A t \in Tasks : kindIdx[t] = <<FALSE>> /\ statIdx[t] = <<NotRunning>>
    BY DEF DInit
  <2>3. \A S : \A y \in S : EndsWith(S, <<y>>, y)
    BY DEF EndsWith
  <2>4. \A t \in Tasks : KindFollows(t) /\ StatusFollows(t)
    BY <2>1, <2>2, <2>3 DEF KindFollows, StatusFollows
  <2> QED
    BY <2>4 DEF DInit, IndexInv
<1>2. DInv /\ IndexInv /\ [DNext]_dvars => IndexInv'
  BY IndexStep
<1>3. DInv /\ IndexInv => DTypeOK
  BY WorkerAssumptions
     DEF DInv, W!Inv, W!TypeOK, Typed, Between, IndexInv, KindFollows, StatusFollows, EndsWith,
         DTypeOK
<1> QED
  BY <1>1, <1>2, <1>3, DInvariance, PTL DEF DSpec
=============================================================================

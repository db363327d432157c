----------------------------- MODULE DynamoQueue -----------------------------
(***************************************************************************)
(* The workers of Worker over DynamoDBTaskStore, the store of the deployed *)
(* system.  An item of the base table is written atomically and on a       *)
(* condition, but claim_next and requeue_stale_running find their items    *)
(* through two secondary indexes, each of which follows every item of the  *)
(* table with a delay of its own, and then update the items one call at a  *)
(* time.  Other workers, submits and restarts run between any two calls.   *)
(*                                                                         *)
(* What the store does not do differently (enqueue, mark_succeeded, the    *)
(* work between claim and verdict) is Worker's.                            *)
(***************************************************************************)
EXTENDS Worker, FiniteSets, Sequences

CONSTANT QueryLimit    \* Limit of claim_next's query

ASSUME QueryLimitType == QueryLimit \in Nat \ {0}

VARIABLES
  kindIdx,   \* kindIdx[t]: t's changes, oldest first, in kind_status-created_at-index
  statIdx,   \* statIdx[t]: the same in status-created_at-index
  todo,      \* todo[w]: the items of w's query it has yet to try
  cutoff     \* cutoff[w]: the cutoff of w's requeue

indexes == <<kindIdx, statIdx>>
calls   == <<todo, cutoff>>
dvars   == <<vars, indexes, calls>>

(* What the two queries need of an item: whether it is queued, and since     *)
(* when it is running.  An index shows the Head of an item's changes, the    *)
(* Last is what the table holds.                                             *)
NotRunning == -1
Queued(t) == rows[t].status = "queued"
RunningSince(t) == IF rows[t].status = "running" THEN rows[t].updated ELSE NotRunning

ShownQueued(t) == Head(kindIdx[t])
ShownStale(t, c) == Head(statIdx[t]) # NotRunning /\ Head(statIdx[t]) < c

Follow(changes, x, y) == IF x = y THEN changes ELSE Append(changes, y)

(* A slip: a claim that leaves the attribute kind_status as it was.          *)
ClaimLeavesKind ==
  /\ kindIdx' = [t \in Tasks |-> Follow(kindIdx[t], FALSE, ~ Queued(t) /\ Queued(t)')]
  /\ statIdx' = [t \in Tasks |-> Follow(statIdx[t], RunningSince(t), RunningSince(t)')]

(* Every write of the table is on its way to both indexes: whoever sets an   *)
(* item's status sets its kind_status with it.                               *)
Indexed ==
  /\ kindIdx' = [t \in Tasks |-> Follow(kindIdx[t], Queued(t), Queued(t)')]
  /\ statIdx' = [t \in Tasks |-> Follow(statIdx[t], RunningSince(t), RunningSince(t)')]

DTypeOK ==
  /\ rows \in [Tasks -> Rows] /\ now \in Nat
  /\ pc \in [Workers -> PCs \cup {"requeueing", "claiming"}]
  /\ cur \in [Workers -> Tasks \cup {NoTask}]
  /\ media \in [Workers -> Nat] /\ started \in [Workers -> Nat]
  /\ meter \in [Keys -> Int]
  /\ charges \in [Tasks -> Nat] /\ runs \in [Tasks -> Nat]
  /\ crashes \in Nat /\ faults \in Nat
  /\ kindIdx \in [Tasks -> Seq(BOOLEAN)]
  /\ statIdx \in [Tasks -> Seq(Nat \cup {NotRunning})]
  /\ \A t \in Tasks : /\ kindIdx[t] # <<>> /\ kindIdx[t][Len(kindIdx[t])] = Queued(t)
                      /\ statIdx[t] # <<>> /\ statIdx[t][Len(statIdx[t])] = RunningSince(t)
  /\ todo \in [Workers -> SUBSET Tasks] /\ cutoff \in [Workers -> Int]

DInit ==
  /\ Init
  /\ kindIdx = [t \in Tasks |-> <<FALSE>>] /\ statIdx = [t \in Tasks |-> <<NotRunning>>]
  /\ todo = [w \in Workers |-> {}] /\ cutoff = [w \in Workers |-> 0]

-----------------------------------------------------------------------------
(* One index takes over the next change of one item.                         *)
ReplicateKind(t) ==
  /\ Len(kindIdx[t]) > 1
  /\ kindIdx' = [kindIdx EXCEPT ![t] = Tail(@)]
  /\ UNCHANGED <<vars, statIdx, calls>>
ReplicateStatus(t) ==
  /\ Len(statIdx[t]) > 1
  /\ statIdx' = [statIdx EXCEPT ![t] = Tail(@)]
  /\ UNCHANGED <<vars, kindIdx, calls>>

(* What a query returns: the n oldest of the items in S.                     *)
OldestOf(S, n) ==
  {Q \in SUBSET S :
     /\ Cardinality(Q) = IF Cardinality(S) < n THEN Cardinality(S) ELSE n
     /\ \A t \in Q, u \in S \ Q : rows[t].created <= rows[u].created}

(* Both queries answer in the order of created_at, and w tries their items   *)
(* in that order.                                                            *)
Oldest(w) == {t \in todo[w] : \A u \in todo[w] : rows[t].created <= rows[u].created}

UnchangedBy(w) == UNCHANGED <<now, cur, media, started, meter, history, crashes, faults>>

-----------------------------------------------------------------------------
(* requeue_stale_running, called by start(): query the status index for      *)
(* running items and keep those it shows as older than the cutoff...         *)
QueryStale(w) ==
  /\ pc[w] = "down"
  /\ cutoff' = [cutoff EXCEPT ![w] = now - StaleCutoff]
  /\ todo' = [todo EXCEPT ![w] =
       {t \in Tasks : ShownStale(t, now - StaleCutoff)}]
  /\ Goto(w, "requeueing")
  /\ UNCHANGED rows /\ UnchangedBy(w)

(* ...then update each, if the table still has it running and stale.  A      *)
(* requeue that forgets to look again is Yank, one that only looks at the    *)
(* status is YankRunning.                                                    *)
Yank(w) ==
  /\ pc[w] = "requeueing"
  /\ \E t \in Oldest(w) : rows' = Requeued({t}) /\ todo' = [todo EXCEPT ![w] = @ \ {t}]
  /\ UNCHANGED pc /\ UNCHANGED cutoff /\ UnchangedBy(w)
YankRunning(w) ==
  /\ pc[w] = "requeueing"
  /\ \E t \in Oldest(w) :
       /\ rows' = Requeued({t} \cap With("running"))
       /\ todo' = [todo EXCEPT ![w] = @ \ {t}]
  /\ UNCHANGED pc /\ UNCHANGED cutoff /\ UnchangedBy(w)
RequeueOne(w) ==
  /\ pc[w] = "requeueing"
  /\ \E t \in Oldest(w) :
       /\ rows' = IF rows[t].status = "running" /\ rows[t].updated < cutoff[w]
                  THEN Requeued({t}) ELSE rows
       /\ todo' = [todo EXCEPT ![w] = @ \ {t}]
  /\ UNCHANGED pc /\ UNCHANGED cutoff /\ UnchangedBy(w)

RequeueDone(w) ==
  /\ pc[w] = "requeueing" /\ todo[w] = {}
  /\ Goto(w, "idle")
  /\ cutoff' = [cutoff EXCEPT ![w] = 0]
  /\ UNCHANGED <<rows, todo>> /\ UnchangedBy(w)

(* claim_next: query the kind index for the oldest queued items of the       *)
(* worker's kind...                                                          *)
QueryQueued(w) ==
  /\ pc[w] = "idle"
  /\ \E Q \in OldestOf({t \in Tasks : ShownQueued(t) /\ KindOf(t) = WorkerKind[w]},
                       QueryLimit) :
       /\ Q # {}
       /\ todo' = [todo EXCEPT ![w] = Q]
  /\ Goto(w, "claiming")
  /\ UNCHANGED <<rows, cutoff>> /\ UnchangedBy(w)

(* ...then update the oldest of them that the table still has queued.  A     *)
(* claim that puts no condition on the update is Grab.                       *)
Take(w, t) ==
  /\ rows' = Claimed(t)
  /\ cur' = [cur EXCEPT ![w] = t]
  /\ runs' = [runs EXCEPT ![t] = @ + 1]
  /\ started' = [started EXCEPT ![w] = now]
  /\ todo' = [todo EXCEPT ![w] = {}]
  /\ Goto(w, "generating")
  /\ UNCHANGED <<now, media, meter, charges, crashes, faults, cutoff>>
Grab(w) ==
  /\ pc[w] = "claiming"
  /\ \E t \in Oldest(w) : Take(w, t)
TryClaim(w) ==
  /\ pc[w] = "claiming"
  /\ \E t \in Oldest(w) : rows[t].status = "queued" /\ Take(w, t)

(* The conditional check fails: someone else got it, try the next.           *)
ClaimBeaten(w) ==
  /\ pc[w] = "claiming"
  /\ \E t \in Oldest(w) :
       /\ rows[t].status # "queued"
       /\ todo' = [todo EXCEPT ![w] = @ \ {t}]
  /\ UNCHANGED <<rows, pc, cutoff>> /\ UnchangedBy(w)

(* None of the items was still queued: claim_next returns None.              *)
ClaimNone(w) ==
  /\ pc[w] = "claiming" /\ todo[w] = {}
  /\ Goto(w, "idle")
  /\ UNCHANGED <<rows, todo, cutoff>> /\ UnchangedBy(w)

-----------------------------------------------------------------------------
DCrash(w) ==
  /\ Crash(w)
  /\ todo' = [todo EXCEPT ![w] = {}] /\ cutoff' = [cutoff EXCEPT ![w] = 0]

(* The rest of run_once touches neither the indexes nor a query's items.     *)
RunTask(w) ==
  /\ \/ Generate(w) \/ Publish(w) \/ GenerationFails(w)
     \/ MarkSucceeded(w) \/ Bill(w) \/ MarkFailed(w)
  /\ UNCHANGED calls

DWork(w) ==
  /\ \/ QueryStale(w) \/ RequeueOne(w) \/ RequeueDone(w)
     \/ QueryQueued(w) \/ TryClaim(w) \/ ClaimBeaten(w) \/ ClaimNone(w)
     \/ RunTask(w)
  /\ Indexed

Client ==
  /\ \E t \in Tasks, k \in Keys, d \in Durations \cup {0} : Enqueue(t, k, d)
  /\ UNCHANGED calls /\ Indexed
Clock == Tick /\ UNCHANGED <<indexes, calls>>

DNext ==
  \/ Client \/ Clock
  \/ \E t \in Tasks : ReplicateKind(t) \/ ReplicateStatus(t)
  \/ \E w \in Workers : DWork(w) \/ (DCrash(w) /\ Indexed)

DSpec == DInit /\ [][DNext]_dvars

(* The indexes catch up, and workers that can take a step take one.          *)
DFairSpec ==
  /\ DSpec
  /\ \A t \in Tasks : WF_dvars(ReplicateKind(t)) /\ WF_dvars(ReplicateStatus(t))
  /\ \A w \in Workers : WF_dvars(DWork(w))

-----------------------------------------------------------------------------
(* The conditional updates alone keep a claim single-flight and a requeue    *)
(* off live work, however far the indexes lag.                               *)
DNeverYanked ==
  [][\A t \in Tasks :
       rows[t].status = "running" /\ rows'[t].status = "queued" => ~ InHand(t)]_dvars

DVerdictIsFinal ==
  [][\A t \in Tasks : rows[t].status \in Terminal => rows'[t] = rows[t]]_dvars

(* With no crash, every queued task gets a verdict: an index that shows      *)
(* items long taken delays a claim, but hides nothing for ever.              *)
DEveryTaskEnds ==
  \A t \in Tasks :
    rows[t].status = "queued" ~> rows[t].status \in Terminal \/ crashes > 0
=============================================================================

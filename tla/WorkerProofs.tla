----------------------------- MODULE WorkerProofs -----------------------------
(***************************************************************************)
(* What holds of Worker for any tasks, keys, workers and bounds, provided  *)
(* the requeue cutoff covers the generation budget.                        *)
(*                                                                         *)
(* Most of it does not depend on which queued task a claim takes, nor on   *)
(* when an orphan is put back.  It is proved of steps that leave both open,*)
(* so that it holds of the workers over either store: Worker's steps are   *)
(* such steps (NextSteps below), and DynamoQueue's are (DynamoProofs).     *)
(***************************************************************************)
EXTENDS Worker, FiniteSetTheorems, NaturalsInduction, WellFoundedInduction, TLAPS

(* What a worker knows of the task it has in hand: it has one exactly while  *)
(* it is busy, how far the row has come, and, as long as the row is running, *)
(* that its own claim wrote it last, at most GenBudget ago.                  *)
Hand(w) ==
  /\ pc[w] \in Busy <=> cur[w] \in Tasks
  /\ pc[w] \in {"generating", "publishing", "marking"} => rows[cur[w]].status = "running"
  /\ pc[w] = "billing" => rows[cur[w]].status = "succeeded"
  /\ pc[w] = "failing" => \/ rows[cur[w]].status = "running"
                          \/ rows[cur[w]].status = "succeeded" /\ faults > 0
  /\ pc[w] \in Busy => /\ started[w] <= now /\ now <= started[w] + GenBudget
                       /\ rows[cur[w]].status = "running" => rows[cur[w]].updated = started[w]
HandInv == \A w \in Workers : Hand(w)

(* A task's owner has been charged only once the task was through, with      *)
(* media; a worker about to charge has media, and has not charged.           *)
Account(t) == charges[t] <= 1 /\ (charges[t] = 1 => rows[t].status \in Terminal /\ rows[t].refs > 0)
Due(w) ==
  /\ pc[w] \in {"publishing", "marking", "billing"} => media[w] > 0
  /\ pc[w] = "billing" => charges[cur[w]] = 0 /\ rows[cur[w]].refs > 0
ChargeInv == (\A t \in Tasks : Account(t)) /\ (\A w \in Workers : Due(w))

(* A task that waits, or runs with no worker, has had all its claims undone  *)
(* by trouble.                                                               *)
RunsOf(t) ==
  /\ runs[t] <= 1 + crashes + faults
  /\ rows[t].status = "absent" => runs[t] = 0
  /\ rows[t].status = "queued" \/ (rows[t].status = "running" /\ ~ InHand(t))
       => runs[t] <= crashes + faults
RunsInv == \A t \in Tasks : RunsOf(t)

Inv == TypeOK /\ HandInv /\ SingleExecutor /\ ChargeInv /\ RunsInv

(* Some queued task is claimed by an idle worker.                            *)
Takes(w, t) ==
  /\ pc[w] = "idle" /\ t \in With("queued")
  /\ rows' = Claimed(t)
  /\ cur' = [cur EXCEPT ![w] = t]
  /\ runs' = [runs EXCEPT ![t] = @ + 1]
  /\ started' = [started EXCEPT ![w] = now]
  /\ Goto(w, "generating")
  /\ UNCHANGED <<now, media, meter, charges, crashes, faults>>

(* Some running tasks that are in nobody's hands are put back, and perhaps a *)
(* worker that was down is up.                                               *)
PutsBack(S) ==
  /\ S \subseteq With("running") /\ \A t \in S : ~ InHand(t)
  /\ rows' = Requeued(S)
  /\ pc' = pc \/ \E w \in Workers : pc[w] = "down" /\ Goto(w, "idle")
  /\ UNCHANGED <<now, cur, media, started, meter, history, crashes, faults>>

Steps ==
  \/ \E t \in Tasks, k \in Keys, d \in Durations \cup {0} : Enqueue(t, k, d)
  \/ Tick
  \/ \E S \in SUBSET Tasks : PutsBack(S)
  \/ \E w \in Workers, t \in Tasks : Takes(w, t)
  \/ \E w \in Workers :
       \/ Generate(w) \/ Publish(w) \/ GenerationFails(w)
       \/ MarkSucceeded(w) \/ Bill(w) \/ MarkFailed(w) \/ StoreFault(w) \/ Crash(w)

-----------------------------------------------------------------------------
(* What each store operation does to every row.                              *)
LEMMA EnqueuedRows ==
  ASSUME rows \in [Tasks -> Rows], now \in Nat,
         NEW t \in Tasks, NEW k \in Keys, NEW d \in Durations \cup {0}
  PROVE  /\ Enqueued(t, k, d) \in [Tasks -> Rows]
         /\ Enqueued(t, k, d)[t].status = "queued"
         /\ \A u \in Tasks : u # t => Enqueued(t, k, d)[u] = rows[u]
<1> DEFINE r == [status |-> "queued", owner |-> k, duration |-> d, refs |-> 0,
                 created |-> now, updated |-> now]
<1>1. r \in Rows /\ r.status = "queued"
  BY DEF Rows, Statuses
<1>2. Enqueued(t, k, d) = [rows EXCEPT ![t] = r]
  BY DEF Enqueued
<1> QED
  BY <1>1, <1>2

LEMMA ClaimedRows ==
  ASSUME rows \in [Tasks -> Rows], now \in Nat, NEW t \in Tasks
  PROVE  /\ Claimed(t) \in [Tasks -> Rows]
         /\ Claimed(t)[t].status = "running" /\ Claimed(t)[t].updated = now
         /\ \A u \in Tasks : u # t => Claimed(t)[u] = rows[u]
<1> DEFINE r == [rows[t] EXCEPT !.status = "running", !.updated = now]
<1>1. r \in Rows /\ r.status = "running" /\ r.updated = now
  BY DEF Rows, Statuses
<1>2. Claimed(t) = [rows EXCEPT ![t] = r]
  BY DEF Claimed
<1> QED
  BY <1>1, <1>2

LEMMA SucceededRows ==
  ASSUME rows \in [Tasks -> Rows], now \in Nat, NEW t \in Tasks, NEW n \in Nat
  PROVE  /\ Succeeded(t, n) \in [Tasks -> Rows]
         /\ Succeeded(t, n)[t].status = "succeeded" /\ Succeeded(t, n)[t].refs = n
         /\ \A u \in Tasks : u # t => Succeeded(t, n)[u] = rows[u]
<1> DEFINE r == [rows[t] EXCEPT !.status = "succeeded", !.refs = n, !.updated = now]
<1>1. r \in Rows /\ r.status = "succeeded" /\ r.refs = n
  BY DEF Rows, Statuses, Terminal
<1>2. Succeeded(t, n) = [rows EXCEPT ![t] = r]
  BY DEF Succeeded
<1> QED
  BY <1>1, <1>2

LEMMA FailedRows ==
  ASSUME rows \in [Tasks -> Rows], now \in Nat, NEW t \in Tasks
  PROVE  /\ Failed(t) \in [Tasks -> Rows]
         /\ Failed(t)[t].status = "failed" /\ Failed(t)[t].refs = rows[t].refs
         /\ \A u \in Tasks : u # t => Failed(t)[u] = rows[u]
<1> DEFINE r == [rows[t] EXCEPT !.status = "failed", !.updated = now]
<1>1. r \in Rows /\ r.status = "failed" /\ r.refs = rows[t].refs
  BY DEF Rows, Statuses, Terminal
<1>2. Failed(t) = [rows EXCEPT ![t] = r]
  BY DEF Failed
<1> QED
  BY <1>1, <1>2

LEMMA RequeuedRows ==
  ASSUME rows \in [Tasks -> Rows], now \in Nat, NEW S \in SUBSET Tasks
  PROVE  /\ Requeued(S) \in [Tasks -> Rows]
         /\ \A t \in S : Requeued(S)[t].status = "queued" /\ Requeued(S)[t].refs = rows[t].refs
         /\ \A u \in Tasks \ S : Requeued(S)[u] = rows[u]
<1> DEFINE r(t) == [rows[t] EXCEPT !.status = "queued", !.updated = now]
<1>1. \A t \in Tasks : r(t) \in Rows /\ r(t).status = "queued" /\ r(t).refs = rows[t].refs
  BY DEF Rows, Statuses
<1>2. Requeued(S) = [t \in Tasks |-> IF t \in S THEN r(t) ELSE rows[t]]
  BY DEF Requeued
<1> HIDE DEF r
<1> QED
  BY <1>1, <1>2

LEMMA StaleTasks ==
  StaleRunning(StaleCutoff) \in SUBSET Tasks
BY DEF StaleRunning, With

-----------------------------------------------------------------------------
LEMMA TypeInit == Init => TypeOK
BY BoundsType DEF Init, StoreInit, TypeOK, NoRow, Rows, Statuses, PCs, Terminal

LEMMA RowDuration == ASSUME NEW r \in Rows PROVE r.duration \in Int
<1>1. r.duration \in Durations \cup {0}
  BY DEF Rows
<1> QED
  BY <1>1, DurationsType

LEMMA ChargeType ==
  ASSUME TypeOK, NEW w \in Workers, cur[w] \in Tasks
  PROVE  Charge(w) \in Int
<1>1. rows[cur[w]] \in Rows /\ media[w] \in Int
  BY DEF TypeOK
<1>2. rows[cur[w]].duration \in Int
  BY <1>1, RowDuration
<1> QED
  BY <1>1, <1>2 DEF Charge

LEMMA MeterType ==
  ASSUME NEW m \in [Keys -> Int], NEW k, NEW x \in Int
  PROVE  [m EXCEPT ![k] = @ + x] \in [Keys -> Int]
<1>1. CASE k \in Keys
  BY <1>1
<1>2. CASE k \notin Keys
  BY <1>2
<1> QED
  BY <1>1, <1>2

LEMMA TypeNext == TypeOK /\ HandInv /\ [Steps]_vars => TypeOK'
<1> SUFFICES ASSUME TypeOK, HandInv, [Steps]_vars PROVE TypeOK'
  OBVIOUS
<1> USE DEF TypeOK, Busy, PCs, Goto, Release, wvars, history, Fault
<1>1. ASSUME NEW t \in Tasks, NEW k \in Keys, NEW d \in Durations \cup {0}, Enqueue(t, k, d)
      PROVE TypeOK'
  BY <1>1, EnqueuedRows DEF Enqueue
<1>2. CASE Tick
  BY <1>2 DEF Tick
<1>3. ASSUME NEW S \in SUBSET Tasks, PutsBack(S) PROVE TypeOK'
  <2>1. rows' \in [Tasks -> Rows]
    BY <1>3, RequeuedRows DEF PutsBack
  <2>2. pc' \in [Workers -> PCs]
    BY <1>3 DEF PutsBack
  <2> QED
    BY <1>3, <2>1, <2>2 DEF PutsBack
<1>4. ASSUME NEW w \in Workers, Crash(w) PROVE TypeOK'
  BY <1>4 DEF Crash
<1>5. ASSUME NEW w \in Workers, NEW t \in Tasks, Takes(w, t) PROVE TypeOK'
  BY <1>5, ClaimedRows DEF Takes
<1>6. ASSUME NEW w \in Workers, ClaimLost(w) PROVE TypeOK'
  BY <1>6, ClaimedRows DEF ClaimLost, Claimable, With
<1>7. ASSUME NEW w \in Workers, Generate(w) PROVE TypeOK'
  BY <1>7, BoundsType DEF Generate
<1>8. ASSUME NEW w \in Workers, Publish(w) \/ GenerationFails(w) PROVE TypeOK'
  BY <1>8 DEF Publish, GenerationFails
<1>9. ASSUME NEW w \in Workers, MarkSucceeded(w) \/ MarkSucceededFails(w) PROVE TypeOK'
  <2>1. cur[w] \in Tasks /\ media[w] \in Nat
    BY <1>9 DEF MarkSucceeded, MarkSucceededFails, HandInv, Hand
  <2>2. Succeeded(cur[w], media[w]) \in [Tasks -> Rows]
    BY <2>1, SucceededRows
  <2> QED
    BY <1>9, <2>2 DEF MarkSucceeded, MarkSucceededFails
<1>10. ASSUME NEW w \in Workers, pc[w] = "billing", Billed(w)
       PROVE meter' \in [Keys -> Int] /\ charges' \in [Tasks -> Nat]
  <2>1. cur[w] \in Tasks
    BY <1>10 DEF HandInv, Hand
  <2>2. Charge(w) \in Int
    BY <2>1, ChargeType
  <2>3. meter' = [meter EXCEPT ![rows[cur[w]].owner] = @ + Charge(w)]
    BY <1>10 DEF Billed
  <2>4. meter' \in [Keys -> Int]
    BY <2>2, <2>3, MeterType
  <2> QED
    BY <1>10, <2>1, <2>4 DEF Billed
<1>11. ASSUME NEW w \in Workers, Bill(w) \/ BillFails(w) PROVE TypeOK'
  BY <1>10, <1>11 DEF Bill, BillFails
<1>12. ASSUME NEW w \in Workers, MarkFailed(w) \/ MarkFailedFails(w) PROVE TypeOK'
  <2>1. cur[w] \in Tasks
    BY <1>12 DEF MarkFailed, MarkFailedFails, HandInv, Hand
  <2>2. Failed(cur[w]) \in [Tasks -> Rows]
    BY <2>1, FailedRows
  <2> QED
    BY <1>12, <2>2 DEF MarkFailed, MarkFailedFails
<1>13. CASE UNCHANGED vars
  BY <1>13 DEF vars
<1> QED
  BY <1>1, <1>2, <1>3, <1>4, <1>5, <1>6, <1>7, <1>8, <1>9, <1>11, <1>12, <1>13
     DEF Steps, StoreFault

(* No stale row is in hand: the arithmetic the cutoff is chosen for.         *)
LEMMA StaleNotInHand ==
  ASSUME TypeOK, HandInv, NEW w \in Workers
  PROVE  cur[w] \notin StaleRunning(StaleCutoff)
<1> SUFFICES ASSUME cur[w] \in Tasks, rows[cur[w]].status = "running",
                    rows[cur[w]].updated < now - StaleCutoff
             PROVE  FALSE
  BY DEF StaleRunning, With
<1>2. rows[cur[w]].updated = started[w] /\ now <= started[w] + GenBudget
  BY DEF HandInv, Hand
<1>3. started[w] \in Nat /\ now \in Nat /\ GenBudget \in Nat /\ StaleCutoff \in Nat
  BY BoundsType DEF TypeOK
<1> QED
  BY <1>2, <1>3, CutoffCoversGeneration

LEMMA HandNext ==
  TypeOK /\ HandInv /\ SingleExecutor /\ [Steps]_vars => HandInv'
<1> SUFFICES ASSUME TypeOK, HandInv, SingleExecutor, [Steps]_vars, NEW v \in Workers
             PROVE  Hand(v)'
  BY DEF HandInv
<1> USE DEF Busy, PCs, Goto, Release, Fault, wvars, history
<1>1. TypeOK /\ Hand(v)
  BY DEF HandInv
(* A worker that does not move still holds what it held, if its row stays.   *)
<1>2. ASSUME now' = now, faults' \in {faults, faults + 1}, pc'[v] = pc[v], started'[v] = started[v],
             cur'[v] = cur[v], cur[v] \in Tasks => rows'[cur[v]] = rows[cur[v]]
      PROVE  Hand(v)'
  BY <1>1, <1>2 DEF Hand, TypeOK
<1>3. ASSUME NEW w \in Workers, cur[w] \in Tasks, cur[v] = cur[w] PROVE v = w
  BY <1>3, NoTaskOutside DEF SingleExecutor
<1>4. ASSUME NEW t \in With("queued") PROVE t \in Tasks /\ cur[v] # t
  BY <1>1, <1>4 DEF With, Hand, TypeOK
<1>5. ASSUME NEW t \in Tasks, NEW k \in Keys, NEW d \in Durations \cup {0}, Enqueue(t, k, d)
      PROVE Hand(v)'
  <2>1. cur[v] # t
    BY <1>1, <1>5 DEF Enqueue, Hand, TypeOK
  <2>2. cur[v] \in Tasks => rows'[cur[v]] = rows[cur[v]]
    BY <1>1, <1>5, <2>1, EnqueuedRows DEF Enqueue, TypeOK
  <2> QED
    BY <1>1, <1>2, <1>5, <2>2 DEF Enqueue, TypeOK
<1>6. CASE Tick
  BY <1>1, <1>6, BoundsType DEF Tick, Hand, TypeOK
<1>7. ASSUME NEW S \in SUBSET Tasks, PutsBack(S) PROVE Hand(v)'
  <2>1. cur[v] \in Tasks => rows'[cur[v]] = rows[cur[v]]
    BY <1>1, <1>7, RequeuedRows DEF PutsBack, InHand, TypeOK
  <2>2. CASE pc'[v] = pc[v]
    BY <1>1, <1>2, <1>7, <2>1, <2>2 DEF PutsBack, TypeOK
  <2>3. CASE pc[v] = "down" /\ pc'[v] = "idle"
    BY <1>1, <1>7, <2>3 DEF PutsBack, Hand, TypeOK
  <2> QED
    BY <1>1, <1>7, <2>2, <2>3 DEF PutsBack, TypeOK
<1>8. ASSUME NEW w \in Workers, Crash(w) PROVE Hand(v)'
  <2>1. CASE v = w
    BY <1>1, <1>8, <2>1, NoTaskOutside DEF Crash, Hand, TypeOK
  <2>2. CASE v # w
    BY <1>1, <1>2, <1>8, <2>2 DEF Crash, TypeOK
  <2> QED
    BY <2>1, <2>2
<1>9. ASSUME NEW w \in Workers, NEW t \in Tasks, Takes(w, t) PROVE Hand(v)'
  <2>1. rows' = Claimed(t) /\ cur' = [cur EXCEPT ![w] = t]
    BY <1>9 DEF Takes
  <2>2. t \in Tasks /\ cur[v] # t
    BY <1>4, <1>9 DEF Takes
  <2>3. CASE v = w
    BY <1>1, <1>9, <2>1, <2>2, <2>3, ClaimedRows, BoundsType DEF Takes, Hand, TypeOK
  <2>4. CASE v # w
    BY <1>1, <1>2, <1>9, <2>1, <2>2, <2>4, ClaimedRows DEF Takes, TypeOK
  <2> QED
    BY <2>3, <2>4
<1>10. ASSUME NEW w \in Workers, ClaimLost(w) PROVE Hand(v)'
  <2>1. PICK t \in With("queued") : rows' = Claimed(t)
    BY <1>10 DEF ClaimLost, Claimable
  <2>2. cur[v] \in Tasks => rows'[cur[v]] = rows[cur[v]]
    BY <1>1, <1>4, <2>1, ClaimedRows DEF TypeOK
  <2> QED
    BY <1>1, <1>2, <1>10, <2>2 DEF ClaimLost, TypeOK
<1>11. ASSUME NEW w \in Workers,
              Generate(w) \/ Publish(w) \/ GenerationFails(w) \/ BillFails(w)
       PROVE  Hand(v)'
  <2>1. CASE v = w
    BY <1>1, <1>11, <2>1 DEF Generate, Publish, GenerationFails, BillFails, Hand, TypeOK
  <2>2. CASE v # w
    BY <1>1, <1>2, <1>11, <2>2 DEF Generate, Publish, GenerationFails, BillFails, TypeOK
  <2> QED
    BY <2>1, <2>2
<1>12. ASSUME NEW w \in Workers, MarkSucceeded(w) \/ MarkSucceededFails(w) PROVE Hand(v)'
  <2>1. cur[w] \in Tasks /\ media[w] \in Nat
    BY <1>1, <1>12 DEF MarkSucceeded, MarkSucceededFails, HandInv, Hand, TypeOK
  <2>2. CASE v = w
    BY <1>1, <1>12, <2>1, <2>2, SucceededRows
       DEF MarkSucceeded, MarkSucceededFails, Hand, TypeOK
  <2>3. CASE v # w
    BY <1>1, <1>2, <1>3, <1>12, <2>1, <2>3, SucceededRows
       DEF MarkSucceeded, MarkSucceededFails, TypeOK
  <2> QED
    BY <2>2, <2>3
<1>13. ASSUME NEW w \in Workers, Bill(w) \/ MarkFailed(w) \/ MarkFailedFails(w) PROVE Hand(v)'
  <2>1. cur[w] \in Tasks
    BY <1>13 DEF Bill, MarkFailed, MarkFailedFails, HandInv, Hand
  <2>2. CASE v = w
    BY <1>1, <1>13, <2>2, NoTaskOutside DEF Bill, MarkFailed, MarkFailedFails, Hand, TypeOK
  <2>3. CASE v # w
    <3>1. cur[v] \in Tasks => rows'[cur[v]] = rows[cur[v]]
      BY <1>1, <1>3, <1>13, <2>1, <2>3, FailedRows
         DEF Bill, MarkFailed, MarkFailedFails, TypeOK
    <3> QED
      BY <1>1, <1>2, <1>13, <2>3, <3>1 DEF Bill, MarkFailed, MarkFailedFails, TypeOK
  <2> QED
    BY <2>2, <2>3
<1>14. CASE UNCHANGED vars
  BY <1>1, <1>14 DEF vars, Hand
<1> QED
  BY <1>5, <1>6, <1>7, <1>8, <1>9, <1>10, <1>11, <1>12, <1>13, <1>14
     DEF Steps, StoreFault

LEMMA SingleNext ==
  TypeOK /\ HandInv /\ SingleExecutor /\ [Steps]_vars => SingleExecutor'
<1> SUFFICES ASSUME TypeOK, HandInv, SingleExecutor, [Steps]_vars PROVE SingleExecutor'
  OBVIOUS
<1> USE NoTaskOutside DEF TypeOK, Goto, Release, wvars, history, SingleExecutor
<1>1. ASSUME NEW w \in Workers, NEW t \in Tasks, Takes(w, t) PROVE SingleExecutor'
  <2>1. cur' = [cur EXCEPT ![w] = t]
    BY <1>1 DEF Takes
  <2>2. t \in Tasks /\ \A v \in Workers : cur[v] # t
    BY <1>1 DEF Takes, With, HandInv, Hand, Busy, PCs
  <2> QED
    BY <2>1, <2>2
<1>2. CASE \E w \in Workers : cur' = [cur EXCEPT ![w] = NoTask]
  BY <1>2
<1>3. CASE UNCHANGED cur
  BY <1>3
<1> QED
  BY <1>1, <1>2, <1>3
     DEF Steps, StoreFault, vars, Enqueue, Tick, PutsBack, Crash, ClaimLost, Generate,
         Publish, GenerationFails, MarkSucceeded, MarkSucceededFails, Bill, BillFails,
         MarkFailed, MarkFailedFails

LEMMA ChargeNext ==
  TypeOK /\ HandInv /\ SingleExecutor /\ ChargeInv /\ [Steps]_vars => ChargeInv'
<1> SUFFICES ASSUME TypeOK, HandInv, SingleExecutor, ChargeInv, [Steps]_vars
             PROVE  ChargeInv'
  OBVIOUS
<1> USE DEF Busy, PCs, Goto, Release, Fault, wvars, history
(* A row keeps its account if it keeps its charges, and either stays or is   *)
(* one that was never charged.                                               *)
<1>1. ASSUME NEW t \in Tasks, charges'[t] = charges[t],
             rows'[t] = rows[t] \/ rows[t].status \notin Terminal
               \/ (rows'[t].status \in Terminal /\ rows'[t].refs = rows[t].refs)
      PROVE  Account(t)'
  BY <1>1 DEF ChargeInv, Account, TypeOK
<1>2. ASSUME NEW v \in Workers, pc'[v] = pc[v], media'[v] = media[v], cur'[v] = cur[v],
             cur[v] \in Tasks => /\ rows'[cur[v]] = rows[cur[v]]
                                 /\ charges'[cur[v]] = charges[cur[v]]
      PROVE  Due(v)'
  BY <1>2 DEF ChargeInv, Due, HandInv, Hand
<1>3. ASSUME NEW v \in Workers, NEW w \in Workers, cur[w] \in Tasks, cur[v] = cur[w]
      PROVE  v = w
  BY <1>3, NoTaskOutside DEF SingleExecutor
<1>4. ASSUME NEW t \in With("queued")
      PROVE  t \in Tasks /\ rows[t].status = "queued" /\ \A v \in Workers : cur[v] # t
  BY <1>4 DEF With, HandInv, Hand, TypeOK
<1>5. ASSUME NEW t \in Tasks, NEW k \in Keys, NEW d \in Durations \cup {0}, Enqueue(t, k, d)
      PROVE ChargeInv'
  <2>1. \A v \in Workers : cur[v] # t
    BY <1>5 DEF Enqueue, HandInv, Hand, TypeOK
  <2>2. rows[t].status \notin Terminal /\ \A u \in Tasks : u # t => rows'[u] = rows[u]
    BY <1>5, EnqueuedRows DEF Enqueue, TypeOK, Terminal
  <2>3. \A u \in Tasks : Account(u)'
    BY <1>1, <1>5, <2>2 DEF Enqueue
  <2>4. \A v \in Workers : Due(v)'
    BY <1>2, <1>5, <2>1, <2>2 DEF Enqueue
  <2> QED
    BY <2>3, <2>4 DEF ChargeInv
<1>6. CASE Tick
  BY <1>6 DEF Tick, ChargeInv, Account, Due
<1>7. ASSUME NEW S \in SUBSET Tasks, PutsBack(S) PROVE ChargeInv'
  <2>1. \A t \in Tasks : rows'[t] = rows[t] \/ rows[t].status \notin Terminal
    BY <1>7, RequeuedRows DEF PutsBack, TypeOK, With, Terminal
  <2>2. \A v \in Workers : cur[v] \in Tasks => rows'[cur[v]] = rows[cur[v]]
    BY <1>7, RequeuedRows DEF PutsBack, TypeOK, InHand
  <2>3. \A t \in Tasks : Account(t)'
    BY <1>1, <1>7, <2>1 DEF PutsBack
  <2>4. \A v \in Workers : Due(v)'
    <3> TAKE v \in Workers
    <3>1. CASE pc'[v] = pc[v]
      BY <1>2, <1>7, <2>2, <3>1 DEF PutsBack, TypeOK
    <3>2. CASE pc'[v] = "idle"
      BY <1>7, <3>2 DEF PutsBack, Due, TypeOK
    <3> QED
      BY <1>7, <3>1, <3>2 DEF PutsBack, TypeOK
  <2> QED
    BY <2>3, <2>4 DEF ChargeInv
(* The actions that leave the table and the charges alone.                   *)
<1>8. ASSUME NEW w \in Workers, Crash(w) \/ Generate(w) \/ Publish(w) \/ GenerationFails(w)
      PROVE  ChargeInv'
  <2>1. rows' = rows /\ charges' = charges
    BY <1>8 DEF Crash, Generate, Publish, GenerationFails
  <2>2. \A v \in Workers : Due(v)'
    <3> TAKE v \in Workers
    <3>1. CASE v = w
      BY <1>8, <2>1, <3>1, BoundsType
         DEF Crash, Generate, Publish, GenerationFails, Due, TypeOK, ChargeInv
    <3>2. CASE v # w
      BY <1>2, <1>8, <2>1, <3>2 DEF Crash, Generate, Publish, GenerationFails, TypeOK
    <3> QED
      BY <3>1, <3>2
  <2> QED
    BY <1>1, <2>1, <2>2 DEF ChargeInv
<1>9. ASSUME NEW w \in Workers, NEW t \in Tasks, Takes(w, t) \/ (ClaimLost(w) /\ t \in With("queued") /\ rows' = Claimed(t))
      PROVE  ChargeInv'
  <2>1. t \in With("queued") /\ rows' = Claimed(t)
    BY <1>9 DEF Takes
  <2>2. /\ t \in Tasks /\ rows[t].status \notin Terminal /\ \A v \in Workers : cur[v] # t
        /\ \A u \in Tasks : u # t => rows'[u] = rows[u]
    BY <1>4, <2>1, ClaimedRows DEF Terminal, TypeOK
  <2>3. \A u \in Tasks : Account(u)'
    BY <1>1, <1>9, <2>2 DEF Takes, ClaimLost
  <2>4. \A v \in Workers : Due(v)'
    <3> TAKE v \in Workers
    <3>1. CASE v = w /\ Takes(w, t)
      BY <3>1 DEF Takes, Due, TypeOK
    <3>2. CASE v # w \/ ClaimLost(w)
      BY <1>2, <1>9, <2>2, <3>2 DEF Takes, ClaimLost, TypeOK
    <3> QED
      BY <1>9, <3>1, <3>2
  <2> QED
    BY <2>3, <2>4 DEF ChargeInv
<1>14. ASSUME NEW w \in Workers, ClaimLost(w) PROVE ChargeInv'
  BY <1>9, <1>14 DEF ClaimLost, Claimable, With
<1>10. ASSUME NEW w \in Workers, MarkSucceeded(w) \/ MarkSucceededFails(w) PROVE ChargeInv'
  <2>1. /\ cur[w] \in Tasks /\ media[w] \in Nat /\ media[w] > 0
        /\ rows[cur[w]].status \notin Terminal
    BY <1>10 DEF MarkSucceeded, MarkSucceededFails, HandInv, Hand, TypeOK, ChargeInv, Due, Terminal
  <2>2. \A u \in Tasks : u # cur[w] => rows'[u] = rows[u]
    BY <1>10, <2>1, SucceededRows DEF MarkSucceeded, MarkSucceededFails, TypeOK
  <2>3. \A u \in Tasks : Account(u)'
    BY <1>1, <1>10, <2>1, <2>2 DEF MarkSucceeded, MarkSucceededFails
  <2>4. \A v \in Workers : Due(v)'
    <3> TAKE v \in Workers
    <3>1. charges[cur[w]] = 0
      BY <2>1 DEF ChargeInv, Account, TypeOK
    <3>2. CASE v = w /\ MarkSucceeded(w)
      BY <2>1, <3>1, <3>2, SucceededRows DEF MarkSucceeded, Due, TypeOK
    <3>3. CASE v = w /\ MarkSucceededFails(w)
      BY <3>3 DEF MarkSucceededFails, Due, TypeOK
    <3>4. CASE v # w
      BY <1>2, <1>3, <1>10, <2>1, <2>2, <3>4 DEF MarkSucceeded, MarkSucceededFails, TypeOK
    <3> QED
      BY <1>10, <3>2, <3>3, <3>4
  <2> QED
    BY <2>3, <2>4 DEF ChargeInv
<1>11. ASSUME NEW w \in Workers, Bill(w) \/ BillFails(w) PROVE ChargeInv'
  <2>1. /\ cur[w] \in Tasks /\ charges[cur[w]] = 0 /\ rows[cur[w]].refs > 0
        /\ rows[cur[w]].status \in Terminal /\ rows' = rows
    BY <1>11 DEF Bill, BillFails, HandInv, Hand, TypeOK, ChargeInv, Due, Terminal
  <2>2. charges' = charges \/ charges' = [charges EXCEPT ![cur[w]] = 1]
    BY <1>11, <2>1 DEF Bill, BillFails, Billed
  <2>3. \A u \in Tasks : Account(u)'
    <3> TAKE u \in Tasks
    <3>1. CASE u = cur[w]
      BY <2>1, <2>2, <3>1 DEF Account, TypeOK
    <3>2. CASE u # cur[w]
      BY <1>1, <2>1, <2>2, <3>2 DEF TypeOK
    <3> QED
      BY <3>1, <3>2
  <2>4. \A v \in Workers : Due(v)'
    <3> TAKE v \in Workers
    <3>1. CASE v = w
      BY <1>11, <3>1 DEF Bill, BillFails, Due, TypeOK
    <3>2. CASE v # w
      BY <1>2, <1>3, <1>11, <2>1, <2>2, <3>2 DEF Bill, BillFails, TypeOK
    <3> QED
      BY <3>1, <3>2
  <2> QED
    BY <2>3, <2>4 DEF ChargeInv
<1>12. ASSUME NEW w \in Workers, MarkFailed(w) \/ MarkFailedFails(w) PROVE ChargeInv'
  <2>1. cur[w] \in Tasks
    BY <1>12 DEF MarkFailed, MarkFailedFails, HandInv, Hand
  <2>2. /\ \A u \in Tasks : u # cur[w] => rows'[u] = rows[u]
        /\ \/ rows'[cur[w]] = rows[cur[w]]
           \/ rows'[cur[w]].status \in Terminal /\ rows'[cur[w]].refs = rows[cur[w]].refs
    BY <1>12, <2>1, FailedRows DEF MarkFailed, MarkFailedFails, TypeOK, Terminal
  <2>3. \A u \in Tasks : Account(u)'
    BY <1>1, <1>12, <2>1, <2>2 DEF MarkFailed, MarkFailedFails
  <2>4. \A v \in Workers : Due(v)'
    <3> TAKE v \in Workers
    <3>1. CASE v = w
      BY <1>12, <3>1 DEF MarkFailed, MarkFailedFails, Due, TypeOK
    <3>2. CASE v # w
      BY <1>2, <1>3, <1>12, <2>1, <2>2, <3>2 DEF MarkFailed, MarkFailedFails, TypeOK
    <3> QED
      BY <3>1, <3>2
  <2> QED
    BY <2>3, <2>4 DEF ChargeInv
<1>13. CASE UNCHANGED vars
  BY <1>13 DEF vars, ChargeInv, Account, Due
<1> QED
  BY <1>5, <1>6, <1>7, <1>8, <1>9, <1>10, <1>11, <1>12, <1>13, <1>14
     DEF Steps, StoreFault

LEMMA RunsNext ==
  TypeOK /\ HandInv /\ RunsInv /\ [Steps]_vars => RunsInv'
<1> SUFFICES ASSUME TypeOK, HandInv, RunsInv, [Steps]_vars, NEW t \in Tasks
             PROVE  RunsOf(t)'
  BY DEF RunsInv
<1> USE DEF Goto, Release, Fault, wvars, history
<1>1. TypeOK /\ RunsOf(t)
  BY DEF RunsInv
(* Nothing is owed if t's row and claims stay, and nobody lets go of t or    *)
(* else trouble is counted.                                                  *)
<1>2. ASSUME runs'[t] = runs[t], rows'[t].status = rows[t].status,
             crashes' \in {crashes, crashes + 1}, faults' \in {faults, faults + 1},
             crashes' # crashes \/ faults' # faults \/ (InHand(t) => InHand(t)')
      PROVE  RunsOf(t)'
  BY <1>1, <1>2 DEF RunsOf, TypeOK
<1>3. ASSUME NEW u \in Tasks, NEW k \in Keys, NEW d \in Durations \cup {0}, Enqueue(u, k, d)
      PROVE RunsOf(t)'
  <2>1. CASE u = t
    BY <1>1, <1>3, <2>1, EnqueuedRows DEF Enqueue, RunsOf, TypeOK
  <2>2. CASE u # t
    BY <1>1, <1>2, <1>3, <2>2, EnqueuedRows DEF Enqueue, InHand, TypeOK
  <2> QED
    BY <2>1, <2>2
<1>4. CASE Tick
  BY <1>2, <1>4 DEF Tick, InHand
<1>5. ASSUME NEW S \in SUBSET Tasks, PutsBack(S) PROVE RunsOf(t)'
  <2>1. CASE t \in S
    <3>1. rows[t].status = "running" /\ ~ InHand(t)
      BY <1>5, <2>1 DEF PutsBack, With
    <3>2. rows'[t].status = "queued"
      BY <1>1, <1>5, <2>1, RequeuedRows DEF PutsBack, TypeOK
    <3> QED
      BY <1>1, <1>5, <3>1, <3>2 DEF PutsBack, RunsOf, TypeOK
  <2>2. CASE t \notin S
    BY <1>1, <1>2, <1>5, <2>2, RequeuedRows DEF PutsBack, InHand, TypeOK
  <2> QED
    BY <2>1, <2>2
<1>6. ASSUME NEW w \in Workers, Crash(w) PROVE RunsOf(t)'
  BY <1>1, <1>2, <1>6 DEF Crash, TypeOK
<1>7. ASSUME NEW w \in Workers, (\E u \in Tasks : Takes(w, u)) \/ ClaimLost(w)
      PROVE  RunsOf(t)'
  <2>1. PICK u \in With("queued") :
          /\ rows' = Claimed(u) /\ runs' = [runs EXCEPT ![u] = @ + 1]
          /\ \/ cur' = [cur EXCEPT ![w] = u] /\ faults' = faults
             \/ cur' = cur /\ faults' = faults + 1
    BY <1>7 DEF Takes, ClaimLost, Claimable
  <2>2. u \in Tasks /\ rows[u].status = "queued" /\ crashes' = crashes /\ pc[w] = "idle"
    BY <1>7, <2>1 DEF With, Takes, ClaimLost
  <2>3. cur[w] \notin Tasks
    BY <2>2 DEF HandInv, Hand, Busy
  <2>4. CASE u = t
    <3>1. runs'[t] = runs[t] + 1 /\ rows'[t].status = "running" /\ runs[t] <= crashes + faults
      BY <1>1, <2>1, <2>2, <2>4, ClaimedRows DEF RunsOf, TypeOK
    <3>2. CASE faults' = faults + 1
      BY <1>1, <2>2, <3>1, <3>2 DEF RunsOf, TypeOK
    <3>3. CASE cur' = [cur EXCEPT ![w] = u] /\ faults' = faults
      <4>1. cur'[w] = t
        BY <1>1, <2>4, <3>3 DEF TypeOK
      <4>2. InHand(t)'
        BY <4>1 DEF InHand
      <4> QED
        BY <1>1, <2>2, <3>1, <3>3, <4>2 DEF RunsOf, TypeOK
    <3> QED
      BY <2>1, <3>2, <3>3
  <2>5. CASE u # t
    <3>1. runs'[t] = runs[t] /\ rows'[t] = rows[t]
      BY <1>1, <2>1, <2>2, <2>5, ClaimedRows DEF TypeOK
    <3>2. InHand(t) => InHand(t)'
      BY <1>1, <2>1, <2>3 DEF InHand, TypeOK
    <3> QED
      BY <1>2, <2>1, <2>2, <3>1, <3>2
  <2> QED
    BY <2>4, <2>5
<1>8. ASSUME NEW w \in Workers,
             Generate(w) \/ Publish(w) \/ GenerationFails(w) \/ BillFails(w)
      PROVE  RunsOf(t)'
  BY <1>2, <1>8 DEF Generate, Publish, GenerationFails, BillFails, Billed, InHand
<1>9. ASSUME NEW w \in Workers, MarkSucceeded(w) \/ MarkSucceededFails(w) PROVE RunsOf(t)'
  <2>1. cur[w] \in Tasks /\ media[w] \in Nat /\ cur' = cur /\ runs' = runs /\ crashes' = crashes
    BY <1>1, <1>9 DEF MarkSucceeded, MarkSucceededFails, HandInv, Hand, Busy, TypeOK
  <2>2. rows'[t] = rows[t] \/ (t = cur[w] /\ rows'[t].status = "succeeded")
    BY <1>1, <1>9, <2>1, SucceededRows DEF MarkSucceeded, MarkSucceededFails, TypeOK
  <2>3. faults' \in {faults, faults + 1}
    BY <1>9 DEF MarkSucceeded, MarkSucceededFails
  <2> QED
    BY <1>1, <1>2, <2>1, <2>2, <2>3 DEF RunsOf, InHand, TypeOK
<1>10. ASSUME NEW w \in Workers, Bill(w) \/ MarkFailed(w) \/ MarkFailedFails(w)
       PROVE  RunsOf(t)'
  <2>1. /\ cur[w] \in Tasks /\ cur' = [cur EXCEPT ![w] = NoTask] /\ runs' = runs
        /\ crashes' = crashes /\ faults' \in {faults, faults + 1}
    BY <1>10 DEF Bill, MarkFailed, MarkFailedFails, Billed, HandInv, Hand, Busy
  <2>2. CASE t = cur[w]
    <3>1. faults' = faults + 1 \/ rows'[t].status \in {"succeeded", "failed"}
      BY <1>1, <1>10, <2>1, <2>2, FailedRows
         DEF Bill, MarkFailed, MarkFailedFails, HandInv, Hand, TypeOK
    <3>2. rows'[t] = rows[t] \/ rows'[t].status = "failed"
      BY <1>1, <1>10, <2>1, <2>2, FailedRows DEF Bill, MarkFailed, MarkFailedFails, TypeOK
    <3> QED
      BY <1>1, <2>1, <3>1, <3>2 DEF RunsOf, TypeOK
  <2>3. CASE t # cur[w]
    <3>1. rows'[t] = rows[t]
      BY <1>1, <1>10, <2>1, <2>3, FailedRows DEF Bill, MarkFailed, MarkFailedFails, TypeOK
    <3>2. InHand(t) => InHand(t)'
      BY <1>1, <2>1, <2>3 DEF InHand, TypeOK
    <3> QED
      BY <1>2, <2>1, <3>1, <3>2
  <2> QED
    BY <2>2, <2>3
<1>11. CASE UNCHANGED vars
  BY <1>1, <1>11 DEF vars, RunsOf, InHand
<1> QED
  BY <1>3, <1>4, <1>5, <1>6, <1>7, <1>8, <1>9, <1>10, <1>11 DEF Steps, StoreFault

-----------------------------------------------------------------------------
(* Every step of Worker is one of these: what is stale is in nobody's hands, *)
(* and what is claimable is queued.                                          *)
LEMMA NextSteps == ASSUME TypeOK, HandInv, [Next]_vars PROVE [Steps]_vars
<1>1. ASSUME NEW w \in Workers, Start(w) PROVE PutsBack(StaleRunning(StaleCutoff))
  <2>1. \A t \in StaleRunning(StaleCutoff) : ~ InHand(t)
    BY StaleNotInHand DEF InHand
  <2> QED
    BY <1>1, <2>1 DEF Start, PutsBack, StaleRunning
<1>2. ASSUME NEW w \in Workers, ClaimNext(w) PROVE \E t \in Tasks : Takes(w, t)
  BY <1>2 DEF ClaimNext, Claimable, With, Takes
<1> QED
  BY <1>1, <1>2, StaleTasks DEF Next, Steps, Work

LEMMA InvInit == Init => Inv
<1> SUFFICES ASSUME Init PROVE Inv
  OBVIOUS
<1>1. TypeOK
  BY TypeInit
<1>2. \A t \in Tasks : rows[t].status = "absent"
  BY DEF Init, StoreInit, NoRow
<1>3. HandInv /\ SingleExecutor
  BY NoTaskOutside DEF Init, HandInv, Hand, SingleExecutor, Busy
<1>4. ChargeInv /\ RunsInv
  BY <1>2 DEF Init, ChargeInv, Account, Due, RunsInv, RunsOf
<1> QED
  BY <1>1, <1>3, <1>4 DEF Inv

LEMMA InvStep == Inv /\ [Steps]_vars => Inv'
BY TypeNext, HandNext, SingleNext, ChargeNext, RunsNext DEF Inv

(* The inductive invariant holds in every reachable state.                   *)
LEMMA Invariance == Spec => []Inv
<1>1. Inv /\ [Next]_vars => [Steps]_vars
  BY NextSteps DEF Inv
<1> QED
  BY <1>1, InvInit, InvStep, PTL DEF Spec

(* Every variable keeps its type: Worker's TypeOK.                           *)
THEOREM TypeCorrect == Spec => []TypeOK
BY Invariance, PTL DEF Inv

(* No task is ever in the hands of two live workers, whatever crashes, store *)
(* faults and restarts there are, as long as the requeue cutoff covers the   *)
(* generation budget (worker.py: we only requeue rows stuck far longer than  *)
(* any real generation).                                                     *)
THEOREM OneExecutorPerTask == Spec => []SingleExecutor
BY Invariance, PTL DEF Inv

LEMMA KindNext == TypeOK /\ NoStolenKind /\ [Next]_vars => NoStolenKind'
<1> SUFFICES ASSUME TypeOK, NoStolenKind, [Next]_vars PROVE NoStolenKind'
  OBVIOUS
<1> USE NoTaskOutside DEF TypeOK, Goto, Release, wvars, history, NoStolenKind
<1>1. ASSUME NEW w \in Workers, ClaimNext(w) PROVE NoStolenKind'
  <2>1. PICK t \in Tasks : KindOf(t) = WorkerKind[w] /\ cur' = [cur EXCEPT ![w] = t]
    BY <1>1 DEF ClaimNext, Claimable, With
  <2> QED
    BY <2>1
<1>2. CASE \E w \in Workers : cur' = [cur EXCEPT ![w] = NoTask]
  BY <1>2
<1>3. CASE UNCHANGED cur
  BY <1>3
<1> QED
  BY <1>1, <1>2, <1>3
     DEF Next, Work, StoreFault, vars, Enqueue, Tick, Start, Crash, ClaimLost, Generate,
         Publish, GenerationFails, MarkSucceeded, MarkSucceededFails, Bill, BillFails,
         MarkFailed, MarkFailedFails

(* The kinds' queues are drained apart: claim_next's kind filter alone keeps a *)
(* worker off the other GPU's tasks, through every crash and lost answer.      *)
THEOREM KindsApart == Spec => []NoStolenKind
<1>1. Init => NoStolenKind
  BY DEF Init, NoStolenKind
<1>2. Inv => TypeOK
  BY DEF Inv
<1> QED
  BY <1>1, <1>2, KindNext, Invariance, PTL DEF Spec

(* However often a task is run, its owner is charged at most once, and only  *)
(* for a task whose media was recorded.                                      *)
THEOREM AtMostOneCharge == Spec => []ChargedOnce
<1>1. Inv => ChargedOnce
  BY DEF Inv, ChargeInv, Account, ChargedOnce
<1> QED
  BY <1>1, Invariance, PTL

(* A generation is repeated only at the cost of a crash or a lost answer.    *)
THEOREM NoIdleRerun == Spec => []RerunsNeedTrouble
<1>1. Inv => RerunsNeedTrouble
  BY DEF Inv, RunsInv, RunsOf, RerunsNeedTrouble
<1> QED
  BY <1>1, Invariance, PTL

(* created_at is written once.                                               *)
LEMMA CreatedKept ==
  ASSUME rows \in [Tasks -> Rows], NEW t \in Tasks, NEW n, NEW S \in SUBSET Tasks
  PROVE  \A u \in Tasks : /\ Claimed(t)[u].created = rows[u].created
                          /\ Succeeded(t, n)[u].created = rows[u].created
                          /\ Failed(t)[u].created = rows[u].created
                          /\ Requeued(S)[u].created = rows[u].created
<1> TAKE u \in Tasks
<1> DEFINE r == rows[u]
<1>1. r = rows[u] /\ r \in Rows
  OBVIOUS
<1> HIDE DEF r
<1>2. /\ [r EXCEPT !.status = "running", !.updated = now].created = r.created
      /\ [r EXCEPT !.status = "succeeded", !.refs = n, !.updated = now].created = r.created
      /\ [r EXCEPT !.status = "failed", !.updated = now].created = r.created
      /\ [r EXCEPT !.status = "queued", !.updated = now].created = r.created
  BY <1>1 DEF Rows
<1>3. Claimed(t)[u] = IF u = t THEN [r EXCEPT !.status = "running", !.updated = now] ELSE r
  BY <1>1 DEF Claimed
<1>4. Succeeded(t, n)[u]
        = IF u = t THEN [r EXCEPT !.status = "succeeded", !.refs = n, !.updated = now] ELSE r
  BY <1>1 DEF Succeeded
<1>5. Failed(t)[u] = IF u = t THEN [r EXCEPT !.status = "failed", !.updated = now] ELSE r
  BY <1>1 DEF Failed
<1>6. Requeued(S)[u] = IF u \in S THEN [r EXCEPT !.status = "queued", !.updated = now] ELSE r
  BY <1>1 DEF Requeued
<1>7. Claimed(t)[u].created = r.created
  BY <1>2, <1>3
<1>8. Succeeded(t, n)[u].created = r.created
  BY <1>2, <1>4
<1>9. Failed(t)[u].created = r.created
  BY <1>2, <1>5
<1>10. Requeued(S)[u].created = r.created
  BY <1>2, <1>6
<1> QED
  BY <1>1, <1>7, <1>8, <1>9, <1>10

(* No row is from the future, and what is past queued has been claimed.      *)
Begun ==
  \A t \in Tasks : /\ rows[t].created <= now
                   /\ rows[t].status \notin {"absent", "queued"} => runs[t] > 0

LEMMA OldestNext == Inv /\ Begun /\ OldestFirst /\ [Next]_vars => Begun' /\ OldestFirst'
<1> SUFFICES ASSUME Inv, Begun, OldestFirst, [Next]_vars PROVE Begun' /\ OldestFirst'
  OBVIOUS
<1> USE DEF Goto, Release, Fault, wvars, history
<1>1. TypeOK /\ HandInv /\ RunsInv
  BY DEF Inv
(* Only the first claim of a task changes anything: to be put back, or to    *)
(* get a verdict, a task must have had it.                                   *)
<1>2. ASSUME runs' = runs, now' \in {now, now + 1},
             \A t \in Tasks : /\ rows'[t].created = rows[t].created
                              /\ rows'[t].status = rows[t].status \/ runs[t] > 0
      PROVE  Begun' /\ OldestFirst'
  <2>1. Begun'
    BY <1>1, <1>2 DEF Begun, TypeOK, Rows
  <2>2. OldestFirst'
    BY <1>2 DEF OldestFirst
  <2> QED
    BY <2>1, <2>2
<1>3. ASSUME NEW t \in Tasks, NEW k \in Keys, NEW d \in Durations \cup {0}, Enqueue(t, k, d)
      PROVE  Begun' /\ OldestFirst'
  <2>1. /\ rows'[t].status = "queued" /\ rows'[t].created = now /\ runs[t] = 0
        /\ \A u \in Tasks : u # t => rows'[u] = rows[u]
    BY <1>1, <1>3, EnqueuedRows DEF Enqueue, Enqueued, RunsInv, RunsOf, TypeOK
  <2>2. \A u \in Tasks : rows[u].created \in Nat /\ now \in Nat
    BY <1>1 DEF TypeOK, Rows
  <2>3. Begun'
    BY <1>3, <2>1, <2>2 DEF Enqueue, Begun
  <2>4. OldestFirst'
    BY <1>3, <2>1, <2>2 DEF Enqueue, OldestFirst, Begun
  <2> QED
    BY <2>3, <2>4
<1>4. ASSUME NEW w \in Workers, ClaimNext(w) \/ ClaimLost(w) PROVE Begun' /\ OldestFirst'
  <2>1. PICK u \in Claimable(WorkerKind[w]) :
          rows' = Claimed(u) /\ runs' = [runs EXCEPT ![u] = @ + 1] /\ now' = now
    BY <1>4 DEF ClaimNext, ClaimLost
  <2>2. /\ u \in Tasks
        /\ \A t \in Tasks : rows[t].status = "queued" /\ KindOf(t) = KindOf(u)
                             => rows[u].created <= rows[t].created
    BY <2>1 DEF Claimable, With
  <2>3. /\ rows'[u].status = "running" /\ rows'[u].created = rows[u].created
        /\ \A t \in Tasks : t # u => rows'[t] = rows[t]
    BY <1>1, <2>1, <2>2, ClaimedRows, CreatedKept DEF TypeOK
  <2>4. runs'[u] > 0 /\ \A t \in Tasks : t # u => runs'[t] = runs[t]
    BY <1>1, <2>1, <2>2 DEF TypeOK
  <2>5. \A t \in Tasks : rows[t].created \in Nat
    BY <1>1 DEF TypeOK, Rows
  <2>6. Begun'
    BY <2>1, <2>3, <2>4 DEF Begun
  <2>7. ASSUME NEW t \in Tasks, NEW x \in Tasks, KindOf(t) = KindOf(x), runs'[x] > 0,
               rows'[t].status = "queued", rows'[t].created < rows'[x].created
        PROVE  runs'[t] > 0
    <3>1. t # u /\ rows[t].status = "queued" /\ runs'[t] = runs[t]
          /\ rows[t].created < rows[x].created
      BY <2>3, <2>4, <2>7
    <3>2. x # u
      BY <2>2, <2>5, <2>7, <3>1
    <3> QED
      BY <2>4, <2>7, <3>1, <3>2 DEF OldestFirst
  <2> QED
    BY <2>6, <2>7 DEF OldestFirst
<1>5. ASSUME NEW w \in Workers, Start(w) PROVE Begun' /\ OldestFirst'
  <2>1. rows' = Requeued(StaleRunning(StaleCutoff)) /\ runs' = runs /\ now' = now
    BY <1>5 DEF Start
  <2>2. \A t \in StaleRunning(StaleCutoff) : runs[t] > 0
    BY DEF StaleRunning, With, Begun
  <2>3. ASSUME NEW t \in Tasks
        PROVE  /\ rows'[t].created = rows[t].created
               /\ rows'[t].status = rows[t].status \/ runs[t] > 0
    <3> DEFINE S == StaleRunning(StaleCutoff)
    <3>1. S \in SUBSET Tasks /\ rows \in [Tasks -> Rows] /\ now \in Nat
      BY <1>1, StaleTasks DEF TypeOK
    <3>2. rows' = Requeued(S) /\ (t \in S => runs[t] > 0)
      BY <2>1, <2>2
    <3> HIDE DEF S
    <3>3. rows'[t].created = rows[t].created
      BY <3>1, <3>2, CreatedKept
    <3>4. t \notin S => rows'[t] = rows[t]
      BY <3>1, <3>2, RequeuedRows
    <3> QED
      BY <3>2, <3>3, <3>4
  <2> QED
    BY <1>2, <2>1, <2>3
<1>6. ASSUME NEW w \in Workers,
             \/ MarkSucceeded(w) \/ MarkSucceededFails(w)
             \/ MarkFailed(w) \/ MarkFailedFails(w)
      PROVE  Begun' /\ OldestFirst'
  <2>1. cur[w] \in Tasks /\ rows[cur[w]].status \in {"running", "succeeded"}
    BY <1>1, <1>6 DEF MarkSucceeded, MarkSucceededFails, MarkFailed, MarkFailedFails,
                      HandInv, Hand, Busy
  <2>2. rows' \in {rows, Succeeded(cur[w], media[w]), Failed(cur[w])}
    BY <1>6 DEF MarkSucceeded, MarkSucceededFails, MarkFailed, MarkFailedFails
  <2>3. media[w] \in Nat /\ rows \in [Tasks -> Rows] /\ now \in Nat /\ runs[cur[w]] > 0
    BY <1>1, <2>1 DEF Begun, TypeOK
  <2>4. \A t \in Tasks : rows'[t].created = rows[t].created
    BY <2>1, <2>2, <2>3, CreatedKept
  <2>5. \A t \in Tasks : t # cur[w] => rows'[t] = rows[t]
    BY <2>1, <2>2, <2>3, SucceededRows, FailedRows
  <2> QED
    BY <1>2, <1>6, <2>3, <2>4, <2>5
       DEF MarkSucceeded, MarkSucceededFails, MarkFailed, MarkFailedFails
<1>7. CASE \/ Tick \/ UNCHANGED vars
           \/ \E w \in Workers : \/ Generate(w) \/ Publish(w) \/ GenerationFails(w)
                                 \/ Bill(w) \/ BillFails(w) \/ Crash(w)
  BY <1>2, <1>7
     DEF Tick, vars, Generate, Publish, GenerationFails, Bill, BillFails, Billed, Crash
<1> QED
  BY <1>3, <1>4, <1>5, <1>6, <1>7 DEF Next, Work, StoreFault

(* Within a kind, tasks are claimed for the first time in the order they were *)
(* enqueued in, requeues and lost claims notwithstanding.                    *)
THEOREM OldestIsFirst == Spec => []OldestFirst
<1>1. Init => Begun /\ OldestFirst
  BY DEF Init, StoreInit, NoRow, Begun, OldestFirst
<1> QED
  BY <1>1, OldestNext, Invariance, PTL DEF Spec

(* A step that adds a task to those given away counts some trouble, and adds *)
(* no more than that one.                                                    *)
LEMMA GivenAwayNext ==
  ASSUME Inv, [Next]_vars
  PROVE  \/ GivenAway' \subseteq GivenAway /\ crashes' + faults' >= crashes + faults
         \/ /\ \E x : GivenAway' \subseteq GivenAway \cup {x}
            /\ crashes' + faults' = crashes + faults + 1
<1> USE DEF Goto, Release, Fault, wvars, history, GivenAway, With
<1>1. TypeOK /\ HandInv
  BY DEF Inv
<1>2. crashes \in Nat /\ faults \in Nat
  BY <1>1 DEF TypeOK
(* A task that is given away was not in hand, or is the one let go of.       *)
<1>3. ASSUME NEW x,
             \A t \in Tasks : /\ rows'[t].status = "succeeded" => rows[t].status = "succeeded"
                                  \/ InHand(t)'
                              /\ charges'[t] = 0 => charges[t] = 0
                              /\ t # x /\ InHand(t) => InHand(t)'
      PROVE  GivenAway' \subseteq GivenAway \cup {x}
  BY <1>3
<1>4. ASSUME rows' = rows \/ (\A t \in Tasks : rows'[t].status = "succeeded" => rows'[t] = rows[t]),
             charges' = charges, \A t \in Tasks : InHand(t) => InHand(t)'
      PROVE  GivenAway' \subseteq GivenAway
  BY <1>4
<1>5. ASSUME NEW t \in Tasks, NEW k \in Keys, NEW d \in Durations \cup {0}, Enqueue(t, k, d)
      PROVE  GivenAway' \subseteq GivenAway
  <2>1. \A u \in Tasks : rows'[u].status = "succeeded" => rows'[u] = rows[u]
    BY <1>1, <1>5, EnqueuedRows DEF Enqueue, TypeOK
  <2> QED
    BY <1>4, <1>5, <2>1 DEF Enqueue, InHand
<1>6. ASSUME NEW w \in Workers, Start(w) PROVE GivenAway' \subseteq GivenAway
  <2>1. rows' = Requeued(StaleRunning(StaleCutoff)) /\ charges' = charges /\ cur' = cur
    BY <1>6 DEF Start
  <2>2. \A u \in Tasks : rows'[u].status = "succeeded" => rows'[u] = rows[u]
    BY <1>1, <2>1, StaleTasks, RequeuedRows DEF TypeOK
  <2> QED
    BY <1>4, <2>1, <2>2 DEF InHand
<1>7. ASSUME NEW w \in Workers, ClaimNext(w) \/ ClaimLost(w) PROVE GivenAway' \subseteq GivenAway
  <2>1. PICK u \in Tasks : rows' = Claimed(u)
    BY <1>7 DEF ClaimNext, ClaimLost, Claimable
  <2>2. \A x \in Tasks : rows'[x].status = "succeeded" => rows'[x] = rows[x]
    BY <1>1, <2>1, ClaimedRows DEF TypeOK
  <2>3. cur[w] \notin Tasks /\ charges' = charges
    BY <1>1, <1>7 DEF HandInv, Hand, Busy, ClaimNext, ClaimLost
  <2>4. \A t \in Tasks : InHand(t) => InHand(t)'
    BY <1>1, <1>7, <2>3 DEF InHand, ClaimNext, ClaimLost, TypeOK
  <2> QED
    BY <1>4, <2>2, <2>3, <2>4
<1>8. ASSUME NEW w \in Workers, MarkSucceeded(w) \/ MarkSucceededFails(w)
      PROVE  GivenAway' \subseteq GivenAway
  <2>1. cur[w] \in Tasks /\ media[w] \in Nat /\ cur' = cur /\ charges' = charges
    BY <1>1, <1>8 DEF MarkSucceeded, MarkSucceededFails, HandInv, Hand, Busy, TypeOK
  <2>2. \A t \in Tasks : t # cur[w] => rows'[t] = rows[t]
    BY <1>1, <1>8, <2>1, SucceededRows DEF MarkSucceeded, MarkSucceededFails, TypeOK
  <2>3. InHand(cur[w])'
    BY <2>1 DEF InHand
  <2> QED
    BY <2>1, <2>2, <2>3 DEF InHand
<1>9. ASSUME NEW w \in Workers, Billed(w) \/ UNCHANGED charges, cur[w] \in Tasks
      PROVE  \A t \in Tasks : /\ charges'[t] = 0 => charges[t] = 0
                              /\ t # cur[w] => charges'[t] = charges[t]
                              /\ Billed(w) => charges'[cur[w]] # 0
  BY <1>1, <1>9 DEF Billed, TypeOK
<1>10. ASSUME NEW w \in Workers, Bill(w) PROVE GivenAway' \subseteq GivenAway
  <2>1. cur[w] \in Tasks /\ rows' = rows /\ Billed(w) /\ cur' = [cur EXCEPT ![w] = NoTask]
    BY <1>1, <1>10 DEF Bill, HandInv, Hand, Busy
  <2>2. \A t \in Tasks : t # cur[w] /\ InHand(t) => InHand(t)'
    BY <1>1, <2>1 DEF InHand, TypeOK
  <2>3. GivenAway' \subseteq GivenAway \cup {cur[w]}
    BY <1>3, <1>9, <2>1, <2>2
  <2>4. cur[w] \notin GivenAway'
    BY <1>9, <2>1
  <2> QED
    BY <2>3, <2>4
<1>11. ASSUME NEW w \in Workers, BillFails(w) PROVE GivenAway' \subseteq GivenAway
  <2>1. cur[w] \in Tasks /\ rows' = rows /\ cur' = cur /\ (Billed(w) \/ UNCHANGED charges)
    BY <1>1, <1>11 DEF BillFails, HandInv, Hand, Busy
  <2> QED
    BY <1>9, <2>1 DEF InHand
<1>12. ASSUME NEW w \in Workers, MarkFailed(w) \/ MarkFailedFails(w)
       PROVE  /\ cur[w] \in Tasks /\ GivenAway' \subseteq GivenAway \cup {cur[w]}
              /\ rows' = Failed(cur[w]) => GivenAway' \subseteq GivenAway
  <2>1. /\ cur[w] \in Tasks /\ charges' = charges /\ cur' = [cur EXCEPT ![w] = NoTask]
        /\ rows' \in {rows, Failed(cur[w])}
    BY <1>1, <1>12 DEF MarkFailed, MarkFailedFails, HandInv, Hand, Busy
  <2>2. \A t \in Tasks : t # cur[w] /\ InHand(t) => InHand(t)'
    BY <1>1, <2>1 DEF InHand, TypeOK
  <2>3. /\ \A t \in Tasks : rows'[t].status = "succeeded" => rows'[t] = rows[t]
        /\ rows' = Failed(cur[w]) => rows'[cur[w]].status = "failed"
    BY <1>1, <2>1, FailedRows DEF TypeOK
  <2>4. GivenAway' \subseteq GivenAway \cup {cur[w]}
    BY <1>3, <2>1, <2>2, <2>3
  <2>5. rows' = Failed(cur[w]) => cur[w] \notin GivenAway'
    BY <2>3
  <2> QED
    BY <2>1, <2>4, <2>5
<1>13. ASSUME NEW w \in Workers, Crash(w) PROVE GivenAway' \subseteq GivenAway \cup {cur[w]}
  <2>1. rows' = rows /\ charges' = charges /\ cur' = [cur EXCEPT ![w] = NoTask]
    BY <1>13 DEF Crash
  <2>2. \A t \in Tasks : t # cur[w] /\ InHand(t) => InHand(t)'
    BY <1>1, <2>1 DEF InHand, TypeOK
  <2> QED
    BY <1>3, <2>1, <2>2
<1>14. CASE \/ Tick \/ UNCHANGED vars
            \/ \E w \in Workers : Generate(w) \/ Publish(w) \/ GenerationFails(w)
  <2>1. UNCHANGED <<rows, charges, cur, crashes, faults>>
    BY <1>14 DEF Tick, vars, Generate, Publish, GenerationFails
  <2> QED
    BY <1>2, <2>1 DEF InHand
<1>15. CASE \/ \E t \in Tasks, k \in Keys, d \in Durations \cup {0} : Enqueue(t, k, d)
            \/ \E w \in Workers :
                 \/ Start(w) \/ ClaimNext(w) \/ ClaimLost(w) \/ Bill(w)
                 \/ MarkSucceeded(w) \/ MarkSucceededFails(w) \/ BillFails(w)
  <2>1. GivenAway' \subseteq GivenAway
    BY <1>5, <1>6, <1>7, <1>8, <1>10, <1>11, <1>15
  <2>2. crashes' = crashes /\ faults' \in {faults, faults + 1}
    BY <1>15
       DEF Enqueue, Start, ClaimNext, ClaimLost, Bill, MarkSucceeded, MarkSucceededFails, BillFails
  <2> QED
    BY <1>2, <2>1, <2>2
<1>16. ASSUME NEW w \in Workers, MarkFailed(w) PROVE GivenAway' \subseteq GivenAway /\ UNCHANGED <<crashes, faults>>
  BY <1>12, <1>16 DEF MarkFailed
<1>17. ASSUME NEW w \in Workers, MarkFailedFails(w) \/ Crash(w)
       PROVE  GivenAway' \subseteq GivenAway \cup {cur[w]} /\ crashes' + faults' = crashes + faults + 1
  BY <1>2, <1>12, <1>13, <1>17 DEF MarkFailedFails, Crash
<1> QED
  BY <1>2, <1>14, <1>15, <1>16, <1>17 DEF Next, Work, StoreFault

LEMMA NoMoreThan ==
  ASSUME NEW S, NEW T, NEW m \in Nat, NEW n \in Nat, IsFiniteSet(S), Cardinality(S) <= m,
         (T \subseteq S /\ n >= m) \/ ((\E x : T \subseteq S \cup {x}) /\ n = m + 1)
  PROVE  IsFiniteSet(T) /\ Cardinality(T) <= n
<1>1. CASE T \subseteq S /\ n >= m
  <2>1. IsFiniteSet(T) /\ Cardinality(T) <= Cardinality(S)
    BY <1>1, FS_Subset
  <2> QED
    BY <1>1, <2>1, FS_CardinalityType
<1>2. CASE (\E x : T \subseteq S \cup {x}) /\ n = m + 1
  <2>1. PICK x : T \subseteq S \cup {x}
    BY <1>2
  <2>2. /\ IsFiniteSet(S \cup {x})
        /\ Cardinality(S \cup {x}) = IF x \in S THEN Cardinality(S) ELSE Cardinality(S) + 1
    BY FS_AddElement
  <2>3. IsFiniteSet(T) /\ Cardinality(T) <= Cardinality(S \cup {x})
    BY <2>1, <2>2, FS_Subset
  <2>4. Cardinality(S) \in Nat /\ Cardinality(T) \in Nat /\ Cardinality(S \cup {x}) <= n
    BY <1>2, <2>2, <2>3, FS_CardinalityType
  <2> QED
    BY <2>2, <2>3, <2>4, FS_CardinalityType
<1> QED
  BY <1>1, <1>2

(* A success goes unbilled only for a crash or a failed store call, and at   *)
(* most one for each, although verdict and charge are kept in two stores.    *)
THEOREM GivenAwayForTrouble == Spec => []FewGivenAway
<1>1. Init => IsFiniteSet(GivenAway) /\ FewGivenAway
  <2> SUFFICES ASSUME Init PROVE IsFiniteSet(GivenAway) /\ FewGivenAway
    OBVIOUS
  <2>1. GivenAway = {} /\ crashes = 0 /\ faults = 0
    BY DEF Init, StoreInit, NoRow, GivenAway, With
  <2> QED
    BY <2>1, FS_EmptySet DEF FewGivenAway
<1>2. Inv /\ IsFiniteSet(GivenAway) /\ FewGivenAway /\ [Next]_vars
        => IsFiniteSet(GivenAway)' /\ FewGivenAway'
  <2> SUFFICES ASSUME Inv, IsFiniteSet(GivenAway), FewGivenAway, [Next]_vars
               PROVE  IsFiniteSet(GivenAway') /\ Cardinality(GivenAway') <= crashes' + faults'
    BY DEF FewGivenAway
  <2> DEFINE S == GivenAway  T == GivenAway'  m == crashes + faults  n == crashes' + faults'
  <2>1. m \in Nat /\ n \in Nat
    BY NextSteps, InvStep DEF Inv, TypeOK
  <2>2. IsFiniteSet(S) /\ Cardinality(S) <= m
    BY DEF FewGivenAway
  <2>3. (T \subseteq S /\ n >= m) \/ ((\E x : T \subseteq S \cup {x}) /\ n = m + 1)
    BY GivenAwayNext
  <2> HIDE DEF S, T, m, n
  <2>4. IsFiniteSet(T) /\ Cardinality(T) <= n
    BY <2>1, <2>2, <2>3, NoMoreThan
  <2> QED
    BY <2>4 DEF T, n
<1> QED
  BY <1>1, <1>2, Invariance, PTL DEF Spec

LEMMA OnlyOrphansGoBack ==
  ASSUME Inv, [Steps]_vars, NEW t \in Tasks, rows[t].status = "running", rows'[t].status = "queued"
  PROVE  ~ InHand(t)
<1>1. TypeOK /\ HandInv /\ rows' # rows
  BY DEF Inv
<1>2. ASSUME NEW u \in Tasks, NEW k \in Keys, NEW d \in Durations \cup {0}, Enqueue(u, k, d)
      PROVE  FALSE
  BY <1>1, <1>2, EnqueuedRows DEF Enqueue, TypeOK
<1>3. ASSUME NEW S \in SUBSET Tasks, PutsBack(S) PROVE ~ InHand(t)
  BY <1>1, <1>3, RequeuedRows DEF PutsBack, TypeOK
<1>4. ASSUME NEW w \in Workers, (\E u \in Tasks : Takes(w, u)) \/ ClaimLost(w) PROVE FALSE
  <2>1. PICK u \in Tasks : rows' = Claimed(u)
    BY <1>4 DEF Takes, ClaimLost, Claimable, With
  <2> QED
    BY <1>1, <2>1, ClaimedRows DEF TypeOK
<1>5. ASSUME NEW w \in Workers,
             \/ MarkSucceeded(w) \/ MarkSucceededFails(w)
             \/ MarkFailed(w) \/ MarkFailedFails(w)
      PROVE FALSE
  <2>1. cur[w] \in Tasks /\ media[w] \in Nat
    BY <1>1, <1>5 DEF MarkSucceeded, MarkSucceededFails, MarkFailed, MarkFailedFails,
                      HandInv, Hand, Busy, TypeOK
  <2>2. rows'[t] = rows[t] \/ rows'[t].status \in {"succeeded", "failed"}
    BY <1>1, <1>5, <2>1, SucceededRows, FailedRows
       DEF MarkSucceeded, MarkSucceededFails, MarkFailed, MarkFailedFails, TypeOK
  <2> QED
    BY <2>2
<1> QED
  BY <1>1, <1>2, <1>3, <1>4, <1>5
     DEF Steps, StoreFault, Tick, Crash, Generate, Publish, GenerationFails, Bill, BillFails, vars

(* Requeueing never takes a task out of a live worker's hands.               *)
THEOREM RequeueTakesOrphans == Spec => NeverYanked
<1>1. Inv /\ [Next]_vars
        => [\A t \in Tasks : rows[t].status = "running" /\ rows'[t].status = "queued"
              => ~ InHand(t)]_vars
  BY NextSteps, OnlyOrphansGoBack DEF Inv
<1> QED
  BY <1>1, Invariance, PTL DEF Spec, NeverYanked

LEMMA VerdictKept ==
  ASSUME Inv, [Steps]_vars, faults = 0, NEW t \in Tasks, rows[t].status \in Terminal
  PROVE  rows'[t] = rows[t]
<1>1. TypeOK /\ HandInv
  BY DEF Inv
<1>2. ASSUME NEW u \in Tasks, NEW k \in Keys, NEW d \in Durations \cup {0}, Enqueue(u, k, d)
      PROVE  rows'[t] = rows[t]
  BY <1>1, <1>2, EnqueuedRows DEF Enqueue, TypeOK, Terminal
<1>3. ASSUME NEW S \in SUBSET Tasks, PutsBack(S) PROVE rows'[t] = rows[t]
  BY <1>1, <1>3, RequeuedRows DEF PutsBack, With, Terminal, TypeOK
<1>4. ASSUME NEW w \in Workers, (\E u \in Tasks : Takes(w, u)) \/ ClaimLost(w)
      PROVE  rows'[t] = rows[t]
  <2>1. PICK u \in Tasks : rows' = Claimed(u) /\ rows[u].status = "queued"
    BY <1>4 DEF Takes, ClaimLost, Claimable, With
  <2> QED
    BY <1>1, <2>1, ClaimedRows DEF TypeOK, Terminal
<1>5. ASSUME NEW w \in Workers,
             \/ MarkSucceeded(w) \/ MarkSucceededFails(w)
             \/ MarkFailed(w) \/ MarkFailedFails(w)
      PROVE  rows'[t] = rows[t]
  <2>1. cur[w] \in Tasks /\ media[w] \in Nat /\ rows[cur[w]].status = "running"
    BY <1>1, <1>5 DEF MarkSucceeded, MarkSucceededFails, MarkFailed, MarkFailedFails,
                      HandInv, Hand, Busy, TypeOK
  <2> QED
    BY <1>1, <1>5, <2>1, SucceededRows, FailedRows
       DEF MarkSucceeded, MarkSucceededFails, MarkFailed, MarkFailedFails, TypeOK, Terminal
<1> QED
  BY <1>2, <1>3, <1>4, <1>5
     DEF Steps, StoreFault, Tick, Crash, Generate, Publish, GenerationFails, Bill, BillFails, vars

(* As long as no store call has failed, a verdict once recorded is never     *)
(* changed again, whatever crashes and restarts there are.                   *)
THEOREM VerdictStands == Spec => VerdictIsFinal
<1>1. Inv /\ [Next]_vars
        => [faults = 0 => \A t \in Tasks :
              rows[t].status \in Terminal => rows'[t] = rows[t]]_vars
  BY NextSteps, VerdictKept DEF Inv
<1> QED
  BY <1>1, Invariance, PTL DEF Spec, VerdictIsFinal

-----------------------------------------------------------------------------
(* Sums over a finite set.  The induction is over the size of its subsets,   *)
(* the property being the set of the sizes that have it.                     *)
LEMMA LeastNat ==
  ASSUME NEW T \in SUBSET Nat, T # {}
  PROVE  \E m \in T : \A k \in T : ~ (k < m)
<1>1. \E m \in T : \A k \in T : <<k, m>> \notin OpToRel(<, Nat)
  BY NatLessThanWellFounded, WFMin
<1>2. \A k, m \in Nat : k < m => <<k, m>> \in OpToRel(<, Nat)
  BY DEF OpToRel
<1> QED
  BY <1>1, <1>2, Zenon

LEMMA Climb ==
  ASSUME NEW N \in Nat, NEW G, 0 \in G, \A n \in 1..N : n - 1 \in G => n \in G
  PROVE  0..N \subseteq G
<1> DEFINE T == (0..N) \ G
<1>1. SUFFICES ASSUME T # {} PROVE FALSE
  OBVIOUS
<1>2. T \in SUBSET Nat
  OBVIOUS
<1>3. PICK m \in T : \A k \in T : ~ (k < m)
  BY <1>1, <1>2, LeastNat
<1>4. m \in 1..N /\ m - 1 \in 0..N /\ m \notin G
  BY <1>3
<1> QED
  BY <1>3, <1>4

(* A sum goes through a set in the order CHOOSE picks its elements.          *)
One(s) == CHOOSE x \in s : TRUE
Part(f, s, sum) == IF s = {} THEN 0 ELSE f[One(s)] + sum[s \ {One(s)}]
Adds(f, sum) ==
  SumFunction(f) = sum[DOMAIN f] /\ \A s \in SUBSET DOMAIN f : sum[s] = Part(f, s, sum)

LEMMA Smaller ==
  ASSUME NEW s, s # {}, IsFiniteSet(s)
  PROVE  /\ One(s) \in s /\ IsFiniteSet(s \ {One(s)})
         /\ Cardinality(s) \in Nat \ {0} /\ Cardinality(s \ {One(s)}) = Cardinality(s) - 1
<1>1. One(s) \in s
  BY DEF One
<1>2. Cardinality(s) \in Nat /\ Cardinality(s) # 0
  BY FS_CardinalityType, FS_EmptySet
<1>3. IsFiniteSet(s \ {One(s)}) /\ Cardinality(s \ {One(s)}) = Cardinality(s) - 1
  BY <1>1, FS_RemoveElement
<1> QED
  BY <1>1, <1>2, <1>3

LEMMA SumRuns ==
  ASSUME NEW S, IsFiniteSet(S), NEW f, DOMAIN f = S
  PROVE  \E sum : Adds(f, sum)
<1> DEFINE UpTo(n) == {s \in SUBSET S : Cardinality(s) <= n}
           Runs(sum, n) == [s \in UpTo(n) |-> Part(f, s, sum)]
           Good(n) == \E sum : sum = Runs(sum, n)
           N == Cardinality(S)
<1>1. N \in Nat /\ \A s \in SUBSET S : IsFiniteSet(s) /\ Cardinality(s) \in Nat /\ Cardinality(s) <= N
  BY FS_CardinalityType, FS_Subset
<1>2. Good(0)
  <2> DEFINE sum == [s \in UpTo(0) |-> 0]
  <2>1. \A s \in UpTo(0) : s = {}
    BY <1>1, FS_EmptySet
  <2>2. sum = Runs(sum, 0)
    BY <2>1 DEF Part
  <2> QED
    BY <2>2
<1>3. ASSUME NEW n \in 1..N, Good(n - 1) PROVE Good(n)
  <2>1. PICK old : old = Runs(old, n - 1)
    BY <1>3
  <2> DEFINE sum == [s \in UpTo(n) |-> Part(f, s, old)]
  <2>2. ASSUME NEW s \in UpTo(n) PROVE sum[s] = Part(f, s, sum)
    <3>1. CASE s = {}
      BY <3>1 DEF Part
    <3>2. CASE s # {}
      <4> DEFINE r == s \ {One(s)}
      <4>1. r \in UpTo(n - 1) /\ r \in UpTo(n)
        BY <1>1, <3>2, Smaller
      <4>2. old[r] = Part(f, r, old)
        BY <2>1, <4>1
      <4>3. sum[r] = old[r]
        BY <4>1, <4>2
      <4> QED
        BY <3>2, <4>3 DEF Part
    <3> QED
      BY <3>1, <3>2
  <2>3. sum = Runs(sum, n)
    BY <2>2
  <2> QED
    BY <2>3
<1>4. Good(N)
  <2> DEFINE G == {n \in 0..N : Good(n)}
  <2> HIDE DEF Good, N
  <2>1. 0 \in G /\ \A n \in 1..N : n - 1 \in G => n \in G
    BY <1>1, <1>2, <1>3
  <2> HIDE DEF G
  <2>2. 0..N \subseteq G
    BY <1>1, <2>1, Climb
  <2>3. N \in G
    BY <1>1, <2>2
  <2> QED
    BY <2>3 DEF G
<1>5. UpTo(N) = SUBSET S
  BY <1>1
<1> DEFINE sum == CHOOSE sum : sum = [s \in SUBSET (DOMAIN f) |-> Part(f, s, sum)]
<1>6. sum = [s \in SUBSET (DOMAIN f) |-> Part(f, s, sum)]
  BY <1>4, <1>5
<1>7. SumFunction(f) = sum[S]
  BY DEF SumFunction, SumFunctionOnSet, FoldFunctionOnSet, MapThenFoldSet, Part, One
<1> HIDE DEF sum
<1>8. \A s \in SUBSET S : sum[s] = Part(f, s, sum)
  BY <1>6
<1> QED
  BY <1>7, <1>8 DEF Adds

(* Only what is added to one element is added to the sum.                    *)
LEMMA SumMoves ==
  ASSUME NEW S, IsFiniteSet(S), NEW f \in [S -> Int], NEW g \in [S -> Int], NEW x \in S,
         \A y \in S : y # x => g[y] = f[y]
  PROVE  SumFunction(f) \in Int /\ SumFunction(g) = SumFunction(f) + (g[x] - f[x])
<1>1. DOMAIN f = S /\ DOMAIN g = S
  OBVIOUS
<1>2. (\E a : Adds(f, a)) /\ \E b : Adds(g, b)
  BY <1>1, SumRuns
<1>3. PICK a : SumFunction(f) = a[S] /\ \A s \in SUBSET S : a[s] = Part(f, s, a)
  BY <1>1, <1>2 DEF Adds
<1>4. PICK b : SumFunction(g) = b[S] /\ \A s \in SUBSET S : b[s] = Part(g, s, b)
  BY <1>1, <1>2 DEF Adds
<1> DEFINE Good(s) == a[s] \in Int /\ b[s] = a[s] + (IF x \in s THEN g[x] - f[x] ELSE 0)
           N == Cardinality(S)
           G == {n \in 0..N : \A s \in SUBSET S : Cardinality(s) = n => Good(s)}
<1>5. N \in Nat /\ \A s \in SUBSET S : IsFiniteSet(s)
  BY FS_CardinalityType, FS_Subset
<1>6. 0 \in G
  <2>1. \A s \in SUBSET S : Cardinality(s) = 0 => s = {}
    BY <1>5, FS_EmptySet
  <2>2. Good({})
    <3>1. a[{}] = 0 /\ b[{}] = 0
      BY <1>3, <1>4 DEF Part
    <3> QED
      BY <3>1
  <2> QED
    BY <1>5, <2>1, <2>2
<1>7. ASSUME NEW n \in 1..N, n - 1 \in G PROVE n \in G
  <2>1. ASSUME NEW s \in SUBSET S, Cardinality(s) = n PROVE Good(s)
    <3> DEFINE y == One(s)  r == s \ {y}
    <3>1. s # {}
      BY <2>1, FS_EmptySet
    <3>2. y \in s /\ Cardinality(r) = n - 1 /\ r \in SUBSET S
      BY <1>5, <2>1, <3>1, Smaller
    <3>3. Good(r)
      BY <1>7, <3>2
    <3>4. a[s] = f[y] + a[r] /\ b[s] = g[y] + b[r]
      BY <1>3, <1>4, <3>1 DEF Part
    <3>5. f[y] \in Int /\ g[y] \in Int /\ g[x] \in Int /\ f[x] \in Int
      BY <3>2
    <3>6. CASE y = x
      <4>1. x \notin r /\ x \in s
        BY <3>2, <3>6
      <4> QED
        BY <3>3, <3>4, <3>5, <3>6, <4>1
    <3>7. CASE y # x
      <4>1. (x \in r <=> x \in s) /\ g[y] = f[y]
        BY <3>2, <3>7
      <4> QED
        BY <3>3, <3>4, <3>5, <4>1
    <3> QED
      BY <3>6, <3>7
  <2> HIDE DEF Good
  <2> QED
    BY <2>1
<1>8. Good(S)
  <2> HIDE DEF Good, N
  <2>1. 0 \in G /\ \A n \in 1..N : n - 1 \in G => n \in G
    BY <1>6, <1>7
  <2>2. 0..N \subseteq G
    <3> HIDE DEF G
    <3> QED
      BY <1>5, <2>1, Climb
  <2>3. N \in G
    BY <1>5, <2>2
  <2> QED
    BY <2>3 DEF N
<1> QED
  BY <1>3, <1>4, <1>8

LEMMA SumOfNone ==
  ASSUME NEW S, IsFiniteSet(S), NEW f, DOMAIN f = S, \A x \in S : f[x] = 0
  PROVE  SumFunction(f) = 0
<1>0. \E a : Adds(f, a)
  BY SumRuns
<1>1. PICK a : SumFunction(f) = a[S] /\ \A s \in SUBSET S : a[s] = Part(f, s, a)
  BY <1>0 DEF Adds
<1> DEFINE N == Cardinality(S)
           G == {n \in 0..N : \A s \in SUBSET S : Cardinality(s) = n => a[s] = 0}
<1>2. N \in Nat /\ \A s \in SUBSET S : IsFiniteSet(s)
  BY FS_CardinalityType, FS_Subset
<1>3. 0 \in G
  <2>1. \A s \in SUBSET S : Cardinality(s) = 0 => s = {}
    BY <1>2, FS_EmptySet
  <2> QED
    BY <1>1, <1>2, <2>1 DEF Part
<1>4. ASSUME NEW n \in 1..N, n - 1 \in G PROVE n \in G
  <2>1. ASSUME NEW s \in SUBSET S, Cardinality(s) = n PROVE a[s] = 0
    <3>1. s # {}
      BY <2>1, FS_EmptySet
    <3>2. One(s) \in s /\ Cardinality(s \ {One(s)}) = n - 1
      BY <1>2, <2>1, <3>1, Smaller
    <3>3. a[s \ {One(s)}] = 0 /\ f[One(s)] = 0
      BY <1>4, <3>2
    <3> QED
      BY <1>1, <3>1, <3>3 DEF Part
  <2> QED
    BY <2>1
<1> HIDE DEF N
<1>5. 0..N \subseteq G
  <2> HIDE DEF G
  <2> QED
    BY <1>2, <1>3, <1>4, Climb
<1>6. N \in G
  BY <1>2, <1>5
<1> QED
  BY <1>1, <1>6 DEF N

-----------------------------------------------------------------------------
(* A task that has come to a verdict keeps its owner, its length and its     *)
(* media, whatever else happens to it.                                       *)
LEMMA SettledRows ==
  ASSUME Inv, [Steps]_vars, NEW t \in Tasks, rows[t].status \in Terminal
  PROVE  /\ rows'[t].owner = rows[t].owner /\ rows'[t].duration = rows[t].duration
         /\ rows'[t].refs = rows[t].refs
<1> DEFINE Same == /\ rows'[t].owner = rows[t].owner /\ rows'[t].duration = rows[t].duration
                   /\ rows'[t].refs = rows[t].refs
<1>1. TypeOK /\ HandInv
  BY DEF Inv
<1>2. rows' = rows \/ rows'[t] = rows[t] => Same
  OBVIOUS
<1>3. ASSUME NEW u \in Tasks, NEW k \in Keys, NEW d \in Durations \cup {0}, Enqueue(u, k, d)
      PROVE  Same
  BY <1>1, <1>2, <1>3, EnqueuedRows DEF Enqueue, TypeOK, Terminal
<1>4. ASSUME NEW S \in SUBSET Tasks, PutsBack(S) PROVE Same
  BY <1>1, <1>2, <1>4, RequeuedRows DEF PutsBack, With, Terminal, TypeOK
<1>5. ASSUME NEW w \in Workers, (\E u \in Tasks : Takes(w, u)) \/ ClaimLost(w) PROVE Same
  <2>1. PICK u \in Tasks : rows' = Claimed(u) /\ rows[u].status = "queued"
    BY <1>5 DEF Takes, ClaimLost, Claimable, With
  <2> QED
    BY <1>1, <1>2, <2>1, ClaimedRows DEF TypeOK, Terminal
<1>6. ASSUME NEW w \in Workers, MarkSucceeded(w) \/ MarkSucceededFails(w) PROVE Same
  <2>1. cur[w] \in Tasks /\ media[w] \in Nat /\ rows[cur[w]].status = "running"
    BY <1>1, <1>6 DEF MarkSucceeded, MarkSucceededFails, HandInv, Hand, Busy, TypeOK
  <2> QED
    BY <1>1, <1>2, <1>6, <2>1, SucceededRows DEF MarkSucceeded, MarkSucceededFails, TypeOK, Terminal
<1>7. ASSUME NEW w \in Workers, MarkFailed(w) \/ MarkFailedFails(w) PROVE Same
  <2>1. rows' = rows \/ rows' = Failed(cur[w])
    BY <1>7 DEF MarkFailed, MarkFailedFails
  <2>2. /\ Failed(cur[w])[t].owner = rows[t].owner /\ Failed(cur[w])[t].refs = rows[t].refs
        /\ Failed(cur[w])[t].duration = rows[t].duration
    BY <1>1 DEF Failed, TypeOK, Rows
  <2> QED
    BY <1>2, <2>1, <2>2
<1> QED
  BY <1>2, <1>3, <1>4, <1>5, <1>6, <1>7
     DEF Steps, StoreFault, Tick, Crash, Generate, Publish, GenerationFails, Bill, BillFails, vars

(* A worker about to charge for images will charge for the ones recorded.    *)
Agreed == \A w \in Workers :
            pc[w] = "billing" /\ KindOf(cur[w]) = "image" => rows[cur[w]].refs = media[w]

LEMMA AgreedNext == ASSUME Inv, Agreed, [Steps]_vars PROVE Agreed'
<1> SUFFICES ASSUME NEW w \in Workers, pc'[w] = "billing", KindOf(cur'[w]) = "image"
             PROVE  rows'[cur'[w]].refs = media'[w]
  BY DEF Agreed, KindOf
<1>1. TypeOK /\ HandInv
  BY DEF Inv
<1>2. CASE pc[w] = "billing" /\ cur'[w] = cur[w] /\ media'[w] = media[w]
  <2>1. cur[w] \in Tasks /\ rows[cur[w]].status \in Terminal
    BY <1>1, <1>2 DEF HandInv, Hand, Busy, Terminal
  <2> QED
    BY <1>2, <2>1, SettledRows DEF Agreed
<1>3. CASE MarkSucceeded(w)
  <2>1. cur[w] \in Tasks /\ media[w] \in Nat
    BY <1>1, <1>3 DEF MarkSucceeded, HandInv, Hand, Busy, TypeOK
  <2> QED
    BY <1>1, <1>3, <2>1, SucceededRows DEF MarkSucceeded, TypeOK
<1> USE DEF Goto, Release, wvars, history, TypeOK
<1>4. ASSUME NEW v \in Workers, MarkSucceeded(v), v # w
      PROVE  pc[w] = "billing" /\ cur'[w] = cur[w] /\ media'[w] = media[w]
  BY <1>1, <1>4 DEF MarkSucceeded
<1>5. ASSUME ~ \E v \in Workers : MarkSucceeded(v)
      PROVE  pc[w] = "billing" /\ cur'[w] = cur[w] /\ media'[w] = media[w]
  <2>1. ASSUME NEW v \in Workers,
               \/ Generate(v) \/ Publish(v) \/ GenerationFails(v) \/ Bill(v) \/ MarkFailed(v)
               \/ Crash(v) \/ \E t \in Tasks : Takes(v, t)
        PROVE  pc[w] = "billing" /\ cur'[w] = cur[w] /\ media'[w] = media[w]
    BY <1>1, <2>1 DEF Generate, Publish, GenerationFails, Bill, MarkFailed, Crash, Takes
  <2>2. ASSUME NEW v \in Workers, StoreFault(v)
        PROVE  pc[w] = "billing" /\ cur'[w] = cur[w] /\ media'[w] = media[w]
    BY <1>1, <2>2 DEF StoreFault, ClaimLost, MarkSucceededFails, BillFails, MarkFailedFails
  <2>3. CASE \/ \E t \in Tasks, k \in Keys, d \in Durations \cup {0} : Enqueue(t, k, d)
             \/ Tick \/ UNCHANGED vars
    BY <2>3 DEF Enqueue, Tick, vars
  <2>4. ASSUME NEW S \in SUBSET Tasks, PutsBack(S)
        PROVE  pc[w] = "billing" /\ cur'[w] = cur[w] /\ media'[w] = media[w]
    BY <1>1, <2>4 DEF PutsBack
  <2> QED
    BY <1>5, <2>1, <2>2, <2>3, <2>4 DEF Steps
<1> QED
  BY <1>2, <1>3, <1>4, <1>5

(* What a step adds to the meter, and to the tasks it was charged for.       *)
LEMMA ChargesFollow ==
  ASSUME Inv, [Steps]_vars
  PROVE  \/ UNCHANGED <<meter, charges>>
         \/ \E w \in Workers : pc[w] = "billing" /\ Billed(w) /\ rows' = rows
<1>1. ASSUME NEW S \in SUBSET Tasks, PutsBack(S) PROVE UNCHANGED <<meter, charges>>
  BY <1>1 DEF PutsBack, history
<1>2. ASSUME NEW w \in Workers, NEW t \in Tasks, Takes(w, t) PROVE UNCHANGED <<meter, charges>>
  BY <1>2 DEF Takes
<1> QED
  BY <1>1, <1>2 DEF Steps, StoreFault, Enqueue, Tick, Generate, Publish, GenerationFails, MarkSucceeded,
     Bill, MarkFailed, Crash, ClaimLost, MarkSucceededFails, BillFails, MarkFailedFails, history, vars

LEMMA NoFaultBefore == ASSUME Inv, [Steps]_vars, faults' = 0 PROVE faults = 0
BY DEF Inv, TypeOK, Steps, StoreFault, Enqueue, Tick, PutsBack, Takes, Generate, Publish,
   GenerationFails, MarkSucceeded, Bill, MarkFailed, Crash, ClaimLost, MarkSucceededFails,
   BillFails, MarkFailedFails, Fault, vars

LEMMA WorthIsWhole == ASSUME TypeOK PROVE \A k : ChargedTo(k) \in [Tasks -> Int]
<1>1. ASSUME NEW t \in Tasks PROVE Worth(t) \in Int
  <2>1. rows[t] \in Rows
    BY DEF TypeOK
  <2>2. rows[t].refs \in Int
    BY <2>1 DEF Rows
  <2> QED
    BY <2>1, <2>2, RowDuration DEF Worth
<1> QED
  BY <1>1 DEF ChargedTo

MeterInv == Agreed /\ MeterMatchesVerdicts

LEMMA MeterNext ==
  ASSUME IsFiniteSet(Tasks), Inv, Inv', MeterInv, [Steps]_vars
  PROVE  MeterInv'
<1>1. Agreed'
  BY AgreedNext DEF MeterInv
<1>2. TypeOK /\ TypeOK' /\ HandInv /\ ChargeInv /\ ChargeInv'
  BY DEF Inv
(* A charged task stays worth what it was.                                   *)
<1>3. ASSUME NEW t \in Tasks, charges[t] = 1
      PROVE  rows'[t].owner = rows[t].owner /\ Worth(t)' = Worth(t)
  <2>1. rows[t].status \in Terminal
    BY <1>2, <1>3 DEF ChargeInv, Account
  <2> QED
    BY <2>1, SettledRows DEF Worth, KindOf
<1>4. CASE UNCHANGED <<meter, charges>>
  <2>1. ASSUME NEW k \in Keys PROVE ChargedTo(k)' = ChargedTo(k)
    BY <1>3, <1>4 DEF ChargedTo
  <2>2. ASSUME faults' = 0, NEW t \in Tasks, charges'[t] = 1 PROVE rows'[t].status = "succeeded"
    <3>1. faults = 0
      BY <2>2, NoFaultBefore
    <3>2. rows[t].status = "succeeded"
      BY <1>4, <2>2, <3>1 DEF MeterInv, MeterMatchesVerdicts
    <3> QED
      BY <3>1, <3>2, VerdictKept DEF Terminal
  <2> QED
    BY <1>1, <1>4, <2>1, <2>2 DEF MeterInv, MeterMatchesVerdicts
<1>5. ASSUME NEW w \in Workers, pc[w] = "billing", Billed(w), rows' = rows PROVE MeterInv'
  <2> DEFINE t == cur[w]
  <2>1. t \in Tasks /\ rows[t].status = "succeeded" /\ charges[t] = 0
    BY <1>2, <1>5 DEF HandInv, Hand, Busy, ChargeInv, Due
  <2>2. charges' = [charges EXCEPT ![t] = 1] /\ Charge(w) = Worth(t)
    BY <1>5, <2>1 DEF Billed, Charge, Worth, MeterInv, Agreed
  <2>3. ASSUME NEW k \in Keys PROVE meter'[k] = SumFunction(ChargedTo(k)')
    <3> DEFINE f == ChargedTo(k)  g == ChargedTo(k)'
    <3>1. f \in [Tasks -> Int] /\ Charge(w) \in Int
      BY <1>2, <2>1, WorthIsWhole, ChargeType
    <3>2. \A u \in Tasks : u # t => g[u] = f[u]
      BY <1>2, <1>5, <2>2 DEF ChargedTo, Worth, TypeOK
    <3>3. f[t] = 0 /\ g[t] = IF rows[t].owner = k THEN Charge(w) ELSE 0
      BY <1>2, <1>5, <2>1, <2>2 DEF ChargedTo, Worth, TypeOK
    <3>4. g \in [Tasks -> Int]
      <4>1. DOMAIN g = Tasks /\ g = [u \in Tasks |-> g[u]]
        BY DEF ChargedTo
      <4>2. \A u \in Tasks : g[u] \in Int
        BY <2>1, <3>1, <3>2, <3>3
      <4> HIDE DEF g
      <4> QED
        BY <4>1, <4>2
    <3>5. meter'[k] = IF rows[t].owner = k THEN meter[k] + Charge(w) ELSE meter[k]
      BY <1>2, <1>5 DEF Billed, TypeOK
    <3>6. meter[k] = SumFunction(f)
      BY DEF MeterInv, MeterMatchesVerdicts
    <3> HIDE DEF f, g, t
    <3>7. SumFunction(f) \in Int /\ SumFunction(g) = SumFunction(f) + (g[t] - f[t])
      BY <2>1, <3>1, <3>2, <3>4, SumMoves
    <3>8. g[t] \in Int /\ f[t] = 0
      BY <2>1, <3>4, <3>3
    <3> QED
      BY <3>3, <3>5, <3>6, <3>7, <3>8 DEF g
  <2>4. faults' = 0 => \A u \in Tasks : charges'[u] = 1 => rows'[u].status = "succeeded"
    BY <1>2, <1>5, <2>1, <2>2, NoFaultBefore DEF MeterInv, MeterMatchesVerdicts, TypeOK
  <2> QED
    BY <1>1, <2>3, <2>4 DEF MeterInv, MeterMatchesVerdicts
<1> QED
  BY <1>4, <1>5, ChargesFollow

LEMMA MeterInit == ASSUME IsFiniteSet(Tasks), Init PROVE MeterInv
<1>1. ASSUME NEW k \in Keys PROVE SumFunction(ChargedTo(k)) = 0
  <2>1. DOMAIN ChargedTo(k) = Tasks /\ \A t \in Tasks : ChargedTo(k)[t] = 0
    BY DEF ChargedTo, Init
  <2> QED
    BY <2>1, SumOfNone
<1> QED
  BY <1>1 DEF Init, MeterInv, Agreed, MeterMatchesVerdicts

(* Whatever crashes, restarts and failed calls there are, seconds_billed of  *)
(* a key is the lengths and image counts of the tasks charged to it, each    *)
(* once; and while no store call has failed all of these are successes.      *)
THEOREM MeterAddsUp ==
  ASSUME IsFiniteSet(Tasks)
  PROVE  Spec => []MeterMatchesVerdicts
<1>1. MeterInv => MeterMatchesVerdicts
  BY DEF MeterInv
<1>2. Inv /\ MeterInv /\ [Next]_vars => MeterInv'
  BY NextSteps, InvStep, MeterNext DEF Inv
<1> QED
  BY <1>1, <1>2, MeterInit, Invariance, PTL DEF Spec

-----------------------------------------------------------------------------
(* Refinement *)
Status == [t \in Tasks |-> rows[t].status]

(* Every step of the workers, but for store faults, is a step of JobQueue or *)
(* none at all.                                                              *)
LEMMA StepImplements ==
  ASSUME faults = 0, faults' = 0, Inv, [Steps]_vars
  PROVE  [Jobs!Next]_(Jobs!jobVars)
<1> USE DEF Goto, Release, wvars, history, Inv
<1>1. \A w \in Workers : ~ StoreFault(w)
  BY DEF TypeOK, StoreFault, ClaimLost, MarkSucceededFails, BillFails, MarkFailedFails, Fault
<1>0. ASSUME NEW t \in Tasks, NEW s, rows'[t].status = s,
             \A u \in Tasks : u # t => rows'[u] = rows[u]
      PROVE  Status' = [Status EXCEPT ![t] = s]
  BY <1>0 DEF Status
<1>2. ASSUME NEW t \in Tasks, NEW k \in Keys, NEW d \in Durations \cup {0}, Enqueue(t, k, d)
      PROVE  Jobs!Submit(t)
  <2>0. rows'[t].status = "queued" /\ \A u \in Tasks : u # t => rows'[u] = rows[u]
    <3>1. rows \in [Tasks -> Rows] /\ now \in Nat /\ rows' = Enqueued(t, k, d)
      BY <1>2 DEF Enqueue, TypeOK
    <3> QED
      BY <3>1, EnqueuedRows
  <2>1. Status' = [Status EXCEPT ![t] = "queued"]
    BY <1>0, <2>0
  <2> QED
    BY <1>2, <2>1 DEF Enqueue, Jobs!Submit, Status
<1>3. ASSUME rows' = rows, cur' = cur, charges' = charges PROVE UNCHANGED Jobs!jobVars
  BY <1>3 DEF Jobs!jobVars
<1>4. ASSUME NEW S \in SUBSET Tasks, PutsBack(S) PROVE Jobs!Next
  <2>1. Status' = [t \in Tasks |-> IF t \in S THEN "queued" ELSE Status[t]]
    BY <1>4, RequeuedRows DEF PutsBack, TypeOK, Status
  <2>2. \A t \in S : rows[t].status = "running" /\ \A v \in Workers : cur[v] # t
    BY <1>4 DEF PutsBack, With, InHand
  <2>3. Jobs!PutBack(S)
    BY <1>4, <2>1, <2>2 DEF PutsBack, Jobs!PutBack, Status
  <2> QED
    BY <2>3 DEF Jobs!Next
<1>5. ASSUME NEW w \in Workers, Crash(w) PROVE Jobs!Die(w) \/ UNCHANGED Jobs!jobVars
  BY <1>5, <1>3 DEF Crash, Jobs!Die, TypeOK, Jobs!jobVars
<1>6. ASSUME NEW w \in Workers, NEW t \in Tasks, Takes(w, t) PROVE Jobs!Take(w, t)
  <2>1. rows[t].status = "queued" /\ \A v \in Workers : cur[v] # t
    BY <1>6 DEF Takes, With, HandInv, Hand, TypeOK, PCs, Busy
  <2>2. cur[w] = NoTask
    BY <1>6 DEF Takes, HandInv, Hand, TypeOK, Busy
  <2>3. Status' = [Status EXCEPT ![t] = "running"]
    BY <1>0, <1>6, ClaimedRows DEF Takes, TypeOK
  <2> QED
    BY <1>6, <2>1, <2>2, <2>3 DEF Takes, Jobs!Take, Status
<1>7. ASSUME NEW w \in Workers, MarkSucceeded(w) PROVE Jobs!Succeed(w)
  <2>1. cur[w] \in Tasks /\ media[w] \in Nat /\ rows[cur[w]].status = "running"
    BY <1>7 DEF MarkSucceeded, HandInv, Hand, TypeOK, Busy
  <2>2. /\ rows'[cur[w]].status = "succeeded"
        /\ \A u \in Tasks : u # cur[w] => rows'[u] = rows[u]
    BY <1>7, <2>1, SucceededRows DEF MarkSucceeded, TypeOK
  <2>3. Status' = [Status EXCEPT ![cur[w]] = "succeeded"]
    BY <1>0, <2>1, <2>2
  <2> QED
    BY <1>7, <2>1, <2>3 DEF MarkSucceeded, Jobs!Succeed, Status
<1>8. ASSUME NEW w \in Workers, Bill(w) PROVE Jobs!Charge(w)
  <2>1. cur[w] \in Tasks /\ charges[cur[w]] = 0 /\ rows[cur[w]].status = "succeeded"
    BY <1>8 DEF Bill, HandInv, Hand, ChargeInv, Due, Busy
  <2>2. charges' = [charges EXCEPT ![cur[w]] = 1] /\ rows' = rows
    BY <1>8, <2>1 DEF Bill, Billed
  <2> QED
    BY <1>8, <2>1, <2>2 DEF Bill, Jobs!Charge
<1>9. ASSUME NEW w \in Workers, MarkFailed(w) PROVE Jobs!Fail(w)
  <2>1. cur[w] \in Tasks /\ rows[cur[w]].status = "running"
    BY <1>9 DEF MarkFailed, HandInv, Hand, TypeOK, Busy
  <2>2. Status' = [Status EXCEPT ![cur[w]] = "failed"]
    BY <1>0, <1>9, <2>1, FailedRows DEF MarkFailed, TypeOK
  <2> QED
    BY <1>9, <2>1, <2>2 DEF MarkFailed, Jobs!Fail, Status
<1>10. ASSUME \/ Tick \/ UNCHANGED vars
              \/ \E w \in Workers : Generate(w) \/ Publish(w) \/ GenerationFails(w)
       PROVE  UNCHANGED Jobs!jobVars
  BY <1>3, <1>10 DEF vars, Tick, Generate, Publish, GenerationFails
<1> QED
  BY <1>1, <1>2, <1>4, <1>5, <1>6, <1>7, <1>8, <1>9, <1>10 DEF Steps, Jobs!Next

(* The workers over the task table do what JobQueue promises, as long as no  *)
(* store call fails.                                                         *)
THEOREM WorkersImplementJobQueue ==
  ASSUME MaxFaults = 0 PROVE Spec => ImplementsJobQueue
<1>1. Init => Jobs!Init
  BY DEF Init, StoreInit, NoRow, Jobs!Init
<1>2. Init => faults = 0
  BY DEF Init
<1>3. faults = 0 /\ [Next]_vars => (faults = 0)'
  BY DEF Next, Work, StoreFault, Fault, Enqueue, Tick, Start, Crash, ClaimNext, ClaimLost,
         Generate, Publish, GenerationFails, MarkSucceeded, MarkSucceededFails, Bill,
         BillFails, MarkFailed, MarkFailedFails, vars
<1>4. faults = 0 /\ Inv /\ [Next]_vars => [Jobs!Next]_(Jobs!jobVars)
  BY <1>3, NextSteps, StepImplements DEF Inv
<1> QED
  BY <1>1, <1>2, <1>3, <1>4, Invariance, PTL DEF Spec, ImplementsJobQueue, Jobs!Spec
=============================================================================

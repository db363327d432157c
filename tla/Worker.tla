-------------------------------- MODULE Worker --------------------------------
(***************************************************************************)
(* The generation workers of gateway/app/worker.py, over the task table of *)
(* TaskStore and the usage meter of gateway/app/keys.py.  A worker claims  *)
(* one task of its kind, generates, publishes, records the verdict and     *)
(* charges the owner; every step may be cut short by the end of its        *)
(* process, every call on a store may fail before or after it took effect, *)
(* and the service manager starts a dead worker again whenever it likes.   *)
(***************************************************************************)
EXTENDS TaskStore, FiniteSets, Functions

CONSTANTS
  Workers, WorkerKind,  \* the worker processes, and the one kind each drains
  NoTask,               \* "no task in hand"
  MaxMedia,             \* how many images one request may produce
  GenBudget,            \* within how many ticks a worker is done with a task
  StaleCutoff,          \* WORKER_STALE_RUNNING_S
  MaxTime,              \* bound: the clock stops here
  MaxCrashes,           \* bound: how many times a worker process ends
  MaxFaults             \* bound: how many store calls fail

ASSUME NoTaskOutside == NoTask \notin Tasks
ASSUME WorkerKindType == WorkerKind \in [Workers -> Kinds]
ASSUME BoundsType == /\ MaxMedia \in Nat \ {0} /\ GenBudget \in Nat /\ StaleCutoff \in Nat
                     /\ MaxTime \in Nat /\ MaxCrashes \in Nat /\ MaxFaults \in Nat

(* The caller passes a cutoff "far longer than any real generation".         *)
ASSUME CutoffCoversGeneration == GenBudget <= StaleCutoff

VARIABLES
  pc,        \* pc[w]: where w is in run_once, or "down"
  cur,       \* cur[w]: the task w has in hand
  media,     \* media[w]: how many references w published for it
  started,   \* started[w]: when w claimed it
  meter,     \* meter[k]: seconds_billed of key k
  charges,   \* history: how often t's owner was charged for t
  runs,      \* history: how often t was claimed
  crashes,   \* how many times a process ended
  faults     \* how many store calls failed

wvars == <<pc, cur, media, started>>
history == <<charges, runs>>
vars == <<rows, now, pc, cur, media, started, meter, charges, runs, crashes, faults>>

Busy == {"generating", "publishing", "marking", "billing", "failing"}
PCs  == {"down", "idle"} \cup Busy

TypeOK ==
  /\ rows \in [Tasks -> Rows] /\ now \in Nat
  /\ pc \in [Workers -> PCs]
  /\ cur \in [Workers -> Tasks \cup {NoTask}]
  /\ media \in [Workers -> Nat] /\ started \in [Workers -> Nat]
  /\ meter \in [Keys -> Int]
  /\ charges \in [Tasks -> Nat] /\ runs \in [Tasks -> Nat]
  /\ crashes \in Nat /\ faults \in Nat

Init ==
  /\ StoreInit
  /\ pc = [w \in Workers |-> "down"] /\ cur = [w \in Workers |-> NoTask]
  /\ media = [w \in Workers |-> 0] /\ started = [w \in Workers |-> 0]
  /\ meter = [k \in Keys |-> 0]
  /\ charges = [t \in Tasks |-> 0] /\ runs = [t \in Tasks |-> 0]
  /\ crashes = 0 /\ faults = 0

-----------------------------------------------------------------------------
(* A submit handler enqueues.  A video task carries the clip length asked    *)
(* for, whatever integer that is, an image task 0.                           *)
Enqueue(t, k, d) ==
  /\ rows[t].status = "absent"
  /\ d \in IF KindOf(t) = "image" THEN {0} ELSE Durations
  /\ rows' = Enqueued(t, k, d)
  /\ UNCHANGED <<now, wvars, meter, history, crashes, faults>>

(* Time passes, but no worker is at one task for longer than GenBudget: the  *)
(* backends give up at their deadline and every call they make has a timeout *)
(* of its own.                                                               *)
Tick ==
  /\ now < MaxTime
  /\ \A w \in Workers : pc[w] \in Busy => now < started[w] + GenBudget
  /\ now' = now + 1
  /\ UNCHANGED <<rows, wvars, meter, history, crashes, faults>>

-----------------------------------------------------------------------------
Goto(w, label) == pc' = [pc EXCEPT ![w] = label]

(* The task is out of w's hands: run_once returns and its locals are gone.   *)
Release(w, label) ==
  /\ Goto(w, label)
  /\ cur' = [cur EXCEPT ![w] = NoTask]
  /\ media' = [media EXCEPT ![w] = 0] /\ started' = [started EXCEPT ![w] = 0]

Fault == faults < MaxFaults /\ faults' = faults + 1

(* Slips: a start that requeues nothing, or everything that runs; a clip      *)
(* charged as soon as it is published, or charged and kept in hand; images    *)
(* never charged; a failure left unrecorded.                                  *)
NoRequeue(w) ==
  /\ pc[w] = "down" /\ Goto(w, "idle")
  /\ UNCHANGED <<rows, now, cur, media, started, meter, history, crashes, faults>>
RequeueRunning(w) ==
  /\ pc[w] = "down" /\ Goto(w, "idle")
  /\ rows' = Requeued(With("running"))
  /\ UNCHANGED <<now, cur, media, started, meter, history, crashes, faults>>
ChargeAtPublish(w) ==
  /\ pc[w] = "publishing" /\ Goto(w, "marking")
  /\ charges' = [charges EXCEPT ![cur[w]] = @ + 1]
  /\ UNCHANGED <<rows, now, cur, media, started, meter, runs, crashes, faults>>
ChargeAndKeep(w) ==
  /\ pc[w] = "billing"
  /\ charges' = [charges EXCEPT ![cur[w]] = @ + 1]
  /\ charges[cur[w]] < 2
  /\ UNCHANGED <<rows, now, wvars, meter, runs, crashes, faults>>
ChargeClipsOnly(w) ==
  /\ pc[w] = "billing" /\ Release(w, "idle")
  /\ charges' = IF KindOf(cur[w]) = "video" THEN [charges EXCEPT ![cur[w]] = @ + 1] ELSE charges
  /\ UNCHANGED <<rows, now, meter, runs, crashes, faults>>
FailSilently(w) ==
  /\ pc[w] = "failing" /\ Release(w, "idle")
  /\ UNCHANGED <<rows, now, meter, history, crashes, faults>>

(* start(): requeue what is stale, once, then run the drain loop.            *)
Start(w) ==
  /\ pc[w] = "down"
  /\ rows' = Requeued(StaleRunning(StaleCutoff))
  /\ Goto(w, "idle")
  /\ UNCHANGED <<now, cur, media, started, meter, history, crashes, faults>>

(* The process ends: a crash, a kill, or the box being stopped.              *)
Crash(w) ==
  /\ pc[w] # "down" /\ crashes < MaxCrashes
  /\ crashes' = crashes + 1
  /\ Release(w, "down")
  /\ UNCHANGED <<rows, now, meter, history, faults>>

(* run_once: claim the oldest queued task of the worker's own kind.          *)
ClaimNext(w) ==
  /\ pc[w] = "idle"
  /\ \E t \in Claimable(WorkerKind[w]) :
       /\ rows' = Claimed(t)
       /\ cur' = [cur EXCEPT ![w] = t]
       /\ runs' = [runs EXCEPT ![t] = @ + 1]
  /\ started' = [started EXCEPT ![w] = now]
  /\ Goto(w, "generating")
  /\ UNCHANGED <<now, media, meter, charges, crashes, faults>>

(* The claim takes effect but its answer is lost: claim_next raises, the     *)
(* loop swallows the exception and polls on, and nobody has the task.        *)
ClaimLost(w) ==
  /\ pc[w] = "idle" /\ Fault
  /\ \E t \in Claimable(WorkerKind[w]) :
       /\ rows' = Claimed(t)
       /\ runs' = [runs EXCEPT ![t] = @ + 1]
  /\ UNCHANGED <<now, wvars, meter, charges, crashes>>

(* backend.generate returns a clip, or one or more images.                   *)
Generate(w) ==
  /\ pc[w] = "generating"
  /\ \E n \in 1..MaxMedia :
       /\ KindOf(cur[w]) = "video" => n = 1
       /\ media' = [media EXCEPT ![w] = n]
  /\ Goto(w, "publishing")
  /\ UNCHANGED <<rows, now, cur, started, meter, history, crashes, faults>>

(* publish returns the reference(s).                                         *)
Publish(w) ==
  /\ pc[w] = "publishing"
  /\ Goto(w, "marking")
  /\ UNCHANGED <<rows, now, cur, media, started, meter, history, crashes, faults>>

(* generate or publish raises (no image at all raises too).                  *)
GenerationFails(w) ==
  /\ pc[w] \in {"generating", "publishing"}
  /\ Goto(w, "failing")
  /\ UNCHANGED <<rows, now, cur, media, started, meter, history, crashes, faults>>

MarkSucceeded(w) ==
  /\ pc[w] = "marking"
  /\ rows' = Succeeded(cur[w], media[w])
  /\ Goto(w, "billing")
  /\ UNCHANGED <<now, cur, media, started, meter, history, crashes, faults>>
MarkSucceededFails(w) ==
  /\ pc[w] = "marking" /\ Fault
  /\ rows' \in {rows, Succeeded(cur[w], media[w])}
  /\ Goto(w, "failing")
  /\ UNCHANGED <<now, cur, media, started, meter, history, crashes>>

(* add_seconds_billed: a clip's length, or the number of images.             *)
ChargeLength(w) == rows[cur[w]].duration
Charge(w) == IF KindOf(cur[w]) = "image" THEN media[w] ELSE rows[cur[w]].duration
Billed(w) ==
  /\ meter' = [meter EXCEPT ![rows[cur[w]].owner] = @ + Charge(w)]
  /\ charges' = [charges EXCEPT ![cur[w]] = @ + 1]
Bill(w) ==
  /\ pc[w] = "billing"
  /\ Billed(w)
  /\ Release(w, "idle")
  /\ UNCHANGED <<rows, now, runs, crashes, faults>>
BillFails(w) ==
  /\ pc[w] = "billing" /\ Fault
  /\ Billed(w) \/ UNCHANGED <<meter, charges>>
  /\ Goto(w, "failing")
  /\ UNCHANGED <<rows, now, cur, media, started, runs, crashes>>

(* The except clause: whatever raised, the task is marked failed.            *)
MarkFailed(w) ==
  /\ pc[w] = "failing"
  /\ rows' = Failed(cur[w])
  /\ Release(w, "idle")
  /\ UNCHANGED <<now, meter, history, crashes, faults>>
(* mark_failed itself raises: the loop swallows it and goes on.              *)
MarkFailedFails(w) ==
  /\ pc[w] = "failing" /\ Fault
  /\ rows' \in {rows, Failed(cur[w])}
  /\ Release(w, "idle")
  /\ UNCHANGED <<now, meter, history, crashes>>

-----------------------------------------------------------------------------
(* What one worker does of itself, its own process's end not among it.       *)
Work(w) ==
  \/ Start(w) \/ ClaimNext(w) \/ Generate(w) \/ Publish(w) \/ GenerationFails(w)
  \/ MarkSucceeded(w) \/ Bill(w) \/ MarkFailed(w)
StoreFault(w) ==
  \/ ClaimLost(w) \/ MarkSucceededFails(w) \/ BillFails(w) \/ MarkFailedFails(w)

Next ==
  \/ \E t \in Tasks, k \in Keys, d \in Durations \cup {0} : Enqueue(t, k, d)
  \/ Tick
  \/ \E w \in Workers : Work(w) \/ StoreFault(w) \/ Crash(w)

Spec == Init /\ [][Next]_vars

(* The service manager starts a dead worker again (Restart=always), and a    *)
(* worker that can take a step takes one.  Nothing is assumed of the clients *)
(* or of the clock.                                                          *)
FairSpec == Spec /\ \A w \in Workers : WF_vars(Work(w))

-----------------------------------------------------------------------------
(* Safety *)
InHand(t) == \E w \in Workers : cur[w] = t

(* One task is never in the hands of two live workers: no clip is generated  *)
(* twice at a time, and no worker overwrites another's verdict.              *)
SingleExecutor ==
  \A v, w \in Workers : cur[v] = cur[w] /\ cur[v] # NoTask => v = w

(* A worker only has tasks of the kind its GPU serves.                       *)
NoStolenKind == \A w \in Workers : cur[w] # NoTask => KindOf(cur[w]) = WorkerKind[w]

(* A task is generated again only after a crash or a lost answer: a restart  *)
(* of one worker never makes another repeat what it has in hand.             *)
RerunsNeedTrouble == \A t \in Tasks : runs[t] <= 1 + crashes + faults

(* An owner is charged at most once for a task, however often it is run, and *)
(* then only if the task got its media recorded.                             *)
ChargedOnce ==
  \A t \in Tasks : charges[t] <= 1 /\ (charges[t] = 1 => rows[t].refs > 0)

(* A key's meter is what its charged tasks are worth, to the second and to   *)
(* the image; and as long as no store call has failed, these are successes.  *)
Worth(t)     == IF KindOf(t) = "image" THEN rows[t].refs ELSE rows[t].duration
ChargedTo(k) == [t \in Tasks |-> IF rows[t].owner = k /\ charges[t] = 1 THEN Worth(t) ELSE 0]
MeterMatchesVerdicts ==
  /\ \A k \in Keys : meter[k] = SumFunction(ChargedTo(k))
  /\ faults = 0 => \A t \in Tasks : charges[t] = 1 => rows[t].status = "succeeded"

(* A success is given away, nobody being about to charge for it any more,    *)
(* only at the cost of a crash or a failed store call, and one for each.     *)
GivenAway == {t \in With("succeeded") : ~ InHand(t) /\ charges[t] = 0}
FewGivenAway == Cardinality(GivenAway) <= crashes + faults

(* Within a kind, a task is not claimed for the first time before an older   *)
(* one of the same kind has been.                                            *)
OldestFirst ==
  \A t, u \in Tasks :
    (/\ KindOf(t) = KindOf(u)
     /\ rows[t].status = "queued" /\ rows[t].created < rows[u].created
     /\ runs[u] > 0) => runs[t] > 0

(* Requeueing takes a task from nobody: only a running task that no live     *)
(* worker has goes back to queued.                                           *)
NeverYanked ==
  [][\A t \in Tasks :
       rows[t].status = "running" /\ rows'[t].status = "queued" => ~ InHand(t)]_vars

(* While no store call fails, what a client has read as the verdict stays.   *)
VerdictIsFinal ==
  [][faults = 0 => \A t \in Tasks :
       rows[t].status \in Terminal => rows'[t] = rows[t]]_vars

(* The system of tables, clocks and crashes does what JobQueue promises, as  *)
(* long as no store call fails (MaxFaults = 0).                              *)
Jobs == INSTANCE JobQueue WITH status <- [t \in Tasks |-> rows[t].status], doing <- cur
ImplementsJobQueue == Jobs!Spec

-----------------------------------------------------------------------------
(* Liveness *)
(* As long as nothing crashes or fails, every queued task gets a verdict.    *)
EveryTaskEnds ==
  \A t \in Tasks : rows[t].status = "queued" ~> \/ rows[t].status \in Terminal
                                                \/ crashes + faults > 0

(* A task that was left running, is stale, and sees a worker down (so a      *)
(* start() to come), gets a verdict, unless something crashes again.         *)
StaleOrphanRecovered ==
  \A t \in Tasks :
    (/\ t \in StaleRunning(StaleCutoff) /\ ~ InHand(t)
     /\ \E w \in Workers : pc[w] = "down"
     /\ crashes = MaxCrashes /\ faults = MaxFaults) ~> rows[t].status \in Terminal

(* worker.py's claim that a restart strands no task: whatever runs comes to  *)
(* an end.                                                                   *)
RestartStrandsNoTask ==
  \A t \in Tasks : rows[t].status = "running" ~> rows[t].status # "running"

(* worker.py's claim that it is a generation failure that becomes the task's *)
(* failed reason: a task whose media is recorded never turns failed.         *)
FailedMeansGenerationFailed ==
  [][\A t \in Tasks :
       rows[t].status = "succeeded" => rows'[t].status # "failed"]_vars
=============================================================================

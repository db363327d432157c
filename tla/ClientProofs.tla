------------------------------ MODULE ClientProofs ------------------------------
(***************************************************************************)
(* For every set of clients and tasks, every TTL, lag, timeout and wait:   *)
(* what clients are told of their tasks is true, and what is counted for   *)
(* the key is accounted for.                                               *)
(***************************************************************************)
EXTENDS GatewayProofs, FiniteSetTheorems

(* What the table bears out of a verdict: a failure is for good, a success    *)
(* may have been taken back.                                                  *)
BorneOut(t, v) ==
  /\ v = "failed" => status[t] = "failed"
  /\ v = "succeeded" => status[t] = "succeeded" \/ bill[t] = "raised"

(* A charge is due of a success; one that raises leaves a failure.            *)
BillsAgree ==
  \A t \in Tasks :
    /\ bill[t] = "due" => status[t] = "succeeded"
    /\ bill[t] = "raised" => status[t] = "failed"

(* A read shows no verdict that the table does not bear out, and in one       *)
(* process nothing but the status.                                            *)
ReadsAreTrue ==
  \A t \in Tasks :
    /\ \A v \in reads[t] : BorneOut(t, v)
    /\ mode = "process" => reads[t] = {status[t]}

(* HeardIsTrue, but for the counting of clients ...                           *)
ToldIsTrue ==
  \A t \in Tasks :
    /\ BorneOut(t, told[t])
    /\ told[t] = "not found" => mode = "lambda"
    /\ told[t] = "cut off" => mode = "lambda" \/ troubles > 0
    /\ told[t] = "timed out" => mode = "process" \/ ImageWait <= ApiTimeout

(* ... and that: a task there is has a client that asks until it is told, and *)
(* no other; of one there is not, nothing was told.                           *)
AskersAreOne ==
  /\ \A t \in Tasks : status[t] = "absent" => told[t] = "nothing"
  /\ \A c \in Clients : task[c] \in Tasks => status[task[c]] # "absent" /\ told[task[c]] = "nothing"
  /\ \A c, d \in Clients : task[c] \in Tasks /\ task[c] = task[d] => c = d
  /\ \A t \in Tasks : status[t] # "absent" /\ told[t] = "nothing" => \E c \in Clients : task[c] = t

(* No image is waited for longer than its Lambda runs.                        *)
WaitsEnd ==
  \A c \in Clients :
    /\ pc[c] # "waiting" => waited[c] = 0
    /\ mode = "lambda" /\ pc[c] \in InHandler => waited[c] <= age[c] /\ age[c] <= ApiTimeout

(* Only a client without a task is about to get one.                          *)
CountedHasNone == \A c \in Clients : pc[c] = "counted" => task[c] = NoTask

HeardInv == BillsAgree /\ ReadsAreTrue /\ ToldIsTrue /\ AskersAreOne /\ WaitsEnd /\ CountedHasNone

LEMMA HeardInit == GInit => HeardInv
<1> SUFFICES ASSUME GInit PROVE HeardInv
  OBVIOUS
<1>1. BillsAgree /\ ReadsAreTrue
  BY DEF GInit, BillsAgree, ReadsAreTrue, BorneOut
<1>2. ToldIsTrue
  BY DEF GInit, ToldIsTrue, BorneOut
<1>3. AskersAreOne
  BY GatewayAssumption DEF GInit, AskersAreOne
<1>4. WaitsEnd
  BY DEF GInit, WaitsEnd, InHandler
<1>5. CountedHasNone
  BY DEF GInit, CountedHasNone
<1> QED
  BY <1>1, <1>2, <1>3, <1>4, <1>5 DEF HeardInv

(* What went wrong is not forgotten.                                          *)
TroublesMayGrow == troubles' \in {troubles, troubles + 1}
LEMMA TroublesStay == ASSUME GTypeOK, TroublesMayGrow, troubles > 0 PROVE troubles' > 0
<1>1. troubles \in Nat
  BY DEF GTypeOK
<1> QED
  BY <1>1 DEF TroublesMayGrow

(* A client is told why it need not ask any more.                             *)
LEMMA ConcludeKeepsTold ==
  ASSUME GTypeOK, HeardInv, NEW c \in Clients, NEW why \in Reasons \ {"nothing"}, Conclude(c, why),
         UNCHANGED <<mode, taskVars>>, TroublesMayGrow,
         task[c] \in Tasks => BorneOut(task[c], why), why = "not found" => mode = "lambda",
         why = "cut off" => mode = "lambda" \/ troubles' > 0,
         why = "timed out" => mode = "process" \/ ImageWait <= ApiTimeout
  PROVE  ToldIsTrue' /\ AskersAreOne'
<1>1. \A t \in Tasks : told'[t] = IF t = task[c] THEN why ELSE told[t]
  BY DEF Conclude
<1>2. \A d \in Clients : task'[d] = IF d = c THEN NoTask ELSE task[d]
  BY DEF GTypeOK, Conclude
<1>3. NoTask \notin Tasks
  BY GatewayAssumption
<1>4. ToldIsTrue'
  <2> SUFFICES ASSUME NEW t \in Tasks
               PROVE  /\ BorneOut(t, told[t])'
                      /\ told'[t] = "not found" => mode' = "lambda"
                      /\ told'[t] = "cut off" => mode' = "lambda" \/ troubles' > 0
                      /\ told'[t] = "timed out" => mode' = "process" \/ ImageWait <= ApiTimeout
    BY DEF ToldIsTrue
  <2>1. CASE t = task[c]
    BY <1>1, <2>1 DEF BorneOut, taskVars
  <2>2. CASE t # task[c]
    <3>1. told'[t] = told[t]
      BY <1>1, <2>2
    <3> QED
      BY <3>1, TroublesStay DEF HeardInv, ToldIsTrue, BorneOut, taskVars
  <2> QED
    BY <2>1, <2>2
<1>5. \A d \in Clients : task'[d] \in Tasks =>
          d # c /\ task'[d] = task[d] /\ task[d] # task[c]
  BY <1>2, <1>3 DEF HeardInv, AskersAreOne
<1>6. ASSUME NEW d \in Clients, task'[d] \in Tasks
      PROVE  status'[task'[d]] # "absent" /\ told'[task'[d]] = "nothing"
  <2>1. task'[d] = task[d] /\ task[d] # task[c]
    BY <1>5, <1>6
  <2>2. told'[task[d]] = told[task[d]]
    BY <1>1, <1>6, <2>1
  <2> QED
    BY <1>6, <2>1, <2>2 DEF HeardInv, AskersAreOne, taskVars
<1>7. \A d, e \in Clients : task'[d] \in Tasks /\ task'[d] = task'[e] => d = e
  BY <1>5 DEF HeardInv, AskersAreOne
<1>8. ASSUME NEW t \in Tasks, status'[t] # "absent", told'[t] = "nothing"
      PROVE  \E d \in Clients : task'[d] = t
  <2>1. t # task[c] /\ told[t] = "nothing"
    BY <1>1, <1>8
  <2>2. PICK d \in Clients : task[d] = t
    BY <1>8, <2>1 DEF HeardInv, AskersAreOne, taskVars
  <2> QED
    BY <1>2, <2>1, <2>2
<1>9. ASSUME NEW t \in Tasks, status'[t] = "absent" PROVE told'[t] = "nothing"
  <2>1. status[t] = "absent" /\ told[t] = "nothing"
    BY <1>9 DEF HeardInv, AskersAreOne, taskVars
  <2>2. t # task[c]
    BY <2>1 DEF HeardInv, AskersAreOne
  <2> QED
    BY <1>1, <2>1, <2>2
<1>10. AskersAreOne'
  BY <1>6, <1>7, <1>8, <1>9 DEF AskersAreOne
<1> QED
  BY <1>4, <1>10

(* A call returns, with or without a word on its task.                        *)
LEMMA ReturnKeepsCalls ==
  ASSUME GTypeOK, HeardInv, NEW c \in Clients, Return(c), UNCHANGED mode,
         \A d \in Clients \ {c} : task'[d] = task[d]
  PROVE  WaitsEnd' /\ CountedHasNone'
<1>1. \A d \in Clients \ {c} : pc'[d] = pc[d] /\ age'[d] = age[d] /\ waited'[d] = waited[d]
  BY DEF GTypeOK, Return
<1>2. pc'[c] = "idle" /\ waited'[c] = 0
  BY DEF GTypeOK, Return
<1> QED
  BY <1>1, <1>2 DEF HeardInv, WaitsEnd, CountedHasNone, InHandler

LEMMA TableKept ==
  ASSUME HeardInv, UNCHANGED <<mode, taskVars>>
  PROVE  BillsAgree' /\ ReadsAreTrue'
BY DEF HeardInv, BillsAgree, ReadsAreTrue, BorneOut, taskVars

LEMMA ToldKept ==
  ASSUME GTypeOK, HeardInv, UNCHANGED <<mode, status, bill, task, told>>, TroublesMayGrow
  PROVE  ToldIsTrue' /\ AskersAreOne'
<1>1. ToldIsTrue'
  BY TroublesStay DEF HeardInv, ToldIsTrue, BorneOut
<1> QED
  BY <1>1 DEF HeardInv, AskersAreOne

LEMMA ConcludedKeepsHeard ==
  ASSUME GTypeOK, HeardInv, NEW c \in Clients, Return(c),
         NEW why \in Reasons \ {"nothing"}, Conclude(c, why),
         UNCHANGED <<mode, taskVars>>, TroublesMayGrow,
         task[c] \in Tasks => BorneOut(task[c], why), why = "not found" => mode = "lambda",
         why = "cut off" => mode = "lambda" \/ troubles' > 0,
         why = "timed out" => mode = "process" \/ ImageWait <= ApiTimeout
  PROVE  HeardInv'
<1>1. \A d \in Clients \ {c} : task'[d] = task[d]
  BY DEF GTypeOK, Conclude
<1> QED
  BY <1>1, ConcludeKeepsTold, ReturnKeepsCalls, TableKept DEF HeardInv

LEMMA ReturnedKeepsHeard ==
  ASSUME GTypeOK, HeardInv, NEW c \in Clients, Return(c),
         UNCHANGED <<mode, taskVars, task, told>>, TroublesMayGrow
  PROVE  HeardInv'
BY ToldKept, ReturnKeepsCalls, TableKept DEF HeardInv, taskVars

(* A call goes on, and nothing is told.                                       *)
LEMMA GoesOnKeepsHeard ==
  ASSUME GTypeOK, HeardInv, NEW c \in Clients,
         UNCHANGED <<mode, taskVars, task, troubles, told, waited>>,
         NEW to \in PCs \ {"waiting"}, pc' = [pc EXCEPT ![c] = to], pc[c] # "waiting",
         age'[c] \in Nat, \A d \in Clients \ {c} : age'[d] = age[d],
         to \in InHandler => age'[c] = 0 \/ (age'[c] = age[c] /\ pc[c] \in InHandler),
         to = "counted" => task[c] = NoTask
  PROVE  HeardInv'
<1>1. \A d \in Clients \ {c} : pc'[d] = pc[d]
  BY DEF GTypeOK
<1>2. pc'[c] = to /\ waited[c] = 0
  BY DEF GTypeOK, HeardInv, WaitsEnd
<1>3. WaitsEnd'
  <2>1. ASSUME mode = "lambda", to \in InHandler PROVE waited'[c] <= age'[c] /\ age'[c] <= ApiTimeout
    BY <1>2, <2>1, GatewayAssumption DEF HeardInv, WaitsEnd
  <2> QED
    BY <1>1, <1>2, <2>1 DEF HeardInv, WaitsEnd
<1>4. CountedHasNone'
  BY <1>1, <1>2 DEF HeardInv, CountedHasNone
<1> QED
  BY <1>3, <1>4, ToldKept, TableKept DEF HeardInv, TroublesMayGrow, taskVars

LEMMA AnsweredKeepsHeard ==
  ASSUME GTypeOK, HeardInv, NEW c \in Clients, Admit(c) \/ Reject(c),
         UNCHANGED <<mode, taskVars, troubles>>, pc[c] # "waiting"
  PROVE  HeardInv'
<1>1. CASE Reject(c)
  <2>1. "denied" \in Reasons \ {"nothing"} /\ \A t \in Tasks : BorneOut(t, "denied")
    BY DEF Reasons, BorneOut
  <2> QED
    BY <1>1, <2>1, ConcludedKeepsHeard DEF Reject, TroublesMayGrow
<1>2. CASE Admit(c)
  <2>1. pc' = [pc EXCEPT ![c] = "handling"] /\ UNCHANGED <<waited, task, told>>
    BY <1>2 DEF Admit
  <2>2. age'[c] = 0 /\ \A d \in Clients \ {c} : age'[d] = age[d]
    BY <1>2 DEF Admit, GTypeOK
  <2>3. "handling" \in PCs \ {"waiting"} /\ age'[c] \in Nat
    BY <2>2 DEF PCs, InHandler
  <2> QED
    BY <2>1, <2>2, <2>3, GoesOnKeepsHeard
<1> QED
  BY <1>1, <1>2

-----------------------------------------------------------------------------
(* The tasks' side: one is submitted, one ends, a replica catches up.         *)
LEMMA EnqueueKeepsHeard ==
  ASSUME GTypeOK, HeardInv, NEW c \in Clients, Enqueue(c)
  PROVE  HeardInv'
<1>1. PICK t \in Absent : WriteTask(t, "pending") /\ task' = [task EXCEPT ![c] = t]
  BY DEF Enqueue
<1>2. pc[c] = "counted" /\ task[c] = NoTask /\ t \in Tasks /\ status[t] = "absent"
  BY <1>1 DEF Enqueue, HeardInv, CountedHasNone, Absent
<1>3. /\ \A u \in Tasks : status'[u] = IF u = t THEN "pending" ELSE status[u]
      /\ \A u \in Tasks : reads'[u] = IF u = t THEN After("pending", reads[u]) ELSE reads[u]
      /\ \A d \in Clients : task'[d] = IF d = c THEN t ELSE task[d]
  BY <1>1, <1>2 DEF WriteTask, GTypeOK
<1>4. UNCHANGED <<mode, age, waited, told, bill, troubles>>
  BY DEF Enqueue
<1>5. bill[t] \notin {"due", "raised"}
  BY <1>2 DEF HeardInv, BillsAgree
<1>6. BillsAgree'
  BY <1>3, <1>4, <1>5 DEF HeardInv, BillsAgree
<1>7. \A v : BorneOut(t, v) => v \notin Verdicts
  BY <1>2, <1>5 DEF BorneOut, Verdicts
<1>8. ReadsAreTrue'
  <2>1. \A u \in Tasks : u # t => reads'[u] = reads[u] /\ status'[u] = status[u]
    BY <1>3
  <2>2. \A v \in reads[t] : v \notin Verdicts
    BY <1>2, <1>7 DEF HeardInv, ReadsAreTrue
  <2>3. \A v \in reads'[t] : v \notin Verdicts
    BY <1>2, <1>3, <2>2 DEF After, Verdicts
  <2>4. mode = "process" => reads'[t] = {status'[t]}
    BY <1>2, <1>3 DEF After
  <2>5. \A v \in reads'[t] : BorneOut(t, v)'
    BY <2>3 DEF BorneOut, Verdicts
  <2>6. \A u \in Tasks : u # t => \A v \in reads'[u] : BorneOut(u, v)'
    BY <1>4, <2>1 DEF HeardInv, ReadsAreTrue, BorneOut
  <2> QED
    BY <1>4, <2>1, <2>4, <2>5, <2>6 DEF HeardInv, ReadsAreTrue
<1>9. ToldIsTrue'
  <2>1. told[t] \notin Verdicts
    BY <1>2, <1>7 DEF HeardInv, ToldIsTrue
  <2>2. \A u \in Tasks : BorneOut(u, told[u])'
    BY <1>3, <1>4, <2>1 DEF HeardInv, ToldIsTrue, BorneOut, Verdicts
  <2> QED
    BY <1>4, <2>2 DEF HeardInv, ToldIsTrue
<1>10. AskersAreOne'
  <2>1. told[t] = "nothing"
    BY <1>2 DEF HeardInv, AskersAreOne
  <2>2. \A d \in Clients : task[d] # t
    BY <1>2 DEF HeardInv, AskersAreOne
  <2>3. \A d \in Clients : task'[d] \in Tasks =>
          status'[task'[d]] # "absent" /\ told'[task'[d]] = "nothing"
    <3>1. \A d \in Clients : d # c /\ task'[d] \in Tasks =>
            task'[d] = task[d] /\ status'[task'[d]] = status[task[d]]
      BY <1>3, <2>2
    <3>2. task'[c] = t /\ status'[t] = "pending"
      BY <1>2, <1>3
    <3> QED
      BY <1>4, <2>1, <3>1, <3>2 DEF HeardInv, AskersAreOne
  <2>4. \A d, e \in Clients : task'[d] \in Tasks /\ task'[d] = task'[e] => d = e
    BY <1>3, <2>2 DEF HeardInv, AskersAreOne
  <2>5. ASSUME NEW u \in Tasks, status'[u] # "absent", told'[u] = "nothing"
        PROVE  \E d \in Clients : task'[d] = u
    <3>1. CASE u = t
      BY <1>3, <3>1
    <3>2. CASE u # t
      <4>1. PICK d \in Clients : task[d] = u
        BY <1>3, <1>4, <2>5, <3>2 DEF HeardInv, AskersAreOne
      <4>2. d # c
        BY <1>2, <4>1, GatewayAssumption
      <4> QED
        BY <1>3, <4>1, <4>2
    <3> QED
      BY <3>1, <3>2
  <2>6. \A u \in Tasks : status'[u] = "absent" => told'[u] = "nothing"
    BY <1>3, <1>4 DEF HeardInv, AskersAreOne
  <2> QED
    BY <2>3, <2>4, <2>5, <2>6 DEF AskersAreOne
<1>11. /\ \A d \in Clients \ {c} : pc'[d] = pc[d]
       /\ pc'[c] \in {"waiting", "replying"}
  BY DEF Enqueue, GTypeOK
<1>12. WaitsEnd'
  <2>1. waited[c] = 0 /\ (mode = "lambda" => age[c] <= ApiTimeout) /\ age[c] \in Nat
    BY <1>2 DEF HeardInv, WaitsEnd, InHandler, GTypeOK
  <2> QED
    BY <1>4, <1>11, <2>1 DEF HeardInv, WaitsEnd
<1>13. CountedHasNone'
  BY <1>3, <1>11 DEF HeardInv, CountedHasNone
<1> QED
  BY <1>6, <1>8, <1>9, <1>10, <1>12, <1>13 DEF HeardInv

(* The worker writes a verdict that the table bears out, and takes nothing    *)
(* back that a read may show or a client was told.                            *)
LEMMA VerdictKeepsHeard ==
  ASSUME GTypeOK, HeardInv, NEW t \in Tasks, NEW w \in Verdicts, WriteTask(t, w),
         NEW b, bill' = [bill EXCEPT ![t] = b], b = "due" => w = "succeeded",
         b = "raised" => w = "failed", status[t] # "absent",
         UNCHANGED <<mode, callVars, task, troubles, told>>,
         \A v : BorneOut(t, v) => BorneOut(t, v)'
  PROVE  HeardInv'
<1>1. /\ \A u \in Tasks : status'[u] = IF u = t THEN w ELSE status[u]
      /\ \A u \in Tasks : reads'[u] = IF u = t THEN After(w, reads[u]) ELSE reads[u]
      /\ \A u \in Tasks : bill'[u] = IF u = t THEN b ELSE bill[u]
  BY DEF WriteTask, GTypeOK
<1>2. \A u \in Tasks : \A v : BorneOut(u, v) => BorneOut(u, v)'
  BY <1>1 DEF BorneOut
<1>3. BillsAgree'
  BY <1>1 DEF HeardInv, BillsAgree
<1>4. ReadsAreTrue'
  <2>1. BorneOut(t, w)'
    BY <1>1 DEF BorneOut, Verdicts
  <2>2. \A v \in reads'[t] : v = w \/ v \in reads[t]
    <3>1. reads'[t] = After(w, reads[t])
      BY <1>1
    <3>2. \A v \in After(w, reads[t]) : v = w \/ v \in reads[t]
      BY DEF After
    <3> QED
      BY <3>1, <3>2
  <2>3. \A v \in reads'[t] : BorneOut(t, v)'
    BY <1>2, <2>1, <2>2 DEF HeardInv, ReadsAreTrue
  <2>4. mode = "process" => reads'[t] = {status'[t]}
    BY <1>1 DEF After
  <2>5. \A u \in Tasks : u # t => reads'[u] = reads[u] /\ status'[u] = status[u]
    BY <1>1
  <2>6. \A u \in Tasks : u # t => \A v \in reads'[u] : BorneOut(u, v)'
    BY <1>2, <2>5 DEF HeardInv, ReadsAreTrue
  <2> QED
    BY <2>3, <2>4, <2>5, <2>6 DEF HeardInv, ReadsAreTrue
<1>5. ToldIsTrue'
  BY <1>2 DEF HeardInv, ToldIsTrue
<1>6. \A u \in Tasks : status'[u] = "absent" <=> status[u] = "absent"
  BY <1>1 DEF Verdicts
<1>7. AskersAreOne'
  <2>1. \A u \in Tasks : status'[u] = "absent" => told'[u] = "nothing"
    BY <1>6 DEF HeardInv, AskersAreOne
  <2>2. \A d \in Clients : task'[d] \in Tasks =>
          status'[task'[d]] # "absent" /\ told'[task'[d]] = "nothing"
    BY <1>6 DEF HeardInv, AskersAreOne
  <2>3. \A d, e \in Clients : task'[d] \in Tasks /\ task'[d] = task'[e] => d = e
    BY DEF HeardInv, AskersAreOne
  <2>4. \A u \in Tasks : status'[u] # "absent" /\ told'[u] = "nothing" =>
          \E d \in Clients : task'[d] = u
    BY <1>6 DEF HeardInv, AskersAreOne
  <2> QED
    BY <2>1, <2>2, <2>3, <2>4 DEF AskersAreOne
<1>8. WaitsEnd' /\ CountedHasNone'
  BY DEF HeardInv, WaitsEnd, CountedHasNone, callVars
<1> QED
  BY <1>3, <1>4, <1>5, <1>7, <1>8 DEF HeardInv

LEMMA WorkerEndsKeepsHeard ==
  ASSUME GTypeOK, HeardInv, NEW t \in Tasks, WorkerEnds(t)
  PROVE  HeardInv'
<1>1. PICK w \in Verdicts :
         WriteTask(t, w) /\ bill' = [bill EXCEPT ![t] = IF w = "succeeded" THEN "due" ELSE @]
  BY DEF WorkerEnds
<1>2. status[t] = "pending" /\ UNCHANGED <<mode, callVars, task, troubles, told>>
  BY DEF WorkerEnds
<1>3. bill[t] \notin {"due", "raised"}
  BY <1>2 DEF HeardInv, BillsAgree
<1>4. PICK b : /\ bill' = [bill EXCEPT ![t] = b]
               /\ b = "due" => w = "succeeded"
               /\ b # "raised"
  BY <1>1, <1>3
<1>5. \A v : BorneOut(t, v) => v \notin Verdicts
  BY <1>2, <1>3 DEF BorneOut, Verdicts
<1>6. \A v : v \notin Verdicts => BorneOut(t, v)'
  BY DEF BorneOut, Verdicts
<1> QED
  BY <1>1, <1>2, <1>4, <1>5, <1>6, VerdictKeepsHeard

LEMMA ChargeKeepsHeard ==
  ASSUME GTypeOK, HeardInv, NEW t \in Tasks, Charge(t) \/ ChargeRaises(t)
  PROVE  HeardInv'
<1>1. bill[t] = "due" /\ UNCHANGED <<mode, callVars, task, troubles, told>>
  BY DEF Charge, ChargeRaises
<1>2. status[t] = "succeeded"
  BY <1>1 DEF HeardInv, BillsAgree
<1>3. CASE Charge(t)
  <2>1. /\ UNCHANGED <<status, reads>>
        /\ \A u \in Tasks : bill'[u] = IF u = t THEN "settled" ELSE bill[u]
    BY <1>3 DEF Charge, GTypeOK
  <2>2. \A u \in Tasks : bill'[u] = "raised" <=> bill[u] = "raised"
    BY <1>1, <2>1
  <2>3. \A u \in Tasks : \A v : BorneOut(u, v) => BorneOut(u, v)'
    BY <2>1, <2>2 DEF BorneOut
  <2>4. BillsAgree'
    BY <2>1 DEF HeardInv, BillsAgree
  <2>5. ReadsAreTrue' /\ ToldIsTrue'
    BY <1>1, <2>1, <2>3 DEF HeardInv, ReadsAreTrue, ToldIsTrue
  <2>6. AskersAreOne' /\ WaitsEnd' /\ CountedHasNone'
    BY <1>1, <2>1 DEF HeardInv, AskersAreOne, WaitsEnd, CountedHasNone, callVars
  <2> QED
    BY <2>4, <2>5, <2>6 DEF HeardInv
<1>4. CASE ChargeRaises(t)
  <2>1. WriteTask(t, "failed") /\ bill' = [bill EXCEPT ![t] = "raised"]
    BY <1>4 DEF ChargeRaises
  <2>2. status'[t] = "failed" /\ bill'[t] = "raised"
    BY <2>1 DEF WriteTask, GTypeOK
  <2>3. \A v : BorneOut(t, v)'
    BY <2>2 DEF BorneOut
  <2> QED
    BY <1>1, <1>2, <2>1, <2>3, VerdictKeepsHeard DEF Verdicts
<1> QED
  BY <1>3, <1>4

LEMMA CallsKept ==
  ASSUME HeardInv, UNCHANGED <<mode, callVars, task>>
  PROVE  WaitsEnd' /\ CountedHasNone'
BY DEF HeardInv, WaitsEnd, CountedHasNone, callVars

LEMMA ReplicateKeepsHeard ==
  ASSUME GTypeOK, HeardInv, NEW t \in Tasks, Replicate(t)
  PROVE  HeardInv'
<1>1. /\ UNCHANGED <<mode, callVars, task, troubles, status, bill, told>>
      /\ reads' = [reads EXCEPT ![t] = {status[t]}]
  BY DEF Replicate
<1>2. \A u \in Tasks : reads'[u] = IF u = t THEN {status[u]} ELSE reads[u]
  BY <1>1 DEF GTypeOK
<1>3. BillsAgree' /\ ReadsAreTrue'
  <2>1. \A u \in Tasks : BorneOut(u, status[u])
    BY DEF BorneOut
  <2> QED
    BY <1>1, <1>2, <2>1 DEF HeardInv, BillsAgree, ReadsAreTrue, BorneOut
<1> QED
  BY <1>1, <1>3, ToldKept, CallsKept DEF HeardInv, TroublesMayGrow

LEMMA TickKeepsHeard ==
  ASSUME GTypeOK, HeardInv, Tick
  PROVE  HeardInv'
<1>1. UNCHANGED <<mode, pc, task, troubles, taskVars, told>>
  BY DEF Tick
<1>2. WaitsEnd'
  <2> SUFFICES ASSUME NEW c \in Clients
               PROVE  /\ pc'[c] # "waiting" => waited'[c] = 0
                      /\ mode' = "lambda" /\ pc'[c] \in InHandler =>
                           waited'[c] <= age'[c] /\ age'[c] <= ApiTimeout
    BY DEF WaitsEnd
  <2>1. waited'[c] = IF pc[c] = "waiting" THEN waited[c] + 1 ELSE 0
    BY DEF Tick
  <2>2. ASSUME mode = "lambda", pc[c] \in InHandler
        PROVE  waited'[c] <= age'[c] /\ age'[c] <= ApiTimeout
    <3>1. age[c] < ApiTimeout /\ waited[c] <= age[c]
      BY <2>2 DEF Tick, HeardInv, WaitsEnd
    <3>2. age'[c] = Older(age[c], Horizon)
      BY <2>2 DEF Tick
    <3>3. age[c] \in Nat /\ waited[c] \in Nat
      BY DEF GTypeOK
    <3>4. age[c] < Horizon
      BY <3>1, <3>3, GatewayAssumption DEF Horizon
    <3>5. age'[c] = age[c] + 1
      BY <3>2, <3>4 DEF Older
    <3> QED
      BY <2>1, <3>1, <3>3, <3>5, GatewayAssumption
  <2> QED
    BY <1>1, <2>1, <2>2
<1>3. CountedHasNone'
  BY <1>1 DEF HeardInv, CountedHasNone
<1> QED
  BY <1>1, <1>2, <1>3, ToldKept, TableKept DEF HeardInv, TroublesMayGrow, taskVars

-----------------------------------------------------------------------------
LEMMA HeardStep == GTypeOK /\ HeardInv /\ [GNext]_gwVars => HeardInv'
<1> SUFFICES ASSUME GTypeOK, HeardInv PROVE [GNext]_gwVars => HeardInv'
  OBVIOUS
<1>1. ASSUME UNCHANGED <<mode, callVars, task, taskVars, told>>, TroublesMayGrow PROVE HeardInv'
  BY <1>1, TableKept, ToldKept, CallsKept DEF HeardInv, taskVars
<1>2. ASSUME Issue \/ Revoke \/ ReplicateKey PROVE HeardInv'
  BY <1>1, <1>2 DEF Issue, Revoke, WriteKey, ReplicateKey, TroublesMayGrow
<1>3. ASSUME Tick PROVE HeardInv'
  BY <1>3, TickKeepsHeard
<1>4. ASSUME NEW c \in Clients, Send(c) \/ AuthMiss(c) PROVE HeardInv'
  <2>1. /\ UNCHANGED <<mode, taskVars, task, troubles, told, waited>>
        /\ pc[c] # "waiting" /\ age' = [age EXCEPT ![c] = 0]
    BY <1>4 DEF Send, AuthMiss
  <2>2. PICK to \in {"sent", "verifying"} : pc' = [pc EXCEPT ![c] = to]
    BY <1>4 DEF Send, AuthMiss
  <2>3. age'[c] \in Nat /\ \A d \in Clients \ {c} : age'[d] = age[d]
    BY <2>1 DEF GTypeOK
  <2>4. to \in PCs \ {"waiting"} /\ to \notin InHandler /\ to # "counted"
    BY <2>2 DEF PCs, InHandler, InAuthorizer
  <2> QED
    BY <2>1, <2>2, <2>3, <2>4, GoesOnKeepsHeard
<1>5. ASSUME NEW c \in Clients, Verify(c) \/ VerifyFault(c) PROVE HeardInv'
  <2>1. /\ UNCHANGED <<mode, taskVars, task, troubles, told, waited>>
        /\ pc[c] # "waiting" /\ age' = age
    BY <1>5 DEF Verify, VerifyFault
  <2>2. PICK to \in {"allowed", "rejected"} : pc' = [pc EXCEPT ![c] = to]
    BY <1>5 DEF Verify, VerifyFault
  <2>3. age'[c] \in Nat /\ \A d \in Clients \ {c} : age'[d] = age[d]
    BY <2>1 DEF GTypeOK
  <2>4. to \in PCs \ {"waiting"} /\ to \notin InHandler /\ to # "counted"
    BY <2>2 DEF PCs, InHandler, InAuthorizer
  <2> QED
    BY <2>1, <2>2, <2>3, <2>4, GoesOnKeepsHeard
<1>6. ASSUME NEW c \in Clients, RequireKey(c) \/ AuthHit(c) \/ Authorized(c) PROVE HeardInv'
  <2>1. UNCHANGED <<mode, taskVars, troubles>> /\ pc[c] # "waiting"
    BY <1>6 DEF RequireKey, AuthHit, Authorized
  <2>2. Admit(c) \/ Reject(c)
    BY <1>6 DEF RequireKey, AuthHit, Authorized
  <2> QED
    BY <2>1, <2>2, AnsweredKeepsHeard
<1>7. ASSUME NEW c \in Clients, Decline(c) \/ Accept(c) PROVE HeardInv'
  <2>1. Return(c) /\ UNCHANGED <<mode, taskVars, task, told>> /\ TroublesMayGrow
    BY <1>7 DEF Decline, Accept, TroublesMayGrow
  <2> QED
    BY <2>1, ReturnedKeepsHeard
<1>8. ASSUME NEW c \in Clients, Count(c) PROVE HeardInv'
  <2>1. /\ UNCHANGED <<mode, taskVars, task, troubles, told, waited, age>>
        /\ pc[c] = "handling" /\ task[c] = NoTask /\ pc' = [pc EXCEPT ![c] = "counted"]
    BY <1>8 DEF Count
  <2>2. age'[c] \in Nat
    BY <2>1 DEF GTypeOK
  <2>3. "counted" \in PCs \ {"waiting"} /\ pc[c] \in InHandler
    BY <2>1 DEF PCs, InHandler
  <2> QED
    BY <2>1, <2>2, <2>3, GoesOnKeepsHeard
<1>9. ASSUME NEW c \in Clients, Enqueue(c) PROVE HeardInv'
  BY <1>9, EnqueueKeepsHeard
<1>10. ASSUME NEW c \in Clients, AnswerPoll(c) PROVE HeardInv'
  <2>1. Return(c) /\ UNCHANGED <<mode, taskVars>> /\ TroublesMayGrow /\ task[c] \in Tasks
    BY <1>10 DEF AnswerPoll, TroublesMayGrow, GTypeOK
  <2>2. PICK read \in reads[task[c]] :
          IF Finding(read) = "pending" THEN UNCHANGED <<task, told>> ELSE Conclude(c, Finding(read))
    BY <1>10 DEF AnswerPoll
  <2>3. read \in Statuses
    BY <2>1, <2>2 DEF GTypeOK
  <2>4. CASE Finding(read) = "pending"
    BY <2>1, <2>2, <2>4, ReturnedKeepsHeard
  <2>5. CASE Finding(read) # "pending"
    <3>1. Finding(read) \in Reasons \ {"nothing", "timed out", "cut off"} /\ Conclude(c, Finding(read))
      BY <2>2, <2>3, <2>5 DEF Finding, Statuses, Reasons, Verdicts
    <3>2. BorneOut(task[c], Finding(read))
      BY <2>1, <2>2 DEF Finding, BorneOut, HeardInv, ReadsAreTrue
    <3>3. Finding(read) = "not found" => mode = "lambda"
      <4>1. read = "absent" => mode # "process"
        BY <2>1, <2>2 DEF HeardInv, ReadsAreTrue, AskersAreOne
      <4>2. Finding(read) = "not found" => read = "absent"
        BY <2>3 DEF Finding, Statuses, Verdicts
      <4> QED
        BY <4>1, <4>2 DEF GTypeOK
    <3> QED
      BY <2>1, <3>1, <3>2, <3>3, ConcludedKeepsHeard
  <2> QED
    BY <2>4, <2>5
<1>11. ASSUME NEW c \in Clients, Look(c) PROVE HeardInv'
  <2>1. Return(c) /\ UNCHANGED <<mode, taskVars>> /\ TroublesMayGrow /\ pc[c] = "waiting"
    BY <1>11 DEF Look, TroublesMayGrow
  <2>2. PICK read \in reads[task[c]] :
          \/ read \in Verdicts /\ Conclude(c, read)
          \/ read \notin Verdicts /\ waited[c] >= ImageWait /\ Conclude(c, "timed out")
    BY <1>11 DEF Look
  <2>3. CASE read \in Verdicts /\ Conclude(c, read)
    <3>1. read \in Reasons \ {"nothing", "timed out", "not found", "cut off"}
      BY <2>3 DEF Reasons, Verdicts
    <3>2. task[c] \in Tasks => BorneOut(task[c], read)
      BY <2>2, <2>3 DEF HeardInv, ReadsAreTrue
    <3> QED
      BY <2>1, <2>3, <3>1, <3>2, ConcludedKeepsHeard
  <2>4. CASE waited[c] >= ImageWait /\ Conclude(c, "timed out")
    <3>1. "timed out" \in Reasons \ {"nothing"} /\ \A t \in Tasks : BorneOut(t, "timed out")
      BY DEF Reasons, BorneOut
    <3>2. mode = "process" \/ ImageWait <= ApiTimeout
      <4>1. ASSUME mode = "lambda" PROVE ImageWait <= ApiTimeout
        <5>1. waited[c] <= age[c] /\ age[c] <= ApiTimeout
          BY <2>1, <4>1 DEF HeardInv, WaitsEnd, InHandler
        <5>2. waited[c] \in Nat /\ age[c] \in Nat /\ ImageWait <= waited[c]
          BY <2>4 DEF GTypeOK
        <5>3. ImageWait \in Nat /\ ApiTimeout \in Nat
          BY GatewayAssumption
        <5> QED
          BY <5>1, <5>2, <5>3
      <4> QED
        BY <4>1 DEF GTypeOK
    <3> QED
      BY <2>1, <2>4, <3>1, <3>2, ConcludedKeepsHeard
  <2> QED
    BY <2>2, <2>3, <2>4
<1>12. ASSUME NEW c \in Clients, CutOff(c) \/ BreakOff(c) PROVE HeardInv'
  <2>1. Return(c) /\ UNCHANGED <<mode, taskVars>>
    BY <1>12 DEF CutOff, BreakOff, Abandon
  <2>2. Conclude(c, "cut off") \/ UNCHANGED <<task, told>>
    BY <1>12 DEF CutOff, BreakOff, Abandon
  <2>3. "cut off" \in Reasons \ {"nothing"} /\ \A t \in Tasks : BorneOut(t, "cut off")
    BY DEF Reasons, BorneOut
  <2>4. TroublesMayGrow /\ (mode = "lambda" \/ troubles' = troubles + 1)
    BY <1>12 DEF CutOff, BreakOff, TroublesMayGrow
  <2>5. mode = "lambda" \/ troubles' > 0
    <3>1. troubles \in Nat
      BY DEF GTypeOK
    <3> QED
      BY <2>4, <3>1
  <2>6. CASE Conclude(c, "cut off")
    BY <2>1, <2>3, <2>4, <2>5, <2>6, ConcludedKeepsHeard
  <2>7. CASE UNCHANGED <<task, told>>
    BY <2>1, <2>4, <2>7, ReturnedKeepsHeard
  <2> QED
    BY <2>2, <2>6, <2>7
<1>13. ASSUME NEW t \in Tasks, WorkerEnds(t) PROVE HeardInv'
  BY <1>13, WorkerEndsKeepsHeard
<1>14. ASSUME NEW t \in Tasks, Charge(t) \/ ChargeRaises(t) PROVE HeardInv'
  BY <1>14, ChargeKeepsHeard
<1>15. ASSUME NEW t \in Tasks, Replicate(t) PROVE HeardInv'
  BY <1>15, ReplicateKeepsHeard
<1>16. ASSUME NEW c \in Clients, CountLost(c) PROVE HeardInv'
  BY <1>1, <1>16 DEF CountLost, TroublesMayGrow
<1>17. ASSUME UNCHANGED gwVars PROVE HeardInv'
  BY <1>1, <1>17 DEF gwVars, TroublesMayGrow
<1> QED
  BY <1>2, <1>3, <1>4, <1>5, <1>6, <1>7, <1>8, <1>9, <1>10, <1>11, <1>12, <1>13, <1>14, <1>15,
     <1>16, <1>17 DEF GNext, Serve, Mishap

(* A client is told that its task failed only if it did, for good, and that   *)
(* it succeeded only if it did, which a charge that raises may yet take back; *)
(* it gives a task up as unknown only where reads are stale, and loses it     *)
(* only to a call that broke off or a Lambda's Timeout; and every task has    *)
(* one client asking or one that was told (the routes of main.py and api.py,  *)
(* get of both stores, the except of worker.py:75).                           *)
THEOREM WhatIsHeardIsTrue == GSpec => []HeardIsTrue
<1>1. ASSUME HeardInv PROVE HeardIsTrue
  <2>1. ASSUME NEW t \in Tasks
        PROVE  Cardinality({c \in Clients : task[c] = t})
                 = IF status[t] # "absent" /\ told[t] = "nothing" THEN 1 ELSE 0
    <3>1. CASE status[t] # "absent" /\ told[t] = "nothing"
      <4>1. PICK c \in Clients : task[c] = t
        BY <1>1, <3>1 DEF HeardInv, AskersAreOne
      <4>2. {d \in Clients : task[d] = t} = {c}
        BY <1>1, <4>1 DEF HeardInv, AskersAreOne
      <4> QED
        BY <3>1, <4>2, FS_Singleton
    <3>2. CASE ~ (status[t] # "absent" /\ told[t] = "nothing")
      <4>1. {d \in Clients : task[d] = t} = {}
        BY <1>1, <3>2 DEF HeardInv, AskersAreOne
      <4> QED
        BY <3>2, <4>1, FS_EmptySet
    <3> QED
      BY <3>1, <3>2
  <2> QED
    BY <1>1, <2>1 DEF HeardIsTrue, HeardInv, ToldIsTrue, BorneOut
<1>2. GSpec => [](GTypeOK /\ HeardInv)
  BY GTypeInit, GTypeStep, HeardInit, HeardStep, PTL DEF GSpec
<1> QED
  BY <1>1, <1>2, PTL

-----------------------------------------------------------------------------
(* The submits counted and not yet tasks, and the tasks.                      *)
Counting == {c \in Clients : pc[c] = "counted"}
Present  == Tasks \ Absent

LEMMA AccountInit == GInit => SubmitsAccounted
<1> SUFFICES ASSUME GInit PROVE SubmitsAccounted
  OBVIOUS
<1>1. Counting = {} /\ Present = {} /\ counted = 0 /\ troubles = 0
  BY DEF GInit, Counting, Present, Absent
<1>2. Cardinality(Counting) = 0 /\ Cardinality(Present) = 0
  BY <1>1, FS_EmptySet
<1> QED
  BY <1>1, <1>2 DEF SubmitsAccounted, Counting, Present

(* A call elsewhere than between count and insert.                            *)
LEMMA CountingKept ==
  ASSUME GTypeOK, NEW c \in Clients, pc[c] # "counted", pc'[c] # "counted",
         \A d \in Clients \ {c} : pc'[d] = pc[d]
  PROVE  Counting' = Counting
BY DEF Counting

(* No submit is counted for nothing but for something that went wrong: in a   *)
(* step, n of them, of f things.                                              *)
LEMMA AccountChanged ==
  ASSUME IsFiniteSet(Clients), IsFiniteSet(Tasks), GTypeOK, SubmitsAccounted,
         NEW n \in Nat, NEW f \in Nat, n <= f, counted' \in Nat,
         counted' - Cardinality(Counting)' - Cardinality(Present)'
           = counted - Cardinality(Counting) - Cardinality(Present) + n,
         troubles' = troubles + f,
         IsFiniteSet(Counting'), IsFiniteSet(Present')
  PROVE  SubmitsAccounted'
<1>1. IsFiniteSet(Counting) /\ IsFiniteSet(Present)
  BY FS_Subset DEF Counting, Present
<1>2. /\ Cardinality(Counting) \in Nat /\ Cardinality(Present) \in Nat
      /\ Cardinality(Counting)' \in Nat /\ Cardinality(Present)' \in Nat
  BY <1>1, FS_CardinalityType
<1>3. counted \in Nat /\ troubles \in Nat
  BY DEF GTypeOK
<1>4. /\ Cardinality(Present) + Cardinality(Counting) <= counted
      /\ counted <= Cardinality(Present) + Cardinality(Counting) + troubles
  BY DEF SubmitsAccounted, Counting, Present
<1>5. /\ Cardinality(Present)' + Cardinality(Counting)' <= counted'
      /\ counted' <= Cardinality(Present)' + Cardinality(Counting)' + troubles'
  BY <1>2, <1>3, <1>4
<1> QED
  BY <1>5 DEF SubmitsAccounted, Counting, Present

(* The sets stay, and no more is counted for nothing than went wrong.         *)
LEMMA AccountKept ==
  ASSUME IsFiniteSet(Clients), IsFiniteSet(Tasks), GTypeOK, SubmitsAccounted,
         Counting' = Counting, Present' = Present,
         NEW n \in Nat, NEW f \in Nat, n <= f, counted' = counted + n, troubles' = troubles + f
  PROVE  SubmitsAccounted'
<1>1. IsFiniteSet(Counting) /\ IsFiniteSet(Present)
  BY FS_Subset DEF Counting, Present
<1>2. /\ Cardinality(Counting) \in Nat /\ Cardinality(Present) \in Nat
      /\ Cardinality(Counting)' = Cardinality(Counting)
      /\ Cardinality(Present)' = Cardinality(Present)
  BY <1>1, FS_CardinalityType
<1>3. counted \in Nat
  BY DEF GTypeOK
<1>4. /\ counted' - Cardinality(Counting)' - Cardinality(Present)'
           = counted - Cardinality(Counting) - Cardinality(Present) + n
      /\ counted' \in Nat
  BY <1>2, <1>3
<1> QED
  BY <1>1, <1>4, AccountChanged

LEMMA CountAccounted ==
  ASSUME IsFiniteSet(Clients), IsFiniteSet(Tasks), GTypeOK, SubmitsAccounted,
         NEW c \in Clients, Count(c)
  PROVE  SubmitsAccounted'
<1>1. /\ pc[c] = "handling" /\ pc' = [pc EXCEPT ![c] = "counted"]
      /\ counted' = counted + 1 /\ UNCHANGED <<status, troubles>>
  BY DEF Count, taskVars
<1>2. Counting' = Counting \cup {c} /\ c \notin Counting
  BY <1>1 DEF Counting, GTypeOK
<1>3. Present' = Present
  BY <1>1 DEF Present, Absent
<1>4. IsFiniteSet(Counting) /\ IsFiniteSet(Present)
  BY FS_Subset DEF Counting, Present
<1>5. Cardinality(Counting)' = Cardinality(Counting) + 1 /\ IsFiniteSet(Counting')
  BY <1>2, <1>4, FS_AddElement
<1>6. Cardinality(Present)' = Cardinality(Present)
  BY <1>3
<1>7. counted \in Nat /\ troubles \in Nat /\ Cardinality(Counting) \in Nat
      /\ Cardinality(Present) \in Nat
  BY <1>4, FS_CardinalityType DEF GTypeOK
<1>8. /\ counted' - Cardinality(Counting)' - Cardinality(Present)'
           = counted - Cardinality(Counting) - Cardinality(Present) + 0
      /\ counted' \in Nat /\ troubles' = troubles + 0
  BY <1>1, <1>5, <1>6, <1>7
<1> QED
  BY <1>3, <1>4, <1>5, <1>8, AccountChanged

LEMMA EnqueueAccounted ==
  ASSUME IsFiniteSet(Clients), IsFiniteSet(Tasks), GTypeOK, SubmitsAccounted,
         NEW c \in Clients, Enqueue(c)
  PROVE  SubmitsAccounted'
<1>1. PICK t \in Absent : status' = [status EXCEPT ![t] = "pending"]
  BY DEF Enqueue, WriteTask
<1>2. PICK to \in {"waiting", "replying"} : pc' = [pc EXCEPT ![c] = to]
  BY DEF Enqueue
<1>3. pc[c] = "counted" /\ UNCHANGED <<counted, troubles>>
  BY DEF Enqueue
<1>4. Counting' = Counting \ {c} /\ c \in Counting
  BY <1>2, <1>3 DEF Counting, GTypeOK
<1>5. Present' = Present \cup {t} /\ t \notin Present
  BY <1>1 DEF Present, Absent, GTypeOK
<1>6. IsFiniteSet(Counting) /\ IsFiniteSet(Present)
  BY FS_Subset DEF Counting, Present
<1>7. Cardinality(Counting)' = Cardinality(Counting) - 1 /\ IsFiniteSet(Counting')
  BY <1>4, <1>6, FS_RemoveElement
<1>8. Cardinality(Present)' = Cardinality(Present) + 1 /\ IsFiniteSet(Present')
  BY <1>5, <1>6, FS_AddElement
<1>9. counted \in Nat /\ troubles \in Nat /\ Cardinality(Counting) \in Nat
      /\ Cardinality(Present) \in Nat
  BY <1>6, FS_CardinalityType DEF GTypeOK
<1>10. /\ counted' - Cardinality(Counting)' - Cardinality(Present)'
            = counted - Cardinality(Counting) - Cardinality(Present) + 0
       /\ counted' \in Nat /\ troubles' = troubles + 0
  BY <1>3, <1>7, <1>8, <1>9
<1> QED
  BY <1>7, <1>8, <1>10, AccountChanged

(* A call that is given up between count and insert was counted for nothing,  *)
(* and something went wrong: an image's wait is not there.                    *)
LEMMA AbandonAccounted ==
  ASSUME IsFiniteSet(Clients), IsFiniteSet(Tasks), GTypeOK, SubmitsAccounted,
         NEW c \in Clients, CutOff(c) \/ BreakOff(c)
  PROVE  SubmitsAccounted'
<1>1. pc' = [pc EXCEPT ![c] = "idle"] /\ UNCHANGED <<status, counted>>
  BY DEF CutOff, BreakOff, Abandon, Return, taskVars
<1>2. Present' = Present
  BY <1>1 DEF Present, Absent
<1>3. counted \in Nat /\ troubles \in Nat
  BY DEF GTypeOK
<1>4. ASSUME pc[c] # "counted" PROVE SubmitsAccounted'
  <2>1. Counting' = Counting
    BY <1>1, <1>4, CountingKept DEF GTypeOK
  <2>2. PICK f \in {0, 1} : troubles' = troubles + f
    BY <1>3 DEF CutOff, BreakOff
  <2>3. counted' = counted + 0
    BY <1>1, <1>3
  <2> QED
    BY <1>2, <2>1, <2>2, <2>3, AccountKept
<1>5. ASSUME pc[c] = "counted" PROVE SubmitsAccounted'
  <2>1. troubles' = troubles + 1
    BY <1>5 DEF CutOff, BreakOff
  <2>2. Counting' = Counting \ {c} /\ c \in Counting
    BY <1>1, <1>5 DEF Counting, GTypeOK
  <2>3. IsFiniteSet(Counting) /\ IsFiniteSet(Present)
    BY FS_Subset DEF Counting, Present
  <2>4. Cardinality(Counting)' = Cardinality(Counting) - 1 /\ IsFiniteSet(Counting')
    BY <2>2, <2>3, FS_RemoveElement
  <2>5. Cardinality(Present)' = Cardinality(Present)
    BY <1>2
  <2>6. Cardinality(Counting) \in Nat /\ Cardinality(Present) \in Nat
    BY <2>3, FS_CardinalityType
  <2>7. /\ counted' - Cardinality(Counting)' - Cardinality(Present)'
             = counted - Cardinality(Counting) - Cardinality(Present) + 1
        /\ counted' \in Nat
    BY <1>1, <1>3, <2>4, <2>5, <2>6
  <2> QED
    BY <1>2, <2>1, <2>3, <2>4, <2>7, AccountChanged
<1> QED
  BY <1>4, <1>5

LEMMA AccountStep ==
  ASSUME IsFiniteSet(Clients), IsFiniteSet(Tasks)
  PROVE  GTypeOK /\ HeardInv /\ SubmitsAccounted /\ [GNext]_gwVars => SubmitsAccounted'
<1> SUFFICES ASSUME GTypeOK, HeardInv, SubmitsAccounted PROVE [GNext]_gwVars => SubmitsAccounted'
  OBVIOUS
<1>1. ASSUME Counting' = Counting, Present' = Present, UNCHANGED <<counted, troubles>>
      PROVE  SubmitsAccounted'
  <2>1. counted \in Nat /\ troubles \in Nat
    BY DEF GTypeOK
  <2>2. counted' = counted + 0 /\ troubles' = troubles + 0
    BY <1>1, <2>1
  <2> QED
    BY <1>1, <2>2, AccountKept
<1>2. ASSUME Issue \/ Revoke \/ ReplicateKey \/ Tick \/ UNCHANGED gwVars PROVE SubmitsAccounted'
  <2>1. UNCHANGED <<pc, status, troubles, counted>>
    BY <1>2 DEF Issue, Revoke, WriteKey, ReplicateKey, Tick, gwVars, callVars, taskVars
  <2> QED
    BY <1>1, <2>1 DEF Counting, Present, Absent
<1>3. ASSUME NEW c \in Clients, NEW to \in PCs \ {"counted"}, pc[c] # "counted",
             pc' = [pc EXCEPT ![c] = to], UNCHANGED <<status, troubles, counted>>
      PROVE  SubmitsAccounted'
  <2>1. Counting' = Counting
    BY <1>3, CountingKept DEF GTypeOK
  <2>2. Present' = Present
    BY <1>3 DEF Present, Absent
  <2> QED
    BY <1>1, <1>3, <2>1, <2>2
<1>4. ASSUME NEW c \in Clients, Send(c) \/ AuthMiss(c) \/ Verify(c) \/ VerifyFault(c)
      PROVE  SubmitsAccounted'
  <2>1. pc[c] # "counted" /\ UNCHANGED <<status, troubles, counted>>
    BY <1>4 DEF Send, AuthMiss, Verify, VerifyFault, taskVars
  <2>2. PICK to \in {"sent", "verifying", "allowed", "rejected"} : pc' = [pc EXCEPT ![c] = to]
    BY <1>4 DEF Send, AuthMiss, Verify, VerifyFault
  <2> QED
    BY <1>3, <2>1, <2>2 DEF PCs, InAuthorizer
<1>5. ASSUME NEW c \in Clients, RequireKey(c) \/ AuthHit(c) \/ Authorized(c)
      PROVE  SubmitsAccounted'
  <2>1. pc[c] # "counted" /\ UNCHANGED <<status, troubles, counted>>
    BY <1>5 DEF RequireKey, AuthHit, Authorized, taskVars
  <2>2. PICK to \in {"handling", "idle"} : pc' = [pc EXCEPT ![c] = to]
    BY <1>5 DEF RequireKey, AuthHit, Authorized, Admit, Reject, Return
  <2> QED
    BY <1>3, <2>1, <2>2 DEF PCs, InHandler
<1>6. ASSUME NEW c \in Clients, Decline(c) \/ Accept(c) \/ AnswerPoll(c) \/ Look(c)
      PROVE  SubmitsAccounted'
  <2>1. pc[c] # "counted" /\ UNCHANGED <<status, troubles, counted>>
    BY <1>6 DEF Decline, Accept, AnswerPoll, Look, taskVars
  <2>2. pc' = [pc EXCEPT ![c] = "idle"]
    BY <1>6 DEF Decline, Accept, AnswerPoll, Look, Return
  <2> QED
    BY <1>3, <2>1, <2>2 DEF PCs
<1>7. ASSUME NEW t \in Tasks, WorkerEnds(t) \/ Charge(t) \/ ChargeRaises(t) \/ Replicate(t)
      PROVE  SubmitsAccounted'
  <2>1. UNCHANGED <<pc, troubles, counted>>
    BY <1>7 DEF WorkerEnds, Charge, ChargeRaises, Replicate, callVars
  <2>2. Absent' = Absent
    <3>1. CASE WorkerEnds(t)
      BY <3>1 DEF WorkerEnds, WriteTask, Absent, Verdicts, GTypeOK
    <3>2. CASE ChargeRaises(t)
      BY <3>2 DEF ChargeRaises, WriteTask, Absent, HeardInv, BillsAgree, GTypeOK
    <3>3. CASE Charge(t) \/ Replicate(t)
      BY <3>3 DEF Charge, Replicate, Absent
    <3> QED
      BY <1>7, <3>1, <3>2, <3>3
  <2> QED
    BY <1>1, <2>1, <2>2 DEF Counting, Present
<1>8. ASSUME NEW c \in Clients, CountLost(c) PROVE SubmitsAccounted'
  <2>1. counted' = counted + 1 /\ troubles' = troubles + 1 /\ UNCHANGED <<pc, status>>
    BY <1>8 DEF CountLost, callVars, taskVars
  <2>2. Counting' = Counting /\ Present' = Present
    BY <2>1 DEF Counting, Present, Absent
  <2> QED
    BY <2>1, <2>2, AccountKept
<1> QED
  BY <1>2, <1>4, <1>5, <1>6, <1>7, <1>8, CountAccounted, EnqueueAccounted, AbandonAccounted
     DEF GNext, Serve, Mishap

(* Every task was counted for the key, and every submit counted is a task, is *)
(* about to be one, or was lost to something that went wrong, one to each: an *)
(* answer of the limiter lost and the count sent again, a call broken off     *)
(* between count and insert (check_and_count_submit before enqueue,           *)
(* keys.py:356, api.py:106).                                                  *)
THEOREM SubmitsAreAccounted ==
  ASSUME IsFiniteSet(Clients), IsFiniteSet(Tasks)
  PROVE  GSpec => []SubmitsAccounted
<1>1. GTypeOK /\ HeardInv /\ SubmitsAccounted /\ [GNext]_gwVars => SubmitsAccounted'
  BY AccountStep
<1> QED
  BY <1>1, GTypeInit, GTypeStep, HeardInit, HeardStep, AccountInit, PTL DEF GSpec
=============================================================================

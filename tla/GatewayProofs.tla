----------------------------- MODULE GatewayProofs -----------------------------
(***************************************************************************)
(* For every set of clients and tasks, every TTL, lag, timeout and wait:   *)
(* the routes keep their types, and a revocation takes hold within Grace   *)
(* of its happening.                                                       *)
(***************************************************************************)
EXTENDS Gateway, TLAPS

Reasons == {"nothing", "denied", "not found", "timed out", "cut off"} \cup Verdicts

LEMMA OlderType == \A n \in Nat : \A bound : Older(n, bound) \in Nat
BY DEF Older

LEMMA GTypeInit == GInit => GTypeOK
BY GatewayAssumption DEF GInit, GTypeOK, PCs, InAuthorizer, InHandler, Statuses, Verdicts,
   KeyStates, FaultHorizon

(* A write of the key, by either of the operator's commands.                  *)
LEMMA WriteKeyType ==
  ASSUME GTypeOK, NEW from \in KeyStates, NEW to \in KeyStates, WriteKey(from, to)
  PROVE  GTypeOK'
BY DEF GTypeOK, WriteKey, After, authVars, callVars, taskVars

(* What Admit, Return and Conclude leave of a call is of its type.            *)
LEMMA AdmitType ==
  ASSUME GTypeOK, NEW c \in Clients, Admit(c)
  PROVE  /\ pc' \in [Clients -> PCs] /\ age' \in [Clients -> Nat]
         /\ waited' = waited /\ task' = task /\ told' = told
BY DEF GTypeOK, Admit, PCs, InHandler
LEMMA ReturnType ==
  ASSUME GTypeOK, NEW c \in Clients, Return(c)
  PROVE  /\ pc' \in [Clients -> PCs] /\ age' \in [Clients -> Nat]
         /\ waited' \in [Clients -> Nat]
BY DEF GTypeOK, Return, PCs
LEMMA ConcludeType ==
  ASSUME GTypeOK, NEW c \in Clients, NEW why \in Reasons, Conclude(c, why)
  PROVE  task' \in [Clients -> Tasks \cup {NoTask}] /\ told' \in [Tasks -> Reasons]
BY DEF GTypeOK, Conclude, Reasons

(* A call that is let in or rejected, and changes the cache at most.          *)
LEMMA AnsweredType ==
  ASSUME GTypeOK, NEW c \in Clients, Admit(c) \/ Reject(c),
         UNCHANGED <<mode, keyVars, faults, faultAge, troubles, taskVars, counted>>,
         entry' \in {"none", "allow", "deny"}, entryAge' \in Nat
  PROVE  GTypeOK'
<1>1. /\ pc' \in [Clients -> PCs] /\ age' \in [Clients -> Nat] /\ waited' \in [Clients -> Nat]
      /\ task' \in [Clients -> Tasks \cup {NoTask}] /\ told' \in [Tasks -> Reasons]
  <2>1. "denied" \in Reasons
    BY DEF Reasons
  <2>2. CASE Admit(c)
    BY <2>2, AdmitType DEF GTypeOK, Reasons
  <2>3. CASE Reject(c)
    BY <2>1, <2>3, ReturnType, ConcludeType DEF Reject
  <2> QED
    BY <2>2, <2>3
<1> QED
  BY <1>1 DEF GTypeOK, keyVars, taskVars, Reasons

(* A call that ends, with or without a word on its task.                      *)
LEMMA ConcludedType ==
  ASSUME GTypeOK, NEW c \in Clients, Return(c),
         UNCHANGED <<mode, keyVars, authVars, troubles, taskVars, counted>>,
         UNCHANGED <<task, told>> \/ \E why \in Reasons : Conclude(c, why)
  PROVE  GTypeOK'
<1>1. task' \in [Clients -> Tasks \cup {NoTask}] /\ told' \in [Tasks -> Reasons]
  <2>1. CASE UNCHANGED <<task, told>>
    BY <2>1 DEF GTypeOK, Reasons
  <2>2. CASE \E why \in Reasons : Conclude(c, why)
    BY <2>2, ConcludeType
  <2> QED
    BY <2>1, <2>2
<1>2. /\ pc' \in [Clients -> PCs] /\ age' \in [Clients -> Nat] /\ waited' \in [Clients -> Nat]
  BY ReturnType
<1> QED
  BY <1>1, <1>2 DEF GTypeOK, keyVars, authVars, taskVars, Reasons

(* A call given up, whatever it costs.                                        *)
LEMMA AbandonedType ==
  ASSUME GTypeOK, NEW c \in Clients, Abandon(c), troubles' \in {troubles, troubles + 1}
  PROVE  GTypeOK'
<1>1. task' \in [Clients -> Tasks \cup {NoTask}] /\ told' \in [Tasks -> Reasons]
  <2>1. "cut off" \in Reasons
    BY DEF Reasons
  <2>2. UNCHANGED <<task, told>> \/ Conclude(c, "cut off")
    BY DEF Abandon
  <2>3. CASE UNCHANGED <<task, told>>
    BY <2>3 DEF GTypeOK, Reasons
  <2> QED
    BY <2>1, <2>2, <2>3, ConcludeType
<1>2. troubles' \in Nat
  <2>1. troubles \in Nat
    BY DEF GTypeOK
  <2> QED
    BY <2>1
<1>3. Return(c) /\ UNCHANGED <<mode, keyVars, authVars, taskVars, counted>>
  BY DEF Abandon
<1> QED
  BY <1>1, <1>2, <1>3, ReturnType DEF GTypeOK, keyVars, authVars, taskVars, Reasons

(* A write of a task's row by the worker.                                     *)
LEMMA WrittenType ==
  ASSUME GTypeOK, NEW t \in Tasks, NEW v \in Statuses, WriteTask(t, v),
         UNCHANGED <<mode, keyVars, authVars, callVars, task, troubles, told, counted>>,
         bill' \in [Tasks -> {"none", "due", "settled", "raised"}]
  PROVE  GTypeOK'
<1>1. status' \in [Tasks -> Statuses] /\ reads' \in [Tasks -> SUBSET Statuses]
  BY DEF GTypeOK, WriteTask, After
<1> QED
  BY <1>1 DEF GTypeOK, keyVars, authVars, callVars

LEMMA GTypeStep == GTypeOK /\ [GNext]_gwVars => GTypeOK'
<1> SUFFICES ASSUME GTypeOK PROVE [GNext]_gwVars => GTypeOK'
  OBVIOUS
<1>1. ASSUME Issue PROVE GTypeOK'
  BY <1>1, WriteKeyType DEF Issue, KeyStates
<1>2. ASSUME Revoke PROVE GTypeOK'
  BY <1>2, WriteKeyType DEF Revoke, KeyStates
<1>3. ASSUME ReplicateKey PROVE GTypeOK'
  BY <1>3 DEF GTypeOK, ReplicateKey, authVars, callVars, taskVars
<1>4. ASSUME Tick PROVE GTypeOK'
  <2>1. keyAge' \in Nat /\ faultAge' \in Nat
    <3>1. keyAge' = Older(keyAge, Horizon) /\ faultAge' = Older(faultAge, FaultHorizon)
      BY <1>4 DEF Tick
    <3> QED
      BY <3>1, OlderType DEF GTypeOK
  <2>2. entry' \in {"none", "allow", "deny"} /\ entryAge' \in Nat
    <3>1. entry' \in {"none", entry} /\ entryAge' \in {0, entryAge + 1}
      BY <1>4 DEF Tick
    <3>2. entry \in {"none", "allow", "deny"} /\ entryAge \in Nat
      BY DEF GTypeOK
    <3> QED
      BY <3>1, <3>2
  <2>3. age' \in [Clients -> Nat]
    <3>1. age' = [c \in Clients |-> IF pc[c] \in InAuthorizer \cup InHandler
                                   THEN Older(age[c], Horizon) ELSE 0]
      BY <1>4 DEF Tick
    <3>2. \A c \in Clients : age[c] \in Nat
      BY DEF GTypeOK
    <3> QED
      BY <3>1, <3>2, OlderType
  <2>4. waited' \in [Clients -> Nat]
    <3>1. waited' = [c \in Clients |-> IF pc[c] = "waiting" THEN waited[c] + 1 ELSE 0]
      BY <1>4 DEF Tick
    <3>2. \A c \in Clients : waited[c] \in Nat
      BY DEF GTypeOK
    <3> QED
      BY <3>1, <3>2
  <2>5. UNCHANGED <<mode, key, keyReads, faults, pc, task, troubles, taskVars, told, counted>>
    BY <1>4 DEF Tick
  <2> QED
    BY <2>1, <2>2, <2>3, <2>4, <2>5 DEF GTypeOK, taskVars
<1>5. ASSUME NEW c \in Clients, Send(c)
      PROVE  GTypeOK'
  BY <1>5 DEF GTypeOK, Send, PCs, keyVars, authVars, taskVars
<1>6. ASSUME NEW c \in Clients, RequireKey(c)
      PROVE  GTypeOK'
  <2>1. Admit(c) \/ Reject(c)
    BY <1>6 DEF RequireKey
  <2>2. entry' \in {"none", "allow", "deny"} /\ entryAge' \in Nat
    BY <1>6 DEF RequireKey, authVars, GTypeOK
  <2>3. UNCHANGED <<mode, keyVars, faults, faultAge, troubles, taskVars, counted>>
    BY <1>6 DEF RequireKey, authVars
  <2> QED
    BY <2>1, <2>2, <2>3, AnsweredType
<1>7. ASSUME NEW c \in Clients, AuthHit(c)
      PROVE  GTypeOK'
  <2>1. Admit(c) \/ Reject(c)
    BY <1>7 DEF AuthHit
  <2>2. entry' \in {"none", "allow", "deny"} /\ entryAge' \in Nat
    BY <1>7 DEF AuthHit, authVars, GTypeOK
  <2>3. UNCHANGED <<mode, keyVars, faults, faultAge, troubles, taskVars, counted>>
    BY <1>7 DEF AuthHit, authVars
  <2> QED
    BY <2>1, <2>2, <2>3, AnsweredType
<1>8. ASSUME NEW c \in Clients, AuthMiss(c)
      PROVE  GTypeOK'
  BY <1>8 DEF GTypeOK, AuthMiss, PCs, InAuthorizer, keyVars, authVars, taskVars
<1>9. ASSUME NEW c \in Clients, Verify(c)
      PROVE  GTypeOK'
  BY <1>9 DEF GTypeOK, Verify, PCs, InAuthorizer, keyVars, authVars, taskVars
<1>10. ASSUME NEW c \in Clients, VerifyFault(c)
       PROVE  GTypeOK'
  <2>1. faults' \in Nat /\ faultAge' \in Nat
    <3>1. faults' = faults + 1 /\ faultAge' = 0 /\ faults \in Nat
      BY <1>10 DEF VerifyFault, GTypeOK
    <3> QED
      BY <3>1
  <2>2. pc' \in [Clients -> PCs]
    BY <1>10 DEF VerifyFault, GTypeOK, PCs, InAuthorizer
  <2>3. UNCHANGED <<mode, keyVars, entry, entryAge, age, waited, task, troubles, taskVars, told, counted>>
    BY <1>10 DEF VerifyFault
  <2> QED
    BY <2>1, <2>2, <2>3 DEF GTypeOK, keyVars, taskVars
<1>11. ASSUME NEW c \in Clients, Authorized(c)
       PROVE  GTypeOK'
  <2>1. Admit(c) \/ Reject(c)
    BY <1>11 DEF Authorized
  <2>2. entry' \in {"none", "allow", "deny"} /\ entryAge' \in Nat
    BY <1>11 DEF Authorized
  <2>3. UNCHANGED <<mode, keyVars, faults, faultAge, troubles, taskVars, counted>>
    BY <1>11 DEF Authorized
  <2> QED
    BY <2>1, <2>2, <2>3, AnsweredType
<1>12. ASSUME NEW c \in Clients, Decline(c)
       PROVE  GTypeOK'
  BY <1>12, ReturnType DEF GTypeOK, Decline, keyVars, authVars, taskVars
<1>13. ASSUME NEW c \in Clients, Count(c)
       PROVE  GTypeOK'
  <2>1. counted' \in Nat
    <3>1. counted' = counted + 1 /\ counted \in Nat
      BY <1>13 DEF Count, GTypeOK
    <3> QED
      BY <3>1
  <2>2. pc' \in [Clients -> PCs]
    BY <1>13 DEF Count, GTypeOK, PCs, InHandler
  <2>3. UNCHANGED <<mode, keyVars, authVars, age, waited, task, troubles, taskVars, told>>
    BY <1>13 DEF Count
  <2> QED
    BY <2>1, <2>2, <2>3 DEF GTypeOK, keyVars, authVars, taskVars
<1>14. ASSUME NEW c \in Clients, Enqueue(c) PROVE GTypeOK'
  <2>1. PICK t \in Absent : WriteTask(t, "pending") /\ task' = [task EXCEPT ![c] = t]
    BY <1>14 DEF Enqueue
  <2>2. t \in Tasks
    BY <2>1 DEF Absent
  <2>3. status' \in [Tasks -> Statuses] /\ reads' \in [Tasks -> SUBSET Statuses]
    BY <2>1, <2>2 DEF GTypeOK, WriteTask, After, Statuses
  <2>4. pc' \in [Clients -> PCs] /\ task' \in [Clients -> Tasks \cup {NoTask}]
    BY <1>14, <2>1, <2>2 DEF Enqueue, GTypeOK, PCs, InHandler
  <2> QED
    BY <1>14, <2>3, <2>4 DEF Enqueue, GTypeOK, keyVars, authVars
<1>15. ASSUME NEW c \in Clients, Accept(c)
       PROVE  GTypeOK'
  BY <1>15, ReturnType DEF GTypeOK, Accept, keyVars, authVars, taskVars
<1>16. ASSUME NEW c \in Clients, AnswerPoll(c) PROVE GTypeOK'
  <2>1. task[c] \in Tasks
    BY <1>16 DEF AnswerPoll, GTypeOK
  <2>2. \A read \in reads[task[c]] : Finding(read) = "pending" \/ Finding(read) \in Reasons
    BY <2>1 DEF GTypeOK, Finding, Statuses, Reasons
  <2> QED
    BY ConcludedType, <1>16, <2>2 DEF AnswerPoll
<1>17. ASSUME NEW c \in Clients, Look(c) PROVE GTypeOK'
  BY ConcludedType, <1>17 DEF Look, Reasons
<1>18. ASSUME NEW c \in Clients, CutOff(c) \/ BreakOff(c) PROVE GTypeOK'
  <2>1. troubles' \in {troubles, troubles + 1} /\ Abandon(c)
    BY <1>18 DEF CutOff, BreakOff
  <2> QED
    BY <2>1, AbandonedType
<1>19. ASSUME NEW t \in Tasks, WorkerEnds(t) PROVE GTypeOK'
  <2>1. PICK v \in Verdicts :
           WriteTask(t, v) /\ bill' = [bill EXCEPT ![t] = IF v = "succeeded" THEN "due" ELSE @]
    BY <1>19 DEF WorkerEnds
  <2>2. bill' \in [Tasks -> {"none", "due", "settled", "raised"}]
    BY <2>1 DEF GTypeOK
  <2>3. UNCHANGED <<mode, keyVars, authVars, callVars, task, troubles, told, counted>>
    BY <1>19 DEF WorkerEnds
  <2> QED
    BY <2>1, <2>2, <2>3, WrittenType DEF Verdicts, Statuses
<1>20. ASSUME NEW t \in Tasks, Replicate(t)
       PROVE  GTypeOK'
  BY <1>20 DEF GTypeOK, Replicate, keyVars, authVars, callVars
<1>21. ASSUME NEW t \in Tasks, Charge(t) PROVE GTypeOK'
  BY <1>21 DEF GTypeOK, Charge, keyVars, authVars, callVars
<1>22. ASSUME NEW t \in Tasks, ChargeRaises(t) PROVE GTypeOK'
  <2>1. WriteTask(t, "failed") /\ bill' = [bill EXCEPT ![t] = "raised"]
    BY <1>22 DEF ChargeRaises
  <2>2. bill' \in [Tasks -> {"none", "due", "settled", "raised"}]
    BY <2>1 DEF GTypeOK
  <2>3. UNCHANGED <<mode, keyVars, authVars, callVars, task, troubles, told, counted>>
    BY <1>22 DEF ChargeRaises
  <2> QED
    BY <2>1, <2>2, <2>3, WrittenType DEF Verdicts, Statuses
<1>23. ASSUME NEW c \in Clients, CountLost(c) PROVE GTypeOK'
  <2>1. /\ counted' = counted + 1 /\ troubles' = troubles + 1
        /\ UNCHANGED <<mode, keyVars, authVars, callVars, task, taskVars, told>>
    BY <1>23 DEF CountLost
  <2>2. counted' \in Nat /\ troubles' \in Nat
    <3>1. counted \in Nat /\ troubles \in Nat
      BY DEF GTypeOK
    <3> QED
      BY <2>1, <3>1
  <2> QED
    BY <2>1, <2>2 DEF GTypeOK, keyVars, authVars, callVars, taskVars
<1>24. ASSUME UNCHANGED gwVars PROVE GTypeOK'
  BY <1>24 DEF GTypeOK, gwVars, keyVars, authVars, callVars, taskVars
<1> QED
  BY <1>1, <1>2, <1>3, <1>4, <1>5, <1>6, <1>7, <1>8, <1>9, <1>10, <1>11, <1>12, <1>13, <1>14,
     <1>15, <1>16, <1>17, <1>18, <1>19, <1>20, <1>21, <1>22, <1>23, <1>24 DEF GNext, Serve, Mishap

(* The routes' variables keep their types.                                    *)
THEOREM GTypeCorrect == GSpec => []GTypeOK
BY GTypeInit, GTypeStep, PTL DEF GSpec

-----------------------------------------------------------------------------
(* What a revoked key may still be taken for, and for how long: by a read, by *)
(* the cache, by an authorizer that has yet to answer, by a handler.          *)
Usable(bound) == key = "active" \/ (key = "revoked" /\ keyAge <= bound)

ReadsAreRecent ==
  /\ keyAge <= Horizon
  /\ mode = "process" => keyReads = {key}
  /\ "active" \in keyReads => Usable(Lag)
CacheIsRecent ==
  entry = "allow" => mode = "lambda" /\ entryAge <= TTL /\ Usable(Lag + AuthTimeout + entryAge)
AuthorizerIsRecent ==
  \A c \in Clients :
    /\ pc[c] \in InAuthorizer => mode = "lambda" /\ age[c] <= AuthTimeout
    /\ pc[c] = "allowed" => Usable(Lag + age[c])
HandlerIsRecent ==
  \A c \in Clients : pc[c] \in {"handling", "counted"} => Usable(Grace + age[c])
GraceInv == ReadsAreRecent /\ CacheIsRecent /\ AuthorizerIsRecent /\ HandlerIsRecent

LEMMA GraceInit == GInit => GraceInv
<1> SUFFICES ASSUME GInit PROVE GraceInv
  OBVIOUS
<1>1. ReadsAreRecent
  BY GatewayAssumption DEF GInit, ReadsAreRecent, Horizon
<1>2. CacheIsRecent
  BY DEF GInit, CacheIsRecent
<1>3. AuthorizerIsRecent /\ HandlerIsRecent
  BY DEF GInit, AuthorizerIsRecent, HandlerIsRecent, InAuthorizer
<1> QED
  BY <1>1, <1>2, <1>3 DEF GraceInv

LEMMA UsableLonger ==
  ASSUME GTypeOK, NEW a \in Nat, NEW b \in Nat, a <= b, Usable(a)
  PROVE  Usable(b)
<1>1. keyAge \in Nat
  BY DEF GTypeOK
<1> QED
  BY <1>1 DEF Usable

LEMMA GraceNat == Grace \in Nat /\ Horizon \in Nat
<1>1. CASE mode = "lambda"
  BY <1>1, GatewayAssumption DEF Grace, Horizon
<1>2. CASE mode # "lambda"
  BY <1>2, GatewayAssumption DEF Grace, Horizon
<1> QED
  BY <1>1, <1>2

(* A step of one call that leaves the key alone.                              *)
LEMMA CallKeepsGrace ==
  ASSUME GraceInv, NEW c \in Clients, UNCHANGED <<mode, key, keyReads, keyAge>>, CacheIsRecent',
         \A d \in Clients \ {c} : pc'[d] = pc[d] /\ age'[d] = age[d],
         pc'[c] \in InAuthorizer => mode = "lambda" /\ age'[c] <= AuthTimeout,
         pc'[c] = "allowed" => Usable(Lag + age'[c]),
         pc'[c] \in {"handling", "counted"} => Usable(Grace + age'[c])
  PROVE  GraceInv'
<1>1. ReadsAreRecent'
  BY DEF GraceInv, ReadsAreRecent, Usable
<1>2. AuthorizerIsRecent'
  <2>1. AuthorizerIsRecent
    BY DEF GraceInv
  <2> SUFFICES ASSUME NEW d \in Clients
               PROVE  /\ pc'[d] \in InAuthorizer => mode' = "lambda" /\ age'[d] <= AuthTimeout
                      /\ pc'[d] = "allowed" => (Usable(Lag + age[d]))'
    BY DEF AuthorizerIsRecent
  <2>2. CASE d = c
    BY <2>2 DEF Usable
  <2>3. CASE d # c
    BY <2>1, <2>3 DEF AuthorizerIsRecent, Usable
  <2> QED
    BY <2>2, <2>3
<1>3. HandlerIsRecent'
  <2>1. HandlerIsRecent /\ Grace' = Grace
    BY DEF GraceInv, Grace
  <2> SUFFICES ASSUME NEW d \in Clients, pc'[d] \in {"handling", "counted"}
               PROVE  (Usable(Grace + age[d]))'
    BY DEF HandlerIsRecent
  <2>2. CASE d = c
    BY <2>1, <2>2 DEF Usable
  <2>3. CASE d # c
    BY <2>1, <2>3 DEF HandlerIsRecent, Usable
  <2> QED
    BY <2>2, <2>3
<1> QED
  BY <1>1, <1>2, <1>3 DEF GraceInv

(* One that also leaves the cache alone, and brings the call where neither    *)
(* authorizer nor limiter has to do with it.                                  *)
LEMMA CallElsewhere ==
  ASSUME GTypeOK, GraceInv, NEW c \in Clients, UNCHANGED <<mode, keyVars>>,
         UNCHANGED <<entry, entryAge>>, NEW to \in {"idle", "sent", "replying", "waiting", "rejected"},
         pc' = [pc EXCEPT ![c] = to],
         age' = age \/ age' = [age EXCEPT ![c] = 0],
         to = "rejected" => pc[c] = "verifying" /\ age' = age
  PROVE  GraceInv'
<1>1. CacheIsRecent'
  BY DEF GraceInv, CacheIsRecent, Usable, keyVars
<1>2. pc'[c] = to /\ \A d \in Clients \ {c} : pc'[d] = pc[d] /\ age'[d] = age[d]
  BY DEF GTypeOK
<1>3. pc'[c] \in InAuthorizer => mode = "lambda" /\ age'[c] <= AuthTimeout
  BY <1>2 DEF GraceInv, AuthorizerIsRecent, InAuthorizer
<1>4. pc'[c] # "allowed" /\ pc'[c] \notin {"handling", "counted"}
  BY <1>2
<1> QED
  BY <1>1, <1>2, <1>3, <1>4, CallKeepsGrace DEF keyVars

(* A call let into its handler by an answer that was usable, or rejected.     *)
LEMMA CallAnswered ==
  ASSUME GTypeOK, GraceInv, NEW c \in Clients, UNCHANGED <<mode, keyVars>>, CacheIsRecent',
         (Admit(c) /\ Usable(Grace)) \/ Reject(c)
  PROVE  GraceInv'
<1>1. CASE Reject(c)
  <2>1. pc'[c] = "idle" /\ \A d \in Clients \ {c} : pc'[d] = pc[d] /\ age'[d] = age[d]
    BY <1>1 DEF Reject, Return, GTypeOK
  <2> QED
    BY <2>1, CallKeepsGrace DEF keyVars, InAuthorizer
<1>2. CASE Admit(c) /\ Usable(Grace)
  <2>1. /\ pc'[c] = "handling" /\ age'[c] = 0
        /\ \A d \in Clients \ {c} : pc'[d] = pc[d] /\ age'[d] = age[d]
    BY <1>2 DEF Admit, GTypeOK
  <2>2. Grace + age'[c] = Grace
    BY <2>1, GraceNat
  <2> QED
    BY <1>2, <2>1, <2>2, CallKeepsGrace DEF keyVars, InAuthorizer
<1> QED
  BY <1>1, <1>2

LEMMA CacheKept ==
  ASSUME GraceInv, UNCHANGED <<mode, key, keyAge, entry, entryAge>>
  PROVE  CacheIsRecent'
BY DEF GraceInv, CacheIsRecent, Usable

LEMMA TickKeepsGrace == ASSUME GTypeOK, GraceInv, Tick PROVE GraceInv'
<1> USE GatewayAssumption, GraceNat
<1>1. /\ keyAge \in Nat /\ keyAge <= Horizon /\ UNCHANGED <<mode, key, keyReads, pc>>
      /\ keyAge' = Older(keyAge, Horizon)
  BY DEF GTypeOK, GraceInv, ReadsAreRecent, Tick
<1>2. keyAge' \in Nat /\ keyAge' <= keyAge + 1 /\ keyAge' <= Horizon
  BY <1>1 DEF Older
<1>3. ReadsAreRecent'
  <2>1. ReadsAreRecent /\ (keyReads # {key} => keyAge < Lag)
    BY DEF GraceInv, Tick
  <2>2. (mode = "process" => keyReads = {key})'
    BY <1>1, <2>1 DEF ReadsAreRecent
  <2>3. ASSUME "active" \in keyReads'
        PROVE  (Usable(Lag))'
    <3>1. CASE key = "active"
      BY <1>1, <3>1 DEF Usable
    <3>2. CASE key # "active"
      <4>1. key = "revoked" /\ keyAge < Lag
        BY <1>1, <2>1, <2>3, <3>2 DEF ReadsAreRecent, Usable
      <4>2. keyAge' <= Lag
        BY <1>1, <1>2, <4>1
      <4> QED
        BY <1>1, <4>1, <4>2 DEF Usable
    <3> QED
      BY <3>1, <3>2
  <2> QED
    BY <1>2, <2>2, <2>3 DEF ReadsAreRecent
<1>4. CacheIsRecent'
  <2> SUFFICES ASSUME entry' = "allow"
               PROVE  (mode = "lambda" /\ entryAge <= TTL /\ Usable(Lag + AuthTimeout + entryAge))'
    BY DEF CacheIsRecent
  <2>1. entry = "allow" /\ ~ (entryAge >= TTL) /\ entryAge' = entryAge + 1
    BY DEF Tick
  <2>2. entryAge \in Nat /\ CacheIsRecent
    BY DEF GTypeOK, GraceInv
  <2>3. mode' = "lambda" /\ entryAge' <= TTL
    BY <1>1, <2>1, <2>2 DEF CacheIsRecent
  <2>4. key = "active" \/ (key = "revoked" /\ keyAge <= Lag + AuthTimeout + entryAge)
    BY <2>1, <2>2 DEF CacheIsRecent, Usable
  <2>5. keyAge <= Lag + AuthTimeout + entryAge => keyAge' <= Lag + AuthTimeout + entryAge'
    BY <1>1, <1>2, <2>1, <2>2
  <2> QED
    BY <1>1, <2>3, <2>4, <2>5 DEF Usable
<1>5. \A c \in Clients : age[c] \in Nat
  BY DEF GTypeOK
<1>6. \A c \in Clients : pc[c] \in InAuthorizer \cup InHandler => age'[c] = Older(age[c], Horizon)
  BY DEF Tick
<1>7. AuthorizerIsRecent'
  <2> SUFFICES ASSUME NEW c \in Clients, pc[c] \in InAuthorizer
               PROVE  /\ mode' = "lambda" /\ age'[c] <= AuthTimeout
                      /\ pc'[c] = "allowed" => (Usable(Lag + age[c]))'
    BY <1>1 DEF AuthorizerIsRecent, InAuthorizer
  <2>1. AuthorizerIsRecent /\ age[c] < AuthTimeout
    BY DEF GraceInv, Tick
  <2>2. age'[c] = age[c] + 1
    <3>1. age[c] < Horizon
      BY <1>5, <2>1 DEF Horizon
    <3> QED
      BY <1>6, <3>1 DEF Older
  <2>3. mode' = "lambda" /\ age'[c] <= AuthTimeout
    <3>1. mode = "lambda"
      BY <2>1 DEF AuthorizerIsRecent
    <3>2. age'[c] <= AuthTimeout
      BY <1>5, <2>1, <2>2
    <3> QED
      BY <1>1, <3>1, <3>2
  <2>4. ASSUME pc'[c] = "allowed" PROVE (Usable(Lag + age[c]))'
    <3>1. key = "active" \/ (key = "revoked" /\ keyAge <= Lag + age[c])
      BY <1>1, <2>1, <2>4 DEF AuthorizerIsRecent, Usable
    <3>2. keyAge <= Lag + age[c] => keyAge' <= Lag + age'[c]
      BY <1>1, <1>2, <1>5, <2>2
    <3> QED
      BY <1>1, <3>1, <3>2 DEF Usable
  <2> QED
    BY <2>3, <2>4
<1>8. HandlerIsRecent'
  <2> SUFFICES ASSUME NEW c \in Clients, pc[c] \in {"handling", "counted"}
               PROVE  (Usable(Grace + age[c]))'
    BY <1>1 DEF HandlerIsRecent
  <2>1. Grace' = Grace /\ age'[c] = Older(age[c], Horizon)
    BY <1>1, <1>6 DEF Grace, InHandler
  <2>2. key = "active" \/ (key = "revoked" /\ keyAge <= Grace + age[c])
    BY DEF GraceInv, HandlerIsRecent, Usable
  <2>3. keyAge <= Grace + age[c] => keyAge' <= Grace + age'[c]
    <3>1. CASE age[c] < Horizon
      BY <1>1, <1>2, <1>5, <2>1, <3>1 DEF Older
    <3>2. CASE ~ (age[c] < Horizon)
      <4>1. age'[c] = age[c]
        BY <2>1, <3>2 DEF Older
      <4> QED
        BY <1>2, <1>5, <3>2, <4>1
    <3> QED
      BY <3>1, <3>2
  <2> QED
    BY <1>1, <2>1, <2>2, <2>3 DEF Usable
<1> QED
  BY <1>3, <1>4, <1>7, <1>8 DEF GraceInv

(* A write of the key that leaves it usable for any while.                    *)
LEMMA WriteKeepsGrace ==
  ASSUME GTypeOK, GraceInv, NEW from \in KeyStates, NEW to \in {"active", "revoked"},
         WriteKey(from, to)
  PROVE  GraceInv'
<1> USE GatewayAssumption
<1>1. ASSUME NEW n \in Nat PROVE key' = "active" \/ (key' = "revoked" /\ keyAge' <= n)
  BY DEF WriteKey
<1>2. UNCHANGED <<mode, entry, entryAge, pc, age>> /\ keyAge' = 0
  BY DEF WriteKey, authVars, callVars
<1>3. Lag \in Nat /\ AuthTimeout \in Nat /\ Horizon \in Nat /\ Grace \in Nat
  BY GraceNat
<1>4. ReadsAreRecent'
  <2>1. (mode = "process" => keyReads = {key})'
    BY <1>2 DEF WriteKey, After
  <2> QED
    BY <1>1, <1>2, <1>3, <2>1 DEF ReadsAreRecent, Usable
<1>5. CacheIsRecent'
  <2>1. entryAge \in Nat /\ CacheIsRecent
    BY DEF GTypeOK, GraceInv
  <2>2. Lag + AuthTimeout + entryAge \in Nat
    BY <1>3, <2>1
  <2> QED
    BY <1>1, <1>2, <2>1, <2>2 DEF CacheIsRecent, Usable
<1>6. \A c \in Clients : Lag + age[c] \in Nat /\ Grace + age[c] \in Nat
  <2>1. \A c \in Clients : age[c] \in Nat
    BY DEF GTypeOK
  <2> QED
    BY <1>3, <2>1
<1>7. AuthorizerIsRecent'
  BY <1>1, <1>2, <1>6 DEF GraceInv, AuthorizerIsRecent, Usable
<1>8. HandlerIsRecent'
  <2>1. Grace' = Grace
    BY <1>2 DEF Grace
  <2> QED
    BY <1>1, <1>2, <1>6, <2>1 DEF HandlerIsRecent, Usable
<1> QED
  BY <1>4, <1>5, <1>7, <1>8 DEF GraceInv

LEMMA GraceStep == GTypeOK /\ GraceInv /\ [GNext]_gwVars => GraceInv'
<1> SUFFICES ASSUME GTypeOK, GraceInv PROVE [GNext]_gwVars => GraceInv'
  OBVIOUS
<1>1. ASSUME Issue PROVE GraceInv'
  BY <1>1, WriteKeepsGrace DEF Issue, KeyStates
<1>2. ASSUME Revoke PROVE GraceInv'
  BY <1>2, WriteKeepsGrace DEF Revoke, KeyStates
<1>3. ASSUME UNCHANGED <<mode, key, keyAge, entry, entryAge, pc, age>>, keyReads' \in {keyReads, {key}}
      PROVE  GraceInv'
  <2>1. ReadsAreRecent'
    BY <1>3 DEF GraceInv, ReadsAreRecent, Usable
  <2>2. AuthorizerIsRecent'
    BY <1>3 DEF GraceInv, AuthorizerIsRecent, Usable
  <2>3. HandlerIsRecent'
    BY <1>3 DEF GraceInv, HandlerIsRecent, Usable, Grace
  <2> QED
    BY <1>3, <2>1, <2>2, <2>3, CacheKept DEF GraceInv
<1>4. ASSUME ReplicateKey PROVE GraceInv'
  BY <1>3, <1>4 DEF ReplicateKey, authVars, callVars
<1>5. ASSUME Tick PROVE GraceInv'
  BY <1>5, TickKeepsGrace
<1>6. ASSUME NEW c \in Clients, Send(c) PROVE GraceInv'
  <2>1. pc' = [pc EXCEPT ![c] = "sent"] /\ age' = [age EXCEPT ![c] = 0]
    BY <1>6 DEF Send
  <2>2. UNCHANGED <<mode, keyVars>> /\ UNCHANGED <<entry, entryAge>>
    BY <1>6 DEF Send, authVars
  <2> QED
    BY <2>1, <2>2, CallElsewhere
<1>7. ASSUME NEW c \in Clients, RequireKey(c) PROVE GraceInv'
  <2>1. UNCHANGED <<mode, keyVars>> /\ CacheIsRecent'
    BY <1>7, CacheKept DEF RequireKey, keyVars, authVars
  <2>2. (Admit(c) /\ Usable(Grace)) \/ Reject(c)
    <3>1. PICK read \in keyReads : IF Valid(read) THEN Admit(c) ELSE Reject(c)
      BY <1>7 DEF RequireKey
    <3>2. read = key
      BY <1>7 DEF RequireKey, GraceInv, ReadsAreRecent
    <3> QED
      BY <3>1, <3>2 DEF Valid, Usable
  <2> QED
    BY <2>1, <2>2, CallAnswered
<1>8. ASSUME NEW c \in Clients, AuthHit(c) PROVE GraceInv'
  <2>1. UNCHANGED <<mode, keyVars>> /\ CacheIsRecent'
    BY <1>8, CacheKept DEF AuthHit, keyVars, authVars
  <2>2. ASSUME entry = "allow" PROVE Usable(Grace)
    <3>1. mode = "lambda" /\ entryAge <= TTL /\ Usable(Lag + AuthTimeout + entryAge)
      BY <2>2 DEF GraceInv, CacheIsRecent
    <3>2. entryAge \in Nat /\ Grace = Lag + AuthTimeout + TTL
      BY <3>1 DEF GTypeOK, Grace
    <3>3. /\ Lag + AuthTimeout + entryAge \in Nat /\ Grace \in Nat
          /\ Lag + AuthTimeout + entryAge <= Grace
      BY <3>1, <3>2, GatewayAssumption
    <3> QED
      BY <3>1, <3>3, UsableLonger
  <2>3. (Admit(c) /\ Usable(Grace)) \/ Reject(c)
    BY <1>8, <2>2 DEF AuthHit
  <2> QED
    BY <2>1, <2>3, CallAnswered
<1>9. ASSUME NEW c \in Clients, AuthMiss(c) PROVE GraceInv'
  <2>1. /\ pc'[c] = "verifying" /\ age'[c] = 0
        /\ \A d \in Clients \ {c} : pc'[d] = pc[d] /\ age'[d] = age[d]
    BY <1>9 DEF AuthMiss, GTypeOK
  <2>2. mode = "lambda" /\ UNCHANGED <<mode, key, keyReads, keyAge>> /\ CacheIsRecent'
    BY <1>9, CacheKept DEF AuthMiss, keyVars, authVars
  <2>3. 0 <= AuthTimeout
    BY GatewayAssumption
  <2> QED
    BY <2>1, <2>2, <2>3, CallKeepsGrace
<1>10. ASSUME NEW c \in Clients, Verify(c) PROVE GraceInv'
  <2>1. PICK read \in keyReads :
           pc' = [pc EXCEPT ![c] = IF Valid(read) THEN "allowed" ELSE "rejected"]
    BY <1>10 DEF Verify
  <2>2. UNCHANGED <<mode, keyVars, entry, entryAge, age>>
    BY <1>10 DEF Verify, authVars
  <2>3. CASE ~ Valid(read)
    BY <1>10, <2>1, <2>2, <2>3, CallElsewhere DEF Verify
  <2>4. CASE Valid(read)
    <3>1. pc'[c] = "allowed" /\ \A d \in Clients \ {c} : pc'[d] = pc[d] /\ age'[d] = age[d]
      BY <2>1, <2>2, <2>4 DEF GTypeOK
    <3>2. mode = "lambda" /\ age'[c] <= AuthTimeout
      BY <1>10, <2>2 DEF Verify, GraceInv, AuthorizerIsRecent, InAuthorizer
    <3>3. Usable(Lag + age'[c])
      <4>1. Usable(Lag)
        BY <2>4 DEF Valid, GraceInv, ReadsAreRecent
      <4>2. age'[c] \in Nat
        BY <2>2 DEF GTypeOK
      <4>3. Lag \in Nat /\ Lag + age'[c] \in Nat /\ Lag <= Lag + age'[c]
        BY <4>2, GatewayAssumption
      <4> QED
        BY <4>1, <4>3, UsableLonger
    <3>4. CacheIsRecent'
      BY <2>2, CacheKept DEF keyVars
    <3> QED
      BY <2>2, <3>1, <3>2, <3>3, <3>4, CallKeepsGrace DEF keyVars
  <2> QED
    BY <2>3, <2>4
<1>11. ASSUME NEW c \in Clients, VerifyFault(c) PROVE GraceInv'
  <2>1. pc[c] = "verifying" /\ pc' = [pc EXCEPT ![c] = "rejected"] /\ age' = age
    BY <1>11 DEF VerifyFault
  <2>2. UNCHANGED <<mode, keyVars>> /\ UNCHANGED <<entry, entryAge>>
    BY <1>11 DEF VerifyFault
  <2> QED
    BY <2>1, <2>2, CallElsewhere
<1>12. ASSUME NEW c \in Clients, Authorized(c) PROVE GraceInv'
  <2>1. UNCHANGED <<mode, keyVars>> /\ entryAge' = 0
    BY <1>12 DEF Authorized
  <2>2. ASSUME pc[c] = "allowed"
        PROVE  mode = "lambda" /\ Usable(Lag + AuthTimeout) /\ Usable(Grace)
    <3>1. mode = "lambda" /\ age[c] <= AuthTimeout /\ Usable(Lag + age[c])
      BY <2>2 DEF GraceInv, AuthorizerIsRecent, InAuthorizer
    <3>2. age[c] \in Nat /\ Grace = Lag + AuthTimeout + TTL
      BY <3>1 DEF GTypeOK, Grace
    <3>3. /\ Lag + age[c] \in Nat /\ Lag + AuthTimeout \in Nat /\ Grace \in Nat
          /\ Lag + age[c] <= Lag + AuthTimeout /\ Lag + AuthTimeout <= Grace
      BY <3>1, <3>2, GatewayAssumption
    <3>4. Usable(Lag + AuthTimeout)
      BY <3>1, <3>3, UsableLonger
    <3> QED
      BY <3>1, <3>3, <3>4, UsableLonger
  <2>3. CacheIsRecent'
    <3> SUFFICES ASSUME entry' = "allow"
                 PROVE  (mode = "lambda" /\ entryAge <= TTL /\ Usable(Lag + AuthTimeout + entryAge))'
      BY DEF CacheIsRecent
    <3>1. pc[c] = "allowed"
      BY <1>12 DEF Authorized
    <3>2. Lag + AuthTimeout + entryAge' = Lag + AuthTimeout /\ entryAge' <= TTL
      BY <2>1, GatewayAssumption
    <3> QED
      BY <2>1, <2>2, <3>1, <3>2 DEF Usable, keyVars
  <2>4. (Admit(c) /\ Usable(Grace)) \/ Reject(c)
    BY <1>12, <2>2 DEF Authorized
  <2> QED
    BY <2>1, <2>3, <2>4, CallAnswered
<1>13. ASSUME NEW c \in Clients, Decline(c) PROVE GraceInv'
  <2>1. pc' = [pc EXCEPT ![c] = "idle"] /\ age' = [age EXCEPT ![c] = 0]
    BY <1>13 DEF Decline, Return
  <2>2. UNCHANGED <<mode, keyVars>> /\ UNCHANGED <<entry, entryAge>>
    BY <1>13 DEF Decline, authVars
  <2> QED
    BY <2>1, <2>2, CallElsewhere
<1>14. ASSUME NEW c \in Clients, Count(c) PROVE GraceInv'
  <2>1. /\ pc[c] = "handling" /\ pc' = [pc EXCEPT ![c] = "counted"]
        /\ UNCHANGED <<mode, keyVars, entry, entryAge, age>>
    BY <1>14 DEF Count, authVars
  <2>2. pc'[c] = "counted" /\ \A d \in Clients \ {c} : pc'[d] = pc[d] /\ age'[d] = age[d]
    BY <2>1 DEF GTypeOK
  <2>3. Usable(Grace + age'[c])
    BY <2>1 DEF GraceInv, HandlerIsRecent
  <2>4. CacheIsRecent'
    BY <2>1, CacheKept DEF keyVars
  <2> QED
    BY <2>1, <2>2, <2>3, <2>4, CallKeepsGrace DEF keyVars, InAuthorizer
<1>15. ASSUME NEW c \in Clients, Enqueue(c) PROVE GraceInv'
  <2>1. PICK to \in {"waiting", "replying"} : pc' = [pc EXCEPT ![c] = to]
    BY <1>15 DEF Enqueue
  <2>2. UNCHANGED <<mode, keyVars, entry, entryAge, age>>
    BY <1>15 DEF Enqueue, authVars
  <2> QED
    BY <2>1, <2>2, CallElsewhere
<1>16. ASSUME NEW c \in Clients, Accept(c) PROVE GraceInv'
  <2>1. pc' = [pc EXCEPT ![c] = "idle"] /\ age' = [age EXCEPT ![c] = 0]
    BY <1>16 DEF Accept, Return
  <2>2. UNCHANGED <<mode, keyVars>> /\ UNCHANGED <<entry, entryAge>>
    BY <1>16 DEF Accept, authVars
  <2> QED
    BY <2>1, <2>2, CallElsewhere
<1>17. ASSUME NEW c \in Clients, AnswerPoll(c) PROVE GraceInv'
  <2>1. pc' = [pc EXCEPT ![c] = "idle"] /\ age' = [age EXCEPT ![c] = 0]
    BY <1>17 DEF AnswerPoll, Return
  <2>2. UNCHANGED <<mode, keyVars>> /\ UNCHANGED <<entry, entryAge>>
    BY <1>17 DEF AnswerPoll, authVars
  <2> QED
    BY <2>1, <2>2, CallElsewhere
<1>18. ASSUME NEW c \in Clients, Look(c) PROVE GraceInv'
  <2>1. pc' = [pc EXCEPT ![c] = "idle"] /\ age' = [age EXCEPT ![c] = 0]
    BY <1>18 DEF Look, Return
  <2>2. UNCHANGED <<mode, keyVars>> /\ UNCHANGED <<entry, entryAge>>
    BY <1>18 DEF Look, authVars
  <2> QED
    BY <2>1, <2>2, CallElsewhere
<1>19. ASSUME NEW c \in Clients, CutOff(c) \/ BreakOff(c) PROVE GraceInv'
  <2>1. pc' = [pc EXCEPT ![c] = "idle"] /\ age' = [age EXCEPT ![c] = 0]
    BY <1>19 DEF CutOff, BreakOff, Abandon, Return
  <2>2. UNCHANGED <<mode, keyVars>> /\ UNCHANGED <<entry, entryAge>>
    BY <1>19 DEF CutOff, BreakOff, Abandon, authVars
  <2> QED
    BY <2>1, <2>2, CallElsewhere
<1>20. ASSUME NEW t \in Tasks, WorkerEnds(t) \/ Charge(t) \/ ChargeRaises(t) PROVE GraceInv'
  BY <1>3, <1>20 DEF WorkerEnds, Charge, ChargeRaises, keyVars, authVars, callVars
<1>21. ASSUME NEW t \in Tasks, Replicate(t) PROVE GraceInv'
  BY <1>3, <1>21 DEF Replicate, keyVars, authVars, callVars
<1>22. ASSUME NEW c \in Clients, CountLost(c) PROVE GraceInv'
  BY <1>3, <1>22 DEF CountLost, keyVars, authVars, callVars
<1>23. ASSUME UNCHANGED gwVars PROVE GraceInv'
  BY <1>3, <1>23 DEF gwVars, keyVars, authVars, callVars
<1> QED
  BY <1>1, <1>2, <1>4, <1>5, <1>6, <1>7, <1>8, <1>9, <1>10, <1>11, <1>12, <1>13, <1>14, <1>15,
     <1>16, <1>17, <1>18, <1>19, <1>20, <1>21, <1>22, <1>23 DEF GNext, Serve, Mishap

(* After a revocation, nothing is submitted with the key but by calls that    *)
(* were let in before it, or within Grace of it (keys.py revoke and verify,   *)
(* the authorizer's cached answers).                                          *)
THEOREM RevocationHolds == GSpec => RevocationTakesHold
<1>1. ASSUME GraceInv, NEW c \in Clients, Enqueue(c)
      PROVE  key = "active" \/ (key = "revoked" /\ keyAge <= Grace + age[c])
  BY <1>1 DEF GraceInv, HandlerIsRecent, Usable, Enqueue
<1>2. GraceInv /\ [GNext]_gwVars =>
        [\A c \in Clients :
           Enqueue(c) => key = "active" \/ (key = "revoked" /\ keyAge <= Grace + age[c])]_gwVars
  BY <1>1
<1>3. GSpec => [](GTypeOK /\ GraceInv)
  BY GTypeInit, GTypeStep, GraceInit, GraceStep, PTL DEF GSpec
<1> QED
  BY <1>2, <1>3, PTL DEF GSpec, RevocationTakesHold
=============================================================================

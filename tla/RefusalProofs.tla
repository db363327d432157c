------------------------------ MODULE RefusalProofs ------------------------------
(***************************************************************************)
(* For every set of clients and tasks, every TTL, lag, timeout and wait: a *)
(* caller with a good key is turned away only for as long as replicas, the *)
(* authorizer and the cache may still show the key as it was, or as one    *)
(* failed read of it showed it.                                            *)
(***************************************************************************)
EXTENDS GatewayProofs

(* A key in state k, changed ka ago and misread fa ago, may be refused after  *)
(* a since its change, or b since its misreading.                             *)
Excused(k, ka, fa, a, b) == k # "active" \/ ka <= a \/ fa <= b

ReadsExcused == \A read \in keyReads : read = "active" \/ key # "active" \/ keyAge <= Lag
CacheExcused ==
  entry = "deny" => /\ mode = "lambda" /\ entryAge <= TTL
                    /\ Excused(key, keyAge, faultAge, Lag + AuthTimeout + entryAge, AuthTimeout + entryAge)
CallsExcused ==
  \A c \in Clients : pc[c] = "rejected" => Excused(key, keyAge, faultAge, Lag + age[c], age[c])
RefusalInv == ReadsExcused /\ CacheExcused /\ CallsExcused

LEMMA RefusalInit == GInit => RefusalInv
BY DEF GInit, RefusalInv, ReadsExcused, CacheExcused, CallsExcused

LEMMA ExcusedLonger ==
  ASSUME GTypeOK, NEW a \in Nat, NEW b \in Nat, Excused(key, keyAge, faultAge, a, b),
         NEW m \in Nat, NEW n \in Nat, a <= m, b <= n
  PROVE  Excused(key, keyAge, faultAge, m, n)
<1>1. keyAge \in Nat /\ faultAge \in Nat
  BY DEF GTypeOK
<1>2. CASE key # "active"
  BY <1>2 DEF Excused
<1>3. CASE keyAge <= a
  <2>1. keyAge <= m
    BY <1>1, <1>3
  <2> QED
    BY <2>1 DEF Excused
<1>4. CASE faultAge <= b
  <2>1. faultAge <= n
    BY <1>1, <1>4
  <2> QED
    BY <2>1 DEF Excused
<1> QED
  BY <1>2, <1>3, <1>4 DEF Excused

LEMMA ExcusedStill ==
  ASSUME GTypeOK, NEW a \in Nat, NEW b \in Nat, Excused(key, keyAge, faultAge, a, b),
         NEW ka \in Nat, NEW fa \in Nat, ka <= keyAge + 1, fa <= faultAge + 1
  PROVE  Excused(key, ka, fa, a + 1, b + 1)
<1>1. keyAge \in Nat /\ faultAge \in Nat
  BY DEF GTypeOK
<1>2. CASE key # "active"
  BY <1>2 DEF Excused
<1>3. CASE keyAge <= a
  <2>1. ka <= a + 1
    BY <1>1, <1>3
  <2> QED
    BY <2>1 DEF Excused
<1>4. CASE faultAge <= b
  <2>1. fa <= b + 1
    BY <1>1, <1>4
  <2> QED
    BY <2>1 DEF Excused
<1> QED
  BY <1>2, <1>3, <1>4 DEF Excused

(* A read of a key that is not the key's state is of its change.              *)
LEMMA ReadExcused ==
  ASSUME GTypeOK, RefusalInv, NEW read \in keyReads, ~ Valid(read), NEW b \in Nat
  PROVE  Excused(key, keyAge, faultAge, Lag, b)
BY DEF RefusalInv, ReadsExcused, Valid, Excused

(* Steps that leave key, cache and rejected calls alone, or add none.         *)
LEMMA RefusalKept ==
  ASSUME RefusalInv, UNCHANGED <<mode, keyVars, authVars>>,
         \A c \in Clients : pc'[c] = "rejected" => pc[c] = "rejected" /\ age'[c] = age[c]
  PROVE  RefusalInv'
<1>1. ReadsExcused'
  BY DEF RefusalInv, ReadsExcused, keyVars
<1>2. CacheExcused'
  BY DEF RefusalInv, CacheExcused, keyVars, authVars
<1>3. CallsExcused'
  BY DEF RefusalInv, CallsExcused, keyVars, authVars
<1> QED
  BY <1>1, <1>2, <1>3 DEF RefusalInv

LEMMA WriteKeepsRefusal ==
  ASSUME GTypeOK, RefusalInv, NEW from \in KeyStates, NEW to \in KeyStates, WriteKey(from, to)
  PROVE  RefusalInv'
<1>1. keyAge' = 0 /\ UNCHANGED <<mode, entry, entryAge, faultAge, pc, age>>
  BY DEF WriteKey, authVars, callVars
<1>2. Lag \in Nat /\ AuthTimeout \in Nat
  BY GatewayAssumption
<1>3. ASSUME NEW a \in Nat, NEW b PROVE Excused(key', keyAge', faultAge', a, b)
  BY <1>1 DEF Excused
<1>4. ReadsExcused'
  BY <1>1, <1>2 DEF ReadsExcused
<1>5. CacheExcused'
  <2>0. entryAge \in Nat
    BY DEF GTypeOK
  <2>1. Lag + AuthTimeout + entryAge \in Nat
    BY <1>2, <2>0
  <2>2. Excused(key', keyAge', faultAge', Lag + AuthTimeout + entryAge, AuthTimeout + entryAge)
    BY <1>3, <2>1
  <2> QED
    BY <1>1, <2>2 DEF RefusalInv, CacheExcused
<1>6. CallsExcused'
  <2>1. ASSUME NEW c \in Clients PROVE Excused(key', keyAge', faultAge', Lag + age[c], age[c])
    <3>0. age[c] \in Nat
      BY DEF GTypeOK
    <3>1. Lag + age[c] \in Nat
      BY <1>2, <3>0
    <3> QED
      BY <1>3, <3>1
  <2> QED
    BY <1>1, <2>1 DEF CallsExcused
<1> QED
  BY <1>4, <1>5, <1>6 DEF RefusalInv

LEMMA TickKeepsRefusal ==
  ASSUME GTypeOK, GraceInv, RefusalInv, Tick
  PROVE  RefusalInv'
<1>1. /\ UNCHANGED <<mode, key, keyReads, pc>>
      /\ keyAge' = Older(keyAge, Horizon) /\ faultAge' = Older(faultAge, FaultHorizon)
  BY DEF Tick
<1>2. keyAge \in Nat /\ faultAge \in Nat /\ entryAge \in Nat
  BY DEF GTypeOK
<1>3. Lag \in Nat /\ AuthTimeout \in Nat
  BY GatewayAssumption
<1>4. keyAge' \in Nat /\ keyAge' <= keyAge + 1
  BY <1>1, <1>2 DEF Older
<1>5. faultAge' \in Nat /\ faultAge' <= faultAge + 1
  BY <1>1, <1>2 DEF Older
<1>6. ReadsExcused'
  <2>1. ASSUME NEW read \in keyReads, read # "active", key = "active" PROVE keyAge' <= Lag
    <3>1. keyAge < Lag
      BY <2>1 DEF Tick
    <3> QED
      BY <1>2, <1>3, <1>4, <3>1
  <2> QED
    BY <1>1, <2>1 DEF ReadsExcused
<1>7. CacheExcused'
  <2> SUFFICES ASSUME entry' = "deny"
               PROVE  /\ mode' = "lambda" /\ entryAge' <= TTL
                      /\ Excused(key', keyAge', faultAge', Lag + AuthTimeout + entryAge', AuthTimeout + entryAge')
    BY DEF CacheExcused
  <2>1. entry = "deny" /\ ~ (entryAge >= TTL) /\ entryAge' = entryAge + 1
    BY DEF Tick
  <2>2. mode = "lambda" /\ Excused(key, keyAge, faultAge, Lag + AuthTimeout + entryAge, AuthTimeout + entryAge)
    BY <2>1 DEF RefusalInv, CacheExcused
  <2>3. entryAge' <= TTL
    BY <1>2, <2>1, GatewayAssumption
  <2>4. Lag + AuthTimeout + entryAge \in Nat /\ AuthTimeout + entryAge \in Nat
    BY <1>2, <1>3
  <2>5. Excused(key, keyAge', faultAge', (Lag + AuthTimeout + entryAge) + 1, (AuthTimeout + entryAge) + 1)
    BY <1>4, <1>5, <2>2, <2>4, ExcusedStill
  <2>6. /\ (Lag + AuthTimeout + entryAge) + 1 = Lag + AuthTimeout + entryAge'
        /\ (AuthTimeout + entryAge) + 1 = AuthTimeout + entryAge'
    BY <1>2, <1>3, <2>1
  <2> QED
    BY <1>1, <2>2, <2>3, <2>5, <2>6
<1>8. CallsExcused'
  <2> SUFFICES ASSUME NEW c \in Clients, pc[c] = "rejected"
               PROVE  Excused(key', keyAge', faultAge', Lag + age'[c], age'[c])
    BY <1>1 DEF CallsExcused
  <2>1. age[c] \in Nat /\ Excused(key, keyAge, faultAge, Lag + age[c], age[c])
    BY DEF GTypeOK, RefusalInv, CallsExcused
  <2>2. age'[c] = age[c] + 1
    <3>1. age[c] < AuthTimeout /\ age'[c] = Older(age[c], Horizon)
      BY DEF Tick, InAuthorizer
    <3>2. age[c] < Horizon
      BY <2>1, <3>1, GatewayAssumption DEF Horizon
    <3> QED
      BY <3>1, <3>2 DEF Older
  <2>3. Lag + age[c] \in Nat
    BY <1>3, <2>1
  <2>4. Excused(key, keyAge', faultAge', (Lag + age[c]) + 1, age[c] + 1)
    BY <1>4, <1>5, <2>1, <2>3, ExcusedStill
  <2>5. (Lag + age[c]) + 1 = Lag + age'[c]
    BY <1>3, <2>1, <2>2
  <2> QED
    BY <1>1, <2>2, <2>4, <2>5
<1> QED
  BY <1>6, <1>7, <1>8 DEF RefusalInv

LEMMA VerifyKeepsRefusal ==
  ASSUME GTypeOK, RefusalInv, NEW c \in Clients, Verify(c)
  PROVE  RefusalInv'
<1>1. PICK read \in keyReads :
        pc' = [pc EXCEPT ![c] = IF Valid(read) THEN "allowed" ELSE "rejected"]
  BY DEF Verify
<1>2. UNCHANGED <<mode, keyVars, authVars, age>>
  BY DEF Verify
<1>3. CASE Valid(read)
  <2>1. \A d \in Clients : pc'[d] = "rejected" => pc[d] = "rejected"
    BY <1>1, <1>3 DEF GTypeOK
  <2> QED
    BY <1>2, <2>1, RefusalKept
<1>4. CASE ~ Valid(read)
  <2>1. Excused(key, keyAge, faultAge, Lag + age[c], age[c])
    <3>1. Excused(key, keyAge, faultAge, Lag, age[c])
      BY <1>4, ReadExcused DEF GTypeOK
    <3>2. Lag \in Nat /\ age[c] \in Nat
      BY GatewayAssumption DEF GTypeOK
    <3>3. Lag + age[c] \in Nat /\ Lag <= Lag + age[c]
      BY <3>2
    <3> QED
      BY <3>1, <3>2, <3>3, ExcusedLonger
  <2>2. \A d \in Clients \ {c} : pc'[d] = pc[d]
    BY <1>1 DEF GTypeOK
  <2>3. CallsExcused'
    BY <1>2, <2>1, <2>2 DEF RefusalInv, CallsExcused, keyVars, authVars
  <2>4. ReadsExcused' /\ CacheExcused'
    BY <1>2 DEF RefusalInv, ReadsExcused, CacheExcused, keyVars, authVars
  <2> QED
    BY <2>3, <2>4 DEF RefusalInv
<1> QED
  BY <1>3, <1>4

LEMMA VerifyFaultKeepsRefusal ==
  ASSUME GTypeOK, RefusalInv, NEW c \in Clients, VerifyFault(c)
  PROVE  RefusalInv'
<1>1. faultAge' = 0 /\ UNCHANGED <<mode, keyVars, entry, entryAge, age>>
  BY DEF VerifyFault
<1>2. ASSUME NEW a, NEW b \in Nat PROVE Excused(key', keyAge', faultAge', a, b)
  BY <1>1, <1>2 DEF Excused
<1>3. ReadsExcused'
  BY <1>1 DEF RefusalInv, ReadsExcused, keyVars
<1>4. CacheExcused'
  <2>0. AuthTimeout \in Nat /\ entryAge \in Nat
    BY GatewayAssumption DEF GTypeOK
  <2>1. AuthTimeout + entryAge \in Nat
    BY <2>0
  <2>2. Excused(key', keyAge', faultAge', Lag + AuthTimeout + entryAge, AuthTimeout + entryAge)
    BY <1>2, <2>1
  <2> QED
    BY <1>1, <2>2 DEF RefusalInv, CacheExcused
<1>5. CallsExcused'
  <2>1. \A d \in Clients : age'[d] \in Nat
    BY <1>1 DEF GTypeOK
  <2> QED
    BY <1>2, <2>1 DEF CallsExcused
<1> QED
  BY <1>3, <1>4, <1>5 DEF RefusalInv

LEMMA AuthorizedKeepsRefusal ==
  ASSUME GTypeOK, GraceInv, RefusalInv, NEW c \in Clients, Authorized(c)
  PROVE  RefusalInv'
<1>1. UNCHANGED <<mode, keyVars, faultAge>> /\ entryAge' = 0
  BY DEF Authorized
<1>2. pc' = [pc EXCEPT ![c] = "handling"] \/ pc' = [pc EXCEPT ![c] = "idle"]
  BY DEF Authorized, Admit, Reject, Return
<1>3. \A d \in Clients \ {c} : age'[d] = age[d]
  BY DEF Authorized, Admit, Reject, Return, GTypeOK
<1>4. ReadsExcused'
  BY <1>1 DEF RefusalInv, ReadsExcused, keyVars
<1>5. CallsExcused'
  <2>1. \A d \in Clients : pc'[d] = "rejected" => d # c /\ pc[d] = "rejected"
    BY <1>2 DEF GTypeOK
  <2> QED
    BY <1>1, <1>3, <2>1 DEF RefusalInv, CallsExcused, keyVars
<1>6. CacheExcused'
  <2> SUFFICES ASSUME entry' = "deny"
               PROVE  /\ mode' = "lambda" /\ entryAge' <= TTL
                      /\ Excused(key', keyAge', faultAge', Lag + AuthTimeout + entryAge', AuthTimeout + entryAge')
    BY DEF CacheExcused
  <2>1. pc[c] = "rejected"
    BY DEF Authorized
  <2>2. mode = "lambda" /\ age[c] <= AuthTimeout
    BY <2>1 DEF GraceInv, AuthorizerIsRecent, InAuthorizer
  <2>3. age[c] \in Nat /\ Excused(key, keyAge, faultAge, Lag + age[c], age[c])
    BY <2>1 DEF GTypeOK, RefusalInv, CallsExcused
  <2>4. /\ Lag + age[c] \in Nat /\ Lag + AuthTimeout \in Nat /\ AuthTimeout \in Nat
        /\ Lag + age[c] <= Lag + AuthTimeout
    BY <2>2, <2>3, GatewayAssumption
  <2>5. Excused(key, keyAge, faultAge, Lag + AuthTimeout, AuthTimeout)
    BY <2>2, <2>3, <2>4, ExcusedLonger
  <2>6. /\ Lag + AuthTimeout + entryAge' = Lag + AuthTimeout
        /\ AuthTimeout + entryAge' = AuthTimeout /\ entryAge' <= TTL
    BY <1>1, GatewayAssumption
  <2> QED
    BY <1>1, <2>2, <2>5, <2>6 DEF keyVars
<1> QED
  BY <1>4, <1>5, <1>6 DEF RefusalInv

LEMMA RefusalStep == GTypeOK /\ GraceInv /\ RefusalInv /\ [GNext]_gwVars => RefusalInv'
<1> SUFFICES ASSUME GTypeOK, GraceInv, RefusalInv PROVE [GNext]_gwVars => RefusalInv'
  OBVIOUS
<1>1. ASSUME UNCHANGED <<mode, keyVars, authVars, pc, age>> PROVE RefusalInv'
  BY <1>1, RefusalKept
<1>2. ASSUME Issue \/ Revoke PROVE RefusalInv'
  BY <1>2, WriteKeepsRefusal DEF Issue, Revoke, KeyStates
<1>3. ASSUME ReplicateKey PROVE RefusalInv'
  <2>1. keyReads' = {key} /\ UNCHANGED <<mode, key, keyAge, authVars, pc, age>>
    BY <1>3 DEF ReplicateKey, callVars
  <2>2. ReadsExcused'
    BY <2>1 DEF ReadsExcused
  <2>3. CacheExcused' /\ CallsExcused'
    BY <2>1 DEF RefusalInv, CacheExcused, CallsExcused, authVars
  <2> QED
    BY <2>2, <2>3 DEF RefusalInv
<1>4. ASSUME Tick PROVE RefusalInv'
  BY <1>4, TickKeepsRefusal
<1>5. ASSUME NEW c \in Clients, NEW to \in PCs \ {"rejected"}, pc' = [pc EXCEPT ![c] = to],
             \A d \in Clients \ {c} : age'[d] = age[d], UNCHANGED <<mode, keyVars, authVars>>
      PROVE  RefusalInv'
  <2>1. \A d \in Clients : pc'[d] = "rejected" => d # c /\ pc[d] = "rejected"
    BY <1>5 DEF GTypeOK
  <2> QED
    BY <1>5, <2>1, RefusalKept
<1>6. ASSUME NEW c \in Clients, Send(c) \/ AuthMiss(c) \/ Count(c) \/ Enqueue(c) PROVE RefusalInv'
  <2>1. /\ UNCHANGED <<mode, keyVars, authVars>>
        /\ \A d \in Clients \ {c} : age'[d] = age[d]
    BY <1>6 DEF Send, AuthMiss, Count, Enqueue, GTypeOK
  <2>2. PICK to \in {"sent", "verifying", "counted", "waiting", "replying"} :
          pc' = [pc EXCEPT ![c] = to]
    BY <1>6 DEF Send, AuthMiss, Count, Enqueue
  <2> QED
    BY <1>5, <2>1, <2>2 DEF PCs, InAuthorizer, InHandler
<1>7. ASSUME NEW c \in Clients, RequireKey(c) \/ AuthHit(c) PROVE RefusalInv'
  <2>1. UNCHANGED <<mode, keyVars, authVars>> /\ (Admit(c) \/ Reject(c))
    BY <1>7 DEF RequireKey, AuthHit
  <2>2. \A d \in Clients \ {c} : age'[d] = age[d]
    BY <2>1 DEF Admit, Reject, Return, GTypeOK
  <2>3. PICK to \in {"handling", "idle"} : pc' = [pc EXCEPT ![c] = to]
    BY <2>1 DEF Admit, Reject, Return
  <2> QED
    BY <1>5, <2>1, <2>2, <2>3 DEF PCs, InHandler
<1>8. ASSUME NEW c \in Clients, \/ Decline(c) \/ Accept(c) \/ AnswerPoll(c) \/ Look(c)
                                \/ CutOff(c) \/ BreakOff(c)
      PROVE  RefusalInv'
  <2>1. UNCHANGED <<mode, keyVars, authVars>> /\ Return(c)
    BY <1>8 DEF Decline, Accept, AnswerPoll, Look, CutOff, BreakOff, Abandon
  <2>2. pc' = [pc EXCEPT ![c] = "idle"] /\ \A d \in Clients \ {c} : age'[d] = age[d]
    BY <2>1 DEF Return, GTypeOK
  <2> QED
    BY <1>5, <2>1, <2>2 DEF PCs
<1>9. ASSUME NEW c \in Clients, Verify(c) PROVE RefusalInv'
  BY <1>9, VerifyKeepsRefusal
<1>10. ASSUME NEW c \in Clients, VerifyFault(c) PROVE RefusalInv'
  BY <1>10, VerifyFaultKeepsRefusal
<1>11. ASSUME NEW c \in Clients, Authorized(c) PROVE RefusalInv'
  BY <1>11, AuthorizedKeepsRefusal
<1>12. ASSUME NEW t \in Tasks, WorkerEnds(t) \/ Charge(t) \/ ChargeRaises(t) \/ Replicate(t)
       PROVE  RefusalInv'
  BY <1>1, <1>12 DEF WorkerEnds, Charge, ChargeRaises, Replicate, callVars
<1>13. ASSUME NEW c \in Clients, CountLost(c) PROVE RefusalInv'
  BY <1>1, <1>13 DEF CountLost, callVars
<1>14. ASSUME UNCHANGED gwVars PROVE RefusalInv'
  BY <1>1, <1>14 DEF gwVars, callVars
<1> QED
  BY <1>2, <1>3, <1>4, <1>6, <1>7, <1>8, <1>9, <1>10, <1>11, <1>12, <1>13, <1>14
     DEF GNext, Serve, Mishap

-----------------------------------------------------------------------------
(* Who turns a caller away: the key dependency, a cached answer, or an        *)
(* authorizer's own.                                                          *)
LEMMA TroublesCount == GTypeOK => troubles + 1 # troubles
<1>1. GTypeOK => troubles \in Nat
  BY DEF GTypeOK
<1> QED
  BY <1>1
LEMMA WhoRefuses ==
  ASSUME GTypeOK, GNext, NEW c \in Clients, pc[c] \in {"sent", "rejected"}, pc'[c] = "idle",
         troubles' = troubles
  PROVE  RequireKey(c) \/ AuthHit(c) \/ Authorized(c)
<1>1. pc'[c] # pc[c]
  OBVIOUS
<1>2. ASSUME Issue \/ Revoke \/ ReplicateKey \/ Tick PROVE FALSE
  BY <1>1, <1>2 DEF Issue, Revoke, WriteKey, ReplicateKey, Tick, callVars
<1>3. ASSUME NEW t \in Tasks, WorkerEnds(t) \/ Charge(t) \/ ChargeRaises(t) \/ Replicate(t)
      PROVE  FALSE
  BY <1>1, <1>3 DEF WorkerEnds, Charge, ChargeRaises, Replicate, callVars
<1>4. ASSUME NEW d \in Clients, d # c, Send(d) \/ Serve(d) \/ VerifyFault(d) \/ CutOff(d)
      PROVE  FALSE
  <2>1. ASSUME Send(d) \/ AuthMiss(d) \/ Verify(d) \/ VerifyFault(d) \/ Count(d) \/ Enqueue(d)
        PROVE  FALSE
    BY <1>1, <1>4, <2>1 DEF Send, AuthMiss, Verify, VerifyFault, Count, Enqueue, GTypeOK
  <2>2. ASSUME RequireKey(d) \/ AuthHit(d) \/ Authorized(d) PROVE FALSE
    BY <1>1, <1>4, <2>2 DEF RequireKey, AuthHit, Authorized, Admit, Reject, Return, GTypeOK
  <2>3. ASSUME Decline(d) \/ Accept(d) \/ AnswerPoll(d) \/ Look(d) \/ CutOff(d) PROVE FALSE
    BY <1>1, <1>4, <2>3 DEF Decline, Accept, AnswerPoll, Look, CutOff, Abandon, Return, GTypeOK
  <2> QED
    BY <1>4, <2>1, <2>2, <2>3 DEF Serve
<1>5. ASSUME Send(c) \/ AuthMiss(c) \/ Verify(c) \/ VerifyFault(c) \/ Count(c) \/ Enqueue(c)
      PROVE  FALSE
  BY <1>5 DEF Send, AuthMiss, Verify, VerifyFault, Count, Enqueue, GTypeOK
<1>6. ASSUME Decline(c) \/ Accept(c) \/ AnswerPoll(c) \/ Look(c) PROVE FALSE
  BY <1>6 DEF Decline, Accept, AnswerPoll, Look
<1>7. ASSUME CutOff(c) PROVE FALSE
  <2>1. troubles' = troubles + 1
    BY <1>7 DEF CutOff
  <2> QED
    BY <2>1, TroublesCount
<1>8. ASSUME NEW d \in Clients, CountLost(d) \/ BreakOff(d) PROVE FALSE
  <2>1. troubles' = troubles + 1
    BY <1>8 DEF CountLost, BreakOff
  <2> QED
    BY <2>1, TroublesCount
<1> QED
  BY <1>2, <1>3, <1>4, <1>5, <1>6, <1>7, <1>8 DEF GNext, Serve, Mishap

LEMMA RefusalExcused ==
  ASSUME GTypeOK, GraceInv, RefusalInv, GNext, NEW c \in Clients, key = "active",
         pc[c] \in {"sent", "rejected"}, pc'[c] = "idle", troubles' = troubles
  PROVE  mode = "lambda" /\ Excused(key, keyAge, faultAge, Lag + AuthTimeout + TTL, AuthTimeout + TTL)
<1>1. Lag \in Nat /\ AuthTimeout \in Nat /\ TTL \in Nat
  BY GatewayAssumption
<1>2. Lag + AuthTimeout + TTL \in Nat /\ AuthTimeout + TTL \in Nat
  BY <1>1
<1>3. ASSUME RequireKey(c) PROVE FALSE
  <2>1. PICK read \in keyReads : IF Valid(read) THEN Admit(c) ELSE Reject(c)
    BY <1>3 DEF RequireKey
  <2>2. read = "active"
    BY <1>3, <2>1 DEF RequireKey, GraceInv, ReadsAreRecent
  <2> QED
    BY <2>1, <2>2 DEF Valid, Admit, GTypeOK
<1>4. ASSUME AuthHit(c)
      PROVE  mode = "lambda" /\ Excused(key, keyAge, faultAge, Lag + AuthTimeout + TTL, AuthTimeout + TTL)
  <2>1. mode = "lambda" /\ entry = "deny"
    BY <1>4 DEF AuthHit, Admit, GTypeOK
  <2>2. entryAge <= TTL /\ entryAge \in Nat
        /\ Excused(key, keyAge, faultAge, Lag + AuthTimeout + entryAge, AuthTimeout + entryAge)
    BY <2>1 DEF RefusalInv, CacheExcused, GTypeOK
  <2>3. /\ Lag + AuthTimeout + entryAge \in Nat /\ AuthTimeout + entryAge \in Nat
        /\ Lag + AuthTimeout + entryAge <= Lag + AuthTimeout + TTL
        /\ AuthTimeout + entryAge <= AuthTimeout + TTL
    BY <1>1, <2>2
  <2> QED
    BY <1>2, <2>1, <2>2, <2>3, ExcusedLonger
<1>5. ASSUME Authorized(c)
      PROVE  mode = "lambda" /\ Excused(key, keyAge, faultAge, Lag + AuthTimeout + TTL, AuthTimeout + TTL)
  <2>1. pc[c] = "rejected"
    BY <1>5 DEF Authorized
  <2>2. /\ mode = "lambda" /\ age[c] <= AuthTimeout
        /\ Excused(key, keyAge, faultAge, Lag + age[c], age[c])
    BY <2>1 DEF GraceInv, AuthorizerIsRecent, InAuthorizer, RefusalInv, CallsExcused
  <2>3. age[c] \in Nat
    BY DEF GTypeOK
  <2>4. /\ Lag + age[c] \in Nat /\ Lag + age[c] <= Lag + AuthTimeout + TTL
        /\ age[c] <= AuthTimeout + TTL
    BY <1>1, <2>2, <2>3
  <2> QED
    BY <1>2, <2>2, <2>3, <2>4, ExcusedLonger
<1> QED
  BY <1>3, <1>4, <1>5, WhoRefuses

(* A caller with a good key is turned away only within Grace of the key's     *)
(* being issued, or for as long as the failure of one read is cached          *)
(* (authorizer.py:83, keys.py:329).                                           *)
THEOREM GoodKeyIsRefusedBriefly == GSpec => GoodKeyRefusedBriefly
<1>1. ASSUME GTypeOK, GraceInv, RefusalInv, GNext, NEW c \in Clients, key = "active",
             pc[c] \in {"sent", "rejected"}, pc'[c] = "idle", troubles' = troubles
      PROVE  mode = "lambda" /\ (keyAge <= Grace \/ faultAge <= AuthTimeout + TTL)
  BY <1>1, RefusalExcused DEF Excused, Grace
<1>2. GTypeOK /\ GraceInv /\ RefusalInv /\ [GNext]_gwVars =>
        [\A c \in Clients :
           key = "active" /\ pc[c] \in {"sent", "rejected"} /\ pc'[c] = "idle" /\ troubles' = troubles =>
             mode = "lambda" /\ (keyAge <= Grace \/ faultAge <= AuthTimeout + TTL)]_gwVars
  BY <1>1
<1>3. GSpec => [](GTypeOK /\ GraceInv /\ RefusalInv)
  BY GTypeInit, GTypeStep, GraceInit, GraceStep, RefusalInit, RefusalStep, PTL DEF GSpec
<1> QED
  BY <1>2, <1>3, PTL DEF GSpec, GoodKeyRefusedBriefly
=============================================================================

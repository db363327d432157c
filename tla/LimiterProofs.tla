----------------------------- MODULE LimiterProofs -----------------------------
(* Theorems about RateLimiter, for any number of Lambdas and any bounds.       *)
EXTENDS RateLimiter, FiniteSetTheorems, SequenceTheorems, TLAPS

(* No Lambda's clock reading is of the future: what makes every window begin   *)
(* in the past.                                                                *)
ReadBefore == \A c \in Clients : at[c] <= now

LInv == LTypeOK /\ ReadBefore /\ AdmittedWithinLimit

LEMMA LimiterInit == Init => LInv
  BY LimiterBounds DEF Init, LInv, LTypeOK, ReadBefore, AdmittedWithinLimit, Times

(* Answering a submit leaves the variables of the other submits alone.         *)
LEMMA EndTypes ==
  ASSUME LTypeOK, ReadBefore, NEW c \in Clients, NEW a \in {"none", "ok", "limited"}, End(c, a)
  PROVE  /\ pc' \in [Clients -> {"idle", "fast", "slow"}] /\ at' \in [Clients -> Times]
         /\ answer' \in [Clients -> {"none", "ok", "limited"}]
         /\ \A d \in Clients : at'[d] <= now
  BY LimiterBounds DEF LTypeOK, ReadBefore, End, Times

LEMMA LogTypes == ASSUME LTypeOK, Logged PROVE log' \in Seq(Times)
  BY DEF LTypeOK, Logged

LEMMA LimiterNext == LInv /\ [Next]_lvars => LInv'
<1> SUFFICES ASSUME LInv, [Next]_lvars PROVE LInv'
  OBVIOUS
<1> USE LimiterBounds DEF LInv, LTypeOK, ReadBefore, AdmittedWithinLimit, Times
<1>1. CASE Tick
  BY <1>1 DEF Tick, item, told
<1>2. ASSUME NEW c \in Clients, Submit(c) PROVE LInv'
  BY <1>2 DEF Submit, item
<1>3. ASSUME NEW c \in Clients, FastOk(c) PROVE LInv'
  <2>1. /\ pc' \in [Clients -> {"idle", "fast", "slow"}] /\ at' \in [Clients -> Times]
        /\ answer' \in [Clients -> {"none", "ok", "limited"}]
        /\ \A d \in Clients : at'[d] <= now
    BY <1>3, EndTypes DEF FastOk
  <2>2. log' \in Seq(Times)
    BY <1>3, LogTypes DEF FastOk
  <2>3. /\ start' \in Int /\ start' <= now /\ count' \in Nat /\ submits' \in Nat
        /\ admitted' \in Nat /\ now' = now /\ lost' = lost
        /\ Limit > 0 => admitted' <= count' /\ count' <= Limit
    BY <1>3 DEF FastOk, Free, Count
  <2> QED
    BY <2>1, <2>2, <2>3
<1>4. ASSUME NEW c \in Clients, FastLost(c) PROVE LInv'
  BY <1>4 DEF FastLost, Open, Free, Count, Resend
<1>5. ASSUME NEW c \in Clients, FastFails(c) PROVE LInv'
  BY <1>5 DEF FastFails, item, told
<1>6. ASSUME NEW c \in Clients, SlowOk(c) PROVE LInv'
  <2>1. /\ pc' \in [Clients -> {"idle", "fast", "slow"}] /\ at' \in [Clients -> Times]
        /\ answer' \in [Clients -> {"none", "ok", "limited"}]
        /\ \A d \in Clients : at'[d] <= now
    BY <1>6, EndTypes DEF SlowOk
  <2>2. log' \in Seq(Times)
    BY <1>6, LogTypes DEF SlowOk
  <2>3. /\ start' \in Int /\ start' <= now /\ count' \in Nat /\ submits' \in Nat
        /\ admitted' \in Nat /\ now' = now /\ lost' = lost
        /\ Limit > 0 => admitted' <= count' /\ count' <= Limit
    BY <1>6 DEF SlowOk, Begin
  <2> QED
    BY <2>1, <2>2, <2>3
<1>7. ASSUME NEW c \in Clients, SlowLost(c) PROVE LInv'
  BY <1>7 DEF SlowLost, Expired, Begin, Resend
<1>8. ASSUME NEW c \in Clients, Refuse(c) PROVE LInv'
  BY <1>8, EndTypes DEF Refuse, item
<1>9. ASSUME NEW c \in Clients, CutOff(c) PROVE LInv'
  BY <1>9, EndTypes DEF CutOff, item
<1>10. CASE UNCHANGED lvars
  BY <1>10 DEF lvars, item, told
<1> QED
  BY <1>1, <1>2, <1>3, <1>4, <1>5, <1>6, <1>7, <1>8, <1>9, <1>10 DEF Next

LEMMA LimiterInvariance == Spec => []LInv
  BY LimiterInit, LimiterNext, PTL DEF Spec

(* The window never begins in the future, and every variable has its type.     *)
THEOREM LimiterTypeCorrect == Spec => []LTypeOK
<1>1. LInv => LTypeOK
  BY DEF LInv
<1> QED
  BY <1>1, LimiterInvariance, PTL

(* Racing conditional updates of keys.py never let more than Limit submits     *)
(* into a window, whatever answers are lost and whichever Lambdas are cut off. *)
THEOREM WithinLimit == Spec => []AdmittedWithinLimit
<1>1. LInv => AdmittedWithinLimit
  BY DEF LInv
<1> QED
  BY <1>1, LimiterInvariance, PTL

-------------------------------------------------------------------------------
(* The places in a log from some time on.                                      *)
From(s, x) == {i \in DOMAIN s : s[i] >= x}

(* A window's submits are told "ok" before it is over by a timeout, those of   *)
(* the windows before it within a timeout of its start, and those of the ones  *)
(* before these a window earlier still.                                        *)
InTime     == \A c \in Clients : pc[c] # "idle" => now <= at[c] + MaxDelay
NoneLate   == \A i \in DOMAIN log : log[i] < start + Window + MaxDelay
OneWindow  == \A x \in Int : x >= start + MaxDelay => Cardinality(From(log, x)) <= admitted
TwoWindows == \A x \in Int : x >= start + MaxDelay - Window =>
                Cardinality(From(log, x)) <= admitted + Limit
BurstInv == Limit > 0 => InTime /\ NoneLate /\ OneWindow /\ TwoWindows /\ BurstBounded

LEMMA Places ==
  ASSUME NEW s \in Seq(Times), NEW x \in Int
  PROVE  IsFiniteSet(From(s, x)) /\ Cardinality(From(s, x)) \in Nat
<1>1. IsFiniteSet(1..Len(s)) /\ From(s, x) \subseteq 1..Len(s)
  BY FS_Interval DEF From
<1> QED
  BY <1>1, FS_Subset, FS_CardinalityType

LEMMA OneMorePlace ==
  ASSUME NEW s \in Seq(Times), NEW u \in Times, NEW x \in Int
  PROVE  Cardinality(From(Append(s, u), x)) <= Cardinality(From(s, x)) + 1
<1>1. From(Append(s, u), x) \subseteq From(s, x) \cup {Len(s) + 1}
  BY DEF From
<1>2. /\ IsFiniteSet(From(s, x)) /\ Cardinality(From(s, x)) \in Nat
      /\ Append(s, u) \in Seq(Times)
  BY Places
<1>3. /\ IsFiniteSet(From(s, x) \cup {Len(s) + 1})
      /\ Cardinality(From(s, x) \cup {Len(s) + 1}) <= Cardinality(From(s, x)) + 1
  <2> DEFINE S == From(s, x)  e == Len(s) + 1
  <2> HIDE DEF S, e
  <2>1. IsFiniteSet(S) => /\ IsFiniteSet(S \cup {e})
                          /\ \/ Cardinality(S \cup {e}) = Cardinality(S)
                             \/ Cardinality(S \cup {e}) = Cardinality(S) + 1
    BY FS_AddElement, Zenon
  <2> QED
    BY <1>2, <2>1 DEF S, e
<1>4. Cardinality(From(Append(s, u), x)) <= Cardinality(From(s, x) \cup {Len(s) + 1})
  BY <1>1, <1>3, FS_Subset
<1>5. Cardinality(From(Append(s, u), x)) \in Nat
  BY <1>2, Places
<1>6. Cardinality(From(s, x) \cup {Len(s) + 1}) \in Nat
  BY <1>3, FS_CardinalityType
<1> DEFINE a == Cardinality(From(Append(s, u), x))
           b == Cardinality(From(s, x) \cup {Len(s) + 1})
           d == Cardinality(From(s, x))
<1>7. a <= b /\ b <= d + 1 /\ a \in Nat /\ b \in Nat /\ d \in Nat
  BY <1>2, <1>3, <1>4, <1>5, <1>6
<1> HIDE DEF a, b, d
<1>8. a <= d + 1
  BY <1>7
<1> QED
  BY <1>8 DEF a, d

(* A stretch holds no more than the log has from its beginning on.             *)
LEMMA StretchFrom ==
  ASSUME NEW s \in Seq(Times), NEW t \in Int, NEW n \in Int
  PROVE  Cardinality({i \in DOMAIN s : s[i] \in t..n}) <= Cardinality(From(s, t))
<1>1. {i \in DOMAIN s : s[i] \in t..n} \subseteq From(s, t)
  BY DEF From
<1> QED
  BY <1>1, Places, FS_Subset

(* A submit let in keeps the bound, given that of what it finds.               *)
LEMMA StretchKept ==
  ASSUME LInv, Limit > 0, BurstBounded, Logged, NEW first \in Int,
         \A x \in Int : x >= first => Cardinality(From(log', x)) <= 2 * Limit,
         first <= now + MaxDelay - Window
  PROVE  BurstBounded'
<1> DEFINE Stretch(s, t) == {i \in DOMAIN s : s[i] \in t..(t + Window - MaxDelay)}
<1> USE LimiterBounds DEF LInv, LTypeOK
<1>1. log \in Seq(Times) /\ log' \in Seq(Times) /\ Times \subseteq Int /\ now \in Int
  BY LogTypes DEF Times
<1>2. ASSUME NEW t \in Times PROVE Cardinality(Stretch(log', t)) <= 2 * Limit
  <2>1. t \in Int /\ t + Window - MaxDelay \in Int
    BY <1>1
  <2>2. CASE now \in t..(t + Window - MaxDelay)
    <3>1. t >= first
      BY <1>1, <2>1, <2>2
    <3>2. Cardinality(Stretch(log', t)) <= Cardinality(From(log', t))
      BY <1>1, <2>1, StretchFrom
    <3>3. Cardinality(From(log', t)) <= 2 * Limit /\ Cardinality(From(log', t)) \in Nat
      BY <1>1, <2>1, <3>1, Places
    <3>4. Cardinality(Stretch(log', t)) \in Nat
      <4>1. Stretch(log', t) \subseteq From(log', t)
        BY <2>1 DEF From
      <4> QED
        BY <1>1, <2>1, <4>1, Places, FS_Subset, FS_CardinalityType
    <3> HIDE DEF Stretch
    <3> QED
      BY <3>2, <3>3, <3>4
  <2>3. CASE now \notin t..(t + Window - MaxDelay)
    <3>1. Stretch(log', t) = Stretch(log, t)
      BY <1>1, <2>3 DEF Logged
    <3> QED
      BY <3>1 DEF BurstBounded
  <2> QED
    BY <2>2, <2>3
<1> QED
  BY <1>2 DEF BurstBounded

(* A submit counted in the open window.                                        *)
LEMMA BurstFast ==
  ASSUME LInv, LInv', BurstInv, NEW c \in Clients, FastOk(c)
  PROVE  BurstInv'
<1> SUFFICES ASSUME Limit > 0 PROVE BurstInv'
  BY DEF BurstInv, FastOk
<1>1. /\ log \in Seq(Times) /\ now \in Times
      /\ log' = Append(log, now) /\ admitted' = admitted + 1
      /\ start' = start /\ now' = now
  BY DEF LInv, LTypeOK, FastOk, Count, Logged
<1>2. /\ now \in Int /\ start \in Int /\ at[c] \in Int /\ admitted \in Int /\ admitted' \in Int
      /\ Window \in Int /\ MaxDelay \in Int /\ Limit \in Int
  BY LimiterBounds DEF LInv, LTypeOK, Times
<1>3. now <= at[c] + MaxDelay /\ at[c] < start + Window
  BY <1>2 DEF BurstInv, InTime, FastOk, Open
<1>4. admitted' = admitted + 1 /\ admitted' <= Limit
  <2>1. admitted' <= count' /\ count' <= Limit /\ count' \in Int
    BY DEF LInv, LTypeOK, AdmittedWithinLimit
  <2> QED
    BY <1>1, <1>2, <2>1
<1>5. InTime'
  BY LimiterBounds, <1>1 DEF LInv, LTypeOK, BurstInv, InTime, FastOk, End
<1>6. NoneLate'
  <2>1. now < start + Window + MaxDelay
    BY <1>2, <1>3
  <2>2. \A i \in DOMAIN log : log[i] < start + Window + MaxDelay
    BY DEF BurstInv, NoneLate
  <2>3. /\ DOMAIN log' = DOMAIN log \cup {Len(log) + 1} /\ log'[Len(log) + 1] = now
        /\ \A i \in DOMAIN log : log'[i] = log[i]
    BY <1>1
  <2> QED
    BY <1>1, <2>1, <2>2, <2>3 DEF NoneLate
<1>7. ASSUME NEW x \in Int
      PROVE  /\ x >= start + MaxDelay => Cardinality(From(log', x)) <= admitted'
             /\ x >= start + MaxDelay - Window => /\ Cardinality(From(log', x)) <= admitted' + Limit
                                                /\ Cardinality(From(log', x)) <= 2 * Limit
  <2> DEFINE old == Cardinality(From(log, x))  new == Cardinality(From(log', x))
  <2>1. /\ x >= start + MaxDelay => old <= admitted
        /\ x >= start + MaxDelay - Window => old <= admitted + Limit
    BY DEF BurstInv, OneWindow, TwoWindows
  <2>2. new <= old + 1 /\ new \in Int /\ old \in Int
    <3>1. log' \in Seq(Times)
      BY <1>1, AppendProperties
    <3>2. new <= old + 1
      BY <1>1, OneMorePlace
    <3>3. new \in Nat /\ old \in Nat
      BY <1>1, <3>1, Places
    <3> QED
      BY <3>2, <3>3
  <2> HIDE DEF old, new
  <2>3. x >= start + MaxDelay => new <= admitted'
    BY <1>2, <1>4, <2>1, <2>2
  <2>4. x >= start + MaxDelay - Window => new <= admitted' + Limit /\ new <= 2 * Limit
    BY <1>2, <1>4, <2>1, <2>2
  <2> QED
    BY <2>3, <2>4 DEF new
<1>8. OneWindow' /\ TwoWindows'
  BY <1>1, <1>7 DEF OneWindow, TwoWindows
<1>9. BurstBounded'
  <2>1. start + MaxDelay - Window \in Int /\ start + MaxDelay - Window <= now + MaxDelay - Window
    BY <1>2 DEF LInv, LTypeOK
  <2>2. BurstBounded /\ Logged
    BY <1>1 DEF BurstInv, Logged
  <2> QED
    BY <1>7, <2>1, <2>2, StretchKept
<1> QED
  BY <1>5, <1>6, <1>8, <1>9 DEF BurstInv

(* The window that now begins is the one "one window" speaks of, and its       *)
(* predecessor becomes the second.                                             *)
LEMMA WindowMoves ==
  ASSUME LInv, BurstInv, Limit > 0, NEW c \in Clients, pc[c] = "slow", Expired(c)
  PROVE  /\ \A x \in Int : x >= at[c] + MaxDelay => From(log, x) = {}
         /\ \A x \in Int : x >= at[c] + MaxDelay - Window => Cardinality(From(log, x)) <= Limit
<1> USE LimiterBounds DEF LInv, LTypeOK
<1>1. /\ log \in Seq(Times) /\ start \in Int /\ at[c] \in Int /\ start + Window <= at[c]
      /\ Times \subseteq Int /\ admitted \in Nat /\ admitted <= Limit
  BY DEF Expired, Times, AdmittedWithinLimit
<1>2. ASSUME NEW x \in Int, x >= at[c] + MaxDelay PROVE From(log, x) = {}
  <2>1. \A i \in DOMAIN log : log[i] < start + Window + MaxDelay /\ log[i] \in Int
    <3>1. \A i \in DOMAIN log : log[i] \in Times
      BY <1>1
    <3> QED
      BY <1>1, <3>1 DEF BurstInv, NoneLate
  <2>2. \A i \in DOMAIN log : ~ (log[i] >= x)
    BY <1>1, <1>2, <2>1
  <2> QED
    BY <2>2 DEF From
<1>3. ASSUME NEW x \in Int, x >= at[c] + MaxDelay - Window PROVE Cardinality(From(log, x)) <= Limit
  <2>1. x >= start + MaxDelay
    BY <1>1, <1>3
  <2>2. Cardinality(From(log, x)) <= admitted
    BY <2>1 DEF BurstInv, OneWindow
  <2>3. Cardinality(From(log, x)) \in Nat
    BY <1>1, Places
  <2> QED
    BY <1>1, <2>2, <2>3
<1> QED
  BY <1>2, <1>3

LEMMA StillBefore ==
  ASSUME NEW i \in Int, NEW j \in Int, NEW v \in Int, NEW w \in Int, NEW u \in Int,
         i <= j, u < i + v + w
  PROVE  u < j + v + w
OBVIOUS

(* A submit that opens a window, told "ok" or not.                             *)
LEMMA BurstSlow ==
  ASSUME LInv, LInv', BurstInv, NEW c \in Clients, SlowOk(c) \/ SlowLost(c)
  PROVE  BurstInv'
<1> SUFFICES ASSUME Limit > 0 PROVE BurstInv'
  BY DEF BurstInv
<1>1. /\ log \in Seq(Times) /\ now \in Times
      /\ start' = at[c] /\ now' = now /\ pc[c] = "slow" /\ Expired(c)
  BY DEF LInv, LTypeOK, SlowOk, SlowLost, Begin, Resend
<1>2. /\ now \in Int /\ start \in Int /\ at[c] \in Int
      /\ Window \in Int /\ MaxDelay \in Int /\ MaxDelay >= 0 /\ Limit \in Int
  BY LimiterBounds DEF LInv, LTypeOK, Times
<1>3. now <= at[c] + MaxDelay /\ start + Window <= at[c] /\ at[c] <= now
  BY <1>1, <1>2 DEF LInv, BurstInv, InTime, Expired, ReadBefore
<1>4. InTime'
  BY LimiterBounds, <1>1 DEF LInv, LTypeOK, BurstInv, InTime, SlowOk, SlowLost, End, Resend
<1>5. \A i \in DOMAIN log : log[i] < start' + Window + MaxDelay
  <2>1. \A i \in DOMAIN log : log[i] \in Times
    BY <1>1
  <2>2. \A i \in DOMAIN log : log[i] < start + Window + MaxDelay
    BY DEF BurstInv, NoneLate
  <2>3. start' \in Int /\ start <= start'
    BY <1>1, <1>2, <1>3, LimiterBounds
  <2>4. ASSUME NEW u \in Times, u < start + Window + MaxDelay
        PROVE  u < start' + Window + MaxDelay
    <3>1. u \in Int
      BY LimiterBounds DEF Times
    <3> QED
      BY <1>2, <2>3, <2>4, <3>1, StillBefore
  <2> QED
    BY <2>1, <2>2, <2>4
<1>6. /\ \A x \in Int : x >= at[c] + MaxDelay => Cardinality(From(log, x)) = 0
      /\ \A x \in Int : x >= at[c] + MaxDelay - Window => Cardinality(From(log, x)) <= Limit
  BY <1>1, WindowMoves, FS_EmptySet
<1>7. CASE SlowOk(c)
  <2>1. log' = Append(log, now) /\ admitted' = 1
    BY <1>7 DEF SlowOk, Logged
  <2>2. NoneLate'
    <3>1. now < start' + Window + MaxDelay
      BY <1>1, <1>2, <1>3, TimeoutBelowWindow
    <3>2. /\ DOMAIN log' = DOMAIN log \cup {Len(log) + 1} /\ log'[Len(log) + 1] = now
          /\ \A i \in DOMAIN log : log'[i] = log[i]
      BY <1>1, <2>1
    <3> QED
      BY <1>5, <3>1, <3>2 DEF NoneLate
  <2>3. ASSUME NEW x \in Int
        PROVE  /\ x >= at[c] + MaxDelay => Cardinality(From(log', x)) <= admitted'
               /\ x >= at[c] + MaxDelay - Window =>
                    /\ Cardinality(From(log', x)) <= admitted' + Limit
                    /\ Cardinality(From(log', x)) <= 2 * Limit
    <3> DEFINE old == Cardinality(From(log, x))  new == Cardinality(From(log', x))
    <3>1. new <= old + 1 /\ new \in Int /\ old \in Int
      <4>1. log' \in Seq(Times)
        BY <1>1, <2>1, AppendProperties
      <4>2. new <= old + 1
        BY <1>1, <2>1, OneMorePlace
      <4>3. new \in Nat /\ old \in Nat
        BY <1>1, <4>1, Places
      <4> QED
        BY <4>2, <4>3
    <3>2. /\ x >= at[c] + MaxDelay => old = 0
          /\ x >= at[c] + MaxDelay - Window => old <= Limit
      BY <1>6
    <3> HIDE DEF old, new
    <3>3. x >= at[c] + MaxDelay => new <= admitted'
      BY <2>1, <3>1, <3>2
    <3>4. x >= at[c] + MaxDelay - Window => new <= admitted' + Limit /\ new <= 2 * Limit
      BY <1>2, <2>1, <3>1, <3>2
    <3> QED
      BY <3>3, <3>4 DEF new
  <2>4. OneWindow' /\ TwoWindows'
    BY <1>1, <2>3 DEF OneWindow, TwoWindows
  <2>5. BurstBounded'
    <3>1. at[c] + MaxDelay - Window \in Int /\ at[c] + MaxDelay - Window <= now + MaxDelay - Window
      BY <1>2, <1>3
    <3>2. BurstBounded /\ Logged
      BY <1>1, <2>1 DEF BurstInv, Logged
    <3> QED
      BY <2>3, <3>1, <3>2, StretchKept
  <2> QED
    BY <1>4, <2>2, <2>4, <2>5 DEF BurstInv
<1>8. CASE SlowLost(c)
  <2>1. log' = log /\ admitted' = 0
    BY <1>8 DEF SlowLost, Resend
  <2>2. NoneLate'
    BY <1>1, <1>5, <2>1 DEF NoneLate
  <2>3. ASSUME NEW x \in Int
        PROVE  /\ x >= at[c] + MaxDelay => Cardinality(From(log', x)) <= admitted'
               /\ x >= at[c] + MaxDelay - Window => Cardinality(From(log', x)) <= admitted' + Limit
    BY <1>2, <1>6, <2>1
  <2>4. OneWindow' /\ TwoWindows'
    BY <1>1, <2>3 DEF OneWindow, TwoWindows
  <2> QED
    BY <1>4, <2>1, <2>2, <2>4 DEF BurstInv, BurstBounded
<1> QED
  BY <1>7, <1>8

LEMMA BurstNext == LInv /\ LInv' /\ BurstInv /\ [Next]_lvars => BurstInv'
<1> SUFFICES ASSUME LInv, LInv', BurstInv, [Next]_lvars PROVE BurstInv'
  OBVIOUS
<1>1. ASSUME UNCHANGED <<start, admitted, log>>, InTime => InTime' PROVE BurstInv'
  BY <1>1 DEF BurstInv, NoneLate, OneWindow, TwoWindows, BurstBounded
<1> USE LimiterBounds DEF LInv, LTypeOK, InTime
<1>2. CASE Tick
  <2>1. InTime'
    BY <1>2 DEF Tick, Times
  <2> QED
    BY <1>1, <1>2, <2>1 DEF Tick, item, told
<1>3. ASSUME NEW c \in Clients, Submit(c) PROVE BurstInv'
  <2>1. InTime => InTime'
    BY <1>3 DEF Submit, Times
  <2> QED
    BY <1>1, <1>3, <2>1 DEF Submit, item
<1>4. ASSUME NEW c \in Clients, FastOk(c) PROVE BurstInv'
  BY <1>4, BurstFast
<1>5. ASSUME NEW c \in Clients, FastLost(c) PROVE BurstInv'
  BY <1>1, <1>5 DEF FastLost, Count, Resend
<1>6. ASSUME NEW c \in Clients, FastFails(c) PROVE BurstInv'
  BY <1>1, <1>6 DEF FastFails, item, told
<1>7. ASSUME NEW c \in Clients, SlowOk(c) \/ SlowLost(c) PROVE BurstInv'
  BY <1>7, BurstSlow
<1>8. ASSUME NEW c \in Clients, Refuse(c) \/ CutOff(c) PROVE BurstInv'
  <2>1. InTime => InTime'
    BY <1>8 DEF Refuse, CutOff, End
  <2> QED
    BY <1>1, <1>8, <2>1 DEF Refuse, CutOff, item
<1>9. CASE UNCHANGED lvars
  BY <1>1, <1>9 DEF lvars, item, told
<1> QED
  BY <1>2, <1>3, <1>4, <1>5, <1>6, <1>7, <1>8, <1>9 DEF Next

LEMMA BurstInit == Init => BurstInv
<1> SUFFICES ASSUME Init PROVE BurstInv
  OBVIOUS
<1>1. \A x : From(log, x) = {}
  BY DEF Init, From
<1>2. \A t, n : {i \in DOMAIN log : log[i] \in t..n} = {}
  BY DEF Init
<1>3. InTime /\ NoneLate
  BY DEF Init, InTime, NoneLate
<1>4. Limit > 0 => OneWindow /\ TwoWindows
  <2>1. \A x : Cardinality(From(log, x)) = 0
    BY <1>1, FS_EmptySet
  <2>2. admitted = 0
    BY DEF Init
  <2> QED
    BY <2>1, <2>2, LimiterBounds DEF OneWindow, TwoWindows
<1>5. Limit > 0 => BurstBounded
  BY <1>2, FS_EmptySet, LimiterBounds DEF BurstBounded
<1> QED
  BY <1>3, <1>4, <1>5 DEF BurstInv

(* No stretch of time shorter than a window by a Lambda timeout holds more     *)
(* than twice the limit of submits that check_and_count_submit let in, however *)
(* the Lambdas race and backdate the windows they open.                        *)
THEOREM BurstsStayBounded == Spec => []BurstBounded
<1>1. BurstInv => BurstBounded
  BY DEF BurstInv, BurstBounded
<1> QED
  BY <1>1, BurstInit, BurstNext, LimiterInvariance, PTL DEF Spec

-------------------------------------------------------------------------------
LEMMA FixedInit == Init => Fixed!Init
  BY DEF Init, Fixed!Init

(* A step of one Lambda is a submit of the SQLite limiter, made at the time    *)
(* this Lambda read, or leaves the item as it is.                              *)
LEMMA FixedStep == LInv /\ [Next]_lvars => [Fixed!Next]_(Fixed!window)
<1> SUFFICES ASSUME LInv, [Next]_lvars PROVE Fixed!Next \/ UNCHANGED Fixed!window
  OBVIOUS
<1> USE LimiterBounds DEF LInv, LTypeOK
<1>1. ASSUME NEW c \in Clients, pc[c] = "fast", Open(c), Free, Count PROVE Fixed!Next
  <2>1. at[c] \in Times /\ at[c] \in Int
    BY DEF Times
  <2>2. ~ Fixed!Rolled(at[c])
    BY <1>1, <2>1 DEF Open, Fixed!Rolled
  <2>3. Fixed!Admit(at[c])
    BY <1>1, <2>2 DEF Free, Count, Fixed!Admit
  <2> QED
    BY <2>1, <2>3 DEF Fixed!Next
<1>2. ASSUME NEW c \in Clients, pc[c] = "slow", Expired(c), Begin(c) PROVE Fixed!Next
  <2>1. at[c] \in Times /\ at[c] \in Int
    BY DEF Times
  <2>2. Fixed!Rolled(at[c])
    BY <1>2, <2>1 DEF Expired, Fixed!Rolled
  <2>3. Fixed!Admit(at[c])
    BY <1>2, <2>2 DEF Begin, Fixed!Admit
  <2> QED
    BY <2>1, <2>3 DEF Fixed!Next
<1>3. ASSUME UNCHANGED item PROVE UNCHANGED Fixed!window
  BY <1>3 DEF item, Fixed!window
<1>4. CASE Tick
  BY <1>3, <1>4 DEF Tick
<1>5. ASSUME NEW c \in Clients, FastOk(c) \/ FastLost(c) PROVE Fixed!Next
  BY <1>1, <1>5 DEF FastOk, FastLost
<1>6. ASSUME NEW c \in Clients, SlowOk(c) \/ SlowLost(c) PROVE Fixed!Next
  BY <1>2, <1>6 DEF SlowOk, SlowLost
<1>7. ASSUME NEW c \in Clients, Submit(c) \/ FastFails(c) \/ Refuse(c) \/ CutOff(c)
      PROVE UNCHANGED Fixed!window
  BY <1>3, <1>7 DEF Submit, FastFails, Refuse, CutOff
<1>8. CASE UNCHANGED lvars
  BY <1>3, <1>8 DEF lvars
<1> QED
  BY <1>4, <1>5, <1>6, <1>7, <1>8 DEF Next

(* The two-update limiter of the DynamoDB store implements the one-step        *)
(* limiter of the SQLite store, as keys.py says it does: what it lets in,      *)
(* and where its windows begin, the SQLite limiter could have done.            *)
THEOREM LimiterImplementsFixedWindow == Spec => ImplementsFixedWindow
  BY FixedInit, FixedStep, LimiterInvariance, PTL DEF Spec, ImplementsFixedWindow, Fixed!Spec
================================================================================

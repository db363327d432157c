------------------------------ MODULE RateLimiter ------------------------------
(***************************************************************************)
(* check_and_count_submit of DynamoDBKeyStore, for one key.  Every submit   *)
(* runs in a Lambda of its own: it reads the clock once, then tries to     *)
(* count itself in the open window, and if that is refused to open a new    *)
(* one.  Each try is one conditional update of the key's item, and any      *)
(* other Lambda may run between two tries.  An update may take effect with  *)
(* its answer lost, and is then sent again; a Lambda may be cut off at any  *)
(* point, and always is after MaxDelay.                                     *)
(***************************************************************************)
EXTENDS Integers, Sequences, FiniteSets

CONSTANTS
  Clients,          \* the Lambdas that run at a time
  Limit, Window,    \* as in FixedWindow
  MaxDelay,         \* the Lambda timeout
  MaxTime,          \* bound: the clock stops here
  MaxLost           \* bound: how many answers are lost

ASSUME LimiterBounds ==
  /\ Limit \in Int /\ Window \in Nat /\ MaxDelay \in Nat
  /\ MaxTime \in Nat /\ MaxLost \in Nat
ASSUME TimeoutBelowWindow == MaxDelay < Window

VARIABLES
  start, count, submits,  \* the key's item
  now,       \* the time of day
  pc,        \* pc[c]: which update c is about to send, or "idle"
  at,        \* at[c]: the one clock reading of c's submit
  answer,    \* answer[c]: what c's last submit was told
  admitted,  \* history: how many submits were told "ok" in the window
  log,       \* history: the times at which submits were told "ok"
  lost       \* how many answers were lost

item   == <<start, count, submits>>
told   == <<answer, admitted, log>>
lvars  == <<item, now, pc, at, told, lost>>

Times == 0..MaxTime

LTypeOK ==
  /\ start \in Int /\ count \in Nat /\ submits \in Nat
  /\ start <= now /\ now \in Times
  /\ pc \in [Clients -> {"idle", "fast", "slow"}]
  /\ at \in [Clients -> Times]
  /\ answer \in [Clients -> {"none", "ok", "limited"}]
  /\ admitted \in Nat /\ log \in Seq(Times) /\ lost \in Nat

Init ==
  /\ start = -Window /\ count = 0 /\ submits = 0 /\ now = 0
  /\ pc = [c \in Clients |-> "idle"] /\ at = [c \in Clients |-> 0]
  /\ answer = [c \in Clients |-> "none"]
  /\ admitted = 0 /\ log = <<>> /\ lost = 0

Tick ==
  /\ now < MaxTime
  /\ \A c \in Clients : pc[c] # "idle" => now < at[c] + MaxDelay
  /\ now' = now + 1
  /\ UNCHANGED <<item, pc, at, told, lost>>

-----------------------------------------------------------------------------
Submit(c) ==
  /\ pc[c] = "idle"
  /\ pc' = [pc EXCEPT ![c] = "fast"] /\ at' = [at EXCEPT ![c] = now]
  /\ answer' = [answer EXCEPT ![c] = "none"]
  /\ UNCHANGED <<item, now, admitted, log, lost>>

(* The submit is over: c is told a, or cut off and told nothing.             *)
End(c, a) ==
  /\ pc' = [pc EXCEPT ![c] = "idle"] /\ at' = [at EXCEPT ![c] = 0]
  /\ answer' = [answer EXCEPT ![c] = a]

Logged == log' = Append(log, now)

(* The answer of an update is lost, and the update is sent again.            *)
Resend == lost < MaxLost /\ lost' = lost + 1 /\ UNCHANGED <<now, pc, at, answer, log>>

(* Slips: a limit off by one, a second update that opens a window whatever   *)
(* it finds, one that writes the window's end for its start.                 *)
OneMore == count <= Limit
AlwaysRolled(c) == pc[c] = "slow"
BeginAtEnd(c) == start' = at[c] + Window /\ count' = 1 /\ submits' = submits + 1

(* The condition and the effect of the first update...                       *)
Open(c) == start > at[c] - Window
Free == count < Limit
Count == count' = count + 1 /\ submits' = submits + 1 /\ UNCHANGED start

(* ...and of the second, which guards against a window opened meanwhile.     *)
Begin(c) == start' = at[c] /\ count' = 1 /\ submits' = submits + 1

Expired(c) == start <= at[c] - Window

FastOk(c) ==
  /\ pc[c] = "fast" /\ Open(c) /\ Free
  /\ Count /\ End(c, "ok") /\ Logged
  /\ admitted' = admitted + 1
  /\ UNCHANGED <<now, lost>>
FastLost(c) ==
  /\ pc[c] = "fast" /\ Open(c) /\ Free
  /\ Count /\ Resend
  /\ UNCHANGED admitted
FastFails(c) ==
  /\ pc[c] = "fast" /\ ~ (Open(c) /\ Free)
  /\ pc' = [pc EXCEPT ![c] = "slow"]
  /\ UNCHANGED <<item, now, at, told, lost>>

SlowOk(c) ==
  /\ pc[c] = "slow" /\ Expired(c)
  /\ Begin(c) /\ End(c, "ok") /\ Logged
  /\ admitted' = 1
  /\ UNCHANGED <<now, lost>>
SlowLost(c) ==
  /\ pc[c] = "slow" /\ Expired(c)
  /\ Begin(c) /\ Resend
  /\ admitted' = 0

(* Both updates failed their condition: the submit is answered 429.          *)
Refuse(c) ==
  /\ pc[c] = "slow" /\ ~ Expired(c)
  /\ End(c, "limited")
  /\ UNCHANGED <<item, now, admitted, log, lost>>

CutOff(c) ==
  /\ pc[c] # "idle"
  /\ End(c, "none")
  /\ UNCHANGED <<item, now, admitted, log, lost>>

Next ==
  \/ Tick
  \/ \E c \in Clients :
       \/ Submit(c) \/ FastOk(c) \/ FastLost(c) \/ FastFails(c)
       \/ SlowOk(c) \/ SlowLost(c) \/ Refuse(c) \/ CutOff(c)

Spec == Init /\ [][Next]_lvars

-----------------------------------------------------------------------------
(* However the Lambdas race, no window lets in more submits than the limit,  *)
(* and a submit told "ok" has been counted.                                  *)
AdmittedWithinLimit == Limit > 0 => admitted <= count /\ count <= Limit

(* A key gets at most twice its limit in any stretch of time that is shorter *)
(* than a window by a Lambda timeout: a late Lambda can backdate the window  *)
(* it opens, but by no more than that.  No longer stretch has the bound.     *)
BurstBounded ==
  Limit > 0 =>
    \A t \in Times :
      Cardinality({i \in DOMAIN log : log[i] \in t..(t + Window - MaxDelay)}) <= 2 * Limit

(* What keys.py says of this store, that it has the window semantics of the  *)
(* SQLite one: whatever it lets in, FixedWindow might have let in.           *)
Fixed == INSTANCE FixedWindow
ImplementsFixedWindow == Fixed!Spec

(* The comment at the refusal: the count is at the limit, so the caller is   *)
(* genuinely rate limited.                                                   *)
RefusedOnlyAtLimit ==
  [][\A c \in Clients :
       answer[c] # "limited" /\ answer'[c] = "limited" => count >= Limit]_lvars
=============================================================================

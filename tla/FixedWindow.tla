------------------------------ MODULE FixedWindow ------------------------------
(***************************************************************************)
(* The submit limiter of one key as the SQLite store of gateway/app/keys.py *)
(* has it: a window is opened by the first submit after the last one ended, *)
(* and lets Limit submits in.  The gateway is one process that runs one     *)
(* check_and_count_submit at a time, so a submit is one step here.          *)
(*                                                                         *)
(* RateLimiter, the DynamoDB store's version, is shown to implement it.     *)
(***************************************************************************)
EXTENDS Integers

CONSTANTS
  Limit,    \* rate_limit_per_min; 0 or less means no limit
  Window,   \* the length of a window
  Times     \* what the clock may read

VARIABLES
  start,    \* window_start
  count,    \* window_count
  submits   \* the lifetime submit meter

window == <<start, count, submits>>

(* The clock's readings are far from the default window_start, so the first  *)
(* submit ever opens a window.                                               *)
Init == start = -Window /\ count = 0 /\ submits = 0

Rolled(t) == t - start >= Window

(* A submit at time t is let in...                                           *)
Admit(t) ==
  /\ Rolled(t) \/ Limit <= 0 \/ count < Limit
  /\ start' = IF Rolled(t) THEN t ELSE start
  /\ count' = IF Rolled(t) THEN 1 ELSE count + 1
  /\ submits' = submits + 1

(* ...or refused, and then nothing is written.                               *)
Refuse(t) ==
  /\ ~ Rolled(t) /\ Limit > 0 /\ count >= Limit
  /\ UNCHANGED window

Next == \E t \in Times : Admit(t) \/ Refuse(t)

Spec == Init /\ [][Next]_window
=============================================================================

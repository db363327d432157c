------------------------------ MODULE TaskStore ------------------------------
(***************************************************************************)
(* The task table of gateway/app/tasks.py as its SQLite store keeps it:    *)
(* one row per task, and each store operation one SQL statement, so one    *)
(* atomic change of the table.  The operators below give the table an      *)
(* operation leaves behind; the processes that call them are in Worker.    *)
(*                                                                         *)
(* Abstracted: the request payload, the text of url and error (a row keeps *)
(* how many media references its url holds), and the random part of a task *)
(* id.  The id's prefix (vt_ or it_) does tell the kind, so the ids of the *)
(* two kinds are two sets.  created_at and updated_at are readings of one  *)
(* clock, now, in ticks.                                                   *)
(***************************************************************************)
EXTENDS Integers

CONSTANTS
  VideoTasks, ImageTasks,   \* the ids the two kinds of task may be given
  Keys,                     \* key prefixes: the owners of tasks
  NoKey,                    \* the owner of a row not yet inserted
  Durations                 \* the clip lengths a client asks for

ASSUME KindsDisjoint == VideoTasks \cap ImageTasks = {}
ASSUME DurationsType == \A d \in Durations : d \in Int

VARIABLES
  rows,   \* the tasks table
  now     \* the time the store's clock returns

Tasks    == VideoTasks \cup ImageTasks
Kinds    == {"video", "image"}
KindOf(t) == IF t \in ImageTasks THEN "image" ELSE "video"

Terminal == {"succeeded", "failed"}
Statuses == {"absent", "queued", "running"} \cup Terminal

Rows == [status : Statuses, owner : Keys \cup {NoKey}, duration : Durations \cup {0},
         refs : Nat, created : Nat, updated : Nat]

NoRow == [status |-> "absent", owner |-> NoKey, duration |-> 0, refs |-> 0,
          created |-> 0, updated |-> 0]

StoreInit == rows = [t \in Tasks |-> NoRow] /\ now = 0

With(s) == {t \in Tasks : rows[t].status = s}

(* Slips the properties of Worker are measured against: a claim that ignores *)
(* the age or the kind of a task, a requeue off by one or without the status,*)
(* a verdict outside the statuses the docstring lists as emitted.            *)
AnyQueued(kind) == {t \in With("queued") : KindOf(t) = kind}
AnyKind(kind) ==
  {t \in With("queued") : \A u \in With("queued") : rows[t].created <= rows[u].created}
StaleOrEqual(older) == {t \in With("running") : rows[t].updated <= now - older}
StaleAny(older) == {t \in Tasks : rows[t].status # "absent" /\ rows[t].updated < now - older}
Cancelled(t) == [rows EXCEPT ![t].status = "cancelled", ![t].updated = now]

-----------------------------------------------------------------------------
(* enqueue: a new queued row.  An image task is enqueued with duration 0.   *)
Enqueued(t, k, d) ==
  [rows EXCEPT ![t] = [status |-> "queued", owner |-> k, duration |-> d, refs |-> 0,
                       created |-> now, updated |-> now]]

(* claim_next: the queued tasks of the kind whose created_at is smallest;   *)
(* ORDER BY created_at LIMIT 1 returns any one of them.                      *)
Claimable(kind) ==
  {t \in With("queued") :
     /\ KindOf(t) = kind
     /\ \A u \in With("queued") : KindOf(u) = kind => rows[t].created <= rows[u].created}

Claimed(t) == [rows EXCEPT ![t].status = "running", ![t].updated = now]

(* mark_succeeded and mark_failed: _set writes the named columns and         *)
(* updated_at whatever the row's status is; mark_failed leaves url alone.    *)
Succeeded(t, n) ==
  [rows EXCEPT ![t].status = "succeeded", ![t].refs = n, ![t].updated = now]
Failed(t) == [rows EXCEPT ![t].status = "failed", ![t].updated = now]

(* requeue_stale_running: every running row, of either kind, not updated     *)
(* for longer than older_than_s goes back to queued, in one UPDATE.          *)
StaleRunning(older) == {t \in With("running") : rows[t].updated < now - older}
Requeued(S) ==
  [t \in Tasks |-> IF t \in S THEN [rows[t] EXCEPT !.status = "queued", !.updated = now]
                              ELSE rows[t]]
=============================================================================

---------------------------------- MODULE Shim ----------------------------------
(***************************************************************************)
(* A GPU shim, serving/h3_turbo_server.py or serving/flux_image_server.py, *)
(* and its client in a worker, the generate() of gateway/app/backend.py.   *)
(* HTTP threads, one inference thread and the loading thread share the job *)
(* table; the client only sees what two reads of a job's record show it,   *)
(* and gives up when its deadline has passed.  The two shims differ in     *)
(* what they run (ModelCall), not in this.  Jobs have fresh ids; a task is *)
(* posted at most once to one process, so its job is named after it.       *)
(***************************************************************************)
EXTENDS Sequences, FiniteSets

CONSTANTS Tasks, NoTask    \* what is generated, and "nothing"

VARIABLES
  shim,     \* the process: "down", "loading" (it listens already) or "ready"
  job,      \* job[t]: the status in _jobs, "none" without a record
  files,    \* the tasks whose record names its files, which are on the disk
  queue,    \* _queue
  thread,   \* the job worker_loop runs, or NoTask
  call,     \* where generate() is: "none", "submit", "poll", "read", "made", "raised"
  subject,  \* the task it was called for
  seen      \* the status the poll under way read

jobVars  == <<shim, job, files, queue, thread>>
callVars == <<call, subject, seen>>
shimVars == <<jobVars, callVars>>

JobStates == {"none", "queued", "running", "completed", "failed"}
ShimInit ==
  /\ shim = "down" /\ job = [t \in Tasks |-> "none"] /\ files = {} /\ queue = <<>>
  /\ thread = NoTask
  /\ call = "none" /\ subject = NoTask /\ seen = "none"

-----------------------------------------------------------------------------
(* The process starts to listen; the pipeline is loaded and warmed.           *)
Listen == shim = "down" /\ shim' = "loading" /\ UNCHANGED <<job, files, queue, thread, callVars>>
Warm   == shim = "loading" /\ shim' = "ready" /\ UNCHANGED <<job, files, queue, thread, callVars>>

(* It ends: jobs and queue were its memory; a response under way is broken    *)
(* off.                                                                       *)
ShimDies ==
  /\ shim' = "down" /\ job' = [t \in Tasks |-> "none"] /\ files' = {} /\ queue' = <<>>
  /\ thread' = NoTask
CallBroken ==
  /\ call' = (IF call = "read" THEN "raised" ELSE call) /\ seen' = "none"
  /\ UNCHANGED subject

(* worker_loop takes the oldest job; run_job marks it.                        *)
Take ==
  /\ shim = "ready" /\ thread = NoTask /\ queue # <<>>
  /\ thread' = Head(queue) /\ queue' = Tail(queue)
  /\ job' = [job EXCEPT ![Head(queue)] = "running"]
  /\ UNCHANGED <<shim, files, callVars>>

(* Slip: the record says completed before it names the files.                 *)
StatusFirst ==
  /\ thread # NoTask
  /\ \/ /\ job[thread] = "running"
        /\ job' = [job EXCEPT ![thread] = "completed"] /\ UNCHANGED <<files, thread>>
     \/ /\ job[thread] = "completed"
        /\ files' = files \cup {thread} /\ thread' = NoTask /\ UNCHANGED job
  /\ UNCHANGED <<shim, queue, callVars>>

(* The pipeline has run and the clip is written: the record names its files,  *)
(* then it is completed.  Or something raised.                                *)
Finish ==
  /\ thread # NoTask
  /\ \/ thread \notin files /\ files' = files \cup {thread} /\ UNCHANGED <<job, thread>>
     \/ /\ thread \in files
        /\ job' = [job EXCEPT ![thread] = "completed"] /\ thread' = NoTask /\ UNCHANGED files
  /\ UNCHANGED <<shim, queue, callVars>>
InferenceFails ==
  /\ thread # NoTask /\ thread \notin files /\ job[thread] = "running"
  /\ job' = [job EXCEPT ![thread] = "failed"] /\ thread' = NoTask
  /\ UNCHANGED <<shim, files, queue, callVars>>

-----------------------------------------------------------------------------
(* generate(): a POST that is refused raises, one that arrives queues a job.  *)
Post ==
  /\ call = "submit"
  /\ IF shim = "down" THEN call' = "raised" /\ UNCHANGED <<job, queue>>
     ELSE /\ call' = "poll"
          /\ job' = [job EXCEPT ![subject] = "queued"] /\ queue' = Append(queue, subject)
  /\ UNCHANGED <<shim, files, thread, subject, seen>>

(* do_GET reads the record's status, and after that its files; a shim that is *)
(* down or has no such job makes the poll raise.                              *)
GetStatus ==
  /\ call = "poll"
  /\ seen' = job[subject]
  /\ call' = IF job[subject] = "none" THEN "raised" ELSE "read"
  /\ UNCHANGED <<jobVars, subject>>

(* A completed job's files are read and removed, any other end raises; a job  *)
(* that goes on is polled again, or given up when the deadline has passed.  A *)
(* record whose end was read stays for ever; as nobody asks for it again, it  *)
(* is left out.                                                               *)
GetFiles ==
  /\ call = "read"
  /\ LET readable == seen = "completed" /\ subject \in files
     IN  /\ call' = IF readable THEN "made" ELSE IF seen \in {"queued", "running"} THEN "poll" ELSE "raised"
         /\ files' = IF readable THEN files \ {subject} ELSE files
         /\ job' = IF call' = "poll" THEN job ELSE [job EXCEPT ![subject] = "none"]
  /\ seen' = "none"
  /\ UNCHANGED <<shim, queue, thread, subject>>
GiveUp ==
  /\ call = "read" /\ seen \in {"queued", "running"}
  /\ call' = "raised" /\ seen' = "none"
  /\ UNCHANGED <<jobVars, subject>>

ShimStep == Take \/ Finish \/ InferenceFails
CallStep == Post \/ GetStatus \/ GetFiles
=============================================================================

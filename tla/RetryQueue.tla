----------------------------- MODULE RetryQueue -----------------------------
(***************************************************************************)
(* The BullMQ queue "submission-evaluation", one job per submission        *)
(* (jobId `submission-<id>`), as the producer and the consumer use it.     *)
(*                                                                         *)
(*   none -> delayed -> waiting -> active -> completed | failed            *)
(*                         ^----- stalled ---+                             *)
(*                                                                         *)
(* The queue itself is the library's: its transitions are modelled from    *)
(* the options of submission-queue.config.ts (attempts: 1) and BullMQ's    *)
(* default of one recovery of a stalled job.  Completed jobs are kept: the *)
(* day after which removeOnComplete drops them is not modelled.            *)
(***************************************************************************)
EXTENDS Naturals

CONSTANTS JobKeys, MaxStalls

VARIABLES
  job,      \* the state of each submission's job
  stalls    \* how often the job was found active without a live worker

queueVars == <<job, stalls>>

JobStates == {"none", "delayed", "waiting", "active", "completed", "failed"}
Settled == {"completed", "failed"}

QueueTypeOK ==
  /\ job \in [JobKeys -> JobStates]
  /\ stalls \in [JobKeys -> 0 .. MaxStalls + 1]

QueueInit ==
  /\ job = [k \in JobKeys |-> "none"]
  /\ stalls = [k \in JobKeys |-> 0]

\* enqueueSubmissionEvaluation: add() with a jobId that is known is ignored.
Enqueue(k) ==
  /\ job' = IF job[k] = "none" THEN [job EXCEPT ![k] = "delayed"] ELSE job
  /\ UNCHANGED stalls

\* The delay given to add() is over.
Promote(k) ==
  /\ job[k] = "delayed"
  /\ job' = [job EXCEPT ![k] = "waiting"]
  /\ UNCHANGED stalls

Take(k) ==
  /\ job[k] = "waiting"
  /\ job' = [job EXCEPT ![k] = "active"]
  /\ UNCHANGED stalls

\* process() returned or threw; attempts: 1 makes the first failure final.
Settle(k, outcome) ==
  /\ job[k] = "active"
  /\ job' = [job EXCEPT ![k] = outcome]
  /\ UNCHANGED stalls

\* The stalled-job check finds the lock of an active job expired.  Past
\* MaxStalls the job fails without process() being called again.
RecoverStalled(k) ==
  /\ job[k] = "active"
  /\ job' = [job EXCEPT ![k] = IF stalls[k] < MaxStalls THEN "waiting" ELSE "failed"]
  /\ stalls' = [stalls EXCEPT ![k] = @ + 1]
=============================================================================

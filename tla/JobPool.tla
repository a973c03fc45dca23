------------------------------- MODULE JobPool -------------------------------
(***************************************************************************)
(* The worker pools of the pipeline, vertical, cuts and caption use cases  *)
(* (internal/application/*_media.go): the queue of accepted jobs, the      *)
(* dispatcher, the semaphore of slots, the run of a job and its answer,    *)
(* with the HTTP requests that bring jobs and the process's shutdown       *)
(* (cmd/server/main.go).                                                   *)
(*                                                                         *)
(* Each pool is one use case with a queue, a dispatcher and a semaphore of *)
(* its own.  An asynchronous job is queued, answered 202, run by a         *)
(* goroutine the dispatcher starts and answered by a webhook.  A           *)
(* synchronous job is run by its HTTP handler, which waits for a slot      *)
(* beside the dispatcher.  Downloads are one step here (JobInputs and      *)
(* Downloader model them), and so is an upload.                            *)
(***************************************************************************)
EXTENDS Integers, Sequences, FiniteSets

CONSTANTS Pools,
          AsyncJobs, SyncJobs,  \* the requests with and without a webhook
          poolOf,               \* the use case each is for
          MaxWorkers,           \* MAX_CONCURRENT_JOBS
          QueueSize,            \* capacity of jobQueue
          ChecksOutput,         \* pools that look for an empty output
          NoJob

Jobs == AsyncJobs \cup SyncJobs

ASSUME PoolAssumption ==
    /\ IsFiniteSet(Jobs)
    /\ AsyncJobs \cap SyncJobs = {}
    /\ poolOf \in [Jobs -> Pools]
    /\ MaxWorkers \in Nat
    /\ QueueSize \in Nat \ {0}
    /\ ChecksOutput \subseteq Pools
    /\ NoJob \notin Jobs

VARIABLES queue,     \* jobQueue of each pool
          inHand,    \* the job a dispatcher has received and holds no slot for
          sem,       \* how many slots of each pool are taken
          pc,        \* where each request is
          slot,      \* whether the job's release has yet to be called
          status,    \* Job.Status; "none" before job.New
          render,    \* how FFmpeg left the job's output
          answer,    \* the status its client was told; "none" before that
          process,   \* up, draining (srv.Shutdown runs), or down
          admitted,  \* history: the jobs each queue took, in order
          launched   \* history: the jobs each dispatcher started, in order

poolVars == <<queue, inHand, sem>>
orders == <<admitted, launched>>
vars == <<queue, inHand, sem, pc, slot, status, render, answer, process, admitted, launched>>

Labels == {"new", "handling", "refused", "queued", "inHand", "waiting", "launched",
           "fetching", "rendering", "rendered", "checking", "uploading", "returned",
           "notified", "released", "over"}

Statuses == {"none", "queued", "running", "done", "failed"}

PoolTypeOK ==
    /\ queue \in [Pools -> Seq(AsyncJobs)]
    /\ \A p \in Pools : Len(queue[p]) <= QueueSize
    /\ inHand \in [Pools -> AsyncJobs \cup {NoJob}]
    /\ sem \in [Pools -> Int]
    /\ pc \in [Jobs -> Labels]
    /\ slot \in [Jobs -> BOOLEAN]
    /\ status \in [Jobs -> Statuses]
    /\ render \in [Jobs -> {"none", "failed", "empty", "video"}]
    /\ answer \in [Jobs -> Statuses]
    /\ process \in {"up", "draining", "down"}
    /\ admitted \in [Pools -> Seq(AsyncJobs)]
    /\ launched \in [Pools -> Seq(AsyncJobs)]

Init ==
    /\ queue = [p \in Pools |-> <<>>]
    /\ inHand = [p \in Pools |-> NoJob]
    /\ sem = [p \in Pools |-> 0]
    /\ pc = [j \in Jobs |-> "new"]
    /\ slot = [j \in Jobs |-> FALSE]
    /\ status = [j \in Jobs |-> "none"]
    /\ render = [j \in Jobs |-> "none"]
    /\ answer = [j \in Jobs |-> "none"]
    /\ process = "up"
    /\ admitted = [p \in Pools |-> <<>>]
    /\ launched = [p \in Pools |-> <<>>]

Goto(j, from, to) == pc[j] = from /\ pc' = [pc EXCEPT ![j] = to]
SetStatus(j, s) == status' = [status EXCEPT ![j] = s]
-----------------------------------------------------------------------------
(* Requests. *)

\* A request is read and its handler starts; none does once Shutdown has begun.
Arrive(j) ==
    /\ process = "up"
    /\ Goto(j, "new", "handling")
    /\ UNCHANGED <<poolVars, slot, status, render, answer, process, orders>>

\* validate rejects the request, for a reason that is its own.
Invalid(j) ==
    /\ Goto(j, "handling", "refused")
    /\ UNCHANGED <<poolVars, slot, status, render, answer, process, orders>>

\* A faulty form: the channel has no bound.
AcceptUnbounded(j) ==
    /\ j \in AsyncJobs
    /\ Goto(j, "handling", "queued")
    /\ queue' = [queue EXCEPT ![poolOf[j]] = Append(@, j)]
    /\ admitted' = [admitted EXCEPT ![poolOf[j]] = Append(@, j)]
    /\ SetStatus(j, "queued")
    /\ UNCHANGED <<inHand, sem, slot, render, answer, process, launched>>

\* Execute: the job fits in the queue, and the client gets its 202.
Accept(j) ==
    /\ j \in AsyncJobs
    /\ Len(queue[poolOf[j]]) < QueueSize
    /\ Goto(j, "handling", "queued")
    /\ queue' = [queue EXCEPT ![poolOf[j]] = Append(@, j)]
    /\ admitted' = [admitted EXCEPT ![poolOf[j]] = Append(@, j)]
    /\ SetStatus(j, "queued")
    /\ UNCHANGED <<inHand, sem, slot, render, answer, process, launched>>

\* A faulty form: a full queue drops its oldest job for the new one.
AtCapacityDropsOldest(j) ==
    /\ j \in AsyncJobs
    /\ Len(queue[poolOf[j]]) = QueueSize
    /\ Goto(j, "handling", "queued")
    /\ queue' = [queue EXCEPT ![poolOf[j]] = Append(Tail(@), j)]
    /\ admitted' = [admitted EXCEPT ![poolOf[j]] = Append(@, j)]
    /\ SetStatus(j, "queued")
    /\ UNCHANGED <<inHand, sem, slot, render, answer, process, launched>>

\* Execute's default case: ErrAtCapacity, which the handler turns into 503.
AtCapacity(j) ==
    /\ j \in AsyncJobs
    /\ Len(queue[poolOf[j]]) = QueueSize
    /\ Goto(j, "handling", "refused")
    /\ UNCHANGED <<poolVars, slot, status, render, answer, process, orders>>

\* ExecuteSync goes to wait for a slot.
WaitForSlot(j) ==
    /\ j \in SyncJobs
    /\ Goto(j, "handling", "waiting")
    /\ UNCHANGED <<poolVars, slot, status, render, answer, process, orders>>
-----------------------------------------------------------------------------
(* The dispatcher and the slots. *)

DispatchTake(p) ==
    /\ inHand[p] = NoJob /\ queue[p] # <<>>
    /\ inHand' = [inHand EXCEPT ![p] = Head(queue[p])]
    /\ queue' = [queue EXCEPT ![p] = Tail(queue[p])]
    /\ Goto(Head(queue[p]), "queued", "inHand")
    /\ UNCHANGED <<sem, slot, status, render, answer, process, orders>>

\* sem <- struct{}{} goes through when the channel's buffer has room.
TakeSlot(j) ==
    /\ sem[poolOf[j]] < MaxWorkers
    /\ sem' = [sem EXCEPT ![poolOf[j]] = @ + 1]
    /\ slot' = [slot EXCEPT ![j] = TRUE]

\* The dispatcher gets a slot and starts the job's goroutine.
DispatchStart(p) ==
    /\ inHand[p] # NoJob
    /\ TakeSlot(inHand[p])
    /\ Goto(inHand[p], "inHand", "launched")
    /\ inHand' = [inHand EXCEPT ![p] = NoJob]
    /\ launched' = [launched EXCEPT ![p] = Append(@, inHand[p])]
    /\ UNCHANGED <<queue, status, render, answer, process, admitted>>

\* ExecuteSync gets a slot and makes its job.
SyncStart(j) ==
    /\ TakeSlot(j)
    /\ Goto(j, "waiting", "launched")
    /\ SetStatus(j, "queued")
    /\ UNCHANGED <<queue, inHand, render, answer, process, orders>>

\* A faulty form: without sync.Once each call receives from the semaphore.
FreeEachTime(j) ==
    /\ sem' = [sem EXCEPT ![poolOf[j]] = @ - 1]
    /\ slot' = [slot EXCEPT ![j] = FALSE]

\* release: under sync.Once, so that only the first call gives the slot back.
Free(j) ==
    IF slot[j]
    THEN /\ sem' = [sem EXCEPT ![poolOf[j]] = @ - 1]
         /\ slot' = [slot EXCEPT ![j] = FALSE]
    ELSE UNCHANGED <<sem, slot>>
-----------------------------------------------------------------------------
(* run. *)

\* j.Start.
Begin(j) ==
    /\ Goto(j, "launched", "fetching")
    /\ SetStatus(j, "running")
    /\ UNCHANGED <<poolVars, slot, render, answer, process, orders>>

Fetched(j) ==
    /\ Goto(j, "fetching", "rendering")
    /\ UNCHANGED <<poolVars, slot, status, render, answer, process, orders>>

\* A faulty form: j.Fail is forgotten.
PrepareFailUnmarked(j) ==
    /\ Goto(j, "fetching", "returned")
    /\ UNCHANGED <<poolVars, slot, status, render, answer, process, orders>>

\* A download fails, or the output directory or FFmpeg's arguments cannot be
\* made: j.Fail and return, with the slot still held.
PrepareFail(j) ==
    /\ Goto(j, "fetching", "returned")
    /\ SetStatus(j, "failed")
    /\ UNCHANGED <<poolVars, slot, render, answer, process, orders>>

\* RunFFmpeg returns: an error, the timeout included, or exit status 0 with a
\* video or with next to nothing in the output file.
RenderEnd(j) ==
    /\ Goto(j, "rendering", "rendered")
    /\ \E r \in {"failed", "empty", "video"} : render' = [render EXCEPT ![j] = r]
    /\ UNCHANGED <<poolVars, slot, status, answer, process, orders>>

\* releaseSlot, right after RunFFmpeg and before the upload.
ReleaseSlot(j) ==
    /\ Goto(j, "rendered", "checking")
    /\ Free(j)
    /\ UNCHANGED <<queue, inHand, status, render, answer, process, orders>>

\* The error of RunFFmpeg, and in two use cases the size of the output.
RenderFailed(j) ==
    render[j] = "failed" \/ (render[j] = "empty" /\ poolOf[j] \in ChecksOutput)

CheckRender(j) ==
    /\ IF RenderFailed(j)
       THEN Goto(j, "checking", "returned") /\ SetStatus(j, "failed")
       ELSE Goto(j, "checking", "uploading") /\ UNCHANGED status
    /\ UNCHANGED <<poolVars, slot, render, answer, process, orders>>

\* storage.Upload, and the job is complete or has failed.
Upload(j) ==
    /\ Goto(j, "uploading", "returned")
    /\ \E s \in {"done", "failed"} : SetStatus(j, s)
    /\ UNCHANGED <<poolVars, slot, render, answer, process, orders>>

\* A faulty form: the webhook is sent while the upload is under way.
NotifyEarly(j) ==
    /\ j \in AsyncJobs
    /\ \/ Goto(j, "returned", "notified")
       \/ pc[j] = "uploading" /\ pc' = pc
    /\ answer' = [answer EXCEPT ![j] = status[j]]
    /\ UNCHANGED <<poolVars, slot, status, render, process, orders>>

\* sendWebhook, with the status the job has then.
Notify(j) ==
    /\ j \in AsyncJobs
    /\ Goto(j, "returned", "notified")
    /\ answer' = [answer EXCEPT ![j] = status[j]]
    /\ UNCHANGED <<poolVars, slot, status, render, process, orders>>

\* A faulty form: nothing is deferred.
ReleaseNotDeferred(j) ==
    /\ \/ j \in AsyncJobs /\ Goto(j, "notified", "over")
       \/ j \in SyncJobs /\ Goto(j, "returned", "released")
    /\ UNCHANGED <<poolVars, slot, status, render, answer, process, orders>>

\* The deferred release: after the webhook in the dispatcher's goroutine, on
\* the return from ExecuteSync in a handler's.
DeferredRelease(j) ==
    /\ \/ j \in AsyncJobs /\ Goto(j, "notified", "over")
       \/ j \in SyncJobs /\ Goto(j, "returned", "released")
    /\ Free(j)
    /\ UNCHANGED <<queue, inHand, status, render, answer, process, orders>>

\* The handler writes the response of a synchronous job.
Reply(j) ==
    /\ Goto(j, "released", "over")
    /\ answer' = [answer EXCEPT ![j] = status[j]]
    /\ UNCHANGED <<poolVars, slot, status, render, process, orders>>
-----------------------------------------------------------------------------
(* The process. *)

ProcessUnchanged == UNCHANGED <<poolVars, pc, slot, status, render, answer, orders>>

Signal == process = "up" /\ process' = "draining" /\ ProcessUnchanged

\* A request whose handler has not returned.
InHandler(j) ==
    \/ pc[j] = "handling"
    \/ j \in SyncJobs /\ pc[j] \notin {"new", "refused", "over"}

\* srv.Shutdown returns when no handler is running any more...
Drained == process = "draining" /\ \A j \in Jobs : ~InHandler(j)

DrainExit == Drained /\ process' = "down" /\ ProcessUnchanged

\* ...or at SHUTDOWN_TIMEOUT_SECONDS, and main returns.
TimeoutExit == process = "draining" /\ process' = "down" /\ ProcessUnchanged
-----------------------------------------------------------------------------
Run(j) ==
    \/ Begin(j) \/ Fetched(j) \/ PrepareFail(j) \/ RenderEnd(j) \/ ReleaseSlot(j)
    \/ CheckRender(j) \/ Upload(j) \/ Notify(j) \/ DeferredRelease(j) \/ Reply(j)

Handle(j) == Invalid(j) \/ Accept(j) \/ AtCapacity(j) \/ WaitForSlot(j)

Next ==
    \/ /\ process # "down"
       /\ \/ \E j \in Jobs : Arrive(j) \/ Handle(j) \/ SyncStart(j) \/ Run(j)
          \/ \E p \in Pools : DispatchTake(p) \/ DispatchStart(p)
    \/ Signal \/ DrainExit \/ TimeoutExit

\* Goroutines that can run are run; downloads, FFmpeg, uploads and webhooks end
\* by their timeouts, and ffprobe, which has none (runner.go:149), is taken to end.
\* A goroutine that waits for a slot gets one when slots are freed often enough (the
\* runtime serves the senders of a channel in order).
Fairness ==
    /\ \A j \in Jobs : /\ WF_vars(process # "down" /\ (Handle(j) \/ Run(j)))
                       /\ SF_vars(process # "down" /\ SyncStart(j))
    /\ \A p \in Pools : /\ WF_vars(process # "down" /\ DispatchTake(p))
                        /\ SF_vars(process # "down" /\ DispatchStart(p))

Spec == Init /\ [][Next]_vars /\ Fairness
-----------------------------------------------------------------------------
Holders(p) == {j \in Jobs : slot[j] /\ poolOf[j] = p}
Settled == {"done", "failed"}

\* The semaphore counts the jobs that have yet to release, across the early release
\* after FFmpeg and the deferred one of every return; no slot is lost or
\* given back twice (pipeline_media.go:130-136, 166-169, 233).
SlotAccounting == \A p \in Pools : sem[p] = Cardinality(Holders(p))

\* A pool runs at most MaxWorkers FFmpeg processes, asynchronous and synchronous
\* jobs together (pipeline_media.go:118, 130, 166, 232).
RenderCap ==
    \A p \in Pools :
        Cardinality({j \in Jobs : pc[j] = "rendering" /\ poolOf[j] = p}) <= MaxWorkers

\* The job in a dispatcher's hand, as a sequence.
Hand(p) == IF inHand[p] = NoJob THEN <<>> ELSE <<inHand[p]>>

\* The dispatcher starts jobs in the order their requests were answered 202, and
\* drops none between the queue and the slot (pipeline_media.go:128-138, 150-152).
StartedInOrder ==
    \A p \in Pools : admitted[p] = launched[p] \o Hand(p) \o queue[p]

\* A client is told a final status, and the one the job keeps
\* (pipeline_media.go:135-136, 172-188).
AnswerIsFinal ==
    \A j \in Jobs : answer[j] # "none" => answer[j] = status[j] /\ status[j] \in Settled

\* Uploads and webhooks of rendered jobs leave the slots to others ("libera slot
\* de CPU antes do upload", pipeline_media.go:233).
UploadsHoldNoSlot ==
    \A j \in Jobs : render[j] # "none" /\ pc[j] # "rendered" => ~slot[j]

\* Where the output is looked at, a job that is done has made a video
\* (pipeline_media.go:239-245, cuts_media.go:177-180).
DoneMeansVideo ==
    \A j \in Jobs : poolOf[j] \in ChecksOutput /\ status[j] = "done" => render[j] = "video"

\* As long as the process lives, every accepted or waiting job is answered: the
\* dispatcher, the waiting handlers and the running jobs do not block each other
\* for good (pipeline_media.go:128-189).
JobsAnswered ==
    \A j \in Jobs : pc[j] \in {"queued", "waiting"} ~> answer[j] # "none" \/ process = "down"
-----------------------------------------------------------------------------
(* The client's view of a pool. *)

PhaseOf(at) ==
    CASE at \in {"new", "handling"} -> "new"
      [] at = "refused" -> "refused"
      [] at \in {"queued", "inHand", "waiting", "launched", "fetching"} -> "accepted"
      [] at = "rendering" -> "rendering"
      [] at \in {"rendered", "checking", "uploading"} -> "rendered"
      [] at \in {"returned", "released"} -> "settled"
      [] at \in {"notified", "over"} -> "told"

VerdictOf(s) == IF s \in Settled THEN s ELSE "none"

phase == [j \in Jobs |-> PhaseOf(pc[j])]
verdict == [j \in Jobs |-> VerdictOf(status[j])]

Service == INSTANCE JobService WITH Capacity <- MaxWorkers, open <- process # "down"

\* Queue, dispatcher, slots and shutdown together implement what JobService
\* promises, its progress included.
ImplementsService == Service!Spec
=============================================================================

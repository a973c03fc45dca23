-------------------------------- MODULE Clips --------------------------------
(***************************************************************************)
(* The clips use case (internal/application/clips_media.go).  A job is a   *)
(* list of clips of one input.  Its run starts a goroutine per clip that   *)
(* waits for a slot, renders and sends its result into a channel; a        *)
(* closer that closes the channel when all of them are done; and, as each  *)
(* result arrives, a goroutine that uploads the clip and removes its file. *)
(*                                                                         *)
(* The dispatcher holds no slot: every accepted job is started at once,    *)
(* and the slots are for clips.  Acquire and Release of the input are one  *)
(* step each (Downloader models them).                                     *)
(***************************************************************************)
EXTENDS Naturals, Sequences, FiniteSets

CONSTANTS AsyncJobs, SyncJobs,  \* the requests with and without a webhook
          Clips,
          jobOf,                \* the job each clip belongs to
          MaxWorkers,           \* MAX_CONCURRENT_JOBS
          QueueSize             \* capacity of jobQueue

Jobs == AsyncJobs \cup SyncJobs

ASSUME ClipsAssumption ==
    /\ IsFiniteSet(Clips)
    /\ AsyncJobs \cap SyncJobs = {}
    /\ jobOf \in [Clips -> Jobs]
    /\ MaxWorkers \in Nat
    /\ QueueSize \in Nat \ {0}

VARIABLES queue,     \* jobQueue
          run,       \* where the run of each job is
          status,    \* Job.Status
          sem,       \* the clips that hold a slot
          clip,      \* where the rendering goroutine of each clip is
          failed,    \* whether renderClip returned an error
          rendered,  \* the channel of each job
          closed,    \* whether it is closed
          upload,    \* where the upload goroutine of each clip is
          output,    \* the clip's entry in outputs
          file       \* whether there is a file at the clip's path in workDir/outputs

renderVars == <<sem, clip, failed>>
uploadVars == <<upload, output>>
vars == <<queue, run, status, sem, clip, failed, rendered, closed, upload, output, file>>

ClipsOf(j) == {c \in Clips : jobOf[c] = j}

RunLabels == {"new", "refused", "queued", "started", "collecting", "flushing",
              "ending", "returned", "told"}
ClipLabels == {"none", "blocked", "rendering", "sending", "sent", "freed", "over"}

ClipsTypeOK ==
    /\ queue \in Seq(AsyncJobs) /\ Len(queue) <= QueueSize
    /\ run \in [Jobs -> RunLabels]
    /\ status \in [Jobs -> {"none", "queued", "running", "done", "failed"}]
    /\ sem \subseteq Clips
    /\ clip \in [Clips -> ClipLabels]
    /\ failed \in [Clips -> BOOLEAN]
    /\ rendered \in [Jobs -> Seq(Clips)]
    /\ \A j \in Jobs : Len(rendered[j]) <= Cardinality(ClipsOf(j))  \* the channel's buffer
    /\ closed \in [Jobs -> BOOLEAN]
    /\ upload \in [Clips -> {"none", "uploading", "removing", "over"}]
    /\ output \in [Clips -> {"none", "error", "link"}]
    /\ file \in [Clips -> BOOLEAN]

Init ==
    /\ queue = <<>>
    /\ run = [j \in Jobs |-> "new"]
    /\ status = [j \in Jobs |-> "none"]
    /\ sem = {}
    /\ clip = [c \in Clips |-> "none"]
    /\ failed = [c \in Clips |-> FALSE]
    /\ rendered = [j \in Jobs |-> <<>>]
    /\ closed = [j \in Jobs |-> FALSE]
    /\ upload = [c \in Clips |-> "none"]
    /\ output = [c \in Clips |-> "none"]
    /\ file = [c \in Clips |-> FALSE]

RunTo(j, from, to) == run[j] = from /\ run' = [run EXCEPT ![j] = to]
ClipTo(c, from, to) == clip[c] = from /\ clip' = [clip EXCEPT ![c] = to]
SetStatus(j, s) == status' = [status EXCEPT ![j] = s]
-----------------------------------------------------------------------------
(* Requests and the dispatcher. *)

\* validateClips, or Execute's default case when the queue is full.
Refuse(j) ==
    /\ RunTo(j, "new", "refused")
    /\ UNCHANGED <<queue, status, renderVars, rendered, closed, uploadVars, file>>

Execute(j) ==
    /\ j \in AsyncJobs /\ Len(queue) < QueueSize
    /\ RunTo(j, "new", "queued")
    /\ SetStatus(j, "queued")
    /\ queue' = Append(queue, j)
    /\ UNCHANGED <<renderVars, rendered, closed, uploadVars, file>>

\* ExecuteSync goes straight into run, and so into j.Start.
ExecuteSync(j) ==
    /\ j \in SyncJobs
    /\ RunTo(j, "new", "started")
    /\ SetStatus(j, "running")
    /\ UNCHANGED <<queue, renderVars, rendered, closed, uploadVars, file>>

\* dispatch starts a goroutine for the job, whatever else runs.
Dispatch ==
    /\ queue # <<>>
    /\ queue' = Tail(queue)
    /\ RunTo(Head(queue), "queued", "started")
    /\ SetStatus(Head(queue), "running")
    /\ UNCHANGED <<renderVars, rendered, closed, uploadVars, file>>
-----------------------------------------------------------------------------
(* run, up to the loop that collects the results. *)

AcquireFail(j) ==
    /\ RunTo(j, "started", "returned")
    /\ SetStatus(j, "failed")
    /\ UNCHANGED <<queue, renderVars, rendered, closed, uploadVars, file>>

\* The input is there; the goroutines of all clips and the closer start.
StartClips(j) ==
    /\ RunTo(j, "started", "collecting")
    /\ clip' = [c \in Clips |-> IF jobOf[c] = j THEN "blocked" ELSE clip[c]]
    /\ UNCHANGED <<queue, status, sem, failed, rendered, closed, uploadVars, file>>
-----------------------------------------------------------------------------
(* The goroutine of a clip. *)

\* A faulty form: no slot is waited for.
TakeSlotUnbounded(c) ==
    /\ ClipTo(c, "blocked", "rendering")
    /\ sem' = sem \cup {c}
    /\ UNCHANGED <<queue, run, status, failed, rendered, closed, uploadVars, file>>

TakeSlot(c) ==
    /\ Cardinality(sem) < MaxWorkers
    /\ ClipTo(c, "blocked", "rendering")
    /\ sem' = sem \cup {c}
    /\ UNCHANGED <<queue, run, status, failed, rendered, closed, uploadVars, file>>

\* renderClip returns, with an error or without, and whatever FFmpeg has left behind:
\* it looks at FFmpeg's exit only, never at the file.
RenderEnd(c) ==
    /\ ClipTo(c, "rendering", "sending")
    /\ \E left, error \in BOOLEAN :
          /\ file' = [file EXCEPT ![c] = left]
          /\ failed' = [failed EXCEPT ![c] = error]
    /\ UNCHANGED <<queue, run, status, sem, rendered, closed, uploadVars>>

\* A faulty form: a failed clip is reported by renderClip's caller and again below.
SendTwice(c) ==
    /\ ClipTo(c, "sending", "sent")
    /\ rendered' = [rendered EXCEPT ![jobOf[c]] = IF failed[c] THEN @ \o <<c, c>> ELSE Append(@, c)]
    /\ UNCHANGED <<queue, run, status, sem, failed, closed, uploadVars, file>>

\* rendered <- renderOut: the buffer has room for every clip.
Send(c) ==
    /\ ClipTo(c, "sending", "sent")
    /\ rendered' = [rendered EXCEPT ![jobOf[c]] = Append(@, c)]
    /\ UNCHANGED <<queue, run, status, sem, failed, closed, uploadVars, file>>

\* A faulty form: the slot is not given back when the render failed.
GiveSlotOnSuccess(c) ==
    /\ ClipTo(c, "sent", "freed")
    /\ sem' = IF failed[c] THEN sem ELSE sem \ {c}
    /\ UNCHANGED <<queue, run, status, failed, rendered, closed, uploadVars, file>>

\* The deferred calls, last one first: the slot, then renderWg.Done.
GiveSlot(c) ==
    /\ ClipTo(c, "sent", "freed")
    /\ sem' = sem \ {c}
    /\ UNCHANGED <<queue, run, status, failed, rendered, closed, uploadVars, file>>

RenderDone(c) ==
    /\ ClipTo(c, "freed", "over")
    /\ UNCHANGED <<queue, run, status, sem, failed, rendered, closed, uploadVars, file>>

\* A faulty form: the channel is closed once a result has been sent.
CloseEarly(j) ==
    /\ run[j] \notin {"new", "refused", "queued", "started"} /\ ~closed[j]
    /\ \E c \in ClipsOf(j) : clip[c] = "over"
    /\ closed' = [closed EXCEPT ![j] = TRUE]
    /\ UNCHANGED <<queue, run, status, renderVars, rendered, uploadVars, file>>

\* renderWg.Wait and close(rendered).
Close(j) ==
    /\ run[j] \notin {"new", "refused", "queued", "started"} /\ ~closed[j]
    /\ \A c \in ClipsOf(j) : clip[c] = "over"
    /\ closed' = [closed EXCEPT ![j] = TRUE]
    /\ UNCHANGED <<queue, run, status, renderVars, rendered, uploadVars, file>>
-----------------------------------------------------------------------------
(* The loop, the uploads and the end of run. *)

\* range rendered: an error is written down, a clip is given to an upload
\* goroutine of its own.
Receive(j) ==
    /\ run[j] = "collecting" /\ rendered[j] # <<>>
    /\ rendered' = [rendered EXCEPT ![j] = Tail(@)]
    /\ LET c == Head(rendered[j])
       IN  IF failed[c]
           THEN output' = [output EXCEPT ![c] = "error"] /\ upload' = upload
           ELSE upload' = [upload EXCEPT ![c] = "uploading"] /\ output' = output
    /\ UNCHANGED <<queue, run, status, renderVars, closed, file>>

EndOfRange(j) ==
    /\ rendered[j] = <<>> /\ closed[j]
    /\ RunTo(j, "collecting", "flushing")
    /\ UNCHANGED <<queue, status, renderVars, rendered, closed, uploadVars, file>>

\* storage.Upload returns; the local one does not open the file.
Upload(c) ==
    /\ upload[c] = "uploading"
    /\ \/ /\ output' = [output EXCEPT ![c] = "link"]
          /\ upload' = [upload EXCEPT ![c] = "removing"]
       \/ /\ output' = [output EXCEPT ![c] = "error"]
          /\ upload' = [upload EXCEPT ![c] = "over"]
    /\ UNCHANGED <<queue, run, status, renderVars, rendered, closed, file>>

\* os.Remove(outPath), whose error is ignored, and uploadWg.Done.
RemoveOutput(c) ==
    /\ upload[c] = "removing"
    /\ upload' = [upload EXCEPT ![c] = "over"]
    /\ file' \in {file, [file EXCEPT ![c] = FALSE]}
    /\ UNCHANGED <<queue, run, status, renderVars, rendered, closed, output>>

\* A faulty form: uploadWg is not waited for.
CompleteAtOnce(j) ==
    /\ RunTo(j, "flushing", "ending")
    /\ SetStatus(j, "done")
    /\ UNCHANGED <<queue, renderVars, rendered, closed, uploadVars, file>>

\* uploadWg.Wait and j.Complete, however many clips failed.
Complete(j) ==
    /\ \A c \in ClipsOf(j) : upload[c] \in {"none", "over"}
    /\ RunTo(j, "flushing", "ending")
    /\ SetStatus(j, "done")
    /\ UNCHANGED <<queue, renderVars, rendered, closed, uploadVars, file>>

\* The deferred dl.Release of the input.
ReleaseInput(j) ==
    /\ RunTo(j, "ending", "returned")
    /\ UNCHANGED <<queue, status, renderVars, rendered, closed, uploadVars, file>>

\* The webhook of an asynchronous job, the response of a synchronous one.
Tell(j) ==
    /\ RunTo(j, "returned", "told")
    /\ UNCHANGED <<queue, status, renderVars, rendered, closed, uploadVars, file>>
-----------------------------------------------------------------------------
ClipStep(c) == RenderEnd(c) \/ Send(c) \/ GiveSlot(c) \/ RenderDone(c)

UploadStep(c) == Upload(c) \/ RemoveOutput(c)

RunStep(j) ==
    \/ AcquireFail(j) \/ StartClips(j) \/ Receive(j) \/ EndOfRange(j)
    \/ Complete(j) \/ ReleaseInput(j) \/ Tell(j)

Next ==
    \/ \E j \in Jobs : Refuse(j) \/ Execute(j) \/ ExecuteSync(j) \/ RunStep(j) \/ Close(j)
    \/ \E c \in Clips : TakeSlot(c) \/ ClipStep(c) \/ UploadStep(c)
    \/ Dispatch

\* Goroutines that can run are run; downloads, FFmpeg, uploads and webhooks end by
\* their timeouts, and ffprobe, which has none (runner.go:149), is taken to end; the
\* senders of the semaphore are served in order.
Fairness ==
    /\ WF_vars(Dispatch)
    /\ \A j \in Jobs : WF_vars(RunStep(j)) /\ WF_vars(Close(j))
    /\ \A c \in Clips : /\ SF_vars(TakeSlot(c))
                        /\ WF_vars(ClipStep(c)) /\ WF_vars(UploadStep(c))

Spec == Init /\ [][Next]_vars /\ Fairness
-----------------------------------------------------------------------------
\* All jobs together run at most MaxWorkers FFmpeg processes, and each one has a
\* slot that is given back once whether or not the render failed
\* (clips_media.go:223-224).
ClipSlots ==
    /\ Cardinality(sem) <= MaxWorkers
    /\ sem = {c \in Clips : clip[c] \in {"rendering", "sending", "sent"}}

\* The channel is closed after the last result was sent into it: no send can panic
\* and no result is left behind (clips_media.go:221-241).
ClosedAfterSends ==
    \A j \in Jobs : closed[j] => \A c \in ClipsOf(j) : clip[c] \in {"sent", "freed", "over"}

\* The input's reference is kept until no clip of the job can read it any more: the
\* deferred Release runs after the last render (clips_media.go:204, 238-247).
InputKeptForRenders ==
    \A j \in Jobs : run[j] \in {"returned", "told"} =>
        \A c \in ClipsOf(j) : clip[c] \notin {"blocked", "rendering"}

\* A job that is done accounts for every clip, with a link or an error, and nothing
\* writes to its outputs any more (clips_media.go:244-280).
OutputsComplete ==
    \A j \in Jobs : run[j] \in {"ending", "returned", "told"} /\ status[j] = "done" =>
        \A c \in ClipsOf(j) : output[c] # "none" /\ upload[c] \in {"none", "over"}

\* Every accepted job is answered, however the clips of all jobs compete for slots
\* and in whatever order renders and uploads end (clips_media.go:155-281).
ClipsAnswered == \A j \in Jobs : run[j] \in {"queued", "started"} ~> run[j] = "told"
=============================================================================

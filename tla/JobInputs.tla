------------------------------ MODULE JobInputs ------------------------------
(***************************************************************************)
(* How the use cases acquire and release the inputs of a job               *)
(* (internal/application/*_media.go), over Downloader.                     *)
(*                                                                         *)
(* A job is one call of a use case's run; each of its inputs is a caller   *)
(* of Downloader.  Vertical, cuts and clips have one input.  Caption       *)
(* acquires two in sequence and defers the Release of each as soon as it   *)
(* has it.  Pipeline acquires all of its inputs in parallel, waits for     *)
(* all, and defers the Releases only when every one has arrived.           *)
(*                                                                         *)
(* An input may itself be the public URL of an upload, which another job   *)
(* replaces meanwhile; and the process may crash and be started again,     *)
(* over the same cache directory.                                          *)
(***************************************************************************)
EXTENDS Downloader

CONSTANTS Jobs,
          job,         \* the job each caller acquires an input for
          after,       \* the input that comes before this one in its job, or Nobody
          Plans        \* what may be asked of the process: the use case of the jobs, the
                       \* callers there are, and a bound on the uploads and crashes

ASSUME JobsAssumption ==
    /\ job \in [Callers -> Jobs]
    /\ after \in [Callers -> Callers \cup {Nobody}]
    /\ Plans \subseteq [useCase : {"caption", "pipeline"}, callers : SUBSET Callers, maxEvents : Nat]
    \* A caption job acquires one of its two inputs after the other.
    /\ \A p \in Plans : p.useCase = "caption" =>
          \A c, d \in p.callers : c # d /\ job[c] = job[d] => after[c] = d \/ after[d] = c

VARIABLES stage,      \* where the run of each job is
          deferred,   \* the inputs whose Release its run has deferred
          plan,       \* one of Plans
          events,     \* how many uploads and crashes there have been
          published,  \* how often the object at each URL has been replaced
          response,   \* which of its versions the server has answered a download with
          copied,     \* which of them the file at the URL's path is
          dropped,    \* history: the version after which Invalidate has run
          settled,    \* history: the same, if no download had then been answered
          asked       \* history: dropped and settled when a caller asked

versions == <<published, response, copied, dropped, settled, asked>>
jobVars == <<vars, stage, deferred, plan, events, versions>>

NotAsked == [dropped |-> 0, settled |-> 0]

Inputs(j) == {c \in plan.callers : job[c] = j}

Stages == {"new", "acquiring", "holding", "ended"}

JobsInit ==
    /\ Init
    /\ stage = [j \in Jobs |-> "new"]
    /\ deferred = [j \in Jobs |-> {}]
    /\ plan \in Plans
    /\ events = 0
    /\ published = [u \in Urls |-> 0]
    /\ response = [c \in Callers |-> 0]
    /\ copied = [u \in Urls |-> 0]
    /\ dropped = [u \in Urls |-> 0]
    /\ settled = [u \in Urls |-> 0]
    /\ asked = [c \in Callers |-> NotAsked]

Enter(j, from, to) ==
    /\ stage[j] = from
    /\ stage' = [stage EXCEPT ![j] = to]
    /\ UNCHANGED <<vars, plan, events, versions>>
-----------------------------------------------------------------------------
Begin(j) == Enter(j, "new", "acquiring") /\ UNCHANGED deferred

\* dl.Acquire(url): at once in pipeline's goroutines, in order in caption.
Ask(c) ==
    /\ c \in plan.callers /\ stage[job[c]] = "acquiring"
    /\ plan.useCase = "caption" /\ after[c] # Nobody => pc[after[c]] = "held"
    /\ Lookup(c)
    /\ asked' = [asked EXCEPT ![c] = [dropped |-> dropped[url[c]], settled |-> settled[url[c]]]]
    /\ UNCHANGED <<stage, deferred, plan, events, published, response, copied, dropped, settled>>

\* A faulty form: the Release of the second input is not deferred.
DeferFirstOnly(c) ==
    deferred' = IF plan.useCase # "pipeline" /\ pc'[c] = "held" /\ after[c] = Nobody
                THEN [deferred EXCEPT ![job[c]] = @ \cup {c}] ELSE deferred

\* defer dl.Release(url), of the use cases other than pipeline, as soon as Acquire returns
\* a path.
DeferRelease(c) ==
    deferred' = IF plan.useCase # "pipeline" /\ pc'[c] = "held"
                THEN [deferred EXCEPT ![job[c]] = @ \cup {c}] ELSE deferred

\* The rest of Acquire.  The server answers with the version that is published then, and
\* that is what the file will be which the download creates later.
Go(c) ==
    /\ Advance(c)
    /\ response' = IF pc'[c] = "answered"
                   THEN [response EXCEPT ![c] = published[url[c]]] ELSE response
    /\ copied' = IF pc'[c] = "copy" THEN [copied EXCEPT ![url[c]] = response[c]] ELSE copied
    /\ asked' = IF pc'[c] = "failed" THEN [asked EXCEPT ![c] = NotAsked] ELSE asked
    /\ DeferRelease(c)
    /\ UNCHANGED <<stage, plan, events, published, dropped, settled>>

\* run goes on once every input has arrived, and may return at any moment: the deferred
\* Releases follow.  Pipeline defers its own now, for all inputs.
Acquired(j) ==
    /\ \A c \in Inputs(j) : pc[c] = "held"
    /\ Enter(j, "acquiring", "holding")
    /\ deferred' = [deferred EXCEPT ![j] = IF plan.useCase = "pipeline" THEN Inputs(j) ELSE @]

\* downloadInputs waits for all goroutines and returns the first error, and run returns.
DownloadInputsFail(j) ==
    /\ plan.useCase = "pipeline"
    /\ \A c \in Inputs(j) : pc[c] \in {"held", "failed"}
    /\ \E c \in Inputs(j) : pc[c] = "failed"
    /\ Enter(j, "acquiring", "holding")
    /\ UNCHANGED deferred

\* The other use cases return at the first error.
AcquireFail(j) ==
    /\ plan.useCase # "pipeline"
    /\ \E c \in Inputs(j) : pc[c] = "failed"
    /\ Enter(j, "acquiring", "holding")
    /\ UNCHANGED deferred

\* The deferred Releases, one after another: pipeline's in the order of the request, the
\* others' last one first.
ReleaseInput(c) ==
    LET left == deferred[job[c]] IN
    /\ stage[job[c]] = "holding"
    /\ c \in left
    /\ IF plan.useCase = "pipeline" THEN after[c] \notin left ELSE \A e \in left : after[e] # c
    /\ Return(c)
    /\ deferred' = [deferred EXCEPT ![job[c]] = @ \ {c}]
    /\ asked' = [asked EXCEPT ![c] = NotAsked]
    /\ UNCHANGED <<stage, plan, events, published, response, copied, dropped, settled>>

\* No deferred call is left, and run has returned.
End(j) ==
    /\ deferred[j] = {}
    /\ Enter(j, "holding", "ended")
    /\ UNCHANGED deferred
-----------------------------------------------------------------------------
(* Uploads to the URL of an input, and the end of the process. *)

Happens == events < plan.maxEvents /\ events' = events + 1

\* storage.Upload of another job replaces the object...
Replace(u) ==
    /\ u \in Published
    /\ Happens
    /\ published' = [published EXCEPT ![u] = @ + 1]
    /\ UNCHANGED <<vars, stage, deferred, plan, response, copied, dropped, settled, asked>>

\* The server has answered a download of the URL, and what it answered may be given out
\* after this moment.
InFlight(u) ==
    \E c \in Callers :
        url[c] = u /\ pc[c] \in {"answered", "copy", "fetched", "put", "ok", "okDone"}

\* ...and dl.Invalidate(publicURL) follows; it changes nothing where there is no entry.
Forget(u) ==
    /\ dropped[u] < published[u]
    /\ IF Cached(u) THEN Publish(u) ELSE UNCHANGED vars
    /\ dropped' = [dropped EXCEPT ![u] = published[u]]
    /\ settled' = IF InFlight(u) THEN settled ELSE [settled EXCEPT ![u] = published[u]]
    /\ UNCHANGED <<stage, deferred, plan, events, published, response, copied, asked>>

\* The process ends at any moment and is started again: the cache and the flights are
\* empty, the files are where they were, and the clients ask again.
Crash ==
    /\ Happens
    /\ \E j \in Jobs : stage[j] # "new"
    /\ stage' = [j \in Jobs |-> "new"]
    /\ deferred' = [j \in Jobs |-> {}]
    /\ entries' = [u \in Urls |-> NoEntry]
    /\ pc' = [c \in Callers |-> "start"]
    /\ downloading' = [d \in Downloaders |-> [u \in Urls |-> Nobody]]
    /\ call' = [c \in Callers |-> "open"]
    /\ joined' = [c \in Callers |-> Nobody]
    /\ writer' = [u \in Urls |-> Nobody]
    /\ took' = [c \in Callers |-> Nobody]
    /\ gave' = [c \in Callers |-> Nobody]
    /\ response' = [c \in Callers |-> 0]
    /\ asked' = [c \in Callers |-> NotAsked]
    /\ UNCHANGED <<files, plan, published, copied, dropped, settled>>
-----------------------------------------------------------------------------
InputStep(c) == Ask(c) \/ Go(c) \/ ReleaseInput(c)

RunStep(j) ==
    \/ Acquired(j) \/ DownloadInputsFail(j) \/ AcquireFail(j) \/ End(j)
    \/ \E c \in Inputs(j) : InputStep(c)

Environment ==
    /\ Sweep \/ \E u \in Urls : Tick(u)
    /\ UNCHANGED <<stage, deferred, plan, events, versions>>

JobsNext ==
    \/ \E j \in Jobs : Begin(j) \/ RunStep(j)
    \/ \E u \in Urls : Replace(u) \/ Forget(u)
    \/ Environment
    \/ Crash

\* Goroutines that can run are run, requests end (both HTTP clients have a timeout), and
\* FFmpeg and the uploads run under timeouts; ffprobe has none (runner.go:149) and is
\* taken to end.  Begin is the client's.  No step of a run can be repeated for ever, so
\* that fairness to each run is fairness to its goroutines.
JobsFairness == \A j \in Jobs : WF_jobVars(RunStep(j))

JobsSpec == JobsInit /\ [][JobsNext]_jobVars /\ JobsFairness
-----------------------------------------------------------------------------
\* The Releases that a run has deferred by the time it returns are those of the inputs it
\* has acquired: a job that has ended holds none, whichever download failed and however
\* many had arrived, save a pipeline job that lost a download: see ReleasedAfterRun
\* (caption_media.go:149-163, pipeline_media.go:204-216).
InputsGivenBack ==
    \A j \in Jobs :
        /\ stage[j] = "ended"
        /\ plan.useCase = "pipeline" => \A c \in Inputs(j) : pc[c] # "failed"
        => \A c \in Inputs(j) : pc[c] # "held"

\* Jobs that hold one input while they wait for another, each in its own order,
\* do not block each other: every run ends, unless the process does.
RunsEnd == \A j \in Jobs : stage[j] = "acquiring" ~> stage[j] \in {"ended", "new"}

\* What a job is given under a URL that it asks for after an Invalidate is not older
\* than that Invalidate's upload, if no download that the server had answered was under way
\* when Invalidate ran, whatever happens after it: one that creates its file or has its
\* answer later is not older (file_cache.go:117-123, local.go:38-48,
\* pipeline_media.go:272-277).
FreshOnceSettled ==
    \A c \in Callers : pc[c] = "held" => copied[url[c]] >= asked[c].settled

\* A part of a video that a crash has left at the path of a URL is never given out: no
\* job holds a partial file, if one caller only has downloaded the URL since the process
\* was started (downloader.go:44-83, local.go:48-58).
PartialNeverHeld ==
    \A c \in Callers :
        /\ pc[c] = "held"
        /\ \A e, f \in Callers : Owned(e) /\ Owned(f) /\ url[e] = url[c] /\ url[f] = url[c] => e = f
        => files[url[c]] # "partial"
-----------------------------------------------------------------------------
(* Statements of the repository's comments. *)

\* Release "must be called once per successful Acquire" (downloader.go:33).
ReleasedAfterRun ==
    \A j \in Jobs : stage[j] = "ended" => \A c \in Inputs(j) : pc[c] # "held"

\* Invalidate is "used after a file is uploaded so the same URL re-used as input forces
\* a fresh download" (downloader.go:39): who asks after it gets what was uploaded.
FreshAfterUpload ==
    \A c \in Callers : pc[c] = "held" => copied[url[c]] >= asked[c].dropped
=============================================================================

# A TLA+ model of gme-open-server

gme-open-server is an HTTP server that renders videos with FFmpeg. A request
names source videos by URL and says what to do with them; the server downloads
the sources into a shared cache, runs FFmpeg under a bound on concurrency,
uploads the result and answers, in the HTTP response or by a webhook. The
modules here model its job processing, its shared download cache, what it asks
of FFmpeg and what becomes of the videos; TLC checks them on small instances,
and TLAPS proves the main safety properties for every instance.

Source paths below are relative to `src/internal/` unless they begin with `cmd`,
`pkg`, `docs` or `README.md`.

## The system

| Component | Code | State | Operations |
|---|---|---|---|
| File cache | `infra/ffmpeg/file_cache.go` | map from URL hash to (path, count, expiry), one mutex | Get, Put, Acquire, Release, Invalidate, the sweeper |
| Downloader | `application/downloader.go` | `sync.Map` of downloads in flight; one Downloader per use case, all over one cache and directory | Acquire (find, join or download), Release, Invalidate |
| Storage | `infra/storage/local.go`, `gcs.go` | files in `cache/` and `outputs/`; the bucket; the GCS access token under a mutex | Download, Upload |
| Worker pools (pipeline, vertical, cuts, caption) | `application/*_media.go` | queue, semaphore, dispatcher goroutine, a goroutine per job | Execute, ExecuteSync, dispatch, run, webhook |
| Clips | `application/clips_media.go` | queue, semaphore shared by the clips of all jobs, one channel per job | the same, with a goroutine per clip and per upload |
| To-mp3 | `application/to_mp3_media.go` | none | makes a pipeline request with a fixed file name |
| Upload | `application/upload_media.go` | a directory per request | download or copy, Upload, clean-up |
| Arguments | `application/*_media.go` | none | validation, buildFFmpegArgs, buildVerticalArgs, buildSourceArgs, buildCutsArgs |
| Cuts computation | `application/cuts_media.go` | none | validateCuts, the loop of buildCutsArgs |
| Job | `domain/job` | status and times | New, Start, Complete, Fail |
| Runner | `infra/ffmpeg/runner.go`, `gpu_detector.go` | the encoder in use (atomic) | RunFFmpeg, ProbeMedia, GetEncoder, SetEncoder, DetectOrOverride |
| Webhook sender | `infra/webhook/http_sender.go` | none | Send: up to three attempts |
| HTTP API | `api/` | none | decode, choose the mode, map errors to status codes |
| Process | `cmd/server/main.go`, `pkg/config` | configuration, the five use cases | start, shutdown on a signal |

How they interact: a handler calls Execute (the request has a webhook URL; 202 at
once) or ExecuteSync (it has none; the handler waits). The dispatcher takes a
job from the queue, waits for a slot and starts its goroutine; ExecuteSync waits
for a slot itself. `run` acquires the inputs through the use case's Downloader,
builds arguments, has the runner adapt them to the encoder and run FFmpeg, gives
the slot back, uploads, removes its file and drops the cache entry of the link,
and on return releases its inputs. The five Downloaders meet in the file cache
and in the files of `cache/`; jobs of one `file_name` meet in `outputs/` and in
the bucket; all uploads meet in the token's mutex; and all renders read the
encoder that a background goroutine sets some time after the start.

What is hard: the cache is locked per call, while its users need sequences of
calls (look up, then count); downloads write straight to the path that others
read, and may outlast an Invalidate; slots are released on two paths; handlers
and dispatchers compete for slots; the clips use case runs three layers of
goroutines that meet in a channel and two wait groups; shutdown knows of handlers
only; the runner rewrites arguments it did not build; a crash leaves parts of
files where the next process looks. `PROJECT.json` lists these points with their
lines.

## The modules

**FileCache** has the cache's variables `entries` and `files` and an operator for
each method of `FileCache`. Each method holds the mutex throughout, so each is
one atomic operator. Time is a flag that turns on (`Expire`), because the code
only asks whether the expiry has passed. The path of a cached file is a function
of its URL, so `files` is indexed by URL: absent, partial or whole. `putBy` is
bookkeeping: it tells an entry from the one that replaced it.

**Downloader** extends it with the callers of `Downloader.Acquire`. Between two
lock sections, two `sync.Map` calls or two system calls any goroutine may run, so
each of these is an action:

| Code | Actions |
|---|---|
| `cache.Get`, then `cache.Acquire` on a hit | `Lookup`, `TakeHit` |
| `downloading.LoadOrStore` | `LoadOrStore` |
| a waiter: `wg.Wait`, `cache.Acquire` | `Wake`, `TakeJoined` |
| the owner: `storage.Download`: the GET, `os.Create`, `io.Copy` | `FetchAnswered`, `FetchCreate`, `CopyOk`; `FetchRefused`, `CopyFail` |
| the owner: `Put`, `Acquire`, deferred `Done` and `Delete` | `PutFetched`, `TakeOwn`, `Done`, `Delete` |
| `Release` | `Return` |
| sweeper, clock, `Invalidate` of a published URL | `Sweep`, `Tick`, `Publish` |

`took` and `gave` are history: the Put whose entry a caller's Acquire and Release
met. A caller acquires once; the callers of a run are the bound.

**JobInputs** extends Downloader with the runs that use it: sequential acquisition
with a deferred Release each (caption; the use cases of one input are a case of it)
and parallel acquisition with the Releases deferred after all have arrived
(pipeline). A run that holds its inputs may return at any moment. `deferred` is what
a run has deferred: a Release at the return of each Acquire in caption
(`DeferRelease`), all of them at once in pipeline (`Acquired`), none if a pipeline's
download has failed. A run that returns makes these calls, last one first in caption
and in the order of the request in pipeline, and ends when none is left, whatever
its inputs are then. To that come the uploads that replace the object under a URL
and call Invalidate (`Replace`, `Forget`). The version of a download is the one the
server has when it answers the GET (`response`); the file has it from its creation
on (`copied`), which may come after an Invalidate; `InFlight` says whether an
answered download is under way. The last is a crash after which another process
starts over the same `cache/`, with neither entries nor flights (`Crash`). `after`
orders the inputs of a job. `Plans` are the sets of callers and the number of such
events a behaviour may have.

**JobService** is the abstract specification of job processing: a request is
refused or admitted, rendered under a bound per pool, settled once as done or
failed, and told, with that progress promised unless the process stops.

**JobPool** is the detailed one for the four use cases that share their control
flow: queue, dispatcher, semaphore with its `sync.Once` release, `run` with each
of its returns, webhook or response, and shutdown. `ChecksOutput` is the set of
pools that look at the size of the output (pipeline and cuts do; vertical and
caption do not). It implements JobService under the mapping `phase`, `verdict`,
`open` at the end of the module. Downloads, uploads and the webhook are one step
each here: JobInputs, Results and Delivery have their steps.

**Clips** is the clips use case: no slot for the job, a slot per clip, the
channel of results, the closer, the loop that starts uploads, and the removal of
each uploaded file, which may fail. Its input is one step; a clip's render has any
outcome: renderClip returns an error or none, and in either case there is a file or
there is none, since it looks at FFmpeg's exit only.

**Cuts** is the loop that turns the intervals to remove into the segments to keep,
an iteration per step, after `validateCuts`. Times are integers. `Plays` is what
FFmpeg's trim does with a segment. Cuts that start together are in the order of the
request in a list of up to `StableUpTo` cuts, and in any order in a longer one
(`MayPrecede`), as sort.Slice has it: it is stable for up to twelve elements.

**Camera** has the filter of a vertical video as functions of a request and of an
order of its keyframes: the loop of `buildZoomExpr` and `buildScrollXExpr` (one
operator, for one is the other with another field), and the choice between an
animated and a static zoom. `Orders` are the orders by time that sort.Slice may
produce, with keyframes of one time in any order. Below them are FFmpeg's reading of
such an expression (`Value`, `ZoomShown`, `ScrollShown`), and what the keyframes ask
for (`Asked`, `Follows`), defined without nesting or sorting.

**CommandLine** has the arguments that each use case builds, as sequences of words
in which data are names ("input", "crf"), the runner's rewriting of them
(`Rewrite`, a word of the loop of `SubstituteEncoder`, and `InjectEncoderQuality`),
and the rule by which FFmpeg reads a command line (`Places`, `OutputsOf`), which is
external. `Words` is what may stand on a command line, and `Flags` and
`WithArgument` are the options of FFmpeg without and with an argument; nothing is
assumed of them but that the words and options of the code are among them, on their
sides (`OptionsAssumption`). In the run they are the strings, two flags, and the
options that occur in the code.

**Rendering** puts these two into time: detection tries one encoder after another
while jobs arrive, are validated, read the encoder to report, build their
arguments, and have RunFFmpeg read the encoder again, run and end. `Instants` are
the instants of a video at which its camera and its window are looked at. Caption
reports the encoder it reads after the render, clips none.

**Delivery** is the webhook sender: attempts, the requests that are on the wire,
and a client that may take any of them at any time. It has no next-state relation
of its own.

**Results** extends it with the life of a job's video: its name, its file in
`outputs/` (or in an upload's directory), FFmpeg's creation of it, the check, the
upload with the token and its mutex, the object in the bucket, the removal (which
the system may refuse: `kept`), and the answer by response or webhook. A `Case`
gives the storage and the requests of the jobs; a crash empties what is in memory
and leaves disk and bucket. A name is its characters and its extension, so that
`sanitizeFileName` and the two ways two requests can come to one name are what they
are in the code.

Each of the specifications has an `MC` module with the values TLC needs.
Definitions commented "a faulty form" are variants of one action with a plausible
error; they are no part of any specification and serve to see that the properties
can fail.

## The runs

| Run | Instance | What it shows |
|---|---|---|
| Downloader | three callers, two Downloaders, one URL that is also published | exact counts, one flight per URL and Downloader, every Acquire returns, nothing half-written is given out if the URL is downloaded once, entries go in the end |
| JobInputs | two jobs over the same two URLs: two caption jobs in opposite orders; a pipeline job of two inputs beside one that shares an input; and caption jobs with one upload or one crash | no deadlock, what a run has deferred is what it has acquired (unless a pipeline job's download failed), no partial file after a crash, nothing older than an Invalidate at which no answered download was under way |
| JobPool | one pool, one slot, a queue of one, two asynchronous jobs, one synchronous | slots, order, answers, progress, and JobService implemented |
| Clips | one slot, a job of two clips and a job of one | slots, channel, input, outputs and progress |
| Cuts | all lists of up to two cuts and of three without durations, starts 0 to 3, ends -1 to 5, a sort that is stable up to two | what is kept and what is cut |
| Rendering | one job, of a set of some 180 requests over all use cases, beside the detection on either system, with ENCODER set or not | one encoder's flags, one output, the window, the camera, the encoder reported |
| Results | two jobs in six cases: the same name in the bucket by two spellings, two to-mp3 jobs, an upload and a cut of one name, a clip and an unnamed upload, two videos of one name on the disk, a clip and an upload on the disk | what a client is told of is there, nothing is left behind, tokens, webhooks, and every job is answered |

Bounds. Three callers are what the cache's races need: one that downloads, one
that arrives after it and downloads again, one that still holds; both a shared
and a foreign Downloader are there. In JobInputs one event is enough for each of
its properties to be at stake (one upload makes the cached version old, one
crash leaves a part of a file), and the jobs start again after a crash. One slot
and a queue of one make every wait, refusal and hand-over happen with three jobs:
a job in the dispatcher's hand, one in the queue, one refused, and a handler that
competes. Two clips of one job and one of another give every order of renders,
sends, uploads and closing with a slot that is contended within a job and between
jobs. Three cuts give nesting, overlap, touching and equal starts;
with `StableUpTo` at two instead of Go's twelve, the lists of three are sorted in
every order sort.Slice could leave a long list in (NestedCuts, whose words are to be
refuted by what Go does, has twelve). Jobs of
Rendering meet in nothing but the encoder, so one job beside the detection is
every case; up to three keyframes give each order, equal times, and keyframes
that set one field, both or none, and times 0 to 5 lie before, between and after
them. Two jobs in Results contend for a path, an object and the token in every
order, with the three attempts of the code. The proofs below hold without the
bounds.

Disagreements between code and documents, each shown by a run that TLC finds
violated:

- **FileInUse**. A caller that looked a URL up before another's `Put`, and reaches
  `LoadOrStore` after the other's `Delete`, downloads it again while the other holds
  the file. Its `Put` replaces the entry and its count: there are two holders and a
  count of one. When the entry has expired, the first one's Release takes it to zero
  and removes the file under the second. The same comes from two use cases, and from
  an entry that expires while held. (Between a second `Put` and its `Acquire` the
  count is zero as well, and the sweeper may come in between if a whole TTL passes
  there; FileInUseKept leaves these moments out, to be about counts that are complete.)
- **PipelineJob**. A pipeline job that lost one input never releases the others.
- **StaleInput**. Invalidate does not reach a download in flight: one that was
  answered before the upload registers the old file, for every job until the entry
  expires.
- **LocalLinks**. In local mode a clips job and an upload report links to files
  they remove.
- **NestedCuts**. A cut within another cut brings back the tail of the outer one.

Seen while reading and not run:

- Two documents disagree on keyframes. `README.md:271` promises "a smooth animated pan"
  of them; the code holds each keyframe's position until the next one's time and jumps
  there (`application/vertical_media.go:377`), which is what
  `docs/api/media-vertical.md:180` says ("A transição é instantânea no segundo exato").
  CameraFollowsKeyframes checks the latter: there is no smooth pan.
- `MAX_CONCURRENT_JOBS` bounds each of five semaphores, not the process
  (`README.md:178`).
- An orderly shutdown waits for handlers only and forgets queued and running
  asynchronous jobs ("The server never drops a request", `README.md:84`).
- "Downloading exactly once even under concurrent load"
  (`application/downloader.go:44`) does not hold for the reasons of FileInUse.
- Uploads of clips do not wait for the end of the render phase
  (`docs/api/media-clips.md:217`).
- A caption job that forces libx264 (`docs/api/media-caption.md:40`) is rendered
  by the GPU where there is one, and libx264 is reported: the runner cannot tell
  this libx264 from the default. ReportedIsUsed is about the jobs that leave the
  choice to the runner. A cuts job that names a codec is reported with the
  runner's encoder (`docs/api/media-cuts.md:158`).
- The runner takes `-crf` and `-preset` out and puts a hardware encoder's flags
  in for every command that does not control its rate, also where the caller
  named another codec, or set `-maxrate` or `-pix_fmt` before them.
- The runner looks for `-crf`, `libx264` or `-b:v` among all words, also those that
  are the argument of another option: `-metadata -crf` would lose a word. The
  properties of commands are about requests whose arguments are no names of options
  (`FFmpegWouldTake`).
- validateClips does not look at the values of keyframes and zoom, which
  validateVertical bounds.
- The upload use case sanitises the name taken from a URL before it looks for a
  query to remove; the "?" is a "-" by then. It never calls Invalidate for the
  object it replaces.
- A file that a failed job leaves in `outputs/` blocks its `file_name`: FFmpeg,
  which is given neither `-y` nor an input to answer with, refuses to overwrite
  it. For to-mp3 that name is the same for every job.
- A synchronous job whose FFmpeg fails is answered 400, not 500
  (`api/handlers/media_pipeline.go:42`).

## Fairness

Safety needs none. Liveness is checked under weak fairness of each goroutine's
steps: the Go scheduler runs every goroutine that can run, and every blocking
call ends by a timeout: downloads (30 minutes, 10 on GCS), FFmpeg
(`RENDER_TIMEOUT_MINUTES`), uploads and token requests (30 minutes), webhook
attempts (10 seconds, three of them). The exception is ffprobe, which is run without
a timeout (`infra/ffmpeg/runner.go:149`): that it ends is an assumption of every
liveness property here, and one that does not would keep its job, and before a
vertical or clips render its slot as well. Strong fairness is assumed of the sends
into a semaphore, since the Go runtime queues the senders blocked on a channel in
order. The clock and the sweeper's ticker are fair. Clients and networks are not:
no request has to arrive, no caller has to ask, and no message on the wire has to
be taken. The token's mutex needs no strong fairness: a waiter is overtaken only
by jobs that are then past it, and there are finitely many.

Deadlock checking is off: when all requests are over, or the process is down,
nothing is left to do. That nobody waits for ever is what AcquireReturns,
RunsEnd, JobsAnswered, ClipsAnswered and ResultsTold say.

## The proofs

**DownloaderProofs**, for any finite set of callers, any Downloaders and URLs:
TypeOK, SingleFlight, RefCountExact, NoLeakedReference, ReferencedEntryKept,
SoleDownloadIsWhole. RefCountExact is not inductive alone: a fresh Put sets the
count to zero, which is right only if nobody has taken or given that Put's entry
before. `CountInv` adds that entries, `took` and `gave` name callers that have put,
and that a caller that has released is the only one with a `gave`. NoLeakedReference
follows by comparing cardinalities: if no taker holds, every taker has released, and
those Releases met the same entry, which was replaced by none in between. For
SoleDownloadIsWhole, `OwnedInv` says that every flight, Put and hit goes back to a
caller that has owned a download, and `SoleInv` what a URL's callers find where only
one has: until that one's Put there is no entry, and afterwards the file is whole.

**JobInputsProofs**, for any jobs, plans and numbers of uploads and crashes:
InputsGivenBack, PartialNeverHeld, FreshOnceSettled, and the safety properties of
Downloader for the callers of jobs (DownloaderSafeInJobs). Every step of a job is one
of Downloader or leaves its variables alone, except a crash; and Downloader's
invariant holds in every state with an empty cache and callers that have not begun
(`Restarted`), so it survives that too. `StageInv` says, from where a job is, where
its inputs may be, that an input which is held has its Release deferred unless the job
is a pipeline that still acquires or has lost a download (`Lost`), and that a caption
job has the first input before it asks for the second; as a run ends with no call
left, it then holds nothing. `FreshInv` orders the versions (what is settled was
dropped, what is dropped was published) and bounds from below the one that each entry,
each answer of the server, each download in flight and each caller who waits for it
will have: a version settled while nothing answered was under way is one that later
answers have reached.

**JobPoolProofs**, for any pools, any finite set of jobs, any number of slots (zero
included) and any queue: PoolTypeOK, StartedInOrder, SlotAccounting, AnswerIsFinal,
the safety part of the refinement of JobService, and three facts that no run
states because they follow from these and from where a job is: RenderCap,
UploadsHoldNoSlot and DoneMeansVideo. The inductive invariant `PoolInv` says of
each job, from where it is, whether it has a slot, a final status, an answer and a
video (`JobInv`), and of each pool that its semaphore counts the holders and is at
most MaxWorkers. RenderCap needs all of it: a job that renders has a slot, so the
jobs that render are among the holders. The same fact shows that a slot taken in
JobPool is room in JobService.

**ClipsProofs**, for any jobs, any finite set of clips and any number of slots:
ClipsTypeOK, ClipSlots, ClosedAfterSends, InputKeptForRenders, OutputsComplete. The
invariant follows each result: before the send it is nowhere, after it either in
its job's channel, once, or received (`ChannelInv`, `ResultInv`); `PlaceInv` says
where the clips are given their job's place, and that a closed channel has no
sender left; `EndInv` that the loop ends with the channel closed and empty. So all
results of a job that is done were received. That the buffer has room for every
send, a part of ClipsTypeOK, is that a sequence in which no clip occurs twice is an
injection into the clips of the job.

**ResultsProofs**, for any jobs and requests, any number of attempts, either
storage, and crashes: ResultsTypeOK, LinkServesOwn, DiskCleaned, TokenFetchedOnce,
AckMeansAccepted. `StoreInv` says whose each file is (`FileInv`: the job with that
path; `OwnInv`: it is there, and complete, while the job or its link needs it), what
each upload has read (`OpenInv`), that objects are what uploads have read and those
of the jobs done are there (`BucketInv`), and who has no file unless its removal was
refused (`CleanInv`). A step
of a job touches the disk at its own path only, and `OwnTouched` shows that no other
job has a file there then: FFmpeg does not create a file over one that is there, a
file that the job renders or removes is its own, and an upload has a directory of
its own.

**CutsProofs**, for lists of cuts of any length and any `StableUpTo`: CutsTypeOK,
NothingElseLost, NoReplay, CutsGone. `SortInv` says that the sorted list has the
cuts of the request in the order of their starts, `CoverInv` that an instant outside
all cuts is played already or lies at or after `prev`; `Follow` that the segments so
far end no later than the last cut begins; `OrderInv` that the ends of the sorted
cuts are in order too, if no cut lies within one that the sort may put before it;
and `Clear` that no segment plays what was cut.

**CommandLineProofs** has what is true of command lines, for any options FFmpeg may
have. A `Fragment` is a sequence of flags and of options with their arguments, which
are no options, and a `Line` is a fragment and the output. Fragments joined are a
fragment, FFmpeg reads a line as its options where they stand and one output at the
end (`LinePlaces`), and every use case makes a line (`EncodeLine`, `CaptionLine`,
`CutsLine`). `Copies` is the invariant of the runner's loop: what it has written is
what it has read, in order, without libx264's flags and their values. So an option
that the runner neither takes out nor puts in keeps its occurrences, their order and
their values, but for libx264 itself (`Mirrors`), and `SubstituteLine` says what the
runner makes of a line. The recursive functions of the model (the loop, `Places`,
`FlattenSeq`) are first shown to have the values their definitions say (`Recursion`),
and what holds along them by an induction over a set of numbers (`UpTo`), which
needs no operator as a parameter.

**RenderingProofs**, for any requests the decoder lets through, any jobs, rates and
instants: RenderingTypeOK, OneEncodersFlags, WritesItsOutput, ReportedIsUsed,
CameraFollowsKeyframes, WindowAsAsked. The invariant `RenderingInv` says what of a
job is made of what: the arguments of its valid request and the command of these and
of the encoder loaded (`MadeInv`), the filter of the request, some order of its
keyframes and the source's rate (`CameraInv`); and that once detection is over the
encoder stays, so that a job that began later has read that one each time
(`SettledInv`). The rest is about functions: `PipelineLine` and `ArgsWords` that the
arguments are a line, and `BuildExprFollows` that nested ifs over keyframes sorted by
time take the branch of the latest keyframe that has begun, `m`: no earlier branch is
taken since its end is at most the time of `m`, and the one of `m` is, as it ends at
`m + 1`, which has not begun.

They rest on the assumptions of the modules (`DownloaderAssumption`,
`NoEntryAssumption`, `JobsAssumption`, `PoolAssumption`, `ClipsAssumption`,
`ResultsAssumption`, `CutsAssumption`, `OptionsAssumption`, `RenderingAssumption`),
which TLC evaluates in the runs. Every safety property that a run checks is proved.
Only model-checked: every liveness property, and with them the progress part of the
refinement (TLAPS 1.4.5 has no ENABLED and no fairness reasoning).

## Not modelled

- Configuration: read once at the start; its values are constants here.
- Times of jobs, logging, JSON, routes, authentication and status codes: they keep
  no state that another part reads.
- `contentTypeForPath`, the signing of a token request, `parseTimeString`, and the
  rounding by `%.3f`: conversions of data that no property tells apart. Cuts and
  Camera take times as integers.
- Nothing is said of what is played of cuts that start together and end apart in a list
  too long for sort.Slice to be stable (`Unnested`). (Keyframes of equal times are in
  any order at every length.)
- Slots, inputs, files and commands of a job are in modules of their own, each with
  the rest of the job reduced to one step that may succeed or fail. No module has
  all of them, so nothing is said here of, for instance, a slot held while another
  job's download is awaited.
- A job asks for each URL once; a job that names one URL twice is two callers of it.
- Results assumes that no pipeline request names `-y` among its options, with which
  FFmpeg would overwrite a file of the same name, and that FFmpeg's test for the
  file and its creation are one step.

## Plan

1. `parseTimeString` as a function from the text's parts.
2. Composition: slots and inputs of the five use cases in one module, over one
   process.

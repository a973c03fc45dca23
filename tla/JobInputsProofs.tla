--------------------------- MODULE JobInputsProofs ---------------------------
(***************************************************************************)
(* Proofs of the safety properties of JobInputs, for any finite set of     *)
(* inputs, any jobs, URLs and Downloaders, and any plans.                  *)
(***************************************************************************)
EXTENDS JobInputs, DownloaderProofs

JobsTypeOK ==
    /\ stage \in [Jobs -> Stages]
    /\ deferred \in [Jobs -> SUBSET Callers]
    /\ plan \in Plans
    /\ response \in [Callers -> Nat]
    /\ published \in [Urls -> Nat] /\ copied \in [Urls -> Nat]
    /\ dropped \in [Urls -> Nat] /\ settled \in [Urls -> Nat]
    /\ asked \in [Callers -> [dropped : Nat, settled : Nat]]

\* An input that nothing is being done about, and that is not held.
Idle == {"start", "failed", "released"}

\* A pipeline job that has lost a download.
Lost(j) == plan.useCase = "pipeline" /\ \E e \in Inputs(j) : pc[e] = "failed"

\* Where the run of its job allows an input to be, and when its Release is deferred.
InputAt(c) ==
    LET s == stage[job[c]]
        d == deferred[job[c]] IN
    /\ s = "new" => pc[c] = "start"
    /\ s \in {"holding", "ended"} => pc[c] \in Idle \cup {"held"}
    /\ s = "ended" => d = {}
    /\ pc[c] = "held" /\ (plan.useCase = "pipeline" => s \in {"holding", "ended"})
         => c \in d \/ Lost(job[c])

\* Caption has the first input when it asks for the second.
InputOrder(c) ==
    plan.useCase = "caption" /\ after[c] # Nobody /\ pc[c] # "start"
      => pc[after[c]] \in {"held", "released"}

StageInv == \A c \in plan.callers : InputAt(c) /\ InputOrder(c)

LEMMA PlanCallers ==
  ASSUME JobsTypeOK
  PROVE  plan.callers \subseteq Callers /\ \A c \in plan.callers : job[c] \in Jobs
BY JobsAssumption DEF JobsTypeOK

\* What the jobs' steps are to the callers of Downloader.
LEMMA JobsMoves ==
  ASSUME JobsTypeOK, JobsNext
  PROVE  Next \/ UNCHANGED vars \/ Crash
<1>1. ASSUME NEW j \in Jobs, Begin(j) \/ RunStep(j) PROVE Next \/ UNCHANGED vars
  <2>1. ASSUME NEW from, NEW to, Enter(j, from, to) PROVE UNCHANGED vars
    BY <2>1 DEF Enter, vars
  <2>2. ASSUME NEW c \in Inputs(j), InputStep(c) PROVE Next
    <3>1. c \in Callers
      BY <2>2, PlanCallers DEF Inputs
    <3> QED
      BY <2>2, <3>1 DEF InputStep, Ask, Go, ReleaseInput, Next, Step
  <2> QED
    BY <1>1, <2>1, <2>2 DEF Begin, RunStep, Acquired, DownloadInputsFail, AcquireFail, End
<1>2. ASSUME NEW u \in Urls, Replace(u) \/ Forget(u) PROVE Next \/ UNCHANGED vars
  BY <1>2 DEF Replace, Forget, Next, vars
<1>3. CASE Environment
  BY <1>3 DEF Environment, Next
<1> QED
  BY <1>1, <1>2, <1>3 DEF JobsNext

LEMMA CrashRestarts ==
  ASSUME DownloaderInv, Crash
  PROVE  Restarted'
BY DEF Crash, Restarted, DownloaderInv, TypeOK, CacheTypeOK

LEMMA JobsDownloaderStep ==
  ASSUME DownloaderInv, JobsTypeOK, [JobsNext]_jobVars
  PROVE  DownloaderInv'
<1>1. CASE Crash
  <2>1. Restarted'
    BY <1>1, CrashRestarts
  <2>2. Restarted' => DownloaderInv'
    BY RestartedInv, PTL
  <2> QED
    BY <2>1, <2>2
<1>2. CASE UNCHANGED jobVars
  <2>1. UNCHANGED vars
    BY <1>2 DEF jobVars
  <2> QED
    BY <2>1, DownloaderStep
<1> QED
  BY <1>1, <1>2, JobsMoves, DownloaderStep

LEMMA JobsTypeStep ==
  ASSUME TypeOK, JobsTypeOK, [JobsNext]_jobVars
  PROVE  JobsTypeOK'
<1> USE DownloaderAssumption, JobsAssumption DEF JobsTypeOK, Stages, NotAsked
<1>1. ASSUME NEW j \in Jobs, Begin(j) \/ RunStep(j) PROVE JobsTypeOK'
  <2>1. ASSUME NEW from, NEW to \in Stages, Enter(j, from, to),
               deferred' \in [Jobs -> SUBSET Callers]
        PROVE  JobsTypeOK'
    BY <2>1 DEF Enter, versions
  <2>2. ASSUME NEW c \in Inputs(j), InputStep(c) PROVE JobsTypeOK'
    <3>1. c \in Callers /\ url[c] \in Urls
      BY <2>2, PlanCallers DEF Inputs
    <3>2. CASE Ask(c)
      BY <3>1, <3>2 DEF Ask
    <3>3. CASE Go(c)
      <4>1. deferred' \in [Jobs -> SUBSET Callers]
        BY <3>1, <3>3 DEF Go, DeferRelease
      <4>2. response' \in [Callers -> Nat] /\ copied' \in [Urls -> Nat]
        BY <3>1, <3>3 DEF Go
      <4> QED
        BY <3>1, <3>3, <4>1, <4>2 DEF Go
    <3>4. CASE ReleaseInput(c)
      BY <3>1, <3>4 DEF ReleaseInput
    <3> QED
      BY <2>2, <3>2, <3>3, <3>4 DEF InputStep
  <2>3. Inputs(j) \subseteq Callers
    BY PlanCallers DEF Inputs
  <2> QED
    BY <1>1, <2>1, <2>2, <2>3 DEF Begin, RunStep, Acquired, DownloadInputsFail, AcquireFail, End
<1>2. ASSUME NEW u \in Urls, Replace(u) \/ Forget(u) PROVE JobsTypeOK'
  <2>1. CASE Replace(u)
    BY <2>1 DEF Replace, vars
  <2>2. CASE Forget(u)
    <3>1. settled' = settled \/ settled' = [settled EXCEPT ![u] = published[u]]
      BY <2>2 DEF Forget
    <3> QED
      BY <2>2, <3>1 DEF Forget
  <2> QED
    BY <1>2, <2>1, <2>2
<1>3. CASE Environment
  BY <1>3 DEF Environment, versions
<1>4. CASE Crash
  BY <1>4 DEF Crash
<1>5. CASE UNCHANGED jobVars
  BY <1>5 DEF jobVars, versions
<1> QED
  BY <1>1, <1>2, <1>3, <1>4, <1>5 DEF JobsNext

\* What a run's step changes of the stages, and what its inputs' steps do.
LEMMA Entered ==
  ASSUME JobsTypeOK, NEW j \in Jobs, NEW from, NEW to, Enter(j, from, to)
  PROVE  /\ stage[j] = from /\ stage'[j] = to
         /\ \A i \in Jobs : i # j => stage'[i] = stage[i]
         /\ pc' = pc /\ plan' = plan
BY DEF Enter, JobsTypeOK, vars

\* What they change of the deferred Releases.
LEMMA Deferred ==
  ASSUME JobsTypeOK, NEW j \in Jobs,
         Begin(j) \/ Acquired(j) \/ DownloadInputsFail(j) \/ AcquireFail(j) \/ End(j)
  PROVE  IF Acquired(j) /\ plan.useCase = "pipeline"
         THEN /\ deferred'[j] = Inputs(j)
              /\ \A i \in Jobs : i # j => deferred'[i] = deferred[i]
         ELSE deferred' = deferred
BY DEF Begin, Acquired, DownloadInputsFail, AcquireFail, End, Enter, JobsTypeOK

\* Which moves Downloader allows.
LEMMA AdvanceMoves ==
  ASSUME TypeOK, NEW c \in Callers, Advance(c)
  PROVE  pc[c] \notin Idle \cup {"held"} /\ pc'[c] # "start"
BY DEF TypeOK, Idle, Advance, TakeHit, LoadOrStore, Wake, TakeJoined, FetchAnswered, FetchRefused,
   FetchCreate, CopyOk,
   CopyFail, PutFetched, TakeOwn, Done, Delete, Goto

\* A run's own steps.
LEMMA EnterStep ==
  ASSUME TypeOK, JobsTypeOK, StageInv, NEW j \in Jobs,
         Begin(j) \/ Acquired(j) \/ DownloadInputsFail(j) \/ AcquireFail(j) \/ End(j)
  PROVE  StageInv'
<1> USE JobsAssumption, PlanCallers
<1>1. PICK from \in Stages, to \in Stages : Enter(j, from, to)
  BY DEF Begin, Acquired, DownloadInputsFail, AcquireFail, End, Stages
<1>2. /\ stage[j] = from /\ stage'[j] = to /\ pc' = pc /\ plan' = plan
      /\ \A i \in Jobs : i # j => stage'[i] = stage[i]
  BY <1>1, Entered
<1>3. to # "new"
  BY <1>2, Entered DEF Begin, Acquired, DownloadInputsFail, AcquireFail, End
<1>4. ASSUME NEW c \in plan.callers, job[c] = j, to = "holding"
      PROVE  pc[c] \in Idle \cup {"held"}
  <2>1. Acquired(j) \/ AcquireFail(j) \/ DownloadInputsFail(j)
    BY <1>2, <1>4, Entered DEF Begin, End
  <2>2. CASE Acquired(j)
    BY <1>4, <2>2 DEF Acquired, Inputs
  <2>3. CASE AcquireFail(j)
    <3>1. PICK e \in plan.callers : job[e] = j /\ pc[e] = "failed"
      BY <2>3 DEF AcquireFail, Inputs
    <3>2. plan.useCase = "caption"
      BY <2>3 DEF AcquireFail, JobsTypeOK
    <3>3. e = c \/ after[c] = e \/ after[e] = c
      BY <1>4, <3>1, <3>2 DEF JobsTypeOK
    <3> QED
      BY <1>4, <3>1, <3>2, <3>3, DownloaderAssumption DEF StageInv, InputOrder, Idle
  <2>4. CASE DownloadInputsFail(j)
    BY <1>4, <2>4 DEF DownloadInputsFail, Inputs, Idle
  <2> QED
    BY <2>1, <2>2, <2>3, <2>4
<1>5. \A i \in Jobs : Lost(i)' <=> Lost(i)
  BY <1>2 DEF Lost, Inputs
<1>6. ASSUME NEW c \in plan.callers PROVE InputAt(c)'
  <2>1. CASE job[c] # j
    BY <1>2, <1>5, <1>6, <2>1, Deferred DEF StageInv, InputAt
  <2>2. CASE job[c] = j /\ (Acquired(j) \/ DownloadInputsFail(j) \/ AcquireFail(j))
    <3>1. to = "holding"
      BY <1>2, <2>2, Entered DEF Acquired, DownloadInputsFail, AcquireFail
    <3>2. pc[c] = "held" => c \in deferred'[j] \/ Lost(j)
      <4>1. CASE plan.useCase # "pipeline"
        BY <1>6, <2>2, <4>1, Deferred DEF StageInv, InputAt
      <4>2. CASE plan.useCase = "pipeline" /\ Acquired(j)
        BY <1>6, <2>2, <4>2, Deferred DEF Inputs
      <4>3. CASE plan.useCase = "pipeline" /\ DownloadInputsFail(j)
        BY <4>3 DEF DownloadInputsFail, Lost
      <4> QED
        BY <2>2, <4>1, <4>2, <4>3 DEF AcquireFail
    <3> QED
      BY <1>2, <1>4, <1>5, <1>6, <2>2, <3>1, <3>2 DEF InputAt
  <2>3. CASE job[c] = j /\ Begin(j)
    <3>1. from = "new" /\ to = "acquiring"
      BY <1>2, <2>3, Entered DEF Begin
    <3> QED
      BY <1>2, <1>6, <2>3, <3>1 DEF StageInv, InputAt
  <2>4. CASE job[c] = j /\ End(j)
    <3>1. from = "holding" /\ to = "ended" /\ deferred' = deferred /\ deferred[j] = {}
      BY <1>2, <2>4, Entered DEF End
    <3> QED
      BY <1>2, <1>5, <1>6, <2>4, <3>1 DEF StageInv, InputAt
  <2> QED
    BY <2>1, <2>2, <2>3, <2>4
<1>7. ASSUME NEW c \in plan.callers PROVE InputOrder(c)'
  BY <1>2, <1>7 DEF StageInv, InputOrder
<1> QED
  BY <1>2, <1>6, <1>7 DEF StageInv

\* The steps of an input.
LEMMA InputStageStep ==
  ASSUME TypeOK, JobsTypeOK, StageInv, NEW c \in plan.callers, InputStep(c)
  PROVE  StageInv'
<1> USE PlanCallers
<1>1. plan' = plan /\ stage' = stage /\ c \in Callers /\ (Lookup(c) \/ Step(c))
  BY DEF InputStep, Ask, Go, ReleaseInput, Step
<1>2. \A y \in Callers : y # c => pc'[y] = pc[y]
  BY <1>1, StepFrame
<1>3. \/ stage[job[c]] = "acquiring" /\ pc[c] # "failed" /\ ~ReleaseInput(c)
      \/ stage[job[c]] = "holding" /\ pc[c] = "held" /\ pc'[c] = "released" /\ ReleaseInput(c)
  <2>1. CASE Ask(c)
    BY <1>1, <2>1 DEF Ask, Lookup, Goto, ReleaseInput
  <2>2. CASE Go(c)
    <3>1. pc[c] \notin Idle \cup {"held"}
      BY <1>1, <2>2, AdvanceMoves DEF Go
    <3> QED
      BY <3>1 DEF StageInv, InputAt, JobsTypeOK, Stages, Idle, ReleaseInput, Return, Goto
  <2>3. CASE ReleaseInput(c)
    BY <1>1, <2>3 DEF ReleaseInput, Return, Goto, TypeOK
  <2> QED
    BY <2>1, <2>2, <2>3 DEF InputStep
<1>4. \A e \in Callers : pc[e] = "failed" => pc'[e] = "failed"
  BY <1>2, <1>3
<1>5. ASSUME NEW e \in plan.callers PROVE InputAt(e)'
  <2> DEFINE d == deferred[job[e]]
  <2>1. Lost(job[e]) => Lost(job[e])'
    BY <1>1, <1>4 DEF Lost, Inputs
  <2>2. deferred'[job[e]] \in {d, d \cup {c}, d \ {c}}
    BY DEF InputStep, Ask, Go, DeferRelease, ReleaseInput, JobsTypeOK
  <2>3. CASE stage[job[e]] \in {"new", "acquiring"} /\ ~ReleaseInput(c)
    <3>1. \/ deferred'[job[e]] = d
          \/ job[e] = job[c]
      BY DEF InputStep, Ask, Go, DeferRelease, ReleaseInput, JobsTypeOK
    <3>2. d \subseteq deferred'[job[e]]
      BY <2>3 DEF InputStep, Ask, Go, DeferRelease, JobsTypeOK
    <3>3. CASE e # c
      BY <1>1, <1>2, <1>3, <1>5, <2>1, <2>3, <3>2, <3>3 DEF StageInv, InputAt
    <3>4. CASE e = c
      <4>1. stage'[job[c]] = "acquiring"
        BY <1>1, <1>3, <2>3
      <4>2. pc'[c] = "held" /\ plan.useCase # "pipeline" => c \in deferred'[job[c]]
        BY <1>1, <2>3 DEF InputStep, Ask, Lookup, Goto, Go, DeferRelease, JobsTypeOK, TypeOK
      <4> QED
        BY <1>1, <3>4, <4>1, <4>2 DEF InputAt
    <3> QED
      BY <3>3, <3>4
  <2>4. CASE stage[job[e]] \in {"holding", "ended"} /\ ~ReleaseInput(c)
    <3>1. e # c /\ job[e] # job[c]
      BY <1>3, <2>4
    <3>2. deferred'[job[e]] = d
      BY <2>4, <3>1 DEF InputStep, Ask, Go, DeferRelease, JobsTypeOK
    <3> QED
      BY <1>1, <1>2, <1>5, <2>1, <2>4, <3>1, <3>2 DEF StageInv, InputAt
  <2>5. CASE ReleaseInput(c)
    <3>1. \/ job[e] = job[c] /\ deferred'[job[e]] = d \ {c}
          \/ job[e] # job[c] /\ deferred'[job[e]] = d
      BY <2>5 DEF ReleaseInput, JobsTypeOK
    <3>2. CASE e = c
      BY <1>1, <1>3, <2>5, <3>2 DEF InputAt, Idle
    <3>3. CASE e # c
      BY <1>1, <1>2, <1>5, <2>1, <3>1, <3>3 DEF StageInv, InputAt
    <3> QED
      BY <3>2, <3>3
  <2> QED
    BY <1>5, <2>3, <2>4, <2>5, PlanCallers DEF JobsTypeOK, Stages
<1>6. \A e \in Callers : pc[e] \in {"held", "released"} => pc'[e] \in {"held", "released"}
  <2>1. pc[c] \in {"held", "released"} => pc'[c] = "released"
    <3>1. CASE Ask(c)
      BY <3>1 DEF Ask, Lookup, Goto
    <3>2. CASE Go(c)
      BY <1>1, <3>2, AdvanceMoves DEF Go, Idle
    <3>3. CASE ReleaseInput(c)
      BY <1>1, <3>3 DEF ReleaseInput, Return, Goto, TypeOK
    <3> QED
      BY <3>1, <3>2, <3>3 DEF InputStep
  <2> QED
    BY <1>2, <2>1
<1>7. ASSUME NEW e \in plan.callers, plan.useCase = "caption", after[e] # Nobody, pc'[e] # "start"
      PROVE  pc[after[e]] \in {"held", "released"}
  <2>1. CASE pc[e] # "start"
    BY <1>7, <2>1 DEF StageInv, InputOrder
  <2>2. CASE pc[e] = "start"
    <3>1. e = c /\ ~Go(c) /\ ~ReleaseInput(c)
      BY <1>1, <1>2, <1>7, <2>2, AdvanceMoves DEF Go, ReleaseInput, Return, Goto, Idle
    <3> QED
      BY <1>7, <3>1 DEF InputStep, Ask
  <2> QED
    BY <2>1, <2>2
<1>8. ASSUME NEW e \in plan.callers PROVE InputOrder(e)'
  <2>1. after[e] # Nobody => after[e] \in Callers
    BY <1>8, JobsAssumption
  <2> QED
    BY <1>1, <1>6, <1>7, <2>1 DEF InputOrder
<1> QED
  BY <1>1, <1>5, <1>8 DEF StageInv

LEMMA StageStep ==
  ASSUME TypeOK, JobsTypeOK, StageInv, [JobsNext]_jobVars
  PROVE  StageInv'
<1>1. ASSUME NEW j \in Jobs, Begin(j) \/ RunStep(j) PROVE StageInv'
  <2>1. ASSUME NEW c \in Inputs(j), InputStep(c) PROVE StageInv'
    BY <2>1, InputStageStep DEF Inputs
  <2> QED
    BY <1>1, <2>1, EnterStep DEF RunStep
<1>2. ASSUME pc' = pc, stage' = stage, plan' = plan, deferred' = deferred PROVE StageInv'
  BY <1>2 DEF StageInv, InputAt, InputOrder, Inputs, Lost
<1>3. ASSUME NEW u \in Urls, Replace(u) \/ Forget(u) PROVE StageInv'
  BY <1>2, <1>3 DEF Replace, Forget, Publish, ClientUnchanged, vars, flightVars, history
<1>4. CASE Environment
  BY <1>2, <1>4 DEF Environment, Sweep, Tick, ClientUnchanged, flightVars, history, versions
<1>5. CASE Crash
  BY <1>5, PlanCallers, JobsAssumption DEF Crash, StageInv, InputAt, InputOrder, Idle
<1>6. CASE UNCHANGED jobVars
  BY <1>2, <1>6 DEF jobVars, vars, flightVars, history, versions
<1> QED
  BY <1>1, <1>3, <1>4, <1>5, <1>6 DEF JobsNext

LEMMA JobsInitInv ==
  ASSUME JobsInit
  PROVE  DownloaderInv /\ JobsTypeOK /\ StageInv
<1> USE DownloaderAssumption, JobsAssumption DEF JobsInit
<1>1. DownloaderInv
  BY InitRestarted, RestartedInv
<1>2. JobsTypeOK
  BY DEF JobsTypeOK, Stages, NotAsked
<1>3. StageInv
  BY <1>2, PlanCallers DEF Init, StageInv, InputAt, InputOrder, Idle
<1> QED
  BY <1>1, <1>2, <1>3

LEMMA JobsInvariant == JobsSpec => [](DownloaderInv /\ JobsTypeOK /\ StageInv)
<1>1. DownloaderInv /\ JobsTypeOK /\ StageInv /\ [JobsNext]_jobVars
        => (DownloaderInv /\ JobsTypeOK /\ StageInv)'
  BY JobsDownloaderStep, JobsTypeStep, StageStep DEF DownloaderInv
<1>2. QED
  BY <1>1, JobsInitInv, PTL DEF JobsSpec

\* The Releases a run has deferred by the time it returns are those of all the inputs it
\* has acquired, whichever download failed, save in a pipeline job that lost a download
\* (caption_media.go:149-163, pipeline_media.go:204-216).
THEOREM InputsGivenBackHolds == JobsSpec => []InputsGivenBack
<1>1. JobsTypeOK /\ StageInv => InputsGivenBack
  <2> SUFFICES ASSUME JobsTypeOK, StageInv, NEW j \in Jobs, stage[j] = "ended",
                      plan.useCase = "pipeline" => \A c \in Inputs(j) : pc[c] # "failed",
                      NEW c \in Inputs(j)
               PROVE  pc[c] # "held"
    BY DEF InputsGivenBack
  <2>1. c \in plan.callers /\ job[c] = j
    BY DEF Inputs
  <2>2. ~Lost(j)
    BY DEF Lost
  <2> QED
    BY <2>1, <2>2 DEF StageInv, InputAt
<1>2. QED
  BY <1>1, JobsInvariant, PTL

\* No job holds a partial file of a URL that one caller only has downloaded since the
\* process was started, whatever a crash has left on the disk (downloader.go:44-83,
\* local.go:48-58).
THEOREM PartialNeverHeldHolds == JobsSpec => []PartialNeverHeld
<1>1. DownloaderInv => PartialNeverHeld
  <2> SUFFICES ASSUME DownloaderInv, NEW c \in Callers, pc[c] = "held", Sole(url[c])
               PROVE  files[url[c]] # "partial"
    BY DEF PartialNeverHeld, Sole
  <2>1. url[c] \in Urls
    BY DownloaderAssumption
  <2>2. PICK p \in Callers : url[p] = url[c] /\ Owned(p) /\ pc[p] \in PutDone
    BY DEF DownloaderInv, OwnedInv, FoundPut, AfterPut, HasPut
  <2> QED
    BY <2>1, <2>2 DEF DownloaderInv, SoleInv, SoleAt, SoleCaller
<1>2. QED
  BY <1>1, JobsInvariant, PTL

-----------------------------------------------------------------------------
(* Which version of the object a job is given.                             *)

\* Where a download has created the file, and its owner is still in Acquire.
Fetching == {"copy", "fetched", "put", "ok", "okDone"}

VersionOrder ==
    \A u \in Urls : /\ settled[u] <= dropped[u] /\ dropped[u] <= published[u]
                    /\ copied[u] <= published[u]

FreshResponse == \A c \in Callers : response[c] <= published[url[c]]

FreshEntry == \A u \in Urls : Cached(u) => settled[u] <= copied[u]

\* A download that has been answered, one in flight, what it has put, and what its waiters will find.
FreshCaller(c) ==
    LET u == url[c] IN
    /\ asked[c].settled <= settled[u]
    /\ pc[c] = "answered" => settled[u] <= response[c]
    /\ pc[c] \in Fetching => settled[u] <= copied[u]
    /\ pc[c] \in AfterPut => asked[c].settled <= copied[u]
    /\ pc[c] = "wait" =>
         /\ Owned(joined[c])
         /\ pc[joined[c]] \in Fetching \cup {"held", "released"} => asked[c].settled <= copied[u]

FreshInv == VersionOrder /\ FreshResponse /\ FreshEntry /\ \A c \in Callers : FreshCaller(c)

\* A step that leaves the callers where they are, and what they asked for.
LEMMA FreshStill ==
  ASSUME FreshInv, UNCHANGED <<pc, call, joined, asked, response, copied, settled, dropped>>,
         \A u \in Urls : dropped[u] <= published'[u] /\ copied[u] <= published'[u],
         \A c \in Callers : response[c] <= published'[url[c]],
         \A u \in Urls : Cached(u)' => Cached(u)
  PROVE  FreshInv'
BY DEF FreshInv, VersionOrder, FreshResponse, FreshEntry, FreshCaller, Owned

LEMMA FreshReplace ==
  ASSUME TypeOK, JobsTypeOK, FreshInv, NEW u \in Urls, Replace(u)
  PROVE  FreshInv'
<1>1. UNCHANGED <<pc, call, joined, asked, response, copied, settled, dropped, entries>>
  BY DEF Replace, vars
<1>2. \A v \in Urls : dropped[v] <= published'[v] /\ copied[v] <= published'[v]
  BY DEF Replace, JobsTypeOK, FreshInv, VersionOrder
<1>3. \A c \in Callers : response[c] <= published'[url[c]]
  BY DownloaderAssumption DEF Replace, JobsTypeOK, FreshInv, FreshResponse
<1> QED
  BY <1>1, <1>2, <1>3, FreshStill DEF Cached

LEMMA FreshEnvironment ==
  ASSUME TypeOK, FreshInv, Environment
  PROVE  FreshInv'
<1>1. UNCHANGED <<pc, call, joined, asked, response, copied, settled, dropped, published>>
  BY DEF Environment, Sweep, Tick, ClientUnchanged, flightVars, versions
<1>2. \A v \in Urls : Cached(v)' => Cached(v)
  BY DEF Environment, Sweep, SweepOnce, Drop, Tick, Expire, Get, Cached, TypeOK, CacheTypeOK
<1> QED
  BY <1>1, <1>2, FreshStill DEF FreshInv, VersionOrder, FreshResponse

\* After an Invalidate with no download in flight nothing of the URL is left to be given
\* out, and what was asked for before is not asked for anew.
LEMMA FreshForget ==
  ASSUME TypeOK, JobsTypeOK, FreshInv, NEW u \in Urls, Forget(u)
  PROVE  FreshInv'
<1> USE DownloaderAssumption
<1>1. /\ UNCHANGED <<pc, call, joined, asked, response, copied, published>>
      /\ ~Cached(u)'
      /\ \A v \in Urls : Cached(v)' => Cached(v)
  BY DEF Forget, Publish, Invalidate, ClientUnchanged, flightVars, vars, Cached, TypeOK, CacheTypeOK
<1>2. /\ dropped'[u] = published[u]
      /\ settled'[u] = settled[u] \/ settled'[u] = published[u]
      /\ \A v \in Urls : v # u => dropped'[v] = dropped[v] /\ settled'[v] = settled[v]
  BY DEF Forget, JobsTypeOK
<1>3. settled'[u] # settled[u] => \A c \in Callers : url[c] = u => pc[c] \notin Fetching \cup {"answered"}
  BY DEF Forget, InFlight, Fetching
<1>4. /\ published \in [Urls -> Nat] /\ copied \in [Urls -> Nat] /\ settled \in [Urls -> Nat]
      /\ dropped \in [Urls -> Nat] /\ asked \in [Callers -> [dropped : Nat, settled : Nat]]
  BY DEF JobsTypeOK
<1>5. VersionOrder' /\ FreshResponse' /\ FreshEntry'
  BY <1>1, <1>2, <1>4 DEF FreshInv, VersionOrder, FreshResponse, FreshEntry
<1>6. ASSUME NEW c \in Callers PROVE FreshCaller(c)'
  <2>1. settled[url[c]] <= settled'[url[c]]
    BY <1>2, <1>4 DEF FreshInv, VersionOrder
  <2>2. asked'[c].settled <= settled'[url[c]]
    BY <1>1, <1>2, <1>4, <2>1 DEF FreshInv, FreshCaller
  <2>3. /\ pc[c] \in Fetching => settled'[url[c]] <= copied[url[c]]
        /\ pc[c] = "answered" => settled'[url[c]] <= response[c]
    BY <1>2, <1>3 DEF FreshInv, FreshCaller
  <2> QED
    BY <1>1, <2>2, <2>3 DEF FreshInv, FreshCaller, Owned
<1> QED
  BY <1>5, <1>6 DEF FreshInv

LEMMA FreshCrash ==
  ASSUME JobsTypeOK, FreshInv, Crash
  PROVE  FreshInv'
BY DownloaderAssumption
   DEF Crash, JobsTypeOK, FreshInv, VersionOrder, FreshResponse, FreshEntry, FreshCaller,
      Fetching, AfterPut, Cached,
       NotAsked

\* An entry is of what was there, or of what a download has fetched.
LEMMA FreshEntryStep ==
  ASSUME TypeOK, JobsTypeOK, FreshInv, Next, settled' = settled, copied' \in [Urls -> Nat],
         \A u \in Urls : copied'[u] = copied[u] \/ settled[u] <= copied'[u]
  PROVE  FreshEntry'
<1> SUFFICES ASSUME NEW u \in Urls, Cached(u)' PROVE settled[u] <= copied'[u]
  BY DEF FreshEntry
<1>1. settled[u] <= copied[u]
  <2>1. CASE Cached(u)
    BY <2>1 DEF FreshInv, FreshEntry
  <2>2. ASSUME NEW c \in Callers, PutFetched(c), url[c] = u PROVE settled[u] <= copied[u]
    BY <2>2 DEF PutFetched, Goto, FreshInv, FreshCaller, Fetching
  <2> QED
    BY <2>1, <2>2, EntryOrigins
<1> QED
  BY <1>1 DEF JobsTypeOK

\* How a caller comes to be in the middle of a download, past a Put, or in a wait.
LEMMA CallerMoves ==
  ASSUME TypeOK, CallKnown, NEW c \in Callers, Lookup(c) \/ Step(c)
  PROVE  /\ pc'[c] \in Fetching => pc[c] \in Fetching \/ FetchCreate(c)
         /\ pc'[c] = "answered" => pc[c] = "own"
         /\ pc'[c] \in AfterPut => \/ pc[c] \in AfterPut
                                   \/ Lookup(c) /\ Get(url[c])
                                   \/ Wake(c) /\ call[joined[c]] = "ok"
                                   \/ PutFetched(c)
         /\ Owned(c) /\ pc'[c] \in Fetching \cup {"held", "released"} =>
               pc[c] \in Fetching \cup {"held", "released"} \/ FetchCreate(c)
         /\ pc'[c] = "wait" => LoadOrStore(c) /\ Flight(c) # Nobody /\ joined'[c] = Flight(c)
         /\ ~LoadOrStore(c) => joined' = joined
         /\ LoadOrStore(c) => \A y \in Callers : y # c => joined'[y] = joined[y]
<1> USE DEF TypeOK, Labels
<1>1. pc'[c] \in Fetching => pc[c] \in Fetching \/ FetchCreate(c)
  BY DEF Fetching, Step, Advance, Lookup, TakeHit, LoadOrStore, Wake, TakeJoined, FetchAnswered,
     FetchRefused,
     CopyOk, CopyFail, PutFetched, TakeOwn, Done, Delete, Return, Goto
<1>2. pc'[c] \in AfterPut => \/ pc[c] \in AfterPut
                             \/ Lookup(c) /\ Get(url[c])
                             \/ Wake(c) /\ call[joined[c]] = "ok"
                             \/ PutFetched(c)
  BY DEF AfterPut, Step, Advance, Lookup, TakeHit, LoadOrStore, Wake, TakeJoined, FetchAnswered,
     FetchRefused,
     FetchCreate, CopyOk, CopyFail, TakeOwn, Done, Delete, Return, Goto
<1>3. Owned(c) /\ pc'[c] \in {"held", "released"} => pc[c] \in Fetching \cup {"held", "released"}
  BY DEF Fetching, Owned, Owning, CallKnown, Step, Advance, Lookup, TakeHit, LoadOrStore, Wake,
     TakeJoined, FetchAnswered, FetchRefused, FetchCreate, CopyOk, CopyFail, PutFetched, TakeOwn, Done, Delete, Return,
     Goto
<1>4. pc'[c] = "wait" => LoadOrStore(c) /\ Flight(c) # Nobody /\ joined'[c] = Flight(c)
  <2>1. pc'[c] = "wait" => LoadOrStore(c)
    BY DEF Step, Advance, Lookup, TakeHit, Wake, TakeJoined, FetchAnswered, FetchRefused,
       FetchCreate, CopyOk,
       CopyFail, PutFetched, TakeOwn, Done, Delete, Return, Goto
  <2> QED
    BY <2>1 DEF LoadOrStore, Goto
<1>5. ~LoadOrStore(c) => joined' = joined
  BY DEF Step, Advance, Lookup, TakeHit, Wake, TakeJoined, FetchAnswered, FetchRefused,
     FetchCreate, CopyOk, CopyFail,
     PutFetched, TakeOwn, Done, Delete, Return, flightVars
<1>6. LoadOrStore(c) => \A y \in Callers : y # c => joined'[y] = joined[y]
  BY DEF LoadOrStore
<1>7. pc'[c] = "answered" => pc[c] = "own"
  BY DEF Step, Advance, Lookup, TakeHit, LoadOrStore, Wake, TakeJoined, FetchAnswered, FetchRefused,
     FetchCreate, CopyOk, CopyFail, PutFetched, TakeOwn, Done, Delete, Return, Goto
<1> QED
  BY <1>1, <1>2, <1>3, <1>4, <1>5, <1>6, <1>7

\* A caller's step: c moves, response, copied and asked change as they may.
LEMMA FreshCallerStep ==
  ASSUME DownloaderInv, JobsTypeOK, FreshInv, NEW c \in Callers, Lookup(c) \/ Step(c),
         settled' = settled, JobsTypeOK',
         \A u \in Urls : copied'[u] = copied[u] \/ settled[u] <= copied'[u],
         FetchCreate(c) => settled[url[c]] <= copied'[url[c]],
         \A y \in Callers : y # c => response'[y] = response[y],
         pc'[c] = "answered" => settled[url[c]] <= response'[c],
         \A y \in Callers : y # c => asked'[y] = asked[y],
         asked'[c].settled <= settled[url[c]],
         ~Lookup(c) => asked'[c].settled <= asked[c].settled,
         NEW y \in Callers
  PROVE  FreshCaller(y)'
<1> DEFINE u == url[y]
<1>1. /\ u \in Urls /\ settled[u] \in Nat /\ copied[u] \in Nat /\ copied'[u] \in Nat
      /\ published[u] \in Nat /\ asked[y].settled \in Nat /\ asked'[y].settled \in Nat
      /\ settled[u] <= published[u] /\ (copied'[u] = copied[u] \/ settled[u] <= copied'[u])
      /\ asked[y].settled <= settled[u]
  <2>1. u \in Urls
    BY DownloaderAssumption
  <2>2. /\ asked \in [Callers -> [dropped : Nat, settled : Nat]]
        /\ asked' \in [Callers -> [dropped : Nat, settled : Nat]]
    BY DEF JobsTypeOK
  <2>3. dropped[u] \in Nat /\ settled[u] \in Nat /\ published[u] \in Nat
        /\ copied[u] \in Nat /\ copied'[u] \in Nat
    BY <2>1 DEF JobsTypeOK
  <2>4. settled[u] <= dropped[u] /\ dropped[u] <= published[u]
    BY <2>1 DEF FreshInv, VersionOrder
  <2> HIDE DEF u
  <2> QED
    BY <2>1, <2>2, <2>3, <2>4 DEF FreshInv, FreshCaller, u
<1>2. TypeOK /\ CallKnown /\ FlightOwn /\ SingleFlight /\ Next
  BY DEF DownloaderInv, OwnedInv, Next
<1>3. \A z \in Callers : z # c => pc'[z] = pc[z]
  BY <1>2, StepFrame
<1>4. asked'[y].settled <= settled[u]
  BY <1>1 DEF FreshInv, FreshCaller
<1>5. pc'[y] \in Fetching => settled[u] <= copied'[u]
  <2>1. pc'[y] \in Fetching => pc[y] \in Fetching \/ (y = c /\ FetchCreate(c))
    BY <1>2, <1>3, CallerMoves
  <2> QED
    BY <1>1, <2>1 DEF FreshInv, FreshCaller
<1>6. ASSUME pc'[y] \in AfterPut PROVE asked'[y].settled <= copied'[u]
  <2>1. CASE y # c
    BY <1>1, <1>3, <1>6, <2>1 DEF FreshInv, FreshCaller
  <2>2. CASE y = c /\ pc[c] \in AfterPut
    <3>1. ~Lookup(c)
      BY <2>2 DEF Lookup, Goto, AfterPut
    <3> QED
      BY <1>1, <2>2, <3>1 DEF FreshInv, FreshCaller
  <2>3. CASE y = c /\ Lookup(c) /\ Get(url[c])
    BY <1>1, <1>4, <2>3 DEF FreshInv, FreshEntry, Get
  <2>4. CASE y = c /\ Wake(c) /\ call[joined[c]] = "ok"
    <3>1. pc[c] = "wait" /\ ~Lookup(c) /\ joined[c] \in Callers
      BY <1>2, <2>4 DEF Wake, Lookup, Goto, TypeOK
    <3>2. pc[joined[c]] \in Fetching \cup {"held", "released"}
      BY <1>2, <2>4, <3>1 DEF CallKnown, Fetching
    <3> QED
      BY <1>1, <2>4, <3>1, <3>2 DEF FreshInv, FreshCaller
  <2>5. CASE y = c /\ PutFetched(c)
    <3>1. pc[c] = "fetched" /\ ~Lookup(c)
      BY <2>5 DEF PutFetched, Lookup, Goto
    <3> QED
      BY <1>1, <2>5, <3>1 DEF FreshInv, FreshCaller, Fetching
  <2> QED
    BY <1>2, <1>6, <2>1, <2>2, <2>3, <2>4, <2>5, CallerMoves
<1>11. pc'[y] = "answered" => settled[u] <= response'[y]
  BY <1>3 DEF FreshInv, FreshCaller
<1>7. ASSUME pc'[y] = "wait", NEW e \in Callers, joined'[y] = e, Owned(e),
             pc'[e] \in Fetching \cup {"held", "released"} => asked'[y].settled <= copied'[u]
      PROVE  FreshCaller(y)'
  <2>1. Owned(e)'
    BY <1>2, <1>7, OwnedGrows
  <2>2. Owned(joined[y])'
    BY <1>7, <2>1 DEF Owned
  <2> QED
    BY <1>4, <1>5, <1>6, <1>7, <1>11, <2>2 DEF FreshCaller
<1>8. CASE pc'[y] = "wait" /\ y # c
  <2>1. pc[y] = "wait" /\ joined'[y] = joined[y]
    BY <1>2, <1>3, <1>8, CallerMoves
  <2>2. PICK e \in Callers : e = joined[y]
    BY <1>2, <2>1 DEF TypeOK
  <2>3. Owned(e) /\ url[e] = u
    BY <1>2, <2>1, <2>2 DEF CallKnown, FreshInv, FreshCaller
  <2>4. asked'[y].settled <= asked[y].settled
    BY <1>1, <1>8
  <2>5. ASSUME pc'[e] \in Fetching \cup {"held", "released"}
        PROVE  asked'[y].settled <= copied'[u]
    <3>1. \/ pc[e] \in Fetching \cup {"held", "released"}
          \/ e = c /\ FetchCreate(c)
      BY <1>2, <1>3, <2>3, <2>5, CallerMoves
    <3>2. CASE pc[e] \in Fetching \cup {"held", "released"}
      BY <1>1, <2>1, <2>2, <2>4, <3>2 DEF FreshInv, FreshCaller
    <3>3. CASE e = c /\ FetchCreate(c)
      BY <1>1, <2>3, <2>4, <3>3
    <3> QED
      BY <3>1, <3>2, <3>3
  <2> QED
    BY <1>7, <1>8, <2>1, <2>2, <2>3, <2>5
<1>9. CASE pc'[y] = "wait" /\ y = c
  <2>1. LoadOrStore(c) /\ Flight(c) # Nobody /\ joined'[c] = Flight(c)
    BY <1>2, <1>9, CallerMoves
  <2>2. PICK e \in Callers : e = Flight(c) /\ dl[e] = dl[c] /\ url[e] = url[c] /\ Flight(e) = e
    BY <1>2, <2>1, DownloaderAssumption DEF Flight, FlightOwn, TypeOK
  <2>3. pc[e] \in Owning /\ pc[c] = "miss" /\ e # c
    BY <1>2, <2>1, <2>2 DEF SingleFlight, LoadOrStore, Goto, Owning
  <2>4. pc'[e] = pc[e] /\ Owned(e)
    BY <1>2, <1>3, <2>3 DEF Owned
  <2>5. asked'[y].settled <= asked[y].settled
    BY <1>9, <2>3 DEF Lookup, Goto
  <2>6. pc[e] \in Fetching => settled[u] <= copied[u]
    BY <1>9, <2>2 DEF FreshInv, FreshCaller
  <2>7. pc'[e] \in Fetching \cup {"held", "released"} => asked'[y].settled <= copied'[u]
    BY <1>1, <2>3, <2>4, <2>5, <2>6 DEF Owning
  <2> QED
    BY <1>7, <1>9, <2>1, <2>2, <2>4, <2>7
<1>10. CASE pc'[y] # "wait"
  BY <1>4, <1>5, <1>6, <1>10, <1>11 DEF FreshCaller
<1> QED
  BY <1>8, <1>9, <1>10

\* What an input's step does to the versions.
LEMMA InputVersions ==
  ASSUME DownloaderInv, JobsTypeOK, FreshInv, NEW c \in plan.callers, InputStep(c), JobsTypeOK'
  PROVE  /\ settled' = settled /\ dropped' = dropped /\ published' = published
         /\ Lookup(c) \/ Step(c)
         /\ \A u \in Urls : copied'[u] = copied[u] \/ settled[u] <= copied'[u]
         /\ \A u \in Urls : copied'[u] <= published[u]
         /\ FetchCreate(c) => settled[url[c]] <= copied'[url[c]]
         /\ \A y \in Callers : y # c => response'[y] = response[y]
         /\ response'[c] <= published[url[c]]
         /\ pc'[c] = "answered" => settled[url[c]] <= response'[c]
         /\ \A y \in Callers : y # c => asked'[y] = asked[y]
         /\ asked'[c].settled <= settled[url[c]]
         /\ ~Lookup(c) => asked'[c].settled <= asked[c].settled
<1>1. c \in Callers /\ url[c] \in Urls
  BY PlanCallers, DownloaderAssumption
<1>2. /\ copied \in [Urls -> Nat] /\ settled \in [Urls -> Nat] /\ published \in [Urls -> Nat]
      /\ asked \in [Callers -> [dropped : Nat, settled : Nat]]
      /\ \A u \in Urls : copied[u] <= published[u] /\ settled[u] <= published[u]
      /\ response \in [Callers -> Nat] /\ response[c] <= published[url[c]]
      /\ asked[c].settled <= settled[url[c]]
      /\ NotAsked.settled = 0
  <2>1. \A u \in Urls : settled[u] <= published[u]
    <3> SUFFICES ASSUME NEW u \in Urls PROVE settled[u] <= published[u]
      OBVIOUS
    <3>1. settled[u] \in Nat /\ dropped[u] \in Nat /\ published[u] \in Nat
      BY DEF JobsTypeOK
    <3>2. settled[u] <= dropped[u] /\ dropped[u] <= published[u]
      BY DEF FreshInv, VersionOrder
    <3> QED
      BY <3>1, <3>2
  <2> QED
    BY <1>1, <2>1 DEF JobsTypeOK, FreshInv, VersionOrder, FreshResponse, FreshCaller, NotAsked
<1>3. CASE Ask(c)
  <2>1. /\ Lookup(c) /\ ~FetchCreate(c) /\ copied' = copied
        /\ response' = response /\ pc'[c] # "answered"
        /\ settled' = settled /\ dropped' = dropped /\ published' = published
        /\ asked' = [asked EXCEPT ![c] = [dropped |-> dropped[url[c]], settled |-> settled[url[c]]]]
    BY <1>1, <1>3 DEF Ask, Lookup, FetchCreate, Goto, DownloaderInv, TypeOK
  <2>2. asked'[c].settled = settled[url[c]] /\ \A y \in Callers : y # c => asked'[y] = asked[y]
    BY <1>1, <1>2, <2>1
  <2> QED
    BY <1>1, <1>2, <2>1, <2>2
<1>4. CASE ReleaseInput(c)
  <2>1. /\ Return(c) /\ ~FetchCreate(c) /\ copied' = copied
        /\ response' = response /\ pc'[c] # "answered"
        /\ settled' = settled /\ dropped' = dropped /\ published' = published
        /\ asked' = [asked EXCEPT ![c] = NotAsked]
    BY <1>1, <1>4 DEF ReleaseInput, Return, FetchCreate, Goto, DownloaderInv, TypeOK
  <2>2. asked'[c].settled = 0 /\ \A y \in Callers : y # c => asked'[y] = asked[y]
    BY <1>1, <1>2, <2>1
  <2> QED
    BY <1>1, <1>2, <2>1, <2>2 DEF Step
<1>5. CASE Go(c)
  <2>1. /\ Advance(c)
        /\ settled' = settled /\ dropped' = dropped /\ published' = published
        /\ asked' = asked \/ asked' = [asked EXCEPT ![c] = NotAsked]
    BY <1>5 DEF Go
  <2>2. /\ asked'[c].settled <= asked[c].settled /\ asked'[c].settled <= settled[url[c]]
        /\ \A y \in Callers : y # c => asked'[y] = asked[y]
    BY <1>1, <1>2, <2>1
  <2>3. /\ FetchCreate(c) => pc'[c] = "copy"
        /\ pc'[c] = "copy" => pc[c] = "answered"
    BY <1>1, <2>1 DEF Advance, TakeHit, LoadOrStore, Wake, TakeJoined, FetchAnswered, FetchRefused,
       FetchCreate, CopyOk, CopyFail, PutFetched, TakeOwn, Done, Delete, Goto, DownloaderInv, TypeOK
  <2>4. /\ pc'[c] = "copy" => copied' = [copied EXCEPT ![url[c]] = response[c]]
        /\ pc'[c] # "copy" => copied' = copied
    BY <1>5 DEF Go
  <2>5. pc[c] = "answered" => settled[url[c]] <= response[c]
    BY <1>1 DEF FreshInv, FreshCaller
  <2>6. \A u \in Urls : copied'[u] = copied[u] \/ settled[u] <= copied'[u]
    BY <1>1, <1>2, <2>3, <2>4, <2>5
  <2>7. \A u \in Urls : copied'[u] <= published[u]
    BY <1>1, <1>2, <2>4
  <2>8. FetchCreate(c) => settled[url[c]] <= copied'[url[c]]
    BY <1>1, <1>2, <2>3, <2>4, <2>5
  <2>9. /\ \A y \in Callers : y # c => response'[y] = response[y]
        /\ response'[c] <= published[url[c]]
        /\ pc'[c] = "answered" => settled[url[c]] <= response'[c]
    <3>1. \/ response' = response /\ pc'[c] # "answered"
          \/ response' = [response EXCEPT ![c] = published[url[c]]]
      BY <1>5 DEF Go
    <3> QED
      BY <1>1, <1>2, <3>1
  <2> QED
    BY <2>1, <2>2, <2>6, <2>7, <2>8, <2>9 DEF Step
<1> QED
  BY <1>3, <1>4, <1>5 DEF InputStep

LEMMA FreshInputStep ==
  ASSUME DownloaderInv, JobsTypeOK, FreshInv, NEW c \in plan.callers, InputStep(c), JobsTypeOK'
  PROVE  FreshInv'
<1>1. c \in Callers /\ (Lookup(c) \/ Step(c)) /\ settled' = settled
  BY PlanCallers, InputVersions
<1>2. VersionOrder' /\ FreshResponse'
  <2>1. VersionOrder'
    BY InputVersions DEF FreshInv, VersionOrder
  <2>2. FreshResponse'
    BY <1>1, InputVersions DEF FreshInv, FreshResponse
  <2> QED
    BY <2>1, <2>2
<1>3. FreshEntry'
  <2>1. TypeOK /\ Next
    BY <1>1 DEF DownloaderInv, Next
  <2>2. /\ copied' \in [Urls -> Nat]
        /\ \A u \in Urls : copied'[u] = copied[u] \/ settled[u] <= copied'[u]
    BY InputVersions DEF JobsTypeOK
  <2> QED
    BY <1>1, <2>1, <2>2, FreshEntryStep
<1>4. ASSUME NEW y \in Callers PROVE FreshCaller(y)'
  BY <1>1, InputVersions, FreshCallerStep
<1> QED
  BY <1>2, <1>3, <1>4 DEF FreshInv

LEMMA FreshStep ==
  ASSUME DownloaderInv, JobsTypeOK, FreshInv, [JobsNext]_jobVars
  PROVE  FreshInv'
<1>1. TypeOK /\ JobsTypeOK'
  BY JobsTypeStep DEF DownloaderInv
<1>2. ASSUME NEW j \in Jobs, Begin(j) \/ RunStep(j) PROVE FreshInv'
  <2>1. ASSUME NEW c \in Inputs(j), InputStep(c) PROVE FreshInv'
    BY <1>1, <2>1, FreshInputStep DEF Inputs
  <2>2. ASSUME NEW from, NEW to, Enter(j, from, to) PROVE FreshInv'
    <3>1. UNCHANGED <<pc, call, joined, asked, response, copied, settled, dropped, published, entries>>
      BY <2>2 DEF Enter, vars, versions
    <3> QED
      BY <3>1, FreshStill DEF FreshInv, VersionOrder, FreshResponse, Cached
  <2> QED
    BY <1>2, <2>1, <2>2 DEF Begin, RunStep, Acquired, DownloadInputsFail, AcquireFail, End
<1>3. CASE UNCHANGED jobVars
  <2>1. UNCHANGED <<pc, call, joined, asked, response, copied, settled, dropped, published, entries>>
    BY <1>3 DEF jobVars, vars, versions
  <2> QED
    BY <2>1, FreshStill DEF FreshInv, VersionOrder, FreshResponse, Cached
<1> QED
  BY <1>1, <1>2, <1>3, FreshReplace, FreshForget, FreshEnvironment, FreshCrash DEF JobsNext

\* What a job is given under a URL it asks for after an Invalidate that met no download
\* of the URL whose answer the server had sent is not older than that Invalidate's upload,
\* whatever happens after it (file_cache.go:117-123, local.go:38-48,
\* pipeline_media.go:272-277).
THEOREM FreshOnceSettledHolds == JobsSpec => []FreshOnceSettled
<1>1. JobsInit => FreshInv
  BY DownloaderAssumption
     DEF JobsInit, Init, CacheInit, FreshInv, VersionOrder, FreshResponse, FreshEntry, FreshCaller,
         Fetching, AfterPut, Cached, NotAsked
<1>2. DownloaderInv /\ JobsTypeOK /\ FreshInv /\ [JobsNext]_jobVars => FreshInv'
  BY FreshStep
<1>3. JobsTypeOK /\ FreshInv => FreshOnceSettled
  <2> SUFFICES ASSUME JobsTypeOK, FreshInv, NEW c \in Callers, pc[c] = "held"
               PROVE  copied[url[c]] >= asked[c].settled
    BY DEF FreshOnceSettled
  <2>1. asked[c].settled <= copied[url[c]]
    BY DEF FreshInv, FreshCaller, AfterPut
  <2>2. copied[url[c]] \in Nat /\ asked[c].settled \in Nat
    BY DownloaderAssumption DEF JobsTypeOK
  <2> QED
    BY <2>1, <2>2
<1>4. QED
  BY <1>1, <1>2, <1>3, JobsInvariant, PTL DEF JobsSpec

\* What holds of a Downloader holds when the jobs use it, and after any number of crashes
\* over the same directory (downloader.go:44-89, file_cache.go:47-123).
THEOREM DownloaderSafeInJobs ==
  JobsSpec => [](SingleFlight /\ RefCountExact /\ NoLeakedReference /\ SoleDownloadIsWhole)
<1>1. ASSUME DownloaderInv
      PROVE  SingleFlight /\ RefCountExact /\ NoLeakedReference /\ SoleDownloadIsWhole
  <2>1. SingleFlight /\ RefCountExact
    BY <1>1 DEF DownloaderInv, CountInv
  <2>2. NoLeakedReference
    BY <1>1, IdleCount DEF DownloaderInv, NoLeakedReference
  <2>3. SoleDownloadIsWhole
    BY <1>1, WholeIfSole
  <2> QED
    BY <2>1, <2>2, <2>3
<1>2. QED
  BY <1>1, JobsInvariant, PTL
=============================================================================

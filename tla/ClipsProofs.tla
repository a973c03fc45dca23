----------------------------- MODULE ClipsProofs -----------------------------
(***************************************************************************)
(* Proofs of the safety properties of Clips, for any jobs, any finite set  *)
(* of clips, any number of slots and any queue size.                       *)
(*                                                                         *)
(* The invariant follows a result from the goroutine that sends it into    *)
(* the channel to the loop that receives it and to the clip's entry: it is *)
(* in one of these places, and once.  So what is left of a job whose       *)
(* channel is closed and empty is with its uploads, and the buffer, one    *)
(* place per clip, has room for every send.                                *)
(***************************************************************************)
EXTENDS Clips, FiniteSetTheorems, SequenceTheorems, TLAPS

\* ClipsTypeOK without the bound of the channel's buffer.
Typed ==
  /\ queue \in Seq(AsyncJobs) /\ Len(queue) <= QueueSize
  /\ run \in [Jobs -> RunLabels]
  /\ status \in [Jobs -> {"none", "queued", "running", "done", "failed"}]
  /\ sem \subseteq Clips
  /\ clip \in [Clips -> ClipLabels]
  /\ failed \in [Clips -> BOOLEAN]
  /\ rendered \in [Jobs -> Seq(Clips)]
  /\ closed \in [Jobs -> BOOLEAN]
  /\ upload \in [Clips -> {"none", "uploading", "removing", "over"}]
  /\ output \in [Clips -> {"none", "error", "link"}]
  /\ file \in [Clips -> BOOLEAN]

Sent == {"sent", "freed", "over"}

\* The loop has taken the clip's result from the channel.
Received(c) == output[c] # "none" \/ upload[c] # "none"

InChannel(c) == \E i \in DOMAIN rendered[jobOf[c]] : rendered[jobOf[c]][i] = c

\* Where the goroutine of a clip can be, given its job.
PlaceInv ==
  \A c \in Clips :
    LET j == jobOf[c]
    IN  /\ run[j] \in {"new", "refused", "queued", "started"} => clip[c] = "none"
        /\ run[j] \in {"collecting", "flushing", "ending"} => clip[c] # "none"
        /\ run[j] \in {"returned", "told"} /\ status[j] = "failed" => clip[c] = "none"
        /\ closed[j] => clip[c] = "over"

SlotInv ==
  /\ \A c \in Clips : c \in sem <=> clip[c] \in {"rendering", "sending", "sent"}
  /\ Cardinality(sem) <= MaxWorkers

\* The channel has the results that were sent and not received yet, each one once.
ChannelInv ==
  \A j \in Jobs : \A i \in DOMAIN rendered[j] :
    /\ jobOf[rendered[j][i]] = j
    /\ clip[rendered[j][i]] \in Sent
    /\ ~Received(rendered[j][i])
    /\ \A k \in DOMAIN rendered[j] : rendered[j][k] = rendered[j][i] => k = i

\* No result is lost, and what was uploaded has its entry.
ResultInv ==
  \A c \in Clips :
    /\ Received(c) => clip[c] \in Sent
    /\ clip[c] \in Sent => Received(c) \/ InChannel(c)
    /\ upload[c] \in {"removing", "over"} => output[c] # "none"

\* The job has its results when the loop ends, and is done when the uploads are.
EndInv ==
  \A j \in Jobs :
    /\ run[j] \in {"returned", "told"} => status[j] \in {"done", "failed"}
    /\ run[j] = "ending" => status[j] = "done"
    /\ run[j] \in {"flushing", "ending"} \/ (run[j] \in {"returned", "told"} /\ status[j] = "done")
         => closed[j] /\ rendered[j] = <<>>
    /\ run[j] = "ending" \/ (run[j] \in {"returned", "told"} /\ status[j] = "done")
         => \A c \in ClipsOf(j) : upload[c] \in {"none", "over"}

Inv == PlaceInv /\ SlotInv /\ ChannelInv /\ ResultInv /\ EndInv
-----------------------------------------------------------------------------
\* Every step keeps the types.
LEMMA TypedKept == ASSUME Typed, [Next]_vars PROVE Typed'
  <1> USE ClipsAssumption DEF Typed, RunLabels, ClipLabels, RunTo, ClipTo, SetStatus, renderVars,
          uploadVars
  <1>1. CASE UNCHANGED vars BY <1>1 DEF vars
  <1>2. ASSUME NEW j \in Jobs, Refuse(j) \/ ExecuteSync(j) PROVE Typed'
    <2>1. CASE Refuse(j) BY <2>1 DEF Refuse
    <2>2. CASE ExecuteSync(j) BY <2>2 DEF ExecuteSync
    <2>3. QED BY <1>2, <2>1, <2>2
  <1>3. ASSUME NEW j \in Jobs, Execute(j) PROVE Typed'
    <2>1. j \in AsyncJobs /\ Len(queue) < QueueSize /\ queue' = Append(queue, j)
      BY <1>3 DEF Execute
    <2>2. queue' \in Seq(AsyncJobs) /\ Len(queue') <= QueueSize BY <2>1
    <2>3. QED BY <1>3, <2>2 DEF Execute
  <1>4. CASE Dispatch
    <2>1. /\ queue # <<>> /\ queue' = Tail(queue)
          /\ run' = [run EXCEPT ![Head(queue)] = "started"]
          /\ status' = [status EXCEPT ![Head(queue)] = "running"]
      BY <1>4 DEF Dispatch
    <2>2. queue' \in Seq(AsyncJobs) /\ Len(queue') <= QueueSize BY <2>1
    <2>3. run' \in [Jobs -> RunLabels] BY <2>1
    <2>4. status' \in [Jobs -> {"none", "queued", "running", "done", "failed"}] BY <2>1
    <2>5. UNCHANGED <<sem, clip, failed, rendered, closed, upload, output, file>>
      BY <1>4 DEF Dispatch
    <2>6. QED BY <2>2, <2>3, <2>4, <2>5
  <1>5. ASSUME NEW j \in Jobs,
               \/ AcquireFail(j) \/ StartClips(j) \/ EndOfRange(j) \/ Complete(j)
               \/ ReleaseInput(j) \/ Tell(j) \/ Close(j)
        PROVE  Typed'
    <2>1. CASE AcquireFail(j) BY <2>1 DEF AcquireFail
    <2>2. CASE StartClips(j)
      <3>1. clip' \in [Clips -> ClipLabels] BY <2>2 DEF StartClips
      <3>2. QED BY <2>2, <3>1 DEF StartClips
    <2>3. CASE EndOfRange(j) BY <2>3 DEF EndOfRange
    <2>4. CASE ReleaseInput(j) BY <2>4 DEF ReleaseInput
    <2>5. CASE Tell(j) BY <2>5 DEF Tell
    <2>6. CASE Complete(j) BY <2>6 DEF Complete
    <2>7. CASE Close(j) BY <2>7 DEF Close
    <2>8. QED BY <1>5, <2>1, <2>2, <2>3, <2>4, <2>5, <2>6, <2>7
  <1>6. ASSUME NEW j \in Jobs, Receive(j) PROVE Typed'
    <2>1. rendered[j] \in Seq(Clips) /\ rendered[j] # <<>> BY <1>6 DEF Receive
    <2>2. Head(rendered[j]) \in Clips /\ Tail(rendered[j]) \in Seq(Clips) BY <2>1
    <2>3. QED BY <1>6, <2>2 DEF Receive
  <1>7. ASSUME NEW c \in Clips, TakeSlot(c) \/ RenderEnd(c) \/ GiveSlot(c) \/ RenderDone(c)
        PROVE  Typed'
    <2>1. CASE TakeSlot(c) BY <2>1 DEF TakeSlot
    <2>2. CASE RenderEnd(c) BY <2>2 DEF RenderEnd
    <2>3. CASE GiveSlot(c) \/ RenderDone(c) BY <2>3 DEF GiveSlot, RenderDone
    <2>4. QED BY <1>7, <2>1, <2>2, <2>3
  <1>8. ASSUME NEW c \in Clips, Send(c) PROVE Typed'
    <2>1. Append(rendered[jobOf[c]], c) \in Seq(Clips) OBVIOUS
    <2>2. QED BY <1>8, <2>1 DEF Send
  <1>9. ASSUME NEW c \in Clips, Upload(c) \/ RemoveOutput(c) PROVE Typed'
    BY <1>9 DEF Upload, RemoveOutput
  <1>10. QED
    BY <1>1, <1>2, <1>3, <1>4, <1>5, <1>6, <1>7, <1>8, <1>9 DEF Next, RunStep, ClipStep, UploadStep
-----------------------------------------------------------------------------
(* The invariant is kept. *)

\* The types the steps below need.
Fields ==
  /\ run \in [Jobs -> RunLabels]
  /\ status \in [Jobs -> {"none", "queued", "running", "done", "failed"}]
  /\ sem \subseteq Clips
  /\ clip \in [Clips -> ClipLabels]
  /\ closed \in [Jobs -> BOOLEAN]
  /\ upload \in [Clips -> {"none", "uploading", "removing", "over"}]
  /\ output \in [Clips -> {"none", "error", "link"}]
  /\ jobOf \in [Clips -> Jobs]

\* A job that moves on from one place of its run to another.
RunStepOnly(j, from, to) ==
  /\ RunTo(j, from, to)
  /\ UNCHANGED <<sem, clip, rendered, closed, upload, output>>

\* What a job can do without touching its clips keeps the invariant.
LEMMA RunKept ==
  ASSUME Fields, Inv, NEW j \in Jobs, NEW from, NEW to \in RunLabels, RunStepOnly(j, from, to),
         \A k \in Jobs \ {j} : status'[k] = status[k],
         \/ from = "new" /\ to \in {"refused", "queued", "started"}
         \/ from = "queued" /\ to = "started"
         \/ from = "started" /\ to = "returned" /\ status'[j] = "failed"
         \/ from = "collecting" /\ to = "flushing" /\ closed[j] /\ rendered[j] = <<>>
         \/ /\ from = "flushing" /\ to = "ending" /\ status'[j] = "done"
            /\ \A c \in ClipsOf(j) : upload[c] \in {"none", "over"}
         \/ from = "ending" /\ to = "returned" /\ status' = status
         \/ from = "returned" /\ to = "told" /\ status' = status
  PROVE  Inv'
  <1> USE DEF Fields, RunLabels, RunStepOnly, RunTo
  <1>1. run'[j] = to /\ run[j] = from /\ \A k \in Jobs \ {j} : run'[k] = run[k] OBVIOUS
  <1>2. SlotInv' BY DEF Inv, SlotInv
  <1>3. ChannelInv' /\ ResultInv' BY DEF Inv, ChannelInv, ResultInv, Received, InChannel
  <1>4. PlaceInv' BY <1>1 DEF Inv, PlaceInv, EndInv
  <1>5. EndInv' BY <1>1 DEF Inv, EndInv, ClipsOf
  <1>6. QED BY <1>2, <1>3, <1>4, <1>5 DEF Inv
\* Fields is a part of Typed.
LEMMA FieldsTyped == ASSUME Typed PROVE Fields
  BY ClipsAssumption DEF Typed, Fields

\* The steps of requests, of the dispatcher and of a run that are such moves.
LEMMA JobsKept ==
  ASSUME Typed, Inv,
         \/ Dispatch
         \/ \E j \in Jobs : \/ Refuse(j) \/ Execute(j) \/ ExecuteSync(j) \/ AcquireFail(j)
                           \/ EndOfRange(j) \/ Complete(j) \/ ReleaseInput(j) \/ Tell(j)
  PROVE  Inv'
  <1> USE FieldsTyped DEF RunStepOnly, RunTo, SetStatus, renderVars, uploadVars, RunLabels, Fields
  <1>1. ASSUME NEW j \in Jobs, Refuse(j) PROVE Inv'
    <2>1. RunStepOnly(j, "new", "refused") /\ status' = status BY <1>1 DEF Refuse
    <2>2. QED BY <2>1, RunKept
  <1>2. ASSUME NEW j \in Jobs, Execute(j) PROVE Inv'
    <2>1. RunStepOnly(j, "new", "queued") /\ \A k \in Jobs \ {j} : status'[k] = status[k]
      BY <1>2 DEF Execute
    <2>2. QED BY <2>1, RunKept
  <1>3. ASSUME NEW j \in Jobs, ExecuteSync(j) PROVE Inv'
    <2>1. RunStepOnly(j, "new", "started") /\ \A k \in Jobs \ {j} : status'[k] = status[k]
      BY <1>3 DEF ExecuteSync
    <2>2. QED BY <2>1, RunKept
  <1>4. CASE Dispatch
    <2>1. Head(queue) \in AsyncJobs BY <1>4 DEF Dispatch, Typed
    <2>2. PICK j \in Jobs : j = Head(queue) BY <2>1 DEF Jobs
    <2>3. RunStepOnly(j, "queued", "started") /\ \A k \in Jobs \ {j} : status'[k] = status[k]
      BY <1>4, <2>2 DEF Dispatch
    <2>4. QED BY <2>3, RunKept
  <1>5. ASSUME NEW j \in Jobs, AcquireFail(j) PROVE Inv'
    <2>1. /\ RunStepOnly(j, "started", "returned")
          /\ status'[j] = "failed" /\ \A k \in Jobs \ {j} : status'[k] = status[k]
      BY <1>5 DEF AcquireFail
    <2>2. QED BY <2>1, RunKept
  <1>6. ASSUME NEW j \in Jobs, EndOfRange(j) PROVE Inv'
    <2>1. /\ RunStepOnly(j, "collecting", "flushing") /\ status' = status
          /\ closed[j] /\ rendered[j] = <<>>
      BY <1>6 DEF EndOfRange
    <2>2. QED BY <2>1, RunKept
  <1>7. ASSUME NEW j \in Jobs, Complete(j) PROVE Inv'
    <2>1. /\ RunStepOnly(j, "flushing", "ending")
          /\ status'[j] = "done" /\ \A k \in Jobs \ {j} : status'[k] = status[k]
          /\ \A c \in ClipsOf(j) : upload[c] \in {"none", "over"}
      BY <1>7 DEF Complete
    <2>2. QED BY <2>1, RunKept
  <1>8. ASSUME NEW j \in Jobs, ReleaseInput(j) PROVE Inv'
    <2>1. RunStepOnly(j, "ending", "returned") /\ status' = status BY <1>8 DEF ReleaseInput
    <2>2. QED BY <2>1, RunKept
  <1>9. ASSUME NEW j \in Jobs, Tell(j) PROVE Inv'
    <2>1. RunStepOnly(j, "returned", "told") /\ status' = status BY <1>9 DEF Tell
    <2>2. QED BY <2>1, RunKept
  <1>10. QED BY <1>1, <1>2, <1>3, <1>4, <1>5, <1>6, <1>7, <1>8, <1>9

\* The goroutines of the clips start.
LEMMA StartKept ==
  ASSUME Typed, Inv, NEW j \in Jobs, StartClips(j)
  PROVE  Inv'
  <1> USE FieldsTyped DEF Fields, Inv, RunLabels
  <1>1. /\ run[j] = "started" /\ run' = [run EXCEPT ![j] = "collecting"]
        /\ clip' = [c \in Clips |-> IF jobOf[c] = j THEN "blocked" ELSE clip[c]]
        /\ UNCHANGED <<status, sem, rendered, closed, upload, output>>
    BY DEF StartClips, RunTo, uploadVars
  <1>2. \A c \in Clips : jobOf[c] = j => clip[c] = "none" /\ ~closed[j] BY <1>1 DEF PlaceInv
  <1>3. PlaceInv' BY <1>1, <1>2 DEF PlaceInv
  <1>4. SlotInv' BY <1>1, <1>2 DEF SlotInv
  <1>5. ChannelInv'
    <2>1. ASSUME NEW k \in Jobs, NEW i \in DOMAIN rendered[k]
          PROVE  clip'[rendered[k][i]] = clip[rendered[k][i]]
      <3>1. rendered[k][i] \in Clips BY DEF Typed
      <3>2. clip[rendered[k][i]] # "none" BY DEF ChannelInv, Sent
      <3>3. QED BY <1>1, <1>2, <3>1, <3>2
    <2>2. rendered' = rendered /\ \A b \in Clips : Received(b)' = Received(b)
      BY <1>1 DEF Received
    <2>3. \A k \in Jobs : \A i \in DOMAIN rendered[k] : rendered[k][i] \in Clips BY DEF Typed
    <2>4. QED BY <2>1, <2>2, <2>3 DEF ChannelInv, Received
  <1>6. ResultInv' BY <1>1, <1>2 DEF ResultInv, Received, InChannel, Sent
  <1>7. EndInv' BY <1>1 DEF EndInv, ClipsOf
  <1>8. QED BY <1>3, <1>4, <1>5, <1>6, <1>7

\* The channel is closed when all of them are over.
LEMMA CloseKept ==
  ASSUME Typed, Inv, NEW j \in Jobs, Close(j)
  PROVE  Inv'
  <1> USE FieldsTyped DEF Fields, Inv
  <1>1. /\ \A c \in Clips : jobOf[c] = j => clip[c] = "over"
        /\ closed' = [closed EXCEPT ![j] = TRUE]
        /\ UNCHANGED <<run, status, sem, clip, rendered, upload, output>>
    BY DEF Close, ClipsOf, uploadVars, renderVars
  <1>2. PlaceInv' BY <1>1 DEF PlaceInv
  <1>3. SlotInv' BY <1>1 DEF SlotInv
  <1>4. ChannelInv' /\ ResultInv' BY <1>1 DEF ChannelInv, ResultInv, Received, InChannel
  <1>5. EndInv' BY <1>1 DEF EndInv, ClipsOf
  <1>6. QED BY <1>2, <1>3, <1>4, <1>5
\* A clip takes a slot, renders, and gives it back.
LEMMA SlotsKept ==
  ASSUME Typed, Inv, NEW c \in Clips, TakeSlot(c) \/ RenderEnd(c) \/ GiveSlot(c) \/ RenderDone(c)
  PROVE  Inv'
  <1> USE FieldsTyped DEF Fields, Inv, ClipTo, uploadVars, ClipLabels
  <1>1. PICK to \in ClipLabels :
          /\ clip' = [clip EXCEPT ![c] = to]
          /\ clip[c] \notin {"none", "over"} /\ to # "none"
          /\ clip[c] \in Sent <=> to \in Sent
    BY DEF TakeSlot, RenderEnd, GiveSlot, RenderDone, Sent
  <1>2. UNCHANGED <<run, status, rendered, closed, upload, output>>
    BY DEF TakeSlot, RenderEnd, GiveSlot, RenderDone
  <1>3. \A b \in Clips : clip'[b] \in Sent <=> clip[b] \in Sent BY <1>1 DEF Sent
  <1>4. \A b \in Clips : b # c => clip'[b] = clip[b] BY <1>1
  <1>5. clip[c] # "none" /\ clip'[c] # "none" BY <1>1 DEF Sent
  <1>6. clip[c] # "over" BY <1>1
  <1>7. PlaceInv' BY <1>2, <1>4, <1>5, <1>6 DEF PlaceInv
  <1>8. SlotInv'
    <2>1. IsFiniteSet(sem) BY ClipsAssumption, FS_Subset
    <2>2. CASE TakeSlot(c)
      <3>1. Cardinality(sem) \in Nat /\ MaxWorkers \in Nat
        BY ONLY <2>1, FS_CardinalityType, ClipsAssumption
      <3>2. Cardinality(sem) < MaxWorkers /\ sem' = sem \cup {c} BY <2>2 DEF TakeSlot
      <3>3. Cardinality(sem') <= MaxWorkers BY ONLY <2>1, <3>1, <3>2, FS_AddElement
      <3>4. clip'[c] = "rendering" BY <2>2 DEF TakeSlot
      <3>5. QED BY <1>4, <3>2, <3>3, <3>4 DEF SlotInv
    <2>3. CASE GiveSlot(c)
      <3>1. sem' = sem \ {c} /\ clip'[c] = "freed" BY <2>3 DEF GiveSlot
      <3>2. Cardinality(sem') <= Cardinality(sem) BY <2>1, <3>1, FS_Subset
      <3>3. Cardinality(sem') \in Nat /\ Cardinality(sem) \in Nat
        BY <2>1, <3>1, FS_Subset, FS_CardinalityType
      <3>4. Cardinality(sem') <= MaxWorkers BY <3>2, <3>3, ClipsAssumption DEF SlotInv
      <3>5. QED BY <1>4, <3>1, <3>4 DEF SlotInv
    <2>4. CASE RenderEnd(c) \/ RenderDone(c)
      <3>1. /\ sem' = sem
            /\ \/ clip[c] = "rendering" /\ clip'[c] = "sending"
               \/ clip[c] = "freed" /\ clip'[c] = "over"
        BY <2>4 DEF RenderEnd, RenderDone
      <3>2. QED BY <1>4, <3>1 DEF SlotInv
    <2>5. QED BY <2>2, <2>3, <2>4
  <1>9. ChannelInv'
    <2>1. \A k \in Jobs : \A i \in DOMAIN rendered[k] : rendered[k][i] \in Clips BY DEF Typed
    <2>2. QED BY <1>2, <1>3, <2>1 DEF ChannelInv, Received
  <1>10. ResultInv' BY <1>2, <1>3 DEF ResultInv, Received, InChannel
  <1>11. EndInv' BY <1>2 DEF EndInv, ClipsOf
  <1>12. QED BY <1>7, <1>8, <1>9, <1>10, <1>11

\* A result goes into the channel...
LEMMA SendKept ==
  ASSUME Typed, Inv, NEW c \in Clips, Send(c)
  PROVE  Inv'
  <1> USE FieldsTyped DEF Fields, Inv, ClipLabels
  <1> DEFINE j == jobOf[c]
             n == Len(rendered[j])
  <1>1. /\ clip[c] = "sending" /\ clip' = [clip EXCEPT ![c] = "sent"]
        /\ rendered' = [rendered EXCEPT ![j] = Append(rendered[j], c)]
        /\ UNCHANGED <<run, status, sem, closed, upload, output>>
    BY DEF Send, ClipTo, uploadVars
  <1>2. /\ rendered[j] \in Seq(Clips) /\ rendered \in [Jobs -> Seq(Clips)]
        /\ n \in Nat
        /\ DOMAIN rendered[j] = 1 .. n
    BY DEF Typed
  <1>3. /\ DOMAIN rendered'[j] = 1 .. (n + 1)
        /\ rendered'[j][n + 1] = c
        /\ \A i \in 1 .. n : rendered'[j][i] = rendered[j][i]
        /\ \A k \in Jobs \ {j} : rendered'[k] = rendered[k]
    BY <1>1, <1>2
  <1>4. /\ ~Received(c) /\ ~InChannel(c)
        /\ \A k \in Jobs : \A i \in DOMAIN rendered[k] : rendered[k][i] # c
    BY <1>1 DEF ResultInv, ChannelInv, InChannel, Sent
  <1>5. \A b \in Clips : b # c => clip'[b] = clip[b] BY <1>1
  <1>6. PlaceInv' BY <1>1 DEF PlaceInv
  <1>7. SlotInv' BY <1>1 DEF SlotInv
  <1>8. \A b \in Clips : Received(b)' = Received(b) BY <1>1 DEF Received
  <1>9. ChannelInv'
    <2>1. ASSUME NEW k \in Jobs \ {j}, NEW i \in DOMAIN rendered'[k]
          PROVE  /\ jobOf[rendered'[k][i]] = k
                 /\ clip'[rendered'[k][i]] \in Sent
                 /\ ~Received(rendered[k][i])'
                 /\ \A l \in DOMAIN rendered'[k] : rendered'[k][l] = rendered'[k][i] => l = i
      <3>1. rendered'[k] = rendered[k] /\ rendered[k][i] \in Clips BY <1>2, <1>3
      <3>2. QED BY <1>4, <1>5, <1>8, <3>1 DEF ChannelInv
    <2>2. ASSUME NEW i \in DOMAIN rendered'[j]
          PROVE  /\ jobOf[rendered'[j][i]] = j
                 /\ clip'[rendered'[j][i]] \in Sent
                 /\ \A l \in DOMAIN rendered'[j] : rendered'[j][l] = rendered'[j][i] => l = i
                 /\ \A b \in Clips : b = rendered'[j][i] => ~Received(b)'
      <3>1. CASE i = n + 1 BY <1>1, <1>2, <1>3, <1>4, <1>8, <3>1 DEF Sent
      <3>2. CASE i \in 1 .. n
        <4>1. rendered'[j][i] = rendered[j][i] /\ rendered[j][i] \in Clips \ {c}
          BY <1>2, <1>3, <1>4, <3>2
        <4>2. /\ jobOf[rendered[j][i]] = j
              /\ clip[rendered[j][i]] \in Sent
              /\ ~Received(rendered[j][i])
              /\ \A l \in 1 .. n : rendered[j][l] = rendered[j][i] => l = i
          BY <1>2, <3>2 DEF ChannelInv
        <4>3. \A l \in 1 .. (n + 1) : l \in 1 .. n \/ l = n + 1 BY <1>2
        <4>4. \A l \in DOMAIN rendered'[j] : rendered'[j][l] = rendered'[j][i] => l = i
          BY <1>3, <3>2, <4>1, <4>2, <4>3
        <4>5. QED BY <1>5, <1>8, <4>1, <4>2, <4>4
      <3>3. QED BY <1>2, <1>3, <3>1, <3>2
    <2>3. ASSUME NEW k \in Jobs, NEW i \in DOMAIN rendered'[k]
          PROVE  /\ jobOf[rendered'[k][i]] = k
                 /\ clip'[rendered'[k][i]] \in Sent
                 /\ ~(output'[rendered'[k][i]] # "none" \/ upload'[rendered'[k][i]] # "none")
                 /\ \A l \in DOMAIN rendered'[k] : rendered'[k][l] = rendered'[k][i] => l = i
      <3>1. CASE k = j
        <4>1. rendered'[j][i] \in Clips BY <1>1, <1>2, <3>1 DEF Typed
        <4>2. QED BY <2>2, <3>1, <4>1 DEF Received
      <3>2. CASE k # j BY <2>1, <1>3, <3>2 DEF Received
      <3>3. QED BY <3>1, <3>2
    <2>4. QED BY <2>3 DEF ChannelInv, Received
  <1>10. ResultInv'
    <2>1. ASSUME NEW b \in Clips, InChannel(b) PROVE InChannel(b)'
      <3>1. PICK i \in DOMAIN rendered[jobOf[b]] : rendered[jobOf[b]][i] = b
        BY <2>1 DEF InChannel
      <3>2. i \in DOMAIN rendered'[jobOf[b]] /\ rendered'[jobOf[b]][i] = b
        <4>1. CASE jobOf[b] = j
          <5>1. i \in 1 .. n /\ rendered[j][i] = b BY <1>2, <3>1, <4>1
          <5>2. i \in 1 .. (n + 1) /\ rendered'[j][i] = b BY <1>2, <1>3, <5>1
          <5>3. QED BY <1>3, <4>1, <5>2
        <4>2. CASE jobOf[b] # j BY <1>3, <3>1, <4>2
        <4>3. QED BY <4>1, <4>2
      <3>3. QED BY <3>2 DEF InChannel
    <2>2. InChannel(c)'
      <3>1. n + 1 \in DOMAIN rendered'[j] BY <1>2, <1>3
      <3>2. QED BY <1>3, <3>1 DEF InChannel
    <2>3. QED BY <1>1, <1>4, <1>5, <1>8, <2>1, <2>2 DEF ResultInv, Sent
  <1>11. EndInv'
    <2>1. ~closed[j] BY <1>1 DEF PlaceInv
    <2>2. QED BY <1>1, <1>3, <2>1 DEF EndInv, ClipsOf
  <1>12. QED BY <1>6, <1>7, <1>9, <1>10, <1>11
\* ...and out of it, to the clip's entry or to an upload.
LEMMA ReceiveKept ==
  ASSUME Typed, Inv, NEW j \in Jobs, Receive(j)
  PROVE  Inv'
  <1> USE FieldsTyped DEF Fields, Inv
  <1> DEFINE n == Len(rendered[j])
  <1>0. PICK c \in Clips : c = Head(rendered[j])
    <2>1. rendered[j] \in Seq(Clips) /\ rendered[j] # <<>> BY DEF Typed, Receive
    <2>2. QED BY <2>1
  <1>1. /\ run[j] = "collecting" /\ rendered[j] # <<>>
        /\ rendered' = [rendered EXCEPT ![j] = Tail(rendered[j])]
        /\ \/ output' = [output EXCEPT ![c] = "error"] /\ upload' = upload
           \/ upload' = [upload EXCEPT ![c] = "uploading"] /\ output' = output
        /\ UNCHANGED <<run, status, sem, clip, closed>>
    BY <1>0 DEF Receive, renderVars
  <1>2. /\ rendered[j] \in Seq(Clips) /\ rendered \in [Jobs -> Seq(Clips)]
        /\ n \in Nat \ {0}
        /\ DOMAIN rendered[j] = 1 .. n
        /\ c = rendered[j][1] /\ c \in Clips
    BY <1>0, <1>1 DEF Typed
  <1>3. /\ DOMAIN rendered'[j] = 1 .. (n - 1)
        /\ \A i \in 1 .. (n - 1) : rendered'[j][i] = rendered[j][i + 1]
        /\ \A k \in Jobs \ {j} : rendered'[k] = rendered[k]
    BY <1>1, <1>2
  <1>4. /\ jobOf[c] = j /\ clip[c] \in Sent /\ ~Received(c)
        /\ \A i \in 1 .. n : rendered[j][i] = c => i = 1
    <2>1. 1 \in 1 .. n BY <1>2
    <2>2. QED BY <1>2, <2>1 DEF ChannelInv
  <1>5. Received(c)' BY <1>1, <1>2 DEF Received
  <1>6. \A b \in Clips \ {c} : /\ output'[b] = output[b] /\ upload'[b] = upload[b]
                              /\ Received(b)' = Received(b)
    BY <1>1, <1>2 DEF Received
  <1>7. PlaceInv' BY <1>1 DEF PlaceInv
  <1>8. SlotInv' BY <1>1 DEF SlotInv
  <1>9. ChannelInv'
    <2>1. ASSUME NEW k \in Jobs, NEW i \in DOMAIN rendered'[k]
          PROVE  /\ jobOf[rendered'[k][i]] = k
                 /\ clip'[rendered'[k][i]] \in Sent
                 /\ ~(output'[rendered'[k][i]] # "none" \/ upload'[rendered'[k][i]] # "none")
                 /\ \A l \in DOMAIN rendered'[k] : rendered'[k][l] = rendered'[k][i] => l = i
      <3>1. CASE k = j
        <4>1. i \in 1 .. (n - 1) /\ i + 1 \in 1 .. n /\ i \in Int BY <1>2, <1>3, <3>1
        <4>2. rendered'[j][i] = rendered[j][i + 1] BY <1>3, <4>1
        <4>3. rendered[j][i + 1] \in Clips \ {c} BY <1>2, <1>4, <4>1
        <4>4. /\ jobOf[rendered[j][i + 1]] = j
              /\ clip[rendered[j][i + 1]] \in Sent
              /\ ~Received(rendered[j][i + 1])
              /\ \A l \in 1 .. n : rendered[j][l] = rendered[j][i + 1] => l = i + 1
          BY <1>2, <4>1 DEF ChannelInv
        <4>5. ASSUME NEW l \in 1 .. (n - 1), rendered'[j][l] = rendered'[j][i] PROVE l = i
          <5>1. l + 1 \in 1 .. n /\ rendered[j][l + 1] = rendered[j][i + 1]
            BY <1>2, <1>3, <4>2, <4>5
          <5>2. l + 1 = i + 1 BY <4>4, <5>1
          <5>3. QED BY <4>1, <5>2
        <4>6. /\ output'[rendered[j][i + 1]] = output[rendered[j][i + 1]]
              /\ upload'[rendered[j][i + 1]] = upload[rendered[j][i + 1]]
          BY <1>6, <4>3
        <4>7. clip' = clip BY <1>1
        <4>8. QED BY <1>3, <3>1, <4>2, <4>4, <4>5, <4>6, <4>7 DEF Received
      <3>2. CASE k # j
        <4>1. rendered'[k] = rendered[k] /\ rendered[k][i] \in Clips BY <1>2, <1>3, <3>2
        <4>2. /\ jobOf[rendered[k][i]] = k
              /\ clip[rendered[k][i]] \in Sent
              /\ ~Received(rendered[k][i])
              /\ \A l \in DOMAIN rendered[k] : rendered[k][l] = rendered[k][i] => l = i
          BY <4>1 DEF ChannelInv
        <4>3. rendered[k][i] # c BY <1>4, <3>2, <4>2
        <4>4. /\ output'[rendered[k][i]] = output[rendered[k][i]]
              /\ upload'[rendered[k][i]] = upload[rendered[k][i]]
          BY <1>6, <4>1, <4>3
        <4>5. clip' = clip BY <1>1
        <4>6. QED BY <4>1, <4>2, <4>4, <4>5 DEF Received
      <3>3. QED BY <3>1, <3>2
    <2>2. QED BY <2>1 DEF ChannelInv, Received
  <1>10. ResultInv'
    <2>1. ASSUME NEW b \in Clips \ {c}, InChannel(b) PROVE InChannel(b)'
      <3>1. PICK i \in DOMAIN rendered[jobOf[b]] : rendered[jobOf[b]][i] = b
        BY <2>1 DEF InChannel
      <3>2. CASE jobOf[b] = j
        <4>1. i \in 1 .. n /\ rendered[j][i] = b /\ i # 1 BY <1>2, <3>1, <3>2
        <4>2. i - 1 \in 1 .. (n - 1) /\ (i - 1) + 1 = i BY <1>2, <4>1
        <4>3. rendered'[j][i - 1] = b BY <1>3, <4>1, <4>2
        <4>4. QED BY <1>3, <3>2, <4>2, <4>3 DEF InChannel
      <3>3. CASE jobOf[b] # j BY <1>3, <3>1, <3>3 DEF InChannel
      <3>4. QED BY <3>2, <3>3
    <2>2. upload'[c] \in {"removing", "over"} => output'[c] # "none"
      BY <1>1, <1>2, <1>4 DEF Received
    <2>3. clip' = clip BY <1>1
    <2>4. QED BY <1>4, <1>5, <1>6, <2>1, <2>2, <2>3 DEF ResultInv
  <1>11. EndInv'
    <2>1. \A k \in Jobs \ {j} : \A b \in ClipsOf(k) : upload'[b] = upload[b]
      BY <1>4, <1>6 DEF ClipsOf
    <2>2. run' = run /\ status' = status /\ closed' = closed /\ run[j] = "collecting" BY <1>1
    <2>3. QED BY <1>3, <2>1, <2>2 DEF EndInv, ClipsOf
  <1>12. QED BY <1>7, <1>8, <1>9, <1>10, <1>11

\* An upload ends with an entry.
LEMMA UploadKept ==
  ASSUME Typed, Inv, NEW c \in Clips, Upload(c) \/ RemoveOutput(c)
  PROVE  Inv'
  <1> USE FieldsTyped DEF Fields, Inv
  <1>1. /\ upload[c] \in {"uploading", "removing"}
        /\ upload'[c] \in {"removing", "over"} /\ output'[c] # "none"
        /\ \A b \in Clips \ {c} : upload'[b] = upload[b] /\ output'[b] = output[b]
        /\ UNCHANGED <<run, status, sem, clip, closed, rendered>>
    BY DEF Upload, RemoveOutput, renderVars, ResultInv
  <1>2. \A b \in Clips : Received(b)' = Received(b) BY <1>1 DEF Received
  <1>3. PlaceInv' BY <1>1 DEF PlaceInv
  <1>4. SlotInv' BY <1>1 DEF SlotInv
  <1>5. ChannelInv'
    <2>1. \A k \in Jobs : \A i \in DOMAIN rendered[k] : rendered[k][i] \in Clips BY DEF Typed
    <2>2. rendered' = rendered /\ clip' = clip BY <1>1
    <2>3. QED BY <1>2, <2>1, <2>2 DEF ChannelInv, Received
  <1>6. ResultInv' BY <1>1, <1>2 DEF ResultInv, InChannel
  <1>7. EndInv'
    <2>1. \A k \in Jobs : c \in ClipsOf(k) => ~(\A b \in ClipsOf(k) : upload[b] \in {"none", "over"})
      BY <1>1 DEF ClipsOf
    <2>2. UNCHANGED <<run, status, closed, rendered>> BY <1>1
    <2>3. \A k \in Jobs : \A b \in ClipsOf(k) : b # c => upload'[b] = upload[b] BY <1>1 DEF ClipsOf
    <2>4. QED BY <2>1, <2>2, <2>3 DEF EndInv, ClipsOf
  <1>8. QED BY <1>3, <1>4, <1>5, <1>6, <1>7
-----------------------------------------------------------------------------
\* The types and the invariant hold in every behaviour.
THEOREM ClipsInvariant == Spec => [](Typed /\ Inv)
  <1>1. Init => Typed /\ Inv
    <2> SUFFICES ASSUME Init PROVE Typed /\ Inv OBVIOUS
    <2>1. Typed BY ClipsAssumption DEF Init, Typed, RunLabels, ClipLabels
    <2>2. Cardinality(sem) <= MaxWorkers BY FS_EmptySet, ClipsAssumption DEF Init
    <2>3. SlotInv BY <2>2 DEF Init, SlotInv
    <2>4. PlaceInv /\ EndInv BY ClipsAssumption DEF Init, PlaceInv, EndInv
    <2>5. \A j \in Jobs : rendered[j] = <<>> /\ DOMAIN rendered[j] = {} BY DEF Init
    <2>6. ChannelInv BY <2>5 DEF ChannelInv
    <2>7. ResultInv BY DEF Init, ResultInv, Received, Sent
    <2>8. QED BY <2>1, <2>3, <2>4, <2>6, <2>7 DEF Inv
  <1>2. Typed /\ Inv /\ [Next]_vars => Typed' /\ Inv'
    <2> SUFFICES ASSUME Typed, Inv, [Next]_vars PROVE Inv'
      BY TypedKept
    <2>1. CASE UNCHANGED vars
      BY <2>1 DEF vars, Inv, PlaceInv, SlotInv, ChannelInv, ResultInv, EndInv, Received, InChannel,
                  ClipsOf
    <2>2. ASSUME NEW j \in Jobs,
                 Refuse(j) \/ Execute(j) \/ ExecuteSync(j) \/ RunStep(j) \/ Close(j)
          PROVE  Inv'
      BY <2>2, JobsKept, StartKept, ReceiveKept, CloseKept DEF RunStep
    <2>3. ASSUME NEW c \in Clips, TakeSlot(c) \/ ClipStep(c) \/ UploadStep(c)
          PROVE  Inv'
      BY <2>3, SlotsKept, SendKept, UploadKept DEF ClipStep, UploadStep
    <2>4. CASE Dispatch BY <2>4, JobsKept
    <2>5. QED BY <2>1, <2>2, <2>3, <2>4 DEF Next
  <1>3. QED BY <1>1, <1>2, PTL DEF Spec

\* The variables have their types, and the buffer of a job's channel, one place per clip, is
\* never exceeded: no send waits.
THEOREM ClipsTypeCorrect == Spec => []ClipsTypeOK
  <1>1. ASSUME Typed, ChannelInv, NEW j \in Jobs
        PROVE  Len(rendered[j]) <= Cardinality(ClipsOf(j))
    <2> DEFINE n == Len(rendered[j])
    <2>1. n \in Nat /\ DOMAIN rendered[j] = 1 .. n /\ rendered[j] \in [1 .. n -> Clips]
      BY <1>1 DEF Typed
    <2>2. rendered[j] \in [1 .. n -> ClipsOf(j)] BY <1>1, <2>1 DEF ChannelInv, ClipsOf
    <2>3. rendered[j] \in Injection(1 .. n, ClipsOf(j))
      BY <1>1, <2>1, <2>2 DEF ChannelInv, Injection, IsInjective
    <2>4. IsFiniteSet(ClipsOf(j)) BY ClipsAssumption, FS_Subset DEF ClipsOf
    <2>5. Cardinality(1 .. n) <= Cardinality(ClipsOf(j)) BY <2>3, <2>4, FS_Injection
    <2>6. Cardinality(1 .. n) = n BY <2>1, FS_Interval
    <2>7. QED BY <2>5, <2>6
  <1>2. Typed /\ Inv => ClipsTypeOK BY <1>1 DEF Typed, Inv, ClipsTypeOK
  <1>3. QED BY <1>2, ClipsInvariant, PTL

\* Slots are taken and given back once, and no more FFmpeg processes run than there are.
THEOREM ClipSlotsHolds == Spec => []ClipSlots
  <1>1. Typed /\ Inv => ClipSlots BY DEF Typed, Inv, SlotInv, ClipSlots
  <1>2. QED BY <1>1, ClipsInvariant, PTL

\* No send meets a closed channel.
THEOREM ClosedAfterSendsHolds == Spec => []ClosedAfterSends
  <1>1. Inv => ClosedAfterSends BY DEF Inv, PlaceInv, ClosedAfterSends, ClipsOf
  <1>2. QED BY <1>1, ClipsInvariant, PTL

\* The input is released when no clip reads it any more.
THEOREM InputKeptForRendersHolds == Spec => []InputKeptForRenders
  <1>1. Inv => InputKeptForRenders BY DEF Inv, PlaceInv, EndInv, InputKeptForRenders, ClipsOf
  <1>2. QED BY <1>1, ClipsInvariant, PTL

\* A job that is done has a link or an error for each clip.
THEOREM OutputsCompleteHolds == Spec => []OutputsComplete
  <1>1. ASSUME Typed, Inv PROVE OutputsComplete
    <2> SUFFICES ASSUME NEW j \in Jobs, run[j] \in {"ending", "returned", "told"},
                        status[j] = "done", NEW c \in ClipsOf(j)
                 PROVE  output[c] # "none" /\ upload[c] \in {"none", "over"}
      BY DEF OutputsComplete
    <2>1. c \in Clips /\ jobOf[c] = j BY DEF ClipsOf
    <2>2. closed[j] /\ rendered[j] = <<>> /\ upload[c] \in {"none", "over"}
      BY <1>1 DEF Inv, EndInv
    <2>3. clip[c] \in Sent BY <1>1, <2>1, <2>2 DEF Inv, PlaceInv, Sent
    <2>4. ~InChannel(c) BY <2>1, <2>2 DEF InChannel
    <2>5. Received(c) BY <1>1, <2>1, <2>3, <2>4 DEF Inv, ResultInv
    <2>6. upload[c] = "over" => output[c] # "none" BY <1>1, <2>1 DEF Inv, ResultInv
    <2>7. QED BY <2>2, <2>5, <2>6 DEF Received
  <1>2. QED BY <1>1, ClipsInvariant, PTL
=============================================================================

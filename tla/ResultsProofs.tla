---------------------------- MODULE ResultsProofs ----------------------------
(***************************************************************************)
(* Proofs of the safety properties of Results, for any jobs, any requests  *)
(* and any number of attempts.                                             *)
(*                                                                         *)
(* The webhook's variables are changed by Delivery's operators only, so    *)
(* they have an invariant of their own, AckInv.  That of the files and the *)
(* objects, StoreInv, says whose each of them is; it is kept by a step of  *)
(* one job because such a step touches the disk at the job's own path only,*)
(* and only if no other job has a file there (OwnTouched).                 *)
(***************************************************************************)
EXTENDS Results, TLAPS

-----------------------------------------------------------------------------
(* Delivery. *)

\* An attempt is counted as soon as Send has begun, and the sender hears of an acceptance
\* only after the client has accepted.
AckInv ==
  \A j \in Jobs :
    /\ sender[j] # "idle" => attempt[j] >= 1
    /\ answer[j] = "accepted" => received[j] = "accepted"
    /\ sender[j] = "delivered" => received[j] = "accepted"

DeliveryStep ==
  \E j \in Jobs : \/ Send(j) \/ Post(j) \/ PostOk(j) \/ PostFail(j)
                  \/ \E k \in Attempts : Take(j, k) \/ Lose(j, k)

\* A step of the sender, the network or the client keeps Delivery's types and AckInv.
LEMMA DeliveryKept ==
  ASSUME DeliveryTypeOK, AckInv, DeliveryStep
  PROVE  DeliveryTypeOK' /\ AckInv'
  <1> USE ResultsAssumption DEF DeliveryTypeOK, AckInv, SenderGoto, Attempts
  <1>1. CASE \E j \in Jobs : Send(j) BY <1>1 DEF Send
  <1>2. CASE \E j \in Jobs : Post(j)
    <2>1. PICK j \in Jobs : Post(j) BY <1>2
    <2>2. attempt[j] \in Attempts BY <2>1 DEF Post
    <2>3. wire' \in [Jobs -> SUBSET Attempts] BY <2>1, <2>2 DEF Post
    <2>4. QED BY <2>1, <2>3 DEF Post
  <1>3. CASE \E j \in Jobs : PostOk(j) BY <1>3 DEF PostOk
  <1>4. CASE \E j \in Jobs : PostFail(j) BY <1>4 DEF PostFail
  <1>5. CASE \E j \in Jobs, k \in Attempts : Take(j, k)
    <2>1. PICK j \in Jobs, k \in Attempts : Take(j, k) BY <1>5
    <2>2. wire' \in [Jobs -> SUBSET Attempts] BY <2>1 DEF Take
    <2>3. QED BY <2>1, <2>2 DEF Take
  <1>6. CASE \E j \in Jobs, k \in Attempts : Lose(j, k)
    <2>1. PICK j \in Jobs, k \in Attempts : Lose(j, k) BY <1>6
    <2>2. wire' \in [Jobs -> SUBSET Attempts] BY <2>1 DEF Lose
    <2>3. QED BY <2>1, <2>2 DEF Lose
  <1>7. QED BY <1>1, <1>2, <1>3, <1>4, <1>5, <1>6 DEF DeliveryStep

\* In every behaviour, Delivery's variables have their types and AckInv holds.
THEOREM DeliveryKnown == Spec => [](DeliveryTypeOK /\ AckInv)
  <1>1. Init => DeliveryTypeOK /\ AckInv
    BY ResultsAssumption DEF Init, DeliveryInit, DeliveryTypeOK, AckInv, Attempts
  <1>2. DeliveryTypeOK /\ AckInv /\ [Next]_vars => DeliveryTypeOK' /\ AckInv'
    <2> SUFFICES ASSUME DeliveryTypeOK, AckInv, [Next]_vars PROVE DeliveryTypeOK' /\ AckInv'
      OBVIOUS
    <2>1. CASE DeliveryStep BY <2>1, DeliveryKept
    <2>2. CASE UNCHANGED deliveryVars
      BY <2>2 DEF deliveryVars, DeliveryTypeOK, AckInv
    <2>3. CASE Crash
      <3>1. sender' \in [Jobs -> {"idle", "waiting", "posting", "delivered", "gaveup", "lost"}]
        BY <2>3 DEF Crash, DeliveryTypeOK
      <3>2. attempt' = attempt /\ wire' = wire /\ answer' = answer /\ received' = received
        BY <2>3 DEF Crash
      <3>3. ASSUME NEW j \in Jobs
            PROVE  sender'[j] = sender[j] \/ (sender'[j] = "lost" /\ sender[j] # "idle")
        BY <2>3 DEF Crash, DeliveryTypeOK
      <3>4. DeliveryTypeOK' BY <3>1, <3>2 DEF DeliveryTypeOK, Attempts
      <3>5. AckInv' BY <3>2, <3>3 DEF AckInv
      <3>6. QED BY <3>4, <3>5
    <2>4. DeliveryStep \/ UNCHANGED deliveryVars \/ Crash
      <3>1. CASE UNCHANGED vars BY <3>1 DEF vars, deliveryVars
      <3>2. CASE TokenExpires BY <3>2 DEF TokenExpires, deliveryVars
      <3>3. ASSUME NEW j \in Jobs, Begin(j) PROVE UNCHANGED deliveryVars
        BY <3>3 DEF Begin, deliveryVars
      <3>4. ASSUME NEW j \in Jobs, Network(j) PROVE DeliveryStep
        BY <3>4 DEF Network, DeliveryStep
      <3>5. ASSUME NEW j \in Jobs, JobStep(j) PROVE DeliveryStep \/ UNCHANGED deliveryVars
        <4>1. CASE SendWebhook(j) \/ SenderStep(j)
          BY <4>1 DEF SendWebhook, SenderStep, DeliveryStep
        <4>2. CASE ~(SendWebhook(j) \/ SenderStep(j))
          BY <3>5, <4>2 DEF JobStep, RenderStart, RenderFail, RenderEnd, CheckOutput, Receive,
             ReceiveFail, UploadLocal, TokenCached, TokenMiss, TokenFetched, TokenRefused, Open,
             Store, PostObjectFail, StoreAnswered, RemoveOutput, Return, Reply, deliveryVars
        <4>3. QED BY <4>1, <4>2
      <3>6. QED BY <3>1, <3>2, <3>3, <3>4, <3>5 DEF Next
    <2>5. QED BY <2>1, <2>2, <2>3, <2>4
  <1>3. QED BY <1>1, <1>2, PTL DEF Spec

\* Send reports success only if the client has accepted a request.
THEOREM AcksAccepted == Spec => []AckMeansAccepted
  <1>1. AckInv => AckMeansAccepted BY DEF AckInv, AckMeansAccepted
  <1>2. QED BY <1>1, DeliveryKnown, PTL
-----------------------------------------------------------------------------
(* Types, and the token. *)

\* ResultsTypeOK without Delivery's part, and with the variables it does not speak of.
Typed ==
  /\ at \in [Jobs -> Labels]
  /\ result \in [Jobs -> {"none", "done", "failed"}]
  /\ \A p \in DOMAIN disk : disk[p] \in Contents
  /\ kept \subseteq Jobs
  /\ \A name \in DOMAIN bucket : bucket[name] \in Contents
  /\ opened \in [Jobs -> Contents \cup {Nothing}]
  /\ mu \in Jobs \cup {Nothing}
  /\ mu # Nothing => at[mu] = "fetching" /\ ~token
  /\ \A j \in Jobs : at[j] = "posting" => opened[j] # Nothing
  /\ storage \in {"local", "gcs"}
  /\ path = [j \in Jobs |-> path[j]]

\* A step that touches the disk does so at the path of its job.
DiskStep(j) ==
  /\ \A p \in DOMAIN disk' :
       disk'[p] \in Contents /\ (p # path[j] => p \in DOMAIN disk /\ disk'[p] = disk[p])
  /\ \A p \in DOMAIN disk : p # path[j] => p \in DOMAIN disk'
  /\ path[j] \in DOMAIN disk' =>
       \/ disk'[path[j]].by = j
       \/ path[j] \in DOMAIN disk /\ disk'[path[j]] = disk[path[j]]

\* A job writes at its path (With).
LEMMA Writes ==
  ASSUME Typed, NEW j \in Jobs, NEW part \in {"partial", "empty", "whole"},
         disk' = With(disk, path[j], [by |-> j, part |-> part])
  PROVE  /\ DiskStep(j)
         /\ path[j] \in DOMAIN disk'
         /\ disk'[path[j]] = [by |-> j, part |-> part]
  <1>1. [by |-> j, part |-> part] \in Contents BY DEF Contents
  <1>2. QED BY <1>1 DEF Typed, With, DiskStep

\* A job removes what is at its path (Without).
LEMMA Removal ==
  ASSUME Typed, NEW j \in Jobs, disk' = Without(disk, path[j])
  PROVE  DiskStep(j) /\ path[j] \notin DOMAIN disk'
  BY DEF Typed, Without, DiskStep

\* A step may leave the disk alone.
LEMMA DiskLeft ==
  ASSUME Typed, NEW j \in Jobs, disk' = disk
  PROVE  DiskStep(j)
  BY DEF Typed, DiskStep

\* What each step does to the disk.
LEMMA DiskSteps ==
  ASSUME Typed, NEW j \in Jobs, Begin(j) \/ JobStep(j)
  PROVE  DiskStep(j)
  <1>1. CASE disk' = disk BY <1>1, DiskLeft
  <1>2. CASE disk' = Without(disk, path[j]) BY <1>2, Removal
  <1>3. CASE \E part \in {"partial", "empty", "whole"} :
               disk' = With(disk, path[j], [by |-> j, part |-> part])
    BY <1>3, Writes
  <1>4. CASE RenderStart(j) \/ RenderEnd(j) \/ Receive(j) \/ ReceiveFail(j)
    BY <1>1, <1>3, <1>4 DEF RenderStart, RenderEnd, Receive, ReceiveFail
  <1>5. CASE RemoveOutput(j) \/ Return(j)
    BY <1>1, <1>2, <1>5 DEF RemoveOutput, Return, RemoveFile
  <1>6. CASE ~(\/ RenderStart(j) \/ RenderEnd(j) \/ Receive(j) \/ ReceiveFail(j)
               \/ RemoveOutput(j) \/ Return(j))
    BY <1>1, <1>6 DEF Begin, JobStep, RenderFail, CheckOutput, UploadLocal, TokenCached, TokenMiss,
       TokenFetched, TokenRefused, Open, Store, PostObjectFail, StoreAnswered, Reply, SendWebhook,
       SenderStep
  <1>7. QED BY <1>4, <1>5, <1>6

\* The steps of a job keep the types, and the mutex with who fetches a token.
LEMMA TypedKept ==
  ASSUME Typed, NEW j \in Jobs, Begin(j) \/ JobStep(j)
  PROVE  Typed'
  <1>0. \A p \in DOMAIN disk' : disk'[p] \in Contents BY DiskSteps DEF DiskStep
  <1> USE <1>0 DEF Typed, Labels
  <1>1. CASE Begin(j) BY <1>1 DEF Begin, Goto
  <1>2. CASE RenderStart(j) BY <1>2 DEF RenderStart, Goto, store
  <1>3. CASE RenderFail(j) BY <1>3 DEF RenderFail, store
  <1>4. CASE RenderEnd(j) BY <1>4 DEF RenderEnd, Goto, store
  <1>5. CASE CheckOutput(j) BY <1>5 DEF CheckOutput, Goto, store
  <1>6. CASE Receive(j) BY <1>6 DEF Receive, Goto, store
  <1>7. CASE ReceiveFail(j) BY <1>7 DEF ReceiveFail, Goto, store
  <1>8. CASE UploadLocal(j) BY <1>8 DEF UploadLocal, Goto, store
  <1>9. CASE TokenCached(j) BY <1>9 DEF TokenCached, Goto, store
  <1>10. CASE TokenMiss(j) BY <1>10 DEF TokenMiss, Goto
  <1>11. CASE TokenFetched(j) BY <1>11 DEF TokenFetched, Goto
  <1>12. CASE TokenRefused(j) BY <1>12 DEF TokenRefused, Goto
  <1>13. CASE Open(j)
    <2>1. File(j) \in Contents \cup {Nothing} BY DEF File, Get
    <2>2. QED BY <1>13, <2>1 DEF Open, Goto
  <1>14. CASE Store(j)
    <2>1. opened[j] \in Contents BY <1>14 DEF Store, Goto
    <2>2. \A name \in DOMAIN bucket' : bucket'[name] \in Contents
      BY <1>14, <2>1 DEF Store, With
    <2>3. QED BY <1>14, <2>2 DEF Store, Goto
  <1>15. CASE PostObjectFail(j) BY <1>15 DEF PostObjectFail, store
  <1>16. CASE StoreAnswered(j) BY <1>16 DEF StoreAnswered, Goto, store
  <1>17. CASE RemoveOutput(j) BY <1>17 DEF RemoveOutput, RemoveFile, Goto, store
  <1>18. CASE Return(j) BY <1>18 DEF Return, RemoveFile, store
  <1>19. CASE Reply(j) BY <1>19 DEF Reply, store
  <1>20. CASE SendWebhook(j) BY <1>20 DEF SendWebhook, store
  <1>21. CASE SenderStep(j) BY <1>21 DEF SenderStep, store
  <1>22. QED
    BY <1>1, <1>2, <1>3, <1>4, <1>5, <1>6, <1>7, <1>8, <1>9, <1>10, <1>11, <1>12, <1>13, <1>14,
       <1>15, <1>16, <1>17, <1>18, <1>19, <1>20, <1>21 DEF JobStep
-----------------------------------------------------------------------------
(* What is known of the files, the objects and the results. *)

PathInv == \A j \in Jobs : at[j] # "new" => path[j] = PathOf(j)

\* Whose a file is, is known from its path.
FileInv == \A p \in DOMAIN disk : at[disk[p].by] # "new" /\ path[disk[p].by] = p

\* The jobs whose file is there: those which have not yet done with it, and those whose
\* link is the path of a file that nobody removes.
Holding(j) ==
  \/ at[j] \in {"rendering", "rendered", "uploading", "fetching", "opening", "posting",
                "stored", "uploaded"}
  \/ storage = "local" /\ ~Dangling(j) /\ (at[j] = "done" \/ result[j] = "done")

Good(content) == content.part # "partial" /\ (content.part = "whole" \/ ~ChecksOutput(content.by))

OwnInv ==
  \A j \in Jobs : Holding(j) =>
    /\ path[j] \in DOMAIN disk
    /\ disk[path[j]].by = j
    /\ at[j] # "rendering" => disk[path[j]].part # "partial"
    /\ at[j] \notin {"rendering", "rendered"} => Good(disk[path[j]])

\* What an upload reads is read once, and is the job's own.
OpenInv ==
  \A j \in Jobs : opened[j] # Nothing =>
    /\ opened[j].by = j
    /\ Good(opened[j])
    /\ at[j] \notin {"new", "begun", "rendering", "rendered", "uploading", "fetching", "opening"}

\* An object is what some upload has read, and none is removed.
BucketInv ==
  /\ \A name \in DOMAIN bucket : opened[bucket[name].by] = bucket[name]
  /\ \A j \in Jobs :
       /\ at[j] \in {"fetching", "opening", "posting", "stored"} => storage = "gcs"
       /\ storage = "gcs" /\ (at[j] \in {"stored", "uploaded", "done"} \/ result[j] = "done")
            => path[j].name \in DOMAIN bucket

ResultInv ==
  \A j \in Jobs :
    /\ result[j] # "none" => at[j] \in {"answering", "told", "untold", "lost"}
    /\ at[j] \in {"answering", "told", "untold"} => result[j] # "none"

\* What the system has not refused to remove is removed.
CleanInv ==
  \A p \in DOMAIN disk :
    LET j == disk[p].by
    IN  j \notin kept =>
        /\ at[j] \in {"answering", "told", "untold"} => Rendered(j)
        /\ storage = "gcs" /\ Rendered(j) => at[j] # "done" /\ result[j] # "done"

StoreInv == PathInv /\ FileInv /\ OwnInv /\ OpenInv /\ BucketInv /\ ResultInv /\ CleanInv
-----------------------------------------------------------------------------
(* The steps of a job keep it. *)

\* Nothing but Begin and the sender can be a step of a job that has not begun.
LEMMA BegunFirst ==
  ASSUME NEW j \in Jobs, JobStep(j)
  PROVE  at[j] # "new" \/ (at' = at /\ disk' = disk /\ path' = path /\ result' = result)
  BY DEF JobStep, RenderStart, RenderEnd, RenderFail, CheckOutput, Receive, ReceiveFail,
     UploadLocal, TokenCached, TokenMiss, TokenFetched, TokenRefused, Open, Store, PostObjectFail,
     StoreAnswered, RemoveOutput, Return, Reply, SendWebhook, SenderStep, Goto, store

\* A step of one job leaves the places, results and paths of the others alone.
LEMMA OthersStay ==
  ASSUME Typed, NEW j \in Jobs, Begin(j) \/ JobStep(j)
  PROVE  /\ storage' = storage /\ req' = req
         /\ \A k \in Jobs \ {j} : /\ at'[k] = at[k]
                                 /\ result'[k] = result[k]
                                 /\ path'[k] = path[k]
                                 /\ opened'[k] = opened[k]
         /\ at[j] # "new" => at'[j] # "new"
         /\ JobStep(j) => path' = path
  <1> USE DEF Typed, Goto, store
  <1>1. CASE Begin(j) 
    <2>1. UNCHANGED <<storage, req, result, opened>> /\ at[j] = "new" /\ at' = [at EXCEPT ![j] = "begun"]
      BY <1>1 DEF Begin
    <2>2. ~JobStep(j) \/ at' = at BY <2>1, BegunFirst
    <2>3. at' # at BY <2>1
    <2>4. QED BY <1>1, <2>1, <2>2, <2>3 DEF Begin
  <1>2. CASE RenderStart(j) \/ RenderFail(j) \/ RenderEnd(j) \/ CheckOutput(j)
    BY <1>2 DEF RenderStart, RenderFail, RenderEnd, CheckOutput
  <1>3. CASE Receive(j) \/ ReceiveFail(j) \/ UploadLocal(j) BY <1>3 DEF Receive, ReceiveFail, UploadLocal
  <1>4. CASE TokenCached(j) \/ TokenMiss(j) \/ TokenFetched(j) \/ TokenRefused(j)
    BY <1>4 DEF TokenCached, TokenMiss, TokenFetched, TokenRefused
  <1>5. CASE Open(j) \/ Store(j) \/ PostObjectFail(j) \/ StoreAnswered(j)
    BY <1>5 DEF Open, Store, PostObjectFail, StoreAnswered
  <1>6. CASE RemoveOutput(j) \/ Return(j) \/ Reply(j)
    BY <1>6 DEF RemoveOutput, RemoveFile, Return, Reply
  <1>7. CASE SendWebhook(j) \/ SenderStep(j) BY <1>7 DEF SendWebhook, SenderStep
  <1>8. QED BY <1>1, <1>2, <1>3, <1>4, <1>5, <1>6, <1>7 DEF JobStep

\* An upload's path is no other job's: its directory is its own.
LEMMA UploadsApart ==
  ASSUME PathInv, NEW j \in Jobs, NEW k \in Jobs, at[j] # "new", at[k] # "new",
         ~Rendered(j), path[j] = path[k]
  PROVE  j = k
  <1>0. ASSUME NEW i \in Jobs
        PROVE  PathOf(i).dir = IF req[i].useCase = "upload" THEN i ELSE "outputs"
    <2> DEFINE name == FileName(i)
    <2> HIDE DEF name
    <2>1. PathOf(i) = [dir |-> IF req[i].useCase = "upload" THEN i ELSE "outputs", name |-> name]
      BY DEF PathOf, name
    <2>2. QED BY <2>1
  <1>1. path[j].dir = j BY <1>0 DEF PathInv, Rendered
  <1>2. path[k].dir = k \/ path[k].dir = "outputs" BY <1>0 DEF PathInv
  <1>3. QED BY <1>1, <1>2, ResultsAssumption

\* A job touches no other's file.
LEMMA OwnTouched ==
  ASSUME Typed, StoreInv, NEW j \in Jobs, JobStep(j), disk' # disk,
         path[j] \in DOMAIN disk
  PROVE  disk[path[j]].by = j
  <1> DEFINE k == disk[path[j]].by
  <1>1. k \in Jobs BY DEF Typed, Contents
  <1>2. CASE RenderStart(j)
    <2>1. disk[path[j]] = Nothing BY <1>2 DEF RenderStart, File, Get
    <2>2. QED BY <2>1, ResultsAssumption DEF Typed, Contents
  <1>3. CASE RenderEnd(j)
    BY <1>3 DEF RenderEnd, Goto, StoreInv, OwnInv, Holding
  <1>4. CASE RemoveOutput(j)
    BY <1>4 DEF RemoveOutput, RemoveFile, Goto, StoreInv, OwnInv, Holding
  <1>5. CASE Receive(j) \/ ReceiveFail(j) \/ Return(j)
    <2>1. at[j] # "new" /\ ~Rendered(j) BY <1>5 DEF Receive, ReceiveFail, Return, Goto
    <2>2. at[k] # "new" /\ path[k] = path[j] BY DEF StoreInv, FileInv
    <2>3. QED BY <1>1, <2>1, <2>2, UploadsApart DEF StoreInv
  <1>6. QED
    BY <1>2, <1>3, <1>4, <1>5 DEF JobStep, RenderFail, CheckOutput, UploadLocal, TokenCached,
       TokenMiss, TokenFetched, TokenRefused, Open, Store, PostObjectFail, StoreAnswered, Reply,
       SendWebhook, SenderStep

\* A job keeps the path it began with.
LEMMA PathKept ==
  ASSUME Typed, PathInv, NEW j \in Jobs, Begin(j) \/ JobStep(j)
  PROVE  PathInv'
  <1>1. ASSUME NEW k \in Jobs PROVE PathOf(k)' = PathOf(k)
    BY OthersStay DEF PathOf, FileName
  <1>2. CASE Begin(j) BY <1>1, <1>2, OthersStay DEF PathInv, Begin, Typed
  <1>3. CASE JobStep(j)
    <2>1. at[j] # "new" \/ at'[j] = "new" BY <1>3, BegunFirst
    <2>2. QED BY <1>1, <1>3, <2>1, OthersStay DEF PathInv
  <1>4. QED BY <1>2, <1>3

\* Files stay at the paths of those whose they are.
LEMMA FileKept ==
  ASSUME Typed, StoreInv, NEW j \in Jobs, Begin(j) \/ JobStep(j)
  PROVE  FileInv'
  <1> USE DEF StoreInv, FileInv
  <1>1. CASE disk' = disk
    <2>1. CASE Begin(j)
      <3>1. at[j] = "new" /\ at'[j] = "begun" BY <2>1 DEF Begin, Goto, Typed
      <3>2. QED BY <1>1, <3>1, OthersStay DEF Typed, Contents
    <2>2. CASE JobStep(j) BY <1>1, <2>2, OthersStay DEF Typed, Contents
    <2>3. QED BY <2>1, <2>2
  <1>2. CASE disk' # disk
    <2>1. JobStep(j) BY <1>2 DEF Begin
    <2>2. at[j] # "new"
      BY <1>2, <2>1, BegunFirst
    <2>3. QED BY <2>1, <2>2, DiskSteps, OthersStay DEF DiskStep, Typed, Contents
  <1>3. QED BY <1>1, <1>2

\* A result is there when the run has returned, and not before.
LEMMA ResultKept ==
  ASSUME Typed, ResultInv, NEW j \in Jobs, Begin(j) \/ JobStep(j)
  PROVE  ResultInv'
  <1> USE DEF Typed, ResultInv, Goto, store
  <1>1. CASE Begin(j) BY <1>1 DEF Begin
  <1>2. CASE RenderStart(j) \/ RenderFail(j) \/ RenderEnd(j) \/ CheckOutput(j)
    BY <1>2 DEF RenderStart, RenderFail, RenderEnd, CheckOutput
  <1>3. CASE Receive(j) \/ ReceiveFail(j) \/ UploadLocal(j) BY <1>3 DEF Receive, ReceiveFail, UploadLocal
  <1>4. CASE TokenCached(j) \/ TokenMiss(j) \/ TokenFetched(j) \/ TokenRefused(j)
    BY <1>4 DEF TokenCached, TokenMiss, TokenFetched, TokenRefused
  <1>5. CASE Open(j) \/ Store(j) \/ PostObjectFail(j) \/ StoreAnswered(j)
    BY <1>5 DEF Open, Store, PostObjectFail, StoreAnswered
  <1>6. CASE RemoveOutput(j) \/ Return(j) \/ Reply(j) BY <1>6 DEF RemoveOutput, Return, Reply
  <1>7. CASE SendWebhook(j) \/ SenderStep(j) BY <1>7 DEF SendWebhook, SenderStep
  <1>8. QED BY <1>1, <1>2, <1>3, <1>4, <1>5, <1>6, <1>7 DEF JobStep
\* What another job holds is left as it is.
LEMMA OthersHold ==
  ASSUME Typed, StoreInv, NEW j \in Jobs, Begin(j) \/ JobStep(j), NEW k \in Jobs \ {j},
         path[k] \in DOMAIN disk, disk[path[k]].by = k
  PROVE  path'[k] \in DOMAIN disk' /\ disk'[path'[k]] = disk[path[k]]
  <1>1. path'[k] = path[k] BY OthersStay
  <1>2. CASE disk' = disk BY <1>1, <1>2
  <1>3. CASE disk' # disk
    <2>1. JobStep(j) BY <1>3 DEF Begin
    <2>2. path[k] # path[j] BY <1>3, <2>1, OwnTouched
    <2>3. QED BY <1>1, <2>2, DiskSteps DEF DiskStep
  <1>4. QED BY <1>2, <1>3

\* A job's file is there for as long as the job, or its link, needs it.
LEMMA OwnKept ==
  ASSUME Typed, StoreInv, NEW j \in Jobs, Begin(j) \/ JobStep(j)
  PROVE  OwnInv'
  <1> DEFINE Own(k) == Holding(k) =>
                         /\ path[k] \in DOMAIN disk
                         /\ disk[path[k]].by = k
                         /\ at[k] # "rendering" => disk[path[k]].part # "partial"
                         /\ at[k] \notin {"rendering", "rendered"} => Good(disk[path[k]])
  <1>1. ASSUME NEW k \in Jobs \ {j} PROVE Own(k)'
    <2>1. Holding(k)' => Holding(k) BY OthersStay DEF Holding, Dangling
    <2>2. CASE Holding(k)
      <3>1. path[k] \in DOMAIN disk /\ disk[path[k]].by = k BY <2>2 DEF StoreInv, OwnInv
      <3>2. path'[k] \in DOMAIN disk' /\ disk'[path'[k]] = disk[path[k]] BY <3>1, OthersHold
      <3>3. at'[k] = at[k] /\ req' = req BY OthersStay
      <3>4. QED BY <2>2, <3>1, <3>2, <3>3 DEF StoreInv, OwnInv, Good, ChecksOutput
    <2>3. QED BY <2>1, <2>2
  <1>2. Own(j)'
    <2> USE DEF StoreInv, ResultInv, Holding, Dangling, Typed, Goto, store, OwnInv, Good,
       ChecksOutput
    <2>1. CASE Begin(j) BY <2>1 DEF Begin
    <2>2. CASE RenderStart(j)
      <3>1. /\ path[j] \in DOMAIN disk'
            /\ disk'[path[j]] = [by |-> j, part |-> "partial"]
        BY <2>2, Writes DEF RenderStart
      <3>2. at'[j] = "rendering" /\ path' = path BY <2>2 DEF RenderStart
      <3>3. QED BY <3>1, <3>2
    <2>3. CASE RenderEnd(j)
      <3>1. PICK part \in {"empty", "whole"} : disk' = With(disk, path[j], [by |-> j, part |-> part])
        BY <2>3 DEF RenderEnd
      <3>2. /\ path[j] \in DOMAIN disk'
            /\ disk'[path[j]] = [by |-> j, part |-> part]
        BY <3>1, Writes
      <3>3. at'[j] = "rendered" /\ path' = path BY <2>3 DEF RenderEnd
      <3>4. QED BY <3>2, <3>3
    <2>4. CASE CheckOutput(j)
      <3>1. path[j] \in DOMAIN disk /\ disk[path[j]].by = j /\ disk[path[j]].part # "partial"
        BY <2>4 DEF CheckOutput
      <3>2. disk[path[j]].part \in {"partial", "empty", "whole"} BY <3>1 DEF Contents
      <3>3. QED BY <2>4, <3>1, <3>2 DEF CheckOutput, File, Get
    <2>5. CASE Receive(j)
      <3>1. /\ path[j] \in DOMAIN disk'
            /\ disk'[path[j]] = [by |-> j, part |-> "whole"]
        BY <2>5, Writes DEF Receive
      <3>2. at'[j] = "uploading" /\ path' = path BY <2>5 DEF Receive
      <3>3. QED BY <3>1, <3>2
    <2>6. CASE ReceiveFail(j) \/ RenderFail(j) BY <2>6 DEF ReceiveFail, RenderFail
    <2>7. CASE UploadLocal(j) BY <2>7 DEF UploadLocal
    <2>8. CASE TokenCached(j) \/ TokenMiss(j) \/ TokenFetched(j) \/ TokenRefused(j)
      BY <2>8 DEF TokenCached, TokenMiss, TokenFetched, TokenRefused
    <2>9. CASE Open(j) \/ Store(j) \/ PostObjectFail(j) \/ StoreAnswered(j)
      BY <2>9 DEF Open, Store, PostObjectFail, StoreAnswered
    <2>10. CASE RemoveOutput(j)
      <3>1. Holding(j) /\ at'[j] = "done" /\ result'[j] = "none" BY <2>10 DEF RemoveOutput
      <3>2. Holding(j)' => disk' = disk BY <2>10, <3>1 DEF RemoveOutput, Removes
      <3>3. QED BY <2>10, <3>1, <3>2 DEF RemoveOutput
    <2>11. CASE Return(j) BY <2>11 DEF Return, Rendered
    <2>12. CASE Reply(j) BY <2>12 DEF Reply
    <2>13. CASE SendWebhook(j) \/ SenderStep(j) BY <2>13 DEF SendWebhook, SenderStep
    <2>14. QED
      BY <2>1, <2>2, <2>3, <2>4, <2>5, <2>6, <2>7, <2>8, <2>9, <2>10, <2>11, <2>12, <2>13
      DEF JobStep
  <1>3. QED BY <1>1, <1>2 DEF OwnInv
\* What an upload has read stays complete and its own.
LEMMA OpenKept ==
  ASSUME Typed, StoreInv, NEW j \in Jobs, Begin(j) \/ JobStep(j)
  PROVE  OpenInv'
  <1> USE DEF StoreInv, OpenInv, Typed, Goto, store, Good, ChecksOutput
  <1>1. CASE Begin(j) BY <1>1 DEF Begin
  <1>2. CASE RenderStart(j) \/ RenderFail(j) \/ RenderEnd(j) \/ CheckOutput(j)
    BY <1>2 DEF RenderStart, RenderFail, RenderEnd, CheckOutput
  <1>3. CASE Receive(j) \/ ReceiveFail(j) \/ UploadLocal(j)
    BY <1>3 DEF Receive, ReceiveFail, UploadLocal
  <1>4. CASE TokenCached(j) \/ TokenMiss(j) \/ TokenFetched(j) \/ TokenRefused(j)
    BY <1>4 DEF TokenCached, TokenMiss, TokenFetched, TokenRefused
  <1>5. CASE Open(j)
    <2>1. /\ path[j] \in DOMAIN disk
          /\ disk[path[j]].by = j
          /\ Good(disk[path[j]])
      BY <1>5 DEF Open, OwnInv, Holding
    <2>2. File(j) = disk[path[j]] /\ File(j) \in Contents BY <2>1 DEF File, Get
    <2>3. at'[j] = "posting" BY <1>5, <2>2, ResultsAssumption DEF Open, Contents
    <2>4. opened' = [opened EXCEPT ![j] = disk[path[j]]] /\ req' = req BY <1>5, <2>2 DEF Open
    <2>5. \A k \in Jobs \ {j} : at'[k] = at[k] BY <1>5 DEF Open
    <2>6. QED BY <2>1, <2>3, <2>4, <2>5
  <1>6. CASE Store(j) \/ PostObjectFail(j) \/ StoreAnswered(j)
    BY <1>6 DEF Store, PostObjectFail, StoreAnswered
  <1>7. CASE RemoveOutput(j) \/ Return(j) \/ Reply(j) BY <1>7 DEF RemoveOutput, Return, Reply
  <1>8. CASE SendWebhook(j) \/ SenderStep(j) BY <1>8 DEF SendWebhook, SenderStep
  <1>9. QED BY <1>1, <1>2, <1>3, <1>4, <1>5, <1>6, <1>7, <1>8 DEF JobStep

\* Objects are what uploads have read, and those of the jobs done are there.
LEMMA BucketKept ==
  ASSUME Typed, StoreInv, NEW j \in Jobs, Begin(j) \/ JobStep(j)
  PROVE  BucketInv'
  <1> USE DEF StoreInv, BucketInv, Typed, Goto, store
  <1>1. CASE Begin(j) BY <1>1 DEF Begin, ResultInv
  <1>2. CASE RenderStart(j) \/ RenderFail(j) \/ RenderEnd(j) \/ CheckOutput(j)
    BY <1>2 DEF RenderStart, RenderFail, RenderEnd, CheckOutput
  <1>3. CASE Receive(j) \/ ReceiveFail(j) \/ UploadLocal(j)
    BY <1>3 DEF Receive, ReceiveFail, UploadLocal
  <1>4. CASE TokenCached(j) \/ TokenMiss(j) \/ TokenFetched(j) \/ TokenRefused(j)
    BY <1>4 DEF TokenCached, TokenMiss, TokenFetched, TokenRefused
  <1>5. CASE Open(j)
    <2>1. at[j] = "opening" /\ bucket' = bucket /\ \A k \in Jobs \ {j} : opened'[k] = opened[k]
      BY <1>5 DEF Open
    <2>2. ASSUME NEW name \in DOMAIN bucket PROVE bucket[name].by \in Jobs \ {j}
      <3>1. bucket[name] # Nothing /\ bucket[name].by \in Jobs BY ResultsAssumption DEF Contents
      <3>2. QED BY <2>1, <3>1 DEF OpenInv
    <2>3. QED BY <1>5, <2>1, <2>2 DEF Open
  <1>6. CASE Store(j)
    <2>1. at[j] = "posting" /\ opened' = opened /\ opened[j].by = j
      BY <1>6 DEF Store, OpenInv
    <2>2. /\ DOMAIN bucket' = DOMAIN bucket \cup {path[j].name}
          /\ bucket'[path[j].name] = opened[j]
          /\ \A name \in DOMAIN bucket : name # path[j].name => bucket'[name] = bucket[name]
      BY <1>6 DEF Store, With
    <2>3. \A name \in DOMAIN bucket' : opened'[bucket'[name].by] = bucket'[name]
      BY <2>1, <2>2
    <2>4. QED BY <1>6, <2>2, <2>3 DEF Store
  <1>7. CASE PostObjectFail(j) \/ StoreAnswered(j) BY <1>7 DEF PostObjectFail, StoreAnswered
  <1>8. CASE RemoveOutput(j) \/ Return(j) \/ Reply(j) BY <1>8 DEF RemoveOutput, Return, Reply
  <1>9. CASE SendWebhook(j) \/ SenderStep(j) BY <1>9 DEF SendWebhook, SenderStep
  <1>10. QED BY <1>1, <1>2, <1>3, <1>4, <1>5, <1>6, <1>7, <1>8, <1>9 DEF JobStep

\* A job's step does not touch what is known of another's removal.
LEMMA OthersKept ==
  ASSUME NEW j \in Jobs, Begin(j) \/ JobStep(j), NEW k \in Jobs \ {j}
  PROVE  k \in kept' <=> k \in kept
  BY DEF Begin, JobStep, RenderStart, RenderEnd, RenderFail, CheckOutput, Receive, ReceiveFail,
     UploadLocal, TokenCached, TokenMiss, TokenFetched, TokenRefused, Open, Store, PostObjectFail,
     StoreAnswered, RemoveOutput, RemoveFile, Return, Reply, SendWebhook, SenderStep

\* Uploads that returned and jobs done to the bucket have no file.
LEMMA CleanKept ==
  ASSUME Typed, StoreInv, NEW j \in Jobs, Begin(j) \/ JobStep(j)
  PROVE  CleanInv'
  <1> DEFINE Clean(k) == k \notin kept =>
                         /\ at[k] \in {"answering", "told", "untold"} => Rendered(k)
                         /\ storage = "gcs" /\ Rendered(k) => at[k] # "done" /\ result[k] # "done"
  <1>1. ASSUME NEW k \in Jobs \ {j}, NEW p \in DOMAIN disk', disk'[p].by = k
        PROVE  Clean(k)'
    <2>1. p \in DOMAIN disk /\ disk'[p] = disk[p] BY <1>1, DiskSteps DEF DiskStep
    <2>2. Clean(k) BY <1>1, <2>1 DEF StoreInv, CleanInv
    <2>3. Rendered(k)' = Rendered(k) BY OthersStay DEF Rendered
    <2>4. QED BY <2>2, <2>3, OthersStay, OthersKept
  <1>2. ASSUME NEW p \in DOMAIN disk', disk'[p].by = j
        PROVE  Clean(j)'
    <2> USE DEF StoreInv, CleanInv, ResultInv, Rendered, Typed, Goto, store
    <2>1. p = path'[j] BY <1>2, FileKept DEF FileInv
    <2>2. disk' = disk => Clean(j) BY <1>2
    <2>3. CASE Begin(j) BY <2>3 DEF Begin
    <2>4. CASE RenderStart(j) \/ RenderFail(j) \/ RenderEnd(j) \/ CheckOutput(j)
      BY <2>4 DEF RenderStart, RenderFail, RenderEnd, CheckOutput
    <2>5. CASE Receive(j) \/ ReceiveFail(j) \/ UploadLocal(j)
      BY <2>5 DEF Receive, ReceiveFail, UploadLocal
    <2>6. CASE TokenCached(j) \/ TokenMiss(j) \/ TokenFetched(j) \/ TokenRefused(j)
      BY <2>6 DEF TokenCached, TokenMiss, TokenFetched, TokenRefused
    <2>7. CASE Open(j) \/ Store(j) \/ PostObjectFail(j) \/ StoreAnswered(j)
      BY <2>7 DEF Open, Store, PostObjectFail, StoreAnswered
    <2>8. CASE RemoveOutput(j)
      <3>1. path' = path /\ result' = result /\ at'[j] = "done" /\ result[j] = "none"
        BY <2>8 DEF RemoveOutput
      <3>2. ~Removes(j) \/ j \in kept'
        BY <1>2, <2>1, <2>8, <3>1, Removal DEF RemoveOutput, RemoveFile
      <3>3. QED BY <2>8, <3>1, <3>2 DEF RemoveOutput, Removes
    <2>9. CASE Return(j)
      <3>1. path' = path /\ at'[j] = "answering" /\ result'[j] = at[j] BY <2>9 DEF Return
      <3>2. Rendered(j) \/ j \in kept'
        BY <1>2, <2>1, <2>9, <3>1, Removal DEF Return, RemoveFile
      <3>3. req' = req /\ storage' = storage BY <2>9 DEF Return
      <3>4. Rendered(j) => disk' = disk /\ kept' = kept BY <2>9 DEF Return
      <3>5. QED BY <2>2, <3>1, <3>2, <3>3, <3>4
    <2>10. CASE Reply(j) BY <2>2, <2>10 DEF Reply
    <2>11. CASE SendWebhook(j) \/ SenderStep(j) BY <2>2, <2>11 DEF SendWebhook, SenderStep
    <2>12. QED
      BY <2>3, <2>4, <2>5, <2>6, <2>7, <2>8, <2>9, <2>10, <2>11 DEF JobStep
  <1>3. \A p \in DOMAIN disk' : disk'[p].by \in Jobs BY TypedKept DEF Typed, Contents
  <1>4. QED BY <1>1, <1>2, <1>3 DEF CleanInv
\* A step of a job keeps the invariant.
LEMMA JobKept ==
  ASSUME Typed, StoreInv, NEW j \in Jobs, Begin(j) \/ JobStep(j)
  PROVE  Typed' /\ StoreInv'
  <1>1. Typed' BY TypedKept
  <1>2. PathInv' /\ ResultInv' BY PathKept, ResultKept DEF StoreInv
  <1>3. FileInv' /\ OwnInv' /\ OpenInv' /\ BucketInv' /\ CleanInv'
    BY FileKept, OwnKept, OpenKept, BucketKept, CleanKept
  <1>4. QED BY <1>1, <1>2, <1>3 DEF StoreInv
-----------------------------------------------------------------------------
(* The world around keeps it, and it holds at first. *)

\* What the invariant is about.
storeVars == <<storage, req, path, at, result, disk, kept, bucket, opened>>

\* So does a step that changes none of its variables...
LEMMA StillKept ==
  ASSUME StoreInv, UNCHANGED storeVars
  PROVE  StoreInv'
  <1> USE DEF storeVars, StoreInv
  <1>1. PathInv' BY DEF PathInv, PathOf, FileName
  <1>2. FileInv' BY DEF FileInv
  <1>3. OwnInv' BY DEF OwnInv, Holding, Dangling, Good, ChecksOutput
  <1>4. OpenInv' /\ BucketInv' BY DEF OpenInv, Good, ChecksOutput, BucketInv
  <1>5. ResultInv' /\ CleanInv' BY DEF ResultInv, CleanInv, Rendered
  <1>6. QED BY <1>1, <1>2, <1>3, <1>4, <1>5

\* ...and the end of the process, after which all that is in memory is lost.
LEMMA CrashKept ==
  ASSUME Typed, StoreInv, Crash
  PROVE  Typed' /\ StoreInv'
  <1>1. /\ at' \in [Jobs -> Labels]
        /\ \A j \in Jobs : at'[j] = at[j] \/ (at'[j] = "lost" /\ at[j] # "new")
    BY DEF Crash, Typed, Labels
  <1>2. /\ UNCHANGED <<storage, req, path, result, disk, kept, bucket, opened>>
        /\ mu' = Nothing
    BY DEF Crash
  <1>3. Typed' BY <1>1, <1>2 DEF Typed
  <1> USE <1>1, <1>2 DEF StoreInv
  <1>4. PathInv' BY DEF PathInv, PathOf, FileName
  <1>5. FileInv' BY DEF FileInv, Typed, Contents
  <1>6. OwnInv' BY DEF OwnInv, Holding, Dangling, Good, ChecksOutput, ResultInv
  <1>7. OpenInv' BY DEF OpenInv, Good, ChecksOutput
  <1>8. BucketInv' BY DEF BucketInv
  <1>9. ResultInv' BY DEF ResultInv
  <1>10. CleanInv' BY DEF CleanInv, Rendered, Typed, Contents
  <1>11. QED BY <1>3, <1>4, <1>5, <1>6, <1>7, <1>8, <1>9, <1>10

\* In every behaviour, types and StoreInv hold.
THEOREM StoreKnown == Spec => [](Typed /\ StoreInv)
  <1>1. Init => Typed /\ StoreInv
    <2> SUFFICES ASSUME Init PROVE Typed /\ StoreInv OBVIOUS
    <2>1. Typed BY ResultsAssumption DEF Init, Typed, Labels
    <2>2. StoreInv
      BY DEF Init, StoreInv, PathInv, FileInv, OwnInv, Holding, OpenInv, BucketInv, ResultInv,
         CleanInv
    <2>3. QED BY <2>1, <2>2
  <1>2. Typed /\ StoreInv /\ [Next]_vars => Typed' /\ StoreInv'
    <2> SUFFICES ASSUME Typed, StoreInv, [Next]_vars PROVE Typed' /\ StoreInv'
      OBVIOUS
    <2>1. CASE \E j \in Jobs : Begin(j) \/ JobStep(j) BY <2>1, JobKept
    <2>2. CASE \E j \in Jobs : Network(j)
      <3>1. UNCHANGED storeVars /\ UNCHANGED <<mu, token>>
        BY <2>2 DEF Network, storeVars, store
      <3>2. Typed' BY <3>1 DEF Typed, storeVars
      <3>3. QED BY <3>1, <3>2, StillKept
    <2>3. CASE TokenExpires
      <3>1. UNCHANGED storeVars /\ mu' = mu /\ token' = FALSE BY <2>3 DEF TokenExpires, storeVars
      <3>2. Typed' BY <3>1 DEF Typed, storeVars
      <3>3. QED BY <3>1, <3>2, StillKept
    <2>4. CASE Crash BY <2>4, CrashKept
    <2>5. CASE UNCHANGED vars
      <3>1. UNCHANGED storeVars /\ UNCHANGED <<mu, token>> BY <2>5 DEF vars, storeVars
      <3>2. Typed' BY <3>1 DEF Typed, storeVars
      <3>3. QED BY <3>1, <3>2, StillKept
    <2>6. QED BY <2>1, <2>2, <2>3, <2>4, <2>5 DEF Next
  <1>3. QED BY <1>1, <1>2, PTL DEF Spec

\* The variables have their types, and whoever holds the token's mutex is fetching one.
THEOREM ResultsTyped == Spec => []ResultsTypeOK
  <1>1. DeliveryTypeOK /\ Typed => ResultsTypeOK BY DEF ResultsTypeOK, Typed
  <1>2. QED BY <1>1, DeliveryKnown, StoreKnown, PTL

\* No token is fetched while there is one.
THEOREM TokensFetchedOnce == Spec => []TokenFetchedOnce
  <1>1. Typed => TokenFetchedOnce BY DEF Typed, TokenFetchedOnce
  <1>2. QED BY <1>1, StoreKnown, PTL

\* The video a client was told of is at its link, and is this job's or, in the bucket, that of
\* a job of the same name.
THEOREM LinksServeOwn == Spec => []LinkServesOwn
  <1>1. ASSUME Typed, StoreInv PROVE LinkServesOwn
    <2> SUFFICES ASSUME NEW j \in Jobs, result[j] = "done", ~Dangling(j)
                 PROVE  LET content == IF storage = "gcs" THEN Get(bucket, path[j].name) ELSE File(j)
                        IN  /\ content # Nothing
                            /\ content.by # j => storage = "gcs" /\ opened[content.by] = content
                            /\ content.part = "whole" \/ ~ChecksOutput(content.by)
                            /\ content.part # "partial"
      BY DEF LinkServesOwn
    <2>1. CASE storage = "gcs"
      <3> DEFINE content == bucket[path[j].name]
      <3>1. path[j].name \in DOMAIN bucket BY <1>1, <2>1 DEF StoreInv, BucketInv
      <3>2. content \in Contents /\ opened[content.by] = content
        BY <1>1, <3>1 DEF Typed, StoreInv, BucketInv
      <3>3. content # Nothing /\ content.by \in Jobs BY <3>2, ResultsAssumption DEF Contents
      <3>4. Good(content) BY <1>1, <3>2, <3>3 DEF StoreInv, OpenInv
      <3>5. QED BY <2>1, <3>1, <3>2, <3>3, <3>4 DEF Get, Good
    <2>2. CASE storage = "local"
      <3> DEFINE content == disk[path[j]]
      <3>1. Holding(j) /\ at[j] \notin {"rendering", "rendered"}
        BY <1>1, <2>2 DEF Holding, StoreInv, ResultInv
      <3>2. path[j] \in DOMAIN disk /\ content.by = j /\ Good(content)
        BY <1>1, <3>1 DEF StoreInv, OwnInv
      <3>3. content # Nothing BY <1>1, <3>2, ResultsAssumption DEF Typed, Contents
      <3>4. QED BY <2>2, <3>2, <3>3 DEF File, Get, Good
    <2>3. QED BY <1>1, <2>1, <2>2 DEF Typed
  <1>2. QED BY <1>1, StoreKnown, PTL

\* Nothing is left on the disk by an upload that has returned, nor by a job that was done and
\* uploaded to the bucket, unless the system refused to remove it.
THEOREM DisksCleaned == Spec => []DiskCleaned
  <1>1. ASSUME Typed, StoreInv PROVE DiskCleaned
    <2> SUFFICES ASSUME NEW j \in Jobs \ kept, NEW p \in DOMAIN disk, disk[p].by = j,
                        at[j] \in {"answering", "told", "untold"}
                 PROVE  Rendered(j) /\ (result[j] = "failed" \/ storage = "local")
      BY DEF DiskCleaned
    <2>1. Rendered(j) /\ (storage = "gcs" => result[j] # "done")
      BY <1>1 DEF StoreInv, CleanInv
    <2>2. result[j] \in {"done", "failed"} BY <1>1 DEF Typed, StoreInv, ResultInv
    <2>3. QED BY <1>1, <2>1, <2>2 DEF Typed
  <1>2. QED BY <1>1, StoreKnown, PTL
=============================================================================

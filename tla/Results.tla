------------------------------- MODULE Results -------------------------------
(***************************************************************************)
(* What becomes of the video of a job: its file in the work directory,     *)
(* the upload by the storage adapter (internal/infra/storage), the         *)
(* removal of the file, and the answer to the client, by a response or by  *)
(* Delivery's webhook.  Jobs may ask for one name, and the process may     *)
(* crash and be started again over the same directory and bucket.          *)
(*                                                                         *)
(* A job is one call of a use case of internal/application, or one clip of *)
(* the clips use case.  Slots are JobPool's and Clips' matter, and inputs  *)
(* JobInputs'.                                                             *)
(***************************************************************************)
EXTENDS Delivery, Sequences, SequencesExt

CONSTANTS Cases,   \* what may happen: a storage, and a request for each job
          NoName,  \* a request without a file_name, or a file_url
          Nothing  \* no job, no file, no object

\* Jobs, and the directories of uploads, have random names.
ASSUME ResultsAssumption ==
    /\ MaxAttempts \in Nat \ {0}
    /\ \A case \in Cases : case.storage \in {"local", "gcs"}
    /\ "outputs" \notin Jobs
    /\ Nothing \notin Jobs
    /\ Nothing \notin [by : Jobs, part : {"partial", "empty", "whole"}]

VARIABLES storage,  \* STORAGE_TYPE
          req,      \* the request of each job
          path,     \* of the job's file
          at,       \* where each job is
          result,   \* what its run has returned
          disk,     \* the files the work directory has
          kept,     \* the jobs whose file the system has refused to remove
          bucket,   \* the objects the bucket has
          opened,   \* what a job's upload reads
          mu,       \* who holds GCSStorage.mu
          token,    \* whether GCSStorage.cachedToken is there and has not expired
          crashed

store == <<storage, req, path, bucket, mu, token, opened>>
vars ==
    <<storage, req, path, at, result, disk, kept, bucket, opened, mu, token, crashed, deliveryVars>>
-----------------------------------------------------------------------------
(* Names.  A name is its characters and its extension. *)

ValidExts == {".mp4", ".mp3", ".wav", ".m4a", ".aac", ".mkv"}

Replaced == {"/", "\\", ":", "*", "?", "\"", "<", ">", "|"}

SanitizeFileName(name) ==
    LET Clean(char) == CASE char \in Replaced -> <<"-">>
                         [] char = "," -> <<>>
                         [] char = " " -> <<"_">>
                         [] OTHER -> <<char>>
    IN  [name EXCEPT !.chars = FlattenSeq([i \in DOMAIN name.chars |-> Clean(name.chars[i])])]

\* filepath.Base
Base(name) ==
    LET slash == SelectLastInSeq(name.chars, LAMBDA char : char = "/")
    IN  [name EXCEPT !.chars = SubSeq(@, slash + 1, Len(@))]

Mp4(chars) == [chars |-> chars, ext |-> ".mp4"]

\* outputFileName: what is no audio or video extension becomes a part of the name.
OutputFileName(name, id) ==
    IF name = NoName
    THEN Mp4(<<id>>)
    ELSE LET clean == SanitizeFileName(Base(name))
         IN  IF clean.ext \in ValidExts THEN clean ELSE Mp4(Append(clean.chars, clean.ext))

\* renderClip's names have the job and the clip in them, and are not sanitised.
ClipName(name, id) == IF name = NoName THEN Mp4(<<id>>) ELSE Mp4(Base(name).chars \o <<"-", id>>)

\* An upload has the request's name, or the last part of its URL, or else a random one.  The
\* URL's is sanitised before its query is looked for: there is no "?" left to find.
UploadName(name, fileURL, id) ==
    CASE name # NoName -> SanitizeFileName(name)
      [] name = NoName /\ fileURL # NoName -> SanitizeFileName(Base(fileURL))
      [] OTHER -> [chars |-> <<id>>, ext |-> ".bin"]

\* The name a job's file, and its object, have.
FileName(j) ==
    LET name == req[j].name
    IN  CASE req[j].useCase = "upload" -> UploadName(name, req[j].fileURL, j)
          [] req[j].useCase = "clips" -> ClipName(name, j)
          [] req[j].useCase = "to-mp3" -> [chars |-> <<"audio">>, ext |-> ".mp3"]
          [] OTHER -> OutputFileName(name, j)

\* workDir/outputs, and a directory of its own for each upload.
PathOf(j) == [dir |-> IF req[j].useCase = "upload" THEN j ELSE "outputs", name |-> FileName(j)]

Get(store_, key) == IF key \in DOMAIN store_ THEN store_[key] ELSE Nothing
With(store_, key, content) ==
    [k \in DOMAIN store_ \cup {key} |-> IF k = key THEN content ELSE store_[k]]
Without(store_, key) == [k \in DOMAIN store_ \ {key} |-> store_[k]]

File(j) == Get(disk, path[j])
-----------------------------------------------------------------------------
Labels == {"new", "begun", "rendering", "rendered", "uploading", "fetching", "opening",
           "posting", "stored", "uploaded", "done", "failed", "answering", "told", "untold", "lost"}

Contents == [by : Jobs, part : {"partial", "empty", "whole"}]

ResultsTypeOK ==
    /\ DeliveryTypeOK
    /\ at \in [Jobs -> Labels]
    /\ result \in [Jobs -> {"none", "done", "failed"}]
    /\ \A p \in DOMAIN disk : disk[p] \in Contents
    /\ kept \subseteq Jobs
    /\ \A name \in DOMAIN bucket : bucket[name] \in Contents
    /\ opened \in [Jobs -> Contents \cup {Nothing}]
    /\ mu \in Jobs \cup {Nothing}
    /\ mu # Nothing => at[mu] = "fetching"

Init ==
    /\ DeliveryInit
    /\ \E case \in Cases : storage = case.storage /\ req = case.req
    /\ path = [j \in Jobs |-> Nothing]
    /\ at = [j \in Jobs |-> "new"]
    /\ result = [j \in Jobs |-> "none"]
    /\ disk = <<>> /\ bucket = <<>> /\ kept = {}
    /\ opened = [j \in Jobs |-> Nothing]
    /\ mu = Nothing
    /\ token = FALSE
    /\ crashed = FALSE

Goto(j, from, to) == at[j] = from /\ at' = [at EXCEPT ![j] = to]
-----------------------------------------------------------------------------
(* The file. *)

Rendered(j) == req[j].useCase # "upload"

\* The use cases that look at the output; the others do not.
ChecksOutput(j) == req[j].useCase \in {"pipeline", "to-mp3", "cuts"}

Begin(j) ==
    /\ Goto(j, "new", "begun")
    /\ path' = [path EXCEPT ![j] = PathOf(j)]
    /\ UNCHANGED <<storage, req, bucket, mu, token, opened,
                   result, disk, kept, crashed, deliveryVars>>

\* FFmpeg creates its output, and refuses one that is there: no use case gives it -y,
\* and its standard input is empty.
RenderStart(j) ==
    /\ Rendered(j)
    /\ File(j) = Nothing
    /\ Goto(j, "begun", "rendering")
    /\ disk' = With(disk, path[j], [by |-> j, part |-> "partial"])
    /\ UNCHANGED <<store, result, kept, crashed, deliveryVars>>

\* A faulty form: whatever is at the path of a failed render is removed.
RenderFailCleaning(j) ==
    /\ Rendered(j)
    /\ at[j] \in {"begun", "rendering"}
    /\ at' = [at EXCEPT ![j] = "failed"]
    /\ disk' = Without(disk, path[j])
    /\ UNCHANGED <<store, result, kept, crashed, deliveryVars>>

\* The run fails before FFmpeg or in it: a file is left as it is.
RenderFail(j) ==
    /\ Rendered(j)
    /\ at[j] \in {"begun", "rendering"}
    /\ at' = [at EXCEPT ![j] = "failed"]
    /\ UNCHANGED <<store, result, disk, kept, crashed, deliveryVars>>

\* FFmpeg exits with 0; it may not have written a frame.
RenderEnd(j) ==
    /\ Goto(j, "rendering", "rendered")
    /\ \E part \in {"empty", "whole"} : disk' = With(disk, path[j], [by |-> j, part |-> part])
    /\ UNCHANGED <<store, result, kept, crashed, deliveryVars>>

\* os.Stat, in the use cases that look.
CheckOutput(j) ==
    /\ Goto(j, "rendered",
            IF ChecksOutput(j) /\ (File(j) = Nothing \/ File(j).part = "empty")
            THEN "failed" ELSE "uploading")
    /\ UNCHANGED <<store, result, disk, kept, crashed, deliveryVars>>

\* The upload use case: the file is downloaded, or copied from the form, into the
\* directory made for it.
Receive(j) ==
    /\ ~Rendered(j)
    /\ Goto(j, "begun", "uploading")
    /\ disk' = With(disk, path[j], [by |-> j, part |-> "whole"])
    /\ UNCHANGED <<store, result, kept, crashed, deliveryVars>>

\* An error removes a partial download (storage.Download); a copy's is left.
ReceiveFail(j) ==
    /\ ~Rendered(j)
    /\ Goto(j, "begun", "failed")
    /\ disk' \in {disk, With(disk, path[j], [by |-> j, part |-> "partial"])}
    /\ UNCHANGED <<store, result, kept, crashed, deliveryVars>>
-----------------------------------------------------------------------------
(* The upload. *)

\* LocalStorage.Upload: the path is the link.
UploadLocal(j) ==
    /\ storage = "local"
    /\ Goto(j, "uploading", "uploaded")
    /\ UNCHANGED <<store, result, disk, kept, crashed, deliveryVars>>

\* accessToken, under the mutex, with a token that is cached...
TokenCached(j) ==
    /\ storage = "gcs" /\ mu = Nothing /\ token
    /\ Goto(j, "uploading", "opening")
    /\ UNCHANGED <<store, result, disk, kept, crashed, deliveryVars>>

\* A faulty form: the token is looked at before the mutex is taken.
TokenMissUnlocked(j) ==
    /\ storage = "gcs"
    /\ \/ ~token /\ Goto(j, "uploading", "waiting") /\ UNCHANGED mu
       \/ mu = Nothing /\ Goto(j, "waiting", "fetching") /\ mu' = j
    /\ UNCHANGED <<storage, req, path, bucket, token, opened,
                   result, disk, kept, crashed, deliveryVars>>

\* ...or with one to be fetched, while the mutex is held.
TokenMiss(j) ==
    /\ storage = "gcs" /\ mu = Nothing /\ ~token
    /\ Goto(j, "uploading", "fetching")
    /\ mu' = j
    /\ UNCHANGED <<storage, req, path, bucket, token, opened,
                   result, disk, kept, crashed, deliveryVars>>

TokenFetched(j) ==
    /\ Goto(j, "fetching", "opening")
    /\ token' = TRUE
    /\ mu' = Nothing
    /\ UNCHANGED <<storage, req, path, bucket, opened, result, disk, kept, crashed, deliveryVars>>

\* A faulty form: Unlock is not deferred.
TokenRefusedLocked(j) ==
    /\ Goto(j, "fetching", "failed")
    /\ UNCHANGED <<store, result, disk, kept, crashed, deliveryVars>>

TokenRefused(j) ==
    /\ Goto(j, "fetching", "failed")
    /\ mu' = Nothing
    /\ UNCHANGED <<storage, req, path, bucket, token, opened,
                   result, disk, kept, crashed, deliveryVars>>

Open(j) ==
    /\ Goto(j, "opening", IF File(j) = Nothing THEN "failed" ELSE "posting")
    /\ opened' = [opened EXCEPT ![j] = File(j)]
    /\ UNCHANGED <<storage, req, path, bucket, mu, token,
                   result, disk, kept, crashed, deliveryVars>>

\* The bucket stores an object of the file's base name, over one that may be there.
Store(j) ==
    /\ Goto(j, "posting", "stored")
    /\ bucket' = With(bucket, path[j].name, opened[j])
    /\ UNCHANGED <<storage, req, path, mu, token, opened,
                   result, disk, kept, crashed, deliveryVars>>

\* It refuses to, or the request, or the answer of a stored one, is lost.
PostObjectFail(j) ==
    /\ at[j] \in {"posting", "stored"}
    /\ at' = [at EXCEPT ![j] = "failed"]
    /\ UNCHANGED <<store, result, disk, kept, crashed, deliveryVars>>

StoreAnswered(j) ==
    /\ Goto(j, "stored", "uploaded")
    /\ UNCHANGED <<store, result, disk, kept, crashed, deliveryVars>>

\* Clips removes its file in any case, the others if the link is https; uploads come later.
Removes(j) == req[j].useCase = "clips" \/ (Rendered(j) /\ storage = "gcs")

\* os.Remove and os.RemoveAll: an error leaves the file, and is logged at most.
RemoveFile(j) ==
    \/ disk' = Without(disk, path[j]) /\ UNCHANGED kept
    \/ kept' = kept \cup {j} /\ UNCHANGED disk

RemoveOutput(j) ==
    /\ Goto(j, "uploaded", "done")
    /\ IF Removes(j) THEN RemoveFile(j) ELSE UNCHANGED <<disk, kept>>
    /\ UNCHANGED <<store, result, crashed, deliveryVars>>

\* A faulty form: RemoveAll is not deferred.
ReturnKeeping(j) ==
    /\ at[j] \in {"done", "failed"}
    /\ at' = [at EXCEPT ![j] = "answering"]
    /\ result' = [result EXCEPT ![j] = at[j]]
    /\ IF Rendered(j) \/ at[j] = "failed" THEN UNCHANGED <<disk, kept>> ELSE RemoveFile(j)
    /\ UNCHANGED <<store, crashed, deliveryVars>>

\* The run returns; an upload's directory is removed with what is in it.
Return(j) ==
    /\ at[j] \in {"done", "failed"}
    /\ at' = [at EXCEPT ![j] = "answering"]
    /\ result' = [result EXCEPT ![j] = at[j]]
    /\ IF Rendered(j) THEN UNCHANGED <<disk, kept>> ELSE RemoveFile(j)
    /\ UNCHANGED <<store, crashed, deliveryVars>>
-----------------------------------------------------------------------------
(* The answer. *)

\* The response of a synchronous job, which the server drops after its WriteTimeout.
Reply(j) ==
    /\ ~req[j].webhook
    /\ at[j] = "answering"
    /\ \E end \in {"told", "untold"} : at' = [at EXCEPT ![j] = end]
    /\ UNCHANGED <<store, result, disk, kept, crashed, deliveryVars>>

SendWebhook(j) ==
    /\ req[j].webhook
    /\ at[j] = "answering"
    /\ Send(j)
    /\ UNCHANGED <<store, at, result, disk, kept, crashed>>

SenderStep(j) ==
    /\ Post(j) \/ PostOk(j) \/ PostFail(j)
    /\ UNCHANGED <<store, at, result, disk, kept, crashed>>

Network(j) ==
    /\ \E k \in Attempts : Take(j, k) \/ Lose(j, k)
    /\ UNCHANGED <<store, at, result, disk, kept, crashed>>
-----------------------------------------------------------------------------
(* The world around. *)

TokenExpires ==
    /\ token
    /\ token' = FALSE
    /\ UNCHANGED <<storage, req, path, at,
                   result, disk, kept, bucket, opened, mu, crashed, deliveryVars>>

Ended(j) ==
    \/ at[j] \in {"told", "untold", "lost"}
    \/ sender[j] \in {"delivered", "gaveup"}

\* The process ends at any moment, and another one is started; the jobs it had are gone.
Crash ==
    /\ ~crashed
    /\ crashed' = TRUE
    /\ at' = [j \in Jobs |-> IF at[j] = "new" \/ Ended(j) THEN at[j] ELSE "lost"]
    /\ sender' = [j \in Jobs |-> IF sender[j] \in {"waiting", "posting"} THEN "lost" ELSE sender[j]]
    /\ mu' = Nothing
    /\ token' = FALSE
    /\ UNCHANGED <<storage, req, path,
                   result, disk, kept, bucket, opened, attempt, wire, answer, received>>

JobStep(j) ==
    \/ RenderStart(j) \/ RenderFail(j) \/ RenderEnd(j) \/ CheckOutput(j)
    \/ Receive(j) \/ ReceiveFail(j)
    \/ UploadLocal(j) \/ TokenCached(j) \/ TokenMiss(j) \/ TokenFetched(j) \/ TokenRefused(j)
    \/ Open(j) \/ Store(j) \/ PostObjectFail(j) \/ StoreAnswered(j) \/ RemoveOutput(j) \/ Return(j)
    \/ Reply(j) \/ SendWebhook(j) \/ SenderStep(j)

Next ==
    \/ \E j \in Jobs : Begin(j) \/ JobStep(j) \/ Network(j)
    \/ TokenExpires \/ Crash

\* Goroutines that can run are run, FFmpeg, the clients of the storage and the
\* webhook's client have timeouts, and ffprobe, which has none (runner.go:149), is
\* taken to end.
Spec == Init /\ [][Next]_vars /\ \A j \in Jobs : WF_vars(JobStep(j))
-----------------------------------------------------------------------------
\* The client has been told what became of the job.
Knows(j) == at[j] = "told" \/ received[j] # "nothing"

\* The use cases that remove the file to which a local link points: see LocalLinkInPlace.
Dangling(j) == storage = "local" /\ req[j].useCase \in {"clips", "upload"}

\* The video a client was told of is at its link, complete if the use case looks, and it is
\* this job's or that of a job of the same name which has been stored since; whoever else
\* renders, fails, is uploaded or crashes (pipeline_media.go:218-277, local.go:62-64).
LinkServesOwn ==
    \A j \in Jobs : Knows(j) /\ result[j] = "done" /\ ~Dangling(j) =>
        LET content == IF storage = "gcs" THEN Get(bucket, path[j].name) ELSE File(j)
        IN  /\ content # Nothing
            /\ content.by # j => storage = "gcs" /\ opened[content.by] = content
            /\ content.part = "whole" \/ ~ChecksOutput(content.by)
            /\ content.part # "partial"

\* Nothing is left on the disk by an upload that has returned, nor by a job that was done
\* and uploaded to the bucket, unless the system refused to remove it
\* (upload_media.go:71-73, pipeline_media.go:272-275).
DiskCleaned ==
    \A j \in Jobs \ kept, p \in DOMAIN disk :
        /\ disk[p].by = j
        /\ at[j] \in {"answering", "told", "untold"}
        => Rendered(j) /\ (result[j] = "failed" \/ storage = "local")

\* No token is fetched while there is one: those who waited for the mutex use what was
\* fetched meanwhile (gcs.go:178-193).
TokenFetchedOnce == mu # Nothing => ~token

\* Send reports success only if the client has accepted a request (http_sender.go:33-57).
AckMeansAccepted == \A j \in Jobs : sender[j] = "delivered" => received[j] = "accepted"

\* Every job that has begun is answered, or the attempts to are used up, unless the process
\* ends: no failure of a token, an upload or a webhook holds the others up.
ResultsTold == \A j \in Jobs : at[j] # "new" ~> Ended(j)
-----------------------------------------------------------------------------
\* "em modo local, o arquivo de saida ja esta no disco; retorna o caminho local"
\* (local.go:14): the link a client is told names a file that is there.
LocalLinkInPlace ==
    \A j \in Jobs : storage = "local" /\ Knows(j) /\ result[j] = "done" => File(j) # Nothing
=============================================================================

------------------------------ MODULE Rendering ------------------------------
(***************************************************************************)
(* What FFmpeg is asked to do: the arguments the use cases build for it    *)
(* (Camera, CommandLine), the encoder of the machine, which is looked for  *)
(* in the background while the first jobs already run                      *)
(* (cmd/server/main.go:53-59, internal/infra/ffmpeg), and the encoder that *)
(* is reported with a job.                                                 *)
(*                                                                         *)
(* Slots, inputs and outputs of the jobs are JobPool's, JobInputs' and     *)
(* Results' matter.  The runner's encoder is an atomic.Value.              *)
(***************************************************************************)
EXTENDS Camera, CommandLine

CONSTANTS Jobs,
          Requests,      \* the requests that may arrive, of every use case
          ForceEncoder,  \* the values ENCODER may have
          Rates,         \* the frame rates of inputs; 0 is one ffprobe cannot tell
          Instants       \* the instants of a video that are looked at

UseCases == {"vertical", "clips", "caption", "cuts", "pipeline"}

OptionLists == Seq([option : Words, argument : Words])

\* What the JSON decoder lets through.
RequestsAssumption ==
    /\ Unset \notin Int
    /\ \A r \in Requests :
          /\ r.useCase \in UseCases
          /\ r.useCase \in {"vertical", "clips"} =>
                /\ r.start \in Int /\ r.end \in Int /\ r.duration \in Int
                /\ r.zoom \in Int /\ r.scroll \in Int
                /\ r.keyframes \in
                      Seq([time : Int, zoom : Int \cup {Unset}, scroll : Int \cup {Unset}])
          /\ r.useCase \in {"caption", "cuts"} => r.codec \in Words
          /\ r.useCase = "pipeline" =>
                r.inputs \in Seq(OptionLists) /\ r.outputs \in Seq(OptionLists)

ASSUME RenderingAssumption ==
    /\ Rates \subseteq Nat /\ Instants \subseteq Nat
    /\ RequestsAssumption

VARIABLES env,       \* ENCODER, and whether this is Windows
          probing,   \* the encoders that are yet to be tried
          found,     \* what detection has chosen; "none" before that
          encoder,   \* the runner's encoder
          at,        \* where each job is
          req,       \* its request
          source,    \* avg_frame_rate and r_frame_rate of its input
          filter,    \* the filter of a vertical video
          args,      \* the arguments it gives to RunFFmpeg
          loaded,    \* the encoder RunFFmpeg has read
          command,   \* the command line it starts
          reported,  \* the encoder reported with the job; "none" for clips
          settled    \* history: detection was over when the job began

detection == <<env, probing, found, encoder>>
jobVars == <<at, req, source, filter, args, loaded, command, reported, settled>>
vars == <<detection, jobVars>>

None == [useCase |-> "none"]
NoFilter == [animated |-> FALSE]

RenderingTypeOK ==
    /\ found \in Modes \cup {"none"}
    /\ encoder \in Modes
    /\ probing \in Seq(Modes)
    /\ at \in [Jobs -> {"new", "refused", "accepted", "begun", "built", "loaded", "running",
                        "done", "failed"}]
    /\ \A j \in Jobs : req[j] \in Requests \/ req[j] = None
    /\ loaded \in [Jobs -> Modes \cup {"none"}]
    /\ reported \in [Jobs -> Words \cup {"none"}]
    /\ args \in [Jobs -> Seq(Words)]
    /\ command \in [Jobs -> Seq(Words)]
    /\ settled \in [Jobs -> BOOLEAN]

\* DetectGPU's order: MF is Windows', VAAPI is not.
Candidates(windows) == <<NVENC, AMF, IF windows THEN MF ELSE VAAPI>>

Init ==
    /\ env \in [force : ForceEncoder, windows : BOOLEAN]
    /\ probing = Candidates(env.windows)
    /\ found = "none"
    /\ encoder = CPU
    /\ at = [j \in Jobs |-> "new"]
    /\ req = [j \in Jobs |-> None]
    /\ source = [j \in Jobs |-> [avg |-> 0, r |-> 0]]
    /\ filter = [j \in Jobs |-> NoFilter]
    /\ args = [j \in Jobs |-> <<>>]
    /\ loaded = [j \in Jobs |-> "none"]
    /\ command = [j \in Jobs |-> <<>>]
    /\ reported = [j \in Jobs |-> "none"]
    /\ settled = [j \in Jobs |-> FALSE]

Goto(j, from, to) == at[j] = from /\ at' = [at EXCEPT ![j] = to]
-----------------------------------------------------------------------------
(* The detection of the encoder. *)

Detecting == found = "none" /\ UNCHANGED <<env, encoder, jobVars>>

Choose(mode) == found' = mode /\ probing' = <<>>

\* A faulty form: whatever ENCODER says is taken.
OverrideUnchecked ==
    /\ Detecting
    /\ Choose(env.force)

\* DetectOrOverride: an encoder ENCODER names is taken without a trial.
Override ==
    /\ Detecting
    /\ env.force \in Modes
    /\ Choose(env.force)

\* There is no ffmpeg in the PATH, or it does not list its encoders.
NoFFmpeg ==
    /\ Detecting
    /\ env.force \notin Modes
    /\ probing = Candidates(env.windows)
    /\ Choose(CPU)

\* tryEncoder on the next candidate: it is listed and the trial succeeds, or not.
TryEncoder ==
    /\ Detecting
    /\ env.force \notin Modes
    /\ IF probing = <<>>
       THEN Choose(CPU)
       ELSE \/ Choose(Head(probing))
            \/ probing' = Tail(probing) /\ UNCHANGED found

SetEncoder ==
    /\ found # "none"
    /\ encoder' = found
    /\ encoder # found
    /\ UNCHANGED <<env, probing, found, jobVars>>

DetectionOver == found = encoder
-----------------------------------------------------------------------------
(* The requests. *)

InRange(x, lo, hi) == lo <= x /\ x <= hi

ValidVertical(r) ==
    /\ InRange(r.scroll, -100, 100) /\ InRange(r.zoom, 0, 500)
    /\ \A i \in DOMAIN r.keyframes :
          LET k == r.keyframes[i]
          IN  /\ k.time >= 0
              /\ k.scroll = Unset \/ InRange(k.scroll, -100, 100)
              /\ k.zoom = Unset \/ InRange(k.zoom, 0, 500)
    /\ ~(r.duration > 0 /\ r.end > 0)
    /\ r.end > 0 => r.end > r.start

\* validateClips on a clip: scroll_x is only looked at where there are no keyframes, and
\* these are not looked at.
ValidClip(r) ==
    /\ r.end > 0 => r.end > r.start
    /\ ~(r.duration > 0 /\ r.end > 0)
    /\ r.keyframes = <<>> => InRange(r.scroll, -100, 100)

\* crf and preset are looked at everywhere but in cuts and pipeline.
Valid(r) ==
    CASE r.useCase = "vertical" -> ValidVertical(r) /\ r.quality
      [] r.useCase = "clips" -> ValidClip(r) /\ r.quality
      [] r.useCase = "caption" -> r.quality
      [] r.useCase = "pipeline" -> r.inputs # <<>> /\ r.outputs # <<>>
      [] OTHER -> TRUE

Arrive(j) ==
    /\ at[j] = "new"
    /\ \E r \in Requests :
          /\ req' = [req EXCEPT ![j] = r]
          /\ at' = [at EXCEPT ![j] = IF Valid(r) THEN "accepted" ELSE "refused"]
    /\ UNCHANGED <<detection, source, filter, args, loaded, command, reported, settled>>
-----------------------------------------------------------------------------
(* The run of a job. *)

ReportsAtStart == {"pipeline", "vertical", "cuts"}

\* run begins; three use cases read the encoder to report here.
Begin(j) ==
    /\ Goto(j, "accepted", "begun")
    /\ IF req[j].useCase \in ReportsAtStart
       THEN reported' = [reported EXCEPT ![j] = encoder]
       ELSE UNCHANGED reported
    /\ settled' = [settled EXCEPT ![j] = DetectionOver]
    /\ UNCHANGED <<detection, req, source, filter, args, loaded, command>>

\* clip.Mode, or else req.Mode, or else a plain cut.
ModeOf(r) == IF r.clipMode = "" THEN r.mode ELSE r.clipMode

IsVertical(r) == r.useCase = "vertical" \/ (r.useCase = "clips" /\ ModeOf(r) = "vertical")

\* ProbeMedia's frame rate: the average one, or else the nominal one.
Framerate(s) == IF s.avg # 0 THEN s.avg ELSE s.r

\* The input of a vertical video is probed for its rate where the zoom is animated.
BuildVertical(j) ==
    /\ Goto(j, "begun", "built")
    /\ IsVertical(req[j])
    /\ \E s \in [avg : Rates, r : Rates],
          zooms \in Orders(req[j].keyframes, "zoom"),
          scrolls \in Orders(req[j].keyframes, "scroll") :
          /\ HasZoomKeyframes(req[j].keyframes) \/ s = source[j]
          /\ source' = [source EXCEPT ![j] = s]
          /\ filter' = [filter EXCEPT ![j] = Filter(req[j], Framerate(s), zooms, scrolls)]
    /\ args' = [args EXCEPT ![j] = EncodeArgs(req[j], <<"-vf", "filter">>)]
    /\ UNCHANGED <<detection, req, loaded, command, reported, settled>>

PlainArgs(r) ==
    CASE r.useCase = "clips" -> EncodeArgs(r, <<>>)
      [] r.useCase = "caption" -> CaptionArgs(r)
      [] r.useCase = "cuts" -> CutsArgs(r)
      [] r.useCase = "pipeline" -> PipelineArgs(r)

Unreadable(r) ==
    /\ r.useCase = "pipeline"
    /\ ~(Readable(r.outputs[1]) /\ \A i \in DOMAIN r.inputs : Readable(r.inputs[i]))

Build(j) ==
    /\ Goto(j, "begun", "built")
    /\ ~IsVertical(req[j]) /\ ~Unreadable(req[j])
    /\ args' = [args EXCEPT ![j] = PlainArgs(req[j])]
    /\ UNCHANGED <<detection, req, source, filter, loaded, command, reported, settled>>

BuildFail(j) ==
    /\ Goto(j, "begun", "failed")
    /\ Unreadable(req[j])
    /\ UNCHANGED <<detection, req, source, filter, args, loaded, command, reported, settled>>

\* RunFFmpeg: substituteEncoder reads the encoder once...
LoadEncoder(j) ==
    /\ Goto(j, "built", "loaded")
    /\ loaded' = [loaded EXCEPT ![j] = encoder]
    /\ UNCHANGED <<detection, req, source, filter, args, command, reported, settled>>

\* A faulty form: the quality flags are those of the encoder there is by now.
StartRereading(j) ==
    /\ Goto(j, "loaded", "running")
    /\ command' = [command EXCEPT ![j] =
                      IF loaded[j] = CPU THEN InjectEncoderQuality(args[j], encoder)
                      ELSE SubstituteEncoder(args[j], loaded[j])]
    /\ UNCHANGED <<detection, req, source, filter, args, loaded, reported, settled>>

\* ...and makes the command of it.
Start(j) ==
    /\ Goto(j, "loaded", "running")
    /\ command' = [command EXCEPT ![j] = SubstituteEncoder(args[j], loaded[j])]
    /\ UNCHANGED <<detection, req, source, filter, args, loaded, reported, settled>>

\* A faulty form: caption reports the encoder it asked for.
EndReportingAsked(j) ==
    /\ at[j] = "running"
    /\ \E result \in {"done", "failed"} : at' = [at EXCEPT ![j] = result]
    /\ IF req[j].useCase = "caption"
       THEN reported' = [reported EXCEPT ![j] = CodecOf(args[j])]
       ELSE UNCHANGED reported
    /\ UNCHANGED <<detection, req, source, filter, args, loaded, command, settled>>

\* FFmpeg ends; caption now reads the encoder to report, save one the request names.
End(j) ==
    /\ at[j] = "running"
    /\ \E result \in {"done", "failed"} : at' = [at EXCEPT ![j] = result]
    /\ IF req[j].useCase = "caption"
       THEN reported' = [reported EXCEPT ![j] =
                            IF req[j].codec = "" THEN encoder ELSE req[j].codec]
       ELSE UNCHANGED reported
    /\ UNCHANGED <<detection, req, source, filter, args, loaded, command, settled>>
-----------------------------------------------------------------------------
Next ==
    \/ Override \/ NoFFmpeg \/ TryEncoder \/ SetEncoder
    \/ \E j \in Jobs :
          \/ Arrive(j) \/ Begin(j) \/ BuildVertical(j) \/ Build(j) \/ BuildFail(j)
          \/ LoadEncoder(j) \/ Start(j) \/ End(j)

Spec == Init /\ [][Next]_vars
-----------------------------------------------------------------------------
Started(j) == at[j] = "running"

\* The job asks for the encoder the runner is to replace.
AsksCPU(j) == CodecOf(args[j]) = CPU

\* An option has an argument exactly if FFmpeg expects one, which is no option's name; and
\* no rate is called libx264.
WellFormed(options) ==
    \A i \in DOMAIN options :
        LET argument == RawToString(options[i].argument)
        IN  \/ options[i].option \in Flags /\ argument = ""
            \/ /\ options[i].option \in WithArgument
               /\ argument # "" /\ argument \notin Options
               /\ options[i].option \in RateControls => argument # CPU

\* The words that a request brings are ones FFmpeg would take.
FFmpegWouldTake(r) ==
    /\ r.useCase \in {"caption", "cuts"} => r.codec \notin Options
    /\ r.useCase = "pipeline" =>
          WellFormed(r.outputs[1]) /\ \A i \in DOMAIN r.inputs : WellFormed(r.inputs[i])

\* Whenever detection ends, a command of a job that asks for libx264 is one encoder's:
\* libx264 with the flags as they were asked for, or a hardware encoder without
\* libx264's own flags and with no other one's; and a rate the job controls itself
\* is left alone (runner.go:75-129).
OneEncodersFlags ==
    \A j \in Jobs : Started(j) /\ FFmpegWouldTake(req[j]) /\ AsksCPU(j) =>
        LET codec == CodecOf(command[j])
            Controls(rate) == HasOption(args[j], rate)
        IN  /\ IF codec = CPU THEN command[j] = args[j]
               ELSE \A option \in X264Only : ~HasOption(command[j], option)
            /\ HasOption(command[j], "-gpu") => codec = NVENC \/ HasOption(args[j], "-gpu")
            /\ HasOption(command[j], "-maxrate") => codec = AMF \/ HasOption(args[j], "-maxrate")
            /\ (\E rate \in RateControls : Controls(rate)) =>
                  \A rate \in RateControls : ValueOf(command[j], rate) = ValueOf(args[j], rate)

\* Whatever is taken out of the arguments and put into them, FFmpeg reads the same
\* inputs and writes one output, the job's, as long as the request's options are
\* ones FFmpeg would take (runner.go:80-128, pipeline_media.go:374-416).
WritesItsOutput ==
    \A j \in Jobs : Started(j) /\ FFmpegWouldTake(req[j]) =>
        /\ OutputsOf(command[j]) = {Len(command[j])}
        /\ Last(command[j]) = "output"
        /\ Cardinality(InputsOf(command[j])) = Cardinality(InputsOf(args[j]))

\* A job that began when detection was over reports the encoder it used, if it left
\* the choice to the runner (pipeline_media.go:197, caption_media.go:219-222).
ReportedIsUsed ==
    \A j \in Jobs :
        /\ at[j] = "done" /\ settled[j] /\ FFmpegWouldTake(req[j]) /\ AsksCPU(j)
        /\ req[j].useCase # "clips"
        /\ req[j].useCase = "caption" => req[j].codec = ""
        => reported[j] = CodecOf(command[j])

\* At every instant the camera is where the latest keyframe put it, at once, "no segundo
\* exato da transição" (docs/api/media-vertical.md:156, 180; README.md:271 speaks of "a
\* smooth animated pan", which there is not), whatever the order of the keyframes and
\* whichever of zoom and scroll each of them sets; and an animated zoom keeps the rate of
\* its input (vertical_media.go:269-292, 332-387).
CameraFollowsKeyframes ==
    \A j \in Jobs : Started(j) /\ IsVertical(req[j]) =>
        /\ \A t \in Instants : Follows(filter[j], req[j], t)
        /\ filter[j].animated /\ source[j].avg > 0 => filter[j].fps = source[j].avg

\* The part of the input that FFmpeg plays is the one between start and end, or of the
\* length of duration, for times that are not negative (vertical_media.go:256-267,
\* clips_media.go:350-361).
WindowAsAsked ==
    \A j \in Jobs :
        /\ Started(j) /\ req[j].useCase \in {"vertical", "clips"}
        /\ req[j].start >= 0 /\ req[j].duration >= 0 /\ req[j].end >= 0
        => LET from == IF HasOption(command[j], "-ss") THEN req[j].start ELSE 0
               Plays(t) == /\ t >= from
                           /\ HasOption(command[j], "-t") => t < from + Length(req[j])
           IN  \A t \in Instants :
                  Plays(t) <=> /\ t >= req[j].start
                               /\ req[j].end > 0 => t < req[j].end
                               /\ req[j].duration > 0 => t < req[j].start + req[j].duration
=============================================================================

----------------------------- MODULE CommandLine -----------------------------
(***************************************************************************)
(* The command lines of FFmpeg: how each use case builds its arguments     *)
(* (internal/application/*_media.go) and how the runner adapts them to the *)
(* encoder of the machine (internal/infra/ffmpeg/runner.go).               *)
(*                                                                         *)
(* Arguments are sequences of words.  Words that carry a request's data    *)
(* are names: "input" is the path of the input, "filter" the text of the   *)
(* filter, "length" the seconds of -t.                                     *)
(***************************************************************************)
EXTENDS Integers, FiniteSets, Sequences, SequencesExt

CONSTANTS Words,        \* what may stand on a command line
          Flags,        \* FFmpeg's options without an argument,
          WithArgument  \* and those with one

Options == Flags \cup WithArgument

NVENC == "h264_nvenc"
AMF == "h264_amf"
VAAPI == "h264_vaapi"
MF == "h264_mf"
CPU == "libx264"

Modes == {NVENC, AMF, VAAPI, MF, CPU}
-----------------------------------------------------------------------------
(* The use cases. *)

\* A faulty form: -t is given the end.
LengthToEnd(req) ==
    IF req.duration = 0 /\ req.end > req.start THEN req.end ELSE req.duration

\* The seconds to play: duration, or else from start to end.
Length(req) ==
    IF req.duration = 0 /\ req.end > req.start THEN req.end - req.start ELSE req.duration

Window(req) ==
    (IF req.start > 0 THEN <<"-ss", "start">> ELSE <<>>)
        \o <<"-i", "input">>
        \o (IF Length(req) > 0 THEN <<"-t", "length">> ELSE <<>>)

Quality == <<"-crf", "crf", "-preset", "preset">>

\* buildSourceArgs, and buildVerticalArgs with its filter.
EncodeArgs(req, filter) ==
    Window(req) \o filter
        \o <<"-map", "0:v:0", "-map", "0:a:0?", "-x264-params", "ref=1", "-c:v", CPU>>
        \o Quality \o <<"-c:a", "aac">> \o <<"output">>

CaptionArgs(req) ==
    LET encoder == IF req.codec = "" THEN CPU ELSE req.codec
    IN  <<"-i", "input", "-vf", "subtitles", "-c:a", "copy", "-c:v", encoder>>
            \o (IF encoder = CPU THEN <<"-x264-params", "ref=1">> \o Quality ELSE <<>>)
            \o <<"output">>

CutsArgs(req) ==
    <<"-i", "input", "-filter_complex", "graph", "-map", "[v]", "-map", "[a]",
      "-c:v", IF req.codec = "" THEN CPU ELSE req.codec>>
        \o Quality
        \o <<"-c:a", "aac", "-b:a", "96k", "-movflags", "+faststart">>
        \o <<"output">>

\* rawToString: null, true and false are an absent argument.
RawToString(raw) == IF raw \in {"null", "true", "false"} THEN "" ELSE raw

\* It refuses what is no string, number or Boolean.
Readable(options) == \A i \in DOMAIN options : options[i].argument # "{}"

OptionArgs(options) ==
    FlattenSeq([i \in DOMAIN options |->
        IF RawToString(options[i].argument) = ""
        THEN <<options[i].option>>
        ELSE <<options[i].option, RawToString(options[i].argument)>>])

\* buildFFmpegArgs: the options of each input before it, the filters, and the options
\* of the first output.
PipelineArgs(req) ==
    FlattenSeq([i \in DOMAIN req.inputs |-> OptionArgs(req.inputs[i]) \o <<"-i", "input">>])
        \o (IF req.filters THEN <<"-filter_complex", "graph">> ELSE <<>>)
        \o OptionArgs(req.outputs[1])
        \o <<"output">>

Option(option, argument) == [option |-> option, argument |-> argument]

\* buildPipelineReq of to-mp3.
MP3Request ==
    [useCase |-> "pipeline", inputs |-> <<<<>>>>, filters |-> FALSE,
     outputs |-> <<<<Option("-vn", "null"), Option("-c:a", "libmp3lame"), Option("-b:a", "128k")>>>>]
-----------------------------------------------------------------------------
(* The runner. *)

X264Only == {"-x264-params", "-x264opts", "-crf", "-preset"}

\* A faulty form: i++ is missing, and the value stays.
RewriteSkippingFlagsOnly(loop, word, encoder) ==
    IF word \in X264Only THEN loop
    ELSE [loop EXCEPT !.result = Append(@, IF word = CPU THEN encoder ELSE word)]

\* One word in substituteEncoder's loop: a flag of libx264 only is left out, and the word
\* after it (i++), whatever that is; libx264 becomes the encoder.
Rewrite(loop, word, encoder) ==
    IF loop.skip THEN [loop EXCEPT !.skip = FALSE]
    ELSE IF word \in X264Only THEN [loop EXCEPT !.skip = TRUE]
    ELSE [loop EXCEPT !.result = Append(@, IF word = CPU THEN encoder ELSE word)]

Rewritten(args, encoder) ==
    LET loop[i \in 0 .. Len(args)] ==
            IF i = 0 THEN [skip |-> FALSE, result |-> <<>>]
            ELSE Rewrite(loop[i - 1], args[i], encoder)
    IN  loop[Len(args)].result

RateControls == {"-b:v", "-cq", "-qp"}

QualityFlags(encoder) ==
    CASE encoder = NVENC -> <<"-gpu", "0", "-pix_fmt", "yuv420p", "-cq", "20", "-b:v", "0">>
      [] encoder = AMF -> <<"-b:v", "6M", "-maxrate", "12M">>
      [] encoder = MF -> <<"-b:v", "6M">>
      [] OTHER -> <<>>

\* Before the last argument, the output; not when the caller controls the rate.
InjectEncoderQuality(args, encoder) ==
    IF args = <<>> \/ \E i \in DOMAIN args : args[i] \in RateControls
    THEN args
    ELSE Front(args) \o QualityFlags(encoder) \o <<Last(args)>>

SubstituteEncoder(args, encoder) ==
    IF encoder = CPU
    THEN args
    ELSE InjectEncoderQuality(Rewritten(args, encoder), encoder)
-----------------------------------------------------------------------------
(* How FFmpeg reads a command line: an option with an argument takes the word *)
(* after it, whatever that is, and where it reads a word that is no option,   *)
(* it has the name of an output.                                              *)

\* The places at which an option or an output is read.
Places(command) ==
    LET isPlace[i \in 0 .. Len(command)] ==
            i > 0 /\ ~(isPlace[i - 1] /\ command[i - 1] \in WithArgument)
    IN  {i \in DOMAIN command : isPlace[i]}

PlacesOf(command, option) == {i \in Places(command) : command[i] = option}

HasOption(command, option) == PlacesOf(command, option) # {}

InputsOf(command) == PlacesOf(command, "-i")

OutputsOf(command) == {i \in Places(command) : command[i] \notin Options}

\* The argument that an option is given last.
ValueOf(command, option) ==
    LET at == PlacesOf(command, option)
    IN  IF at = {} THEN "none" ELSE command[1 + CHOOSE i \in at : \A k \in at : k <= i]

CodecOf(command) == ValueOf(command, "-c:v")
-----------------------------------------------------------------------------
(* The words of the code. *)

OwnOptions ==
    X264Only \cup RateControls
        \cup {"-ss", "-i", "-t", "-vf", "-filter_complex", "-map", "-c:v", "-c:a", "-b:a",
              "-movflags", "-gpu", "-pix_fmt", "-maxrate"}

OwnArguments ==
    Modes \cup {"start", "input", "length", "filter", "0:v:0", "0:a:0?", "ref=1", "crf",
                "preset", "aac", "subtitles", "copy", "graph", "[v]", "[a]", "96k",
                "+faststart", "libmp3lame", "128k", "0", "yuv420p", "20", "6M", "12M", "output"}

ASSUME OptionsAssumption ==
    /\ Options \subseteq Words /\ OwnArguments \subseteq Words
    /\ Flags \cap WithArgument = {}
    /\ OwnOptions \subseteq WithArgument /\ "-vn" \in Flags
    /\ OwnArguments \cap Options = {}
=============================================================================

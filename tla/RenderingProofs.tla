--------------------------- MODULE RenderingProofs ---------------------------
(***************************************************************************)
(* Proofs about Rendering, for any requests, any options of FFmpeg and any *)
(* number of jobs: the camera is where the keyframes put it, a command is  *)
(* one encoder's and writes the job's output, and the encoder reported is  *)
(* the one used.                                                           *)
(***************************************************************************)
EXTENDS Rendering, CommandLineProofs

ArgsOf(r) == IF IsVertical(r) THEN EncodeArgs(r, <<"-vf", "filter">>) ELSE PlainArgs(r)

\* A filter that the code may build for a request, for a source of this rate.
FilterOf(r, s, f) ==
    \E zooms \in Orders(r.keyframes, "zoom"), scrolls \in Orders(r.keyframes, "scroll") :
        f = Filter(r, Framerate(s), zooms, scrolls)

HasArgs(j) == at[j] \in {"built", "loaded", "running", "done"}
HasEncoder(j) == at[j] \in {"loaded", "running", "done"}
HasCommand(j) == at[j] \in {"running", "done"}

RequestsInv ==
    /\ req \in [Jobs -> Requests \cup {None}]
    /\ \A j \in Jobs : /\ at[j] # "new" => req[j] \in Requests
                       /\ at[j] \notin {"new", "refused"} => Valid(req[j])

\* What a job has is made of its request, and of the encoder it has read.
MadeInv ==
    \A j \in Jobs : /\ HasArgs(j) => args[j] = ArgsOf(req[j])
                    /\ HasEncoder(j) => loaded[j] \in Modes
                    /\ HasCommand(j) => command[j] = SubstituteEncoder(args[j], loaded[j])

CameraInv ==
    /\ source \in [Jobs -> [avg : Nat, r : Nat]]
    /\ DOMAIN filter = Jobs
    /\ \A j \in Jobs :
          HasArgs(j) /\ IsVertical(req[j]) => FilterOf(req[j], source[j], filter[j])

\* Once detection is over the encoder stays, and a job that began after that has it.
SettledInv ==
    \A j \in Jobs : settled[j] =>
        /\ DetectionOver
        /\ HasEncoder(j) => loaded[j] = encoder
        /\ at[j] \in {"begun", "built", "loaded", "running", "done"}
              /\ req[j].useCase \in ReportsAtStart => reported[j] = encoder
        /\ at[j] = "done" /\ req[j].useCase = "caption" /\ req[j].codec = "" =>
              reported[j] = encoder

RenderingInv == RenderingTypeOK /\ RequestsInv /\ MadeInv /\ CameraInv /\ SettledInv

-----------------------------------------------------------------------------
(* The arguments of a job. *)

LEMMA OptionArgsWords ==
    ASSUME NEW options \in OptionLists
    PROVE  /\ OptionArgs(options) \in Seq(Words)
           /\ WellFormed(options) => Taken(OptionArgs(options))
<1> DEFINE Piece(i) == IF RawToString(options[i].argument) = ""
                       THEN <<options[i].option>>
                       ELSE <<options[i].option, RawToString(options[i].argument)>>
           s == [i \in DOMAIN options |-> Piece(i)]
<1>1. OptionArgs(options) = FlattenSeq(s)
  BY DEF OptionArgs
<1>2. \A i \in DOMAIN options :
         /\ options[i].option \in Words
         /\ RawToString(options[i].argument) # "" => RawToString(options[i].argument) \in Words
  <2>1. ASSUME NEW i \in DOMAIN options
        PROVE  options[i].option \in Words /\ options[i].argument \in Words
    <3> DEFINE R == [option : Words, argument : Words]
    <3>1. options[i] \in R
      <4>1. options \in Seq(R)
        BY DEF OptionLists
      <4> HIDE DEF R
      <4> QED BY <4>1
    <3> QED BY <3>1
  <2>2. \A raw : RawToString(raw) # "" => RawToString(raw) = raw
    BY DEF RawToString
  <2> QED BY <2>1, <2>2
<1>3. ASSUME NEW i \in DOMAIN options PROVE Piece(i) \in Seq(Words)
  <2> DEFINE option == options[i].option
             argument == RawToString(options[i].argument)
  <2>1. option \in Words /\ (argument # "" => argument \in Words)
    BY <1>2
  <2>2. Piece(i) = IF argument = "" THEN <<option>> ELSE <<option, argument>>
    OBVIOUS
  <2> HIDE DEF option, argument, Piece
  <2>3. CASE argument = ""
    <3>1. option \in Words
      BY <2>1
    <3>2. <<option>> \in Seq(Words)
      BY ONLY <3>1
    <3> QED BY <2>2, <2>3, <3>2
  <2>4. CASE argument # ""
    <3>1. option \in Words /\ argument \in Words
      BY <2>1, <2>4
    <3>2. <<option, argument>> \in Seq(Words)
      BY ONLY <3>1
    <3> QED BY <2>2, <2>4, <3>2
  <2> QED BY <2>3, <2>4
<1>4. ASSUME NEW C, \A i \in DOMAIN options : Piece(i) \in C PROVE s \in Seq(C)
  <2>1. DOMAIN options = 1 .. Len(options) /\ Len(options) \in Nat
    BY DEF OptionLists
  <2> HIDE DEF Piece
  <2> QED BY <1>4, <2>1
<1>5. OptionArgs(options) \in Seq(Words)
  <2>1. s \in Seq(Seq(Words))
    BY <1>3, <1>4
  <2>2. \A x, y \in Seq(Words) : x \o y \in Seq(Words)
    OBVIOUS
  <2>3. <<>> \in Seq(Words)
    OBVIOUS
  <2> DEFINE C == Seq(Words)
  <2> HIDE DEF s, C
  <2>4. FlattenSeq(s) \in C
    BY <2>1, <2>2, <2>3, FlattenClosed DEF C
  <2> QED BY <1>1, <2>4 DEF C
<1>6. ASSUME WellFormed(options) PROVE Taken(OptionArgs(options))
  <2> DEFINE C == {words \in Seq(Words) : Taken(words)}
  <2>1. ASSUME NEW i \in DOMAIN options PROVE Piece(i) \in C
    <3> DEFINE option == options[i].option
               argument == RawToString(options[i].argument)
    <3>1. \/ option \in Flags /\ argument = ""
          \/ /\ option \in WithArgument /\ argument # "" /\ argument \notin Options
             /\ option \in RateControls => argument # CPU
      BY <1>6 DEF WellFormed
    <3>2. CASE argument = ""
      <4>1. option \in Options /\ option \notin WithArgument /\ RateControls \subseteq WithArgument
        BY <3>1, <3>2, OwnWords, OptionsAssumption DEF Options, OwnOptions
      <4>2. option \in Words
        BY <1>2
      <4> HIDE DEF option
      <4>3. Fragment(<<option>>) /\ KeepsRates(<<option>>)
        BY <4>1, <4>2 DEF Fragment, KeepsRates
      <4>4. Piece(i) = <<option>>
        BY <3>2 DEF option
      <4>5. Piece(i) \in Seq(Words)
        BY <1>3
      <4> HIDE DEF Piece, argument
      <4> QED BY <4>3, <4>4, <4>5 DEF Taken
    <3>3. CASE argument # ""
      <4>1. /\ option \in WithArgument /\ argument \notin Options
            /\ option \in RateControls => argument # CPU
            /\ RateControls \subseteq Options /\ WithArgument \subseteq Options
        BY <3>1, <3>3, OwnWords DEF OwnOptions
      <4>2. option \in Words /\ argument \in Words
        BY <1>2, <3>3
      <4>3. Piece(i) = <<option, argument>>
        BY <3>3
      <4> HIDE DEF option, argument, Piece
      <4>4. Fragment(<<option, argument>>)
        BY <4>1, <4>2 DEF Fragment
      <4>5. KeepsRates(<<option, argument>>)
        BY <4>1, <4>2 DEF KeepsRates
      <4> QED BY <4>2, <4>3, <4>4, <4>5 DEF Taken
    <3> QED BY <3>2, <3>3
  <2>2. s \in Seq(C)
    <3> HIDE DEF C
    <3> QED BY <1>4, <2>1
  <2>3. \A x, y \in C : x \o y \in C
    BY JoinedTaken
  <2>4. <<>> \in C
    <3>1. Taken(<<>>)
      BY OwnPieces, OwnWords
    <3> QED BY <3>1
  <2>5. C \subseteq Seq(Words)
    OBVIOUS
  <2>6. FlattenSeq(s) \in C
    <3> HIDE DEF s, C
    <3> QED BY <2>2, <2>3, <2>4, <2>5, FlattenClosed
  <2> QED BY <1>1, <2>6
<1> QED BY <1>5, <1>6

LEMMA PipelineLine ==
    ASSUME NEW r \in Requests, r.useCase = "pipeline", Valid(r)
    PROVE  /\ PipelineArgs(r) \in Seq(Words)
           /\ FFmpegWouldTake(r) => \E f : Taken(f) /\ PipelineArgs(r) = Line(f)
<1> DEFINE input == <<"-i", "input">>
           s == [i \in DOMAIN r.inputs |-> OptionArgs(r.inputs[i]) \o input]
           graph == IF r.filters THEN <<"-filter_complex", "graph">> ELSE <<>>
           options == OptionArgs(r.outputs[1])
           f == FlattenSeq(s) \o graph \o options
<1>1. PipelineArgs(r) = Line(f)
  BY DEF PipelineArgs, Line
<1>2. r.inputs \in Seq(OptionLists) /\ r.outputs \in Seq(OptionLists) /\ r.outputs # <<>>
  BY RenderingAssumption DEF RequestsAssumption, Valid
<1>3. /\ \A i \in DOMAIN r.inputs : r.inputs[i] \in OptionLists
      /\ DOMAIN r.inputs = 1 .. Len(r.inputs) /\ Len(r.inputs) \in Nat
      /\ r.outputs[1] \in OptionLists
  BY <1>2
<1>4. Taken(input) /\ Taken(graph) /\ Taken(<<>>)
  BY OwnPieces, OwnWords
<1>5. input \in Seq(Words) /\ graph \in Seq(Words)
  BY <1>4 DEF Taken, Fragment
<1> HIDE DEF input, graph
<1>6. ASSUME NEW C, \A i \in DOMAIN r.inputs : OptionArgs(r.inputs[i]) \o input \in C
      PROVE  s \in Seq(C)
  BY <1>3, <1>6
<1>7. PipelineArgs(r) \in Seq(Words)
  <2> DEFINE C == Seq(Words)
  <2>1. \A i \in DOMAIN r.inputs : OptionArgs(r.inputs[i]) \o input \in C
    BY <1>3, <1>5, OptionArgsWords
  <2>2. \A x, y \in C : x \o y \in C
    OBVIOUS
  <2>3. <<>> \in C
    OBVIOUS
  <2>4. FlattenSeq(s) \in C
    <3>1. s \in Seq(C)
      <4> HIDE DEF C, s
      <4> QED BY <1>6, <2>1
    <3> HIDE DEF s, C
    <3> QED BY <2>2, <2>3, <3>1, FlattenClosed DEF C
  <2>5. options \in C
    BY <1>3, OptionArgsWords
  <2> HIDE DEF options, s
  <2>6. f \in Seq(Words)
    BY <1>5, <2>4, <2>5
  <2>7. "output" \in Words
    BY OwnWords
  <2> HIDE DEF f
  <2> QED BY <1>1, <2>6, <2>7 DEF Line
<1>8. ASSUME FFmpegWouldTake(r) PROVE Taken(f)
  <2> DEFINE C == {words \in Seq(Words) : Taken(words)}
  <2>1. ASSUME NEW i \in DOMAIN r.inputs PROVE OptionArgs(r.inputs[i]) \o input \in C
    <3>1. Taken(OptionArgs(r.inputs[i]))
      BY <1>3, <1>8, OptionArgsWords DEF FFmpegWouldTake
    <3>2. Taken(OptionArgs(r.inputs[i]) \o input)
      BY <1>4, <3>1, JoinedTaken
    <3> QED BY <3>2 DEF Taken, Fragment
  <2>2. \A x, y \in C : x \o y \in C
    BY JoinedTaken
  <2>3. <<>> \in C
    BY <1>4
  <2>4. C \subseteq Seq(Words)
    OBVIOUS
  <2>5. FlattenSeq(s) \in C
    <3>1. s \in Seq(C)
      <4> HIDE DEF C, s
      <4> QED BY <1>6, <2>1
    <3> HIDE DEF s, C
    <3> QED BY <2>2, <2>3, <2>4, <3>1, FlattenClosed
  <2>6. Taken(options)
    BY <1>3, <1>8, OptionArgsWords DEF FFmpegWouldTake
  <2> HIDE DEF options, s
  <2>7. Taken(FlattenSeq(s) \o graph)
    BY <1>4, <2>5, JoinedTaken
  <2> QED BY <2>6, <2>7, JoinedTaken
<1> HIDE DEF f
<1> QED BY <1>1, <1>7, <1>8

LEMMA ArgsWords ==
    ASSUME NEW r \in Requests, Valid(r)
    PROVE  /\ ArgsOf(r) \in Seq(Words)
           /\ FFmpegWouldTake(r) => \E f : Taken(f) /\ ArgsOf(r) = Line(f)
<1>1. r.useCase \in UseCases /\ (r.useCase \in {"caption", "cuts"} => r.codec \in Words)
  BY RenderingAssumption DEF RequestsAssumption
<1>2. \A f : Taken(f) => Line(f) \in Seq(Words)
  BY LineProperties DEF Taken
<1>3. CASE IsVertical(r) \/ r.useCase = "clips"
  <2>1. PICK option \in {<<>>, <<"-vf", "filter">>} : ArgsOf(r) = EncodeArgs(r, option)
    BY <1>3 DEF ArgsOf, PlainArgs
  <2>2. PICK f : Taken(f) /\ EncodeArgs(r, option) = Line(f)
    BY EncodeLine
  <2> QED BY <1>2, <2>1, <2>2
<1>4. CASE r.useCase = "caption"
  <2>1. ArgsOf(r) = CaptionArgs(r)
    BY <1>4 DEF ArgsOf, PlainArgs, IsVertical
  <2>2. CaptionArgs(r) \in Seq(Words)
    <3> DEFINE codec == IF r.codec = "" THEN CPU ELSE r.codec
               a == <<"-i", "input", "-vf", "subtitles", "-c:a", "copy", "-c:v", codec>>
               x264 == <<"-x264-params", "ref=1">> \o Quality
               b == IF codec = CPU THEN x264 ELSE <<>>
               c == <<"output">>
    <3>1. CaptionArgs(r) = a \o b \o c
      BY DEF CaptionArgs
    <3>2. codec \in Words
      BY <1>1, <1>4, OwnWords
    <3> HIDE DEF codec
    <3>3. {"-i", "input", "-vf", "subtitles", "-c:a", "copy", "-c:v", "-x264-params", "ref=1",
           "-crf", "crf", "-preset", "preset", "output"} \subseteq Words
      BY OwnWords DEF OwnOptions, OwnArguments, X264Only
    <3>4. a \in Seq(Words) /\ c \in Seq(Words)
      BY <3>2, <3>3
    <3>5. x264 \in Seq(Words)
      <4>1. <<"-x264-params", "ref=1">> \in Seq(Words) /\ Quality \in Seq(Words)
        BY <3>3 DEF Quality
      <4> QED BY <4>1
    <3> HIDE DEF a, c, x264
    <3>6. b \in Seq(Words)
      BY <3>5
    <3> HIDE DEF b
    <3> QED BY <3>1, <3>4, <3>6
  <2>3. FFmpegWouldTake(r) => \E f : Taken(f) /\ CaptionArgs(r) = Line(f)
    BY <1>1, <1>4, CaptionLine DEF FFmpegWouldTake
  <2> QED BY <2>1, <2>2, <2>3
<1>5. CASE r.useCase = "cuts"
  <2>1. ArgsOf(r) = CutsArgs(r)
    BY <1>5 DEF ArgsOf, PlainArgs, IsVertical
  <2>2. CutsArgs(r) \in Seq(Words)
    <3> DEFINE codec == IF r.codec = "" THEN CPU ELSE r.codec
               a == <<"-i", "input", "-filter_complex", "graph", "-map", "[v]", "-map", "[a]",
                      "-c:v", codec>>
               b == <<"-c:a", "aac", "-b:a", "96k", "-movflags", "+faststart">>
               c == <<"output">>
    <3>1. CutsArgs(r) = a \o Quality \o b \o c
      BY DEF CutsArgs
    <3>2. codec \in Words
      BY <1>1, <1>5, OwnWords
    <3> HIDE DEF codec
    <3>3. {"-i", "input", "-filter_complex", "graph", "-map", "[v]", "[a]", "-c:v", "-c:a", "aac",
           "-b:a", "96k", "-movflags", "+faststart", "-crf", "crf", "-preset", "preset",
           "output"} \subseteq Words
      BY OwnWords DEF OwnOptions, OwnArguments, X264Only
    <3>4. a \in Seq(Words) /\ b \in Seq(Words) /\ c \in Seq(Words) /\ Quality \in Seq(Words)
      BY <3>2, <3>3 DEF Quality
    <3> HIDE DEF a, b, c
    <3> QED BY <3>1, <3>4
  <2>3. FFmpegWouldTake(r) => \E f : Taken(f) /\ CutsArgs(r) = Line(f)
    BY <1>1, <1>5, CutsLine DEF FFmpegWouldTake
  <2> QED BY <2>1, <2>2, <2>3
<1>6. CASE r.useCase = "pipeline"
  <2>1. ArgsOf(r) = PipelineArgs(r)
    BY <1>6 DEF ArgsOf, PlainArgs, IsVertical
  <2> QED BY <1>6, <2>1, PipelineLine
<1> QED BY <1>1, <1>3, <1>4, <1>5, <1>6 DEF UseCases, IsVertical
-----------------------------------------------------------------------------
(* The camera. *)

\* The value of nested ifs whose conditions have been sorted by time.
LEMMA ValueOfBranches ==
    ASSUME NEW expr, NEW t, NEW m \in DOMAIN expr.branches, DOMAIN expr.branches \subseteq Nat,
           t < expr.branches[m].until,
           \A i \in DOMAIN expr.branches : t < expr.branches[i].until => m <= i
    PROVE  Value(expr, t) = expr.branches[m].value
<1> DEFINE taken == {i \in DOMAIN expr.branches : t < expr.branches[i].until}
           first == CHOOSE i \in taken : \A k \in taken : i <= k
<1>1. m \in taken /\ \A k \in taken : m <= k
  OBVIOUS
<1>2. first \in taken /\ \A k \in taken : first <= k
  BY <1>1
<1>3. first = m
  BY <1>1, <1>2
<1>4. Value(expr, t) = expr.branches[first].value
  BY <1>1 DEF Value
<1> QED BY <1>3, <1>4

LEMMA OrderFacts ==
    ASSUME NEW K, NEW keyframes \in Seq(K), NEW field, NEW order \in Orders(keyframes, field)
    PROVE  /\ Len(order) \in Nat /\ DOMAIN order = 1 .. Len(order)
           /\ \A i \in 1 .. Len(order) : order[i] \in Setting(keyframes, field)
           /\ \A p \in Setting(keyframes, field) : \E i \in 1 .. Len(order) : order[i] = p
           /\ \A i, k \in 1 .. Len(order) :
                 i < k => keyframes[order[i]].time <= keyframes[order[k]].time
<1> DEFINE chosen == Setting(keyframes, field)
           n == Cardinality(chosen)
<1>1. n \in Nat
  <2>1. DOMAIN keyframes = 1 .. Len(keyframes) /\ Len(keyframes) \in Nat
    OBVIOUS
  <2>2. IsFiniteSet(DOMAIN keyframes)
    BY <2>1, FS_Interval
  <2>3. chosen \subseteq DOMAIN keyframes
    BY DEF Setting
  <2> QED BY <2>2, <2>3, FS_Subset, FS_CardinalityType
<1>2. /\ order \in Bijection(1 .. n, chosen)
      /\ \A i, k \in DOMAIN order :
            i < k => keyframes[order[i]].time <= keyframes[order[k]].time
  BY DEF Orders
<1> HIDE DEF chosen, n
<1>3. order \in [1 .. n -> chosen] /\ \A p \in chosen : \E i \in 1 .. n : order[i] = p
  BY <1>2 DEF Bijection, Surjection
<1>4. Len(order) = n /\ DOMAIN order = 1 .. n
  BY <1>1, <1>3
<1> QED BY <1>1, <1>2, <1>3, <1>4 DEF chosen

\* The branches of an expression are those of a static value, unless the first keyframe is at
\* the start, and of each value but the last.
Branches(expr, p, n, static, times, values) ==
    /\ p \in {0, 1} /\ (p = 1 <=> n > 0 /\ times[1] > 0)
    /\ DOMAIN expr.branches = 1 .. (IF n = 0 THEN 0 ELSE p + n - 1)
    /\ p = 1 => expr.branches[1].until = times[1] /\ expr.branches[1].value = static
    /\ \A k \in 1 .. n - 1 : /\ expr.branches[p + k].until = times[k + 1]
                             /\ expr.branches[p + k].value = values[k]
    /\ expr.last = IF n = 0 THEN static ELSE values[n]

LEMMA BuildExprBranches ==
    ASSUME NEW static, NEW keyframes, NEW field, NEW order, NEW n \in Nat, n = Len(order),
           NEW times \in [1 .. n -> Int],
           \A i \in 1 .. n : times[i] = keyframes[order[i]].time,
           NEW values, \A i \in 1 .. n : values[i] = keyframes[order[i]][field]
    PROVE  \E p : Branches(BuildExpr(static, keyframes, field, order), p, n, static, times, values)
<1> DEFINE Held == [i \in 1 .. n - 1 |-> [until |-> times[i + 1], value |-> values[i]]]
           Before == IF n > 0 /\ times[1] > 0 THEN <<[until |-> times[1], value |-> static]>>
                     ELSE <<>>
           expr == BuildExpr(static, keyframes, field, order)
           p == Len(Before)
           l == IF n = 0 THEN 0 ELSE n - 1
<1>1. expr = [branches |-> Before \o Held, last |-> IF n = 0 THEN static ELSE values[n]]
  <2>1. \A i \in 1 .. n - 1 : i \in 1 .. n /\ i + 1 \in 1 .. n
    OBVIOUS
  <2>2. [i \in 1 .. n - 1 |-> [until |-> keyframes[order[i + 1]].time,
                               value |-> keyframes[order[i]][field]]] = Held
    BY <2>1
  <2>3. n > 0 => 1 \in 1 .. n /\ n \in 1 .. n
    OBVIOUS
  <2>4. n > 0 => keyframes[order[1]].time = times[1] /\ keyframes[order[n]][field] = values[n]
    BY <2>3
  <2>5. n = 0 \/ n > 0
    OBVIOUS
  <2> HIDE DEF Held
  <2> QED BY <2>2, <2>4, <2>5 DEF BuildExpr
<1> DEFINE S == {[until |-> times[i + 1], value |-> values[i]] : i \in 1 .. n - 1}
                    \cup {[until |-> times[1], value |-> static]}
<1>2. 1 .. n - 1 = 1 .. l /\ l \in Nat
  OBVIOUS
<1>3. Held \in Seq(S) /\ Len(Held) = l
  <2>1. \A i \in 1 .. n - 1 : Held[i] \in S
    OBVIOUS
  <2>2. DOMAIN Held = 1 .. l /\ Held = [i \in 1 .. l |-> Held[i]]
    BY <1>2
  <2> HIDE DEF S, Held, l
  <2>3. Held \in [1 .. l -> S]
    BY <1>2, <2>1, <2>2
  <2> QED BY <1>2, <2>3
<1>4. /\ Before \in Seq(S) /\ p \in {0, 1} /\ (p = 1 <=> n > 0 /\ times[1] > 0)
      /\ p = 1 => Before[1].until = times[1] /\ Before[1].value = static
  <2>1. [until |-> times[1], value |-> static] \in S
    OBVIOUS
  <2> HIDE DEF S
  <2> QED BY <2>1
<1>5. \A k \in 1 .. n - 1 : Held[k].until = times[k + 1] /\ Held[k].value = values[k]
  OBVIOUS
<1> DEFINE b == Before \o Held
<1> HIDE DEF Before, Held, S, p, l
<1>6. /\ DOMAIN b = 1 .. p + l
      /\ \A i \in 1 .. p : b[i] = Before[i]
      /\ \A k \in 1 .. l : b[p + k] = Held[k]
  <2>1. /\ b \in Seq(S) /\ Len(b) = Len(Before) + Len(Held)
        /\ \A i \in 1 .. Len(Before) : b[i] = Before[i]
        /\ \A k \in 1 .. Len(Held) : b[Len(Before) + k] = Held[k]
    <3>1. Before \in Seq(S) /\ Held \in Seq(S)
      BY <1>3, <1>4
    <3> QED BY ONLY <3>1
  <2> HIDE DEF b
  <2> QED BY <1>3, <2>1 DEF p
<1> HIDE DEF b
<1>7. p + l = IF n = 0 THEN 0 ELSE p + n - 1
  BY <1>4 DEF l
<1>8. p = 1 => b[1].until = times[1] /\ b[1].value = static
  <2>1. p = 1 => 1 \in 1 .. p
    BY <1>4
  <2> QED BY <1>4, <1>6, <2>1
<1>9. \A k \in 1 .. n - 1 : b[p + k].until = times[k + 1] /\ b[p + k].value = values[k]
  BY <1>2, <1>5, <1>6
<1>10. expr.branches = b /\ expr.last = IF n = 0 THEN static ELSE values[n]
  BY <1>1 DEF b
<1> HIDE DEF expr
<1>11. Branches(expr, p, n, static, times, values)
  BY <1>4, <1>6, <1>7, <1>8, <1>9, <1>10 DEF Branches
<1> QED BY <1>11 DEF expr

LEMMA BuildExprFollows ==
    ASSUME NEW static, NEW K, NEW keyframes \in Seq(K),
           \A i \in DOMAIN keyframes : keyframes[i].time \in Int,
           NEW field, NEW order \in Orders(keyframes, field), NEW t \in Nat
    PROVE  Value(BuildExpr(static, keyframes, field, order), t)
              \in Asked(static, keyframes, field, t)
<1> DEFINE n == Len(order)
           times == [i \in 1 .. n |-> keyframes[order[i]].time]
           values == [i \in 1 .. n |-> keyframes[order[i]][field]]
           expr == BuildExpr(static, keyframes, field, order)
           chosen == Setting(keyframes, field)
           begun == {p \in chosen : keyframes[p].time <= t}
           latest == {p \in begun : \A q \in begun : keyframes[q].time <= keyframes[p].time}
           asked == Asked(static, keyframes, field, t)
<1>1. asked = IF begun = {} THEN {static} ELSE {keyframes[p][field] : p \in latest}
  <2>1. {i \in DOMAIN keyframes : keyframes[i][field] # Unset /\ keyframes[i].time <= t} = begun
    BY DEF Setting
  <2> HIDE DEF begun
  <2> QED BY <2>1 DEF Asked
<1>2. /\ n \in Nat /\ \A i \in 1 .. n : order[i] \in chosen
      /\ \A p \in chosen : \E i \in 1 .. n : order[i] = p
      /\ \A i, k \in 1 .. n : i < k => keyframes[order[i]].time <= keyframes[order[k]].time
  <2> HIDE DEF times, values, expr, begun, latest, asked
  <2> QED BY OrderFacts
<1>3. \A p \in chosen : keyframes[p].time \in Int
  BY DEF Setting
<1>4. /\ times \in [1 .. n -> Int] /\ \A i \in 1 .. n : times[i] = keyframes[order[i]].time
      /\ \A i \in 1 .. n : values[i] = keyframes[order[i]][field]
  BY <1>2, <1>3
<1>5. PICK p : Branches(expr, p, n, static, times, values)
  <2> HIDE DEF n, times, values
  <2> QED BY <1>2, <1>4, BuildExprBranches DEF n
<1>6. \A i, k \in 1 .. n : i <= k => times[i] <= times[k]
  <2>1. ASSUME NEW i \in 1 .. n, NEW k \in 1 .. n, i <= k PROVE times[i] <= times[k]
    <3>1. i = k \/ i < k
      BY <2>1
    <3> QED BY <1>2, <1>4, <3>1
  <2> QED BY <2>1
<1> HIDE DEF n, times, values, expr, chosen, asked
<1>7. DOMAIN expr.branches \subseteq Nat
  BY <1>5 DEF Branches
<1>8. CASE n = 0
  <2>1. begun = {}
    BY <1>2, <1>8
  <2>2. DOMAIN expr.branches = {} /\ expr.last = static
    BY <1>5, <1>8 DEF Branches
  <2>3. Value(expr, t) = static
    BY <2>2 DEF Value
  <2> QED BY <1>1, <2>1, <2>3 DEF expr, asked
<1>9. CASE n > 0 /\ t < times[1]
  <2>1. 1 \in 1 .. n /\ times[1] > 0 /\ times[1] \in Int
    BY <1>2, <1>4, <1>9
  <2>2. begun = {}
    <3>1. ASSUME NEW q \in chosen, keyframes[q].time <= t PROVE FALSE
      <4>1. PICK i \in 1 .. n : order[i] = q
        BY <1>2
      <4>2. times[1] <= times[i] /\ times[i] <= t /\ times[i] \in Int
        BY <1>2, <1>4, <1>6, <2>1, <3>1, <4>1
      <4> QED BY ONLY <1>9, <2>1, <4>2, t \in Nat
    <3> QED BY <3>1
  <2>3. /\ p = 1 /\ expr.branches[1].until = times[1] /\ expr.branches[1].value = static
        /\ 1 \in DOMAIN expr.branches
    BY <1>2, <1>5, <1>9, <2>1 DEF Branches
  <2>4. t < expr.branches[1].until /\ \A i \in DOMAIN expr.branches : 1 <= i
    BY <1>5, <1>9, <2>3 DEF Branches
  <2>5. Value(expr, t) = static
    BY <1>7, <2>3, <2>4, ValueOfBranches
  <2> QED BY <1>1, <2>2, <2>5 DEF expr, asked
<1>10. CASE n > 0 /\ ~(t < times[1])
  <2>1. 1 \in 1 .. n /\ times[1] \in Int /\ times[1] <= t
    BY <1>2, <1>4, <1>10
  <2>2. PICK m \in 1 .. n : times[m] <= t /\ \A i \in 1 .. n : times[i] <= t => i <= m
    <3> DEFINE S == {i \in 1 .. n : times[i] <= t}
    <3>1. S \subseteq 0 .. n /\ S # {}
      BY <1>2, <2>1
    <3>2. \E x \in S : \A y \in S : y <= x
      <4> HIDE DEF S
      <4> QED BY <1>2, <3>1, GreatestNatural
    <3> QED BY <3>2
  <2>3. keyframes[order[m]][field] \in asked
    <3>1. order[m] \in begun
      BY <1>2, <1>4, <2>2
    <3>2. ASSUME NEW q \in begun PROVE keyframes[q].time <= keyframes[order[m]].time
      <4>1. PICK i \in 1 .. n : order[i] = q
        BY <1>2
      <4>2. times[i] <= t
        BY <1>4, <4>1
      <4>3. times[i] <= times[m]
        BY <1>6, <2>2, <4>2
      <4> QED BY <1>4, <4>1, <4>3
    <3>3. order[m] \in latest
      BY <3>1, <3>2
    <3> HIDE DEF begun, latest
    <3> QED BY <1>1, <3>1, <3>3
  <2>4. Value(expr, t) = values[m]
    <3>1. \A i \in 1 .. n : i > m => t < times[i]
      BY <1>2, <1>4, <2>2
    <3>2. \A i \in 1 .. n : i <= m => times[i] <= t
      <4>1. ASSUME NEW i \in 1 .. n, i <= m PROVE times[i] <= t
        <5>1. times[i] <= times[m] /\ times[i] \in Int /\ times[m] \in Int
          BY <1>4, <1>6, <4>1
        <5> QED BY ONLY <2>2, <5>1, t \in Nat
      <4> QED BY <4>1
    <3>3. /\ p \in {0, 1} /\ DOMAIN expr.branches = 1 .. p + n - 1
          /\ p = 1 => expr.branches[1].until = times[1]
          /\ \A k \in 1 .. n - 1 : /\ expr.branches[p + k].until = times[k + 1]
                                   /\ expr.branches[p + k].value = values[k]
          /\ expr.last = values[n]
      BY <1>10, <1>5 DEF Branches
    <3>4. ASSUME NEW i \in DOMAIN expr.branches, t < expr.branches[i].until
          PROVE  m < n /\ p + m <= i
      <4>1. i \in 1 .. p + n - 1
        BY <3>3
      <4>2. CASE i <= p
        <5>1. i = 1 /\ p = 1
          BY <3>3, <4>1, <4>2
        <5> QED BY <2>1, <3>3, <3>4, <5>1
      <4>3. CASE i > p
        <5> DEFINE k == i - p
        <5>1. k \in 1 .. n - 1 /\ i = p + k /\ k + 1 \in 1 .. n
          BY <1>2, <3>3, <4>1, <4>3
        <5>2. t < times[k + 1]
          <6> HIDE DEF k
          <6> QED BY <3>3, <3>4, <5>1
        <5>3. ~(k + 1 <= m)
          <6>1. times[k + 1] \in Int
            BY <1>4, <5>1
          <6>2. k + 1 <= m => times[k + 1] <= t
            BY <3>2, <5>1
          <6> QED BY ONLY <5>2, <6>1, <6>2, t \in Nat
        <5> HIDE DEF k
        <5> QED BY <1>2, <3>3, <5>1, <5>3
      <4> QED BY <3>3, <4>1, <4>2, <4>3
    <3>5. CASE m = n
      <4>1. {i \in DOMAIN expr.branches : t < expr.branches[i].until} = {}
        BY <3>4, <3>5
      <4> QED BY <3>3, <3>5, <4>1 DEF Value
    <3>6. CASE m # n
      <4>1. m \in 1 .. n - 1 /\ m + 1 \in 1 .. n /\ m + 1 > m
        BY <1>2, <3>6
      <4>2. p + m \in DOMAIN expr.branches
        BY <1>2, <3>3, <4>1
      <4>3. t < expr.branches[p + m].until /\ expr.branches[p + m].value = values[m]
        BY <3>1, <3>3, <4>1
      <4>4. \A i \in DOMAIN expr.branches : t < expr.branches[i].until => p + m <= i
        BY <3>4
      <4>5. Value(expr, t) = expr.branches[p + m].value
        BY <1>7, <4>2, <4>3, <4>4, ValueOfBranches
      <4> QED BY <4>3, <4>5
    <3> QED BY <3>5, <3>6
  <2> QED BY <1>4, <2>3, <2>4 DEF expr, asked
<1> QED BY <1>2, <1>8, <1>9, <1>10

LEMMA FilterFollows ==
    ASSUME NEW r, r.zoom \in Int, r.scroll \in Int,
           r.keyframes \in Seq([time : Int, zoom : Int \cup {Unset}, scroll : Int \cup {Unset}]),
           NEW s, NEW f, FilterOf(r, s, f), NEW t \in Nat
    PROVE  Follows(f, r, t)
<1> DEFINE K == [time : Int, zoom : Int \cup {Unset}, scroll : Int \cup {Unset}]
           keyframes == r.keyframes
<1>1. PICK zooms \in Orders(keyframes, "zoom"), scrolls \in Orders(keyframes, "scroll") :
         f = Filter(r, Framerate(s), zooms, scrolls)
  BY DEF FilterOf
<1>2. \A i \in DOMAIN keyframes : /\ keyframes[i].time \in Int
                                  /\ keyframes[i].zoom \in Int \cup {Unset}
  <2>1. keyframes \in Seq(K)
    OBVIOUS
  <2>2. \A k \in K : k.time \in Int /\ k.zoom \in Int \cup {Unset}
    OBVIOUS
  <2> HIDE DEF K, keyframes
  <2> QED BY <2>1, <2>2
<1>3. keyframes \in Seq(K)
  OBVIOUS
<1> HIDE DEF K, keyframes
<1> DEFINE zoom == BuildExpr(r.zoom, keyframes, "zoom", zooms)
           scroll == BuildExpr(r.scroll, keyframes, "scroll", scrolls)
<1>4. Value(scroll, t) \in Asked(r.scroll, keyframes, "scroll", t)
  BY <1>2, <1>3, BuildExprFollows
<1>5. f.scroll = scroll
  BY <1>1 DEF Filter, keyframes
<1>6. ScrollShown(f, t) \in Asked(r.scroll, keyframes, "scroll", t)
  BY <1>4, <1>5 DEF ScrollShown
<1>7. ZoomShown(f, t) \in {ZoomFactor(z) : z \in Asked(r.zoom, keyframes, "zoom", t)}
  <2>1. CASE HasZoomKeyframes(keyframes)
    <3>1. f.crop = 100 /\ f.zoom = zoom
      BY <1>1, <2>1 DEF Filter, keyframes
    <3> DEFINE v == Value(zoom, t)
               asked == Asked(r.zoom, keyframes, "zoom", t)
    <3>2. v \in asked
      BY <1>2, <1>3, BuildExprFollows
    <3>3. asked \subseteq Int
      <4>1. \A i \in DOMAIN keyframes : keyframes[i]["zoom"] # Unset => keyframes[i]["zoom"] \in Int
        BY <1>2
      <4> QED BY <4>1 DEF Asked
    <3> HIDE DEF zoom, v, asked
    <3>4. ZoomFactor(v) \in Int
      BY <3>2, <3>3 DEF ZoomFactor
    <3>5. ZoomShown(f, t) = (100 * ZoomFactor(v)) \div 100
      BY <3>1 DEF ZoomShown, v
    <3>6. ZoomShown(f, t) = ZoomFactor(v)
      <4> DEFINE z == ZoomFactor(v)
      <4> HIDE DEF z
      <4>1. z \in Int => (100 * z) \div 100 = z
        OBVIOUS
      <4> QED BY <3>4, <3>5, <4>1 DEF z
    <3> QED BY <3>2, <3>6 DEF asked
  <2>2. CASE ~HasZoomKeyframes(keyframes)
    <3>1. f.crop = ZoomFactor(r.zoom) /\ f.zoom.branches = <<>> /\ f.zoom.last = 0
      BY <1>1, <2>2 DEF Filter, keyframes
    <3>2. Value(f.zoom, t) = 0
      <4>1. DOMAIN f.zoom.branches = {}
        BY <3>1
      <4>2. {i \in DOMAIN f.zoom.branches : t < f.zoom.branches[i].until} = {}
        BY <4>1
      <4> QED BY <3>1, <4>2 DEF Value
    <3>3. ZoomFactor(0) = 100 /\ ZoomFactor(r.zoom) \in Int
      BY DEF ZoomFactor
    <3>4. ZoomShown(f, t) = (ZoomFactor(r.zoom) * 100) \div 100
      BY <3>1, <3>2, <3>3 DEF ZoomShown
    <3>5. ZoomShown(f, t) = ZoomFactor(r.zoom)
      <4> DEFINE z == ZoomFactor(r.zoom)
      <4> HIDE DEF z
      <4>1. z \in Int => (z * 100) \div 100 = z
        OBVIOUS
      <4> QED BY <3>3, <3>4, <4>1 DEF z
    <3>6. Asked(r.zoom, keyframes, "zoom", t) = {r.zoom}
      <4>1. {i \in DOMAIN keyframes : keyframes[i]["zoom"] # Unset /\ keyframes[i].time <= t} = {}
        BY <2>2 DEF HasZoomKeyframes, Setting
      <4> QED BY <4>1 DEF Asked
    <3> QED BY <3>5, <3>6
  <2> QED BY <2>1, <2>2
<1> QED BY <1>6, <1>7 DEF Follows, keyframes

-----------------------------------------------------------------------------
(* The invariant. *)

Detects == Override \/ NoFFmpeg \/ TryEncoder \/ SetEncoder

JobSteps(j) ==
    \/ Arrive(j) \/ Begin(j) \/ BuildVertical(j) \/ Build(j) \/ BuildFail(j)
    \/ LoadEncoder(j) \/ Start(j) \/ End(j)

LEMMA DetectsTypes ==
    ASSUME RenderingTypeOK, Detects
    PROVE  /\ found' \in Modes \cup {"none"} /\ encoder' \in Modes /\ probing' \in Seq(Modes)
           /\ UNCHANGED jobVars
<1>1. found \in Modes \cup {"none"} /\ encoder \in Modes /\ probing \in Seq(Modes)
  BY DEF RenderingTypeOK
<1>2. CASE Override
  BY <1>1, <1>2 DEF Override, Detecting, Choose
<1>3. CASE NoFFmpeg
  BY <1>1, <1>3, OwnWords DEF NoFFmpeg, Detecting, Choose
<1>4. CASE TryEncoder
  <2>1. UNCHANGED <<encoder, jobVars>>
    BY <1>4 DEF TryEncoder, Detecting
  <2>2. CASE probing = <<>>
    BY <1>1, <1>4, <2>1, <2>2, OwnWords DEF TryEncoder, Choose
  <2>3. CASE probing # <<>>
    <3>1. Head(probing) \in Modes /\ Tail(probing) \in Seq(Modes)
      BY <1>1, <2>3
    <3>2. CASE Choose(Head(probing))
      BY <1>1, <2>1, <3>1, <3>2 DEF Choose
    <3>3. CASE probing' = Tail(probing) /\ UNCHANGED found
      BY <1>1, <2>1, <3>1, <3>3
    <3> QED BY <1>4, <2>3, <3>2, <3>3 DEF TryEncoder
  <2> QED BY <2>2, <2>3
<1>5. CASE SetEncoder
  BY <1>1, <1>5 DEF SetEncoder
<1> QED BY <1>2, <1>3, <1>4, <1>5 DEF Detects

LEMMA TypeInit == Init => RenderingInv
<1> SUFFICES ASSUME Init PROVE RenderingInv
  OBVIOUS
<1>1. Candidates(env.windows) \in Seq(Modes)
  BY DEF Candidates, Modes
<1>2. <<>> \in Seq(Words)
  OBVIOUS
<1>3. RenderingTypeOK
  BY <1>1, <1>2, OwnWords DEF Init, RenderingTypeOK, None
<1>4. RequestsInv
  BY DEF Init, RequestsInv, None
<1>5. MadeInv
  BY DEF Init, MadeInv, HasArgs, HasEncoder, HasCommand
<1>6. CameraInv
  BY DEF Init, CameraInv, HasArgs
<1>7. SettledInv
  BY DEF Init, SettledInv
<1> QED BY <1>3, <1>4, <1>5, <1>6, <1>7 DEF RenderingInv

LEMMA TypeStep ==
    ASSUME RenderingInv, [Next]_vars
    PROVE  RenderingTypeOK'
<1> DEFINE Stages == {"new", "refused", "accepted", "begun", "built", "loaded", "running",
                      "done", "failed"}
<1>1. /\ found \in Modes \cup {"none"} /\ encoder \in Modes /\ probing \in Seq(Modes)
      /\ at \in [Jobs -> Stages]
      /\ loaded \in [Jobs -> Modes \cup {"none"}] /\ reported \in [Jobs -> Words \cup {"none"}]
      /\ args \in [Jobs -> Seq(Words)] /\ command \in [Jobs -> Seq(Words)]
      /\ settled \in [Jobs -> BOOLEAN]
  BY DEF RenderingInv, RenderingTypeOK
<1>2. /\ req \in [Jobs -> Requests \cup {None}]
      /\ \A j \in Jobs : /\ at[j] # "new" => req[j] \in Requests
                         /\ at[j] \notin {"new", "refused"} => Valid(req[j])
  BY DEF RenderingInv, RequestsInv
<1>3. Modes \subseteq Words
  BY OwnWords
<1> DEFINE JobsTyped == /\ at' \in [Jobs -> Stages]
                        /\ req' \in [Jobs -> Requests \cup {None}]
                        /\ loaded' \in [Jobs -> Modes \cup {"none"}]
                        /\ reported' \in [Jobs -> Words \cup {"none"}]
                        /\ args' \in [Jobs -> Seq(Words)]
                        /\ command' \in [Jobs -> Seq(Words)]
                        /\ settled' \in [Jobs -> BOOLEAN]
<1>4. ASSUME found' \in Modes \cup {"none"}, encoder' \in Modes, probing' \in Seq(Modes), JobsTyped
      PROVE  RenderingTypeOK'
  BY <1>4 DEF RenderingTypeOK
<1>5. CASE UNCHANGED vars
  BY <1>1, <1>2, <1>4, <1>5 DEF vars, detection, jobVars
<1>6. CASE Detects
  <2>1. JobsTyped
    BY <1>1, <1>2, <1>6, DetectsTypes DEF RenderingInv, jobVars
  <2> QED BY <1>4, <1>6, <2>1, DetectsTypes DEF RenderingInv
<1>7. ASSUME NEW j \in Jobs, JobSteps(j) PROVE RenderingTypeOK'
  <2>1. ASSUME UNCHANGED detection, JobsTyped PROVE RenderingTypeOK'
    <3> HIDE DEF JobsTyped
    <3> QED BY <1>1, <1>4, <2>1 DEF detection
  <2> DEFINE r == req[j]
  <2>2. CASE Arrive(j)
    BY <1>1, <1>2, <2>1, <2>2 DEF Arrive
  <2>3. CASE Begin(j)
    <3>1. DetectionOver \in BOOLEAN
      BY DEF DetectionOver
    <3>2. settled' \in [Jobs -> BOOLEAN]
      BY <1>1, <2>3, <3>1 DEF Begin
    <3>3. at' \in [Jobs -> Stages]
      BY <1>1, <2>3 DEF Begin, Goto
    <3>4. reported' \in [Jobs -> Words \cup {"none"}]
      BY <1>1, <1>3, <2>3 DEF Begin
    <3> QED BY <1>1, <1>2, <2>1, <2>3, <3>2, <3>3, <3>4 DEF Begin
  <2>4. CASE BuildVertical(j)
    <3>1. r \in Requests /\ Valid(r) /\ ArgsOf(r) = EncodeArgs(r, <<"-vf", "filter">>)
      BY <1>2, <2>4 DEF BuildVertical, Goto, ArgsOf
    <3>2. EncodeArgs(r, <<"-vf", "filter">>) \in Seq(Words)
      BY <3>1, ArgsWords
    <3> QED BY <1>1, <1>2, <2>1, <2>4, <3>2 DEF BuildVertical, Goto
  <2>5. CASE Build(j)
    <3>1. r \in Requests /\ Valid(r) /\ ArgsOf(r) = PlainArgs(r)
      BY <1>2, <2>5 DEF Build, Goto, ArgsOf
    <3>2. PlainArgs(r) \in Seq(Words)
      BY <3>1, ArgsWords
    <3> QED BY <1>1, <1>2, <2>1, <2>5, <3>2 DEF Build, Goto
  <2>6. CASE BuildFail(j)
    BY <1>1, <1>2, <2>1, <2>6 DEF BuildFail, Goto
  <2>7. CASE LoadEncoder(j)
    BY <1>1, <1>2, <2>1, <2>7 DEF LoadEncoder, Goto
  <2>8. CASE Start(j)
    <3>1. loaded[j] \in Modes /\ args[j] \in Seq(Words)
      BY <1>1, <2>8 DEF RenderingInv, MadeInv, HasEncoder, Start, Goto
    <3>2. SubstituteEncoder(args[j], loaded[j]) \in Seq(Words)
      BY <3>1, CommandWords
    <3> QED BY <1>1, <1>2, <2>1, <2>8, <3>2 DEF Start, Goto
  <2>9. CASE End(j)
    <3>1. r.useCase = "caption" => r.codec \in Words
      BY <1>2, <2>9, RenderingAssumption DEF End, RequestsAssumption
    <3>2. at' \in [Jobs -> Stages]
      BY <1>1, <2>9 DEF End
    <3>3. reported' \in [Jobs -> Words \cup {"none"}]
      BY <1>1, <1>3, <2>9, <3>1 DEF End
    <3> QED BY <1>1, <1>2, <2>1, <2>9, <3>2, <3>3 DEF End
  <2> QED BY <1>7, <2>2, <2>3, <2>4, <2>5, <2>6, <2>7, <2>8, <2>9 DEF JobSteps
<1> QED BY <1>5, <1>6, <1>7 DEF Next, Detects, JobSteps

Stays(k) ==
    /\ at'[k] = at[k] /\ req'[k] = req[k] /\ source'[k] = source[k] /\ filter'[k] = filter[k]
    /\ args'[k] = args[k] /\ loaded'[k] = loaded[k] /\ command'[k] = command[k]
    /\ reported'[k] = reported[k] /\ settled'[k] = settled[k]

\* The variables of the jobs are functions on the jobs.
OnJobs ==
    /\ DOMAIN at = Jobs /\ DOMAIN req = Jobs /\ DOMAIN source = Jobs /\ DOMAIN filter = Jobs
    /\ DOMAIN args = Jobs /\ DOMAIN loaded = Jobs /\ DOMAIN command = Jobs
    /\ DOMAIN reported = Jobs /\ DOMAIN settled = Jobs

LEMMA InvOnJobs ==
    ASSUME RenderingInv
    PROVE  OnJobs
BY DEF RenderingInv, RenderingTypeOK, RequestsInv, CameraInv, OnJobs

LEMMA OthersStay ==
    ASSUME OnJobs, NEW j \in Jobs, JobSteps(j)
    PROVE  UNCHANGED detection /\ \A k \in Jobs \ {j} : Stays(k)
<1> USE DEF OnJobs, Stays
<1>1. CASE Arrive(j)
  BY <1>1 DEF Arrive
<1>2. CASE Begin(j)
  BY <1>2 DEF Begin, Goto
<1>3. CASE BuildVertical(j)
  BY <1>3 DEF BuildVertical, Goto
<1>4. CASE Build(j)
  BY <1>4 DEF Build, Goto
<1>5. CASE BuildFail(j)
  BY <1>5 DEF BuildFail, Goto
<1>6. CASE LoadEncoder(j)
  BY <1>6 DEF LoadEncoder, Goto
<1>7. CASE Start(j)
  BY <1>7 DEF Start, Goto
<1>8. CASE End(j)
  BY <1>8 DEF End
<1> QED BY <1>1, <1>2, <1>3, <1>4, <1>5, <1>6, <1>7, <1>8 DEF JobSteps

LEMMA StepCases ==
    ASSUME [Next]_vars
    PROVE  UNCHANGED vars \/ Detects \/ \E j \in Jobs : JobSteps(j)
BY DEF Next, Detects, JobSteps

LEMMA RequestsStep ==
    ASSUME RenderingInv, [Next]_vars
    PROVE  RequestsInv'
<1>1. /\ req \in [Jobs -> Requests \cup {None}]
      /\ \A j \in Jobs : /\ at[j] # "new" => req[j] \in Requests
                         /\ at[j] \notin {"new", "refused"} => Valid(req[j])
  BY DEF RenderingInv, RequestsInv
<1>2. OnJobs
  BY InvOnJobs
<1>3. CASE UNCHANGED jobVars
  BY <1>1, <1>3 DEF jobVars, RequestsInv
<1>4. ASSUME NEW j \in Jobs, JobSteps(j) PROVE RequestsInv'
  <2>1. \A k \in Jobs \ {j} : Stays(k)
    BY <1>2, <1>4, OthersStay
  <2>2. /\ req' \in [Jobs -> Requests \cup {None}]
        /\ at'[j] # "new" => req'[j] \in Requests
        /\ at'[j] \notin {"new", "refused"} => Valid(req'[j])
    <3>1. CASE Arrive(j)
      BY <1>1, <1>2, <3>1 DEF Arrive, OnJobs
    <3>2. CASE ~Arrive(j)
      <4>1. req' = req /\ at[j] \notin {"new", "refused"}
        BY <1>4, <3>2 DEF JobSteps, Begin, BuildVertical, Build, BuildFail, LoadEncoder, Start, End,
              Goto
      <4> QED BY <1>1, <4>1
    <3> QED BY <3>1, <3>2
  <2> QED BY <1>1, <2>1, <2>2 DEF RequestsInv, Stays
<1>5. Detects => UNCHANGED jobVars
  BY DetectsTypes DEF RenderingInv
<1> QED BY <1>3, <1>4, <1>5, StepCases DEF vars

LEMMA MadeStep ==
    ASSUME RenderingInv, [Next]_vars
    PROVE  MadeInv'
<1>1. \A j \in Jobs : /\ HasArgs(j) => args[j] = ArgsOf(req[j])
                      /\ HasEncoder(j) => loaded[j] \in Modes
                      /\ HasCommand(j) => command[j] = SubstituteEncoder(args[j], loaded[j])
  BY DEF RenderingInv, MadeInv
<1>2. OnJobs /\ encoder \in Modes
  BY InvOnJobs DEF RenderingInv, RenderingTypeOK
<1>3. CASE UNCHANGED jobVars
  BY <1>1, <1>3 DEF jobVars, MadeInv, HasArgs, HasEncoder, HasCommand
<1>4. ASSUME NEW j \in Jobs, JobSteps(j) PROVE MadeInv'
  <2>1. \A k \in Jobs \ {j} : Stays(k)
    BY <1>2, <1>4, OthersStay
  <2>2. /\ HasArgs(j)' => args'[j] = ArgsOf(req'[j])
        /\ HasEncoder(j)' => loaded'[j] \in Modes
        /\ HasCommand(j)' => command'[j] = SubstituteEncoder(args'[j], loaded'[j])
    <3> USE <1>1, <1>2 DEF OnJobs, HasArgs, HasEncoder, HasCommand, Goto
    <3>1. CASE Arrive(j)
      BY <3>1 DEF Arrive
    <3>2. CASE Begin(j)
      BY <3>2 DEF Begin
    <3>3. CASE BuildVertical(j)
      BY <3>3 DEF BuildVertical, ArgsOf
    <3>4. CASE Build(j)
      BY <3>4 DEF Build, ArgsOf
    <3>5. CASE BuildFail(j)
      BY <3>5 DEF BuildFail
    <3>6. CASE LoadEncoder(j)
      BY <3>6 DEF LoadEncoder
    <3>7. CASE Start(j)
      BY <3>7 DEF Start
    <3>8. CASE End(j)
      BY <3>8 DEF End
    <3> QED BY <1>4, <3>1, <3>2, <3>3, <3>4, <3>5, <3>6, <3>7, <3>8 DEF JobSteps
  <2>3. \A k \in Jobs \ {j} :
           /\ HasArgs(k)' => args'[k] = ArgsOf(req'[k])
           /\ HasEncoder(k)' => loaded'[k] \in Modes
           /\ HasCommand(k)' => command'[k] = SubstituteEncoder(args'[k], loaded'[k])
    BY <1>1, <2>1 DEF Stays, HasArgs, HasEncoder, HasCommand
  <2> QED BY <2>2, <2>3 DEF MadeInv
<1>5. Detects => UNCHANGED jobVars
  BY DetectsTypes DEF RenderingInv
<1> QED BY <1>3, <1>4, <1>5, StepCases DEF vars

LEMMA CameraStep ==
    ASSUME RenderingInv, [Next]_vars
    PROVE  CameraInv'
<1>1. /\ source \in [Jobs -> [avg : Nat, r : Nat]] /\ DOMAIN filter = Jobs
      /\ \A j \in Jobs :
            HasArgs(j) /\ IsVertical(req[j]) => FilterOf(req[j], source[j], filter[j])
  BY DEF RenderingInv, CameraInv
<1>2. OnJobs
  BY InvOnJobs
<1>3. CASE UNCHANGED jobVars
  BY <1>1, <1>3 DEF jobVars, CameraInv, HasArgs
<1>4. ASSUME NEW j \in Jobs, JobSteps(j) PROVE CameraInv'
  <2>1. \A k \in Jobs \ {j} : Stays(k)
    BY <1>2, <1>4, OthersStay
  <2>2. /\ source' \in [Jobs -> [avg : Nat, r : Nat]] /\ DOMAIN filter' = Jobs
        /\ HasArgs(j)' /\ IsVertical(req'[j]) => FilterOf(req'[j], source'[j], filter'[j])
    <3>1. CASE BuildVertical(j)
      <4>1. PICK s \in [avg : Rates, r : Rates], zooms \in Orders(req[j].keyframes, "zoom"),
                 scrolls \in Orders(req[j].keyframes, "scroll") :
               /\ HasZoomKeyframes(req[j].keyframes) \/ s = source[j]
               /\ source' = [source EXCEPT ![j] = s]
               /\ filter' = [filter EXCEPT ![j] = Filter(req[j], Framerate(s), zooms, scrolls)]
        BY <3>1 DEF BuildVertical
      <4>2. req' = req
        BY <3>1 DEF BuildVertical
      <4>3. s \in [avg : Nat, r : Nat]
        BY RenderingAssumption
      <4>4. source' \in [Jobs -> [avg : Nat, r : Nat]] /\ source'[j] = s
        BY <1>1, <4>1, <4>3
      <4>5. DOMAIN filter' = Jobs /\ filter'[j] = Filter(req[j], Framerate(s), zooms, scrolls)
        BY <1>1, <4>1
      <4>6. FilterOf(req[j], s, filter'[j])
        BY <4>5 DEF FilterOf
      <4> QED BY <4>2, <4>4, <4>5, <4>6
    <3>2. CASE ~BuildVertical(j)
      <4>1. source' = source /\ filter' = filter
        BY <1>4, <3>2 DEF JobSteps, Arrive, Begin, Build, BuildFail, LoadEncoder, Start, End
      <4>2. HasArgs(j)' /\ IsVertical(req'[j]) => HasArgs(j) /\ req'[j] = req[j]
        <5> USE <1>2 DEF OnJobs, HasArgs, Goto
        <5>1. CASE Arrive(j)
          BY <5>1 DEF Arrive
        <5>2. CASE Begin(j)
          BY <5>2 DEF Begin
        <5>3. CASE Build(j)
          BY <5>3 DEF Build
        <5>4. CASE BuildFail(j)
          BY <5>4 DEF BuildFail
        <5>5. CASE LoadEncoder(j)
          BY <5>5 DEF LoadEncoder
        <5>6. CASE Start(j)
          BY <5>6 DEF Start
        <5>7. CASE End(j)
          BY <5>7 DEF End
        <5> QED BY <1>4, <3>2, <5>1, <5>2, <5>3, <5>4, <5>5, <5>6, <5>7 DEF JobSteps
      <4> QED BY <1>1, <4>1, <4>2
    <3> QED BY <3>1, <3>2
  <2>3. \A k \in Jobs \ {j} :
           HasArgs(k)' /\ IsVertical(req'[k]) => FilterOf(req'[k], source'[k], filter'[k])
    BY <1>1, <2>1 DEF Stays, HasArgs
  <2> QED BY <2>2, <2>3 DEF CameraInv
<1>5. Detects => UNCHANGED jobVars
  BY DetectsTypes DEF RenderingInv
<1> QED BY <1>3, <1>4, <1>5, StepCases DEF vars

LEMMA SettledStep ==
    ASSUME RenderingInv, [Next]_vars
    PROVE  SettledInv'
<1> DEFINE Reports(j) ==
              /\ HasEncoder(j) => loaded[j] = encoder
              /\ at[j] \in {"begun", "built", "loaded", "running", "done"}
                    /\ req[j].useCase \in ReportsAtStart => reported[j] = encoder
              /\ at[j] = "done" /\ req[j].useCase = "caption" /\ req[j].codec = "" =>
                    reported[j] = encoder
<1>1. \A j \in Jobs : settled[j] => DetectionOver /\ Reports(j)
  BY DEF RenderingInv, SettledInv
<1>2. OnJobs /\ encoder \in Modes
  BY InvOnJobs DEF RenderingInv, RenderingTypeOK
<1>3. CASE UNCHANGED vars
  BY <1>1, <1>3 DEF vars, detection, jobVars, SettledInv, DetectionOver, HasEncoder
<1>4. CASE Detects
  <2>1. UNCHANGED jobVars
    BY <1>4, DetectsTypes DEF RenderingInv
  <2>2. ~DetectionOver
    <3>1. encoder # "none"
      BY <1>2 DEF Modes, NVENC, AMF, VAAPI, MF, CPU
    <3> QED BY <1>4, <3>1 DEF Detects, Override, NoFFmpeg, TryEncoder, SetEncoder, Detecting,
            DetectionOver
  <2>3. \A j \in Jobs : ~settled'[j]
    BY <1>1, <2>1, <2>2 DEF jobVars
  <2> QED BY <2>3 DEF SettledInv
<1>5. ASSUME NEW j \in Jobs, JobSteps(j) PROVE SettledInv'
  <2>1. UNCHANGED detection /\ \A k \in Jobs \ {j} : Stays(k)
    BY <1>2, <1>5, OthersStay
  <2>2. UNCHANGED <<encoder, found>>
    BY <2>1 DEF detection
  <2>3. settled'[j] => DetectionOver' /\ Reports(j)'
    <3> USE <1>2, <2>2 DEF OnJobs, HasEncoder, Goto, DetectionOver
    <3>1. CASE Arrive(j)
      BY <1>1, <3>1 DEF Arrive
    <3>2. CASE Begin(j)
      BY <1>1, <3>2 DEF Begin
    <3>3. CASE BuildVertical(j)
      BY <1>1, <3>3 DEF BuildVertical
    <3>4. CASE Build(j)
      BY <1>1, <3>4 DEF Build
    <3>5. CASE BuildFail(j)
      BY <1>1, <3>5 DEF BuildFail
    <3>6. CASE LoadEncoder(j)
      BY <1>1, <3>6 DEF LoadEncoder
    <3>7. CASE Start(j)
      BY <1>1, <3>7 DEF Start
    <3>8. CASE End(j)
      BY <1>1, <3>8 DEF End, ReportsAtStart
    <3> QED BY <1>5, <3>1, <3>2, <3>3, <3>4, <3>5, <3>6, <3>7, <3>8 DEF JobSteps
  <2>4. ASSUME NEW k \in Jobs \ {j}, settled'[k] PROVE DetectionOver' /\ Reports(k)'
    <3>1. Stays(k)
      BY <2>1
    <3>2. DetectionOver /\ Reports(k)
      BY <1>1, <2>4, <3>1 DEF Stays
    <3>3. DetectionOver'
      BY <2>2, <3>2 DEF DetectionOver
    <3>4. Reports(k)'
      BY <2>2, <3>1, <3>2 DEF Stays, HasEncoder
    <3> QED BY <3>3, <3>4
  <2> QED BY <2>3, <2>4 DEF SettledInv
<1> QED BY <1>3, <1>4, <1>5, StepCases

LEMMA RenderingInvariant == Spec => []RenderingInv
<1>1. Init => RenderingInv
  BY TypeInit
<1>2. RenderingInv /\ [Next]_vars => RenderingInv'
  BY TypeStep, RequestsStep, MadeStep, CameraStep, SettledStep DEF RenderingInv
<1> QED BY <1>1, <1>2, PTL DEF Spec
-----------------------------------------------------------------------------
(* The theorems. *)

\* Every variable has its type: no request, whatever FFmpeg makes of it, and no sequence of
\* trials of the detection leaves words on a command line or an encoder that are none.
THEOREM RenderingTyped == Spec => []RenderingTypeOK
<1>1. RenderingInv => RenderingTypeOK
  BY DEF RenderingInv
<1> QED BY <1>1, RenderingInvariant, PTL

\* For any keyframes, in any order and at any times, and whatever the sort makes of those of one
\* time, the camera of a vertical video is at every instant where the latest keyframes put it,
\* and an animated zoom keeps the rate of its input (vertical_media.go:269-292, 332-387).
THEOREM CameraFollowsKeyframesHolds == Spec => []CameraFollowsKeyframes
<1>1. RenderingInv => CameraFollowsKeyframes
  <2> SUFFICES ASSUME RenderingInv, NEW j \in Jobs, Started(j), IsVertical(req[j])
               PROVE  /\ \A t \in Instants : Follows(filter[j], req[j], t)
                      /\ filter[j].animated /\ source[j].avg > 0 => filter[j].fps = source[j].avg
    BY DEF CameraFollowsKeyframes
  <2>1. FilterOf(req[j], source[j], filter[j]) /\ source[j].avg \in Nat
    BY DEF RenderingInv, CameraInv, Started, HasArgs
  <2>2. req[j] \in Requests /\ req[j].useCase \in {"vertical", "clips"}
    BY DEF RenderingInv, RequestsInv, Started, IsVertical
  <2>3. /\ req[j].zoom \in Int /\ req[j].scroll \in Int
        /\ req[j].keyframes \in
              Seq([time : Int, zoom : Int \cup {Unset}, scroll : Int \cup {Unset}])
    BY <2>2, RenderingAssumption DEF RequestsAssumption
  <2>4. \A t \in Instants : Follows(filter[j], req[j], t)
    BY <2>1, <2>3, FilterFollows, RenderingAssumption
  <2>5. filter[j].animated /\ source[j].avg > 0 => filter[j].fps = source[j].avg
    <3>1. source[j].avg > 0 => Framerate(source[j]) = source[j].avg /\ ~(source[j].avg <= 0)
      BY <2>1 DEF Framerate
    <3> QED BY <2>1, <3>1 DEF FilterOf, Filter
  <2> QED BY <2>4, <2>5
<1> QED BY <1>1, RenderingInvariant, PTL

\* What is known of a command that FFmpeg runs or has run.
LEMMA CommandOfJob ==
    ASSUME RenderingInv, NEW j \in Jobs, HasCommand(j)
    PROVE  /\ req[j] \in Requests /\ Valid(req[j]) /\ args[j] = ArgsOf(req[j])
           /\ loaded[j] \in Modes
           /\ command[j] = SubstituteEncoder(args[j], loaded[j])
           /\ FFmpegWouldTake(req[j]) => \E f : Taken(f) /\ args[j] = Line(f)
<1>1. /\ req[j] \in Requests /\ Valid(req[j]) /\ args[j] = ArgsOf(req[j])
      /\ loaded[j] \in Modes
      /\ command[j] = SubstituteEncoder(args[j], loaded[j])
  BY DEF RenderingInv, RequestsInv, MadeInv, HasCommand, HasEncoder, HasArgs
<1> QED BY <1>1, ArgsWords

LEMMA CodecOfJob ==
    ASSUME RenderingInv, NEW j \in Jobs, HasCommand(j), FFmpegWouldTake(req[j]), AsksCPU(j)
    PROVE  CodecOf(command[j]) = loaded[j]
<1>1. loaded[j] \in Modes /\ command[j] = SubstituteEncoder(args[j], loaded[j])
  BY CommandOfJob
<1>2. PICK f : Taken(f) /\ args[j] = Line(f)
  BY CommandOfJob
<1>3. CodecOf(command[j]) = Substituted(CodecOf(args[j]), loaded[j])
  BY <1>1, <1>2, CommandReads
<1> QED BY <1>3 DEF AsksCPU, Substituted

\* For any request whose words FFmpeg would take, whatever is taken out of the arguments and put
\* into them FFmpeg reads as many inputs, and one output: the last word, the job's output
\* (runner.go:80-128, pipeline_media.go:374-416).
THEOREM WritesItsOutputHolds == Spec => []WritesItsOutput
<1>1. RenderingInv => WritesItsOutput
  <2> SUFFICES ASSUME RenderingInv, NEW j \in Jobs, Started(j), FFmpegWouldTake(req[j])
               PROVE  /\ OutputsOf(command[j]) = {Len(command[j])}
                      /\ Last(command[j]) = "output"
                      /\ Cardinality(InputsOf(command[j])) = Cardinality(InputsOf(args[j]))
    BY DEF WritesItsOutput
  <2>1. HasCommand(j)
    BY DEF HasCommand, Started
  <2>2. loaded[j] \in Modes /\ command[j] = SubstituteEncoder(args[j], loaded[j])
    BY <2>1, CommandOfJob
  <2>3. PICK f : Taken(f) /\ args[j] = Line(f)
    BY <2>1, CommandOfJob
  <2> QED BY <2>2, <2>3, CommandReads
<1> QED BY <1>1, RenderingInvariant, PTL

\* Whenever detection ends, a command of a job that asks for libx264 is one encoder's, and a rate
\* that the job controls itself is left alone (runner.go:75-129).
THEOREM OneEncodersFlagsHolds == Spec => []OneEncodersFlags
<1>1. RenderingInv => OneEncodersFlags
  <2>1. ASSUME RenderingInv, NEW j \in Jobs, Started(j), FFmpegWouldTake(req[j]), AsksCPU(j)
        PROVE  LET codec == CodecOf(command[j])
                   Controls(rate) == HasOption(args[j], rate)
               IN  /\ IF codec = CPU THEN command[j] = args[j]
                      ELSE \A option \in X264Only : ~HasOption(command[j], option)
                   /\ HasOption(command[j], "-gpu") => codec = NVENC \/ HasOption(args[j], "-gpu")
                   /\ HasOption(command[j], "-maxrate") =>
                         codec = AMF \/ HasOption(args[j], "-maxrate")
                   /\ (\E rate \in RateControls : Controls(rate)) =>
                         \A rate \in RateControls :
                            ValueOf(command[j], rate) = ValueOf(args[j], rate)
    <3>1. HasCommand(j)
      BY <2>1 DEF HasCommand, Started
    <3>2. loaded[j] \in Modes /\ command[j] = SubstituteEncoder(args[j], loaded[j])
      BY <2>1, <3>1, CommandOfJob
    <3>3. PICK f : Taken(f) /\ args[j] = Line(f)
      BY <2>1, <3>1, CommandOfJob
    <3>4. CodecOf(command[j]) = loaded[j]
      BY <2>1, <3>1, CodecOfJob
    <3> QED BY <3>2, <3>3, <3>4, CommandReads
  <2> QED BY <2>1 DEF OneEncodersFlags
<1> QED BY <1>1, RenderingInvariant, PTL

\* A job that began when detection was over, and left the choice to the runner, reports the
\* encoder its command named (pipeline_media.go:197, caption_media.go:219-222).
THEOREM ReportedIsUsedHolds == Spec => []ReportedIsUsed
<1>1. RenderingInv => ReportedIsUsed
  <2> SUFFICES ASSUME RenderingInv, NEW j \in Jobs, at[j] = "done", settled[j],
                      FFmpegWouldTake(req[j]), AsksCPU(j), req[j].useCase # "clips",
                      req[j].useCase = "caption" => req[j].codec = ""
               PROVE  reported[j] = CodecOf(command[j])
    BY DEF ReportedIsUsed
  <2>1. HasCommand(j) /\ HasEncoder(j)
    BY DEF HasCommand, HasEncoder
  <2>2. req[j] \in Requests
    BY <2>1, CommandOfJob
  <2>3. CodecOf(command[j]) = loaded[j]
    BY <2>1, CodecOfJob
  <2>4. loaded[j] = encoder
    BY <2>1 DEF RenderingInv, SettledInv
  <2>5. reported[j] = encoder
    <3>1. req[j].useCase \in UseCases
      BY <2>2, RenderingAssumption DEF RequestsAssumption
    <3>2. req[j].useCase \in ReportsAtStart \/ req[j].useCase = "caption"
      BY <3>1 DEF UseCases, ReportsAtStart
    <3> QED BY <3>2 DEF RenderingInv, SettledInv
  <2> QED BY <2>3, <2>4, <2>5
<1> QED BY <1>1, RenderingInvariant, PTL

\* For any start, end and duration that are not negative, FFmpeg plays the part of the input from
\* start to end, or of the length of duration (vertical_media.go:256-267, clips_media.go:350-361).
THEOREM WindowAsAskedHolds == Spec => []WindowAsAsked
<1>1. RenderingInv => WindowAsAsked
  <2>1. ASSUME RenderingInv, NEW j \in Jobs, Started(j), req[j].useCase \in {"vertical", "clips"},
               req[j].start >= 0, req[j].duration >= 0, req[j].end >= 0, NEW t \in Instants
        PROVE  LET from == IF HasOption(command[j], "-ss") THEN req[j].start ELSE 0
                   Plays == /\ t >= from
                            /\ HasOption(command[j], "-t") => t < from + Length(req[j])
               IN  Plays <=> /\ t >= req[j].start
                             /\ req[j].end > 0 => t < req[j].end
                             /\ req[j].duration > 0 => t < req[j].start + req[j].duration
    <3> DEFINE r == req[j]
    <3>1. HasCommand(j)
      BY <2>1 DEF HasCommand, Started
    <3>2. /\ loaded[j] \in Modes /\ command[j] = SubstituteEncoder(args[j], loaded[j])
          /\ r \in Requests /\ Valid(r) /\ args[j] = ArgsOf(r)
      BY <2>1, <3>1, CommandOfJob
    <3>3. /\ r.start \in Int /\ r.end \in Int /\ r.duration \in Int /\ t \in Nat
          /\ r.start >= 0 /\ r.duration >= 0 /\ r.end >= 0
      BY <2>1, <3>2, RenderingAssumption DEF RequestsAssumption
    <3>4. (r.end > 0 => r.end > r.start) /\ ~(r.duration > 0 /\ r.end > 0)
      BY <2>1, <3>2 DEF Valid, ValidVertical, ValidClip
    <3>5. PICK option0 \in {<<>>, <<"-vf", "filter">>} : args[j] = EncodeArgs(r, option0)
      BY <2>1, <3>2 DEF ArgsOf, PlainArgs, IsVertical
    <3>6. PICK f : /\ Taken(f) /\ args[j] = Line(f)
                   /\ At(f, "-ss") # {} <=> r.start > 0
                   /\ At(f, "-t") # {} <=> Length(r) > 0
      BY <3>5, EncodeLine
    <3>7. \A option \in {"-ss", "-t"} : HasOption(command[j], option) <=> At(f, option) # {}
      <4>1. \A option \in {"-ss", "-t"} :
               HasOption(command[j], option) <=> HasOption(args[j], option)
        BY <3>2, <3>6, CommandReads
      <4>2. \A option \in {"-ss", "-t"} : PlacesOf(args[j], option) = At(f, option)
        BY <3>6, LinePlacesOf, OwnWords DEF Taken, OwnOptions
      <4> QED BY <4>1, <4>2 DEF HasOption
    <3> DEFINE from == IF HasOption(command[j], "-ss") THEN r.start ELSE 0
    <3>8. from = r.start
      BY <3>3, <3>6, <3>7
    <3>9. HasOption(command[j], "-t") <=> Length(r) > 0
      BY <3>6, <3>7
    <3>10. Length(r) = IF r.duration = 0 /\ r.end > r.start THEN r.end - r.start ELSE r.duration
      BY DEF Length
    <3> HIDE DEF from, r
    <3>11. (Length(r) > 0 => t < r.start + Length(r))
             <=> /\ r.end > 0 => t < r.end
                 /\ r.duration > 0 => t < r.start + r.duration
      <4>1. CASE r.duration > 0
        BY ONLY <3>3, <3>4, <3>10, <4>1
      <4>2. CASE r.duration = 0 /\ r.end > r.start
        BY ONLY <3>3, <3>4, <3>10, <4>2
      <4>3. CASE r.duration = 0 /\ ~(r.end > r.start)
        BY ONLY <3>3, <3>4, <3>10, <4>3
      <4> QED BY ONLY <3>3, <4>1, <4>2, <4>3
    <3> QED BY <3>8, <3>9, <3>11 DEF from, r
  <2> QED BY <2>1 DEF WindowAsAsked
<1> QED BY <1>1, RenderingInvariant, PTL
=============================================================================

----------------------------- MODULE MCRendering -----------------------------
(* An instance of Rendering: one job, of any use case, beside the detection *)
(* of the encoder.                                                          *)
EXTENDS Rendering

CONSTANT j1

Force == {"auto", MF}

AllWords == STRING

Windows == {[start |-> s, end |-> e, duration |-> d] : s \in {-1, 0, 2}, e \in {0, 1, 4}, d \in {0, 2}}

Keyframe(times, zooms, scrolls) == [time : times, zoom : zooms, scroll : scrolls]

First == Keyframe({0, 3}, {50, Unset}, {-100, Unset})
Second == Keyframe({0, 1, 3}, {0}, {70}) \cup Keyframe({1}, {0, Unset}, {70, Unset})
Third == Keyframe({1, 2}, {80}, {Unset})

\* One keyframe, two of any kind in any order, and three.
Lists ==
    {<<>>} \cup {<<a>> : a \in First} \cup {<<a, b>> : a \in First, b \in Second}
        \cup {<<a, b, c>> : a \in Keyframe({0, 3}, {50}, {-100}), b \in Second, c \in Third}

Vertical(window, keyframes, zoom, scroll, quality) ==
    [useCase |-> "vertical", start |-> window.start, end |-> window.end,
     duration |-> window.duration, keyframes |-> keyframes, zoom |-> zoom,
     scroll |-> scroll, quality |-> quality]

Clip(window, keyframes, scroll, mode, clipMode) ==
    [useCase |-> "clips", start |-> window.start, end |-> window.end,
     duration |-> window.duration, keyframes |-> keyframes, zoom |-> 0,
     scroll |-> scroll, mode |-> mode, clipMode |-> clipMode, quality |-> TRUE]

WholeVideo == [start |-> 0, end |-> 0, duration |-> 0]

ClipModes == {"", "vertical", "horizontal"}

VideoOptions ==
    {Option("-c:v", CPU), Option("-c:v", NVENC), Option("-crf", "20"), Option("-preset", "slow"),
     Option("-b:v", "4M"), Option("-x264opts", "ref=1"), Option("-an", "true"), Option("-gpu", "1"),
     Option("-movflags", "null"), Option("-maxrate", "{}")}

Outputs ==
    {<<>>} \cup {<<a>> : a \in VideoOptions} \cup {<<a, Option("-preset", "slow")>> : a \in VideoOptions}
        \cup {<<Option("-c:v", CPU), a>> : a \in VideoOptions}
        \cup {<<Option("-c:v", CPU), a, Option("-b:v", "4M")>> : a \in VideoOptions}

Pipeline(inputs, filters, options) ==
    [useCase |-> "pipeline", inputs |-> inputs, filters |-> filters, outputs |-> <<options>>]

MCRequests ==
    {Vertical(WholeVideo, list, 0, 50, TRUE) : list \in Lists}
    \cup {Vertical(window, <<>>, 60, 0, TRUE) : window \in Windows}
    \cup {Vertical(WholeVideo, <<>>, 0, scroll, quality) :
              scroll \in {0, 101}, quality \in BOOLEAN}
    \cup {Clip(window, <<>>, 20, "vertical", mode) : window \in Windows, mode \in {"", "horizontal"}}
    \cup {Clip(WholeVideo, <<>>, scroll, "horizontal", mode) : scroll \in {20, 120}, mode \in ClipModes}
    \cup {Clip(WholeVideo, <<k>>, 150, "vertical", "") :
              k \in Keyframe({-1, 0, 2}, {900, Unset}, {-300, Unset})}
    \cup [useCase : {"caption"}, codec : {"", CPU, NVENC, "libx265"}, quality : BOOLEAN]
    \cup [useCase : {"cuts"}, codec : {"", CPU, AMF, "copy"}]
    \cup {Pipeline(<<<<>>, <<Option("-ss", "3")>>>>, TRUE, options) : options \in Outputs}
    \cup {Pipeline(<<>>, FALSE, <<>>), Pipeline(<<<<Option("-t", "{}")>>>>, FALSE, <<>>), MP3Request}
=============================================================================

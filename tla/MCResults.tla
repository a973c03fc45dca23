------------------------------ MODULE MCResults ------------------------------
(* An instance of Results: two jobs, in each storage, that ask for one name *)
(* in one way or another.                                                   *)
EXTENDS Results

CONSTANTS j1, j2

Request(useCase, name, webhook) == [useCase |-> useCase, name |-> name, webhook |-> webhook]
Uploading(name, fileURL) ==
    [useCase |-> "upload", name |-> name, fileURL |-> fileURL, webhook |-> FALSE]
Case(where, first, second) == [storage |-> where, req |-> [j \in Jobs |-> IF j = j1 THEN first ELSE second]]
Name(chars, ext) == [chars |-> chars, ext |-> ext]

Plain == Name(<<"a", "-", "b">>, ".mp4")
Written == Name(<<"d", "/", "a", ":", "b", ",">>, ".mp4")
Foreign == Name(<<"a", "-", "b", ".mp4">>, ".mov")

MCCases ==
    {Case("gcs", Request("pipeline", Plain, TRUE), Request("caption", Written, FALSE)),
     Case("gcs", Request("to-mp3", NoName, FALSE), Request("to-mp3", NoName, FALSE)),
     Case("gcs", Uploading(NoName, Written), Request("cuts", Plain, TRUE)),
     Case("gcs", Request("clips", Plain, FALSE), Uploading(NoName, NoName)),
     Case("local", Request("vertical", Foreign, TRUE), Request("pipeline", Foreign, FALSE)),
     Case("local", Request("clips", NoName, TRUE), Uploading(Written, NoName))}
=============================================================================

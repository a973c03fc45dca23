----------------------------- MODULE Downloader -----------------------------
(***************************************************************************)
(* Downloader.Acquire and Release (internal/application/downloader.go)     *)
(* over the shared FileCache, with the download itself as the storage      *)
(* adapters perform it (internal/infra/storage/local.go and gcs.go).       *)
(*                                                                         *)
(* A caller is one goroutine that acquires one URL once and later releases *)
(* it.  The server has five Downloaders, one per use case; they share the  *)
(* cache and the work directory, and each has its own map of downloads in  *)
(* flight.  Between two lock sections, two sync.Map calls or two system    *)
(* calls any other goroutine may run: each of them is a step here.         *)
(***************************************************************************)
EXTENDS FileCache, FiniteSets

CONSTANTS Downloaders,  \* the Downloader instances of the process
          dl,           \* the Downloader each caller uses
          url,          \* the URL each caller acquires
          Published,    \* URLs that are also the public URL of an upload
          Nobody        \* no caller

ASSUME DownloaderAssumption ==
    /\ IsFiniteSet(Callers)
    /\ dl \in [Callers -> Downloaders]
    /\ url \in [Callers -> Urls]
    /\ Published \subseteq Urls
    /\ Nobody \notin Callers

VARIABLES pc,           \* where each caller is in Acquire
          downloading,  \* Downloader.downloading: whose downloadCall is in the map
          call,         \* each caller's downloadCall once wg.Done has run
          joined,       \* whose downloadCall a waiting caller waits for
          writer,       \* who last truncated the file with os.Create
          took,         \* history: the Put whose entry the caller's Acquire counted
          gave          \* history: the Put whose entry the caller's Release uncounted

flightVars == <<downloading, call, joined>>
history == <<took, gave>>
vars == <<entries, files, pc, downloading, call, joined, writer, took, gave>>

Labels == {"start", "hit", "miss", "own", "answered", "copy", "fetched", "put", "ok", "err",
           "okDone", "errDone", "wait", "joined", "held", "failed", "released"}

\* Between the LoadOrStore that stored the caller's call and the Delete.
Owning == {"own", "answered", "copy", "fetched", "put", "ok", "err", "okDone", "errDone"}

TypeOK ==
    /\ CacheTypeOK
    /\ pc \in [Callers -> Labels]
    /\ downloading \in [Downloaders -> [Urls -> Callers \cup {Nobody}]]
    /\ call \in [Callers -> {"open", "ok", "err"}]
    /\ joined \in [Callers -> Callers \cup {Nobody}]
    /\ writer \in [Urls -> Callers \cup {Nobody}]
    /\ took \in [Callers -> Callers \cup {Nobody}]
    /\ gave \in [Callers -> Callers \cup {Nobody}]
    /\ \A c \in Callers : pc[c] = "wait" => joined[c] \in Callers

Init ==
    /\ CacheInit
    /\ pc = [c \in Callers |-> "start"]
    /\ downloading = [d \in Downloaders |-> [u \in Urls |-> Nobody]]
    /\ call = [c \in Callers |-> "open"]
    /\ joined = [c \in Callers |-> Nobody]
    /\ writer = [u \in Urls |-> Nobody]
    /\ took = [c \in Callers |-> Nobody]
    /\ gave = [c \in Callers |-> Nobody]

Goto(c, from, to) == pc[c] = from /\ pc' = [pc EXCEPT ![c] = to]
-----------------------------------------------------------------------------
\* A faulty form: a file at the path is taken for a downloaded one.
LookupOnDisk(c) ==
    /\ Goto(c, "start", IF files[url[c]] # "absent" THEN "hit" ELSE "miss")
    /\ UNCHANGED <<cacheVars, flightVars, writer, history>>

\* cache.Get, under the read lock.
Lookup(c) ==
    /\ Goto(c, "start", IF Get(url[c]) THEN "hit" ELSE "miss")
    /\ UNCHANGED <<cacheVars, flightVars, writer, history>>

\* cache.Acquire, with the record of what it counted.
Take(c) ==
    /\ Acquire(url[c])
    /\ took' = [took EXCEPT ![c] = IF Cached(url[c]) THEN entries[url[c]].putBy ELSE Nobody]
    /\ UNCHANGED <<files, gave>>

\* The hit path takes the lock a second time to count itself.
TakeHit(c) ==
    /\ Goto(c, "hit", "held")
    /\ Take(c)
    /\ UNCHANGED <<flightVars, writer>>

Flight(c) == downloading[dl[c]][url[c]]

SetFlight(c, who) == downloading' = [downloading EXCEPT ![dl[c]][url[c]] = who]

\* Faulty forms: the call found is not kept; the call found is overwritten.
LoadOrStoreForgetting(c) ==
    /\ IF Flight(c) = Nobody
       THEN Goto(c, "miss", "own") /\ SetFlight(c, c) /\ joined' = joined
       ELSE Goto(c, "miss", "wait") /\ downloading' = downloading /\ joined' = joined
    /\ UNCHANGED <<cacheVars, call, writer, history>>

LoadOrStoreOverwriting(c) ==
    /\ Goto(c, "miss", "own") /\ SetFlight(c, c) /\ joined' = joined
    /\ UNCHANGED <<cacheVars, call, writer, history>>

\* downloading.LoadOrStore: own the download, or join the one in flight.
LoadOrStore(c) ==
    /\ IF Flight(c) = Nobody
       THEN Goto(c, "miss", "own") /\ SetFlight(c, c) /\ joined' = joined
       ELSE /\ Goto(c, "miss", "wait")
            /\ joined' = [joined EXCEPT ![c] = Flight(c)]
            /\ downloading' = downloading
    /\ UNCHANGED <<cacheVars, call, writer, history>>

\* existing.wg.Wait returns: the owner's error, or on to cache.Acquire.
Wake(c) ==
    /\ pc[c] = "wait" /\ call[joined[c]] # "open"
    /\ Goto(c, "wait", IF call[joined[c]] = "ok" THEN "joined" ELSE "failed")
    /\ UNCHANGED <<cacheVars, flightVars, writer, history>>

TakeJoined(c) ==
    /\ Goto(c, "joined", "held")
    /\ Take(c)
    /\ UNCHANGED <<flightVars, writer>>

\* httpClient.Get: the server answers with 200 and the object it has then.
FetchAnswered(c) ==
    /\ Goto(c, "own", "answered")
    /\ UNCHANGED <<cacheVars, flightVars, writer, history>>

\* storage.Download fails before the file is open: no directory, no answer or one with
\* another status; or os.Create is refused once there is an answer.
FetchRefused(c) ==
    /\ Goto(c, "own", "err") \/ Goto(c, "answered", "err")
    /\ UNCHANGED <<cacheVars, flightVars, writer, history>>

\* os.Create truncates the file at the URL's path.
FetchCreate(c) ==
    /\ Goto(c, "answered", "copy")
    /\ files' = [files EXCEPT ![url[c]] = "partial"]
    /\ writer' = [writer EXCEPT ![url[c]] = c]
    /\ UNCHANGED <<entries, flightVars, history>>

\* io.Copy ends.  The file at the path is whole when nobody truncated it again
\* or unlinked it meanwhile; the bytes of an unlinked file are lost.
CopyOk(c) ==
    /\ Goto(c, "copy", "fetched")
    /\ files' = [files EXCEPT ![url[c]] =
                    IF writer[url[c]] = c /\ @ = "partial" THEN "whole" ELSE @]
    /\ UNCHANGED <<entries, flightVars, writer, history>>

\* A faulty form: the error of io.Copy is dropped.
CopyFailUnnoticed(c) ==
    /\ Goto(c, "copy", "fetched")
    /\ UNCHANGED <<cacheVars, flightVars, writer, history>>

\* io.Copy fails, the client's timeout included: os.Remove(destPath).
CopyFail(c) ==
    /\ Goto(c, "copy", "err")
    /\ files' = [files EXCEPT ![url[c]] = "absent"]
    /\ UNCHANGED <<entries, flightVars, writer, history>>

PutFetched(c) ==
    /\ Goto(c, "fetched", "put")
    /\ Put(url[c], c)
    /\ UNCHANGED <<files, flightVars, writer, history>>

TakeOwn(c) ==
    /\ Goto(c, "put", "ok")
    /\ Take(c)
    /\ UNCHANGED <<flightVars, writer>>

\* A faulty form: the waiters of a failed download are not woken.
DoneOnSuccessOnly(c) ==
    /\ \/ Goto(c, "ok", "okDone") /\ call' = [call EXCEPT ![c] = "ok"]
       \/ Goto(c, "err", "errDone") /\ call' = call
    /\ UNCHANGED <<cacheVars, downloading, joined, writer, history>>

\* The deferred call.wg.Done; call.err or call.path is set by then.
Done(c) ==
    /\ \/ Goto(c, "ok", "okDone") /\ call' = [call EXCEPT ![c] = "ok"]
       \/ Goto(c, "err", "errDone") /\ call' = [call EXCEPT ![c] = "err"]
    /\ UNCHANGED <<cacheVars, downloading, joined, writer, history>>

\* The deferred downloading.Delete, and the return from Acquire.
Delete(c) ==
    /\ Goto(c, "okDone", "held") \/ Goto(c, "errDone", "failed")
    /\ SetFlight(c, Nobody)
    /\ UNCHANGED <<cacheVars, call, joined, writer, history>>

\* Downloader.Release, once per Acquire that returned a path.
Return(c) ==
    /\ Goto(c, "held", "released")
    /\ Release(url[c])
    /\ gave' = [gave EXCEPT ![c] = IF Cached(url[c]) THEN entries[url[c]].putBy ELSE Nobody]
    /\ UNCHANGED <<flightVars, writer, took>>
-----------------------------------------------------------------------------
\* What a caller does in Acquire from its lookup on, and the Release.
Advance(c) ==
    \/ TakeHit(c) \/ LoadOrStore(c) \/ Wake(c) \/ TakeJoined(c)
    \/ FetchAnswered(c) \/ FetchRefused(c) \/ FetchCreate(c) \/ CopyOk(c) \/ CopyFail(c)
    \/ PutFetched(c) \/ TakeOwn(c) \/ Done(c) \/ Delete(c)

Step(c) == Advance(c) \/ Return(c)

ClientUnchanged == UNCHANGED <<pc, flightVars, writer, history>>

Sweep == SweepOnce /\ ClientUnchanged

\* The clock, and dl.Invalidate(publicURL) of a job that has uploaded there.
Tick(u) == Expire(u) /\ ClientUnchanged
Publish(u) == u \in Published /\ Invalidate(u) /\ ClientUnchanged

Next ==
    \/ \E c \in Callers : Lookup(c) \/ Step(c)
    \/ Sweep
    \/ \E u \in Urls : Tick(u) \/ Publish(u)

\* Goroutines that can run are run, requests end (both HTTP clients have a
\* timeout), jobs end (FFmpeg runs under a timeout; ffprobe, runner.go:149, has none
\* and is taken to end), the ticker ticks and time passes.  Nothing makes a client ask.
Fairness ==
    /\ \A c \in Callers : WF_vars(Step(c))
    /\ WF_vars(Sweep)
    /\ \A u \in Urls : WF_vars(Tick(u))

Spec == Init /\ [][Next]_vars /\ Fairness
-----------------------------------------------------------------------------
Takers(p) == {c \in Callers : took[c] = p}
Givers(p) == {c \in Callers : gave[c] = p}

\* c has been counted in the entry that the Put of p made, and not released it.
Holds(c, p) == took[c] = p /\ pc[c] # "released"

\* c has owned a download of its URL.
Owned(c) == pc[c] \in Owning \/ call[c] # "open"

\* A Downloader never has two downloads of one URL in flight, and the deferred
\* Delete of a download removes that download's own call from the map, never the
\* call of a later one (downloader.go:53-71).
SingleFlight ==
    \A c \in Callers : pc[c] \in Owning <=> Flight(c) = c

\* Whatever the order of Puts, Acquires and Releases of all callers, the refCount of
\* an entry is the number of Acquires that found that very entry less the
\* number of Releases that did (file_cache.go:84-115).
RefCountExact ==
    \A u \in Urls : Cached(u) =>
        entries[u].refCount = Cardinality(Takers(entries[u].putBy))
                              - Cardinality(Givers(entries[u].putBy))

\* An entry nobody holds any more has no positive count left, so that the
\* sweeper can take it: every Acquire is matched, on every path through
\* Downloader.Acquire, by the one Release (downloader.go:33-34, 44-45).
NoLeakedReference ==
    \A u \in Urls :
        /\ Cached(u)
        /\ \A c \in Callers : ~Holds(c, entries[u].putBy)
        => entries[u].refCount <= 0

\* As long as the entry has only been released by callers it had counted, the
\* sweeper and the Releases of others leave the entry and its file to a caller
\* that still holds it (file_cache.go:62 and 111).
ReferencedEntryKept ==
    [][ Sweep \/ (\E c \in Callers : Return(c)) =>
        \A u \in Urls, p \in Callers :
            /\ Cached(u) /\ entries[u].putBy = p
            /\ \E c \in Callers : Holds(c, p)'
            /\ Givers(p)' \subseteq Takers(p)
            => Cached(u)' /\ files'[u] = files[u] ]_vars

\* If the URL has been downloaded by one caller only, everyone that is counted in
\* its entry finds the complete file at the path (downloader.go:46-83 with
\* local.go:33-59): no path through a failed or unfinished copy gives out a path.
SoleDownloadIsWhole ==
    \A u \in Urls :
        (\A c, d \in Callers : Owned(c) /\ Owned(d) /\ url[c] = u /\ url[d] = u => c = d)
        => \A c \in Callers : url[c] = u /\ took[c] # Nobody /\ pc[c] # "released"
                              => files[u] = "whole"

\* Every Acquire returns: a goroutine that waits on another's download is woken
\* whether that succeeds or fails (downloader.go:56-71).
AcquireReturns ==
    \A c \in Callers : pc[c] \in Labels \ {"start"} ~> pc[c] \in {"held", "failed", "released"}

\* Every entry is given up in the end, by the sweeper or by a Release
\* (file_cache.go:47-67, 111-114).
EntriesReclaimed == \A u \in Urls : Cached(u) ~> ~Cached(u)
-----------------------------------------------------------------------------
(* A statement of the repository's documents and tests.                    *)

\* "Cache is reference-counted" (README.md:35), and "sweepOnce deleted file that is
\* still in use (refCount > 0)" (file_cache_test.go:107) is an error: neither the
\* sweeper nor a Release deletes the file of a URL that another caller holds, not even
\* when every caller that has found or made an entry has counted itself in it.
FileInUseKept ==
    [][ /\ Sweep \/ (\E c \in Callers : Return(c))
        /\ \A c \in Callers : pc[c] \notin {"hit", "put", "joined"}
        => \A u \in Urls : (\E c \in Callers : url[c] = u /\ pc[c] = "held" /\ pc'[c] = "held")
                           => files'[u] = files[u] ]_vars
=============================================================================

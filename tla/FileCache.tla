------------------------------ MODULE FileCache ------------------------------
(***************************************************************************)
(* The shared cache of downloaded source videos, with the directory        *)
(* workDir/cache it describes (internal/infra/ffmpeg/file_cache.go).       *)
(*                                                                         *)
(* Every method of FileCache runs under one mutex, so each is one atomic   *)
(* operator here.  The module has no next-state relation of its own: the   *)
(* modules of the cache's clients extend it and conjoin these operators    *)
(* with their own steps.                                                   *)
(*                                                                         *)
(* Abstractions.  Time is the flag "expired" of an entry: the comparison   *)
(* now.After(expiresAt) can only turn from false to true, at any moment    *)
(* (Expire).  The path of a cached file is a function of its URL, the      *)
(* SHA-256 of it under workDir/cache, so "files" is indexed by URL.        *)
(***************************************************************************)
EXTENDS Integers

CONSTANTS Urls,     \* source URLs
          Callers,  \* the goroutines that may put an entry
          NoEntry   \* what the map holds for a URL it has no entry for

VARIABLES entries,  \* FileCache.entries: a cacheEntry, or NoEntry, for each URL
          files     \* the file at the URL's path: absent, partly written, whole

cacheVars == <<entries, files>>

\* putBy is not in the code: it names the Put that made the entry, so that an
\* entry can be told from the one that replaced it.
Entry == [refCount : Int, expired : BOOLEAN, putBy : Callers]

FileStates == {"absent", "partial", "whole"}

ASSUME NoEntryAssumption == NoEntry \notin Entry

CacheTypeOK ==
    /\ entries \in [Urls -> Entry \cup {NoEntry}]
    /\ files \in [Urls -> FileStates]

CacheInit ==
    /\ entries = [u \in Urls |-> NoEntry]
    /\ files = [u \in Urls |-> "absent"]
-----------------------------------------------------------------------------
Cached(u) == entries[u] # NoEntry

\* Get answers a path for an entry that has not expired; the path is the URL's.
Get(u) == Cached(u) /\ ~entries[u].expired

\* Put overwrites whatever entry there was and starts counting from zero.
Put(u, c) ==
    entries' = [entries EXCEPT ![u] = [refCount |-> 0, expired |-> FALSE, putBy |-> c]]

\* A faulty form: the count is set instead of incremented.
AcquireAbsolute(u) ==
    entries' = IF Cached(u) THEN [entries EXCEPT ![u].refCount = 1] ELSE entries

\* Acquire counts one more user; it does nothing when there is no entry.
Acquire(u) ==
    entries' = IF Cached(u) THEN [entries EXCEPT ![u].refCount = @ + 1] ELSE entries

\* Faulty forms: the comparison with zero is off by one, each way.
RemovableAtOne(e) == e # NoEntry /\ e.refCount <= 1 /\ e.expired
RemovableNever(e) == e # NoEntry /\ e.refCount < 0 /\ e.expired

\* The condition under which Release and sweepOnce delete the file and the entry.
Removable(e) == e # NoEntry /\ e.refCount <= 0 /\ e.expired

\* os.Remove(localPath) and delete(entries, key) for every URL in us.
Drop(us) ==
    /\ entries' = [u \in Urls |-> IF u \in us THEN NoEntry ELSE entries[u]]
    /\ files' = [u \in Urls |-> IF u \in us THEN "absent" ELSE files[u]]

Decremented(u) == [entries[u] EXCEPT !.refCount = @ - 1]

\* A faulty form: Release does not count.
ReleaseNotCounting(u) == IF Removable(entries[u]) THEN Drop({u}) ELSE UNCHANGED cacheVars

Release(u) ==
    IF Cached(u) /\ Removable(Decremented(u))
    THEN Drop({u})
    ELSE /\ entries' = IF Cached(u) THEN [entries EXCEPT ![u] = Decremented(u)] ELSE entries
         /\ files' = files

\* A faulty form: an entry that is in use is kept.
InvalidateIdle(u) ==
    /\ Cached(u)
    /\ entries' = IF entries[u].refCount > 0 THEN entries ELSE [entries EXCEPT ![u] = NoEntry]
    /\ files' = files

\* Invalidate forgets the entry and leaves the file on the disk.
Invalidate(u) ==
    /\ Cached(u)
    /\ entries' = [entries EXCEPT ![u] = NoEntry]
    /\ files' = files

\* One tick of the sweeper that finds something to remove (the others change
\* nothing).
SweepOnce ==
    LET doomed == {u \in Urls : Removable(entries[u])}
    IN  doomed # {} /\ Drop(doomed)

\* The clock passes the entry's expiresAt.
Expire(u) ==
    /\ Get(u)
    /\ entries' = [entries EXCEPT ![u].expired = TRUE]
    /\ files' = files
=============================================================================

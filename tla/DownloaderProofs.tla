-------------------------- MODULE DownloaderProofs --------------------------
(***************************************************************************)
(* Proofs of the safety properties of Downloader, for any finite set of    *)
(* callers and any number of URLs and of Downloaders.                      *)
(***************************************************************************)
EXTENDS Downloader, FiniteSetTheorems, TLAPS

\* What a step of one caller does to pc.
LEMMA GotoMoves ==
  ASSUME pc \in [Callers -> Labels], NEW c \in Callers, NEW from, NEW to \in Labels,
         Goto(c, from, to)
  PROVE  /\ pc' \in [Callers -> Labels]
         /\ pc[c] = from
         /\ pc'[c] = to
         /\ \A x \in Callers \ {c} : pc'[x] = pc[x]
BY DEF Goto

\* The entry of u becomes e, and the files stay.
SetEntry(u, e) == entries' = [entries EXCEPT ![u] = e] /\ files' = files

LEMMA SetEntryType ==
  ASSUME CacheTypeOK, NEW u \in Urls, NEW e \in Entry, SetEntry(u, e)
  PROVE  CacheTypeOK'
BY DEF CacheTypeOK, SetEntry

\* Acquire either counts the caller in the entry there is, or does nothing.
LEMMA TakeEffect ==
  ASSUME TypeOK, NEW c \in Callers, Take(c)
  PROVE  LET u == url[c] IN
         /\ gave' = gave
         /\ \/ /\ ~Cached(u) /\ entries' = entries /\ files' = files
               /\ took' = [took EXCEPT ![c] = Nobody]
            \/ /\ Cached(u) /\ entries[u] \in Entry
               /\ took' = [took EXCEPT ![c] = entries[u].putBy]
               /\ \E e \in Entry : /\ e.refCount = entries[u].refCount + 1
                                   /\ e.putBy = entries[u].putBy
                                   /\ SetEntry(u, e)
<1> DEFINE u == url[c]
<1>1. /\ u \in Urls /\ gave' = gave /\ files' = files /\ Acquire(u)
      /\ took' = [took EXCEPT ![c] = IF Cached(u) THEN entries[u].putBy ELSE Nobody]
  BY DownloaderAssumption DEF Take
<1>2. CASE ~Cached(u)
  BY <1>1, <1>2 DEF Acquire
<1>3. CASE Cached(u)
  <2>1. entries[u] \in Entry
    BY <1>1, <1>3 DEF TypeOK, CacheTypeOK, Cached
  <2> DEFINE e == [entries[u] EXCEPT !.refCount = @ + 1]
  <2>2. /\ e \in Entry /\ e.refCount = entries[u].refCount + 1
        /\ e.putBy = entries[u].putBy
    BY <2>1 DEF Entry
  <2>3. SetEntry(u, e)
    BY <1>1, <1>3 DEF Acquire, SetEntry
  <2> HIDE DEF e
  <2> QED
    BY <1>1, <1>3, <2>1, <2>2, <2>3
<1> QED
  BY <1>2, <1>3

\* Release drops the entry with the file, or uncounts, or does nothing.
LEMMA ReturnEffect ==
  ASSUME TypeOK, NEW c \in Callers, Return(c)
  PROVE  LET u == url[c] IN
         \/ /\ ~Cached(u) /\ entries' = entries /\ files' = files
            /\ gave' = [gave EXCEPT ![c] = Nobody]
         \/ /\ Cached(u) /\ entries[u] \in Entry
            /\ gave' = [gave EXCEPT ![c] = entries[u].putBy]
            /\ \/ /\ entries[u].refCount <= 1 /\ entries[u].expired
                  /\ Drop({u})
               \/ \E e \in Entry : /\ e.refCount = entries[u].refCount - 1
                                   /\ e.putBy = entries[u].putBy
                                   /\ SetEntry(u, e)
<1> DEFINE u == url[c]
<1>1. /\ u \in Urls
      /\ gave' = [gave EXCEPT ![c] = IF Cached(u) THEN entries[u].putBy ELSE Nobody]
      /\ Release(u)
  BY DownloaderAssumption DEF Return
<1>2. CASE ~Cached(u)
  BY <1>1, <1>2 DEF Release
<1>3. CASE Cached(u)
  <2>1. entries[u] \in Entry
    BY <1>1, <1>3 DEF TypeOK, CacheTypeOK, Cached
  <2>2. CASE Removable(Decremented(u))
    <3>1. Decremented(u).refCount = entries[u].refCount - 1
          /\ Decremented(u).expired = entries[u].expired
      BY <2>1 DEF Decremented, Entry
    <3>2. entries[u].refCount <= 1 /\ entries[u].expired
      BY <2>1, <2>2, <3>1 DEF Removable, Entry
    <3>3. Drop({u})
      BY <1>1, <1>3, <2>2 DEF Release
    <3> QED
      BY <1>1, <1>3, <2>1, <3>2, <3>3
  <2>3. CASE ~Removable(Decremented(u))
    <3> DEFINE e == Decremented(u)
    <3>1. /\ e \in Entry /\ e.refCount = entries[u].refCount - 1
          /\ e.putBy = entries[u].putBy
      BY <2>1 DEF Decremented, Entry
    <3>2. SetEntry(u, e)
      BY <1>1, <1>3, <2>3 DEF Release, SetEntry
    <3> HIDE DEF e
    <3> QED
      BY <1>1, <1>3, <2>1, <3>1, <3>2
  <2> QED
    BY <2>2, <2>3
<1> QED
  BY <1>2, <1>3

\* Dropping entries keeps the cache's types.
LEMMA DropType ==
  ASSUME CacheTypeOK, NEW us, Drop(us)
  PROVE  CacheTypeOK'
BY DEF CacheTypeOK, Drop, FileStates

\* Every step keeps the types.
LEMMA TypeStep ==
  ASSUME TypeOK, [Next]_vars
  PROVE  TypeOK'
<1> USE DownloaderAssumption, NoEntryAssumption
<1> USE DEF TypeOK, cacheVars, flightVars, history, Labels
<1>1. CASE UNCHANGED vars
  BY <1>1 DEF vars, CacheTypeOK
<1>2. ASSUME NEW c \in Callers, Lookup(c) PROVE TypeOK'
  BY <1>2 DEF Lookup, Goto, CacheTypeOK
<1>3. ASSUME NEW c \in Callers, Take(c)
      PROVE  CacheTypeOK' /\ took' \in [Callers -> Callers \cup {Nobody}] /\ gave' = gave
  <2>1. url[c] \in Urls
    OBVIOUS
  <2>2. CASE ~Cached(url[c])
    BY <1>3, <2>2, TakeEffect DEF CacheTypeOK
  <2>3. CASE Cached(url[c])
    <3>1. entries[url[c]].putBy \in Callers
      BY <1>3, <2>3, TakeEffect DEF Entry
    <3>2. CacheTypeOK'
      BY <1>3, <2>1, <2>3, TakeEffect, SetEntryType
    <3> QED
      BY <1>3, <2>3, <3>1, <3>2, TakeEffect
  <2> QED
    BY <2>2, <2>3
<1>4. ASSUME NEW c \in Callers, TakeHit(c) PROVE TypeOK'
  BY <1>3, <1>4 DEF TakeHit, Goto
<1>5. ASSUME NEW c \in Callers, LoadOrStore(c) PROVE TypeOK'
  <2>0. Flight(c) \in Callers \cup {Nobody} /\ CacheTypeOK'
    BY <1>5 DEF Flight, LoadOrStore, CacheTypeOK
  <2>1. CASE Flight(c) = Nobody
    <3>1. Goto(c, "miss", "own") /\ SetFlight(c, c) /\ joined' = joined
          /\ UNCHANGED <<call, writer, took, gave>>
      BY <1>5, <2>1 DEF LoadOrStore
    <3> QED
      BY <2>0, <3>1 DEF SetFlight, Goto
  <2>2. CASE Flight(c) # Nobody
    <3>1. Goto(c, "miss", "wait") /\ joined' = [joined EXCEPT ![c] = Flight(c)]
          /\ UNCHANGED <<downloading, call, writer, took, gave>>
      BY <1>5, <2>2 DEF LoadOrStore
    <3> QED
      BY <2>0, <2>2, <3>1 DEF Goto
  <2> QED
    BY <2>1, <2>2
<1>6. ASSUME NEW c \in Callers, Wake(c) PROVE TypeOK'
  BY <1>6 DEF Wake, Goto, CacheTypeOK
<1>7. ASSUME NEW c \in Callers, TakeJoined(c) PROVE TypeOK'
  BY <1>3, <1>7 DEF TakeJoined, Goto
<1>8. ASSUME NEW c \in Callers, FetchAnswered(c) \/ FetchRefused(c) PROVE TypeOK'
  BY <1>8 DEF FetchAnswered, FetchRefused, Goto, CacheTypeOK
<1>9. ASSUME NEW c \in Callers, FetchCreate(c) PROVE TypeOK'
  BY <1>9 DEF FetchCreate, Goto, CacheTypeOK, FileStates
<1>10. ASSUME NEW c \in Callers, CopyOk(c) PROVE TypeOK'
  BY <1>10 DEF CopyOk, Goto, CacheTypeOK, FileStates
<1>11. ASSUME NEW c \in Callers, CopyFail(c) PROVE TypeOK'
  BY <1>11 DEF CopyFail, Goto, CacheTypeOK, FileStates
<1>12. ASSUME NEW c \in Callers, PutFetched(c) PROVE TypeOK'
  <2>1. [refCount |-> 0, expired |-> FALSE, putBy |-> c] \in Entry
    BY DEF Entry
  <2> QED
    BY <1>12, <2>1 DEF PutFetched, Put, Goto, CacheTypeOK
<1>13. ASSUME NEW c \in Callers, TakeOwn(c) PROVE TypeOK'
  BY <1>3, <1>13 DEF TakeOwn, Goto
<1>14. ASSUME NEW c \in Callers, Done(c) PROVE TypeOK'
  BY <1>14 DEF Done, Goto, CacheTypeOK
<1>15. ASSUME NEW c \in Callers, Delete(c) PROVE TypeOK'
  BY <1>15 DEF Delete, SetFlight, Goto, CacheTypeOK
<1>16. ASSUME NEW c \in Callers, Return(c) PROVE TypeOK'
  <2>1. CacheTypeOK' /\ gave' \in [Callers -> Callers \cup {Nobody}]
    <3>1. CASE ~Cached(url[c]) /\ entries' = entries /\ files' = files
               /\ gave' = [gave EXCEPT ![c] = Nobody]
      BY <3>1 DEF CacheTypeOK
    <3>2. ASSUME Cached(url[c]), entries[url[c]] \in Entry,
                 gave' = [gave EXCEPT ![c] = entries[url[c]].putBy]
          PROVE  gave' \in [Callers -> Callers \cup {Nobody}]
      BY <3>2 DEF Entry
    <3>3. ASSUME Drop({url[c]}) PROVE CacheTypeOK'
      BY <3>3, DropType
    <3>4. ASSUME NEW e \in Entry, SetEntry(url[c], e) PROVE CacheTypeOK'
      BY <3>4, SetEntryType
    <3> QED
      BY <1>16, <3>1, <3>2, <3>3, <3>4, ReturnEffect
  <2> QED
    BY <1>16, <2>1 DEF Return, Goto
<1>17. CASE Sweep
  BY <1>17, DropType DEF Sweep, SweepOnce, ClientUnchanged
<1>18. ASSUME NEW u \in Urls, Tick(u) PROVE TypeOK'
  <2>1. entries[u] \in Entry
    BY <1>18 DEF Tick, Expire, Get, Cached, CacheTypeOK
  <2>2. [entries[u] EXCEPT !.expired = TRUE] \in Entry
    BY <2>1 DEF Entry
  <2> QED
    BY <1>18, <2>2 DEF Tick, Expire, ClientUnchanged, CacheTypeOK
<1>19. ASSUME NEW u \in Urls, Publish(u) PROVE TypeOK'
  BY <1>19 DEF Publish, Invalidate, ClientUnchanged, CacheTypeOK
<1> QED
  BY <1>1, <1>2, <1>4, <1>5, <1>6, <1>7, <1>8, <1>9, <1>10, <1>11, <1>12, <1>13,
     <1>14, <1>15, <1>16, <1>17, <1>18, <1>19 DEF Next, Step, Advance

\* The type invariant: in particular a waiting caller always has a call to wait
\* on (downloader.go:55-59).
THEOREM TypeCorrect == Spec => []TypeOK
<1> USE DownloaderAssumption, NoEntryAssumption
<1>1. Init => TypeOK
  BY DEF Init, CacheInit, TypeOK, CacheTypeOK, FileStates, Labels
<1>2. TypeOK /\ [Next]_vars => TypeOK'
  BY TypeStep
<1>3. QED
  BY <1>1, <1>2, PTL DEF Spec
-----------------------------------------------------------------------------
(* Single flight. *)

\* Steps that neither enter nor leave the owning part of Acquire.
LEMMA FlightKept ==
  ASSUME TypeOK, SingleFlight, downloading' = downloading,
         \A c \in Callers : pc'[c] \in Owning <=> pc[c] \in Owning
  PROVE  SingleFlight'
BY DEF SingleFlight, Flight

\* Every step keeps the flights apart.
LEMMA FlightStep ==
  ASSUME TypeOK, SingleFlight, [Next]_vars
  PROVE  SingleFlight'
<1> USE DownloaderAssumption
<1> USE DEF TypeOK, Labels
<1>1. CASE UNCHANGED vars
  BY <1>1, FlightKept DEF vars
<1>2. ASSUME NEW c \in Callers, LoadOrStore(c) PROVE SingleFlight'
  <2>1. CASE Flight(c) = Nobody
    <3>1. Goto(c, "miss", "own") /\ SetFlight(c, c)
      BY <1>2, <2>1 DEF LoadOrStore
    <3>2. ASSUME NEW x \in Callers
          PROVE  Flight(x)' = IF dl[x] = dl[c] /\ url[x] = url[c] THEN c ELSE Flight(x)
      BY <3>1 DEF SetFlight, Flight
    <3>3. ASSUME NEW x \in Callers PROVE pc'[x] \in Owning <=> x = c \/ pc[x] \in Owning
      BY <3>1 DEF Goto, Owning
    <3>4. ASSUME NEW x \in Callers, dl[x] = dl[c], url[x] = url[c]
          PROVE  pc[x] \notin Owning
      BY <2>1, <3>4 DEF SingleFlight, Flight
    <3> QED
      BY <3>2, <3>3, <3>4 DEF SingleFlight
  <2>2. CASE Flight(c) # Nobody
    BY <1>2, <2>2, FlightKept DEF LoadOrStore, Goto, Owning
  <2> QED
    BY <2>1, <2>2
<1>3. ASSUME NEW c \in Callers, Delete(c) PROVE SingleFlight'
  <2>1. pc[c] \in Owning /\ Flight(c) = c
    BY <1>3 DEF Delete, Goto, Owning, SingleFlight
  <2>2. ASSUME NEW x \in Callers
        PROVE  Flight(x)' = IF dl[x] = dl[c] /\ url[x] = url[c] THEN Nobody ELSE Flight(x)
    BY <1>3 DEF Delete, SetFlight, Flight
  <2>3. ASSUME NEW x \in Callers PROVE pc'[x] \in Owning <=> x # c /\ pc[x] \in Owning
    BY <1>3 DEF Delete, Goto, Owning
  <2>4. ASSUME NEW x \in Callers, x # c, dl[x] = dl[c], url[x] = url[c]
        PROVE  pc[x] \notin Owning
    BY <2>1, <2>4 DEF SingleFlight, Flight
  <2> QED
    BY <2>2, <2>3, <2>4 DEF SingleFlight
<1>4. ASSUME NEW c \in Callers,
             Lookup(c) \/ TakeHit(c) \/ Wake(c) \/ TakeJoined(c) \/ FetchAnswered(c) \/ FetchRefused(c)
      PROVE  SingleFlight'
  BY <1>4, FlightKept
     DEF Lookup, TakeHit, Wake, TakeJoined, FetchAnswered, FetchRefused, Goto, flightVars, Owning
<1>5. ASSUME NEW c \in Callers,
             FetchCreate(c) \/ CopyOk(c) \/ CopyFail(c) \/ PutFetched(c) \/ TakeOwn(c)
      PROVE  SingleFlight'
  BY <1>5, FlightKept
     DEF FetchCreate, CopyOk, CopyFail, PutFetched, TakeOwn, Goto, flightVars, Owning
<1>6. ASSUME NEW c \in Callers, Done(c) \/ Return(c) PROVE SingleFlight'
  BY <1>6, FlightKept DEF Done, Return, Goto, flightVars, Owning
<1>7. CASE Sweep \/ \E u \in Urls : Tick(u) \/ Publish(u)
  BY <1>7, FlightKept DEF Sweep, Tick, Publish, ClientUnchanged, flightVars
<1> QED
  BY <1>1, <1>2, <1>3, <1>4, <1>5, <1>6, <1>7 DEF Next, Step, Advance

\* A Downloader never has two downloads of one URL in flight, and a Delete
\* removes the caller's own call (downloader.go:53-71).
THEOREM SingleFlightHolds == Spec => []SingleFlight
<1> USE DownloaderAssumption
<1>1. Init => SingleFlight
  BY DEF Init, SingleFlight, Flight, Owning
<1>2. TypeOK /\ SingleFlight /\ [Next]_vars => SingleFlight'
  BY FlightStep
<1>3. QED
  BY <1>1, <1>2, TypeCorrect, PTL DEF Spec
-----------------------------------------------------------------------------
(* Reference counts.  RefCountExact is not inductive alone: it needs to know  *)
(* that the Put a count refers to has happened, that it was for that URL, and *)
(* that a caller that has released the entry it took was uncounted in it.     *)

PutDone == {"put", "ok", "okDone", "held", "released"}

\* Before the caller's own cache.Acquire, or past a failure.
Uncounted == {"start", "hit", "miss", "own", "answered", "copy", "fetched", "put", "err", "errDone",
              "wait", "joined", "failed"}

EntryFromPut ==
    \A u \in Urls : Cached(u) =>
        pc[entries[u].putBy] \in PutDone /\ url[entries[u].putBy] = u

TookFromPut ==
    \A c \in Callers : took[c] # Nobody =>
        pc[c] \notin Uncounted /\ pc[took[c]] \in PutDone /\ url[took[c]] = url[c]

GaveFromPut ==
    \A c \in Callers : gave[c] # Nobody =>
        pc[c] = "released" /\ pc[gave[c]] \in PutDone

ReleasedGave ==
    \A c \in Callers, u \in Urls :
        Cached(u) /\ pc[c] = "released" /\ took[c] = entries[u].putBy => gave[c] = took[c]

CountInv == EntryFromPut /\ TookFromPut /\ GaveFromPut /\ ReleasedGave /\ RefCountExact

\* How many callers f maps to p.
Count(f, p) == Cardinality({x \in Callers : f[x] = p})

LEMMA CountNat == \A f, p : Count(f, p) \in Nat
<1> TAKE f, p
<1>1. {x \in Callers : f[x] = p} \subseteq Callers
  OBVIOUS
<1> QED
  BY <1>1, FS_Subset, FS_CardinalityType, DownloaderAssumption DEF Count

\* RefCountExact, in these terms.
LEMMA ExactCounts ==
  RefCountExact <=> \A u \in Urls : Cached(u) =>
                       entries[u].refCount = Count(took, entries[u].putBy)
                                             - Count(gave, entries[u].putBy)
BY DEF RefCountExact, Takers, Givers, Count

LEMMA ExactCountsNext ==
  RefCountExact' <=> \A u \in Urls : Cached(u)' =>
                        entries'[u].refCount = Count(took', entries'[u].putBy)
                                               - Count(gave', entries'[u].putBy)
BY DEF RefCountExact, Takers, Givers, Count

\* Changing one value of a function from Nobody moves one count by one.
LEMMA CountOne ==
  ASSUME NEW f, NEW h, NEW c \in Callers, f[c] = Nobody,
         \A x \in Callers : x # c => h[x] = f[x], NEW p \in Callers
  PROVE  /\ h[c] = p => Count(h, p) = Count(f, p) + 1
         /\ h[c] # p => Count(h, p) = Count(f, p)
<1> DEFINE F == {x \in Callers : f[x] = p}
           G == {x \in Callers : h[x] = p}
<1>1. IsFiniteSet(F) /\ Cardinality(F) \in Nat
  <2>1. F \subseteq Callers
    OBVIOUS
  <2>2. IsFiniteSet(F)
    BY <2>1, FS_Subset, DownloaderAssumption
  <2> QED
    BY <2>2, FS_CardinalityType
<1>2. c \notin F
  BY DownloaderAssumption
<1>3. G = IF h[c] = p THEN F \cup {c} ELSE F
  BY DownloaderAssumption
<1>4. CASE h[c] = p
  <2>1. Cardinality(F \cup {c}) = Cardinality(F) + 1
    BY <1>1, <1>2, FS_AddElement
  <2> QED
    BY <1>1, <1>3, <1>4, <2>1 DEF Count
<1>5. CASE h[c] # p
  BY <1>1, <1>3, <1>5 DEF Count
<1> QED
  BY <1>4, <1>5

\* A step that counts nobody, and at most removes entries or lets them expire.
LEMMA QuietStep ==
  ASSUME TypeOK, CountInv, took' = took, gave' = gave,
         \A u \in Urls : Cached(u)' => /\ Cached(u)
                                       /\ entries'[u].putBy = entries[u].putBy
                                       /\ entries'[u].refCount = entries[u].refCount,
         \A c \in Callers : /\ pc[c] \in PutDone => pc'[c] \in PutDone
                            /\ pc[c] \notin Uncounted => pc'[c] \notin Uncounted
                            /\ pc[c] = "released" <=> pc'[c] = "released"
  PROVE  CountInv'
<1> USE DownloaderAssumption
<1>1. \A u \in Urls : Cached(u) => entries[u].putBy \in Callers
  BY DEF TypeOK, CacheTypeOK, Cached, Entry
<1>2. EntryFromPut'
  BY <1>1 DEF CountInv, EntryFromPut
<1>3. TookFromPut' /\ GaveFromPut'
  BY DEF CountInv, TookFromPut, GaveFromPut, TypeOK
<1>4. ReleasedGave'
  BY DEF CountInv, ReleasedGave
<1>5. RefCountExact'
  BY DEF CountInv, RefCountExact, Takers, Givers
<1> QED
  BY <1>2, <1>3, <1>4, <1>5 DEF CountInv

\* A step in which one caller is counted.
LEMMA TakeStep ==
  ASSUME TypeOK, CountInv, NEW c \in Callers, Take(c), pc[c] \in Uncounted,
         NEW to \in {"held", "ok"}, pc' = [pc EXCEPT ![c] = to]
  PROVE  CountInv'
<1> USE DownloaderAssumption
<1> DEFINE u == url[c]
           p == entries[u].putBy
<1>1. u \in Urls /\ took[c] = Nobody /\ gave' = gave
  BY TakeEffect DEF CountInv, TookFromPut, TypeOK
<1>2. /\ pc'[c] \in PutDone \ {"released"} /\ pc'[c] \notin Uncounted
      /\ \A x \in Callers : x # c => pc'[x] = pc[x]
      /\ pc[c] # "released"
  BY DEF TypeOK, PutDone, Uncounted
<1>3. \A v \in Urls : Cached(v) => entries[v].putBy \in Callers
  BY DEF TypeOK, CacheTypeOK, Cached, Entry
<1>4. CASE ~Cached(u)
  <2>1. entries' = entries /\ took' = took
    BY <1>1, <1>4, TakeEffect DEF TypeOK
  <2>2. \A v \in Urls : Cached(v)' => /\ Cached(v)
                                      /\ entries'[v].putBy = entries[v].putBy
                                      /\ entries'[v].refCount = entries[v].refCount
    BY <2>1 DEF Cached
  <2> QED
    BY <1>1, <1>2, <2>1, <2>2, QuietStep
<1>5. CASE Cached(u)
  <2>1. PICK e \in Entry : /\ e.refCount = entries[u].refCount + 1
                           /\ e.putBy = p
                           /\ SetEntry(u, e)
    BY <1>5, TakeEffect
  <2>2. took' = [took EXCEPT ![c] = p] /\ p \in Callers /\ entries[u] \in Entry
    BY <1>1, <1>3, <1>5, TakeEffect
  <2>3. /\ Cached(u)' /\ entries'[u].refCount = entries[u].refCount + 1
        /\ entries'[u].putBy = p
        /\ \A v \in Urls : v # u => entries'[v] = entries[v]
    BY <1>1, <2>1, NoEntryAssumption DEF SetEntry, TypeOK, CacheTypeOK, Cached
  <2>4. \A v \in Urls : Cached(v)' => Cached(v) /\ entries'[v].putBy = entries[v].putBy
    BY <1>5, <2>3 DEF Cached
  <2>5. \A x \in Callers : pc[x] \in PutDone => pc'[x] \in PutDone
    BY <1>2
  <2>6. EntryFromPut'
    BY <1>3, <2>4, <2>5 DEF CountInv, EntryFromPut
  <2>7. TookFromPut'
    <3>1. pc[p] \in PutDone /\ url[p] = u
      BY <1>1, <1>5 DEF CountInv, EntryFromPut
    <3>2. took'[c] = p /\ \A x \in Callers : x # c => took'[x] = took[x]
      BY <2>2 DEF TypeOK
    <3>3. \A x \in Callers : took[x] \in Callers \cup {Nobody}
      BY DEF TypeOK
    <3> QED
      BY <1>2, <2>2, <2>5, <3>1, <3>2, <3>3 DEF CountInv, TookFromPut
  <2>8. GaveFromPut'
    <3>1. \A x \in Callers : gave[x] \in Callers \cup {Nobody}
      BY DEF TypeOK
    <3> QED
      BY <1>1, <1>2, <2>5, <3>1 DEF CountInv, GaveFromPut
  <2>9. ReleasedGave'
    <3>1. \A x \in Callers : x # c => took'[x] = took[x]
      BY <2>2 DEF TypeOK
    <3> QED
      BY <1>1, <1>2, <2>4, <3>1 DEF CountInv, ReleasedGave
  <2>10. RefCountExact'
    <3>1. ASSUME NEW q \in Callers
          PROVE  /\ q = p => Count(took', q) = Count(took, q) + 1
                 /\ q # p => Count(took', q) = Count(took, q)
      <4>1. took'[c] = p /\ \A x \in Callers : x # c => took'[x] = took[x]
        BY <2>2 DEF TypeOK
      <4> HIDE DEF p
      <4> QED
        BY <1>1, <4>1, CountOne
    <3>2. ASSUME NEW v \in Urls, v # u, Cached(v)
          PROVE  entries[v].putBy # p
      BY <1>1, <1>5, <3>2 DEF CountInv, EntryFromPut
    <3>3. ASSUME NEW v \in Urls, Cached(v)'
          PROVE  entries'[v].refCount = Count(took', entries'[v].putBy)
                                        - Count(gave', entries'[v].putBy)
      <4>1. entries[v].refCount = Count(took, entries[v].putBy)
                                  - Count(gave, entries[v].putBy)
        BY <2>4, <3>3, ExactCounts DEF CountInv
      <4>2. CASE v = u
        <5>1. Count(took, p) \in Nat /\ Count(gave, p) \in Nat
          BY CountNat
        <5>2. Count(took', p) = Count(took, p) + 1 /\ gave' = gave
          BY <1>1, <2>2, <3>1
        <5>3. entries[u].refCount = Count(took, p) - Count(gave, p)
          BY <4>1, <4>2
        <5>4. entries'[v].refCount = entries[u].refCount + 1 /\ entries'[v].putBy = p
          BY <2>3, <4>2
        <5> HIDE DEF p
        <5> QED
          BY <5>1, <5>2, <5>3, <5>4
      <4>3. CASE v # u
        <5>1. entries'[v] = entries[v] /\ Cached(v) /\ entries[v].putBy \in Callers
          BY <1>3, <2>3, <2>4, <3>3, <4>3
        <5> QED
          BY <1>1, <3>1, <3>2, <4>1, <4>3, <5>1
      <4> QED
        BY <4>2, <4>3
    <3> QED
      BY <3>3, ExactCountsNext
  <2> QED
    BY <2>6, <2>7, <2>8, <2>9, <2>10 DEF CountInv
<1> QED
  BY <1>4, <1>5

\* A step in which one caller is uncounted.
LEMMA ReturnStep ==
  ASSUME TypeOK, CountInv, NEW c \in Callers, Return(c)
  PROVE  CountInv'
<1> USE DownloaderAssumption
<1> DEFINE u == url[c]
           p == entries[u].putBy
<1>1. /\ u \in Urls /\ took' = took /\ pc[c] = "held" /\ pc'[c] = "released"
      /\ \A x \in Callers : x # c => pc'[x] = pc[x]
  BY DEF Return, Goto, TypeOK
<1>2. \A v \in Urls : Cached(v) => entries[v].putBy \in Callers /\ entries[v] \in Entry
  BY DEF TypeOK, CacheTypeOK, Cached, Entry
<1>3. \A x \in Callers : /\ pc[x] \in PutDone => pc'[x] \in PutDone
                         /\ pc[x] \notin Uncounted => pc'[x] \notin Uncounted
  BY <1>1 DEF PutDone, Uncounted
<1>4. /\ gave[c] = Nobody
      /\ \A x \in Callers : took[x] \in Callers \cup {Nobody} /\ gave[x] \in Callers \cup {Nobody}
  BY <1>1 DEF CountInv, GaveFromPut, TypeOK
<1>5. \/ ~Cached(u) /\ gave'[c] = Nobody
      \/ Cached(u) /\ gave'[c] = p
  BY DEF Return, TypeOK
<1>6. \A x \in Callers : x # c => gave'[x] = gave[x]
  BY DEF Return, TypeOK
<1>7. ASSUME NEW v \in Urls, Cached(v)'
      PROVE  /\ Cached(v) /\ entries'[v].putBy = entries[v].putBy
             /\ v # u => entries'[v] = entries[v]
             /\ v = u => entries'[v].refCount = entries[v].refCount - 1
  <2>1. CASE entries' = entries /\ ~Cached(u)
    BY <1>7, <2>1 DEF Cached
  <2>2. CASE Cached(u) /\ Drop({u})
    BY <1>7, <2>2 DEF Cached, Drop
  <2>3. ASSUME Cached(u), NEW e \in Entry, SetEntry(u, e),
               e.refCount = entries[u].refCount - 1, e.putBy = p
        PROVE  /\ Cached(v) /\ entries'[v].putBy = entries[v].putBy
               /\ v # u => entries'[v] = entries[v]
               /\ v = u => entries'[v].refCount = entries[v].refCount - 1
    BY <1>1, <1>7, <2>3 DEF Cached, SetEntry, TypeOK, CacheTypeOK
  <2> QED
    BY <2>1, <2>2, <2>3, ReturnEffect
<1>8. EntryFromPut'
  BY <1>2, <1>3, <1>7 DEF CountInv, EntryFromPut
<1>9. TookFromPut'
  BY <1>1, <1>3, <1>4 DEF CountInv, TookFromPut
<1>10. GaveFromPut'
  <2>1. Cached(u) => p \in Callers /\ pc[p] \in PutDone
    BY <1>1, <1>2 DEF CountInv, EntryFromPut
  <2> QED
    BY <1>1, <1>3, <1>4, <1>5, <1>6, <2>1 DEF CountInv, GaveFromPut
<1>11. ReleasedGave'
  <2>1. ASSUME NEW x \in Callers, NEW v \in Urls,
               Cached(v)', pc'[x] = "released", took'[x] = entries'[v].putBy
        PROVE  gave'[x] = took'[x]
    <3>1. Cached(v) /\ took[x] = entries[v].putBy /\ took[x] \in Callers
      BY <1>1, <1>2, <1>7, <2>1
    <3>2. CASE x = c
      <4>1. v = u
        BY <1>4, <3>1, <3>2 DEF CountInv, EntryFromPut, TookFromPut
      <4> QED
        BY <1>1, <1>5, <3>1, <3>2, <4>1
    <3>3. CASE x # c
      BY <1>1, <1>6, <2>1, <3>1, <3>3 DEF CountInv, ReleasedGave
    <3> QED
      BY <3>2, <3>3
  <2> QED
    BY <2>1 DEF ReleasedGave
<1>12. RefCountExact'
  <2>1. ASSUME NEW v \in Urls, Cached(v)'
        PROVE  entries'[v].refCount = Count(took', entries'[v].putBy)
                                      - Count(gave', entries'[v].putBy)
    <3> DEFINE q == entries[v].putBy
    <3>1. /\ Cached(v) /\ q \in Callers /\ entries'[v].putBy = q
          /\ entries[v].refCount = Count(took, q) - Count(gave, q)
      BY <1>2, <1>7, <2>1, ExactCounts DEF CountInv
    <3>2. CASE v = u
      <4>1. Count(gave', q) = Count(gave, q) + 1
        <5>1. gave'[c] = q
          BY <1>5, <3>1, <3>2
        <5>2. gave[c] = Nobody /\ q \in Callers
          BY <1>4, <3>1
        <5> HIDE DEF q, u, p
        <5> QED
          BY <1>6, <5>1, <5>2, CountOne
      <4>2. Count(took, q) \in Nat /\ Count(gave, q) \in Nat
        BY CountNat
      <4>3. entries'[v].refCount = entries[v].refCount - 1
        BY <1>7, <2>1, <3>2
      <4> HIDE DEF q
      <4> QED
        BY <1>1, <3>1, <4>1, <4>2, <4>3
    <3>3. CASE v # u
      <4>1. gave'[c] # q
        BY <1>1, <1>5, <3>1, <3>3 DEF CountInv, EntryFromPut
      <4>2. Count(gave', q) = Count(gave, q)
        <5>1. gave[c] = Nobody /\ q \in Callers
          BY <1>4, <3>1
        <5> HIDE DEF q, u, p
        <5> QED
          BY <1>6, <4>1, <5>1, CountOne
      <4>3. entries'[v] = entries[v]
        BY <1>7, <2>1, <3>3
      <4> HIDE DEF q
      <4> QED
        BY <1>1, <3>1, <4>2, <4>3
    <3> QED
      BY <3>2, <3>3
  <2> QED
    BY <2>1, ExactCountsNext
<1> QED
  BY <1>8, <1>9, <1>10, <1>11, <1>12 DEF CountInv

\* A Put starts counting from zero, and nobody has been counted in its entry.
LEMMA PutStep ==
  ASSUME TypeOK, CountInv, NEW c \in Callers, PutFetched(c)
  PROVE  CountInv'
<1> USE DownloaderAssumption
<1> DEFINE u == url[c]
           fresh == [refCount |-> 0, expired |-> FALSE, putBy |-> c]
<1>1. /\ u \in Urls /\ took' = took /\ gave' = gave
      /\ pc[c] = "fetched" /\ pc'[c] = "put"
      /\ \A x \in Callers : x # c => pc'[x] = pc[x]
  BY DEF PutFetched, Goto, TypeOK, history
<1>2. /\ entries'[u] = fresh
      /\ \A v \in Urls : v # u => entries'[v] = entries[v]
  BY <1>1 DEF PutFetched, Put, TypeOK, CacheTypeOK
<1>3. \A x \in Callers : /\ pc[x] \in PutDone => pc'[x] \in PutDone
                         /\ pc[x] \notin Uncounted => pc'[x] \notin Uncounted
                         /\ pc[x] = "released" <=> pc'[x] = "released"
  BY <1>1 DEF PutDone, Uncounted
<1>4. \A x \in Callers : took[x] # c /\ gave[x] # c
  BY <1>1 DEF CountInv, TookFromPut, GaveFromPut, PutDone
<1>5. \A v \in Urls : v # u /\ Cached(v)' => Cached(v) /\ entries[v].putBy \in Callers
  BY <1>2 DEF TypeOK, CacheTypeOK, Cached, Entry
<1>6. EntryFromPut'
  <2>1. pc'[c] \in PutDone
    BY <1>1 DEF PutDone
  <2> QED
    BY <1>1, <1>2, <1>3, <1>5, <2>1 DEF CountInv, EntryFromPut
<1>7. TookFromPut' /\ GaveFromPut'
  BY <1>1, <1>3 DEF CountInv, TookFromPut, GaveFromPut, TypeOK
<1>8. ReleasedGave'
  BY <1>1, <1>2, <1>3, <1>4, <1>5 DEF CountInv, ReleasedGave
<1>9. RefCountExact'
  <2>1. Count(took, c) = 0 /\ Count(gave, c) = 0
    <3>1. {x \in Callers : took[x] = c} = {} /\ {x \in Callers : gave[x] = c} = {}
      BY <1>4
    <3> QED
      BY <3>1, FS_EmptySet DEF Count
  <2>2. \A v \in Urls : v # u /\ Cached(v)' =>
           entries'[v].refCount = Count(took', entries'[v].putBy)
                                  - Count(gave', entries'[v].putBy)
    BY <1>1, <1>2, <1>5, ExactCounts DEF CountInv
  <2>3. entries'[u].refCount = Count(took', entries'[u].putBy)
                               - Count(gave', entries'[u].putBy)
    BY <1>1, <1>2, <2>1
  <2> QED
    BY <2>2, <2>3, ExactCountsNext
<1> QED
  BY <1>6, <1>7, <1>8, <1>9 DEF CountInv
\* Every step keeps the counts exact.
LEMMA CountStep ==
  ASSUME TypeOK, CountInv, [Next]_vars
  PROVE  CountInv'
<1> USE DownloaderAssumption
<1> DEFINE Same == \A u \in Urls : Cached(u)' =>
                     /\ Cached(u)
                     /\ entries'[u].putBy = entries[u].putBy
                     /\ entries'[u].refCount = entries[u].refCount
<1>1. ASSUME entries' = entries PROVE Same
  BY <1>1 DEF Cached
<1>2. CASE UNCHANGED vars
  BY <1>1, <1>2, QuietStep DEF vars
<1>3. ASSUME NEW c \in Callers, TakeHit(c) \/ TakeJoined(c) \/ TakeOwn(c) PROVE CountInv'
  <2>1. /\ Take(c) /\ pc[c] \in Uncounted
        /\ \E to \in {"held", "ok"} : pc' = [pc EXCEPT ![c] = to]
    BY <1>3 DEF TakeHit, TakeJoined, TakeOwn, Goto, Uncounted
  <2> QED
    BY <2>1, TakeStep
<1>4. ASSUME NEW c \in Callers, PutFetched(c) PROVE CountInv'
  BY <1>4, PutStep
<1>5. ASSUME NEW c \in Callers, Return(c) PROVE CountInv'
  BY <1>5, ReturnStep
<1>6. ASSUME NEW c \in Callers, NEW from, NEW to, Goto(c, from, to),
             from \in PutDone => to \in PutDone,
             from \notin Uncounted => to \notin Uncounted,
             from # "released", to # "released"
      PROVE  \A x \in Callers : /\ pc[x] \in PutDone => pc'[x] \in PutDone
                                /\ pc[x] \notin Uncounted => pc'[x] \notin Uncounted
                                /\ pc[x] = "released" <=> pc'[x] = "released"
  BY <1>6 DEF Goto, TypeOK
<1> USE DEF PutDone, Uncounted, cacheVars, flightVars, history
<1>7. ASSUME NEW c \in Callers, Lookup(c) \/ Wake(c) PROVE CountInv'
  BY <1>1, <1>6, <1>7, QuietStep DEF Lookup, Wake
<1>8. ASSUME NEW c \in Callers, LoadOrStore(c) PROVE CountInv'
  BY <1>1, <1>6, <1>8, QuietStep DEF LoadOrStore
<1>9. ASSUME NEW c \in Callers, FetchAnswered(c) \/ FetchRefused(c) \/ FetchCreate(c) PROVE CountInv'
  BY <1>1, <1>6, <1>9, QuietStep DEF FetchAnswered, FetchRefused, FetchCreate
<1>10. ASSUME NEW c \in Callers, CopyOk(c) \/ CopyFail(c) PROVE CountInv'
  BY <1>1, <1>6, <1>10, QuietStep DEF CopyOk, CopyFail
<1>11. ASSUME NEW c \in Callers, Done(c) PROVE CountInv'
  BY <1>1, <1>6, <1>11, QuietStep DEF Done
<1>12. ASSUME NEW c \in Callers, Delete(c) PROVE CountInv'
  BY <1>1, <1>6, <1>12, QuietStep DEF Delete
<1>13. CASE Sweep
  <2>1. Same
    BY <1>13 DEF Sweep, SweepOnce, Drop, Cached
  <2> QED
    BY <1>13, <2>1, QuietStep DEF Sweep, ClientUnchanged
<1>14. ASSUME NEW u \in Urls, Tick(u) PROVE CountInv'
  <2> DEFINE e == [entries[u] EXCEPT !.expired = TRUE]
  <2>1. entries[u] \in Entry /\ entries' = [entries EXCEPT ![u] = e]
    BY <1>14 DEF Tick, Expire, Get, Cached, TypeOK, CacheTypeOK
  <2>2. e.putBy = entries[u].putBy /\ e.refCount = entries[u].refCount
    BY <2>1 DEF Entry
  <2>3. Same
    <3> HIDE DEF e
    <3> QED
      BY <1>14, <2>1, <2>2 DEF Tick, Expire, Get, Cached, TypeOK, CacheTypeOK
  <2> QED
    BY <1>14, <2>3, QuietStep DEF Tick, ClientUnchanged
<1>15. ASSUME NEW u \in Urls, Publish(u) PROVE CountInv'
  <2>1. Same
    BY <1>15 DEF Publish, Invalidate, Cached, TypeOK, CacheTypeOK
  <2> QED
    BY <1>15, <2>1, QuietStep DEF Publish, ClientUnchanged
<1> QED
  BY <1>2, <1>3, <1>4, <1>5, <1>7, <1>8, <1>9, <1>10, <1>11, <1>12, <1>13, <1>14,
     <1>15 DEF Next, Step, Advance


LEMMA CountInvariant == Spec => []CountInv
<1> USE DownloaderAssumption
<1>1. Init => CountInv
  BY DEF Init, CacheInit, CountInv, EntryFromPut, TookFromPut, GaveFromPut, ReleasedGave,
         RefCountExact, Cached
<1>2. TypeOK /\ CountInv /\ [Next]_vars => CountInv'
  BY CountStep
<1>3. QED
  BY <1>1, <1>2, TypeCorrect, PTL DEF Spec

\* The refCount of an entry is exactly the number of Acquires that found it less the
\* number of Releases that did (file_cache.go:84-115).
THEOREM RefCountExactHolds == Spec => []RefCountExact
<1>1. CountInv => RefCountExact
  BY DEF CountInv
<1>2. QED
  BY <1>1, CountInvariant, PTL

\* If everyone counted in an entry has released it, the count is not positive.
LEMMA IdleCount ==
  ASSUME TypeOK, CountInv, NEW u \in Urls, Cached(u),
         \A c \in Callers : ~Holds(c, entries[u].putBy)
  PROVE  entries[u].refCount <= 0
<1> DEFINE p == entries[u].putBy
           T == {c \in Callers : took[c] = p}
           G == {c \in Callers : gave[c] = p}
<1>1. T \subseteq G
  <2>1. ASSUME NEW c \in T PROVE gave[c] = p
    <3>1. pc[c] = "released"
      BY <2>1 DEF Holds
    <3> QED
      BY <2>1, <3>1 DEF CountInv, ReleasedGave
  <2> QED
    BY <2>1
<1>2. IsFiniteSet(G) /\ Cardinality(G) \in Nat
  <2>1. G \subseteq Callers
    OBVIOUS
  <2> QED
    BY <2>1, FS_Subset, FS_CardinalityType, DownloaderAssumption
<1>3. Cardinality(T) <= Cardinality(G) /\ Cardinality(T) \in Nat
  BY <1>1, <1>2, FS_Subset, FS_CardinalityType
<1>4. entries[u].refCount = Cardinality(T) - Cardinality(G)
  BY DEF CountInv, RefCountExact, Takers, Givers
<1> QED
  BY <1>2, <1>3, <1>4

\* An entry nobody holds any more has no positive count left: no path through
\* Acquire counts a caller that no Release uncounts (downloader.go:33-34, 44-45).
THEOREM NoLeakedReferenceHolds == Spec => []NoLeakedReference
<1>1. TypeOK /\ CountInv => NoLeakedReference
  BY IdleCount DEF NoLeakedReference
<1>2. QED
  BY <1>1, TypeCorrect, CountInvariant, PTL

LEMMA ProperSubsetCount ==
  ASSUME NEW S, IsFiniteSet(S), NEW T \in SUBSET S, NEW x \in S, x \notin T
  PROVE  /\ IsFiniteSet(T)
         /\ Cardinality(T) \in Nat /\ Cardinality(S) \in Nat
         /\ Cardinality(T) < Cardinality(S)
<1>1. IsFiniteSet(T) /\ Cardinality(T) <= Cardinality(S) /\ Cardinality(T) # Cardinality(S)
  BY FS_Subset
<1>2. Cardinality(T) \in Nat /\ Cardinality(S) \in Nat
  BY <1>1, FS_CardinalityType
<1> QED
  BY <1>1, <1>2

\* If someone counted in an entry has yet to release it, and no one has released it
\* that it had not counted, the count is positive.
LEMMA HeldCount ==
  ASSUME TypeOK, CountInv, NEW u \in Urls, Cached(u), NEW p \in Callers, entries[u].putBy = p,
         NEW c \in Callers, Holds(c, p), Givers(p) \subseteq Takers(p)
  PROVE  entries[u].refCount > 0
<1>1. IsFiniteSet(Takers(p)) /\ Takers(p) \subseteq Callers
  <2>1. Takers(p) \subseteq Callers
    BY DEF Takers
  <2> QED
    BY <2>1, FS_Subset, DownloaderAssumption
<1>2. c \in Takers(p) /\ c \notin Givers(p)
  BY DownloaderAssumption DEF Holds, Takers, Givers, CountInv, GaveFromPut
<1>3. /\ Cardinality(Givers(p)) \in Nat /\ Cardinality(Takers(p)) \in Nat
      /\ Cardinality(Givers(p)) < Cardinality(Takers(p))
  BY <1>1, <1>2, ProperSubsetCount
<1>4. entries[u].refCount = Cardinality(Takers(p)) - Cardinality(Givers(p))
  BY DEF CountInv, RefCountExact
<1> QED
  BY <1>3, <1>4

\* A sweep or a Release leaves an entry in use in place, and its file.
LEMMA KeptStep ==
  ASSUME TypeOK, CountInv, Sweep \/ (\E c \in Callers : Return(c)),
         NEW u \in Urls, NEW p \in Callers, Cached(u), entries[u].putBy = p,
         NEW x \in Callers, Holds(x, p)', Givers(p)' \subseteq Takers(p)
  PROVE  Cached(u)' /\ files'[u] = files[u]
<1>1. CASE Sweep
  <2>1. took' = took /\ gave' = gave /\ pc' = pc
    BY <1>1 DEF Sweep, ClientUnchanged, history
  <2>2. Holds(x, p) /\ Givers(p) \subseteq Takers(p)
    BY <2>1 DEF Holds, Givers
  <2>3. entries[u].refCount > 0 /\ entries[u] \in Entry
    BY <2>2, HeldCount DEF TypeOK, CacheTypeOK, Cached
  <2>4. ~Removable(entries[u])
    BY <2>3 DEF Removable, Entry
  <2> QED
    BY <1>1, <2>4 DEF Sweep, SweepOnce, Drop, Cached, TypeOK, CacheTypeOK
<1>2. ASSUME NEW c \in Callers, Return(c) PROVE Cached(u)' /\ files'[u] = files[u]
  <2>1. /\ took' = took /\ pc[c] = "held" /\ pc'[c] = "released" /\ url[c] \in Urls
        /\ \A y \in Callers : y # c => pc'[y] = pc[y] /\ gave'[y] = gave[y]
        /\ gave'[c] = IF Cached(url[c]) THEN entries[url[c]].putBy ELSE Nobody
    <3>1. /\ took' = took /\ pc[c] = "held" /\ pc' = [pc EXCEPT ![c] = "released"]
          /\ gave' = [gave EXCEPT ![c] = IF Cached(url[c]) THEN entries[url[c]].putBy ELSE Nobody]
      BY <1>2 DEF Return, Goto
    <3>2. url[c] \in Urls /\ c \in DOMAIN pc /\ c \in DOMAIN gave
          /\ DOMAIN pc = Callers /\ DOMAIN gave = Callers
      BY DownloaderAssumption DEF TypeOK
    <3> QED
      BY ONLY <3>1, <3>2
  <2>2. x # c /\ Holds(x, p)
    BY <2>1 DEF Holds
  <2>3. Givers(p) \subseteq Givers(p)'
    BY <2>1, DownloaderAssumption DEF Givers, CountInv, GaveFromPut
  <2>4. entries[u] \in Entry
    BY DEF TypeOK, CacheTypeOK, Cached
  <2>5. CASE url[c] # u
    BY <1>2, <2>1, <2>5, ReturnEffect DEF Drop, SetEntry, Cached, TypeOK, CacheTypeOK
  <2>6. CASE url[c] = u
    <3>1. c \in Takers(p) /\ c # x /\ x \in Takers(p)
      BY <2>1, <2>2, <2>6 DEF Givers, Takers, Holds
    <3>2. entries[u].refCount > 1
      <4>1. /\ IsFiniteSet(Takers(p)) /\ Givers(p)' \subseteq Takers(p)
            /\ x \in Takers(p) /\ x \notin Givers(p)' /\ c \in Givers(p)' /\ c \notin Givers(p)
        <5>1. Takers(p) \subseteq Callers
          BY DEF Takers
        <5>2. IsFiniteSet(Takers(p))
          BY <5>1, FS_Subset, DownloaderAssumption
        <5>3. x \notin Givers(p)' /\ c \in Givers(p)' /\ c \notin Givers(p)
          BY <2>1, <2>2, <2>6, DownloaderAssumption
             DEF Givers, Holds, CountInv, GaveFromPut
        <5> QED
          BY <3>1, <5>2, <5>3
      <4>2. /\ IsFiniteSet(Givers(p)')
            /\ Cardinality(Givers(p)') \in Nat /\ Cardinality(Takers(p)) \in Nat
            /\ Cardinality(Givers(p)') < Cardinality(Takers(p))
        BY <4>1, ProperSubsetCount
      <4>3. /\ Cardinality(Givers(p)) \in Nat
            /\ Cardinality(Givers(p)) < Cardinality(Givers(p)')
        BY <2>3, <4>1, <4>2, ProperSubsetCount
      <4>4. entries[u].refCount = Cardinality(Takers(p)) - Cardinality(Givers(p))
        BY DEF CountInv, RefCountExact
      <4> QED
        BY <4>2, <4>3, <4>4
    <3>3. PICK e \in Entry : SetEntry(u, e)
      <4>1. ~(entries[u].refCount <= 1)
        BY <3>2, <2>4 DEF Entry
      <4> QED
        BY <1>2, <2>6, <4>1, ReturnEffect
    <3> QED
      BY <3>3, NoEntryAssumption DEF SetEntry, Cached, TypeOK, CacheTypeOK
  <2> QED
    BY <2>5, <2>6
<1> QED
  BY <1>1, <1>2

\* The sweeper and the Releases of others leave an entry and its file to a caller
\* that still holds it, unless somebody released it without having been counted in
\* it (file_cache.go:62 and 111).
THEOREM ReferencedEntryKeptHolds == Spec => ReferencedEntryKept
<1> DEFINE A == Sweep \/ (\E c \in Callers : Return(c)) =>
                \A u \in Urls, p \in Callers :
                    /\ Cached(u) /\ entries[u].putBy = p
                    /\ \E c \in Callers : Holds(c, p)'
                    /\ Givers(p)' \subseteq Takers(p)
                    => Cached(u)' /\ files'[u] = files[u]
<1>1. TypeOK /\ CountInv /\ [Next]_vars => [A]_vars
  <2> SUFFICES ASSUME TypeOK, CountInv, Sweep \/ (\E c \in Callers : Return(c)),
                      NEW u \in Urls, NEW p \in Callers, Cached(u), entries[u].putBy = p,
                      NEW x \in Callers, Holds(x, p)', Givers(p)' \subseteq Takers(p)
               PROVE  Cached(u)' /\ files'[u] = files[u]
    OBVIOUS
  <2> QED
    BY KeptStep
<1>2. QED
  BY <1>1, TypeCorrect, CountInvariant, PTL DEF Spec, ReferencedEntryKept
-----------------------------------------------------------------------------
(* URLs that one caller only has downloaded.  What each caller has found or   *)
(* made is followed first, whether or not others download the URL too.        *)

Sole(u) == \A c, d \in Callers : Owned(c) /\ Owned(d) /\ url[c] = u /\ url[d] = u => c = d

\* Somebody has put an entry for u.
HasPut(u) == \E p \in Callers : url[p] = u /\ Owned(p) /\ pc[p] \in PutDone

\* Past a Get that has found an entry, a Wait that has succeeded, or a Put.
AfterPut == {"hit", "joined", "put", "ok", "okDone", "held", "released"}

FlightOwn ==
    \A e \in Downloaders, u \in Urls : downloading[e][u] # Nobody =>
        dl[downloading[e][u]] = e /\ url[downloading[e][u]] = u

CallKnown ==
    \A c \in Callers :
        /\ call[c] = "ok" => pc[c] \in {"okDone", "held", "released"}
        /\ call[c] = "err" => pc[c] \in {"errDone", "failed"}
        /\ pc[c] \in {"okDone", "errDone"} => call[c] # "open"
        /\ pc[c] = "wait" => url[joined[c]] = url[c]

PutsOwned ==
    /\ \A u \in Urls : Cached(u) => Owned(entries[u].putBy)
    /\ \A c \in Callers : took[c] # Nobody => Owned(took[c])

FoundPut == \A c \in Callers : pc[c] \in AfterPut => HasPut(url[c])

GaveOwn == \A c \in Callers : gave[c] # Nobody => url[gave[c]] = url[c]

OwnedInv == FlightOwn /\ CallKnown /\ PutsOwned /\ FoundPut /\ GaveOwn

\* A caller that has owned a download has for good; and a Put stays done.
LEMMA OwnedGrows ==
  ASSUME TypeOK, CallKnown, [Next]_vars, NEW c \in Callers
  PROVE  /\ Owned(c) => Owned(c)'
         /\ call[c] # "open" => call'[c] = call[c]
         /\ pc[c] \in PutDone => pc'[c] \in PutDone
<1> USE DEF TypeOK, Labels
<1>1. ASSUME NEW x \in Callers, Lookup(x) \/ TakeHit(x) \/ LoadOrStore(x) \/ Wake(x) \/ TakeJoined(x)
      PROVE  call' = call /\ (pc[c] \in Owning => pc'[c] \in Owning)
                          /\ (pc[c] \in PutDone => pc'[c] \in PutDone)
  BY <1>1 DEF Lookup, TakeHit, LoadOrStore, Wake, TakeJoined, Goto, Owning, PutDone, flightVars
<1>2. ASSUME NEW x \in Callers, FetchAnswered(x) \/ FetchRefused(x) \/ FetchCreate(x) \/ CopyOk(x) \/ CopyFail(x)
                                 \/ PutFetched(x) \/ TakeOwn(x)
      PROVE  call' = call /\ (pc[c] \in Owning => pc'[c] \in Owning)
                          /\ (pc[c] \in PutDone => pc'[c] \in PutDone)
  BY <1>2 DEF FetchAnswered, FetchRefused, FetchCreate, CopyOk, CopyFail, PutFetched, TakeOwn,
     Goto, Owning, PutDone,
     flightVars
<1>3. ASSUME NEW x \in Callers, Done(x)
      PROVE  /\ call[c] # "open" => call'[c] = call[c]
             /\ pc[c] \in Owning => pc'[c] \in Owning
             /\ pc[c] \in PutDone => pc'[c] \in PutDone
  BY <1>3 DEF Done, Goto, Owning, PutDone, CallKnown
<1>4. ASSUME NEW x \in Callers, Delete(x) \/ Return(x)
      PROVE  /\ call' = call
             /\ pc[c] \in Owning => pc'[c] \in Owning \/ call[c] # "open"
             /\ pc[c] \in PutDone => pc'[c] \in PutDone
  BY <1>4 DEF Delete, Return, Goto, Owning, PutDone, CallKnown, flightVars
<1>5. CASE Sweep \/ \E u \in Urls : Tick(u) \/ Publish(u)
  BY <1>5 DEF Sweep, Tick, Publish, ClientUnchanged, flightVars, Owned
<1>6. CASE UNCHANGED vars
  BY <1>6 DEF vars, Owned
<1> QED
  BY <1>1, <1>2, <1>3, <1>4, <1>5, <1>6 DEF Next, Step, Advance, Owned

LEMMA HasPutGrows ==
  ASSUME TypeOK, CallKnown, [Next]_vars, NEW u \in Urls, HasPut(u)
  PROVE  HasPut(u)'
BY OwnedGrows DEF HasPut

LEMMA FlightOwnStep ==
  ASSUME TypeOK, FlightOwn, [Next]_vars
  PROVE  FlightOwn'
<1> USE DownloaderAssumption DEF TypeOK, Labels
<1>1. ASSUME NEW c \in Callers, LoadOrStore(c) PROVE FlightOwn'
  <2>1. CASE Flight(c) = Nobody
    <3>1. downloading' = [downloading EXCEPT ![dl[c]][url[c]] = c]
      BY <1>1, <2>1 DEF LoadOrStore, SetFlight
    <3> QED
      BY <3>1 DEF FlightOwn
  <2>2. CASE Flight(c) # Nobody
    BY <1>1, <2>2 DEF LoadOrStore, FlightOwn
  <2> QED
    BY <2>1, <2>2
<1>2. ASSUME NEW c \in Callers, Delete(c) PROVE FlightOwn'
  BY <1>2 DEF Delete, SetFlight, Flight, FlightOwn
<1>3. CASE downloading' = downloading
  BY <1>3 DEF FlightOwn
<1>4. ASSUME NEW c \in Callers, Lookup(c) \/ Step(c), ~LoadOrStore(c), ~Delete(c)
      PROVE  downloading' = downloading
  BY <1>4 DEF Step, Advance, Lookup, TakeHit, Wake, TakeJoined, FetchAnswered, FetchRefused,
     FetchCreate, CopyOk,
     CopyFail, PutFetched, TakeOwn, Done, Return, flightVars
<1>5. CASE Sweep \/ (\E u \in Urls : Tick(u) \/ Publish(u)) \/ UNCHANGED vars
  BY <1>3, <1>5 DEF Sweep, Tick, Publish, ClientUnchanged, flightVars, vars
<1> QED
  BY <1>1, <1>2, <1>3, <1>4, <1>5 DEF Next

LEMMA CallKnownStep ==
  ASSUME TypeOK, FlightOwn, CallKnown, [Next]_vars
  PROVE  CallKnown'
<1> USE DownloaderAssumption DEF TypeOK, Labels
<1>1. ASSUME NEW c \in Callers, LoadOrStore(c) PROVE CallKnown'
  <2>1. CASE Flight(c) = Nobody
    BY <1>1, <2>1 DEF LoadOrStore, Goto, CallKnown
  <2>2. CASE Flight(c) # Nobody
    <3>1. url[Flight(c)] = url[c] /\ Flight(c) \in Callers
      BY <2>2 DEF Flight, FlightOwn
    <3> QED
      BY <1>1, <2>2, <3>1 DEF LoadOrStore, Goto, CallKnown
  <2> QED
    BY <2>1, <2>2
<1>2. ASSUME NEW c \in Callers, Done(c) \/ Delete(c) PROVE CallKnown'
  BY <1>2 DEF Done, Delete, Goto, CallKnown
<1>3. ASSUME NEW c \in Callers, Lookup(c) \/ TakeHit(c) \/ Wake(c) \/ TakeJoined(c) \/ Return(c)
      PROVE  CallKnown'
  BY <1>3 DEF Lookup, TakeHit, Wake, TakeJoined, Return, Goto, flightVars, CallKnown
<1>4. ASSUME NEW c \in Callers, FetchAnswered(c) \/ FetchRefused(c) \/ FetchCreate(c) \/ CopyOk(c) \/ CopyFail(c)
                                 \/ PutFetched(c) \/ TakeOwn(c)
      PROVE  CallKnown'
  BY <1>4 DEF FetchAnswered, FetchRefused, FetchCreate, CopyOk, CopyFail, PutFetched, TakeOwn,
     Goto, flightVars,
     CallKnown
<1>5. CASE Sweep \/ (\E u \in Urls : Tick(u) \/ Publish(u)) \/ UNCHANGED vars
  BY <1>5 DEF Sweep, Tick, Publish, ClientUnchanged, flightVars, vars, CallKnown
<1> QED
  BY <1>1, <1>2, <1>3, <1>4, <1>5 DEF Next, Step, Advance

\* Where the entries and the counts of callers come from.
LEMMA EntryOrigins ==
  ASSUME TypeOK, [Next]_vars
  PROVE  /\ \A u \in Urls : Cached(u)' =>
               \/ Cached(u) /\ entries'[u].putBy = entries[u].putBy
               \/ \E c \in Callers : PutFetched(c) /\ url[c] = u /\ entries'[u].putBy = c
         /\ \A c \in Callers : took'[c] # Nobody =>
               \/ took'[c] = took[c]
               \/ Cached(url[c]) /\ Take(c) /\ took'[c] = entries[url[c]].putBy
<1> USE DownloaderAssumption, NoEntryAssumption
<1> DEFINE E == \A u \in Urls : Cached(u)' =>
                   \/ Cached(u) /\ entries'[u].putBy = entries[u].putBy
                   \/ \E c \in Callers : PutFetched(c) /\ url[c] = u /\ entries'[u].putBy = c
           T == \A c \in Callers : took'[c] # Nobody =>
                   \/ took'[c] = took[c]
                   \/ Cached(url[c]) /\ Take(c) /\ took'[c] = entries[url[c]].putBy
<1>1. ASSUME NEW c \in Callers, Take(c) PROVE E /\ T
  <2>1. T
    BY <1>1 DEF Take, TypeOK
  <2>2. E
    <3>1. CASE ~Cached(url[c])
      BY <1>1, <3>1, TakeEffect DEF Cached
    <3>2. ASSUME NEW e \in Entry, e.putBy = entries[url[c]].putBy, SetEntry(url[c], e),
                 Cached(url[c])
          PROVE  E
      BY <3>2 DEF SetEntry, Cached, TypeOK, CacheTypeOK
    <3> QED
      BY <1>1, <3>1, <3>2, TakeEffect
  <2> QED
    BY <2>1, <2>2
<1>2. ASSUME NEW c \in Callers, PutFetched(c) PROVE E /\ T
  BY <1>2 DEF PutFetched, Put, Cached, TypeOK, CacheTypeOK, history
<1>3. ASSUME NEW c \in Callers, Return(c) PROVE E /\ T
  <2>1. T
    BY <1>3 DEF Return
  <2>2. E
    <3>1. CASE entries' = entries
      BY <3>1 DEF Cached
    <3>2. CASE Drop({url[c]})
      BY <3>2 DEF Drop, Cached
    <3>3. ASSUME NEW e \in Entry, e.putBy = entries[url[c]].putBy, SetEntry(url[c], e),
                 Cached(url[c])
          PROVE  E
      BY <3>3 DEF SetEntry, Cached, TypeOK, CacheTypeOK
    <3> QED
      BY <1>3, <3>1, <3>2, <3>3, ReturnEffect
  <2> QED
    BY <2>1, <2>2
<1>4. ASSUME Sweep PROVE E /\ T
  BY <1>4 DEF Sweep, SweepOnce, Drop, Cached, ClientUnchanged, history
<1>5. ASSUME NEW u \in Urls, Tick(u) PROVE E /\ T
  <2> DEFINE e == [entries[u] EXCEPT !.expired = TRUE]
  <2>1. entries[u] \in Entry /\ Cached(u)
    BY <1>5 DEF Tick, Expire, Get, Cached, TypeOK, CacheTypeOK
  <2>2. e.putBy = entries[u].putBy /\ entries' = [entries EXCEPT ![u] = e] /\ took' = took
    BY <1>5, <2>1 DEF Tick, Expire, Entry, ClientUnchanged, history
  <2> HIDE DEF e
  <2> QED
    BY <2>1, <2>2 DEF Cached, TypeOK, CacheTypeOK
<1>6. ASSUME NEW u \in Urls, Publish(u) PROVE E /\ T
  BY <1>6 DEF Publish, Invalidate, Cached, ClientUnchanged, history, TypeOK, CacheTypeOK
<1>7. ASSUME entries' = entries, took' = took PROVE E /\ T
  BY <1>7 DEF Cached
<1>8. ASSUME NEW c \in Callers,
             Lookup(c) \/ LoadOrStore(c) \/ Wake(c) \/ FetchAnswered(c) \/ FetchRefused(c) \/ FetchCreate(c) \/ CopyOk(c)
               \/ CopyFail(c) \/ Done(c) \/ Delete(c)
      PROVE  entries' = entries /\ took' = took
  BY <1>8 DEF Lookup, LoadOrStore, Wake, FetchAnswered, FetchRefused, FetchCreate, CopyOk,
     CopyFail, Done, Delete,
     cacheVars, history
<1>9. ASSUME UNCHANGED vars PROVE E /\ T
  BY <1>7, <1>9 DEF vars
<1>10. ASSUME NEW c \in Callers, TakeHit(c) \/ TakeJoined(c) \/ TakeOwn(c) PROVE E /\ T
  BY <1>1, <1>10 DEF TakeHit, TakeJoined, TakeOwn
<1> HIDE DEF E, T
<1>11. ASSUME NEW c \in Callers, Lookup(c) \/ Step(c) PROVE E /\ T
  <2>1. CASE TakeHit(c) \/ TakeJoined(c) \/ TakeOwn(c) \/ PutFetched(c) \/ Return(c)
    BY <1>2, <1>3, <1>10, <2>1
  <2>2. CASE ~(TakeHit(c) \/ TakeJoined(c) \/ TakeOwn(c) \/ PutFetched(c) \/ Return(c))
    BY <1>7, <1>8, <1>11, <2>2 DEF Step, Advance
  <2> QED
    BY <2>1, <2>2
<1>12. E /\ T
  BY <1>4, <1>5, <1>6, <1>9, <1>11 DEF Next
<1> QED
  BY <1>12 DEF E, T

LEMMA PutsOwnedStep ==
  ASSUME TypeOK, CallKnown, PutsOwned, [Next]_vars
  PROVE  PutsOwned'
<1>1. \A u \in Urls : Cached(u) => entries[u].putBy \in Callers
  BY DEF TypeOK, CacheTypeOK, Cached, Entry
<1>2. \A c \in Callers : took[c] \in Callers \cup {Nobody}
  BY DEF TypeOK
<1>3. ASSUME NEW c \in Callers, PutFetched(c) PROVE Owned(c)'
  BY <1>3 DEF PutFetched, Goto, TypeOK, Owned, Owning
<1>4. \A u \in Urls : Cached(u)' => Owned(entries[u].putBy)'
  BY <1>1, <1>3, EntryOrigins, OwnedGrows DEF PutsOwned
<1>5. \A c \in Callers : took'[c] # Nobody => Owned(took[c])'
  BY <1>1, <1>2, EntryOrigins, OwnedGrows, DownloaderAssumption DEF PutsOwned
<1> QED
  BY <1>4, <1>5 DEF PutsOwned

LEMMA FoundPutStep ==
  ASSUME TypeOK, CountInv, CallKnown, PutsOwned, FoundPut, [Next]_vars
  PROVE  FoundPut'
<1> USE DownloaderAssumption DEF TypeOK, Labels
<1>1. ASSUME NEW c \in Callers, pc[c] \in AfterPut PROVE HasPut(url[c])'
  BY <1>1, HasPutGrows DEF FoundPut
<1>2. ASSUME NEW c \in Callers, Cached(url[c]) PROVE HasPut(url[c])'
  <2>1. entries[url[c]].putBy \in Callers
    BY <1>2 DEF CacheTypeOK, Cached, Entry
  <2> QED
    BY <1>2, <2>1, HasPutGrows DEF HasPut, PutsOwned, CountInv, EntryFromPut
<1>3. ASSUME NEW c \in Callers, pc[c] = "wait", call[joined[c]] = "ok" PROVE HasPut(url[c])'
  <2>1. /\ joined[c] \in Callers /\ url[joined[c]] = url[c]
        /\ pc[joined[c]] \in PutDone /\ Owned(joined[c])
    BY <1>3 DEF CallKnown, PutDone, Owned
  <2> QED
    BY <2>1, HasPutGrows DEF HasPut
<1>4. ASSUME NEW c \in Callers, NEW x \in Callers, Lookup(x) \/ Step(x),
             pc[c] \notin AfterPut, pc'[c] \in AfterPut
      PROVE  \/ Lookup(c) /\ Get(url[c])
             \/ Wake(c) /\ call[joined[c]] = "ok"
             \/ PutFetched(c)
  BY <1>4 DEF Step, Advance, Lookup, TakeHit, LoadOrStore, Wake, TakeJoined, FetchAnswered,
     FetchRefused, FetchCreate,
     CopyOk, CopyFail, PutFetched, TakeOwn, Done, Delete, Return, Goto, AfterPut
<1>5. ASSUME NEW c \in Callers, PutFetched(c) PROVE HasPut(url[c])'
  BY <1>5 DEF PutFetched, Goto, HasPut, Owned, Owning, PutDone
<1>6. ASSUME NEW c \in Callers, pc[c] \notin AfterPut, pc'[c] \in AfterPut PROVE HasPut(url[c])'
  <2>1. PICK x \in Callers : Lookup(x) \/ Step(x)
    BY <1>6 DEF Next, Sweep, Tick, Publish, ClientUnchanged, vars
  <2> QED
    BY <1>2, <1>3, <1>4, <1>5, <1>6, <2>1 DEF Wake, Goto, Get
<1> QED
  BY <1>1, <1>6 DEF FoundPut

LEMMA GaveOwnStep ==
  ASSUME TypeOK, CountInv, GaveOwn, [Next]_vars
  PROVE  GaveOwn'
<1> USE DownloaderAssumption DEF TypeOK
<1>1. ASSUME NEW c \in Callers, Return(c) PROVE GaveOwn'
  BY <1>1 DEF Return, GaveOwn, CountInv, EntryFromPut
<1>2. CASE gave' = gave
  BY <1>2 DEF GaveOwn
<1>3. ASSUME NEW c \in Callers, Lookup(c) \/ Advance(c) PROVE gave' = gave
  BY <1>3 DEF Advance, Lookup, TakeHit, LoadOrStore, Wake, TakeJoined, FetchAnswered,
     FetchRefused, FetchCreate, CopyOk,
     CopyFail, PutFetched, TakeOwn, Done, Delete, Take, history
<1>4. CASE Sweep \/ (\E u \in Urls : Tick(u) \/ Publish(u)) \/ UNCHANGED vars
  BY <1>2, <1>4 DEF Sweep, Tick, Publish, ClientUnchanged, history, vars
<1> QED
  BY <1>1, <1>2, <1>3, <1>4 DEF Next, Step

LEMMA OwnedStep ==
  ASSUME TypeOK, CountInv, OwnedInv, [Next]_vars
  PROVE  OwnedInv'
BY FlightOwnStep, CallKnownStep, PutsOwnedStep, FoundPutStep, GaveOwnStep DEF OwnedInv

\* What a caller of a URL has, as long as nobody else has downloaded it.
SoleCaller(c) ==
    LET u == url[c] IN
    /\ pc[c] = "copy" => writer[u] = c /\ files[u] = "partial"
    /\ pc[c] = "fetched" => files[u] = "whole"
    /\ took[c] # Nobody /\ pc[c] # "released" => files[u] = "whole"
    /\ took[c] = Nobody /\ pc[c] \in {"ok", "okDone", "held"} => ~Cached(u)
    /\ gave[c] # Nobody => took[c] = gave[c]
    /\ Owned(c) /\ pc[c] \in PutDone => files[u] # "partial"

SoleAt(u) ==
    /\ Cached(u) => files[u] = "whole"
    /\ \A c \in Callers : url[c] = u => SoleCaller(c)

SoleInv == \A u \in Urls : Sole(u) => SoleAt(u)

\* While its sole owner has not put it, a URL has no entry.
LEMMA Alone ==
  ASSUME TypeOK, CountInv, OwnedInv, NEW u \in Urls, Sole(u),
         NEW x \in Callers, url[x] = u, pc[x] \in {"own", "answered", "copy", "fetched"}
  PROVE  ~HasPut(u) /\ ~Cached(u)
<1>1. Owned(x) /\ pc[x] \notin PutDone
  BY DEF Owned, Owning, PutDone
<1>2. ~HasPut(u)
  BY <1>1 DEF HasPut, Sole
<1>3. Cached(u) => entries[u].putBy \in Callers
  BY DEF TypeOK, CacheTypeOK, Cached, Entry
<1> QED
  BY <1>2, <1>3 DEF HasPut, OwnedInv, PutsOwned, CountInv, EntryFromPut

\* And nobody has found an entry of a URL that nobody has put.
LEMMA AloneFound ==
  ASSUME TypeOK, CountInv, OwnedInv, NEW y \in Callers, ~HasPut(url[y])
  PROVE  took[y] = Nobody /\ gave[y] = Nobody /\ pc[y] \notin AfterPut
<1> USE DownloaderAssumption
<1>1. took[y] = Nobody
  BY DEF HasPut, OwnedInv, PutsOwned, CountInv, TookFromPut, TypeOK
<1>2. pc[y] \notin AfterPut
  BY DEF OwnedInv, FoundPut
<1>3. gave[y] = Nobody
  BY <1>2 DEF CountInv, GaveFromPut, AfterPut
<1> QED
  BY <1>1, <1>2, <1>3

\* Whoever was counted in an entry of the URL was counted in the one there is.
LEMMA SameEntry ==
  ASSUME TypeOK, CountInv, OwnedInv, NEW u \in Urls, Sole(u), Cached(u),
         NEW y \in Callers, url[y] = u, took[y] # Nobody
  PROVE  took[y] = entries[u].putBy
<1>1. entries[u].putBy \in Callers /\ took[y] \in Callers
  BY DEF TypeOK, CacheTypeOK, Cached, Entry
<1> QED
  BY <1>1 DEF OwnedInv, PutsOwned, CountInv, EntryFromPut, TookFromPut, Sole

LEMMA SoleBefore ==
  ASSUME TypeOK, OwnedInv, SoleInv, [Next]_vars, NEW u \in Urls, Sole(u)'
  PROVE  Sole(u) /\ SoleAt(u)
BY OwnedGrows DEF OwnedInv, Sole, SoleInv

\* Steps that leave the URL, its file and the counts of its callers alone.
LEMMA SoleQuiet ==
  ASSUME NEW u \in Urls, SoleAt(u), Cached(u)' => Cached(u), files'[u] = files[u],
         writer'[u] = writer[u],
         \A y \in Callers : url[y] = u =>
            /\ took'[y] = took[y] /\ gave'[y] = gave[y]
            /\ pc'[y] = "copy" => pc[y] = "copy"
            /\ pc'[y] = "fetched" => pc[y] = "fetched"
            /\ pc'[y] # "released" => pc[y] # "released"
            /\ pc'[y] \in {"ok", "okDone", "held"} => pc[y] \in {"ok", "okDone", "held"}
            /\ (Owned(y) /\ pc[y] \in PutDone)' => Owned(y) /\ pc[y] \in PutDone
  PROVE  SoleAt(u)'
BY DEF SoleAt, SoleCaller

\* What a caller's step leaves alone.
LEMMA StepFrame ==
  ASSUME TypeOK, NEW x \in Callers, Lookup(x) \/ Step(x)
  PROVE  /\ \A y \in Callers : y # x => /\ pc'[y] = pc[y] /\ took'[y] = took[y]
                                        /\ gave'[y] = gave[y] /\ call'[y] = call[y]
         /\ \A u \in Urls : u # url[x] =>
               entries'[u] = entries[u] /\ files'[u] = files[u] /\ writer'[u] = writer[u]
<1> USE DownloaderAssumption
<1>1. CASE Return(x)
  <2>1. \A u \in Urls : u # url[x] => entries'[u] = entries[u] /\ files'[u] = files[u]
    BY <1>1, ReturnEffect DEF Drop, SetEntry, TypeOK, CacheTypeOK
  <2> QED
    BY <1>1, <2>1 DEF Return, Goto, TypeOK, flightVars
<1>2. CASE TakeHit(x) \/ TakeJoined(x) \/ TakeOwn(x)
  <2>1. Take(x)
    BY <1>2 DEF TakeHit, TakeJoined, TakeOwn
  <2>2. files' = files /\ \A u \in Urls : u # url[x] => entries'[u] = entries[u]
    BY <2>1 DEF Take, Acquire, TypeOK, CacheTypeOK
  <2> QED
    BY <1>2, <2>1, <2>2 DEF TakeHit, TakeJoined, TakeOwn, Take, Goto, TypeOK, flightVars
<1>3. CASE PutFetched(x)
  BY <1>3 DEF PutFetched, Put, Goto, TypeOK, CacheTypeOK, flightVars, history
<1>4. CASE Lookup(x) \/ LoadOrStore(x) \/ Wake(x) \/ FetchAnswered(x) \/ FetchRefused(x) \/ Done(x) \/ Delete(x)
  BY <1>4 DEF Lookup, LoadOrStore, Wake, FetchAnswered, FetchRefused, Done, Delete, Goto, TypeOK,
     cacheVars, flightVars,
     history
<1>5. CASE FetchCreate(x) \/ CopyOk(x) \/ CopyFail(x)
  BY <1>5 DEF FetchCreate, CopyOk, CopyFail, Goto, TypeOK, CacheTypeOK, flightVars, history
<1> QED
  BY <1>1, <1>2, <1>3, <1>4, <1>5 DEF Step, Advance

\* Steps of a caller that is not in the middle of a download.
LEMMA SoleAside ==
  ASSUME TypeOK, OwnedInv, NEW u \in Urls, SoleAt(u), NEW x \in Callers, url[x] = u,
         Lookup(x) \/ LoadOrStore(x) \/ Wake(x) \/ FetchAnswered(x) \/ FetchRefused(x) \/ Done(x) \/ Delete(x)
  PROVE  SoleAt(u)'
<1> USE DEF TypeOK, Labels
<1>1. entries' = entries /\ files' = files /\ writer' = writer /\ took' = took /\ gave' = gave
  BY DEF Lookup, LoadOrStore, Wake, FetchAnswered, FetchRefused, Done, Delete, cacheVars, history
<1>2. \A y \in Callers : y # x => pc'[y] = pc[y] /\ call'[y] = call[y]
  BY StepFrame DEF Step, Advance
<1>3. /\ pc'[x] \notin {"copy", "fetched"} /\ pc[x] # "released"
      /\ pc'[x] \in {"ok", "okDone", "held"} => pc[x] \in {"ok", "okDone", "held"}
      /\ pc'[x] \in PutDone => pc[x] \in PutDone /\ Owned(x)
  BY DEF Lookup, LoadOrStore, Wake, FetchAnswered, FetchRefused, Done, Delete, Goto, PutDone,
     Owned, Owning
<1>4. \A y \in Callers : /\ pc'[y] = "copy" => pc[y] = "copy"
                         /\ pc'[y] = "fetched" => pc[y] = "fetched"
                         /\ pc'[y] # "released" => pc[y] # "released"
                         /\ pc'[y] \in {"ok", "okDone", "held"} => pc[y] \in {"ok", "okDone", "held"}
                         /\ (Owned(y) /\ pc[y] \in PutDone)' => Owned(y) /\ pc[y] \in PutDone
  BY <1>2, <1>3 DEF Owned
<1>5. Cached(u)' => Cached(u)
  BY <1>1 DEF Cached
<1> QED
  BY <1>1, <1>4, <1>5, SoleQuiet

LEMMA SoleTaken ==
  ASSUME TypeOK, CountInv, OwnedInv, NEW u \in Urls, SoleAt(u), NEW x \in Callers, url[x] = u,
         TakeHit(x) \/ TakeJoined(x) \/ TakeOwn(x)
  PROVE  SoleAt(u)'
<1> USE DownloaderAssumption DEF TypeOK, Labels
<1>1. Take(x) /\ files' = files /\ writer' = writer /\ gave' = gave /\ call' = call
  BY DEF TakeHit, TakeJoined, TakeOwn, Take, flightVars
<1>2. \A y \in Callers : y # x => pc'[y] = pc[y] /\ took'[y] = took[y] /\ gave'[y] = gave[y]
                                  /\ call'[y] = call[y]
  BY StepFrame DEF Step, Advance
<1>3. /\ \/ pc[x] \in {"hit", "joined"} /\ pc'[x] = "held"
         \/ pc[x] = "put" /\ pc'[x] = "ok"
      /\ gave[x] = Nobody
  BY DEF TakeHit, TakeJoined, TakeOwn, Goto, CountInv, GaveFromPut
<1>4. Cached(u)' <=> Cached(u)
  BY <1>1, NoEntryAssumption, TakeEffect DEF Cached, SetEntry, CacheTypeOK
<1>5. IF Cached(u) THEN took'[x] # Nobody ELSE took'[x] = Nobody
  <2>1. Cached(u) => entries[u].putBy \in Callers
    BY DEF CacheTypeOK, Cached, Entry
  <2> QED
    BY <1>1, <2>1 DEF Take
<1>6. (Owned(x) /\ pc[x] \in PutDone)' => Owned(x) /\ pc[x] \in PutDone
  BY <1>1, <1>3 DEF Owned, Owning, PutDone, OwnedInv, CallKnown
<1>7. SoleCaller(x)'
  BY <1>1, <1>3, <1>4, <1>5, <1>6 DEF SoleAt, SoleCaller
<1>8. ASSUME NEW y \in Callers, y # x, url[y] = u PROVE SoleCaller(y)'
  BY <1>1, <1>2, <1>4, <1>8 DEF SoleAt, SoleCaller, Owned
<1> QED
  BY <1>1, <1>4, <1>7, <1>8 DEF SoleAt

LEMMA SoleFetched ==
  ASSUME TypeOK, CountInv, OwnedInv, NEW u \in Urls, Sole(u), SoleAt(u), NEW x \in Callers, url[x] = u,
         FetchCreate(x) \/ CopyOk(x) \/ CopyFail(x) \/ PutFetched(x)
  PROVE  SoleAt(u)'
<1>1. /\ pc[x] \in {"own", "answered", "copy", "fetched"} /\ pc'[x] \in {"copy", "fetched", "err", "put"}
      /\ took' = took /\ gave' = gave
  BY DEF TypeOK, FetchCreate, CopyOk, CopyFail, PutFetched, Goto, history
<1>2. ~HasPut(u) /\ ~Cached(u)
  BY <1>1, Alone
<1>3. Owned(x)
  BY <1>1 DEF Owned, Owning
<1>4. ASSUME NEW y \in Callers, url[y] = u
      PROVE  /\ took[y] = Nobody /\ gave[y] = Nobody /\ pc[y] \notin AfterPut
             /\ y # x => ~Owned(y)
  <2>1. y # x => ~Owned(y)
    BY <1>3, <1>4 DEF Sole
  <2> QED
    BY <1>2, <1>4, <2>1, AloneFound
<1> USE DEF TypeOK, Labels
<1>5. \A y \in Callers : y # x => pc'[y] = pc[y] /\ call'[y] = call[y]
  BY StepFrame DEF Step, Advance
<1>6. /\ pc'[x] = "copy" => writer'[u] = x /\ files'[u] = "partial"
      /\ pc'[x] = "fetched" => files'[u] = "whole"
      /\ pc'[x] = "put" => files'[u] = "whole"
  BY DEF FetchCreate, CopyOk, CopyFail, PutFetched, Goto, CacheTypeOK, SoleAt, SoleCaller
<1>7. Cached(u)' => files'[u] = "whole"
  <2>1. CASE PutFetched(x)
    BY <1>6, <2>1 DEF PutFetched, Goto
  <2>2. CASE ~PutFetched(x)
    BY <1>2, <2>2 DEF FetchCreate, CopyOk, CopyFail, Cached
  <2> QED
    BY <2>1, <2>2
<1>8. SoleCaller(x)'
  BY <1>1, <1>4, <1>6 DEF SoleCaller, PutDone
<1>9. ASSUME NEW y \in Callers, y # x, url[y] = u PROVE SoleCaller(y)'
  <2>1. /\ took'[y] = Nobody /\ gave'[y] = Nobody /\ pc'[y] \notin AfterPut
        /\ ~Owned(y)'
    BY <1>1, <1>4, <1>5, <1>9 DEF Owned
  <2> QED
    BY <1>9, <2>1 DEF SoleCaller, AfterPut, Owned, Owning
<1> QED
  BY <1>7, <1>8, <1>9 DEF SoleAt

\* A Release that a sole downloader's entry meets is one of a caller it had counted.
LEMMA SoleGave ==
  ASSUME TypeOK, CountInv, OwnedInv, NEW u \in Urls, Sole(u), SoleAt(u), Next
  PROVE  \A y \in Callers : url[y] = u /\ gave'[y] # Nobody => gave'[y] = took[y]
<1>1. ASSUME NEW x \in Callers, Return(x), url[x] = u
      PROVE  gave'[x] # Nobody => gave'[x] = took[x]
  <2>1. gave'[x] = IF Cached(u) THEN entries[u].putBy ELSE Nobody
    BY <1>1 DEF Return, TypeOK
  <2>2. Cached(u) => took[x] # Nobody
    BY <1>1 DEF Return, Goto, SoleAt, SoleCaller
  <2> QED
    BY <1>1, <2>1, <2>2, SameEntry
<1>2. ASSUME NEW y \in Callers, url[y] = u, gave'[y] # gave[y] PROVE Return(y)
  <2>1. PICK x \in Callers : Lookup(x) \/ Step(x)
    BY <1>2 DEF Next, Sweep, Tick, Publish, ClientUnchanged, history
  <2>2. y = x
    BY <1>2, <2>1, StepFrame
  <2>3. ~Lookup(x) /\ ~Advance(x)
    BY <1>2, <2>2 DEF Advance, Lookup, TakeHit, LoadOrStore, Wake, TakeJoined, FetchAnswered,
       FetchRefused, FetchCreate,
       CopyOk, CopyFail, PutFetched, TakeOwn, Done, Delete, Take, history
  <2> QED
    BY <2>1, <2>2, <2>3 DEF Step
<1> QED
  BY <1>1, <1>2 DEF SoleAt, SoleCaller

\* What a sweep or a Release may do to the entry of a sole downloader.
LEMMA SoleDropped ==
  ASSUME TypeOK, CountInv, OwnedInv, NEW u \in Urls, Sole(u), SoleAt(u),
         Sweep \/ (\E c \in Callers : Return(c)),
         NEW y \in Callers, url[y] = u, Cached(u), took[y] # Nobody, pc'[y] # "released"
  PROVE  Cached(u)' /\ files'[u] = files[u]
<1> USE DownloaderAssumption
<1>1. PICK p \in Callers : p = entries[u].putBy /\ url[p] = u
  BY DEF TypeOK, CacheTypeOK, Cached, Entry, CountInv, EntryFromPut
<1>2. took' = took
  BY DEF Sweep, ClientUnchanged, history, Return
<1>3. Holds(y, p)'
  BY <1>1, <1>2, SameEntry DEF Holds
<1>4. gave' \in [Callers -> Callers \cup {Nobody}] /\ Next
  <2>1. Next
    BY DEF Next, Step
  <2> QED
    BY <2>1, TypeStep DEF TypeOK
<1>5. GaveOwn'
  BY <1>4, GaveOwnStep DEF OwnedInv
<1>6. \A x \in Callers : gave'[x] = p => url[x] = u
  BY <1>1, <1>5 DEF GaveOwn
<1>7. \A x \in Callers : gave'[x] = p => took[x] = p
  BY <1>1, <1>4, <1>6, SoleGave
<1>8. Givers(p)' \subseteq Takers(p)
  BY <1>7 DEF Givers, Takers
<1> QED
  BY <1>1, <1>3, <1>8, KeptStep

\* A sweep or a Release of the URL: what is dropped, nobody counted in it still needs.
LEMMA SoleReleased ==
  ASSUME TypeOK, CountInv, OwnedInv, NEW u \in Urls, Sole(u), SoleAt(u),
         Sweep \/ (\E x \in Callers : url[x] = u /\ Return(x))
  PROVE  SoleAt(u)'
<1>1. /\ Next /\ (Sweep \/ (\E x \in Callers : Return(x)))
      /\ took' = took /\ call' = call /\ writer' = writer
  BY DEF Next, Step, Sweep, ClientUnchanged, history, flightVars, Return
<1>2. \A y \in Callers : pc'[y] = pc[y] \/ (pc[y] = "held" /\ pc'[y] = "released")
  <2>1. CASE Sweep
    BY <2>1 DEF Sweep, ClientUnchanged, flightVars, history
  <2>2. ASSUME NEW x \in Callers, Return(x)
        PROVE  \A y \in Callers : pc'[y] = pc[y] \/ (pc[y] = "held" /\ pc'[y] = "released")
    <3>1. pc[x] = "held" /\ pc' = [pc EXCEPT ![x] = "released"]
      BY <2>2 DEF Return, Goto
    <3>2. pc \in [Callers -> Labels]
      BY DEF TypeOK
    <3> QED
      BY ONLY <3>1, <3>2, x \in Callers
  <2> QED
    BY <1>1, <2>1, <2>2
<1>3. /\ Cached(u)' => Cached(u) /\ files'[u] = files[u]
      /\ files'[u] # files[u] => Cached(u) /\ files'[u] = "absent"
  <2>1. CASE Sweep
    BY <2>1 DEF Sweep, SweepOnce, Removable, Drop, Cached
  <2>2. ASSUME NEW x \in Callers, url[x] = u, Return(x)
        PROVE  /\ Cached(u)' => Cached(u) /\ files'[u] = files[u]
               /\ files'[u] # files[u] => Cached(u) /\ files'[u] = "absent"
    BY <2>2, ReturnEffect DEF Drop, SetEntry, Cached
  <2> QED
    BY <2>1, <2>2
<1>4. ASSUME NEW y \in Callers, url[y] = u PROVE SoleCaller(y)'
  <2>1. SoleCaller(y)
    BY <1>4 DEF SoleAt
  <2>2. pc'[y] = "copy" => writer'[u] = y /\ files'[u] = "partial"
    BY <1>1, <1>2, <1>3, <1>4, <2>1, Alone DEF SoleCaller
  <2>3. pc'[y] = "fetched" => files'[u] = "whole"
    BY <1>1, <1>2, <1>3, <1>4, <2>1, Alone DEF SoleCaller
  <2>4. ASSUME took[y] # Nobody, pc'[y] # "released" PROVE files'[u] = "whole"
    <3>1. files'[u] = files[u]
      BY <1>1, <1>3, <1>4, <2>4, SoleDropped
    <3> QED
      BY <1>2, <2>1, <2>4, <3>1, <1>4 DEF SoleCaller
  <2>5. gave'[y] # Nobody => took'[y] = gave'[y]
    BY <1>1, <1>4, SoleGave
  <2> QED
    BY <1>1, <1>2, <1>3, <1>4, <2>1, <2>2, <2>3, <2>4, <2>5
       DEF SoleCaller, Owned, Owning, PutDone, Cached
<1> QED
  BY <1>3, <1>4 DEF SoleAt

\* A caller's step.
LEMMA SoleStepped ==
  ASSUME TypeOK, CountInv, OwnedInv, NEW u \in Urls, Sole(u), SoleAt(u),
         NEW x \in Callers, Lookup(x) \/ Step(x)
  PROVE  SoleAt(u)'
<1>1. CASE url[x] # u
  <2>1. \A y \in Callers : url[y] = u => y # x
    BY <1>1
  <2>2. \A y \in Callers : url[y] = u => /\ pc'[y] = pc[y] /\ took'[y] = took[y]
                                         /\ gave'[y] = gave[y] /\ call'[y] = call[y]
    BY <2>1, StepFrame
  <2>3. entries'[u] = entries[u] /\ files'[u] = files[u] /\ writer'[u] = writer[u]
    BY <1>1, StepFrame
  <2> QED
    BY <2>2, <2>3 DEF SoleAt, SoleCaller, Owned, Cached
<1>2. CASE url[x] = u /\ (Lookup(x) \/ Advance(x))
  BY <1>2, SoleAside, SoleTaken, SoleFetched DEF Advance
<1>3. CASE url[x] = u /\ Return(x)
  BY <1>3, SoleReleased
<1> QED
  BY <1>1, <1>2, <1>3 DEF Step

LEMMA SoleStep ==
  ASSUME TypeOK, CountInv, OwnedInv, SoleInv, [Next]_vars
  PROVE  SoleInv'
<1> SUFFICES ASSUME NEW u \in Urls, Sole(u)' PROVE SoleAt(u)'
  BY DEF SoleInv
<1>1. Sole(u) /\ SoleAt(u)
  BY SoleBefore
<1>2. ASSUME NEW x \in Callers, Lookup(x) \/ Step(x) PROVE SoleAt(u)'
  BY <1>1, <1>2, SoleStepped
<1>3. CASE Sweep
  BY <1>1, <1>3, SoleReleased
<1>4. ASSUME NEW v \in Urls, Tick(v) \/ Publish(v) PROVE SoleAt(u)'
  <2>1. files' = files /\ ClientUnchanged /\ (Cached(u)' => Cached(u))
    BY <1>4, NoEntryAssumption
       DEF Tick, Expire, Get, Publish, Invalidate, Cached, TypeOK, CacheTypeOK
  <2> QED
    BY <1>1, <2>1 DEF ClientUnchanged, flightVars, history, SoleAt, SoleCaller, Owned, Cached
<1>5. CASE UNCHANGED vars
  BY <1>1, <1>5 DEF vars, SoleAt, SoleCaller, Owned, Cached
<1> QED
  BY <1>2, <1>3, <1>4, <1>5 DEF Next

\* The process has just been started, over the files an earlier one has left.
Restarted ==
    /\ entries = [u \in Urls |-> NoEntry] /\ files \in [Urls -> FileStates]
    /\ pc = [c \in Callers |-> "start"]
    /\ downloading = [e \in Downloaders |-> [u \in Urls |-> Nobody]]
    /\ call = [c \in Callers |-> "open"]
    /\ joined = [c \in Callers |-> Nobody]
    /\ writer = [u \in Urls |-> Nobody]
    /\ took = [c \in Callers |-> Nobody] /\ gave = [c \in Callers |-> Nobody]

\* All that is known of the reachable states.
DownloaderInv == TypeOK /\ SingleFlight /\ CountInv /\ OwnedInv /\ SoleInv

LEMMA RestartedInv == Restarted => DownloaderInv
<1> SUFFICES ASSUME Restarted PROVE DownloaderInv
  OBVIOUS
<1> USE DownloaderAssumption DEF Restarted
<1>1. TypeOK
  BY DEF TypeOK, CacheTypeOK, Labels
<1>2. SingleFlight
  BY DEF SingleFlight, Flight, Owning
<1>3. CountInv
  BY DEF CountInv, EntryFromPut, TookFromPut, GaveFromPut, ReleasedGave, RefCountExact, Cached
<1>4. OwnedInv
  BY DEF OwnedInv, FlightOwn, CallKnown, PutsOwned, FoundPut, GaveOwn, AfterPut, Cached
<1>5. SoleInv
  BY DEF SoleInv, SoleAt, SoleCaller, Cached, PutDone
<1> QED
  BY <1>1, <1>2, <1>3, <1>4, <1>5 DEF DownloaderInv

LEMMA InitRestarted == Init => Restarted
BY DEF Init, CacheInit, Restarted, FileStates

LEMMA DownloaderStep ==
  ASSUME DownloaderInv, [Next]_vars
  PROVE  DownloaderInv'
BY TypeStep, FlightStep, CountStep, OwnedStep, SoleStep DEF DownloaderInv

LEMMA WholeIfSole == DownloaderInv => SoleDownloadIsWhole
<1> SUFFICES ASSUME DownloaderInv, NEW u \in Urls, Sole(u), NEW c \in Callers,
                    url[c] = u, took[c] # Nobody, pc[c] # "released"
             PROVE  files[u] = "whole"
  BY DEF SoleDownloadIsWhole, Sole
<1> QED
  BY DEF DownloaderInv, SoleInv, SoleAt, SoleCaller

\* If the URL has been downloaded by one caller only, everyone counted in its entry
\* finds the complete file (downloader.go:46-83, local.go:33-59).
THEOREM SoleDownloadIsWholeHolds == Spec => []SoleDownloadIsWhole
<1>1. Init => DownloaderInv
  BY InitRestarted, RestartedInv
<1>2. DownloaderInv /\ [Next]_vars => DownloaderInv'
  BY DownloaderStep
<1>3. DownloaderInv => SoleDownloadIsWhole
  BY WholeIfSole
<1>4. QED
  BY <1>1, <1>2, <1>3, PTL DEF Spec
=============================================================================

---------------------------- MODULE JobPoolProofs ----------------------------
(***************************************************************************)
(* Proofs of the safety properties of JobPool, for any number of pools,    *)
(* any finite set of jobs, any number of slots and any queue size, and of  *)
(* the safety part of its refinement of JobService.                        *)
(***************************************************************************)
EXTENDS JobPool, FiniteSetTheorems, SequenceTheorems, TLAPS

LEMMA GotoMoves ==
  ASSUME pc \in [Jobs -> Labels], NEW j \in Jobs, NEW from, NEW to \in Labels,
         Goto(j, from, to)
  PROVE  /\ pc' \in [Jobs -> Labels]
         /\ pc[j] = from /\ pc'[j] = to
         /\ \A x \in Jobs : x # j => pc'[x] = pc[x]
BY DEF Goto

\* What an action on one job does to it and leaves alone: the part of each
\* action's definition the invariants below need.
LEMMA TypeStep == ASSUME PoolTypeOK, [Next]_vars PROVE PoolTypeOK'
<1> USE PoolAssumption DEF PoolTypeOK, Labels, Statuses, poolVars, orders
<1>1. CASE UNCHANGED vars
  BY <1>1 DEF vars
<1>2. ASSUME NEW j \in Jobs, Arrive(j) \/ Invalid(j) \/ AtCapacity(j) \/ WaitForSlot(j)
      PROVE  PoolTypeOK'
  BY <1>2 DEF Arrive, Invalid, AtCapacity, WaitForSlot, Goto
<1>3. ASSUME NEW j \in Jobs, Accept(j) PROVE PoolTypeOK'
  <2>1. j \in AsyncJobs /\ poolOf[j] \in Pools /\ queue[poolOf[j]] \in Seq(AsyncJobs)
        /\ Len(queue[poolOf[j]]) < QueueSize
    BY <1>3 DEF Accept
  <2>2. /\ Append(queue[poolOf[j]], j) \in Seq(AsyncJobs)
        /\ Append(admitted[poolOf[j]], j) \in Seq(AsyncJobs)
    BY <2>1
  <2>3. Len(Append(queue[poolOf[j]], j)) <= QueueSize
    BY <2>1
  <2> QED
    BY <1>3, <2>1, <2>2, <2>3 DEF Accept, Goto, SetStatus
<1>4. ASSUME NEW j \in Jobs, TakeSlot(j) \/ Free(j)
      PROVE  sem' \in [Pools -> Int] /\ slot' \in [Jobs -> BOOLEAN]
  <2>1. poolOf[j] \in Pools /\ sem \in [Pools -> Int] /\ slot \in [Jobs -> BOOLEAN]
    OBVIOUS
  <2>2. sem[poolOf[j]] + 1 \in Int /\ sem[poolOf[j]] - 1 \in Int
    BY <2>1
  <2>3. ASSUME TakeSlot(j)
        PROVE  sem' \in [Pools -> Int] /\ slot' \in [Jobs -> BOOLEAN]
    BY ONLY <2>1, <2>2, <2>3 DEF TakeSlot
  <2>4. ASSUME Free(j)
        PROVE  sem' \in [Pools -> Int] /\ slot' \in [Jobs -> BOOLEAN]
    <3>1. CASE slot[j]
      BY ONLY <2>1, <2>2, <2>4, <3>1 DEF Free
    <3>2. CASE ~slot[j]
      BY ONLY <2>1, <2>4, <3>2 DEF Free
    <3> QED
      BY <3>1, <3>2
  <2> QED
    BY <1>4, <2>3, <2>4
<1>5. ASSUME NEW p \in Pools, DispatchTake(p) PROVE PoolTypeOK'
  <2>1. /\ Head(queue[p]) \in AsyncJobs /\ Tail(queue[p]) \in Seq(AsyncJobs)
        /\ Len(Tail(queue[p])) <= Len(queue[p])
    BY <1>5 DEF DispatchTake
  <2>2. /\ queue' \in [Pools -> Seq(AsyncJobs)]
        /\ \A x \in Pools : Len(queue'[x]) <= QueueSize
    BY <1>5, <2>1 DEF DispatchTake
  <2>3. pc' \in [Jobs -> Labels]
    BY <1>5, <2>1 DEF DispatchTake, Goto, Jobs
  <2> QED
    BY <1>5, <2>1, <2>2, <2>3 DEF DispatchTake
<1>6. ASSUME NEW p \in Pools, DispatchStart(p) PROVE PoolTypeOK'
  <2>1. inHand[p] \in AsyncJobs /\ inHand[p] \in Jobs
    BY <1>6 DEF DispatchStart, Jobs
  <2>2. Append(launched[p], inHand[p]) \in Seq(AsyncJobs)
    BY <2>1
  <2>3. sem' \in [Pools -> Int] /\ slot' \in [Jobs -> BOOLEAN]
    BY <1>4, <1>6, <2>1 DEF DispatchStart
  <2> QED
    BY <1>6, <2>1, <2>2, <2>3 DEF DispatchStart, Goto
<1>7. ASSUME NEW j \in Jobs, SyncStart(j) PROVE PoolTypeOK'
  BY <1>4, <1>7 DEF SyncStart, Goto, SetStatus
<1>8. ASSUME NEW j \in Jobs, Begin(j) \/ Fetched(j) \/ PrepareFail(j) PROVE PoolTypeOK'
  <2>1. /\ pc' \in [Jobs -> Labels] /\ status' \in [Jobs -> Statuses]
        /\ UNCHANGED <<queue, inHand, sem, slot, render, answer, process, admitted, launched>>
    BY <1>8 DEF Begin, Fetched, PrepareFail, Goto, SetStatus
  <2> QED
    BY <2>1
<1>9. ASSUME NEW j \in Jobs, RenderEnd(j) PROVE PoolTypeOK'
  BY <1>9 DEF RenderEnd, Goto
<1>10. ASSUME NEW j \in Jobs, ReleaseSlot(j) PROVE PoolTypeOK'
  BY <1>4, <1>10 DEF ReleaseSlot, Goto
<1>11. ASSUME NEW j \in Jobs, CheckRender(j) \/ Upload(j) PROVE PoolTypeOK'
  <2>1. /\ pc' \in [Jobs -> Labels] /\ status' \in [Jobs -> Statuses]
        /\ UNCHANGED <<queue, inHand, sem, slot, render, answer, process, admitted, launched>>
    <3>1. CASE CheckRender(j)
      BY <3>1 DEF CheckRender, Goto, SetStatus
    <3>2. CASE Upload(j)
      BY <3>2 DEF Upload, Goto, SetStatus
    <3> QED
      BY <1>11, <3>1, <3>2
  <2> QED
    BY <2>1
<1>12. ASSUME NEW j \in Jobs, Notify(j) \/ Reply(j) PROVE PoolTypeOK'
  BY <1>12 DEF Notify, Reply, Goto
<1>13. ASSUME NEW j \in Jobs, DeferredRelease(j) PROVE PoolTypeOK'
  BY <1>4, <1>13 DEF DeferredRelease, Goto
<1>14. CASE Signal \/ DrainExit \/ TimeoutExit
  BY <1>14 DEF Signal, DrainExit, TimeoutExit, ProcessUnchanged
<1> QED
  BY <1>1, <1>2, <1>3, <1>5, <1>6, <1>7, <1>8, <1>9, <1>10, <1>11, <1>12, <1>13, <1>14
     DEF Next, Handle, Run

\* The type invariant of the pools.
THEOREM PoolTypeCorrect == Spec => []PoolTypeOK
<1>1. Init => PoolTypeOK
  BY PoolAssumption DEF Init, PoolTypeOK, Labels, Statuses
<1>2. QED
  BY <1>1, TypeStep, PTL DEF Spec
-----------------------------------------------------------------------------
(* Order. *)

LEMMA SplitHead ==
  ASSUME NEW S, NEW s \in Seq(S), s # <<>>
  PROVE  /\ Head(s) \in S /\ <<Head(s)>> \in Seq(S) /\ Tail(s) \in Seq(S)
         /\ s = <<Head(s)>> \o Tail(s)
<1>1. Head(s) \in S /\ Tail(s) \in Seq(S) /\ Len(s) \in Nat \ {0}
  BY EmptySeq
<1>2. <<Head(s)>> \o Tail(s) \in Seq(S)
  BY <1>1
<1>3. Len(<<Head(s)>> \o Tail(s)) = Len(s)
  BY <1>1
<1>4. \A i \in 1 .. Len(s) : s[i] = (<<Head(s)>> \o Tail(s))[i]
  BY <1>1
<1> QED
  BY <1>1, <1>2, <1>3, <1>4, SeqEqual

\* The three ways an order moves on: at its end...
LEMMA OrderGrows ==
  ASSUME NEW a \in Seq(AsyncJobs), NEW h \in Seq(AsyncJobs), NEW q \in Seq(AsyncJobs), NEW e \in AsyncJobs
  PROVE  Append(a \o h \o q, e) = a \o h \o Append(q, e)
<1>1. a \o h \in Seq(AsyncJobs) /\ a \o h \o q \in Seq(AsyncJobs) /\ <<e>> \in Seq(AsyncJobs)
  BY ConcatProperties
<1>2. Append(a \o h \o q, e) = (a \o h) \o q \o <<e>>
  BY <1>1, AppendIsConcat
<1>3. (a \o h) \o q \o <<e>> = (a \o h) \o (q \o <<e>>)
  <2>1. ASSUME NEW s \in Seq(AsyncJobs), NEW r \in Seq(AsyncJobs) PROVE (s \o q) \o r = s \o (q \o r)
    BY ConcatAssociative
  <2> QED
    BY ONLY <1>1, <2>1
<1> QED
  BY <1>2, <1>3, AppendIsConcat

\* ...from the queue into the hand...
LEMMA OrderTaken ==
  ASSUME NEW S, NEW a \in Seq(S), NEW q \in Seq(S), q # <<>>
  PROVE  a \o <<>> \o q = a \o <<Head(q)>> \o Tail(q)
<1>1. a \o <<>> = a
  BY ConcatEmptySeq
<1>2. a \o q = a \o (<<Head(q)>> \o Tail(q))
  BY SplitHead
<1>3. a \o (<<Head(q)>> \o Tail(q)) = (a \o <<Head(q)>>) \o Tail(q)
  BY SplitHead, ConcatAssociative
<1> QED
  BY <1>1, <1>2, <1>3

\* ...and out of the hand.
LEMMA OrderStarts ==
  ASSUME NEW S, NEW a \in Seq(S), NEW q \in Seq(S), NEW e \in S
  PROVE  a \o <<e>> \o q = Append(a, e) \o <<>> \o q
<1>1. Append(a, e) \in Seq(S) /\ Append(a, e) = a \o <<e>>
  BY AppendIsConcat, AppendProperties
<1>2. Append(a, e) \o <<>> = Append(a, e)
  BY <1>1, ConcatEmptySeq
<1> QED
  BY <1>1, <1>2

\* Jobs are started in the order in which their requests were accepted, and none
\* is lost between the queue and the slot (pipeline_media.go:128-138, 150-152).
THEOREM StartedInOrderHolds == Spec => []StartedInOrder
<1>1. Init => StartedInOrder
  BY DEF Init, StartedInOrder, Hand
<1>2. PoolTypeOK /\ StartedInOrder /\ [Next]_vars => StartedInOrder'
  <2> SUFFICES ASSUME PoolTypeOK, StartedInOrder, [Next]_vars PROVE StartedInOrder'
    OBVIOUS
  <2> USE PoolAssumption DEF poolVars, orders
  <2>1. ASSUME UNCHANGED <<queue, inHand, admitted, launched>> PROVE StartedInOrder'
    BY <2>1 DEF StartedInOrder, Hand
  <2>2. ASSUME NEW j \in Jobs, Accept(j) PROVE StartedInOrder'
    <3>1. ASSUME NEW p \in Pools
          PROVE  admitted'[p] = launched'[p] \o Hand(p)' \o queue'[p]
      <4>1. /\ inHand' = inHand /\ launched' = launched
            /\ admitted[p] = launched[p] \o Hand(p) \o queue[p]
        BY <2>2 DEF Accept, StartedInOrder
      <4>2. CASE p = poolOf[j]
        <5>1. /\ queue'[p] = Append(queue[p], j) /\ admitted'[p] = Append(admitted[p], j)
              /\ j \in AsyncJobs
          BY <2>2, <4>2 DEF Accept, PoolTypeOK
        <5>2. /\ Hand(p) \in Seq(AsyncJobs) /\ launched[p] \in Seq(AsyncJobs)
              /\ queue[p] \in Seq(AsyncJobs)
          BY DEF PoolTypeOK, Hand
        <5>3. Append(launched[p] \o Hand(p) \o queue[p], j)
                = launched[p] \o Hand(p) \o Append(queue[p], j)
          BY ONLY <5>1, <5>2, OrderGrows, Zenon
        <5>4. Hand(p)' = Hand(p)
          BY <4>1 DEF Hand
        <5> QED
          BY <4>1, <5>1, <5>3, <5>4
      <4>3. CASE p # poolOf[j]
        BY <2>2, <4>1, <4>3 DEF Accept, PoolTypeOK, Hand
      <4> QED
        BY <4>2, <4>3
    <3> QED
      BY <3>1 DEF StartedInOrder
  <2>3. ASSUME NEW p \in Pools, DispatchTake(p) PROVE StartedInOrder'
    <3>1. ASSUME NEW q \in Pools
          PROVE  admitted'[q] = launched'[q] \o Hand(q)' \o queue'[q]
      <4>1. /\ admitted' = admitted /\ launched' = launched
            /\ admitted[q] = launched[q] \o Hand(q) \o queue[q]
        BY <2>3 DEF DispatchTake, StartedInOrder
      <4>2. CASE q = p
        <5>1. /\ queue[p] \in Seq(AsyncJobs) /\ queue[p] # <<>> /\ launched[p] \in Seq(AsyncJobs)
              /\ Head(queue[p]) \in AsyncJobs
          BY <2>3 DEF DispatchTake, PoolTypeOK, Hand
        <5>2. /\ Hand(p) = <<>> /\ Hand(p)' = <<Head(queue[p])>> /\ queue'[p] = Tail(queue[p])
          BY <2>3, <5>1 DEF DispatchTake, PoolTypeOK, Hand, Jobs
        <5>3. launched[p] \o <<>> \o queue[p] = launched[p] \o <<Head(queue[p])>> \o Tail(queue[p])
          BY <5>1, OrderTaken
        <5> QED
          BY <4>1, <4>2, <5>2, <5>3
      <4>3. CASE q # p
        BY <2>3, <4>1, <4>3 DEF DispatchTake, PoolTypeOK, Hand
      <4> QED
        BY <4>2, <4>3
    <3> QED
      BY <3>1 DEF StartedInOrder
  <2>4. ASSUME NEW p \in Pools, DispatchStart(p) PROVE StartedInOrder'
    <3>1. ASSUME NEW q \in Pools
          PROVE  admitted'[q] = launched'[q] \o Hand(q)' \o queue'[q]
      <4>1. /\ admitted' = admitted /\ queue' = queue
            /\ admitted[q] = launched[q] \o Hand(q) \o queue[q]
        BY <2>4 DEF DispatchStart, StartedInOrder
      <4>2. CASE q = p
        <5>1. /\ inHand[p] \in AsyncJobs /\ launched[p] \in Seq(AsyncJobs)
              /\ queue[p] \in Seq(AsyncJobs)
          BY <2>4 DEF DispatchStart, PoolTypeOK, Hand
        <5>2. /\ Hand(p) = <<inHand[p]>> /\ Hand(p)' = <<>>
              /\ launched'[p] = Append(launched[p], inHand[p])
          BY <2>4 DEF DispatchStart, PoolTypeOK, Hand
        <5>3. launched[p] \o <<inHand[p]>> \o queue[p]
                = Append(launched[p], inHand[p]) \o <<>> \o queue[p]
          BY ONLY <5>1, OrderStarts, Zenon
        <5> QED
          BY <4>1, <4>2, <5>2, <5>3
      <4>3. CASE q # p
        BY <2>4, <4>1, <4>3 DEF DispatchStart, PoolTypeOK, Hand
      <4> QED
        BY <4>2, <4>3
    <3> QED
      BY <3>1 DEF StartedInOrder
  <2>5. CASE UNCHANGED vars
    BY <2>1, <2>5 DEF vars
  <2>6. ASSUME NEW j \in Jobs,
               Arrive(j) \/ Invalid(j) \/ AtCapacity(j) \/ WaitForSlot(j) \/ SyncStart(j)
        PROVE  StartedInOrder'
    BY <2>1, <2>6 DEF Arrive, Invalid, AtCapacity, WaitForSlot, SyncStart
  <2>7. ASSUME NEW j \in Jobs, Run(j) PROVE StartedInOrder'
    BY <2>1, <2>7 DEF Run, Begin, Fetched, PrepareFail, RenderEnd, ReleaseSlot, CheckRender,
                      Upload, Notify, DeferredRelease, Reply
  <2>8. CASE Signal \/ DrainExit \/ TimeoutExit
    BY <2>1, <2>8 DEF Signal, DrainExit, TimeoutExit, ProcessUnchanged
  <2> QED
    BY <2>2, <2>3, <2>4, <2>5, <2>6, <2>7, <2>8 DEF Next, Handle
<1>3. QED
  BY <1>1, <1>2, PoolTypeCorrect, PTL DEF Spec
-----------------------------------------------------------------------------
(* Slots, answers and verdicts: one inductive invariant. *)

\* What a job's place says of the rest of its state: the part of the inductive
\* invariant that is about one job.
HasSlot == {"launched", "fetching", "rendering"}
Ended == {"returned", "notified", "released", "over"}

JobInv(j) ==
    /\ pc[j] \in HasSlot => slot[j]
    /\ slot[j] => pc[j] \in HasSlot \cup {"rendered", "returned", "notified"}
    /\ slot[j] /\ pc[j] # "rendered" => render[j] = "none"
    /\ pc[j] \in {"rendered", "checking", "uploading"} => render[j] # "none"
    /\ render[j] # "none" => pc[j] \in {"rendered", "checking", "uploading"} \cup Ended
    /\ status[j] \in Settled <=> pc[j] \in Ended
    /\ answer[j] # "none" => pc[j] \in {"notified", "over"} /\ answer[j] = status[j]
    /\ poolOf[j] \in ChecksOutput =>
          (pc[j] = "uploading" \/ status[j] = "done" => render[j] = "video")

PoolInv ==
    /\ \A j \in Jobs : JobInv(j)
    /\ SlotAccounting
    /\ \A p \in Pools : sem[p] <= MaxWorkers

LEMMA InitInv == Init => PoolInv
<1> SUFFICES ASSUME Init PROVE PoolInv
  OBVIOUS
<1>1. ASSUME NEW j \in Jobs PROVE JobInv(j)
  BY DEF Init, JobInv, HasSlot, Ended, Settled
<1>2. ASSUME NEW p \in Pools PROVE sem[p] = Cardinality(Holders(p)) /\ sem[p] <= MaxWorkers
  <2>1. Holders(p) = {}
    BY DEF Holders, Init
  <2> QED
    BY <2>1, FS_EmptySet, PoolAssumption DEF Init
<1> QED
  BY <1>1, <1>2 DEF PoolInv, SlotAccounting

\* A job that an action leaves alone keeps its invariant.
LEMMA JobKept ==
  ASSUME NEW j, JobInv(j), pc'[j] = pc[j], slot'[j] = slot[j], status'[j] = status[j],
         render'[j] = render[j], answer'[j] = answer[j]
  PROVE  JobInv(j)'
BY DEF JobInv

\* Every step keeps the invariant of every job.
LEMMA JobsStep ==
  ASSUME PoolTypeOK, \A j \in Jobs : JobInv(j), [Next]_vars
  PROVE  \A j \in Jobs : JobInv(j)'
<1> USE PoolAssumption DEF poolVars, orders
<1>1. ASSUME NEW j \in Jobs, JobInv(j)',
             \A x \in Jobs : x # j => /\ pc'[x] = pc[x] /\ slot'[x] = slot[x]
                                      /\ status'[x] = status[x] /\ render'[x] = render[x]
                                      /\ answer'[x] = answer[x]
      PROVE  \A x \in Jobs : JobInv(x)'
  BY <1>1, JobKept
<1>2. ASSUME NEW j \in Jobs,
             Arrive(j) \/ Invalid(j) \/ AtCapacity(j) \/ WaitForSlot(j) \/ Accept(j)
      PROVE  \A x \in Jobs : JobInv(x)'
  <2>1. /\ pc[j] \in {"new", "handling"}
        /\ pc'[j] \in {"handling", "refused", "waiting", "queued"}
        /\ status'[j] \in {status[j], "queued"}
        /\ slot'[j] = slot[j] /\ render'[j] = render[j] /\ answer'[j] = answer[j]
    BY <1>2 DEF Arrive, Invalid, AtCapacity, WaitForSlot, Accept, Goto, SetStatus, PoolTypeOK
  <2>2. JobInv(j)'
    BY <2>1 DEF JobInv, HasSlot, Ended, Settled
  <2> QED
    BY <1>1, <1>2, <2>2 DEF Arrive, Invalid, AtCapacity, WaitForSlot, Accept, Goto, SetStatus,
                            PoolTypeOK
<1>3. ASSUME NEW p \in Pools, DispatchTake(p) PROVE \A x \in Jobs : JobInv(x)'
  <2>1. PICK h \in Jobs : h = Head(queue[p])
    BY <1>3 DEF DispatchTake, PoolTypeOK, Jobs
  <2>2. /\ Goto(h, "queued", "inHand")
        /\ UNCHANGED <<slot, status, render, answer>>
    BY <1>3, <2>1 DEF DispatchTake
  <2>3. JobInv(h)'
    BY <2>2 DEF Goto, JobInv, PoolTypeOK, HasSlot, Ended
  <2> QED
    BY <1>1, <2>2, <2>3 DEF Goto, PoolTypeOK
<1>4. ASSUME NEW p \in Pools, DispatchStart(p) PROVE \A x \in Jobs : JobInv(x)'
  <2>1. PICK h \in Jobs : h = inHand[p]
    BY <1>4 DEF DispatchStart, PoolTypeOK, Jobs
  <2>2. /\ Goto(h, "inHand", "launched")
        /\ slot' = [slot EXCEPT ![h] = TRUE]
        /\ UNCHANGED <<status, render, answer>>
    BY <1>4, <2>1 DEF DispatchStart, TakeSlot
  <2>3. JobInv(h)'
    BY <2>2 DEF Goto, JobInv, PoolTypeOK, HasSlot, Ended
  <2> QED
    BY <1>1, <2>2, <2>3 DEF Goto, PoolTypeOK
<1>5. ASSUME NEW j \in Jobs, SyncStart(j) PROVE \A x \in Jobs : JobInv(x)'
  <2>1. JobInv(j)'
    BY <1>5 DEF SyncStart, TakeSlot, Goto, SetStatus, JobInv, PoolTypeOK, HasSlot, Ended, Settled
  <2> QED
    BY <1>1, <1>5, <2>1 DEF SyncStart, TakeSlot, Goto, SetStatus, PoolTypeOK
<1>6. ASSUME NEW j \in Jobs, Begin(j) \/ Fetched(j) \/ PrepareFail(j) \/ RenderEnd(j)
      PROVE  \A x \in Jobs : JobInv(x)'
  <2>1. JobInv(j)'
    BY <1>6 DEF Begin, Fetched, PrepareFail, RenderEnd, Goto, SetStatus, JobInv, PoolTypeOK,
                HasSlot, Ended, Settled
  <2> QED
    BY <1>1, <1>6, <2>1 DEF Begin, Fetched, PrepareFail, RenderEnd, Goto, SetStatus, PoolTypeOK
<1>7. ASSUME NEW j \in Jobs, ReleaseSlot(j) PROVE \A x \in Jobs : JobInv(x)'
  <2>1. /\ pc[j] = "rendered" /\ pc'[j] = "checking" /\ ~slot'[j]
        /\ status'[j] = status[j] /\ render'[j] = render[j] /\ answer'[j] = answer[j]
    BY <1>7 DEF ReleaseSlot, Free, Goto, PoolTypeOK
  <2>2. JobInv(j)'
    BY <2>1 DEF JobInv, HasSlot, Ended
  <2> QED
    BY <1>1, <1>7, <2>2 DEF ReleaseSlot, Free, Goto, PoolTypeOK
<1>8. ASSUME NEW j \in Jobs, DeferredRelease(j) PROVE \A x \in Jobs : JobInv(x)'
  <2>1. /\ \/ pc[j] = "notified" /\ pc'[j] = "over"
           \/ pc[j] = "returned" /\ pc'[j] = "released"
        /\ ~slot'[j]
        /\ status'[j] = status[j] /\ render'[j] = render[j] /\ answer'[j] = answer[j]
    BY <1>8 DEF DeferredRelease, Free, Goto, PoolTypeOK
  <2>2. JobInv(j)'
    BY <2>1 DEF JobInv, HasSlot, Ended
  <2> QED
    BY <1>1, <1>8, <2>2 DEF DeferredRelease, Free, Goto, PoolTypeOK
<1>9. ASSUME NEW j \in Jobs, CheckRender(j) PROVE \A x \in Jobs : JobInv(x)'
  <2>1. /\ pc[j] = "checking"
        /\ \/ pc'[j] = "returned" /\ status'[j] = "failed"
           \/ pc'[j] = "uploading" /\ status'[j] = status[j] /\ ~RenderFailed(j)
        /\ slot'[j] = slot[j] /\ render'[j] = render[j] /\ answer'[j] = answer[j]
    BY <1>9 DEF CheckRender, Goto, SetStatus, PoolTypeOK
  <2>2. render[j] \in {"none", "failed", "empty", "video"}
    BY DEF PoolTypeOK
  <2>3. JobInv(j)'
    BY <2>1, <2>2 DEF JobInv, HasSlot, Ended, Settled, RenderFailed
  <2> QED
    BY <1>1, <1>9, <2>3 DEF CheckRender, Goto, SetStatus, PoolTypeOK
<1>11. ASSUME NEW j \in Jobs, Upload(j) PROVE \A x \in Jobs : JobInv(x)'
  <2>1. /\ pc[j] = "uploading" /\ pc'[j] = "returned" /\ status'[j] \in {"done", "failed"}
        /\ slot'[j] = slot[j] /\ render'[j] = render[j] /\ answer'[j] = answer[j]
    BY <1>11 DEF Upload, Goto, SetStatus, PoolTypeOK
  <2>2. JobInv(j)'
    BY <2>1 DEF JobInv, HasSlot, Ended, Settled
  <2> QED
    BY <1>1, <1>11, <2>2 DEF Upload, Goto, SetStatus, PoolTypeOK
<1>12. ASSUME NEW j \in Jobs, Notify(j) \/ Reply(j) PROVE \A x \in Jobs : JobInv(x)'
  <2>1. /\ \/ pc[j] = "returned" /\ pc'[j] = "notified"
           \/ pc[j] = "released" /\ pc'[j] = "over"
        /\ answer'[j] = status[j]
        /\ status'[j] = status[j] /\ render'[j] = render[j] /\ slot'[j] = slot[j]
    BY <1>12 DEF Notify, Reply, Goto, PoolTypeOK
  <2>2. JobInv(j)'
    BY <2>1 DEF JobInv, HasSlot, Ended
  <2> QED
    BY <1>1, <1>12, <2>2 DEF Notify, Reply, Goto, PoolTypeOK
<1>10. CASE UNCHANGED vars \/ Signal \/ DrainExit \/ TimeoutExit
  BY <1>10, JobKept DEF vars, Signal, DrainExit, TimeoutExit, ProcessUnchanged
<1> QED
  BY <1>2, <1>3, <1>4, <1>5, <1>6, <1>7, <1>8, <1>9, <1>10, <1>11, <1>12 DEF Next, Handle, Run

\* The number of a pool's jobs that s maps to TRUE.
HeldIn(s, p) == Cardinality({j \in Jobs : s[j] /\ poolOf[j] = p})

LEMMA HeldNat == \A s, p : HeldIn(s, p) \in Nat
<1> TAKE s, p
<1>1. {j \in Jobs : s[j] /\ poolOf[j] = p} \subseteq Jobs
  OBVIOUS
<1> QED
  BY <1>1, FS_Subset, FS_CardinalityType, PoolAssumption DEF HeldIn

LEMMA Accounting ==
  /\ SlotAccounting <=> \A p \in Pools : sem[p] = HeldIn(slot, p)
  /\ SlotAccounting' <=> \A p \in Pools : sem'[p] = HeldIn(slot', p)
BY DEF SlotAccounting, Holders, HeldIn

\* One job more, in its pool and in no other.
LEMMA OneMore ==
  ASSUME NEW s, NEW t, NEW j \in Jobs, ~s[j], t[j],
         \A x \in Jobs : x # j => t[x] = s[x], NEW p \in Pools
  PROVE  /\ poolOf[j] = p => HeldIn(t, p) = HeldIn(s, p) + 1
         /\ poolOf[j] # p => HeldIn(t, p) = HeldIn(s, p)
<1> DEFINE S == {x \in Jobs : s[x] /\ poolOf[x] = p}
           T == {x \in Jobs : t[x] /\ poolOf[x] = p}
<1>1. IsFiniteSet(S)
  <2>1. S \subseteq Jobs
    OBVIOUS
  <2> QED
    BY <2>1, FS_Subset, PoolAssumption
<1>2. Cardinality(S) \in Nat
  BY <1>1, FS_CardinalityType
<1>3. j \notin S
  OBVIOUS
<1>4. CASE poolOf[j] = p
  <2>1. T = S \cup {j}
    BY <1>4
  <2>2. Cardinality(S \cup {j}) = Cardinality(S) + 1
    BY <1>1, <1>3, FS_AddElement
  <2> QED
    BY <1>4, <2>1, <2>2 DEF HeldIn
<1>5. CASE poolOf[j] # p
  <2>1. T = S
    BY <1>5
  <2> QED
    BY <1>5, <2>1 DEF HeldIn
<1> QED
  BY <1>4, <1>5

SlotsInv == SlotAccounting /\ \A p \in Pools : sem[p] <= MaxWorkers

\* A slot is taken while there is one.
LEMMA SlotTaken ==
  ASSUME PoolTypeOK, SlotsInv, NEW j \in Jobs, ~slot[j], TakeSlot(j)
  PROVE  SlotsInv'
<1> USE PoolAssumption
<1>1. /\ ~slot[j] /\ slot'[j] /\ \A x \in Jobs : x # j => slot'[x] = slot[x]
      /\ poolOf[j] \in Pools /\ sem[poolOf[j]] < MaxWorkers
      /\ \A p \in Pools : sem[p] \in Int /\ sem'[p] = IF p = poolOf[j] THEN sem[p] + 1 ELSE sem[p]
  BY DEF TakeSlot, PoolTypeOK
<1>2. ASSUME NEW p \in Pools PROVE sem'[p] = HeldIn(slot', p) /\ sem'[p] <= MaxWorkers
  <2>1. sem[p] = HeldIn(slot, p) /\ sem[p] <= MaxWorkers
    BY Accounting DEF SlotsInv
  <2>2. /\ poolOf[j] = p => HeldIn(slot', p) = HeldIn(slot, p) + 1
        /\ poolOf[j] # p => HeldIn(slot', p) = HeldIn(slot, p)
    <3>1. ~slot[j] /\ slot'[j] /\ \A x \in Jobs : x # j => slot'[x] = slot[x]
      BY <1>1
    <3> HIDE PoolAssumption
    <3> QED
      BY <3>1, OneMore, Zenon
  <2>3. MaxWorkers \in Int /\ sem[p] \in Int
    BY <1>1
  <2>4. CASE p = poolOf[j]
    <3>1. sem'[p] = sem[p] + 1 /\ sem[p] < MaxWorkers
      BY <1>1, <2>4
    <3> QED
      BY <2>1, <2>2, <2>3, <2>4, <3>1
  <2>5. CASE p # poolOf[j]
    BY <1>1, <2>1, <2>2, <2>5
  <2> QED
    BY <2>4, <2>5
<1> QED
  BY <1>2, Accounting DEF SlotsInv

\* A slot is given back once.
LEMMA SlotFreed ==
  ASSUME PoolTypeOK, SlotsInv, NEW j \in Jobs, Free(j)
  PROVE  SlotsInv'
<1> USE PoolAssumption
<1>1. CASE slot[j]
  <2>1. /\ ~slot'[j] /\ \A x \in Jobs : x # j => slot[x] = slot'[x]
        /\ \A p \in Pools : sem[p] \in Int /\ sem'[p] = IF p = poolOf[j] THEN sem[p] - 1 ELSE sem[p]
    BY <1>1 DEF Free, PoolTypeOK
  <2>2. ASSUME NEW p \in Pools PROVE sem'[p] = HeldIn(slot', p) /\ sem'[p] <= MaxWorkers
    <3>1. sem[p] = HeldIn(slot, p) /\ sem[p] <= MaxWorkers
      BY Accounting DEF SlotsInv
    <3>2. /\ poolOf[j] = p => HeldIn(slot, p) = HeldIn(slot', p) + 1
          /\ poolOf[j] # p => HeldIn(slot, p) = HeldIn(slot', p)
      <4>1. ~slot'[j] /\ slot[j] /\ \A x \in Jobs : x # j => slot[x] = slot'[x]
        BY <1>1, <2>1
      <4> HIDE PoolAssumption
      <4> QED
        BY <4>1, OneMore, Zenon
    <3>3. HeldIn(slot, p) \in Nat /\ HeldIn(slot', p) \in Nat /\ MaxWorkers \in Int
      BY HeldNat
    <3>4. CASE p = poolOf[j]
      <4>1. sem'[p] = sem[p] - 1 /\ sem[p] \in Int
        BY <2>1, <3>4
      <4> QED
        BY <3>1, <3>2, <3>3, <3>4, <4>1
    <3>5. CASE p # poolOf[j]
      BY <2>1, <3>1, <3>2, <3>5
    <3> QED
      BY <3>4, <3>5
  <2> QED
    BY <2>2, Accounting DEF SlotsInv
<1>2. CASE ~slot[j]
  BY <1>2, Accounting DEF Free, SlotsInv
<1> QED
  BY <1>1, <1>2

LEMMA SlotsStep ==
  ASSUME PoolTypeOK, \A j \in Jobs : JobInv(j), SlotsInv, [Next]_vars
  PROVE  SlotsInv'
<1>1. ASSUME UNCHANGED <<sem, slot>> PROVE SlotsInv'
  BY <1>1, Accounting DEF SlotsInv
<1>2. ASSUME NEW p \in Pools, DispatchStart(p) PROVE SlotsInv'
  <2>1. PICK h \in Jobs : h = inHand[p]
    BY <1>2 DEF DispatchStart, PoolTypeOK, Jobs
  <2>2. TakeSlot(h) /\ pc[h] = "inHand"
    BY <1>2, <2>1 DEF DispatchStart, Goto
  <2>3. ~slot[h]
    BY <2>2 DEF JobInv, HasSlot
  <2> QED
    BY <2>2, <2>3, SlotTaken
<1>3. ASSUME NEW j \in Jobs, SyncStart(j) PROVE SlotsInv'
  <2>1. TakeSlot(j) /\ ~slot[j]
    BY <1>3 DEF SyncStart, Goto, JobInv, HasSlot
  <2> QED
    BY <2>1, SlotTaken
<1>4. ASSUME NEW j \in Jobs, ReleaseSlot(j) \/ DeferredRelease(j) PROVE SlotsInv'
  BY <1>4, SlotFreed DEF ReleaseSlot, DeferredRelease
<1>5. ASSUME NEW j \in Jobs,
             \/ Arrive(j) \/ Handle(j) \/ Begin(j) \/ Fetched(j) \/ PrepareFail(j) \/ RenderEnd(j)
             \/ CheckRender(j) \/ Upload(j) \/ Notify(j) \/ Reply(j)
      PROVE  SlotsInv'
  BY <1>1, <1>5 DEF Arrive, Handle, Invalid, Accept, AtCapacity, WaitForSlot, Begin, Fetched,
                    PrepareFail, RenderEnd, CheckRender, Upload, Notify, Reply, poolVars
<1>6. ASSUME NEW p \in Pools, DispatchTake(p) PROVE SlotsInv'
  BY <1>1, <1>6 DEF DispatchTake
<1>7. CASE UNCHANGED vars \/ Signal \/ DrainExit \/ TimeoutExit
  BY <1>1, <1>7 DEF vars, poolVars, Signal, DrainExit, TimeoutExit, ProcessUnchanged
<1> QED
  BY <1>2, <1>3, <1>4, <1>5, <1>6, <1>7 DEF Next, Run

\* The inductive invariant.
THEOREM PoolInvariant == Spec => []PoolInv
<1>1. PoolTypeOK /\ PoolInv /\ [Next]_vars => PoolInv'
  BY JobsStep, SlotsStep DEF PoolInv, SlotsInv
<1> QED
  BY <1>1, InitInv, PoolTypeCorrect, PTL DEF Spec

\* The semaphore of a pool counts the jobs that have yet to release it: with the
\* early release and the deferred one of pipeline_media.go:130-136, 166-169 and 233,
\* no slot leaks and none is given back twice.
THEOREM SlotAccountingHolds == Spec => []SlotAccounting
BY PoolInvariant, PTL DEF PoolInv

\* However many jobs there are, a pool runs at most MaxWorkers FFmpeg processes: each
\* holds a slot, and the slots are counted (pipeline_media.go:118, 130, 166, 232).
THEOREM RenderCapHolds == Spec => []RenderCap
<1>1. PoolInv => RenderCap
  <2> SUFFICES ASSUME PoolInv, NEW p \in Pools
               PROVE  Cardinality({j \in Jobs : pc[j] = "rendering" /\ poolOf[j] = p}) <= MaxWorkers
    BY DEF RenderCap
  <2> DEFINE R == {j \in Jobs : pc[j] = "rendering" /\ poolOf[j] = p}
  <2>1. R \subseteq Holders(p)
    BY DEF Holders, PoolInv, JobInv, HasSlot
  <2>2. IsFiniteSet(Holders(p))
    <3>1. Holders(p) \subseteq Jobs
      BY DEF Holders
    <3> QED
      BY <3>1, FS_Subset, PoolAssumption
  <2>3. IsFiniteSet(R) /\ Cardinality(R) <= Cardinality(Holders(p))
    BY <2>1, <2>2, FS_Subset
  <2>4. Cardinality(R) \in Nat /\ Cardinality(Holders(p)) \in Nat
    BY <2>2, <2>3, FS_CardinalityType
  <2>5. Cardinality(Holders(p)) <= MaxWorkers
    BY DEF PoolInv, SlotAccounting
  <2> QED
    BY <2>3, <2>4, <2>5, PoolAssumption
<1> QED
  BY <1>1, PoolInvariant, PTL

\* What a client is told, in a response or by webhook, is final: the job has ended
\* and its status never changes after that (pipeline_media.go:135-136, 172-188).
THEOREM AnswerIsFinalHolds == Spec => []AnswerIsFinal
<1>1. PoolInv => AnswerIsFinal
  BY DEF PoolInv, JobInv, AnswerIsFinal, Ended
<1> QED
  BY <1>1, PoolInvariant, PTL

\* No job that has been rendered keeps a slot, whatever it does next
\* (pipeline_media.go:233).
THEOREM UploadsHoldNoSlotHolds == Spec => []UploadsHoldNoSlot
<1>1. PoolInv => UploadsHoldNoSlot
  BY DEF PoolInv, JobInv, UploadsHoldNoSlot
<1> QED
  BY <1>1, PoolInvariant, PTL

\* Where the output is looked at, "done" is said of a video that is there
\* (pipeline_media.go:239-245).
THEOREM DoneMeansVideoHolds == Spec => []DoneMeansVideo
<1>1. PoolInv => DoneMeansVideo
  BY DEF PoolInv, JobInv, DoneMeansVideo
<1> QED
  BY <1>1, PoolInvariant, PTL
-----------------------------------------------------------------------------
(* The refinement of JobService, without its progress. *)

\* What a step of one job does to the client's view.
LEMMA ViewMoves ==
  ASSUME NEW j \in Jobs,
         \A x \in Jobs : x # j => pc'[x] = pc[x] /\ status'[x] = status[x]
  PROVE  /\ phase' = [phase EXCEPT ![j] = PhaseOf(pc'[j])]
         /\ verdict' = [verdict EXCEPT ![j] = VerdictOf(status'[j])]
         /\ phase[j] = PhaseOf(pc[j]) /\ verdict[j] = VerdictOf(status[j])
BY DEF phase, verdict

\* A move that the client sees...
LEMMA Seen ==
  ASSUME NEW j \in Jobs, process # "down", process' = process,
         \A x \in Jobs : x # j => pc'[x] = pc[x] /\ status'[x] = status[x]
  PROVE  /\ \A from : PhaseOf(pc[j]) \in from => Service!Move(j, from, PhaseOf(pc'[j]))
         /\ verdict' = [verdict EXCEPT ![j] = VerdictOf(status'[j])]
         /\ VerdictOf(status'[j]) = VerdictOf(status[j]) => verdict' = verdict
<1>1. /\ phase' = [phase EXCEPT ![j] = PhaseOf(pc'[j])]
      /\ verdict' = [verdict EXCEPT ![j] = VerdictOf(status'[j])]
      /\ phase[j] = PhaseOf(pc[j]) /\ verdict[j] = VerdictOf(status[j])
  BY ViewMoves
<1>2. VerdictOf(status'[j]) = VerdictOf(status[j]) => verdict' = verdict
  BY <1>1 DEF verdict
<1> QED
  BY <1>1, <1>2 DEF Service!Move

\* ...and one that it does not.
LEMMA Unseen ==
  ASSUME NEW j \in Jobs, process' = process,
         \A x \in Jobs : x # j => pc'[x] = pc[x] /\ status'[x] = status[x],
         PhaseOf(pc'[j]) = PhaseOf(pc[j]), VerdictOf(status'[j]) = VerdictOf(status[j])
  PROVE  UNCHANGED Service!vars
<1>1. phase' = phase /\ verdict' = verdict
  BY DEF phase, verdict
<1> QED
  BY <1>1 DEF Service!vars

\* A job that is about to render holds a slot, and so do those that render.
LEMMA RoomToRender ==
  ASSUME PoolTypeOK, PoolInv, NEW j \in Jobs, pc[j] = "fetching"
  PROVE  Cardinality(Service!Rendering(poolOf[j])) < MaxWorkers
<1> DEFINE H == Holders(poolOf[j])
           R == Service!Rendering(poolOf[j])
<1>1. IsFiniteSet(H)
  <2>1. H \subseteq Jobs
    BY DEF Holders
  <2> QED
    BY <2>1, FS_Subset, PoolAssumption
<1>2. \A x \in Jobs : phase[x] = "rendering" => pc[x] = "rendering"
  BY DEF phase, PhaseOf, PoolTypeOK, Labels
<1>3. R \subseteq H
  BY <1>2 DEF Service!Rendering, Holders, PoolInv, JobInv, HasSlot
<1>4. j \in H /\ j \notin R
  <2>1. slot[j]
    BY DEF PoolInv, JobInv, HasSlot
  <2> QED
    BY <1>2, <2>1 DEF Service!Rendering, Holders
<1>5. IsFiniteSet(R) /\ Cardinality(R) <= Cardinality(H) /\ Cardinality(R) # Cardinality(H)
  BY <1>1, <1>3, <1>4, FS_Subset
<1>6. Cardinality(R) \in Nat /\ Cardinality(H) \in Nat
  BY <1>1, <1>5, FS_CardinalityType
<1>7. Cardinality(H) <= MaxWorkers
  BY PoolAssumption DEF PoolInv, SlotAccounting
<1> QED
  BY <1>5, <1>6, <1>7, PoolAssumption

ServiceStep == Service!Next \/ UNCHANGED Service!vars

\* JobService counts with the Cardinality of its own instance of FiniteSets.
LEMMA SameCardinality == \A S : Service!Cardinality(S) = Cardinality(S)
BY Zenon DEF Service!Cardinality, Cardinality

LEMMA RequestSteps ==
  ASSUME PoolTypeOK, PoolInv, process # "down", NEW j \in Jobs, Arrive(j) \/ Handle(j)
  PROVE  ServiceStep
<1>1. CASE Arrive(j)
  <2>1. /\ pc[j] = "new" /\ pc'[j] = "handling" /\ process' = process /\ status' = status
        /\ \A x \in Jobs : x # j => pc'[x] = pc[x]
    BY <1>1 DEF Arrive, Goto, PoolTypeOK
  <2> QED
    BY <2>1, Unseen DEF PhaseOf, ServiceStep
<1>2. CASE Invalid(j) \/ AtCapacity(j)
  <2>1. /\ pc[j] = "handling" /\ pc'[j] = "refused" /\ process' = process /\ status' = status
        /\ \A x \in Jobs : x # j => pc'[x] = pc[x]
    BY <1>2 DEF Invalid, AtCapacity, Goto, PoolTypeOK
  <2>2. Service!Refuse(j)
    BY <2>1, Seen DEF PhaseOf, Service!Refuse
  <2> QED
    BY <2>2 DEF Service!Next, ServiceStep
<1>3. CASE WaitForSlot(j) \/ Accept(j)
  <2>1. /\ pc[j] = "handling" /\ pc'[j] \in {"waiting", "queued"} /\ process' = process
        /\ \A x \in Jobs : x # j => pc'[x] = pc[x] /\ status'[x] = status[x]
    BY <1>3 DEF WaitForSlot, Accept, Goto, SetStatus, PoolTypeOK
  <2>2. VerdictOf(status'[j]) = VerdictOf(status[j])
    <3>1. CASE WaitForSlot(j)
      BY <3>1 DEF WaitForSlot
    <3>2. CASE Accept(j)
      <4>1. pc[j] = "handling" /\ status'[j] = "queued"
        BY <3>2 DEF Accept, Goto, SetStatus, PoolTypeOK
      <4>2. status[j] \notin Settled
        BY <4>1 DEF PoolInv, JobInv, Ended
      <4> QED
        BY <4>1, <4>2 DEF VerdictOf, Settled
    <3> QED
      BY <1>3, <3>1, <3>2
  <2>3. Service!Admit(j)
    BY <2>1, <2>2, Seen DEF PhaseOf, Service!Admit
  <2> QED
    BY <2>3 DEF Service!Next, ServiceStep
<1> QED
  BY <1>1, <1>2, <1>3 DEF Handle

LEMMA DispatchSteps ==
  ASSUME PoolTypeOK, PoolInv, NEW p \in Pools, DispatchTake(p) \/ DispatchStart(p)
  PROVE  ServiceStep
<1>1. PICK h \in Jobs : Goto(h, "queued", "inHand") \/ Goto(h, "inHand", "launched")
  BY DEF DispatchTake, DispatchStart, PoolTypeOK, Jobs
<1>2. process' = process /\ status' = status
  BY DEF DispatchTake, DispatchStart
<1>3. /\ \A x \in Jobs : x # h => pc'[x] = pc[x]
      /\ pc[h] \in {"queued", "inHand"} /\ pc'[h] \in {"inHand", "launched"}
  BY <1>1 DEF Goto, PoolTypeOK
<1> QED
  BY <1>2, <1>3, Unseen DEF PhaseOf, ServiceStep

LEMMA RunSteps ==
  ASSUME PoolTypeOK, PoolInv, process # "down", NEW j \in Jobs, SyncStart(j) \/ Run(j)
  PROVE  ServiceStep
<1>0. JobInv(j)
  BY DEF PoolInv
<1>1. CASE SyncStart(j)
  <2>1. /\ pc[j] = "waiting" /\ pc'[j] = "launched" /\ process' = process
        /\ \A x \in Jobs : x # j => pc'[x] = pc[x] /\ status'[x] = status[x]
        /\ status'[j] = "queued"
    BY <1>1 DEF SyncStart, Goto, SetStatus, PoolTypeOK
  <2>2. status[j] \notin Settled
    BY <1>0, <2>1 DEF JobInv, Ended
  <2> QED
    BY <2>1, <2>2, Unseen DEF PhaseOf, VerdictOf, Settled, ServiceStep
<1>2. CASE Begin(j)
  <2>1. /\ pc[j] = "launched" /\ pc'[j] = "fetching" /\ process' = process
        /\ \A x \in Jobs : x # j => pc'[x] = pc[x] /\ status'[x] = status[x]
        /\ status'[j] = "running"
    BY <1>2 DEF Begin, Goto, SetStatus, PoolTypeOK
  <2>2. status[j] \notin Settled
    BY <1>0, <2>1 DEF JobInv, Ended
  <2> QED
    BY <2>1, <2>2, Unseen DEF PhaseOf, VerdictOf, Settled, ServiceStep
<1>3. CASE Fetched(j)
  <2>1. /\ pc[j] = "fetching" /\ pc'[j] = "rendering" /\ process' = process /\ status' = status
        /\ \A x \in Jobs : x # j => pc'[x] = pc[x]
    BY <1>3 DEF Fetched, Goto, PoolTypeOK
  <2>2. PhaseOf(pc[j]) = "accepted" /\ PhaseOf(pc'[j]) = "rendering"
    BY <2>1 DEF PhaseOf
  <2>3. Service!Move(j, {"accepted"}, "rendering") /\ verdict' = verdict
    BY <2>1, <2>2, Seen
  <2>4. Cardinality(Service!Rendering(poolOf[j])) < MaxWorkers
    BY <2>1, RoomToRender
  <2>5. Service!StartRender(j)
    BY <2>3, <2>4, SameCardinality DEF Service!StartRender
  <2> QED
    BY <2>5 DEF Service!Next, Service!Progress, ServiceStep
<1>4. CASE PrepareFail(j)
  <2>1. /\ pc[j] = "fetching" /\ pc'[j] = "returned" /\ process' = process
        /\ \A x \in Jobs : x # j => pc'[x] = pc[x] /\ status'[x] = status[x]
        /\ status'[j] = "failed"
    BY <1>4 DEF PrepareFail, Goto, SetStatus, PoolTypeOK
  <2>2. /\ Service!Move(j, {"accepted", "rendered"}, "settled")
        /\ verdict' = [verdict EXCEPT ![j] = VerdictOf(status'[j])]
    BY <2>1, Seen DEF PhaseOf
  <2>3. Service!Fail(j)
    BY <2>1, <2>2 DEF VerdictOf, Settled, Service!Fail
  <2> QED
    BY <2>3 DEF Service!Next, Service!Progress, ServiceStep
<1>5. CASE RenderEnd(j)
  <2>1. /\ pc[j] = "rendering" /\ pc'[j] = "rendered" /\ process' = process /\ status' = status
        /\ \A x \in Jobs : x # j => pc'[x] = pc[x]
    BY <1>5 DEF RenderEnd, Goto, PoolTypeOK
  <2>2. Service!EndRender(j)
    BY <2>1, Seen DEF PhaseOf, Service!EndRender
  <2> QED
    BY <2>2 DEF Service!Next, Service!Progress, ServiceStep
<1>6. CASE ReleaseSlot(j)
  <2>1. /\ pc[j] = "rendered" /\ pc'[j] = "checking" /\ process' = process /\ status' = status
        /\ \A x \in Jobs : x # j => pc'[x] = pc[x]
    BY <1>6 DEF ReleaseSlot, Goto, PoolTypeOK
  <2> QED
    BY <2>1, Unseen DEF PhaseOf, ServiceStep
<1>7. CASE CheckRender(j)
  <2>1. CASE RenderFailed(j)
    <3>1. /\ pc[j] = "checking" /\ pc'[j] = "returned" /\ process' = process
          /\ \A x \in Jobs : x # j => pc'[x] = pc[x] /\ status'[x] = status[x]
          /\ status'[j] = "failed"
      BY <1>7, <2>1 DEF CheckRender, Goto, SetStatus, PoolTypeOK
    <3>2. /\ Service!Move(j, {"accepted", "rendered"}, "settled")
          /\ verdict' = [verdict EXCEPT ![j] = VerdictOf(status'[j])]
      BY <3>1, Seen DEF PhaseOf
    <3>3. Service!Fail(j)
      BY <3>1, <3>2 DEF VerdictOf, Settled, Service!Fail
    <3> QED
      BY <3>3 DEF Service!Next, Service!Progress, ServiceStep
  <2>2. CASE ~RenderFailed(j)
    <3>1. /\ pc[j] = "checking" /\ pc'[j] = "uploading" /\ process' = process
          /\ status' = status /\ \A x \in Jobs : x # j => pc'[x] = pc[x]
      BY <1>7, <2>2 DEF CheckRender, Goto, PoolTypeOK
    <3> QED
      BY <3>1, Unseen DEF PhaseOf, ServiceStep
  <2> QED
    BY <2>1, <2>2
<1>8. CASE Upload(j)
  <2>1. /\ pc[j] = "uploading" /\ pc'[j] = "returned" /\ process' = process
        /\ \A x \in Jobs : x # j => pc'[x] = pc[x] /\ status'[x] = status[x]
        /\ status'[j] \in {"done", "failed"}
    BY <1>8 DEF Upload, Goto, SetStatus, PoolTypeOK
  <2>2. /\ Service!Move(j, {"rendered"}, "settled")
        /\ Service!Move(j, {"accepted", "rendered"}, "settled")
        /\ verdict' = [verdict EXCEPT ![j] = VerdictOf(status'[j])]
    BY <2>1, Seen DEF PhaseOf
  <2>3. Service!Done(j) \/ Service!Fail(j)
    BY <2>1, <2>2 DEF VerdictOf, Settled, Service!Done, Service!Fail
  <2> QED
    BY <2>3 DEF Service!Next, Service!Progress, ServiceStep
<1>9. CASE Notify(j) \/ Reply(j)
  <2>1. /\ pc[j] \in {"returned", "released"} /\ pc'[j] \in {"notified", "over"}
        /\ process' = process /\ status' = status
        /\ \A x \in Jobs : x # j => pc'[x] = pc[x]
    BY <1>9 DEF Notify, Reply, Goto, PoolTypeOK
  <2>2. Service!Tell(j)
    BY <2>1, Seen DEF PhaseOf, Service!Tell
  <2> QED
    BY <2>2 DEF Service!Next, Service!Progress, ServiceStep
<1>10. CASE DeferredRelease(j)
  <2>1. /\ \/ pc[j] = "notified" /\ pc'[j] = "over"
           \/ pc[j] = "returned" /\ pc'[j] = "released"
        /\ process' = process /\ status' = status
        /\ \A x \in Jobs : x # j => pc'[x] = pc[x]
    BY <1>10 DEF DeferredRelease, Goto, PoolTypeOK
  <2> QED
    BY <2>1, Unseen DEF PhaseOf, ServiceStep
<1> QED
  BY <1>1, <1>2, <1>3, <1>4, <1>5, <1>6, <1>7, <1>8, <1>9, <1>10 DEF Run

LEMMA ProcessSteps ==
  ASSUME Signal \/ DrainExit \/ TimeoutExit
  PROVE  ServiceStep
<1>1. phase' = phase /\ verdict' = verdict
  BY DEF Signal, DrainExit, TimeoutExit, ProcessUnchanged, phase, verdict
<1>2. CASE Signal
  BY <1>1, <1>2 DEF Signal, ServiceStep, Service!vars
<1>3. CASE DrainExit \/ TimeoutExit
  <2>1. Service!Stop
    BY <1>1, <1>3 DEF DrainExit, Drained, TimeoutExit, Service!Stop
  <2> QED
    BY <2>1 DEF Service!Next, ServiceStep
<1> QED
  BY <1>2, <1>3

\* The pools implement the safety of JobService: to its clients every step of the queue,
\* the dispatcher, the slots, a run or the shutdown is one that JobService allows, or
\* none (pipeline_media.go:128-282, main.go:132-142).
THEOREM ImplementsServiceSafety == Spec => Service!Init /\ [][Service!Next]_(Service!vars)
<1>1. Init => Service!Init
  BY DEF Init, Service!Init, phase, verdict, PhaseOf, VerdictOf, Settled
<1>2. PoolTypeOK /\ PoolInv /\ [Next]_vars => [Service!Next]_(Service!vars)
  <2> SUFFICES ASSUME PoolTypeOK, PoolInv, [Next]_vars PROVE ServiceStep
    BY DEF ServiceStep
  <2>1. CASE UNCHANGED vars
    <3>1. phase' = phase /\ verdict' = verdict /\ process' = process
      BY <2>1 DEF vars, phase, verdict
    <3> QED
      BY <3>1 DEF ServiceStep, Service!vars
  <2> QED
    BY <2>1, RequestSteps, DispatchSteps, RunSteps, ProcessSteps DEF Next
<1> QED
  BY <1>1, <1>2, PoolTypeCorrect, PoolInvariant, PTL DEF Spec
=============================================================================

------------------------------ MODULE Delivery ------------------------------
(***************************************************************************)
(* How the result of a job reaches a webhook (HTTPSender.Send,             *)
(* internal/infra/webhook/http_sender.go): up to three POSTs of one        *)
(* payload, over a network that may lose a request or its answer and on    *)
(* which a request may arrive after the sender has given it up.            *)
(*                                                                         *)
(* The module has no next-state relation of its own: Results extends it.   *)
(* The delays before the second and the third attempt are time that passes *)
(* in "waiting".                                                           *)
(***************************************************************************)
EXTENDS Integers, FiniteSets

CONSTANTS Jobs,
          MaxAttempts  \* the length of delays

VARIABLES sender,   \* where Send is for each job
          attempt,  \* the number of the attempt it is at
          wire,     \* the attempts whose requests are under way
          answer,   \* the answer to the current attempt
          received  \* history: what the client has made of the job's requests

deliveryVars == <<sender, attempt, wire, answer, received>>

Attempts == 1 .. MaxAttempts

DeliveryTypeOK ==
    /\ sender \in [Jobs -> {"idle", "waiting", "posting", "delivered", "gaveup", "lost"}]
    /\ attempt \in [Jobs -> 0 .. MaxAttempts]
    /\ wire \in [Jobs -> SUBSET Attempts]
    /\ answer \in [Jobs -> {"none", "accepted", "refused"}]
    /\ received \in [Jobs -> {"nothing", "refused", "accepted"}]

DeliveryInit ==
    /\ sender = [j \in Jobs |-> "idle"]
    /\ attempt = [j \in Jobs |-> 0]
    /\ wire = [j \in Jobs |-> {}]
    /\ answer = [j \in Jobs |-> "none"]
    /\ received = [j \in Jobs |-> "nothing"]

SenderGoto(j, from, to) == sender[j] = from /\ sender' = [sender EXCEPT ![j] = to]
-----------------------------------------------------------------------------
Send(j) ==
    /\ SenderGoto(j, "idle", "waiting")
    /\ attempt' = [attempt EXCEPT ![j] = 1]
    /\ UNCHANGED <<wire, answer, received>>

\* client.Post, after the delay.
Post(j) ==
    /\ SenderGoto(j, "waiting", "posting")
    /\ wire' = [wire EXCEPT ![j] = @ \cup {attempt[j]}]
    /\ answer' = [answer EXCEPT ![j] = "none"]
    /\ UNCHANGED <<attempt, received>>

\* A faulty form: any answer will do.
PostOkUnchecked(j) ==
    /\ answer[j] # "none"
    /\ SenderGoto(j, "posting", "delivered")
    /\ UNCHANGED <<attempt, wire, answer, received>>

\* The answer has a status below 400.
PostOk(j) ==
    /\ answer[j] = "accepted"
    /\ SenderGoto(j, "posting", "delivered")
    /\ UNCHANGED <<attempt, wire, answer, received>>

\* A faulty form: a status of 400 or more is not counted as an attempt.
PostFailUncounted(j) ==
    /\ IF attempt[j] < MaxAttempts \/ answer[j] = "refused"
       THEN /\ SenderGoto(j, "posting", "waiting")
            /\ attempt' = IF answer[j] = "refused" THEN attempt ELSE [attempt EXCEPT ![j] = @ + 1]
       ELSE SenderGoto(j, "posting", "gaveup") /\ attempt' = attempt
    /\ UNCHANGED <<wire, answer, received>>

\* A status of 400 or more, no connection, a lost answer, or none within 10 seconds;
\* the next attempt, if there is one.
PostFail(j) ==
    /\ IF attempt[j] < MaxAttempts
       THEN SenderGoto(j, "posting", "waiting") /\ attempt' = [attempt EXCEPT ![j] = @ + 1]
       ELSE SenderGoto(j, "posting", "gaveup") /\ attempt' = attempt
    /\ UNCHANGED <<wire, answer, received>>
-----------------------------------------------------------------------------
(* The network and the client. *)

\* The client takes a request, at any time; its answer is heard only if the sender still
\* waits for this one.
Take(j, k) ==
    /\ k \in wire[j]
    /\ wire' = [wire EXCEPT ![j] = @ \ {k}]
    /\ \E verdict \in {"refused", "accepted"} :
          /\ received' = [received EXCEPT ![j] = IF @ = "accepted" THEN @ ELSE verdict]
          /\ answer' = IF sender[j] = "posting" /\ k = attempt[j]
                       THEN [answer EXCEPT ![j] = verdict] ELSE answer
    /\ UNCHANGED <<sender, attempt>>

Lose(j, k) ==
    /\ k \in wire[j]
    /\ wire' = [wire EXCEPT ![j] = @ \ {k}]
    /\ UNCHANGED <<sender, attempt, answer, received>>
=============================================================================

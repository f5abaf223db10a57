-------------------------------- MODULE EventPoll ------------------------------
(***************************************************************************)
(* src/streaming.ts, StreamingClient.subscribeEvents: one tenzro_subscribe *)
(* request, then a background loop that polls, calls onEvent for every     *)
(* event of the answer and sleeps a second.  Anything that throws inside   *)
(* the loop, the request or the callback, ends it without a word.          *)
(*                                                                         *)
(* A poll names nothing but the subscription - no cursor and no            *)
(* acknowledgement - so the node hands each event out once.                *)
(***************************************************************************)
EXTENDS Naturals, Sequences

CONSTANT MaxEvents   \* bound: events of one run

ASSUME EventsAssumption == MaxEvents \in Nat

VARIABLES
  pc,          \* where subscribeEvents and then its background loop stand
  batch,       \* events of the last answer not yet handed to onEvent
  delivered,   \* events onEvent was called with
  subscribed,  \* the node knows the subscription
  queue,       \* events the node keeps for the next poll
  happened,    \* events since the subscription, numbered from 1
  answer       \* the node's answer to the pending poll: none, or the events

loop == <<pc, batch, delivered>>
node == <<subscribed, queue, happened, answer>>
vars == <<loop, node>>

Running == {"poll", "deliver", "sleep"}
Pcs == Running \cup {"subscribe", "refused", "ended"}

NoAnswer == [given |-> FALSE, events |-> <<>>]

Init ==
  /\ pc = "subscribe"
  /\ batch = <<>>
  /\ delivered = <<>>
  /\ subscribed = FALSE
  /\ queue = <<>>
  /\ happened = 0
  /\ answer = NoAnswer
-----------------------------------------------------------------------------
\* await rpc.call("tenzro_subscribe"): the handle is returned and poll() begun.
SubscribeResolves ==
  /\ pc = "subscribe" /\ subscribed
  /\ pc' = "poll"
  /\ UNCHANGED <<batch, delivered, node>>

\* subscribeEvents rejects, whether or not the node has subscribed the caller.
SubscribeFails ==
  /\ pc = "subscribe"
  /\ pc' = "refused"
  /\ UNCHANGED <<batch, delivered, node>>

PollResolves ==
  /\ pc = "poll" /\ answer.given
  /\ pc' = "deliver"
  /\ batch' = answer.events
  /\ answer' = NoAnswer
  /\ UNCHANGED <<delivered, subscribed, queue, happened>>

PollFailsAndPollsAgain ==
  /\ pc = "poll"
  /\ pc' = "sleep"
  /\ answer' = NoAnswer
  /\ UNCHANGED <<batch, delivered, subscribed, queue, happened>>

PollFailsOnlyIfAnswered ==
  /\ pc = "poll" /\ answer.given
  /\ pc' = "ended"
  /\ answer' = NoAnswer
  /\ UNCHANGED <<batch, delivered, subscribed, queue, happened>>

\* Timeout, connection or HTTP error, or the node's error: catch ends the loop,
\* and an answer on its way is lost with the events it carried.
PollFails ==
  /\ pc = "poll"
  /\ pc' = "ended"
  /\ answer' = NoAnswer
  /\ UNCHANGED <<batch, delivered, subscribed, queue, happened>>

DeliverWithoutAdvancing ==
  /\ pc = "deliver" /\ batch # <<>>
  /\ delivered' = Append(delivered, Head(batch))
  /\ pc' \in {"deliver", "ended"}
  /\ UNCHANGED <<batch, node>>

\* onEvent(event) returns, or throws into the catch of the loop.
Deliver ==
  /\ pc = "deliver" /\ batch # <<>>
  /\ delivered' = Append(delivered, Head(batch))
  /\ batch' = Tail(batch)
  /\ pc' \in {"deliver", "ended"}
  /\ UNCHANGED node

Sleep ==
  /\ pc = "deliver" /\ batch = <<>>
  /\ pc' = "sleep"
  /\ UNCHANGED <<batch, delivered, node>>

Wake ==
  /\ pc = "sleep"
  /\ pc' = "poll"
  /\ UNCHANGED <<batch, delivered, node>>
-----------------------------------------------------------------------------
(***************************************************************************)
(* The node: not in src/.                                                  *)
(***************************************************************************)
NodeSubscribes ==
  /\ pc = "subscribe" /\ ~subscribed
  /\ subscribed' = TRUE
  /\ UNCHANGED <<loop, queue, happened, answer>>

NodeAnswersPoll ==
  /\ pc = "poll" /\ subscribed /\ ~answer.given
  /\ answer' = [given |-> TRUE, events |-> queue]
  /\ queue' = <<>>
  /\ UNCHANGED <<loop, subscribed, happened>>

EventHappens ==
  /\ subscribed /\ happened < MaxEvents
  /\ happened' = happened + 1
  /\ queue' = Append(queue, happened + 1)
  /\ UNCHANGED <<loop, subscribed, answer>>

\* The node drops the subscription; a poll of it is answered with an error.
NodeUnsubscribes ==
  /\ subscribed /\ pc # "subscribe"
  /\ subscribed' = FALSE
  /\ queue' = <<>>
  /\ UNCHANGED <<loop, happened, answer>>
-----------------------------------------------------------------------------
Loop ==
  \/ SubscribeResolves \/ SubscribeFails
  \/ PollResolves \/ PollFails \/ Deliver \/ Sleep \/ Wake

Node == NodeSubscribes \/ NodeAnswersPoll \/ EventHappens \/ NodeUnsubscribes

Terminated == pc \in {"refused", "ended"} /\ ~subscribed /\ UNCHANGED vars

Next == Loop \/ Node \/ Terminated

Spec == Init /\ [][Next]_vars

\* A request settles within its timeout (EveryFetchSettles of RpcClient), the
\* loop's code runs and its sleep ends.  Nothing is assumed of the node.
FairSpec ==
  /\ Spec
  /\ WF_vars(SubscribeResolves \/ SubscribeFails)
  /\ WF_vars(PollResolves \/ PollFails)
  /\ WF_vars(Deliver) /\ WF_vars(Sleep) /\ WF_vars(Wake)
-----------------------------------------------------------------------------
(***************************************************************************)
(* Properties                                                              *)
(***************************************************************************)

\* Types; and no event is in two places, or in one of them twice.
TypeOK ==
  /\ pc \in Pcs
  /\ batch \in Seq(1..MaxEvents)
  /\ delivered \in Seq(1..MaxEvents)
  /\ subscribed \in BOOLEAN
  /\ queue \in Seq(1..MaxEvents)
  /\ happened \in 0..MaxEvents
  /\ answer \in [given : BOOLEAN, events : Seq(1..MaxEvents)]
  /\ Len(delivered) + Len(batch) + Len(answer.events) + Len(queue) <= happened

\* What the callback has seen is every event from the first one on, in order,
\* without a gap or a repetition - although an answer can be lost on its way
\* after the node forgot the events in it.
NoGapNoRepeat == \A j \in DOMAIN delivered : delivered[j] = j

\* Unless the loop ends, every event reaches the callback: the loop never lives
\* on without polling, even if the node stops answering.
LiveLoopDelivers ==
  \A n \in 1..MaxEvents :
    happened = n ~> pc \in {"refused", "ended"} \/ Len(delivered) >= n
=============================================================================

------------------------------ MODULE MCStreaming -----------------------------
(***************************************************************************)
(* The three consumers of src/streaming.ts, one of them at a time: they    *)
(* share no state, so a run in which several are open is an interleaving   *)
(* of runs of one.  EventPoll is extended; the two readers of an event     *)
(* stream are instances that share the response and the decoding.          *)
(***************************************************************************)
EXTENDS EventPoll, SseDecode

VARIABLES
  consumer,                                    \* events, chat or sse
  body, server, sent, at, read, chunk, cut,    \* of either reader
  yielded,                                     \* of ChatStream
  aborted, messages, readAtAbort               \* of SseConnection

Chat == INSTANCE ChatStream WITH pc <- at
Sse == INSTANCE SseConnection WITH pc <- at, delivered <- messages

ShortBodies ==
  UNION {[1..n -> LineKinds] : n \in 0..3} \cup {<<"data", "other", "data", "done">>}

reader == <<body, server, sent, at, read, chunk, cut>>
all == <<consumer, vars, reader, yielded, aborted, messages, readAtAbort>>

StreamInit ==
  /\ consumer \in {"events", "chat", "sse"}
  /\ Init /\ Chat!Init /\ Sse!Init
  /\ consumer = "events" => body = <<>>

EventsStep ==
  /\ consumer = "events" /\ Next
  /\ UNCHANGED <<consumer, reader, yielded, aborted, messages, readAtAbort>>

ChatStep ==
  /\ consumer = "chat" /\ Chat!Next
  /\ UNCHANGED <<consumer, vars, aborted, messages, readAtAbort>>

SseStep ==
  /\ consumer = "sse" /\ Sse!Next
  /\ UNCHANGED <<consumer, vars, yielded>>

StreamNext == EventsStep \/ ChatStep \/ SseStep

\* The fairness of EventPoll and SseConnection, each for its own consumer.
StreamSpec ==
  /\ StreamInit /\ [][StreamNext]_all
  /\ WF_all(consumer = "events" /\ (SubscribeResolves \/ SubscribeFails) /\ EventsStep)
  /\ WF_all(consumer = "events" /\ (PollResolves \/ PollFails) /\ EventsStep)
  /\ WF_all(consumer = "events" /\ (Deliver \/ Sleep \/ Wake) /\ EventsStep)
  /\ WF_all(aborted /\ (Sse!FetchResolves \/ Sse!FetchFails \/ Sse!ReadFails) /\ SseStep)
  /\ WF_all(Sse!ReadContinues /\ SseStep)
  /\ WF_all((Sse!SkipLine \/ Sse!Deliver \/ Sse!ChunkDone) /\ SseStep)

\* Types of the three consumers.
StreamTypeOK ==
  /\ TypeOK
  /\ consumer = "chat" => Chat!TypeOK
  /\ consumer = "sse" => Sse!TypeOK

\* ChatStream: cutting is the only way to lose a token that was received while
\* the answer went on and the consumer listened.
OnlyCutLinesLost == consumer = "chat" => Chat!OnlyCutLinesLost

\* Both readers: what comes out is in the order of the stream, none of it twice.
LinesInOrder == Chat!TokensInOrder /\ Sse!MessagesInOrder

\* ChatStream: a generator that ends by itself has seen the end.
NormalEndIsServersEnd == consumer = "chat" => Chat!NormalEndIsServersEnd

\* ChatStream: no token of an answer sent in full is lost.
CompleteOutput == consumer = "chat" => Chat!CompleteOutput

\* SseConnection: after abort() at most the rest of the chunk under way, or the
\* chunk of a read that was fulfilled.
NothingReadAfterAbort == Sse!NothingReadAfterAbort

\* SseConnection: an aborted connection stops its reader.
AbortEnds == Sse!AbortEnds
=============================================================================

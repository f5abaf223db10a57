---------------------------- MODULE Streaming_proofs ---------------------------
(***************************************************************************)
(* The three consumers of src/streaming.ts, for any number of events and   *)
(* bodies of any length, whatever is cut, lost, broken or aborted.         *)
(*                                                                         *)
(* The event poll.  Line says where each event is while the loop lives:    *)
(* those delivered, the rest of the batch, the answer under way and the    *)
(* node's queue follow one another and end with the latest event.  A lost  *)
(* answer breaks the line - and ends the loop in the same step.            *)
(*                                                                         *)
(* The readers.  What was handed out, then the rest of the chunk, then     *)
(* what has not been read are three stretches of the body in this order    *)
(* (InOrder, Reading); a line that straddles the first two boundaries is   *)
(* in cut since the chunk that ended in it.  An aborted connection reads   *)
(* no more, so what it hands out was read before (Stopped).                *)
(***************************************************************************)
EXTENDS MCStreaming, SequenceTheorems, WellFoundedInduction, TLAPS

(***************************************************************************)
(* The event poll                                                          *)
(***************************************************************************)
Alive == Running \cup {"subscribe"}

\* s holds the events that follow the first n.
Follows(s, n) == \A j \in 1..Len(s) : s[j] = n + j

\* How many events the answer under way carries.
Carried == Len(answer.events)

\* How many events precede the batch's, the answer's and the queue's.
BeforeBatch == Len(delivered)
BeforeAnswer == BeforeBatch + Len(batch)
BeforeQueue == BeforeAnswer + Carried

Line ==
  /\ Follows(delivered, 0)
  /\ pc \in Alive =>
       /\ Follows(batch, BeforeBatch)
       /\ Follows(answer.events, BeforeAnswer)
       /\ subscribed =>
            /\ Follows(queue, BeforeQueue)
            /\ happened = BeforeQueue + Len(queue)

Stages ==
  /\ ~answer.given => answer.events = <<>>
  /\ pc # "poll" => answer = NoAnswer
  /\ pc \in {"subscribe", "poll", "sleep"} => batch = <<>>
  /\ pc = "subscribe" => delivered = <<>>
  /\ pc = "subscribe" /\ ~subscribed => queue = <<>> /\ happened = 0

IInv == TypeOK /\ Line /\ Stages
-----------------------------------------------------------------------------
\* What TypeOK says of the lengths alone.
LEMMA Lengths ==
  ASSUME TypeOK
  PROVE  /\ Len(delivered) \in Nat /\ Len(batch) \in Nat /\ Carried \in Nat
         /\ Len(queue) \in Nat /\ happened \in Nat
         /\ Len(delivered) + Len(batch) + Carried + Len(queue) <= happened
  BY EventsAssumption DEF TypeOK, Carried

LEMMA InitEstablishes == Init => IInv
<1> SUFFICES ASSUME Init PROVE IInv
  OBVIOUS
<1>1. /\ pc = "subscribe" /\ batch = <<>> /\ delivered = <<>> /\ queue = <<>>
      /\ happened = 0 /\ answer = NoAnswer /\ answer.events = <<>>
  BY DEF Init, NoAnswer
<1>2. ~subscribed /\ subscribed \in BOOLEAN
  BY DEF Init
<1>3. <<>> \in Seq(1..MaxEvents) /\ Len(<<>>) = 0
  BY EmptySeq
<1>4. TypeOK
  <2>1. answer \in [given : BOOLEAN, events : Seq(1..MaxEvents)]
    BY <1>1, <1>3 DEF NoAnswer
  <2>2. Carried = 0 /\ Len(delivered) + Len(batch) + Carried + Len(queue) <= happened
    BY <1>1, <1>3 DEF Carried
  <2>3. pc \in Pcs /\ happened \in 0..MaxEvents
    BY <1>1, EventsAssumption DEF Pcs
  <2> QED BY <1>1, <1>2, <1>3, <2>1, <2>2, <2>3 DEF TypeOK, Carried
<1>5. Line
  BY <1>1, <1>2, <1>3 DEF Line, Follows
<1> QED BY <1>1, <1>2, <1>4, <1>5 DEF IInv, Stages, NoAnswer

\* Steps of the loop that move no event.
LEMMA QuietKeeps ==
  ASSUME IInv, SubscribeResolves \/ SubscribeFails \/ Sleep \/ Wake
  PROVE  IInv'
<1>1. /\ batch' = batch /\ delivered' = delivered /\ subscribed' = subscribed
      /\ queue' = queue /\ happened' = happened /\ answer' = answer
      /\ pc' \in Pcs /\ (pc' \in Alive => pc \in Alive) /\ pc' # "subscribe"
      /\ answer = NoAnswer
      /\ pc' \in {"subscribe", "poll", "sleep"} => batch = <<>>
  BY DEF IInv, Stages, SubscribeResolves, SubscribeFails, Sleep, Wake, node, Pcs, Alive, Running
<1> QED
  BY <1>1 DEF IInv, TypeOK, Line, Stages, Follows, BeforeBatch, BeforeAnswer, BeforeQueue, Carried

\* The answer becomes the batch.
LEMMA PollResolvesKeeps ==
  ASSUME IInv, PollResolves
  PROVE  IInv'
<1>1. /\ pc = "poll" /\ pc' = "deliver" /\ batch = <<>> /\ batch' = answer.events
      /\ answer' = NoAnswer /\ delivered' = delivered /\ subscribed' = subscribed
      /\ queue' = queue /\ happened' = happened
  BY DEF IInv, Stages, PollResolves
<1>2. /\ TypeOK /\ Line /\ pc \in Alive /\ answer'.events = <<>>
      /\ answer.events \in Seq(1..MaxEvents) /\ delivered \in Seq(1..MaxEvents)
  BY <1>1 DEF IInv, TypeOK, Alive, Running, NoAnswer
<1>3. Len(batch) = 0 /\ Carried' = 0 /\ Len(batch') = Carried
  BY <1>1, <1>2 DEF Carried
<1>4. TypeOK'
  BY <1>1, <1>2, <1>3 DEF TypeOK, Pcs, Running, NoAnswer
<1>5. Line'
  BY <1>1, <1>2, <1>3 DEF Line, Follows, BeforeBatch, BeforeAnswer, BeforeQueue
<1> QED BY <1>1, <1>4, <1>5 DEF IInv, Stages, NoAnswer

\* A failed poll loses the answer and the loop with it.
LEMMA PollFailsKeeps ==
  ASSUME IInv, PollFails
  PROVE  IInv'
<1>1. /\ pc = "poll" /\ pc' = "ended" /\ batch' = batch /\ answer' = NoAnswer
      /\ delivered' = delivered /\ subscribed' = subscribed /\ queue' = queue
      /\ happened' = happened
  BY DEF PollFails
<1>2. TypeOK'
  BY <1>1 DEF IInv, TypeOK, Pcs, Running, NoAnswer
<1>3. Line'
  BY <1>1 DEF IInv, Line, Alive, Running, Follows
<1> QED BY <1>1, <1>2, <1>3 DEF IInv, Stages, NoAnswer

\* The head of the batch is the event after those delivered.
LEMMA DeliverKeeps ==
  ASSUME IInv, Deliver
  PROVE  IInv'
<1>1. /\ pc = "deliver" /\ batch # <<>> /\ pc' \in {"deliver", "ended"}
      /\ delivered' = Append(delivered, Head(batch)) /\ batch' = Tail(batch)
      /\ subscribed' = subscribed /\ queue' = queue /\ happened' = happened /\ answer' = answer
  BY DEF Deliver, node
<1>2. /\ batch \in Seq(1..MaxEvents) /\ delivered \in Seq(1..MaxEvents)
      /\ answer.events \in Seq(1..MaxEvents) /\ queue \in Seq(1..MaxEvents)
      /\ TypeOK /\ Line /\ Stages /\ pc \in Alive
  BY <1>1 DEF IInv, TypeOK, Alive, Running
<1>3. /\ Len(batch') = Len(batch) - 1 /\ Len(batch) \in Nat \ {0}
      /\ Head(batch) \in 1..MaxEvents /\ Head(batch) = batch[1]
      /\ \A j \in 1..Len(batch') : batch'[j] = batch[j + 1]
      /\ batch' \in Seq(1..MaxEvents)
  <2>1. batch \in Seq(1..MaxEvents) /\ batch # <<>> /\ batch' = Tail(batch)
    BY <1>1, <1>2
  <2>2. Head(batch) = batch[1]
    BY <2>1
  <2>3. Len(batch) \in Nat \ {0}
    BY <2>1, EmptySeq
  <2> QED BY <2>1, <2>2, <2>3, HeadTailProperties
<1>4. /\ Len(delivered') = Len(delivered) + 1 /\ Len(delivered) \in Nat
      /\ \A j \in 1..Len(delivered) : delivered'[j] = delivered[j]
      /\ delivered'[Len(delivered) + 1] = Head(batch)
      /\ delivered' \in Seq(1..MaxEvents)
  <2>1. delivered \in Seq(1..MaxEvents) /\ Head(batch) \in 1..MaxEvents
    BY <1>2, <1>3
  <2>2. delivered' = Append(delivered, Head(batch))
    BY <1>1
  <2> QED BY <2>1, <2>2, AppendProperties, LenProperties
<1>5. /\ Len(delivered') = Len(delivered) + 1 /\ Len(batch') = Len(batch) - 1
       /\ Carried' = Carried /\ queue' = queue /\ happened' = happened
  BY <1>1, <1>3, <1>4 DEF Carried
<1>6. /\ Len(delivered) \in Nat /\ Len(batch) \in Nat /\ Carried \in Nat
       /\ Len(queue) \in Nat /\ happened \in Nat
       /\ Len(delivered) + Len(batch) + Carried + Len(queue) <= happened
  BY <1>2, Lengths
<1>7. TypeOK'
  <2>1. Len(delivered') + Len(batch') + Carried' + Len(queue') <= happened'
    BY <1>5, <1>6
  <2>2. pc' \in Pcs
    BY <1>1 DEF Pcs, Running
  <2> QED BY <1>1, <1>2, <1>3, <1>4, <2>1, <2>2 DEF TypeOK, Carried
<1>8. Follows(delivered', 0)
  <2>1. Follows(delivered, 0) /\ Head(batch) = Len(delivered) + 1
    BY <1>2, <1>3 DEF Line, Follows, BeforeBatch
  <2> SUFFICES ASSUME NEW j \in 1..Len(delivered') PROVE delivered'[j] = 0 + j
    BY DEF Follows
  <2>2. CASE j \in 1..Len(delivered)
    BY <1>4, <2>1, <2>2 DEF Follows
  <2>3. CASE j = Len(delivered) + 1
    BY <1>4, <2>1, <2>3
  <2> QED BY <1>4, <2>2, <2>3
<1>9. Follows(batch', BeforeBatch')
  <2> SUFFICES ASSUME NEW j \in 1..Len(batch') PROVE batch'[j] = Len(delivered') + j
    BY DEF Follows, BeforeBatch
  <2>1. j + 1 \in 1..Len(batch) /\ batch'[j] = batch[j + 1]
    BY <1>3, <1>5, <1>6
  <2>2. batch[j + 1] = Len(delivered) + (j + 1)
    BY <1>2, <2>1 DEF Line, Follows, BeforeBatch
  <2> QED BY <1>5, <1>6, <2>1, <2>2
<1>10. BeforeAnswer' = BeforeAnswer /\ BeforeQueue' = BeforeQueue
  BY <1>5, <1>6 DEF BeforeBatch, BeforeAnswer, BeforeQueue
<1>11. Line'
  <2>1. Follows(answer'.events, BeforeAnswer') <=> Follows(answer.events, BeforeAnswer)
    BY <1>1, <1>10
  <2>2. Follows(queue', BeforeQueue') <=> Follows(queue, BeforeQueue)
    BY <1>1, <1>10
  <2>3. happened' = BeforeQueue' + Len(queue') <=> happened = BeforeQueue + Len(queue)
    BY <1>1, <1>10
  <2> QED BY <1>1, <1>2, <1>8, <1>9, <2>1, <2>2, <2>3 DEF Line
<1> QED BY <1>1, <1>2, <1>7, <1>11 DEF IInv, Stages

\* The node subscribes the caller before any event, or forgets it for good.
LEMMA SubscriptionKeeps ==
  ASSUME IInv, NodeSubscribes \/ NodeUnsubscribes
  PROVE  IInv'
<1>1. TypeOK /\ Line /\ Stages
  BY DEF IInv
<1>2. CASE NodeUnsubscribes
  <2>1. /\ pc' = pc /\ batch' = batch /\ delivered' = delivered
        /\ queue' = <<>> /\ happened' = happened /\ answer' = answer
    BY <1>2 DEF NodeUnsubscribes, loop
  <2>2. ~subscribed' /\ subscribed' \in BOOLEAN /\ pc # "subscribe"
    BY <1>2 DEF NodeUnsubscribes
  <2>3. <<>> \in Seq(1..MaxEvents) /\ Len(<<>>) = 0
    BY EmptySeq
  <2>4. Carried' = Carried
    BY <2>1 DEF Carried
  <2>5. Len(delivered') + Len(batch') + Carried' + Len(queue') <= happened'
    BY <1>1, <2>1, <2>3, <2>4, Lengths
  <2>6. TypeOK'
    BY <1>1, <2>1, <2>2, <2>3, <2>5 DEF TypeOK, Carried
  <2>7. Line'
    BY <1>1, <2>1, <2>2 DEF Line, Follows, BeforeBatch, BeforeAnswer
  <2> QED BY <1>1, <2>1, <2>2, <2>6, <2>7 DEF IInv, Stages
<1>3. CASE NodeSubscribes
  <2>1. /\ pc = "subscribe" /\ pc' = pc /\ batch' = batch /\ delivered' = delivered
        /\ ~subscribed /\ subscribed' = TRUE
        /\ queue' = queue /\ happened' = happened /\ answer' = answer
    BY <1>3 DEF NodeSubscribes, loop
  <2>2. TypeOK'
    BY <1>1, <2>1 DEF TypeOK
  <2>3. Len(queue) = 0 /\ Len(batch) = 0 /\ Len(delivered) = 0 /\ Carried = 0
        /\ happened = 0
    BY <1>1, <2>1 DEF Stages, NoAnswer, Carried
  <2>4. Carried' = Carried
    BY <2>1 DEF Carried
  <2>5. Line'
    BY <1>1, <2>1, <2>3, <2>4 DEF Line, Follows, BeforeBatch, BeforeAnswer, BeforeQueue
  <2> QED BY <1>1, <2>1, <2>2, <2>5 DEF IInv, Stages
<1> QED BY <1>2, <1>3

\* The node puts its queue into an answer.
LEMMA NodeAnswersKeeps ==
  ASSUME IInv, NodeAnswersPoll
  PROVE  IInv'
<1>1. /\ pc = "poll" /\ subscribed /\ ~answer.given /\ answer.events = <<>>
      /\ answer' = [given |-> TRUE, events |-> queue] /\ queue' = <<>>
      /\ pc' = pc /\ batch' = batch /\ delivered' = delivered
      /\ subscribed' = subscribed /\ happened' = happened
  BY DEF NodeAnswersPoll, IInv, Stages, loop
<1>2. TypeOK /\ Line /\ Stages /\ pc \in Alive /\ queue \in Seq(1..MaxEvents)
  BY <1>1 DEF IInv, TypeOK, Alive, Running
<1>3. /\ answer'.events = queue /\ answer'.given /\ Carried = 0 /\ Len(queue') = 0
      /\ queue' \in Seq(1..MaxEvents) /\ Carried' = Len(queue)
  BY <1>1, EmptySeq DEF Carried
<1>4. /\ Len(delivered) \in Nat /\ Len(batch) \in Nat /\ Len(queue) \in Nat
      /\ Len(delivered) + Len(batch) + Carried + Len(queue) <= happened
      /\ happened \in Nat
  BY <1>2, Lengths
<1>5. Len(delivered') + Len(batch') + Carried' + Len(queue') <= happened'
  BY <1>1, <1>3, <1>4
<1>6. TypeOK'
  BY <1>1, <1>2, <1>3, <1>5 DEF TypeOK, Carried
<1>7. /\ BeforeBatch' = BeforeBatch /\ BeforeAnswer' = BeforeAnswer
      /\ BeforeAnswer = BeforeQueue /\ BeforeQueue' = BeforeQueue + Len(queue)
  BY <1>1, <1>3, <1>4 DEF BeforeBatch, BeforeAnswer, BeforeQueue
<1>8. Line'
  BY <1>1, <1>2, <1>3, <1>4, <1>7 DEF Line, Follows, BeforeBatch
<1> QED BY <1>1, <1>2, <1>3, <1>6, <1>8 DEF IInv, Stages

\* A new event joins the end of the line.
LEMMA EventKeeps ==
  ASSUME IInv, EventHappens
  PROVE  IInv'
<1>1. /\ happened < MaxEvents /\ happened' = happened + 1
      /\ queue' = Append(queue, happened + 1) /\ pc' = pc /\ batch' = batch
      /\ delivered' = delivered /\ answer' = answer
  BY DEF EventHappens, loop
<1>2. TypeOK /\ Line /\ Stages /\ subscribed /\ subscribed' /\ subscribed' \in BOOLEAN
  BY DEF IInv, TypeOK, EventHappens
<1>3. /\ Len(delivered) \in Nat /\ Len(batch) \in Nat /\ Carried \in Nat
      /\ Len(queue) \in Nat /\ happened \in Nat
      /\ Len(delivered) + Len(batch) + Carried + Len(queue) <= happened
  BY <1>2, Lengths
<1>4. happened + 1 \in 1..MaxEvents /\ happened' \in 0..MaxEvents
  BY <1>1, <1>3, EventsAssumption
<1>5. queue \in Seq(1..MaxEvents)
  BY <1>2 DEF TypeOK
<1>6. /\ queue' \in Seq(1..MaxEvents) /\ Len(queue') = Len(queue) + 1
      /\ \A j \in 1..Len(queue) : queue'[j] = queue[j]
      /\ queue'[Len(queue) + 1] = happened + 1
  BY <1>1, <1>4, <1>5, AppendProperties
<1>7. Len(queue') = Len(queue) + 1
  BY <1>6
<1>8. Carried' = Carried
  BY <1>1 DEF Carried
<1>9. Len(delivered') + Len(batch') + Carried' + Len(queue') <= happened'
  BY <1>1, <1>3, <1>7, <1>8
<1>10. TypeOK'
  BY <1>1, <1>2, <1>4, <1>6, <1>9 DEF TypeOK, Carried
<1>11. /\ BeforeBatch' = BeforeBatch /\ BeforeAnswer' = BeforeAnswer /\ BeforeQueue' = BeforeQueue
      /\ BeforeQueue \in Nat
  BY <1>1, <1>3, <1>8 DEF BeforeBatch, BeforeAnswer, BeforeQueue
<1>12. ASSUME pc \in Alive PROVE Follows(queue', BeforeQueue') /\ happened' = BeforeQueue' + Len(queue')
  <2>1. Follows(queue, BeforeQueue) /\ happened = BeforeQueue + Len(queue)
    BY <1>2, <1>12 DEF Line
  <2>2. happened' = BeforeQueue' + Len(queue')
    BY <1>1, <1>3, <1>11, <1>7, <2>1
  <2>3. ASSUME NEW j \in 1..Len(queue') PROVE queue'[j] = BeforeQueue + j
    <3>1. CASE j \in 1..Len(queue)
      BY <1>6, <2>1, <3>1 DEF Follows
    <3>2. CASE j = Len(queue) + 1
      BY <1>3, <1>6, <1>11, <2>1, <3>2
    <3> QED BY <1>3, <1>6, <3>1, <3>2
  <2> QED BY <1>11, <2>2, <2>3 DEF Follows
<1>13. Line'
  <2>1. Follows(batch', BeforeBatch') <=> Follows(batch, BeforeBatch)
    BY <1>1, <1>11
  <2>2. Follows(answer'.events, BeforeAnswer') <=> Follows(answer.events, BeforeAnswer)
    BY <1>1, <1>11
  <2> QED BY <1>1, <1>2, <1>12, <2>1, <2>2 DEF Line
<1> QED BY <1>1, <1>2, <1>10, <1>13 DEF IInv, Stages

LEMMA NextKeeps == IInv /\ [Next]_vars => IInv'
<1> SUFFICES ASSUME IInv, [Next]_vars PROVE IInv'
  OBVIOUS
<1>1. CASE Loop
  BY <1>1, QuietKeeps, PollResolvesKeeps, PollFailsKeeps, DeliverKeeps DEF Loop
<1>2. CASE Node
  BY <1>2, SubscriptionKeeps, NodeAnswersKeeps, EventKeeps DEF Node
<1>3. CASE UNCHANGED vars
  BY <1>3 DEF IInv, TypeOK, Line, Stages, Follows, BeforeBatch, BeforeAnswer, BeforeQueue,
              Carried, vars, loop, node
<1>4. CASE Terminated
  BY <1>3, <1>4 DEF Terminated
<1> QED BY <1>1, <1>2, <1>3, <1>4 DEF Next
-----------------------------------------------------------------------------
\* Every reachable state satisfies the strengthened invariant.
THEOREM InductiveInvariant == Spec => []IInv
  BY InitEstablishes, NextKeeps, PTL DEF Spec

\* Types, and no event in two places at once, for any number of events.
THEOREM TypeCorrect == Spec => []TypeOK
<1>1. IInv => TypeOK
  BY DEF IInv
<1> QED BY <1>1, InductiveInvariant, PTL

\* Whatever answers are lost and wherever the loop is stopped, onEvent has seen
\* the events 1, 2, 3 and so on, each once and in this order.
THEOREM NoEventSkipped == Spec => []NoGapNoRepeat
<1>1. IInv => NoGapNoRepeat
  <2> SUFFICES ASSUME IInv, NEW j \in DOMAIN delivered PROVE delivered[j] = j
    BY DEF NoGapNoRepeat
  <2>1. delivered \in Seq(1..MaxEvents) /\ Follows(delivered, 0)
    BY DEF IInv, TypeOK, Line
  <2>2. j \in 1..Len(delivered)
    BY <2>1
  <2> QED BY <2>1, <2>2 DEF Follows
<1> QED BY <1>1, InductiveInvariant, PTL
-----------------------------------------------------------------------------
(***************************************************************************)
(* The two readers of an event stream                                      *)
(***************************************************************************)
\* out lists lines of the body in their order, all of them received with the
\* first r pieces and before those in rest.
InOrder(out, lines, r, rest) ==
  /\ out \in Seq(lines)
  /\ Increasing(out)
  /\ \A i \in Listed(out) : TailOf(i) <= r /\ \A j \in rest : i < j

\* What both readers know of the response and of the chunk in hand: it holds
\* lines received in full, none of them cut, and a line the last chunk ended in
\* is cut.
Reading ==
  /\ body \in Bodies /\ server \in {"open", "closed", "broken"}
  /\ sent \in 0..Pieces(body) /\ read \in 0..sent
  /\ chunk \subseteq DOMAIN body /\ cut \subseteq DOMAIN body
  /\ \A i \in chunk : TailOf(i) <= read
  /\ at \in {"fetch", "read"} => chunk = {}
  /\ CutLines(body, read) \subseteq cut
  /\ \A i \in cut : HeadOf(i) <= read
  /\ chunk \cap cut = {}

Handed ==
  /\ InOrder(yielded, DOMAIN body, read, chunk)
  /\ consumer = "chat" => Chat!OnlyCutLinesLost /\ Chat!NormalEndIsServersEnd /\ at \in Chat!Pcs

\* A connection that was aborted has read nothing since.
Stopped ==
  /\ InOrder(messages, DOMAIN body, read, chunk)
  /\ aborted \in BOOLEAN /\ readAtAbort \in 0..read
  /\ aborted => read = readAtAbort
  /\ consumer = "sse" => at \in Sse!Pcs

\* A consumer that is not the one in use has nothing.
Unused ==
  /\ consumer \in {"events", "chat", "sse"}
  /\ consumer # "chat" => yielded = <<>>
  /\ consumer # "sse" => messages = <<>> /\ aborted = FALSE

ReaderInv == Reading /\ Handed /\ Stopped /\ Unused

StreamInv == IInv /\ ReaderInv
-----------------------------------------------------------------------------
\* The two instances decode alike.
LEMMA SameDecoding ==
  /\ \A i : Chat!TailOf(i) = TailOf(i) /\ Sse!TailOf(i) = TailOf(i)
  /\ \A s : Chat!Listed(s) = Listed(s) /\ Sse!Listed(s) = Listed(s)
  /\ \A s : (Chat!Increasing(s) <=> Increasing(s)) /\ (Sse!Increasing(s) <=> Increasing(s))
  /\ \A b : Chat!Pieces(b) = Pieces(b) /\ Sse!Pieces(b) = Pieces(b)
  /\ \A b, from, to :
       /\ Chat!WholeLines(b, from, to) = WholeLines(b, from, to)
       /\ Sse!WholeLines(b, from, to) = WholeLines(b, from, to)
  /\ \A b, to :
       /\ Chat!CutLines(b, to) = CutLines(b, to) /\ Sse!CutLines(b, to) = CutLines(b, to)
  BY DEF Chat!TailOf, Sse!TailOf, TailOf, Chat!Listed, Sse!Listed, Listed, Chat!Increasing,
         Sse!Increasing, Increasing, Chat!Pieces, Sse!Pieces, Pieces, Chat!WholeLines,
         Sse!WholeLines, WholeLines, Chat!CutLines, Sse!CutLines, CutLines,
         Chat!HeadOf, Sse!HeadOf, HeadOf

\* Min of FiniteSetsExt, as each reader has it, is the least line of a chunk.
LEMMA LeastLine ==
  ASSUME NEW S \in SUBSET Nat, S # {}
  PROVE  /\ Chat!Min(S) \in S /\ \A j \in S : Chat!Min(S) <= j
         /\ Sse!Min(S) \in S /\ \A j \in S : Sse!Min(S) <= j
<1>1. PICK x \in S : \A y \in S : ~(<<y, x>> \in OpToRel(<, Nat))
  BY NatLessThanWellFounded, WFMin
<1>2. \A y \in S : x <= y
  <2> TAKE y \in S
  <2>1. x \in Nat /\ y \in Nat
    OBVIOUS
  <2>2. ~(y < x)
    BY <1>1, <2>1 DEF OpToRel
  <2> QED BY <2>1, <2>2
<1> QED BY <1>2 DEF Chat!Min, Sse!Min

\* A body is a sequence; its lines are numbered from 1.
LEMMA BodyLines ==
  ASSUME Reading
  PROVE  /\ body \in Seq(LineKinds) /\ Len(body) \in Nat /\ DOMAIN body = 1..Len(body)
         /\ chunk \in SUBSET Nat /\ read \in Nat /\ sent \in Nat /\ Pieces(body) = 3 * Len(body)
<1>1. body \in Seq(LineKinds)
  BY BodiesAssumption DEF Reading
<1>2. Len(body) \in Nat /\ DOMAIN body = 1..Len(body)
  BY <1>1, LenProperties
<1>3. Pieces(body) \in Nat /\ Pieces(body) = 3 * Len(body)
  BY <1>2 DEF Pieces
<1> QED BY <1>1, <1>2, <1>3 DEF Reading

\* What has been handed out stays in order when more is read after it.
LEMMA LaterReadInOrder ==
  ASSUME NEW lines \in SUBSET Nat, NEW out, NEW r \in Nat, NEW to \in Nat, r < to,
         InOrder(out, lines, r, {}),
         NEW rest \in SUBSET lines, \A j \in rest : r < HeadOf(j)
  PROVE  InOrder(out, lines, to, rest)
<1> SUFFICES ASSUME NEW i \in Listed(out)
             PROVE  TailOf(i) <= to /\ \A j \in rest : i < j
  BY DEF InOrder
<1>1. TailOf(i) <= r
  BY DEF InOrder
<1>2. PICK k \in DOMAIN out : i = out[k]
  BY DEF Listed
<1>3. i \in Nat
  BY <1>2, ElementOfSeq, LenProperties DEF InOrder
<1> QED BY <1>1, <1>3 DEF TailOf, HeadOf

\* Handing out the first line of the rest keeps the order.
LEMMA AppendKeepsOrder ==
  ASSUME NEW lines \in SUBSET Nat, NEW out, NEW r \in Nat, NEW rest \in SUBSET lines,
         InOrder(out, lines, r, rest),
         NEW line \in rest, TailOf(line) <= r, \A j \in rest : line <= j
  PROVE  InOrder(Append(out, line), lines, r, rest \ {line})
<1> DEFINE more == Append(out, line)
<1>1. out \in Seq(lines) /\ line \in lines
  BY DEF InOrder
<1>2. /\ more \in Seq(lines) /\ Len(more) = Len(out) + 1 /\ Len(out) \in Nat
      /\ DOMAIN more = 1..(Len(out) + 1) /\ DOMAIN out = 1..Len(out)
      /\ more[Len(out) + 1] = line
      /\ \A k \in 1..Len(out) : more[k] = out[k] /\ out[k] \in lines
  BY <1>1, AppendProperties, LenProperties, ElementOfSeq
<1> HIDE DEF more
<1>3. \A k \in 1..Len(out) : out[k] \in Listed(out) /\ out[k] < line
  BY <1>2 DEF InOrder, Listed
<1>4. Increasing(more)
  <2> SUFFICES ASSUME NEW j \in DOMAIN more, NEW k \in DOMAIN more, j < k
               PROVE  more[j] < more[k]
    BY DEF Increasing
  <2>1. j \in 1..Len(out) /\ (k \in 1..Len(out) \/ k = Len(out) + 1)
    BY <1>2
  <2>2. CASE k = Len(out) + 1
    BY <1>2, <1>3, <2>1, <2>2
  <2>3. CASE k \in 1..Len(out)
    BY <1>2, <2>1, <2>3 DEF InOrder, Increasing
  <2> QED BY <2>1, <2>2, <2>3
<1>5. \A i \in Listed(more) : i \in Listed(out) \/ i = line
  <2> TAKE i \in Listed(more)
  <2>1. PICK k \in DOMAIN more : i = more[k]
    BY DEF Listed
  <2> QED BY <1>2, <1>3, <2>1
<1>6. \A j \in rest \ {line} : line < j
  OBVIOUS
<1> QED BY <1>2, <1>4, <1>5, <1>6 DEF InOrder, more

\* What a sequence lists when an element is added to it.
LEMMA AppendListed ==
  ASSUME NEW S, NEW s \in Seq(S), NEW x \in S
  PROVE  Listed(s) \subseteq Listed(Append(s, x)) /\ x \in Listed(Append(s, x))
<1>1. /\ DOMAIN s = 1..Len(s) /\ Len(s) \in Nat /\ DOMAIN Append(s, x) = 1..(Len(s) + 1)
      /\ Append(s, x)[Len(s) + 1] = x
      /\ \A k \in 1..Len(s) : Append(s, x)[k] = s[k]
  BY AppendProperties, LenProperties
<1> QED BY <1>1 DEF Listed

\* Dropping the first line of the rest keeps it as well.
LEMMA SkipKeepsOrder ==
  ASSUME NEW lines, NEW out, NEW r, NEW rest, NEW fewer \in SUBSET rest,
         InOrder(out, lines, r, rest)
  PROVE  InOrder(out, lines, r, fewer)
  BY DEF InOrder
-----------------------------------------------------------------------------
LEMMA ReaderInit == StreamInit => ReaderInv
<1> SUFFICES ASSUME StreamInit PROVE ReaderInv
  OBVIOUS
<1>1. /\ body \in Bodies /\ server = "open" /\ sent = 0 /\ at = "fetch" /\ read = 0
      /\ chunk = {} /\ cut = {} /\ yielded = <<>> /\ messages = <<>>
      /\ aborted = FALSE /\ readAtAbort = 0 /\ consumer \in {"events", "chat", "sse"}
  BY DEF StreamInit, Chat!Init, Sse!Init
<1>2. body \in Seq(LineKinds) /\ Len(body) \in Nat /\ DOMAIN body = 1..Len(body)
  BY <1>1, BodiesAssumption, LenProperties
<1>3. Reading
  BY <1>1, <1>2 DEF Reading, Pieces, CutLines, HeadOf
<1>4. InOrder(<<>>, DOMAIN body, 0, {})
  BY EmptySeq DEF InOrder, Increasing, Listed
<1>5. Handed
  <2>1. \A i \in DOMAIN body : ~(Chat!TailOf(i) <= 0)
    BY <1>2, SameDecoding DEF TailOf
  <2> QED BY <1>1, <1>4, <2>1 DEF Handed, Chat!OnlyCutLinesLost, Chat!NormalEndIsServersEnd, Chat!Pcs
<1>6. Stopped /\ Unused
  <2>1. readAtAbort \in 0..read /\ at \in Sse!Pcs
    BY <1>1 DEF Sse!Pcs
  <2>4. aborted \in BOOLEAN
    BY <1>1, Zenon
  <2>2. InOrder(messages, DOMAIN body, read, chunk)
    BY <1>1, <1>4
  <2>3. Unused
    BY <1>1 DEF Unused
  <2> QED BY <1>1, <2>1, <2>2, <2>3, <2>4, Zenon DEF Stopped
<1> QED BY <1>3, <1>5, <1>6 DEF ReaderInv

\* Steps that leave the response and the chunk alone.
LEMMA GotoKeepsReading ==
  ASSUME Reading, at' \in {"fetch", "read"} => chunk = {},
         UNCHANGED <<body, server, sent, read, chunk, cut>>
  PROVE  Reading'
  BY DEF Reading, CutLines, HeadOf, TailOf, Pieces

\* Steps of the server: pieces are sent, or the response ends.
LEMMA ServerKeeps ==
  ASSUME ReaderInv,
         \/ server = "open" /\ sent < Pieces(body) /\ sent' = sent + 1 /\ server' = server
         \/ server = "open" /\ sent' = sent /\ server' \in {"closed", "broken"},
         UNCHANGED <<consumer, body, at, read, chunk, cut, yielded, messages, aborted, readAtAbort>>
  PROVE  ReaderInv'
<1>1. Reading /\ Handed /\ Stopped /\ Unused
  BY DEF ReaderInv
<1>2. /\ server' \in {"open", "closed", "broken"} /\ sent' \in 0..Pieces(body')
      /\ read' \in 0..sent' /\ (server = "closed" => FALSE)
  BY <1>1, BodyLines DEF Reading
<1>3. Reading'
  BY <1>1, <1>2 DEF Reading, CutLines, HeadOf, TailOf
<1>4. Handed'
  BY <1>1, <1>2, SameDecoding DEF Handed, Chat!OnlyCutLinesLost, Chat!StoppedBefore, Chat!NormalEndIsServersEnd
<1>5. Stopped' /\ Unused'
  BY <1>1 DEF Stopped, Unused
<1> QED BY <1>3, <1>4, <1>5 DEF ReaderInv

\* read() resolves: lines that were begun before are in neither chunk, and were
\* counted as cut when the chunk before ended in them.
LEMMA ReadKeeps ==
  ASSUME ReaderInv, at = "read", ~aborted,
         NEW to \in (read + 1)..sent,
         read' = to, chunk' = WholeLines(body, read, to), cut' = cut \cup CutLines(body, to),
         \/ consumer = "chat" /\ at' = "chunk"
         \/ consumer = "sse" /\ at' = "taken",
         UNCHANGED <<consumer, body, server, sent, yielded, messages, aborted, readAtAbort>>
  PROVE  ReaderInv'
<1>1. Reading /\ Handed /\ Stopped /\ Unused /\ chunk = {}
  BY DEF ReaderInv, Reading
<1>2. /\ Len(body) \in Nat /\ DOMAIN body = 1..Len(body) /\ read \in Nat /\ sent \in Nat
      /\ Pieces(body) = 3 * Len(body) /\ to \in Nat /\ read < to /\ to <= sent
  BY <1>1, BodyLines
<1>3. /\ chunk' \subseteq DOMAIN body /\ cut' \subseteq DOMAIN body /\ CutLines(body, to) \subseteq cut'
      /\ \A j \in chunk' : read < HeadOf(j) /\ TailOf(j) <= to
  BY <1>1, <1>2 DEF Reading, WholeLines, CutLines
<1>9. (\A i \in cut' : HeadOf(i) <= to) /\ chunk' \cap cut' = {}
  <2>1. \A i \in cut : HeadOf(i) <= read /\ HeadOf(i) \in Nat
    BY <1>1, <1>2 DEF Reading, HeadOf
  <2>2. \A i \in CutLines(body, to) : HeadOf(i) = to /\ ~(TailOf(i) <= to)
    BY <1>2 DEF CutLines, HeadOf, TailOf
  <2>3. \A i \in DOMAIN body : HeadOf(i) \in Nat
    BY <1>2 DEF HeadOf
  <2> QED BY <1>2, <1>3, <2>1, <2>2, <2>3
<1>4. Reading'
  <2>1. /\ body' = body /\ server' = server /\ sent' = sent /\ read' \in 0..sent
        /\ at' \in {"chunk", "taken"}
        /\ (\A i \in cut' : HeadOf(i) <= read') /\ chunk' \cap cut' = {}
        /\ \A i : HeadOf(i)' = HeadOf(i)
        /\ \A i \in chunk' : TailOf(i)' <= read'
        /\ CutLines(body, read)' = CutLines(body, to)
    BY <1>2, <1>3, <1>9 DEF TailOf, CutLines, HeadOf
  <2> QED BY <1>1, <1>3, <2>1 DEF Reading
<1>5. \A out : InOrder(out, DOMAIN body, read, chunk) => InOrder(out, DOMAIN body, to, chunk')
  BY <1>1, <1>2, <1>3, LaterReadInOrder
<1>6. ASSUME consumer = "chat", Chat!OnlyCutLinesLost PROVE Chat!OnlyCutLinesLost'
  <2> SUFFICES ASSUME NEW i \in DOMAIN body, body[i] = "data", TailOf(i) <= to
               PROVE  i \in Listed(yielded) \cup chunk' \cup cut'
    BY <1>6, SameDecoding DEF Chat!OnlyCutLinesLost, Chat!Ended
  <2>1. CASE TailOf(i) <= read
    BY <1>1, <1>6, <2>1, SameDecoding DEF Chat!OnlyCutLinesLost, Chat!StoppedBefore
  <2>2. CASE read < HeadOf(i)
    BY <2>2 DEF WholeLines
  <2>3. CASE HeadOf(i) = read
    BY <1>1, <2>3 DEF Reading, CutLines
  <2> QED BY <1>2, <2>1, <2>2, <2>3 DEF HeadOf, TailOf
<1>7. Handed'
  BY <1>1, <1>5, <1>6 DEF Handed, Chat!NormalEndIsServersEnd, Chat!Pcs
<1>8. Stopped' /\ Unused'
  BY <1>1, <1>2, <1>5 DEF Stopped, Unused, Sse!Pcs
<1> QED BY <1>4, <1>7, <1>8 DEF ReaderInv

\* The reader of a chat answer looks at the next line of its chunk.
LEMMA NextLineKeeps ==
  ASSUME ReaderInv, consumer = "chat", consumer' = consumer, Chat!NextLine,
         UNCHANGED <<aborted, messages, readAtAbort>>
  PROVE  ReaderInv'
<1>1. Reading /\ Handed /\ Stopped /\ Unused /\ messages = <<>> /\ ~aborted
  BY DEF ReaderInv, Unused
<1>2. PICK line : line = Chat!Min(chunk)
  OBVIOUS
<1>3. /\ at = "chunk" /\ chunk' = chunk \ {line} /\ chunk # {}
      /\ \/ body[line] = "done" /\ at' = "returned" /\ yielded' = yielded
         \/ body[line] = "data" /\ at' = "yield" /\ yielded' = Append(yielded, line)
         \/ body[line] = "other" /\ at' = at /\ yielded' = yielded
      /\ UNCHANGED <<body, server, sent, read, cut>>
  BY <1>2 DEF Chat!NextLine, Chat!response
<1>4. /\ line \in chunk /\ \A j \in chunk : line <= j
      /\ chunk \in SUBSET DOMAIN body /\ DOMAIN body \in SUBSET Nat /\ read \in Nat
      /\ TailOf(line) <= read
  BY <1>1, <1>2, <1>3, LeastLine, BodyLines DEF Reading
<1>5. Reading'
  BY <1>1, <1>3 DEF Reading, CutLines, HeadOf, TailOf, Pieces
<1>6. InOrder(yielded, DOMAIN body, read, chunk)
  BY <1>1 DEF Handed
<1>7. InOrder(yielded', DOMAIN body, read, chunk \ {line})
  <2>1. InOrder(Append(yielded, line), DOMAIN body, read, chunk \ {line})
    BY <1>4, <1>6, AppendKeepsOrder
  <2>2. InOrder(yielded, DOMAIN body, read, chunk \ {line})
    BY <1>6, SkipKeepsOrder
  <2> QED BY <1>3, <2>1, <2>2
<1>8. Listed(yielded) \subseteq Listed(Append(yielded, line)) /\ line \in Listed(Append(yielded, line))
  BY <1>4, <1>6, AppendListed DEF InOrder
<1>9. Listed(yielded) \subseteq Listed(yielded')
  BY <1>3, <1>8
<1>10. Chat!OnlyCutLinesLost'
  <2> SUFFICES ASSUME NEW i \in DOMAIN body, body[i] = "data", TailOf(i) <= read
               PROVE  \/ i \in Listed(yielded') \cup cut
                      \/ i \in chunk' /\ at' # "returned"
                      \/ at' = "returned"
                           /\ \E d \in DOMAIN body : d < i /\ body[d] = "done" /\ d \notin cut
    BY <1>3, SameDecoding DEF Chat!OnlyCutLinesLost, Chat!StoppedBefore, Chat!Ended
  <2>1. i \in Listed(yielded) \cup chunk \cup cut
    BY <1>1, <1>3, SameDecoding DEF Handed, Chat!OnlyCutLinesLost, Chat!StoppedBefore
  <2>2. CASE i = line
    BY <1>3, <1>8, <2>2
  <2>3. CASE i # line /\ at' # "returned"
    BY <1>3, <1>9, <2>1, <2>3
  <2>4. CASE i # line /\ at' = "returned" /\ i \notin Listed(yielded) \cup cut
    <3>1. i \in chunk /\ body[line] = "done" /\ line \in DOMAIN body /\ line \notin cut
      BY <1>1, <1>3, <1>4, <2>1, <2>4 DEF Reading
    <3>2. line < i
      BY <1>4, <2>4, <3>1
    <3> QED BY <2>4, <3>1, <3>2
  <2> QED BY <1>9, <2>2, <2>3, <2>4
<1>11. Chat!NormalEndIsServersEnd'
  BY <1>1, <1>3, <1>4, SameDecoding DEF Chat!NormalEndIsServersEnd
<1>12. Handed'
  BY <1>3, <1>7, <1>10, <1>11 DEF Handed, Chat!Pcs
<1>13. InOrder(messages, DOMAIN body, read, chunk \ {line})
  BY <1>1, SkipKeepsOrder DEF Stopped
<1>14. Stopped' /\ Unused'
  BY <1>1, <1>3, <1>13 DEF Stopped, Unused
<1> QED BY <1>5, <1>12, <1>14 DEF ReaderInv

\* chatStream, its consumer, and the server of POST /api/chat.
LEMMA ChatKeeps == ASSUME ReaderInv, ChatStep PROVE ReaderInv'
<1>1. /\ consumer = "chat" /\ consumer' = consumer
      /\ UNCHANGED <<aborted, messages, readAtAbort>>
      /\ Reading /\ Handed /\ Stopped /\ Unused /\ ~aborted
  BY DEF ChatStep, ReaderInv, Unused
<1>2. ASSUME NEW p \in Chat!Pcs \ {"fetch"}, Chat!Goto(p),
             p = "read" => chunk = {},
             at \notin Chat!Ended,
             p \in Chat!Ended => chunk = {} \/ p = "closed",
             p = "returned" => server = "closed" /\ read = sent
      PROVE  ReaderInv'
  <2>1. at' = p /\ UNCHANGED <<body, server, sent, read, chunk, yielded, cut>>
    BY <1>2 DEF Chat!Goto, Chat!response
  <2>2. Reading'
    BY <1>1, <1>2, <2>1, GotoKeepsReading
  <2>5. ASSUME NEW i \in DOMAIN body, i \in chunk, p = "closed"
        PROVE  \A t \in Listed(yielded) : t < i
    BY <1>1, <2>5 DEF Handed, InOrder
  <2>6. Chat!OnlyCutLinesLost'
    BY <1>1, <1>2, <2>1, <2>5, SameDecoding
       DEF Handed, Chat!OnlyCutLinesLost, Chat!StoppedBefore, Chat!Ended
  <2>3. Handed'
    BY <1>1, <1>2, <2>1, <2>6, SameDecoding
       DEF Handed, Chat!NormalEndIsServersEnd, Chat!Pcs
  <2>4. Stopped' /\ Unused'
    BY <1>1, <2>1 DEF Stopped, Unused
  <2> QED BY <2>2, <2>3, <2>4 DEF ReaderInv
<1>3. CASE Chat!FetchResolves \/ Chat!FetchFails \/ Chat!ReadDone \/ Chat!ReadFails
  BY <1>1, <1>2, <1>3
     DEF Chat!FetchResolves, Chat!FetchFails, Chat!ReadDone, Chat!ReadFails, Chat!Pcs, Chat!Ended,
         Reading
<1>4. CASE Chat!ChunkDone \/ Chat!Pull \/ Chat!Leave
  BY <1>1, <1>2, <1>4 DEF Chat!ChunkDone, Chat!Pull, Chat!Leave, Chat!Pcs, Chat!Ended
<1>5. CASE Chat!ReadResolves
  <2>1. PICK to \in (read + 1)..sent :
          /\ at = "read" /\ read' = to /\ chunk' = WholeLines(body, read, to)
          /\ cut' = cut \cup CutLines(body, to) /\ at' = "chunk"
          /\ UNCHANGED <<body, server, sent, yielded>>
    BY <1>5, SameDecoding DEF Chat!ReadResolves, Chat!response
  <2> QED BY <1>1, <2>1, ReadKeeps
<1>6. CASE Chat!NextLine
  BY <1>1, <1>6, NextLineKeeps
<1>7. CASE Chat!ServerSends \/ Chat!ServerCloses \/ Chat!ConnectionBreaks
  BY <1>1, <1>7, ServerKeeps, SameDecoding
     DEF Chat!ServerSends, Chat!ServerCloses, Chat!ConnectionBreaks
<1>8. CASE Chat!Terminated
  BY <1>1, <1>8 DEF Chat!Terminated, Chat!vars, Chat!response, ReaderInv, Reading, Handed, Stopped,
       Unused, Chat!OnlyCutLinesLost, Chat!StoppedBefore, Chat!NormalEndIsServersEnd
<1> QED
  BY <1>3, <1>4, <1>5, <1>6, <1>7, <1>8 DEF ChatStep, Chat!Next, Chat!Generator

\* The background reader handles the next line of its chunk, and onMessage may
\* abort.
LEMMA LineKeeps ==
  ASSUME ReaderInv, consumer = "sse", consumer' = consumer, yielded' = yielded,
         Sse!SkipLine \/ Sse!Deliver
  PROVE  ReaderInv'
<1>1. Reading /\ Handed /\ Stopped /\ Unused /\ yielded = <<>>
  BY DEF ReaderInv, Unused
<1>2. PICK line : line = Sse!Min(chunk)
  OBVIOUS
<1>3. /\ at = "chunk" /\ chunk' = chunk \ {line} /\ chunk # {}
      /\ messages' = messages \/ messages' = Append(messages, line)
      /\ \/ aborted' = aborted /\ readAtAbort' = readAtAbort
         \/ ~aborted /\ aborted' = TRUE /\ readAtAbort' = read
      /\ UNCHANGED <<body, server, sent, at, read, cut>>
  BY <1>2 DEF Sse!SkipLine, Sse!Deliver, Sse!Handled, Sse!response
<1>4. /\ line \in chunk /\ \A j \in chunk : line <= j
      /\ chunk \in SUBSET DOMAIN body /\ DOMAIN body \in SUBSET Nat /\ read \in Nat
      /\ TailOf(line) <= read
  BY <1>1, <1>2, <1>3, LeastLine, BodyLines DEF Reading
<1>5. Reading'
  BY <1>1, <1>3 DEF Reading, CutLines, HeadOf, TailOf, Pieces
<1>6. InOrder(messages', DOMAIN body, read, chunk \ {line})
  <2>1. InOrder(messages, DOMAIN body, read, chunk)
    BY <1>1 DEF Stopped
  <2>2. InOrder(Append(messages, line), DOMAIN body, read, chunk \ {line})
    BY <1>4, <2>1, AppendKeepsOrder
  <2>3. InOrder(messages, DOMAIN body, read, chunk \ {line})
    BY <2>1, SkipKeepsOrder
  <2> QED BY <1>3, <2>2, <2>3
<1>7. aborted' \in BOOLEAN
  <2>1. aborted \in BOOLEAN
    BY <1>1 DEF Stopped
  <2> QED BY <1>3, <2>1, Zenon
<1>8. readAtAbort' \in 0..read' /\ (aborted' => read' = readAtAbort')
  BY <1>1, <1>3, <1>4 DEF Stopped
<1>9. Stopped' /\ Unused'
  BY <1>1, <1>3, <1>6, <1>7, <1>8 DEF Stopped, Unused, Sse!Pcs
<1>10. InOrder(yielded, DOMAIN body, read, chunk \ {line})
  BY <1>1, SkipKeepsOrder DEF Handed
<1>11. Handed'
  BY <1>3, <1>10 DEF Handed
<1> QED BY <1>5, <1>9, <1>11 DEF ReaderInv

\* openSseConnection, its application, and the endpoint.
LEMMA SseKeeps == ASSUME ReaderInv, SseStep PROVE ReaderInv'
<1>1. /\ consumer = "sse" /\ consumer' = consumer /\ yielded' = yielded /\ yielded = <<>>
      /\ Reading /\ Handed /\ Stopped /\ Unused
  BY DEF SseStep, ReaderInv, Unused
<1>2. ASSUME NEW p \in {"read", "chunk", "ended"}, p = "read" => chunk = {}, Sse!Goto(p)
      PROVE  ReaderInv'
  <2>1. /\ at' = p
        /\ UNCHANGED <<body, server, sent, read, chunk, messages, cut, aborted, readAtAbort>>
    BY <1>2 DEF Sse!Goto, Sse!response
  <2>2. Reading'
    BY <1>1, <1>2, <2>1, GotoKeepsReading
  <2>3. Handed' /\ Stopped' /\ Unused'
    BY <1>1, <2>1 DEF Handed, Stopped, Unused, Sse!Pcs
  <2> QED BY <2>2, <2>3 DEF ReaderInv
<1>3. CASE Sse!FetchResolves \/ Sse!FetchFails \/ Sse!ReadDone \/ Sse!ReadFails \/ Sse!ChunkDone
            \/ Sse!ReadContinues
  BY <1>1, <1>2, <1>3
     DEF Sse!FetchResolves, Sse!FetchFails, Sse!ReadContinues, Sse!ReadDone, Sse!ReadFails, Sse!ChunkDone, Reading
<1>4. CASE Sse!ReadFulfils
  <2>1. PICK to \in (read + 1)..sent :
          /\ at = "read" /\ read' = to /\ chunk' = WholeLines(body, read, to)
          /\ cut' = cut \cup CutLines(body, to) /\ at' = "taken" /\ ~aborted
          /\ UNCHANGED <<body, server, sent, messages, aborted, readAtAbort>>
    BY <1>4, SameDecoding DEF Sse!ReadFulfils, Sse!response
  <2> QED BY <1>1, <2>1, ReadKeeps
<1>5. CASE Sse!SkipLine \/ Sse!Deliver
  BY <1>1, <1>5, LineKeeps
<1>6. CASE Sse!Abort
  <2>1. /\ aborted' = TRUE /\ readAtAbort' = read
        /\ UNCHANGED <<body, server, sent, at, read, chunk, messages, cut>>
    BY <1>6 DEF Sse!Abort, Sse!response
  <2>2. Reading' /\ Handed' /\ Unused'
    BY <1>1, <2>1 DEF Reading, Handed, Unused, CutLines, HeadOf, TailOf, Pieces
  <2>3. aborted' \in BOOLEAN
    BY <2>1, Zenon
  <2>4. readAtAbort' \in 0..read'
    BY <1>1, <2>1, BodyLines
  <2>5. Stopped'
    BY <1>1, <2>1, <2>3, <2>4 DEF Stopped
  <2> QED BY <2>2, <2>5 DEF ReaderInv
<1>7. CASE Sse!ServerSends \/ Sse!ServerEnds
  BY <1>1, <1>7, ServerKeeps, SameDecoding DEF Sse!ServerSends, Sse!ServerEnds
<1>8. CASE Sse!Terminated
  BY <1>1, <1>8 DEF Sse!Terminated, Sse!vars, Sse!response, ReaderInv, Reading, Handed, Stopped,
       Unused
<1> QED
  BY <1>3, <1>4, <1>5, <1>6, <1>7, <1>8 DEF SseStep, Sse!Next, Sse!Reader

\* Every step of any of the three consumers.
LEMMA StreamNextKeeps == StreamInv /\ [StreamNext]_all => StreamInv'
<1> SUFFICES ASSUME StreamInv, [StreamNext]_all PROVE StreamInv'
  OBVIOUS
<1>1. IInv /\ ReaderInv
  BY DEF StreamInv
<1>2. CASE EventsStep
  <2>1. IInv'
    BY <1>1, <1>2, NextKeeps DEF EventsStep
  <2>2. ReaderInv'
    BY <1>1, <1>2 DEF EventsStep, reader, ReaderInv, Reading, Handed, Stopped, Unused
  <2> QED BY <2>1, <2>2 DEF StreamInv
<1>3. ASSUME UNCHANGED vars PROVE IInv'
  BY <1>1, <1>3, NextKeeps
<1>4. CASE ChatStep
  BY <1>1, <1>3, <1>4, ChatKeeps DEF ChatStep, StreamInv
<1>5. CASE SseStep
  BY <1>1, <1>3, <1>5, SseKeeps DEF SseStep, StreamInv
<1>6. CASE UNCHANGED all
  BY <1>1, <1>3, <1>6 DEF all, reader, StreamInv, ReaderInv, Reading, Handed, Stopped, Unused,
       Chat!OnlyCutLinesLost, Chat!StoppedBefore, Chat!NormalEndIsServersEnd
<1> QED BY <1>2, <1>4, <1>5, <1>6 DEF StreamNext
-----------------------------------------------------------------------------
\* The three consumers: every reachable state satisfies the invariant.
THEOREM StreamInvariance == StreamSpec => []StreamInv
<1>1. StreamInit => StreamInv
  BY InitEstablishes, ReaderInit DEF StreamInit, StreamInv
<1> QED BY <1>1, StreamNextKeeps, PTL DEF StreamSpec

\* chatStream, subscribeEvents and openSseConnection: types, for bodies of any
\* length.
THEOREM StreamTypes == StreamSpec => []StreamTypeOK
<1>1. StreamInv => StreamTypeOK
  BY SameDecoding DEF StreamInv, IInv, StreamTypeOK, ReaderInv, Reading, Handed, Stopped, InOrder,
     Chat!TypeOK, Sse!TypeOK
<1> QED BY <1>1, StreamInvariance, PTL

\* chatStream: of what was received before the answer ended or the consumer left,
\* only a token whose line two chunks share is lost, wherever the network cuts an
\* answer of any length.
THEOREM TokensLostAreCut == StreamSpec => []OnlyCutLinesLost
<1>1. StreamInv => OnlyCutLinesLost
  BY DEF StreamInv, ReaderInv, Handed, OnlyCutLinesLost
<1> QED BY <1>1, StreamInvariance, PTL

\* chatStream and openSseConnection: what comes out is in the order of the
\* stream, each line once.
THEOREM OrderKept == StreamSpec => []LinesInOrder
<1>1. StreamInv => LinesInOrder
  BY SameDecoding DEF StreamInv, ReaderInv, Handed, Stopped, InOrder, LinesInOrder,
     Chat!TokensInOrder, Sse!MessagesInOrder
<1> QED BY <1>1, StreamInvariance, PTL

\* chatStream: a broken connection never looks like the end of an answer.
THEOREM EndIsServersEnd == StreamSpec => []NormalEndIsServersEnd
<1>1. StreamInv => NormalEndIsServersEnd
  BY DEF StreamInv, ReaderInv, Handed, NormalEndIsServersEnd
<1> QED BY <1>1, StreamInvariance, PTL

\* openSseConnection: after abort() the callback sees at most the chunk that was
\* under way or whose read() had been fulfilled, wherever abort() was called.
THEOREM AbortStopsReading == StreamSpec => []NothingReadAfterAbort
<1>1. StreamInv => NothingReadAfterAbort
  BY SameDecoding DEF StreamInv, ReaderInv, Stopped, InOrder, NothingReadAfterAbort,
     Sse!NothingReadAfterAbort
<1> QED BY <1>1, StreamInvariance, PTL

\* subscribeEvents, whichever consumer is in use: a gapless prefix of the events.
THEOREM EventsInOrder == StreamSpec => []NoGapNoRepeat
<1>1. StreamInv => NoGapNoRepeat
  BY LenProperties DEF StreamInv, IInv, TypeOK, Line, Follows, NoGapNoRepeat
<1> QED BY <1>1, StreamInvariance, PTL
=============================================================================

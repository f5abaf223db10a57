------------------------------- MODULE ChatStream -----------------------------
(***************************************************************************)
(* src/streaming.ts, StreamingClient.chatStream: an async generator that   *)
(* turns the body of POST /api/chat into tokens; and chatStreamCallback,   *)
(* the consumer that pulls it to the end, counts and concatenates.         *)
(*                                                                         *)
(* The generator runs only while its consumer waits for the next token.    *)
(* The fetch has neither timer nor abort signal.                           *)
(***************************************************************************)
EXTENDS SseDecode, FiniteSetsExt

VARIABLES
  body,              \* the lines of the response
  server,            \* state of the response: open, closed, broken
  sent,              \* pieces the server has sent
  pc,                \* where the generator stands
  read,              \* pieces handed out by reader.read()
  chunk,             \* whole lines of the current chunk not yet looked at
  yielded,           \* the tokens yielded, by line number
  cut                \* history: lines cut between two chunks

response == <<body, server, sent>>
vars == <<response, pc, read, chunk, yielded, cut>>

Pcs == {"fetch", "read", "chunk", "yield", "returned", "threw", "closed"}
Ended == {"returned", "threw", "closed"}

Init ==
  /\ body \in Bodies
  /\ server = "open"
  /\ sent = 0
  /\ pc = "fetch"
  /\ read = 0
  /\ chunk = {}
  /\ yielded = <<>>
  /\ cut = {}

Goto(p) ==
  /\ pc' = p
  /\ UNCHANGED <<response, read, chunk, yielded, cut>>

\* await fetch(...): a 2xx with a body, or an HTTP or network error.
FetchResolves == pc = "fetch" /\ Goto("read")
FetchFails == pc = "fetch" /\ Goto("threw")

\* await reader.read() hands out what has arrived, cut anywhere.
ReadResolves ==
  /\ pc = "read" /\ server # "broken"
  /\ \E to \in (read + 1)..sent :
       /\ read' = to
       /\ chunk' = WholeLines(body, read, to)
       /\ cut' = cut \cup CutLines(body, to)
  /\ pc' = "chunk"
  /\ UNCHANGED <<response, yielded>>

\* done: the loop ends as it does after [DONE].
ReadDone == pc = "read" /\ server = "closed" /\ read = sent /\ Goto("returned")

ReadFailureIsEnd == pc = "read" /\ server = "broken" /\ Goto("returned")

\* read() rejects; finally releases the lock and the error goes to the consumer.
ReadFails == pc = "read" /\ server = "broken" /\ Goto("threw")

(***************************************************************************)
(* The for loop over the lines of a chunk: [DONE] returns, a token is      *)
(* yielded, anything else is skipped; after the last line, back to read(). *)
(***************************************************************************)
NextLine ==
  /\ pc = "chunk" /\ chunk # {}
  /\ LET line == Min(chunk) IN
       /\ chunk' = chunk \ {line}
       /\ \/ body[line] = "done" /\ pc' = "returned" /\ UNCHANGED yielded
          \/ body[line] = "data" /\ pc' = "yield" /\ yielded' = Append(yielded, line)
          \/ body[line] = "other" /\ UNCHANGED <<pc, yielded>>
  /\ UNCHANGED <<response, read, cut>>

ChunkDone == pc = "chunk" /\ chunk = {} /\ Goto("read")

\* The consumer asks for the next token, or leaves: break, or onToken throws.
Pull == pc = "yield" /\ Goto("chunk")
Leave == pc = "yield" /\ Goto("closed")

Generator ==
  \/ FetchResolves \/ FetchFails
  \/ ReadResolves \/ ReadDone \/ ReadFails
  \/ NextLine \/ ChunkDone
-----------------------------------------------------------------------------
(***************************************************************************)
(* The server: not in src/.  It ends the response between two lines, after *)
(* the last one or early; a connection breaks anywhere.                    *)
(***************************************************************************)
ServerSends ==
  /\ server = "open" /\ sent < Pieces(body)
  /\ sent' = sent + 1
  /\ UNCHANGED <<body, server, pc, read, chunk, yielded, cut>>

ServerCloses ==
  /\ server = "open" /\ sent % 3 = 0
  /\ server' = "closed"
  /\ UNCHANGED <<body, sent, pc, read, chunk, yielded, cut>>

ConnectionBreaks ==
  /\ server = "open"
  /\ server' = "broken"
  /\ UNCHANGED <<body, sent, pc, read, chunk, yielded, cut>>

Terminated == pc \in Ended /\ server # "open" /\ UNCHANGED vars

Next ==
  \/ Generator \/ Pull \/ Leave
  \/ ServerSends \/ ServerCloses \/ ConnectionBreaks
  \/ Terminated

Spec == Init /\ [][Next]_vars
-----------------------------------------------------------------------------
(***************************************************************************)
(* Properties                                                              *)
(***************************************************************************)
TypeOK ==
  /\ body \in Bodies
  /\ server \in {"open", "closed", "broken"}
  /\ sent \in 0..Pieces(body)
  /\ pc \in Pcs
  /\ read \in 0..sent
  /\ chunk \subseteq DOMAIN body
  /\ yielded \in Seq(DOMAIN body)
  /\ cut \subseteq DOMAIN body

\* The generator stopped before line i: at a [DONE] it saw, or because the
\* consumer left at the token before.
StoppedBefore(i) ==
  \/ pc = "returned" /\ \E d \in DOMAIN body : d < i /\ body[d] = "done" /\ d \notin cut
  \/ pc = "closed" /\ \A t \in Listed(yielded) : t < i

\* A token the reader received is yielded, or waits in the chunk of a generator
\* that is still running, or comes after the end of the answer or the departure
\* of the consumer: apart from that, a chunk boundary inside its line is the
\* only way to lose one.
OnlyCutLinesLost ==
  \A i \in DOMAIN body :
    body[i] = "data" /\ TailOf(i) <= read =>
      \/ i \in Listed(yielded) \cup cut
      \/ i \in chunk /\ pc \notin Ended
      \/ StoppedBefore(i)

\* Tokens come out in the order of the stream, none twice, whatever the chunks.
TokensInOrder == Increasing(yielded)

\* A generator that ends by itself has seen [DONE] or the end of the response;
\* a broken connection never looks like a complete answer.
NormalEndIsServersEnd ==
  pc = "returned" =>
    \/ server = "closed" /\ read = sent
    \/ \E i \in DOMAIN body : body[i] = "done" /\ TailOf(i) <= read

\* StreamResult.output is the "complete generated output": when the server sent
\* its answer in full and the generator finished it, every token up to [DONE],
\* or to the end of an answer without one, was yielded.
CompleteOutput ==
  pc = "returned" /\ read = Pieces(body) =>
    \A i \in DOMAIN body :
      body[i] = "data" /\ (\A d \in 1..i : body[d] # "done") => i \in Listed(yielded)
=============================================================================

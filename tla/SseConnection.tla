----------------------------- MODULE SseConnection ----------------------------
(***************************************************************************)
(* src/streaming.ts, StreamingClient.openSseConnection with a callback: a  *)
(* background reader of an A2A or MCP event stream, and the AbortController*)
(* handed to the application.                                              *)
(*                                                                         *)
(* The lines of a chunk are handled in one synchronous run, so between two *)
(* of them only onMessage itself can abort.  An abort makes the pending    *)
(* fetch or read reject; it does not stop the run that is under way.       *)
(***************************************************************************)
EXTENDS SseDecode, FiniteSetsExt

VARIABLES
  body, server, sent,  \* as in ChatStream
  pc,                  \* where the background reader stands
  read, chunk, cut,    \* as in ChatStream
  aborted,             \* the application has called abort()
  delivered,           \* the messages onMessage was called with
  readAtAbort          \* history: read when abort() was called

response == <<body, server, sent>>
vars == <<response, pc, read, chunk, cut, aborted, delivered, readAtAbort>>

Pcs == {"fetch", "read", "taken", "chunk", "ended"}

Init ==
  /\ body \in Bodies
  /\ server = "open"
  /\ sent = 0
  /\ pc = "fetch"
  /\ read = 0
  /\ chunk = {}
  /\ cut = {}
  /\ aborted = FALSE
  /\ delivered = <<>>
  /\ readAtAbort = 0

Goto(p) ==
  /\ pc' = p
  /\ UNCHANGED <<response, read, chunk, cut, aborted, delivered, readAtAbort>>

\* A fetch that was fulfilled before abort() was called continues all the same.
FetchResolves == pc = "fetch" /\ Goto("read")

\* HTTP error, no body, network error, or aborted: the reader ends in silence.
FetchFails == pc = "fetch" /\ Goto("ended")

ReadFulfilsUnsignalled ==
  /\ pc = "read" /\ server # "broken"
  /\ \E to \in (read + 1)..sent :
       /\ read' = to
       /\ chunk' = WholeLines(body, read, to)
       /\ cut' = cut \cup CutLines(body, to)
  /\ pc' = "taken"
  /\ UNCHANGED <<response, aborted, delivered, readAtAbort>>

\* The promise of reader.read() is fulfilled with what has arrived.  The fetch
\* was given abort.signal: a read that is pending when abort() is called, or
\* begun after it, rejects instead.
ReadFulfils ==
  /\ pc = "read" /\ server # "broken" /\ ~aborted
  /\ \E to \in (read + 1)..sent :
       /\ read' = to
       /\ chunk' = WholeLines(body, read, to)
       /\ cut' = cut \cup CutLines(body, to)
  /\ pc' = "taken"
  /\ UNCHANGED <<response, aborted, delivered, readAtAbort>>

\* The await continues in a later microtask and asks the signal nothing: an
\* abort() in between does not keep the chunk from being handled.
ReadContinues == pc = "taken" /\ Goto("chunk")

ReadDone == pc = "read" /\ server = "closed" /\ read = sent /\ Goto("ended")

ReadFailsUnsignalled == pc = "read" /\ server = "broken" /\ Goto("ended")

\* read() rejects: .catch(() => {}) ends the reader in silence.
ReadFails == pc = "read" /\ (server = "broken" \/ aborted) /\ Goto("ended")

Handled(line) ==
  /\ chunk' = chunk \ {line}
  /\ UNCHANGED <<response, pc, read, cut>>

\* A line without "data: " is passed over; a payload that is no JSON, such as
\* [DONE], throws in JSON.parse, and the catch block swallows it.
SkipLine ==
  /\ pc = "chunk" /\ chunk # {}
  /\ LET line == Min(chunk) IN
       /\ body[line] # "data"
       /\ Handled(line)
  /\ UNCHANGED <<aborted, delivered, readAtAbort>>

(***************************************************************************)
(* onMessage is called with the parsed line.  It may abort the connection. *)
(* If it throws, the catch block meant for JSON.parse swallows that, and   *)
(* the next line is handled all the same.                                  *)
(***************************************************************************)
Deliver ==
  /\ pc = "chunk" /\ chunk # {}
  /\ LET line == Min(chunk) IN
       /\ body[line] = "data"
       /\ delivered' = Append(delivered, line)
       /\ Handled(line)
  /\ \/ UNCHANGED <<aborted, readAtAbort>>
     \/ ~aborted /\ aborted' = TRUE /\ readAtAbort' = read

ChunkDone == pc = "chunk" /\ chunk = {} /\ Goto("read")

Reader ==
  \/ FetchResolves \/ FetchFails
  \/ ReadFulfils \/ ReadContinues \/ ReadDone \/ ReadFails
  \/ SkipLine \/ Deliver \/ ChunkDone

\* The application aborts from outside the callback: at an await, or after a
\* read was fulfilled and before its continuation runs.
Abort ==
  /\ ~aborted /\ pc # "chunk"
  /\ aborted' = TRUE
  /\ readAtAbort' = read
  /\ UNCHANGED <<response, pc, read, chunk, cut, delivered>>
-----------------------------------------------------------------------------
(***************************************************************************)
(* The endpoint: not in src/.                                              *)
(***************************************************************************)
ServerSends ==
  /\ server = "open" /\ sent < Pieces(body)
  /\ sent' = sent + 1
  /\ UNCHANGED <<body, server, pc, read, chunk, cut, aborted, delivered, readAtAbort>>

ServerEnds ==
  /\ server = "open"
  /\ server' \in (IF sent % 3 = 0 THEN {"closed", "broken"} ELSE {"broken"})
  /\ UNCHANGED <<body, sent, pc, read, chunk, cut, aborted, delivered, readAtAbort>>

Terminated == pc = "ended" /\ server # "open" /\ UNCHANGED vars

Next == Reader \/ Abort \/ ServerSends \/ ServerEnds \/ Terminated

Spec == Init /\ [][Next]_vars

\* The runtime settles what an abort cancelled, continues what was fulfilled and
\* runs a handler to its end; the endpoint may stay silent for ever.
FairSpec ==
  /\ Spec
  /\ WF_vars(aborted /\ (FetchResolves \/ FetchFails \/ ReadFails))
  /\ WF_vars(ReadContinues)
  /\ WF_vars(SkipLine \/ Deliver \/ ChunkDone)
-----------------------------------------------------------------------------
(***************************************************************************)
(* Properties                                                              *)
(***************************************************************************)
TypeOK ==
  /\ body \in Bodies
  /\ server \in {"open", "closed", "broken"}
  /\ sent \in 0..Pieces(body)
  /\ pc \in Pcs
  /\ read \in 0..sent /\ readAtAbort \in 0..read
  /\ chunk \subseteq DOMAIN body /\ cut \subseteq DOMAIN body
  /\ aborted \in BOOLEAN
  /\ delivered \in Seq(DOMAIN body)

\* Messages reach the callback in stream order, each once.
MessagesInOrder == Increasing(delivered)

\* After abort() the callback sees at most the rest of the chunk that was being
\* handled, or the one chunk whose read() had been fulfilled: never a message
\* that was handed to the reader later.
NothingReadAfterAbort ==
  aborted => \A i \in Listed(delivered) : TailOf(i) <= readAtAbort

\* An aborted connection stops its reader, even when the endpoint never closes.
AbortEnds == aborted ~> pc = "ended"
=============================================================================

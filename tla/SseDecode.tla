------------------------------- MODULE SseDecode ------------------------------
(***************************************************************************)
(* How src/streaming.ts takes an event stream apart.  Both readers,        *)
(* chatStream and openSseConnection, decode each chunk by itself: split    *)
(* at newlines, keep what starts with "data: ", parse the rest as JSON.    *)
(* Nothing is carried over from one chunk to the next.                     *)
(*                                                                         *)
(* A line of the stream is three pieces: its head ("data: " and the first  *)
(* part of the payload), its tail (the rest of the payload) and its        *)
(* newline.  A chunk is an interval of pieces.  A payload cut in two       *)
(* parses in neither half: a proper prefix of a JSON object or of [DONE]   *)
(* is no JSON, and a tail does not start with "data: ".                    *)
(***************************************************************************)
EXTENDS Naturals, Sequences

CONSTANT Bodies      \* the streams a server may send: sequences of line kinds

LineKinds == {"data", "done", "other"}

ASSUME BodiesAssumption == \A b \in Bodies : b \in Seq(LineKinds)

Pieces(body) == 3 * Len(body)
HeadOf(i) == 3 * i - 2
TailOf(i) == 3 * i - 1

WholeLinesLessLast(body, from, to) ==
  {i \in DOMAIN body : from < HeadOf(i) /\ TailOf(i) < to}

WholeLinesRereading(body, from, to) ==
  {i \in DOMAIN body : from <= HeadOf(i) + 1 /\ TailOf(i) <= to}

\* The lines that the chunk of pieces from+1 .. to holds in one piece: the only
\* ones whose payload the reader gets to see.
WholeLines(body, from, to) ==
  {i \in DOMAIN body : from < HeadOf(i) /\ TailOf(i) <= to}

\* The line that a chunk ending after piece to leaves cut in two, if any.
CutLines(body, to) == {i \in DOMAIN body : HeadOf(i) = to}

Increasing(s) == \A j, k \in DOMAIN s : j < k => s[j] < s[k]

Listed(s) == {s[j] : j \in DOMAIN s}
=============================================================================

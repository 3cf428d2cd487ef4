------------------------------- MODULE Subscribe -------------------------------
(***************************************************************************)
(* One subscription to the server's event stream (src/src/subscribe.ts).   *)
(*                                                                         *)
(* The text of the stream is a sequence of tokens: field names with their  *)
(* colon, values, and NL for the end of a line.  Chunks cut it anywhere.   *)
(* The values of an event are sequences of tokens, <<>> for ''.            *)
(*                                                                         *)
(* readStream() waits in fetch() and in reader.read(); between two waits   *)
(* it works on the lines of one chunk without giving up the thread, so     *)
(* that nobody but the handler can call unsubscribe() meanwhile.           *)
(***************************************************************************)
EXTENDS Integers, Sequences, FiniteSetsExt, SequencesExt

CONSTANTS
  Values, \* pieces of a line after its field name
  Sent,   \* the events of the stream: [type, id, data] with data the values of its data lines
  Broken  \* values that make JSON.parse fail

NL == "\n"

VARIABLES
  phase,     \* "connecting", "reading" (in reader.read()), "read" (it has resolved), "lines", "handling", "closed"
  received,  \* tokens of the stream the reader has returned
  chunk,     \* tokens of the chunk that was read
  buffer, lines, eventType, eventId, eventData, \* the variables of readStream
  calls,     \* the handler's calls, in order
  aborted    \* the signal is aborted

vars == <<phase, received, chunk, buffer, lines, eventType, eventId, eventData, calls, aborted>>

parser == <<buffer, lines, eventType, eventId, eventData>>

\* An event as a server writes it, and the stream of the first k of them.
Field(name, value) == IF value = <<>> THEN <<>> ELSE <<name>> \o value \o <<NL>>

DataLines(e) ==
  LET upTo[j \in 0..Len(e.data)] ==
        IF j = 0 THEN <<>> ELSE upTo[j - 1] \o <<"data:", e.data[j], NL>>
  IN  upTo

Text(e) ==
  Field("event:", e.type) \o Field("id:", e.id) \o DataLines(e)[Len(e.data)] \o <<NL>>

StreamOf[k \in 0..Len(Sent)] == IF k = 0 THEN <<>> ELSE StreamOf[k - 1] \o Text(Sent[k])
Stream == StreamOf[Len(Sent)]

Init ==
  /\ phase = "connecting"
  /\ received = 0
  /\ chunk = <<>>
  /\ buffer = <<>> /\ lines = <<>>
  /\ eventType = <<>> /\ eventId = <<>> /\ eventData = <<>>
  /\ calls = <<>>
  /\ aborted = FALSE

-----------------------------------------------------------------------------

\* fetch() resolves with an answer that is ok and has a body.
Connect ==
  /\ phase = "connecting"
  /\ phase' = "reading"
  /\ UNCHANGED <<received, chunk, parser, calls, aborted>>

\* fetch() rejects, the answer is not ok, the stream ends or breaks: readStream
\* returns or rejects, which subscribe() ignores.  What is left in the buffer
\* and an event without its empty line are gone.
ConnectionEnds ==
  /\ phase \in {"connecting", "reading"}
  /\ phase' = "closed"
  /\ UNCHANGED <<received, chunk, parser, calls, aborted>>

\* reader.read() resolves with the next n tokens.
ChunkArrives(n) ==
  /\ phase = "reading"
  /\ received' = received + n
  /\ received' <= Len(Stream)
  /\ chunk' = SubSeq(Stream, received + 1, received + n)
  /\ phase' = "read"
  /\ UNCHANGED <<parser, calls, aborted>>

\* What follows the last NL in the first i tokens of a text, and the lines
\* before it: split('\n') and pop().
OpenLine(text) ==
  LET upTo[i \in 0..Len(text)] ==
        IF i = 0 \/ text[i] = NL THEN <<>> ELSE Append(upTo[i - 1], text[i])
  IN  upTo

WholeLines(text) ==
  LET upTo[i \in 0..Len(text)] ==
        IF i = 0 THEN <<>>
        ELSE IF text[i] = NL THEN Append(upTo[i - 1], OpenLine(text)[i - 1])
        ELSE upTo[i - 1]
  IN  upTo

\* Mutant: the lines of a chunk are taken for whole.
SplitChunk ==
  LET text == buffer \o chunk
  IN  /\ phase = "read"
      /\ lines' = WholeLines(text)[Len(text)]
      /\ buffer' = <<>>
      /\ chunk' = <<>>
      /\ phase' = "lines"
      /\ UNCHANGED <<received, eventType, eventId, eventData, calls, aborted>>

\* The chunk is split into lines; what follows the last NL stays in the buffer.
SplitLines ==
  LET text == buffer \o chunk
  IN  /\ phase = "read"
      /\ lines' = WholeLines(text)[Len(text)]
      /\ buffer' = OpenLine(text)[Len(text)]
      /\ chunk' = <<>>
      /\ phase' = "lines"
      /\ UNCHANGED <<received, eventType, eventId, eventData, calls, aborted>>

\* 'event:', 'id:' and 'data:' lines; any other line is skipped.
FieldLine ==
  LET name == lines[1][1]  value == Tail(lines[1])
  IN  /\ phase = "lines"
      /\ lines # <<>> /\ lines[1] # <<>>
      /\ lines' = Tail(lines)
      /\ eventType' = IF name = "event:" THEN value ELSE eventType
      /\ eventId' = IF name = "id:" THEN value ELSE eventId
      /\ eventData' = IF name # "data:" THEN eventData
                       ELSE IF eventData = <<>> THEN value
                       ELSE eventData \o <<NL>> \o value
      /\ UNCHANGED <<phase, received, chunk, buffer, calls, aborted>>

Event(data, raw, again) ==
  [id |-> eventId, type |-> IF eventType = <<>> THEN <<"message">> ELSE eventType,
   data |-> data, raw |-> raw, again |-> again]

Parses(data) == \A i \in DOMAIN data : data[i] \notin Broken

\* The end of an event that has data: the handler is called, with the raw data
\* when they are no JSON.
CallHandler ==
  /\ phase = "lines"
  /\ lines # <<>> /\ lines[1] = <<>>
  /\ eventData # <<>>
  /\ calls' = Append(calls, Event(eventData, ~Parses(eventData), FALSE))
  /\ phase' = "handling"
  /\ UNCHANGED <<received, chunk, parser, aborted>>

ResetEvent ==
  /\ lines' = Tail(lines)
  /\ eventType' = <<>> /\ eventId' = <<>> /\ eventData' = <<>>

\* The end of one that has none.
EmptyEvent ==
  /\ phase = "lines"
  /\ lines # <<>> /\ lines[1] = <<>>
  /\ eventData = <<>>
  /\ ResetEvent
  /\ UNCHANGED <<phase, received, chunk, buffer, calls, aborted>>

HandlerReturns ==
  /\ phase = "handling"
  /\ phase' = "lines"
  /\ ResetEvent
  /\ UNCHANGED <<received, chunk, buffer, calls, aborted>>

\* A handler that throws is taken for data that are no JSON and called again;
\* what it throws then ends readStream.
HandlerThrows ==
  /\ phase = "handling"
  /\ IF Last(calls).raw
     THEN phase' = "closed" /\ UNCHANGED calls
     ELSE /\ calls' = Append(calls, Event(eventData, TRUE, TRUE))
          /\ UNCHANGED phase
  /\ UNCHANGED <<received, chunk, parser, aborted>>

\* The lines are done: the next reader.read(), which rejects when the signal
\* has been aborted.
ReadMore ==
  /\ phase = "lines"
  /\ lines = <<>>
  /\ phase' = IF aborted THEN "closed" ELSE "reading"
  /\ UNCHANGED <<received, chunk, parser, calls, aborted>>

\* Mutant: fetch() is not given the signal.
UnsubscribeUnheard ==
  /\ phase # "lines"
  /\ ~aborted
  /\ aborted' = TRUE
  /\ UNCHANGED <<phase, received, chunk, parser, calls>>

\* unsubscribe(), or an abort of options.signal: by the handler, or by other
\* code while readStream waits.  fetch() and read() reject, unless they have
\* resolved already.
unsubscribe ==
  /\ phase # "lines"
  /\ ~aborted
  /\ aborted' = TRUE
  /\ phase' = IF phase \in {"connecting", "reading"} THEN "closed" ELSE phase
  /\ UNCHANGED <<received, chunk, parser, calls>>

\* readStream()'s own steps between two waits.
readStream == SplitLines \/ FieldLine \/ CallHandler \/ EmptyEvent \/ ReadMore

Next ==
  \/ Connect
  \/ ConnectionEnds
  \/ \E n \in 1..Len(Stream) : ChunkArrives(n)
  \/ readStream
  \/ HandlerReturns
  \/ HandlerThrows
  \/ unsubscribe

Spec == Init /\ [][Next]_vars

-----------------------------------------------------------------------------
(* Properties *)

\* The events the first n tokens contain up to their empty line.
Within(n) == Max({k \in 0..Len(Sent) : Len(StreamOf[k]) <= n})

\* An event as a subscriber is to be told of it, by the format of event
\* streams and the defaults of SSEEvent.
Joined(e) ==
  LET upTo[j \in 0..Len(e.data)] ==
        IF j = 0 THEN <<>>
        ELSE IF j = 1 THEN <<e.data[1]>>
        ELSE upTo[j - 1] \o <<NL, e.data[j]>>
  IN  upTo

SSEEvent(e) ==
  LET data == Joined(e)[Len(e.data)]
  IN  [id |-> e.id, type |-> IF e.type = <<>> THEN <<"message">> ELSE e.type,
       data |-> data, raw |-> ~Parses(data), again |-> FALSE]

\* What is told of the first k events, and what the handler has been told: a
\* second call for the same event tells nothing new.
Told[k \in 0..Len(Sent)] ==
  IF k = 0 THEN <<>>
  ELSE IF Sent[k].data = <<>> THEN Told[k - 1]
  ELSE Append(Told[k - 1], SSEEvent(Sent[k]))

FirstCalls(cs) ==
  LET upTo[n \in 0..Len(cs)] ==
        IF n = 0 THEN <<>>
        ELSE IF cs[n].again THEN upTo[n - 1]
        ELSE Append(upTo[n - 1], cs[n])
  IN  upTo

Heard == FirstCalls(calls)[Len(calls)]

\* However the stream is cut into chunks, the handler is told of its events as
\* they were sent, in order and one by one, and whenever the next chunk is
\* waited for it has been told of all that have arrived (subscribe.ts:139-168).
DeliveredAsSent ==
  /\ IsPrefix(Heard, Told[Within(received)])
  /\ phase = "reading" => Heard = Told[Within(received)]

\* Whoever aborts, and whenever: the stream is not read any further, so what
\* the handler still hears had been read when unsubscribe() was called
\* (subscribe.ts:38-40, :60-63).
StopsReading == [][aborted => received' = received]_vars
=============================================================================

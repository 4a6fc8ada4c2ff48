--------------------------- MODULE StreamAdapter ---------------------------
(***************************************************************************)
(* The TCP stream adapters (services/adapters/omrs/omrs_adapter.py and     *)
(* wild/wild_adapter.py, with shared/socket_helpers.py): frames are cut    *)
(* out of a byte stream, parsed and published.  An OMRS frame has a header *)
(* that gives the length of its body; a WILD record has one length and no  *)
(* header.  recv gives any part of what has arrived; a connection may end  *)
(* anywhere, and the next one starts at the beginning of a frame.          *)
(***************************************************************************)
EXTENDS Integers, Sequences

CONSTANTS
  Sensor,           \* sourceIds of events
  Unusable,         \* a body whose parse raises, for whatever reason
  StreamItself,     \* "omrs-stream" / "wild-stream"
  StreamThreshold,  \* FAILURE_THRESHOLD
  HeaderSize,       \* 4 bytes: FRAME_HEADER_SIZE
  BodySize,         \* lengths of OMRS bodies, 0 among them
  RecordSize,       \* 64 bytes: WILD_RECORD_SIZE
  MaxFrames         \* bound

ASSUME StreamAssumption ==
  /\ HeaderSize \in Nat \ {0} /\ RecordSize \in Nat \ {0} /\ BodySize \subseteq Nat
  /\ Unusable \notin Sensor /\ StreamItself \notin Sensor

VARIABLES
  framing,         \* which of the two adapters this is
  frames,          \* frames the server has sent: length of the body, content
  incoming,        \* bytes of this connection that wait to be received
  buf,             \* recv_exactly: what it has
  want,            \* recv_exactly: n
  stage,           \* "closed", "header", "body", "parse" or "publish"
  parsed,          \* what was given to the parser, in order
  eventSource,     \* source_id of the event to publish
  streamFailures, streamSent, streamInARow  \* the router of this adapter

streamVars ==
  <<framing, frames, incoming, buf, want, stage, parsed, eventSource,
    streamFailures, streamSent, streamInARow>>
routed == <<streamFailures, streamSent, streamInARow>>

Router == INSTANCE DeadLetterRouter WITH
  Source <- Sensor \cup {StreamItself}, Threshold <- StreamThreshold,
  failures <- streamFailures, sent <- streamSent, inARow <- streamInARow

Header == IF framing = "omrs" THEN HeaderSize ELSE 0

(* The bytes of a frame: its number and their position in it, from 1.      *)
BytesOf(f) == [i \in 1 .. Header + frames[f].size |-> <<f, i>>]
BodyOf(f) == [i \in 1 .. frames[f].size |-> <<f, Header + i>>]

StreamInit ==
  /\ framing \in {"omrs", "wild"}
  /\ frames = <<>> /\ incoming = <<>> /\ buf = <<>> /\ want = 0
  /\ stage = "closed" /\ parsed = <<>> /\ eventSource \in Sensor
  /\ Router!RouterInit

StreamTypeOK ==
  /\ stage \in {"closed", "header", "body", "parse", "publish"}
  /\ frames \in Seq([size : Nat, content : Sensor \cup {Unusable}]) /\ Len(frames) <= MaxFrames
  /\ want \in Nat /\ Len(buf) <= want /\ eventSource \in Sensor
  /\ Router!RouterTypeOK

(* read_frame, read_wild_record: recv_exactly starts with an empty buffer. *)
ReadNext ==
  /\ buf' = <<>>
  /\ IF framing = "omrs" THEN stage' = "header" /\ want' = HeaderSize
                         ELSE stage' = "body" /\ want' = RecordSize

(* _stream_until_disconnect opens a connection; run_stream_loop calls it   *)
(* again and again.                                                        *)
Connect ==
  /\ stage = "closed" /\ incoming' = <<>> /\ ReadNext
  /\ UNCHANGED <<framing, frames, parsed, eventSource, routed>>

ServerSends ==
  /\ stage # "closed" /\ Len(frames) < MaxFrames
  /\ \E size \in IF framing = "omrs" THEN BodySize ELSE {RecordSize}, c \in Sensor \cup {Unusable} :
       /\ size = 0 => c = Unusable
       /\ frames' = Append(frames, [size |-> size, content |-> c])
       /\ incoming' = incoming \o [i \in 1 .. Header + size |-> <<Len(frames) + 1, i>>]
  /\ UNCHANGED <<framing, buf, want, stage, parsed, eventSource, routed>>

Reading == stage \in {"header", "body"}

(* One recv of recv_exactly: some of the bytes, at most those wanted.      *)
Recv ==
  /\ Reading
  /\ \E k \in 1 .. Len(incoming) :
       /\ k <= want - Len(buf)
       /\ buf' = buf \o SubSeq(incoming, 1, k)
       /\ incoming' = SubSeq(incoming, k + 1, Len(incoming))
  /\ UNCHANGED <<framing, frames, want, stage, parsed, eventSource, routed>>

(* recv_exactly returns.                                                   *)
Complete_first_recv == Reading /\ buf # <<>>
Complete == Reading /\ Len(buf) = want

(* The length in a header; bytes that are no header give any length.       *)
Length(bytes) ==
  IF \E f \in DOMAIN frames : bytes = SubSeq(BytesOf(f), 1, Header)
    THEN {frames[bytes[1][1]].size}
    ELSE BodySize

HeaderIsRead ==
  /\ Complete /\ stage = "header"
  /\ want' \in Length(buf) /\ buf' = <<>> /\ stage' = "body"
  /\ UNCHANGED <<framing, frames, incoming, parsed, eventSource, routed>>

BodyIsRead ==
  /\ Complete /\ stage = "body"
  /\ parsed' = Append(parsed, buf) /\ stage' = "parse"
  /\ UNCHANGED <<framing, frames, incoming, buf, want, eventSource, routed>>

(* EOF, a timeout or another socket error, and an exception other than     *)
(* KafkaError when the event is published: what was received is dropped.   *)
ConnectionEnds ==
  /\ Reading \/ stage = "publish"
  /\ stage' = "closed" /\ incoming' = <<>> /\ buf' = <<>>
  /\ UNCHANGED <<framing, frames, want, parsed, eventSource, routed>>

(* parse_omrs_frame, parse_wild_record: the event of a body, or an         *)
(* exception: text that is not JSON, a missing or negative field, an axle  *)
(* count out of range, an event that CanonicalEvent refuses.               *)
ParseResults(bytes) ==
  {frames[f].content : f \in {g \in DOMAIN frames : bytes = BodyOf(g)}}

(* router.reset names the source of the event, never the stream itself.    *)
FrameParses ==
  /\ stage = "parse" /\ stage' = "publish"
  /\ eventSource' \in ParseResults(buf) \ {Unusable}
  /\ Router!Reset(eventSource', {eventSource', StreamItself})
  /\ UNCHANGED <<framing, frames, incoming, buf, want, parsed>>

FrameIsBad ==
  /\ stage = "parse" /\ (Unusable \in ParseResults(buf) \/ ParseResults(buf) = {})
  /\ Router!RecordFailure(StreamItself) /\ ReadNext
  /\ UNCHANGED <<framing, frames, incoming, parsed, eventSource>>

(* The event is sent, or a KafkaError is logged and the event dropped.     *)
PublishEvent ==
  /\ stage = "publish" /\ ReadNext
  /\ UNCHANGED <<framing, frames, incoming, parsed, eventSource, routed>>

StreamNext ==
  \/ Connect \/ ServerSends \/ Recv \/ HeaderIsRead \/ BodyIsRead \/ ConnectionEnds
  \/ FrameParses \/ FrameIsBad \/ PublishEvent

StreamSpec == StreamInit /\ [][StreamNext]_streamVars

---------------------------------------------------------------------------
(* What the parser gets is the body of one frame, whole, and the frames    *)
(* come in the order they were sent, each at most once: however recv cuts  *)
(* the stream up, whatever was received before a connection broke, and     *)
(* also after bodies that do not parse or are empty.                       *)
FramesAreWhole ==
  \E number \in [DOMAIN parsed -> DOMAIN frames] :
    \A i, j \in DOMAIN parsed :
      /\ parsed[i] = BodyOf(number[i])
      /\ i < j => number[i] < number[j]
=============================================================================

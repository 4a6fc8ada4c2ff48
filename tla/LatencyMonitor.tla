--------------------------- MODULE LatencyMonitor ---------------------------
(***************************************************************************)
(* The end-to-end latency monitor (services/observability/                 *)
(* latency_monitor.py).  POST /spans runs on one event loop: a request     *)
(* evicts expired traces, awaits its body, then handles its spans without  *)
(* a further await; other requests come in between.                        *)
(***************************************************************************)
EXTENDS Integers, Sequences, FiniteSets

CONSTANTS
  Trace,
  SpanChain,         \* SPAN_CHAIN, in order
  StartTime,         \* start_time_unix_nano of spans; 0 is a missing one
  Ttl,               \* TRACE_TTL_S
  SlaThreshold,      \* SLA_THRESHOLD_MS
  BodyTime,          \* bound: how long a body takes to arrive
  MaxRequests,       \* bound: requests that wait for their bodies
  MaxMonitorTime     \* bound: the clock

FirstSpan == SpanChain[1]
LastSpan == SpanChain[Len(SpanChain)]
Span == {SpanChain[i] : i \in DOMAIN SpanChain}

ASSUME LatencyAssumption ==
  /\ SpanChain \in Seq(Span) /\ Len(SpanChain) > 1
  /\ \A i, j \in DOMAIN SpanChain : SpanChain[i] = SpanChain[j] => i = j
  /\ {Ttl, SlaThreshold, BodyTime} \subseteq Nat /\ Ttl > 0
  /\ StartTime \subseteq Nat /\ 0 \in StartTime

NoTime == -1

VARIABLES
  monitorTime,  \* time.monotonic
  traceStore,   \* _trace_store: for a trace, spans with start and arrival
  traceExpiry,  \* _trace_expiry; NoTime for a trace that is not there
  requests,     \* arrival times of requests that await their bodies
  latest      \* the last latency that was observed

latencyVars == <<monitorTime, traceStore, traceExpiry, requests, latest>>

NotMeasured == [first |-> 0, last |-> 0, latency |-> 0, slowest |-> "unknown"]

LatencyInit ==
  /\ monitorTime = 0 /\ requests = {} /\ latest = NotMeasured
  /\ traceStore = [t \in Trace |-> <<>>] /\ traceExpiry = [t \in Trace |-> NoTime]

LatencyTypeOK ==
  /\ monitorTime \in 0 .. MaxMonitorTime /\ requests \subseteq 0 .. monitorTime
  /\ \A t \in Trace : DOMAIN traceStore[t] \subseteq Span
  /\ traceExpiry \in [Trace -> {NoTime} \cup Nat]

MonitorTimePasses ==
  /\ monitorTime < MaxMonitorTime /\ \A r \in requests : monitorTime < r + BodyTime
  /\ monitorTime' = monitorTime + 1
  /\ UNCHANGED <<traceStore, traceExpiry, requests, latest>>

Stored(t) == traceExpiry[t] # NoTime
Expired(t) == Stored(t) /\ monitorTime > traceExpiry[t]

(* ingest_spans until it awaits the body: _evict_expired_traces.           *)
RequestArrives ==
  /\ monitorTime \notin requests /\ Cardinality(requests) < MaxRequests
  /\ requests' = requests \cup {monitorTime}
  /\ traceStore' = [t \in Trace |-> IF Expired(t) THEN <<>> ELSE traceStore[t]]
  /\ traceExpiry' = [t \in Trace |-> IF Expired(t) THEN NoTime ELSE traceExpiry[t]]
  /\ UNCHANGED <<monitorTime, latest>>

(* ordered_times: the places of the chain whose spans are there, and the   *)
(* step to one of them from the one before it.                             *)
StagesOf(spans) == {i \in DOMAIN SpanChain : SpanChain[i] \in DOMAIN spans}
StageBefore(i, spans) ==
  CHOOSE j \in StagesOf(spans) : j < i /\ \A k \in StagesOf(spans) : k < i => k <= j
StepTo(i, spans) ==
  spans[SpanChain[i]].start - spans[SpanChain[StageBefore(i, spans)]].start

(* The first stage with the longest step; steps back in time are none.     *)
SlowestStage(spans) ==
  LET later == {i \in StagesOf(spans) : \E j \in StagesOf(spans) : j < i}
      Step(i) == StepTo(i, spans)
      slow == {i \in later : /\ Step(i) > 0
                             /\ \A j \in later : Step(j) <= Step(i) /\ (j < i => Step(j) < Step(i))}
  IN IF slow = {} THEN "unknown" ELSE SpanChain[CHOOSE i \in slow : TRUE]

With(spans, name, start) ==
  [s \in DOMAIN spans \cup {name} |->
     IF s = name THEN [start |-> start, at |-> monitorTime] ELSE spans[s]]

(* The expiry of a trace counts from its first span.                       *)
Expiry_of_last_span(t) == monitorTime + Ttl

Expiry(t) == IF Stored(t) THEN traceExpiry[t] ELSE monitorTime + Ttl

(* A start of 0 counts as none.                                            *)
Resolves(name, spans) ==
  /\ name = LastSpan /\ FirstSpan \in DOMAIN spans
  /\ spans[FirstSpan].start # 0 /\ spans[LastSpan].start # 0

(* _process_span and _compute_and_record.                                  *)
ProcessSpan(t, name, start) ==
  LET spans == With(traceStore[t], name, start)
      latency == spans[LastSpan].start - spans[FirstSpan].start
  IN IF Resolves(name, spans)
       THEN /\ latest' = [first |-> spans[FirstSpan].at, last |-> spans[LastSpan].at,
                            latency |-> latency,
                            slowest |-> IF latency > SlaThreshold THEN SlowestStage(spans)
                                        ELSE "unknown"]
            /\ traceStore' = [traceStore EXCEPT ![t] = <<>>]
            /\ traceExpiry' = [traceExpiry EXCEPT ![t] = NoTime]
       ELSE /\ traceStore' = [traceStore EXCEPT ![t] = spans]
            /\ traceExpiry' = [traceExpiry EXCEPT ![t] = Expiry(t)]
            /\ UNCHANGED latest

(* The body of a request is there.  A batch of several spans is as good as *)
(* requests with one each; a span that is not of the chain changes nothing,*)
(* and so does what is no JSON.                                            *)
BodyArrives ==
  \E r \in requests, t \in Trace, name \in Span, start \in StartTime :
    /\ requests' = requests \ {r}
    /\ ProcessSpan(t, name, start)
    /\ UNCHANGED monitorTime

LatencyNext == MonitorTimePasses \/ RequestArrives \/ BodyArrives

LatencySpec == LatencyInit /\ [][LatencyNext]_latencyVars

---------------------------------------------------------------------------
(* The two spans of a latency came no further apart than the life of a     *)
(* trace and the time for which the last request waited for its body.      *)
TakenTogether == latest.last - latest.first <= Ttl + BodyTime

(* A breach is reported with a stage of the chain that took time.          *)
BreachHasStage == latest.latency > SlaThreshold => latest.slowest \in Span \ {FirstSpan}

(* A latency is taken between spans that belong together, although a trace *)
(* is only evicted when some request happens to arrive and more spans keep *)
(* coming for it; and a breach of the limit can be put down to a stage.    *)
MeasuredTogether == TakenTogether /\ BreachHasStage
=============================================================================

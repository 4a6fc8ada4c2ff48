------------------------- MODULE MaintenanceService -------------------------
(***************************************************************************)
(* The maintenance engine (services/maintenance_engine), from readings to  *)
(* advisories.                                                             *)
(***************************************************************************)
EXTENDS Integers, Sequences, SequencesExt, FiniteSets

(* The feature extractor (features/feature_extractor.py): a window of      *)
(* readings for each asset, gaps filled by interpolation, full windows     *)
(* published as features or, with too much filled in, as                   *)
(* INSUFFICIENT_DATA. A row of a window is the topic its reading came      *)
(* from, or Filled.                                                        *)

CONSTANTS
  Asset,
  Telemetry,              \* OMRS_TOPIC, WILD_TOPIC
  Filled,                 \* a row that was interpolated
  WindowSize,             \* WINDOW_SIZE
  MaxGap,                 \* MAX_GAP_SECONDS
  InsufficientThreshold,  \* INSUFFICIENT_DATA_THRESHOLD, per cent
  Gap,                    \* seconds from the last row to a reading, as they occur
  MaxWindows              \* bound: windows published

ASSUME FeatureAssumption ==
  /\ Filled \notin Telemetry /\ WindowSize \in Nat \ {0, 1} /\ MaxGap \in Nat \ {0}
  /\ InsufficientThreshold \in 0 .. 100 /\ Gap \subseteq Nat \ {0}

VARIABLES
  buffer,             \* AssetWindow.buffer: its rows
  interpolatedCount,  \* AssetWindow.interpolated_count
  featureWindows,     \* what is on train.features.maintenance
  insufficient        \* what is on maintenance.advisories from here

featureVars == <<buffer, interpolatedCount, featureWindows, insufficient>>

ExtractorInit ==
  /\ buffer = [a \in Asset |-> <<>>]
  /\ interpolatedCount = [a \in Asset |-> 0]
  /\ featureWindows = <<>> /\ insufficient = <<>>

FeatureTypeOK ==
  /\ buffer \in [Asset -> Seq(Telemetry \cup {Filled})]
  /\ \A a \in Asset : Len(buffer[a]) < WindowSize
  /\ interpolatedCount \in [Asset -> 0 .. WindowSize - 1]
  /\ Len(featureWindows) + Len(insufficient) <= MaxWindows

(* deque(maxlen=WINDOW_SIZE): the oldest rows make room.                   *)
Latest(rows) == SubSeq(rows, 1 + (IF Len(rows) > WindowSize THEN Len(rows) - WindowSize ELSE 0), Len(rows))

(* Rows put before a reading that comes `gap` seconds after the last row.  *)
Missing(gap) ==
  IF gap <= MaxGap THEN 0
  ELSE IF gap - 1 < WindowSize - 1 THEN gap - 1 ELSE WindowSize - 1

(* Percentage of the window as interpolated_count has it.                  *)
InterpolationPct(count) == (count * 100) \div WindowSize

(* How much one gap adds to interpolated_count.                            *)
CountOf_gap(missing) == IF missing > 0 THEN 1 ELSE 0
CountOf(missing) == missing

(* _emit_window of a full window, whose state starts anew.  The window is  *)
(* given up also when _publish fails, which is caught.                     *)
EmitWindow(a, rows, count) ==
  /\ Len(featureWindows) + Len(insufficient) < MaxWindows
  /\ buffer' = [buffer EXCEPT ![a] = <<>>]
  /\ interpolatedCount' = [interpolatedCount EXCEPT ![a] = 0]
  /\ LET window == [asset |-> a, rows |-> rows, pct |-> InterpolationPct(count)]
     IN \/ count * 100 > InsufficientThreshold * WindowSize
           /\ insufficient' = Append(insufficient, window) /\ UNCHANGED featureWindows
        \/ count * 100 <= InsufficientThreshold * WindowSize
           /\ featureWindows' = Append(featureWindows, window) /\ UNCHANGED insufficient
        \/ UNCHANGED <<featureWindows, insufficient>>

(* process_message: a reading `gap` seconds after the last row; the first  *)
(* of a window has none.  Left out is what changes nothing: a reading not  *)
(* later than the last row is skipped, and one whose fields do not parse   *)
(* raises before its window is touched.  Timestamps that do not parse      *)
(* become the time of day, which gives some gap too.                       *)
ProcessReading(a, topic, gap) ==
  LET missing == IF buffer[a] = <<>> THEN 0 ELSE Missing(gap)
      rows == Latest(buffer[a] \o [i \in 1 .. missing |-> Filled] \o <<topic>>)
      count == interpolatedCount[a] + CountOf(missing)
  IN IF Len(rows) = WindowSize THEN EmitWindow(a, rows, count)
     ELSE /\ buffer' = [buffer EXCEPT ![a] = rows]
          /\ interpolatedCount' = [interpolatedCount EXCEPT ![a] = count]
          /\ UNCHANGED <<featureWindows, insufficient>>

(* The process restarts: the windows were in its memory.                   *)
ExtractorRestarts ==
  /\ buffer' = [a \in Asset |-> <<>>] /\ interpolatedCount' = [a \in Asset |-> 0]
  /\ UNCHANGED <<featureWindows, insufficient>>

ExtractorNext ==
  \/ \E a \in Asset, topic \in Telemetry, gap \in Gap : ProcessReading(a, topic, gap)
  \/ ExtractorRestarts

ExtractorSpec == ExtractorInit /\ [][ExtractorNext]_featureVars

FilledRows(window) == Cardinality({i \in DOMAIN window.rows : window.rows[i] = Filled})

-----------------------------------------------------------------------------
(* The inference service (service/maintenance_service.py with              *)
(* model/conformal_wrapper.py and common/risk_scoring.py) behind the       *)
(* feature extractor: one window after another is taken from the topic,    *)
(* the model gives a probability and the wrapper an interval around it,    *)
(* and a probability above the threshold becomes an advisory.              *)
(* Probabilities and intervals are in units of 0.0001, the precision with  *)
(* which an advisory states them.                                          *)

CONSTANTS
  Probability,       \* what the model may say of a window
  FailureThreshold,  \* FAILURE_THRESHOLD
  Quantile,          \* _quantile_90 of the calibration residuals
  MaxServiceEnds     \* bound: restarts of the service

ASSUME MaintenanceAssumption ==
  /\ Probability \subseteq 0 .. 10000 /\ FailureThreshold \in 0 .. 10000
  /\ Quantile \in 1 .. 10000

Unset == -1

VARIABLES
  windowsRead,       \* windows the consumer has processed
  windowsCommitted,  \* the committed offset
  baseline,          \* _baseline_ci_width
  maintenance,       \* MAINTENANCE_ADVISORY messages published
  serviceEnds

serviceVars == <<windowsRead, windowsCommitted, baseline, maintenance, serviceEnds>>
maintenanceVars == <<featureVars, serviceVars>>

ServiceInit ==
  /\ windowsRead = 0 /\ windowsCommitted = 0 /\ baseline = Unset
  /\ maintenance = <<>> /\ serviceEnds = 0

MaintenanceTypeOK ==
  /\ FeatureTypeOK
  /\ windowsRead \in 0 .. Len(featureWindows) /\ windowsCommitted \in 0 .. windowsRead
  /\ baseline \in {Unset} \cup 1 .. 10000 /\ serviceEnds \in 0 .. MaxServiceEnds

(* The interval of a probability, and wider by as much as a window that is *)
(* partly interpolated must be wider than the baseline, half on each side. *)
Interval(prob, extra) ==
  [lower |-> Max({0, Max({0, prob - Quantile}) - extra}),
   upper |-> Min({10000, Min({10000, prob + Quantile}) + extra})]
Width(interval) == interval.upper - interval.lower

TargetWidth(pct) == (baseline * (20 + pct)) \div 20 + 2

Extra_unclamped(prob, pct) ==
  LET short == TargetWidth(pct) - 2 * Quantile
  IN IF pct > 0 /\ baseline # Unset /\ short > 0 THEN (short + 1) \div 2 ELSE 0

Extra(prob, pct) ==
  LET short == TargetWidth(pct) - Width(Interval(prob, 0))
  IN IF pct > 0 /\ baseline # Unset /\ short > 0 THEN (short + 1) \div 2 ELSE 0

(* The first window without interpolation sets the baseline.               *)
NextBaseline(prob, pct) ==
  IF baseline = Unset /\ pct = 0 THEN Width(Interval(prob, 0)) ELSE baseline

(* riskScore = probability * 3, the tier of it.                            *)
RiskTier(prob) ==
  CASE prob * 3 >= 32000 -> 1 [] prob * 3 \in 20000 .. 31999 -> 2 [] OTHER -> 3

(* predict: windows above the threshold of the wrapper get no score.       *)
Sufficient(window) == window.pct <= InsufficientThreshold

(* _publish, to a producer there may not be; a failing send is caught.     *)
Publish(advisory) == maintenance' = Append(maintenance, advisory) \/ UNCHANGED maintenance

(* process_feature_window for the next window; predict's answer below the threshold is not published.       *)
ProcessFeatureWindow(prob) ==
  /\ windowsRead < Len(featureWindows)
  /\ LET window == featureWindows[windowsRead + 1]
         advisory == [window |-> window,
                      interval |-> Interval(prob, Extra(prob, window.pct)),
                      prob |-> prob, baseline |-> baseline, tier |-> RiskTier(prob)]
     IN /\ Sufficient(window)
        /\ baseline' = NextBaseline(prob, window.pct)
        /\ IF prob <= FailureThreshold THEN UNCHANGED maintenance
           ELSE Publish(advisory)
  /\ windowsRead' = windowsRead + 1
  /\ UNCHANGED <<windowsCommitted, serviceEnds>>

(* enable_auto_commit: what was returned before the next poll.             *)
CommitWindows ==
  /\ windowsCommitted < windowsRead /\ windowsCommitted' = windowsRead
  /\ UNCHANGED <<windowsRead, baseline, maintenance, serviceEnds>>

(* The service ends and starts again: a new wrapper, the committed offset. *)
ServiceRestarts ==
  /\ serviceEnds < MaxServiceEnds /\ serviceEnds' = serviceEnds + 1
  /\ windowsRead' = windowsCommitted /\ baseline' = Unset
  /\ UNCHANGED <<windowsCommitted, maintenance>>

ServiceNext ==
  \/ \E prob \in Probability : ProcessFeatureWindow(prob)
  \/ CommitWindows \/ ServiceRestarts

MaintenanceInit == ExtractorInit /\ ServiceInit

MaintenanceNext ==
  \/ ExtractorNext /\ UNCHANGED serviceVars
  \/ ServiceNext /\ UNCHANGED featureVars

MaintenanceSpec == MaintenanceInit /\ [][MaintenanceNext]_maintenanceVars

---------------------------------------------------------------------------
(* conformal_wrapper.py: "Enforces CI width rule: width(p) >= width(0%) *   *)
(* (1 + p/20)".                                                            *)
IntervalsWiden ==
  \A i \in DOMAIN maintenance :
    LET a == maintenance[i]
    IN a.window.pct > 0 => Width(a.interval) * 20 >= a.baseline * (20 + a.window.pct)

(* How far the rule holds for what is published, which lies near 1 and has *)
(* no room above: with a baseline, the interval of a partly interpolated   *)
(* window gets at least half of what the rule adds to the interval that    *)
(* its probability has by itself, or it is the whole of [0, 1].            *)
HalfOfTheRule ==
  \A i \in DOMAIN maintenance :
    LET a == maintenance[i]
    IN a.window.pct > 0 /\ a.baseline # Unset =>
         \/ Width(a.interval) * 40 >= Width(Interval(a.prob, 0)) * 20 + a.baseline * (20 + a.window.pct)
         \/ Width(a.interval) = 10000

(* A MAINTENANCE_ADVISORY rests on measurements: of the window behind it   *)
(* no more was interpolated than the threshold allows, it ends with a      *)
(* reading, and the data quality the advisory states is not better than    *)
(* it was - whatever gaps, stale readings and restarts there were, and     *)
(* whichever rows a long gap pushed out of the window again; and what is   *)
(* filled in widens its interval as far as HalfOfTheRule says.             *)
AdvisedOnMeasurements ==
  /\ HalfOfTheRule
  /\ \A i \in DOMAIN maintenance :
       LET window == maintenance[i].window
       IN /\ FilledRows(window) * 100 <= InsufficientThreshold * WindowSize
          /\ Last(window.rows) \in Telemetry
          /\ InterpolationPct(FilledRows(window)) <= window.pct
          /\ Len(window.rows) = WindowSize
=============================================================================

------------------------- MODULE AlertDeduplicator -------------------------
(***************************************************************************)
(* Suppression of repeated defect alerts and the update in place of        *)
(* maintenance advisories (alert_deduplicator.py).  Places are points of a *)
(* line; the key an alert is stored under rounds its place, so that an     *)
(* alert replaces an older one of its cell.                                *)
(***************************************************************************)
EXTENDS Integers, Sequences, FiniteSets

CONSTANTS Category, Place,
          SuppressionRadius, CellSize, \* 50 m; about 11 m (four decimals)
          SuppressionWindows,          \* windows the vault may give, the first at start
          AdvisedAsset,
          MaxAlertTime, MaxShown, MaxSuppressed  \* bounds

ASSUME DedupAssumption ==
  /\ CellSize \in Nat \ {0} /\ SuppressionRadius \in Nat /\ CellSize <= SuppressionRadius
  /\ Place \subseteq Nat /\ SuppressionWindows \in Seq(Nat) \ {<<>>}

VARIABLES alertTime,
          activeDefect,      \* _active_defect: key to place, first_seen, count
          suppressionWindow,
          shown,             \* alerts that were not suppressed, in order
          shortest,          \* for each of them, the shortest window since
          activeMaintenance  \* _active_maintenance: the values of each asset, 0 if none

dedupVars ==
  <<alertTime, activeDefect, suppressionWindow, shown, shortest, activeMaintenance>>
defectVars == <<activeDefect, shown, shortest>>

Key == Category \X {p \div CellSize : p \in Place}
NoEntry == [place |-> -1, first_seen |-> -1, count |-> 0]

Distance(p, q) == IF p < q THEN q - p ELSE p - q

DedupInit ==
  /\ alertTime = 0
  /\ activeDefect = [k \in Key |-> NoEntry]
  /\ suppressionWindow = Head(SuppressionWindows)
  /\ shown = <<>> /\ shortest = <<>>
  /\ activeMaintenance = [a \in AdvisedAsset |-> [probability |-> 0, ciLower |-> 0]]

DedupTypeOK ==
  /\ alertTime \in 0 .. MaxAlertTime /\ DOMAIN activeDefect = Key
  /\ suppressionWindow \in {SuppressionWindows[i] : i \in DOMAIN SuppressionWindows}
  /\ Len(shown) <= MaxShown /\ Len(shortest) = Len(shown)

(* The entries that suppress an alert of this category at this place.      *)
Suppressing_any_cell(c, p) ==
  {k \in Key : k = <<c, p \div CellSize>> /\ activeDefect[k] # NoEntry
               /\ alertTime - activeDefect[k].first_seen <= suppressionWindow}

Suppressing(c, p) ==
  {k \in Key : /\ activeDefect[k] # NoEntry /\ k[1] = c
               /\ Distance(p, activeDefect[k].place) <= SuppressionRadius
               /\ alertTime - activeDefect[k].first_seen <= suppressionWindow}

(* process_defect_alert: the first entry that suppresses it counts it.     *)
SuppressDefect(c, p) ==
  \E k \in Suppressing(c, p) :
    /\ activeDefect[k].count < MaxSuppressed
    /\ activeDefect' = [activeDefect EXCEPT ![k].count = @ + 1]
    /\ UNCHANGED <<alertTime, suppressionWindow, shown, shortest, activeMaintenance>>

ShowDefect(c, p) ==
  /\ Suppressing(c, p) = {}
  /\ Len(shown) < MaxShown
  /\ activeDefect' = [activeDefect EXCEPT ![<<c, p \div CellSize>>] =
                        [place |-> p, first_seen |-> alertTime, count |-> 0]]
  /\ shown' = Append(shown, [category |-> c, place |-> p, at |-> alertTime])
  /\ shortest' = Append(shortest, suppressionWindow)
  /\ UNCHANGED <<alertTime, suppressionWindow, activeMaintenance>>

(* process_maintenance_advisory: a field that is missing (0) is kept.      *)
AdviseMaintenance(a) ==
  /\ \E probability, ciLower \in 0 .. 1 :
       activeMaintenance' = [activeMaintenance EXCEPT ![a] =
         [probability |-> IF probability = 0 THEN @.probability ELSE probability,
          ciLower |-> IF ciLower = 0 THEN @.ciLower ELSE ciLower]]
  /\ UNCHANGED <<alertTime, suppressionWindow, defectVars>>

ReloadSuppressionWindow ==
  \E i \in DOMAIN SuppressionWindows :
    /\ suppressionWindow' = SuppressionWindows[i]
    /\ shortest' = [j \in DOMAIN shortest |->
                      IF suppressionWindow' < shortest[j] THEN suppressionWindow' ELSE shortest[j]]
    /\ UNCHANGED <<alertTime, activeDefect, shown, activeMaintenance>>

AlertTimePasses ==
  /\ alertTime < MaxAlertTime /\ alertTime' = alertTime + 1
  /\ UNCHANGED <<suppressionWindow, defectVars, activeMaintenance>>

DedupNext ==
  \/ \E c \in Category, p \in Place : SuppressDefect(c, p) \/ ShowDefect(c, p)
  \/ \E a \in AdvisedAsset : AdviseMaintenance(a)
  \/ ReloadSuppressionWindow \/ AlertTimePasses

DedupSpec == DedupInit /\ [][DedupNext]_dedupVars

---------------------------------------------------------------------------
(* Two alerts of one category within the radius are both shown only if     *)
(* they are further apart in time than the shortest window that was in     *)
(* force since the first: a rounded key never replaces an entry that would *)
(* still suppress, unless the window grows afterwards.                     *)
RepeatsAreSuppressed ==
  \A i, j \in DOMAIN shown :
    i < j /\ shown[i].category = shown[j].category
          /\ Distance(shown[i].place, shown[j].place) <= SuppressionRadius
    => shown[j].at - shown[i].at > shortest[i]
=============================================================================

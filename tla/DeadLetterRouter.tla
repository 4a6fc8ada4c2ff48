-------------------------- MODULE DeadLetterRouter --------------------------
(***************************************************************************)
(* The dead-letter router of the legacy adapters                           *)
(* (services/adapters/shared/dead_letter.py): parse failures are counted   *)
(* by source; at the threshold an alert and the raw payload are sent and   *)
(* the count starts again.  A successful parse resets the source it names. *)
(* Either of the two messages may fail to be sent; that is only logged.    *)
(***************************************************************************)
EXTENDS Integers

CONSTANTS
  Source,     \* source identifiers the adapter uses
  Threshold   \* failure_threshold

ASSUME RouterAssumption == Threshold \in Nat \ {0}

VARIABLES
  failures,  \* _failures
  sent,      \* messages sent by the last call: kind and source
  inARow     \* failures of a source since its last good data, cut off at Threshold

routerVars == <<failures, sent, inARow>>

Kind == {"LEGACY_ADAPTER_FAILURE", "dead-letter"}

RouterTypeOK ==
  /\ failures \in [Source -> 0..Threshold - 1]
  /\ sent \subseteq Kind \X Source
  /\ inARow \in [Source -> 0..Threshold]

RouterInit ==
  /\ failures = [s \in Source |-> 0]
  /\ sent = {}
  /\ inARow = [s \in Source |-> 0]

AtThreshold(s) == failures[s] + 1 >= Threshold

(* record_failure, with _route_to_dead_letter: two sends, each in a try    *)
(* block of its own.                                                       *)
RecordFailure(s) ==
  /\ IF AtThreshold(s)
       THEN sent' \in SUBSET (Kind \X {s}) /\ failures' = [failures EXCEPT ![s] = 0]
       ELSE sent' = {} /\ failures' = [failures EXCEPT ![s] = @ + 1]
  /\ inARow' = [inARow EXCEPT ![s] = IF @ < Threshold THEN @ + 1 ELSE @]

(* reset, after good data of the sources G.                                *)
Reset(s, G) ==
  /\ failures' = [failures EXCEPT ![s] = 0] /\ sent' = {}
  /\ inARow' = [x \in Source |-> IF x \in G THEN 0 ELSE inARow[x]]

(* Good data for which the adapter calls no reset.                         *)
NoReset(G) ==
  /\ sent' = {} /\ inARow' = [x \in Source |-> IF x \in G THEN 0 ELSE inARow[x]]
  /\ UNCHANGED failures

(* A source is reported only after Threshold failures in a row, and no     *)
(* failure of a shorter row is forgotten.                                  *)
Earned(s) == \A k \in Kind : <<k, s>> \in sent => inARow[s] = Threshold
Counted(s) == inARow[s] < Threshold => failures[s] = inARow[s]
=============================================================================

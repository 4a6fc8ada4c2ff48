--------------------------- MODULE CircularBuffer ---------------------------
(***************************************************************************)
(* The event buffer of an edge node                                        *)
(* (services/edge_node/buffer/circular_buffer.py): a SQLite table with at  *)
(* most MaxRows unacknowledged events, ordered by sensor timestamp.  Every *)
(* call runs in one transaction under one lock, so it is one step here,    *)
(* and the table survives a restart of the node.                           *)
(***************************************************************************)
EXTENDS Integers, Sequences, FiniteSets

CONSTANTS
  Event,      \* event ids (column event_id, UNIQUE)
  Timestamp,  \* column timestamp_utc of each event; ties are possible
  MaxRows     \* max_rows

VARIABLES
  rows,     \* table events: the ids not acknowledged yet
  evicted,  \* table overflow_log: ids that were overwritten
  written,  \* ghost: every id write() was called with
  acked     \* ghost: every id ack() was called with

bufferVars == <<rows, evicted, written, acked>>

TypeOK ==
  /\ rows \subseteq Event
  /\ evicted \subseteq Event
  /\ written \subseteq Event
  /\ acked \subseteq Event

Init == rows = {} /\ evicted = {} /\ written = {} /\ acked = {}

-----------------------------------------------------------------------------

(* SELECT ... WHERE acked=0 ORDER BY timestamp_utc ASC LIMIT 1             *)
Oldest(R) == {o \in R : \A e \in R : Timestamp[o] <= Timestamp[e]}

(* read_oldest(n): the n oldest rows in timestamp order; rows of the same  *)
(* timestamp may come in any order.                                        *)
Batches(n) ==
  LET size == IF Cardinality(rows) < n THEN Cardinality(rows) ELSE n IN
  {b \in [1..size -> rows] :
     /\ \A i, j \in 1..size : i < j => /\ b[i] # b[j]
                                       /\ Timestamp[b[i]] <= Timestamp[b[j]]
     /\ \A i \in 1..size, e \in rows \ {b[j] : j \in 1..size} :
          Timestamp[b[i]] <= Timestamp[e]}

(* The comparison of write(): the table holds max_rows events or more.     *)
Full == Cardinality(rows) >= MaxRows

(* The overflow branch of write(): the victim goes to overflow_log and out *)
(* of the table, and then INSERT OR IGNORE stores the new event.           *)
Overwrite(o, e) ==
  /\ rows' = (rows \ {o}) \cup {e}
  /\ evicted' = evicted \cup {o}

(* write(event).  The count is compared before the INSERT, also when the   *)
(* id is already stored and the INSERT is ignored.                         *)
Write(e) ==
  /\ written' = written \cup {e}
  /\ \/ ~Full /\ rows' = rows \cup {e} /\ UNCHANGED evicted
     \/ Full /\ \E o \in Oldest(rows) : Overwrite(o, e)
  /\ UNCHANGED acked

(* ack(event_id): the row is marked and deleted in one transaction.  The   *)
(* id may have been evicted in the meantime; then nothing is deleted.      *)
Ack(e) ==
  /\ rows' = rows \ {e}
  /\ acked' = acked \cup {e}
  /\ UNCHANGED <<evicted, written>>

-----------------------------------------------------------------------------
(* The table never outgrows its limit, whatever is written again,          *)
(* acknowledged late or overwritten.                                       *)
CapacityBound == Cardinality(rows) <= MaxRows

(* test_duplicate_event_id_ignored: writing an id that is stored already   *)
(* leaves the table as it is.  The code evicts a row first when the table  *)
(* is full.                                                                *)
DuplicateIsIgnored ==
  [][\A e \in rows : Write(e) => rows' = rows]_bufferVars
=============================================================================

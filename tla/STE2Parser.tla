----------------------------- MODULE STE2Parser -----------------------------
(***************************************************************************)
(* What the collector makes of one exchange with a gateway                 *)
(* (sensors/ste2_client.py and ste2_parser.py): pure functions from the    *)
(* two documents of the device to samples.                                 *)
(*                                                                         *)
(* An entry of values.xml is the record of its fields, with "" for a field *)
(* that is missing or empty.  Numbers are tenths, as the device prints     *)
(* them; NoValue stands for a text float() refuses.  The spelling of the   *)
(* XML, the name of the sensor and its SenId (copied to hardware_id, which *)
(* no control depends on) are left out.                                    *)
(***************************************************************************)
EXTENDS Integers, Sequences

CONSTANTS
  Refs,        \* gateway_ref: the ID of an entry
  NoValue,     \* value=None
  Sentinel     \* -999.9: the probe is absent or out of range

Kinds == {"temperature", "humidity", "flood", "contact", "motion", "smoke", "unknown"}

Entries == [id: Refs \cup {""}, unit: STRING, raw: Int \cup {NoValue},
            state: STRING, status: STRING, alarm: STRING]
Samples == [kind: Kinds, value: Int \cup {NoValue}, state: STRING, alarm: BOOLEAN]

\* A unit the table does not know makes an unknown kind.
InferKind(unit) == CASE unit \in {"C", "F"} -> "temperature"
                     [] unit = "%"          -> "humidity"
                     [] unit = "WLD"        -> "flood"
                     [] OTHER               -> "unknown"

IsBinary(kind) == kind \in {"flood", "contact", "motion", "smoke"}

Valid_SentinelKept(entry) ==
  entry.raw # NoValue /\ entry.state = "1" /\ entry.unit # ""
Valid(entry) ==
  /\ entry.raw # NoValue /\ entry.raw # Sentinel
  /\ entry.state = "1"
  /\ entry.unit # ""

\* The value of a valid entry: 0 or 1 for a detector, the measure otherwise.
ParsedValue(entry) ==
  IF ~ Valid(entry) THEN NoValue
  ELSE IF ~ IsBinary(InferKind(entry.unit)) THEN entry.raw
  ELSE IF entry.alarm = "1" \/ entry.raw # 0 THEN 1 ELSE 0

\* status/state, or State where the device has no status.
StatusState(entry) == IF entry.status # "" THEN entry.status ELSE entry.state

ParseEntry(entry) ==
  [ref |-> entry.id,
   sample |-> [kind |-> InferKind(entry.unit), value |-> ParsedValue(entry),
               state |-> StatusState(entry), alarm |-> entry.alarm = "1"]]

Named_Always(entry) == TRUE
Named(entry) == entry.id # ""
\* Entry after entry; those without an ID are skipped.
ParseValues(document) ==
  LET Parsed[n \in 0..Len(document)] ==
        IF n = 0 THEN <<>>
        ELSE IF ~ Named(document[n]) THEN Parsed[n - 1]
        ELSE Append(Parsed[n - 1], ParseEntry(document[n]))
  IN  Parsed[Len(document)]

\* An exchange is the outcome of GET /values.xml, then of GET / for the
\* identities: "ok", "http_error" (unreachable, too slow, or a status of
\* failure) or "not_xml".  Only an HTTP error of the second is forgiven.
Outcomes == [values: STRING, page: STRING, entries: Seq(Entries)]
Fetched(exchange) ==
  exchange.values = "ok" /\ exchange.page \in {"ok", "http_error"}
=============================================================================

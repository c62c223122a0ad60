---------------------------- MODULE ReadingsStore ----------------------------
(***************************************************************************)
(* The readings of the sensors as the database keeps them and the API       *)
(* serves them: the hypertable with its retention, one continuous aggregate *)
(* with its refresh policy (alembic/versions/c38642b6860b_schema_initial),  *)
(* and the queries of sensors/sensors_service.py.                           *)
(*                                                                          *)
(* readings_1min and readings_1hour are the same text with other intervals: *)
(* Bucket, StartOffset, EndOffset and Every are its parameters.  TimescaleDB *)
(* itself is external; what the migration asks of it is modelled from its    *)
(* arguments: a refresh recomputes the buckets lying wholly inside           *)
(* [now - start_offset, now - end_offset) that were written to since the     *)
(* last refresh; retention drops whole chunks.                               *)
(*                                                                          *)
(* Bounds: MaxClock, MaxReadings, MaxFaults (outages and failed     *)
(* runs), MaxEdits.                                                        *)
(***************************************************************************)
EXTENDS Integers, Sequences, FiniteSets, FiniteSetsExt, SequencesExt

CONSTANTS
  Sensors,
  Owner,        \* sensor |-> account
  Values,       \* what a sensor measures
  Bucket,       \* width of a bucket, in ticks
  StartOffset, EndOffset, Every,  \* the refresh policy
  Chunk,        \* width of a chunk of the hypertable
  Retention,    \* drop_after of the retention policy
  Lag,          \* ticks from a sample to the commit of its reading
  Freshness,    \* sensor_offline_after_seconds
  MaxLimit,     \* rows of an answer: _MAX_LIMIT, and le of the route
  Asked,        \* dates a client bounds its question by, in whole buckets
  None,
  MaxClock, MaxReadings, MaxFaults, MaxEdits

Accounts == {Owner[s] : s \in Sensors}

\* A row of the view, for one sensor and one bucket.
ViewRow == [account : Accounts, n : Nat, sum : Int, min : Int, max : Int]

ASSUME ReadingsAssumption ==
  /\ IsFiniteSet(Sensors)
  /\ Bucket \in Nat \ {0} /\ Chunk \in Nat \ {0} /\ Every \in Nat \ {0}
  /\ EndOffset + Bucket <= StartOffset
  /\ StartOffset <= Retention  \* 2 hours and 3 days against 30 days
  /\ Lag <= EndOffset          \* a commit takes less than a minute
  /\ Freshness < Retention
  /\ {StartOffset, EndOffset, Retention, Lag, Freshness, MaxClock, MaxReadings} \subseteq Nat
  /\ MaxLimit \in Nat \ {0}
  /\ \A t \in Asked : t \in Nat /\ t % Bucket = 0
  /\ Values \subseteq Int
  /\ None \notin Int /\ None \notin ViewRow
  /\ Owner \in [Sensors -> Accounts]

VARIABLES
  now,
  up,          \* the host is running
  readings,    \* the hypertable
  sensor,      \* sensors: is_active and last_seen_at
  aggregate,   \* the materialised view: (sensor, bucket) |-> row, or None
  dirty,       \* buckets written to since they were last refreshed, or never
  refreshAt,   \* next start of the refresh job
  faults, edits,
  committed,   \* history: every reading ever committed
  lastRefresh, longestGap  \* history: last refresh, longest time without one

vars == <<now, up, readings, sensor, aggregate, dirty, refreshAt, faults, edits,
          committed, lastRefresh, longestGap>>

Buckets == {b \in 0..MaxClock : b % Bucket = 0}

\* Mutant: a bucket is named by its end.
BucketOf_End(t) == t - (t % Bucket) + Bucket

\* time_bucket: a bucket is named by its start.
BucketOf(t) == t - (t % Bucket)

-----------------------------------------------------------------------------
\* Mutant: the view groups by account and bucket.
Aggregate_WholeAccount(s, b, rows) ==
  LET in == {r \in rows : BucketOf(r.at) = b}
  IN IF in = {} THEN None
     ELSE [account |-> Owner[s], n |-> Cardinality(in),
           sum |-> MapThenSumSet(LAMBDA r : r.value, in),
           min |-> Min({r.value : r \in in}), max |-> Max({r.value : r \in in})]

\* GROUP BY account_id, sensor_id, bucket: one row of the view.  The average
\* is kept as the sum and the number of values.
Aggregate(s, b, rows) ==
  LET in == {r \in rows : r.sensor = s /\ BucketOf(r.at) = b}
  IN IF in = {} THEN None
     ELSE [account |-> Owner[s], n |-> Cardinality(in),
           sum |-> MapThenSumSet(LAMBDA r : r.value, in),
           min |-> Min({r.value : r \in in}), max |-> Max({r.value : r \in in})]

\* Mutant: the policy forgets that the window is cut to whole buckets.
Window_Skewed == {b \in Buckets : b - Bucket >= now - StartOffset /\ b + Bucket <= now - EndOffset}

\* The buckets a refresh at this moment covers.
Window == {b \in Buckets : b >= now - StartOffset /\ b + Bucket <= now - EndOffset}

Init ==
  /\ now = 0 /\ up = TRUE
  /\ readings = {} /\ committed = {}
  /\ sensor = [s \in Sensors |-> [active |-> TRUE, lastSeen |-> None]]
  /\ aggregate = [sb \in Sensors \X Buckets |-> None]  \* WITH NO DATA
  /\ dirty = Buckets
  /\ refreshAt = Every /\ lastRefresh = 0 /\ longestGap = 0
  /\ faults = 0 /\ edits = 0

\* The collector's transaction: a reading and last_seen_at, of a sample taken
\* at most Lag before.  The collector polls one cycle after another.
Collect(s, at, v) ==
  /\ up /\ sensor[s].active /\ Cardinality(committed) < MaxReadings
  /\ at <= now /\ at >= now - Lag
  /\ sensor[s].lastSeen # None => sensor[s].lastSeen < at
  /\ LET r == [sensor |-> s, account |-> Owner[s], at |-> at, value |-> v]
     IN readings' = readings \cup {r} /\ committed' = committed \cup {r}
  /\ sensor' = [sensor EXCEPT ![s].lastSeen = at]
  /\ dirty' = dirty \cup {BucketOf(at)}
  /\ UNCHANGED <<now, up, aggregate, refreshAt, faults, edits, lastRefresh, longestGap>>

\* PATCH /sensors/{id} with is_active.
SetActive(s) ==
  /\ up /\ edits < MaxEdits
  /\ edits' = edits + 1
  /\ sensor' = [sensor EXCEPT ![s].active = ~@]
  /\ UNCHANGED <<now, up, readings, aggregate, dirty, refreshAt, faults, committed,
                 lastRefresh, longestGap>>

Due == up /\ refreshAt <= now

\* One run of the refresh job.
Refresh ==
  /\ Due
  /\ aggregate' = [sb \in DOMAIN aggregate |->
       IF sb[2] \in Window \cap dirty THEN Aggregate(sb[1], sb[2], readings) ELSE aggregate[sb]]
  /\ dirty' = dirty \ Window
  /\ refreshAt' = now + Every
  /\ lastRefresh' = now
  /\ longestGap' = Max({longestGap, now - lastRefresh})
  /\ UNCHANGED <<now, up, readings, sensor, faults, edits, committed>>

\* A run fails and is tried again at the next interval.
RefreshFails ==
  /\ Due /\ faults < MaxFaults
  /\ faults' = faults + 1
  /\ refreshAt' = now + Every
  /\ UNCHANGED <<now, up, readings, sensor, aggregate, dirty, edits, committed,
                 lastRefresh, longestGap>>

\* A chunk goes when all it can hold is old enough.
Droppable(c) == c + Chunk <= now - Retention

DropChunk(c) ==
  /\ up /\ Droppable(c)
  /\ \E r \in readings : r.at \in c..(c + Chunk - 1)
  /\ readings' = {r \in readings : r.at \notin c..(c + Chunk - 1)}
  /\ UNCHANGED <<now, up, sensor, aggregate, dirty, refreshAt, faults, edits, committed,
                 lastRefresh, longestGap>>

\* The host loses power, or comes back: jobs that became due then run first.
Outage ==
  /\ up /\ faults < MaxFaults
  /\ up' = FALSE /\ faults' = faults + 1
  /\ UNCHANGED <<now, readings, sensor, aggregate, dirty, refreshAt, edits, committed,
                 lastRefresh, longestGap>>

Restart ==
  /\ ~up /\ up' = TRUE
  /\ UNCHANGED <<now, readings, sensor, aggregate, dirty, refreshAt, faults, edits, committed,
                 lastRefresh, longestGap>>

\* The scheduler starts a job that is due before the next tick.
Tick ==
  /\ now < MaxClock /\ ~Due
  /\ now' = now + 1
  /\ UNCHANGED <<up, readings, sensor, aggregate, dirty, refreshAt, faults, edits, committed,
                 lastRefresh, longestGap>>

Next ==
  \/ \E s \in Sensors, v \in Values, at \in 0..MaxClock : Collect(s, at, v)
  \/ \E s \in Sensors : SetActive(s)
  \/ Refresh \/ RefreshFails
  \/ \E c \in {c \in 0..MaxClock : c % Chunk = 0} : DropChunk(c)
  \/ Outage \/ Restart \/ Tick

Spec == Init /\ [][Next]_vars

-----------------------------------------------------------------------------
(* The queries, on the state they are answered in. *)

\* start <= t < end, either may be missing.
Within(t, start, end) == (start = None \/ t >= start) /\ (end = None \/ t < end)

\* Mutant: the end of the range is included.
BucketWithin_Closed(b, start, end) == (start = None \/ b >= start) /\ (end = None \/ b <= end)

BucketWithin(b, start, end) == Within(b, start, end)

\* WHERE of both queries: the tenant's rows, of one sensor if the client names it.
Selects(only, s) == only = None \/ only = s

\* ORDER BY key DESC: rows with equal keys come in any order.
Newest(rows, key) ==
  {seq \in SetToSeqs(rows) : \A i, j \in DOMAIN seq : i < j => key[seq[i]] >= key[seq[j]]}

\* LIMIT and OFFSET, the limit cut to _MAX_LIMIT.
Cap(limit) == Min({limit, MaxLimit})
Page(seq, limit, offset) == SubSeq(seq, offset + 1, Min({offset + Cap(limit), Len(seq)}))

RawRows(acc, only, start, end) ==
  {r \in readings : r.account = acc /\ Selects(only, r.sensor) /\ Within(r.at, start, end)}

\* The orders the raw query may return its rows in.
RawReadings(acc, only, start, end) ==
  Newest(RawRows(acc, only, start, end), [r \in readings |-> r.at])

\* The rows of the view, as (sensor, bucket) pairs.
AggregatedRows(acc, only, start, end) ==
  {sb \in DOMAIN aggregate :
     /\ aggregate[sb] # None /\ aggregate[sb].account = acc
     /\ Selects(only, sb[1]) /\ BucketWithin(sb[2], start, end)}

\* The orders the aggregated query may return its rows in.
AggregatedReadings(acc, only, start, end) ==
  Newest(AggregatedRows(acc, only, start, end), [sb \in DOMAIN aggregate |-> sb[2]])

\* DISTINCT ON (sensor_id) ... ORDER BY recorded_at DESC.
LatestReadings(acc) ==
  {r \in readings : r.account = acc /\ \A x \in readings : x.sensor = r.sensor => x.at <= r.at}

\* _offline_cutoff, computed when the request begins; the SELECT is later.
Cutoff(asked) == asked - Freshness

\* Mutant: the boundary is left out here and kept in the query.
IsOnline_Strict(s, asked) ==
  sensor[s].active /\ sensor[s].lastSeen # None /\ sensor[s].lastSeen > Cutoff(asked)

\* The flag of a sensor in GET /sensors.
IsOnline(s, asked) ==
  sensor[s].active /\ sensor[s].lastSeen # None /\ sensor[s].lastSeen >= Cutoff(asked)

\* sensors_active of the dashboard, counted by the database.
SensorsActive(acc, asked) ==
  Cardinality({s \in Sensors : /\ Owner[s] = acc /\ sensor[s].active
                               /\ sensor[s].lastSeen # None
                               /\ sensor[s].lastSeen >= Cutoff(asked)})

-----------------------------------------------------------------------------
Rows == [sensor : Sensors, account : Accounts, at : 0..MaxClock, value : Values]

\* Types of the tables, the view and the job.
TypeOK ==
  /\ now \in 0..MaxClock /\ up \in BOOLEAN
  /\ readings \subseteq committed /\ committed \subseteq Rows
  /\ sensor \in [Sensors -> [active : BOOLEAN, lastSeen : 0..now \cup {None}]]
  /\ aggregate \in [Sensors \X Buckets -> ViewRow \cup {None}]
  /\ dirty \subseteq Buckets
  /\ refreshAt \in 0..(MaxClock + Every) /\ lastRefresh \in 0..now /\ longestGap \in 0..now

\* A row of the view tells what was measured, for good: refreshed after late
\* readings, never emptied by the retention that removes the readings it was
\* computed from (migration:291-329).
HistoryMatches ==
  \A s \in Sensors, b \in Buckets \ dirty :
    LET measured == {r \in committed : r.sensor = s /\ r.at >= b /\ r.at < b + Bucket}
        row == aggregate[<<s, b>>]
    IN /\ (row = None) <=> (measured = {})
       /\ row # None =>
            /\ row.n = Cardinality(measured) /\ row.account = Owner[s]
            /\ row.sum = FoldSet(LAMBDA r, acc : r.value + acc, 0, measured)
            /\ \A r \in measured : row.min <= r.value /\ r.value <= row.max

\* As long as the refresh never pauses for longer than the window is wide
\* (start_offset less end_offset and a bucket), no reading is left out of the
\* view when its bucket leaves the window.  After a longer outage the last
\* minutes before it stay out of the view for ever (migration:347-358).
MaterialisedInTime ==
  Max({longestGap, now - lastRefresh}) <= StartOffset - EndOffset - Bucket =>
    \A r \in committed : BucketOf(r.at) < now - StartOffset => BucketOf(r.at) \notin dirty

\* A page tells everything of bucket b: it is between the page's first row
\* and its last, or the page is the first, or not full.
Tells(page, BucketAt(_), limit, offset, b) ==
  /\ offset = 0 \/ (page # <<>> /\ BucketAt(page[1]) > b)
  /\ Len(page) < Cap(limit) \/ BucketAt(page[Len(page)]) < b

\* The two shapes of GET /readings agree, page by page, as far as both pages
\* tell.  For each sensor and bucket the view has caught up with: a raw
\* reading has its row in the aggregated answer, and, as long as the retention
\* keeps the whole bucket, a row has its readings in the raw answer, although
\* limits cut the two answers at different dates (sensors_service.py:127-206).
AnswersAgree ==
  \A acc \in Accounts, only \in Sensors \cup {None}, start, end \in Asked \cup {None} :
  \A rawList \in RawReadings(acc, only, start, end) :
  \A aggList \in AggregatedReadings(acc, only, start, end) :
  \A limit \in 1..MaxLimit, offset \in 0..MaxReadings :
    LET raw == Page(rawList, limit, offset)
        agg == Page(aggList, limit, offset)
    IN /\ \A i \in DOMAIN raw :
            LET b == BucketOf(raw[i].at)
            IN b \notin dirty /\ Tells(agg, LAMBDA sb : sb[2], limit, offset, b) =>
                 \E j \in DOMAIN agg : agg[j] = <<raw[i].sensor, b>>
       /\ \A j \in DOMAIN agg :
            LET b == agg[j][2]
            IN /\ b \notin dirty /\ b > now - Retention
               /\ Tells(raw, LAMBDA r : BucketOf(r.at), limit, offset, b)
               => \E i \in DOMAIN raw : raw[i].sensor = agg[j][1] /\ BucketOf(raw[i].at) = b

\* The dashboard counts the sensors that GET /sensors flags online, computed
\* in the database for one and in Python for the other: a request that began
\* later counts no more, and less only the sensors whose freshness ran out in
\* between.  A sensor counted has a latest reading that shows it, as long as
\* the cutoff is within the retention (sensors_service.py:71-77, 228-245).
OnlineAgrees ==
  \A acc \in Accounts, listed \in 0..now :
    LET online == {s \in Sensors : Owner[s] = acc /\ IsOnline(s, listed)}
    IN /\ \A counted \in listed..now :
            SensorsActive(acc, counted) =
              Cardinality({s \in online : sensor[s].lastSeen >= Cutoff(counted)})
       /\ Cutoff(listed) >= now - Retention =>
            \A s \in online : \E r \in LatestReadings(acc) :
              r.sensor = s /\ r.at >= Cutoff(listed)

=============================================================================

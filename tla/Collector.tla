----------------------------- MODULE Collector -----------------------------
(***************************************************************************)
(* The collector process (collector/collector_service.py and __main__.py): *)
(* an endless loop of cycles; a cycle polls the gateways one after the     *)
(* other; a poll fetches samples, provisions the sensors they name, writes *)
(* the readings in one transaction, then publishes and evaluates them.     *)
(*                                                                         *)
(* A step ends where the coroutine awaits something another process can    *)
(* change or that can fail.  The awaits inside the loop over the samples   *)
(* only write to the open transaction, which nobody else sees: one step    *)
(* per sample.  Columns without influence on control (unit, hardware_id,   *)
(* label, last_polled_at) are left out.  A sensor is named by its gateway  *)
(* and its gateway_ref, the pair the table declares unique.                *)
(*                                                                         *)
(* The code contains two kinds of failure: any exception of the fetch, and *)
(* a SQLAlchemyError of the transaction.  Every other one (OSError or      *)
(* TimeoutError of the connection to the database, the publisher, the      *)
(* evaluator) leaves run_cycle() for the loop of __main__.py.              *)
(***************************************************************************)
EXTENDS STE2Parser, FiniteSets

CONSTANTS
  Accounts, Gateways,
  AccountOf,     \* the account a gateway is created for
  NoGateway,     \* no poll is under way
  Exchanges,     \* what a gateway can answer: outcomes and entries
  PatchKinds,    \* kinds a user gives to a sensor
  MaxPolls,      \* bound: polls that got an answer
  MaxCrashes,    \* bound: deaths of the process
  MaxRaises,     \* bound: exceptions that leave run_cycle()
  MaxPatches     \* bound: PATCH /sensors/{id}

ASSUME ConstantsAssumption ==
  /\ AccountOf \in [Gateways -> Accounts]
  /\ NoGateway \notin Gateways
  /\ PatchKinds \subseteq Kinds
  /\ Exchanges \subseteq Outcomes
  /\ Sentinel \notin {0, 1}
  /\ {MaxPolls, MaxCrashes, MaxRaises, MaxPatches} \subseteq Nat

VARIABLES
  gateways,   \* table gateways
  sensors,    \* table sensors
  readings,   \* table readings
  pc, queue, gateway, batch,   \* the coroutine run_cycle()
  now, existing, nextIndex,    \* locals of _poll_gateway()
  written,    \* its transaction: what the next COMMIT inserts and updates
  publishing, evaluating,      \* lists `published` and `events`
  published, evaluated,        \* history: readings handed over
  patching,   \* PATCHes between their SELECT and their COMMIT
  cycle,      \* history: gateways the cycle set out to poll, those it did, and
              \* whether an exception ended it
  chosen,     \* history: last is_active a user asked for
  detectors,  \* history: sensors the collector has stored as binary
  alarms,     \* history: alarms of active detectors a poll met, as (sensor, date)
  dropped,    \* history: dates of the polls whose transaction did not commit
  interrupted, \* history: dates of the polls cut off in their hand-over
  polls, crashes, raises, patches

tables == <<gateways, sensors, readings>>
locals == <<gateway, batch, now, existing, nextIndex, written>>
outgoing == <<publishing, evaluating>>
handed == <<published, evaluated>>
flags == <<chosen, detectors, alarms, dropped, interrupted>>
api == <<patching, patches>>
bounds == <<polls, crashes, raises, api>>
vars == <<tables, pc, queue, locals, outgoing, handed, cycle, flags, bounds>>

----------------------------------------------------------------------------
SensorIds == Gateways \X Refs
Absent == [state |-> "absent"]
SensorRow == [state: {"present"}, index: Nat, kind: Kinds, active: BOOLEAN,
              seen: Nat]
Exists(x) == sensors[x].state = "present"
ReadingId == [sensor: SensorIds, at: Nat]
Patch == [sensor: SensorIds, active: BOOLEAN, kind: PatchKinds, from: SensorRow]
NoWrites == [fresh |-> {}, kinds |-> {}, rows |-> <<>>]
NoSensors == [r \in Refs |-> Absent]
MaxOf(S) == CHOOSE n \in S : \A m \in S : m <= n

MaxIndex_OfGateway(g) ==
  MaxOf({0} \cup {sensors[x].index :
                    x \in {y \in SensorIds : Exists(y) /\ y[1] = g}})
\* coalesce(max(device_index), 0) over the sensors of the gateway's account.
MaxIndex(g) ==
  MaxOf({0} \cup {sensors[x].index :
    x \in {y \in SensorIds : Exists(y) /\ AccountOf[y[1]] = AccountOf[g]}})

\* A sensor of a binary kind is present while the device reports its state,
\* whatever the value; another one while the parser finds its value valid.
Present(kind, s) == IF IsBinary(kind) THEN s.state \in {"1", "2"}
                    ELSE s.value # NoValue
Detected(s) == s.state = "2" \/ s.alarm \/ (s.value # NoValue /\ s.value > 0)
ReadingValue(kind, s) == IF ~ IsBinary(kind) THEN s.value
                         ELSE IF Detected(s) THEN 1 ELSE 0

NextKind_Forgetful(kind, s) == s.kind
\* A known kind replaces the sensor's, an unknown one does not.
NextKind(kind, s) == IF s.kind # "unknown" THEN s.kind ELSE kind

----------------------------------------------------------------------------
(* The cycle.                                                              *)

\* No poll is under way: the locals of _poll_gateway() are out of scope.
NoPoll == /\ gateway' = NoGateway /\ batch' = <<>> /\ now' = 0
          /\ existing' = NoSensors /\ nextIndex' = 0 /\ written' = NoWrites

\* Nothing ever sets gateways.is_active to FALSE: every gateway is polled.
StartCycle ==
  /\ pc = "sleep"
  /\ pc' = "next" /\ queue' = gateways
  /\ cycle' = [due |-> gateways, done |-> {}, cut |-> FALSE]
  /\ UNCHANGED <<tables, locals, outgoing, handed, flags, bounds>>

\* The SELECT of the gateways raises: nothing is polled in this cycle.
StartFails ==
  /\ pc = "sleep" /\ raises < MaxRaises
  /\ raises' = raises + 1
  /\ cycle' = [due |-> gateways, done |-> {}, cut |-> TRUE]
  /\ UNCHANGED <<tables, pc, queue, locals, outgoing, handed, flags, polls, crashes, api>>

EndCycle == /\ pc = "next" /\ queue = {} /\ pc' = "sleep"
            /\ UNCHANGED <<tables, queue, locals, outgoing, handed, cycle,
                           flags, bounds>>

Attempt(g) == /\ pc = "next" /\ g \in queue
              /\ queue' = queue \ {g}
              /\ cycle' = [cycle EXCEPT !.done = @ \cup {g}]

FetchFails_EndsCycle(g, x) ==
  /\ ~ Fetched(x) /\ pc = "next" /\ g \in queue /\ pc' = "sleep" /\ queue' = {}
  /\ UNCHANGED <<tables, locals, outgoing, handed, cycle, flags, bounds>>
\* Any exception of the client: logged, and on to the next gateway.
FetchFails(g, x) ==
  /\ Attempt(g) /\ ~ Fetched(x)
  /\ UNCHANGED <<tables, pc, locals, outgoing, handed, flags, bounds>>

\* The gateway answers; `now` is later than that of every earlier poll.
Fetch(g, x) ==
  /\ Attempt(g) /\ Fetched(x) /\ polls < MaxPolls
  /\ pc' = "load" /\ gateway' = g /\ batch' = ParseValues(x.entries)
  /\ polls' = polls + 1 /\ now' = polls + 1
  /\ UNCHANGED <<tables, existing, nextIndex, written, outgoing, handed,
                 flags, crashes, raises, api>>

\* SELECT the sensors of the gateway and the account's highest index, which
\* only this process changes.
LoadSensors ==
  /\ pc = "load" /\ pc' = "samples"
  /\ existing' = [r \in Refs |-> sensors[<<gateway, r>>]]
  /\ nextIndex' = MaxIndex(gateway) + 1
  /\ UNCHANGED <<tables, queue, gateway, batch, now, written, outgoing,
                 handed, cycle, flags, bounds>>

NewSensor_SeenAtOnce(s) ==
  [state |-> "present", index |-> nextIndex, kind |-> s.kind, active |-> TRUE,
   seen |-> now]
NewSensor(s) == [state |-> "present", index |-> nextIndex, kind |-> s.kind,
                 active |-> TRUE, seen |-> 0]

\* One turn of the loop over the samples: the sensor is provisioned or
\* refreshed, then a reading is added if it is present and active.
Sample ==
  LET r == Head(batch).ref
      s == Head(batch).sample
      x == <<gateway, r>>
      isNew == existing[r] = Absent
      row == IF isNew THEN NewSensor(s)
             ELSE [existing[r] EXCEPT !.kind = NextKind(@, s)]
      recorded == Present(row.kind, s) /\ row.active
      reading == [id |-> [sensor |-> x, at |-> now],
                  value |-> ReadingValue(row.kind, s)]
  IN
  /\ pc = "samples" /\ batch # <<>>
  /\ batch' = Tail(batch)
  /\ existing' = [existing EXCEPT ![r] =
                    [row EXCEPT !.seen = IF recorded THEN now ELSE @]]
  /\ nextIndex' = nextIndex + (IF isNew THEN 1 ELSE 0)
  /\ written' =
       [fresh |-> written.fresh \cup {y \in {r} : isNew},
        kinds |-> written.kinds \cup {y \in {r} : ~ isNew /\ row # existing[r]},
        rows |-> IF recorded THEN Append(written.rows, reading)
                 ELSE written.rows]
  /\ alarms' = alarms \cup
       {a \in {reading.id} : x \in detectors /\ row.active /\ s.state = "2"}
  /\ UNCHANGED <<tables, pc, queue, gateway, now, outgoing, handed, cycle,
                 chosen, detectors, dropped, interrupted, bounds>>

\* The row COMMIT leaves: only the columns the loop changed are written, and
\* is_active is never one of them.
CommittedRow_WholeRow(r) == existing[r]
CommittedRow(r) ==
  LET old == sensors[<<gateway, r>>] IN
  IF r \in written.fresh \/ old = Absent THEN existing[r]
  ELSE [old EXCEPT !.kind = IF r \in written.kinds THEN existing[r].kind ELSE @,
                   !.seen = existing[r].seen]

Ids(rows) == [i \in DOMAIN rows |-> rows[i].id]
\* Two samples of one ref make two readings with the same primary key.
Collision == \E i, j \in DOMAIN written.rows :
               i # j /\ written.rows[i].id = written.rows[j].id

Commit ==
  /\ pc = "samples" /\ batch = <<>> /\ ~ Collision
  /\ sensors' = [x \in SensorIds |->
                   IF x[1] = gateway THEN CommittedRow(x[2]) ELSE sensors[x]]
  /\ readings' = readings \cup {written.rows[i] : i \in DOMAIN written.rows}
  /\ publishing' = Ids(written.rows) /\ evaluating' = Ids(written.rows)
  /\ pc' = "publish" /\ NoPoll
  /\ detectors' = {x \in SensorIds : sensors'[x].state = "present"
                      /\ \/ x[1] = gateway /\ IsBinary(sensors'[x].kind)
                         \/ x \in detectors /\ (x[1] # gateway
                                \/ sensors'[x].kind = "unknown")}
  /\ chosen' = [x \in SensorIds |->
                  IF x[1] = gateway /\ x[2] \in written.fresh THEN TRUE
                  ELSE chosen[x]]
  /\ UNCHANGED <<gateways, queue, handed, cycle, alarms, dropped, interrupted, bounds>>

PersistFails_HandsOver ==
  /\ pc = "samples" /\ pc' = "publish" /\ NoPoll
  /\ publishing' = Ids(written.rows) /\ evaluating' = Ids(written.rows)
  /\ UNCHANGED <<tables, queue, handed, cycle, flags, bounds>>
\* SQLAlchemyError anywhere in the transaction: it is rolled back, logged, and
\* the next gateway is polled.
PersistFails ==
  /\ pc \in {"load", "samples"}
  /\ pc' = "next" /\ NoPoll
  /\ dropped' = dropped \cup {now}
  /\ UNCHANGED <<tables, queue, outgoing, handed, cycle, chosen, detectors, alarms,
                 interrupted, bounds>>

\* OSError or TimeoutError of the connection: rolled back too, but nothing
\* catches it before the loop of __main__.py, which sleeps and starts another
\* cycle.
ConnectionFails ==
  /\ pc \in {"load", "samples"} /\ raises < MaxRaises
  /\ raises' = raises + 1
  /\ pc' = "sleep" /\ queue' = {} /\ NoPoll
  /\ cycle' = [cycle EXCEPT !.cut = TRUE]
  /\ dropped' = dropped \cup {now}
  /\ UNCHANGED <<tables, outgoing, handed, chosen, detectors, alarms, interrupted,
                 polls, crashes, api>>

Publish ==
  /\ pc = "publish" /\ publishing # <<>>
  /\ published' = Append(published, Head(publishing))
  /\ publishing' = Tail(publishing)
  /\ UNCHANGED <<tables, pc, queue, locals, evaluating, evaluated, cycle,
                 flags, bounds>>

Evaluate ==
  /\ pc = "publish" /\ publishing = <<>> /\ evaluating # <<>>
  /\ evaluated' = Append(evaluated, Head(evaluating))
  /\ evaluating' = Tail(evaluating)
  /\ UNCHANGED <<tables, pc, queue, locals, publishing, published, cycle,
                 flags, bounds>>

EndPoll_Early == /\ pc = "publish" /\ publishing = <<>>
                 /\ pc' = "next" /\ evaluating' = <<>>
                 /\ UNCHANGED <<tables, queue, locals, publishing, handed, cycle,
                                flags, bounds>>
EndPoll == /\ pc = "publish" /\ publishing = <<>> /\ evaluating = <<>>
           /\ pc' = "next"
           /\ UNCHANGED <<tables, queue, locals, outgoing, handed, cycle,
                          flags, bounds>>

\* The publisher or the evaluator raises: caught there too.
HandOverRaises ==
  /\ pc = "publish" /\ publishing \o evaluating # <<>> /\ raises < MaxRaises
  /\ raises' = raises + 1
  /\ pc' = "sleep" /\ queue' = {} /\ publishing' = <<>> /\ evaluating' = <<>>
  /\ cycle' = [cycle EXCEPT !.cut = TRUE]
  /\ interrupted' = interrupted \cup {polls}
  /\ UNCHANGED <<tables, locals, handed, chosen, detectors, alarms, dropped,
                 polls, crashes, api>>

\* The process dies and systemd starts it again (Restart=always).
Crash ==
  /\ pc # "sleep" /\ crashes < MaxCrashes
  /\ crashes' = crashes + 1
  /\ pc' = "sleep" /\ queue' = {} /\ publishing' = <<>> /\ evaluating' = <<>>
  /\ cycle' = [due |-> {}, done |-> {}, cut |-> TRUE]
  /\ dropped' = dropped \cup {d \in {polls} : pc \in {"load", "samples"}}
  /\ interrupted' = interrupted \cup {d \in {polls} : pc = "publish"}
  /\ NoPoll
  /\ UNCHANGED <<tables, handed, chosen, detectors, alarms, polls, raises, api>>

----------------------------------------------------------------------------
(* The API process.                                                        *)

CreateGateway(g) ==
  /\ g \notin gateways
  /\ gateways' = gateways \cup {g}
  /\ UNCHANGED <<sensors, readings, pc, queue, locals, outgoing, handed, cycle,
                 flags, bounds>>

\* PATCH /sensors/{id}: the SELECT of the sensor.  The body gives any of its
\* columns (here is_active and kind); one it does not name keeps the copy's.
GetOwnedSensor(x, active, kind) ==
  /\ Exists(x) /\ patches < MaxPatches
  /\ <<active, kind>> # <<sensors[x].active, sensors[x].kind>>
  /\ patching' = patching \cup
       {[sensor |-> x, active |-> active, kind |-> kind, from |-> sensors[x]]}
  /\ patches' = patches + 1
  /\ UNCHANGED <<tables, pc, queue, locals, outgoing, handed, cycle, flags, polls,
                 crashes, raises>>

\* The columns of a body that differ from the copy are those the UPDATE sets.
Patched(row, e) ==
  [row EXCEPT !.active = IF e.active # e.from.active THEN e.active ELSE @,
              !.kind = IF e.kind # e.from.kind THEN e.kind ELSE @]

\* Its COMMIT.  One that fails, or is never reached, leaves the row alone.
UpdateSensor(e) ==
  /\ patching' = patching \ {e}
  /\ sensors' = [sensors EXCEPT ![e.sensor] = Patched(@, e)]
  /\ chosen' = [chosen EXCEPT ![e.sensor] =
                  IF e.active # e.from.active THEN e.active ELSE @]
  /\ detectors' = detectors \
       {y \in {e.sensor} : e.kind # e.from.kind /\ ~ IsBinary(e.kind)}
  /\ UNCHANGED <<gateways, readings, pc, queue, locals, outgoing, handed, cycle,
                 alarms, dropped, interrupted, polls, crashes, raises, patches>>

----------------------------------------------------------------------------
Init ==
  /\ gateways = {} /\ readings = {}
  /\ sensors = [x \in SensorIds |-> Absent]
  /\ pc = "sleep" /\ queue = {}
  /\ gateway = NoGateway /\ batch = <<>> /\ now = 0
  /\ existing = NoSensors /\ nextIndex = 0 /\ written = NoWrites
  /\ publishing = <<>> /\ evaluating = <<>>
  /\ published = <<>> /\ evaluated = <<>>
  /\ cycle = [due |-> {}, done |-> {}, cut |-> FALSE] /\ patching = {}
  /\ chosen = [x \in SensorIds |-> TRUE] /\ detectors = {} /\ alarms = {}
  /\ dropped = {} /\ interrupted = {}
  /\ polls = 0 /\ crashes = 0 /\ raises = 0 /\ patches = 0

Next ==
  \/ StartCycle \/ StartFails \/ EndCycle
  \/ \E g \in Gateways, x \in Exchanges : FetchFails(g, x) \/ Fetch(g, x)
  \/ LoadSensors \/ Sample \/ Commit \/ PersistFails \/ ConnectionFails
  \/ Publish \/ Evaluate \/ EndPoll \/ HandOverRaises \/ Crash
  \/ \E g \in Gateways : CreateGateway(g)
  \/ \E x \in SensorIds, active \in BOOLEAN, kind \in PatchKinds :
       GetOwnedSensor(x, active, kind)
  \/ \E e \in patching : UpdateSensor(e)

Spec == Init /\ [][Next]_vars

----------------------------------------------------------------------------
TypeOK ==
  /\ gateways \subseteq Gateways /\ queue \subseteq gateways
  /\ sensors \in [SensorIds -> {Absent} \cup SensorRow]
  /\ readings \subseteq [id: ReadingId, value: Int]
  /\ pc \in {"sleep", "next", "load", "samples", "publish"}
  /\ IF pc \in {"load", "samples"} THEN gateway \in gateways
     ELSE gateway = NoGateway
  /\ batch \in Seq([ref: Refs, sample: Samples])
  /\ now \in Nat /\ nextIndex \in Nat
  /\ existing \in [Refs -> {Absent} \cup SensorRow]
  /\ written \in [fresh: SUBSET Refs, kinds: SUBSET Refs,
                  rows: Seq([id: ReadingId, value: Int])]
  /\ {publishing, evaluating, published, evaluated} \subseteq Seq(ReadingId)
  /\ cycle \in [due: SUBSET Gateways, done: SUBSET Gateways, cut: BOOLEAN]
  /\ patching \subseteq Patch
  /\ chosen \in [SensorIds -> BOOLEAN]
  /\ detectors \subseteq SensorIds /\ alarms \subseteq ReadingId
  /\ dropped \subseteq Nat /\ interrupted \subseteq Nat
  /\ {polls, crashes, raises, patches} \subseteq Nat

\* Sensors of one account have different device_index, the NN of the name
\* el-haress-NN-..., although two gateways provision them and a failed
\* transaction gives its numbers back.
IndexUnique ==
  \A x, y \in SensorIds :
    Exists(x) /\ Exists(y) /\ x # y /\ AccountOf[x[1]] = AccountOf[y[1]]
      => sensors[x].index # sensors[y].index

\* last_seen_at, from which the API derives "online", is the date of the
\* sensor's last stored reading, whatever fails or is edited meanwhile.
SeenIsLastReading ==
  \A x \in SensorIds : Exists(x) =>
    sensors[x].seen = MaxOf({0} \cup {d.id.at : d \in {e \in readings : e.id.sensor = x}})

Stored == {d.id : d \in readings}
InOrder(ids) ==
  \A i, j \in DOMAIN ids : i < j =>
    ids[i].at < ids[j].at \/ (ids[i].at = ids[j].at /\ ids[i].sensor # ids[j].sensor)

\* Only committed readings are broadcast and evaluated, each at most once and
\* in the order they were taken, across failures and restarts.
HandedOverOnce ==
  /\ \A i \in DOMAIN published : published[i] \in Stored
  /\ \A i \in DOMAIN evaluated :
       \E j \in DOMAIN published : published[j] = evaluated[i]
  /\ InOrder(published) /\ InOrder(evaluated)

\* A stored reading misses its broadcast or its evaluation only if the process
\* died, or a hand-over raised, in the hand-over of its own poll: failures
\* elsewhere, before or after, in the same cycle or not, lose none.
EvaluatedUnlessInterrupted ==
  pc # "publish" =>
    \A id \in Stored : id.at \in interrupted \/ \E i \in DOMAIN evaluated : evaluated[i] = id

\* The collector never undoes a user's choice to (de)activate a sensor,
\* although its transaction started from an older copy of the row.
ChoiceKept == \A x \in SensorIds : Exists(x) => sensors[x].active = chosen[x]

\* What a device is taken to be for the next property: an entry that can be in
\* alarm is, under its ID, a detector's or one without its unit.
AlarmsAreDetectors ==
  \A x \in Exchanges : \A i, j \in DOMAIN x.entries :
    x.entries[i].id = x.entries[j].id /\ StatusState(x.entries[j]) = "2" =>
      IsBinary(InferKind(x.entries[i].unit)) \/ InferKind(x.entries[i].unit) = "unknown"

\* The comment at collector_service.py:122: a detector "ne doit jamais etre
\* masque".  Once a sensor is stored as binary, an alarm a poll meets while it
\* is active becomes a stored reading of 1, even when the device drops its
\* unit, unless the whole poll is lost: its transaction never commits, and none
\* of its readings is stored.
DetectorNeverMasked ==
  /\ \A a \in alarms : \/ a.at \in dropped
                       \/ pc = "samples" /\ a.at = now
                       \/ [id |-> a, value |-> 1] \in readings
  /\ \A d \in readings : d.id.at \notin dropped

\* docs/sensor-system-ste2.md:125: "Ne jamais traiter -999.9 comme une
\* temperature reelle".  The sentinel is never stored, whatever kind the user
\* or the device gives the sensor from one poll to the next.
SentinelNeverStored == \A d \in readings : d.value # Sentinel

\* A cycle that no uncaught exception and no death has ended has tried every
\* gateway it set out to poll: a fetch that raises, whatever it raises, and a
\* transaction that raises a SQLAlchemyError never starve the other gateways.
FailuresContained == pc = "sleep" /\ ~ cycle.cut => cycle.done = cycle.due
=============================================================================

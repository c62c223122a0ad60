---------------------------- MODULE AlertEngine ----------------------------
(***************************************************************************)
(* The alert engine of the collector process (alerting/alert_engine.py)    *)
(* for one account: it evaluates each persisted reading against the        *)
(* account's active rules, with two Redis keys per rule and sensor (the    *)
(* breach tracking of the duration gate, and the cooldown) and one row of  *)
(* the table alerts per triggering.                                        *)
(*                                                                         *)
(* The engine is a coroutine: every await is a step of its own, so that    *)
(* the API process (which edits rules and acknowledges alerts), the clock  *)
(* and a failure can act between any two of them.  The collector awaits    *)
(* evaluate() for one reading at a time, so there is a single evaluation.  *)
(*                                                                         *)
(* Time is a clock in seconds.  Redis and the engine read the same clock:  *)
(* deploy/ installs both on one host.                                      *)
(***************************************************************************)
EXTENDS Integers, Sequences, FiniteSets

CONSTANTS
  Rules,         \* identifiers of alert rules (never reused: uuid4)
  Sensors,       \* the account's sensors (never deleted)
  AnySensor,     \* sensor_id = NULL: the rule applies to every sensor
  NoRule,        \* no rule is being evaluated
  Targets,       \* values of the column sensor_id
  Values,        \* readings
  Conditions,    \* subset of {"GT", "GTE", "LT", "LTE"}
  Thresholds, Durations, Cooldowns,   \* values of the rules' columns
  MinuteTicks,   \* seconds in a minute (60 in the code)
  BreachFloor,   \* shortest life of a breach key (300 in the code)
  MaxClock,      \* bound: the clock stops there
  MaxEdits,      \* bound: rule updates and deletions
  MaxAborts      \* bound: evaluations cut short by a failure

ASSUME ConstantsAssumption ==
  /\ AnySensor \notin Sensors
  /\ Targets \subseteq Sensors \cup {AnySensor}
  /\ NoRule \notin Rules
  /\ Values \subseteq Int /\ Thresholds \subseteq Int
  /\ Conditions \subseteq {"GT", "GTE", "LT", "LTE"}
  /\ Durations \subseteq Nat /\ Cooldowns \subseteq Nat
  /\ MinuteTicks \in Nat /\ BreachFloor \in Nat
  /\ {MaxClock, MaxEdits, MaxAborts} \subseteq Nat

VARIABLES
  clock,      \* seconds; 0 is before every event
  rules,      \* table alert_rules
  alerts,     \* table alerts, in order of insertion
  breachKey,  \* Redis alert:breach:<rule>:<sensor>
  cooldown,   \* Redis alert:cooldown:<rule>:<sensor>: when it expires
  pc, event, todo, loaded, cur, nowTs,  \* the coroutine evaluate()
  below,      \* history: last reading that did not breach the rule
  streak,     \* history: evaluations that found the same breach, in a row
  edits, aborts

db == <<rules, alerts>>
redis == <<breachKey, cooldown>>
engine == <<pc, event, todo, loaded, cur, nowTs>>
history == <<below, streak>>
bounds == <<edits, aborts>>
vars == <<clock, db, redis, engine, history, bounds>>

----------------------------------------------------------------------------
Row == [active: BOOLEAN, target: Targets,
        condition: Conditions, threshold: Thresholds,
        duration: Durations, cooldown: Cooldowns]
Absent == [state |-> "absent"]
Deleted == [state |-> "deleted"]
Live(row) == [state |-> "live", row |-> row]
IsLive(r) == rules[r].state = "live"

Pairs == Rules \X Sensors
NoKey == [first |-> 0, expires |-> 0]
NoStreak == [from |-> 0, to |-> 0, duration |-> 0]
NoEvent == [sensor |-> AnySensor, value |-> 0]
Exists(key) == clock < key.expires
InCooldown_Unchecked(p) == FALSE
InCooldown(p) == clock < cooldown[p]
Larger(a, b) == IF a >= b THEN a ELSE b

Breach(row, value) ==
  CASE row.condition = "GT"  -> value > row.threshold
    [] row.condition = "GTE" -> value >= row.threshold
    [] row.condition = "LT"  -> value < row.threshold
    [] row.condition = "LTE" -> value <= row.threshold

AppliesTo(row, s) == row.target \in {s, AnySensor}

\* ex=max(rule.cooldown_minutes * 60, 1)
CooldownTtl(minutes) == Larger(minutes * MinuteTicks, 1)

BreachTtl_Tight(duration) == Larger(duration, 1)
\* ex=max(duration_seconds * 3, 300)
BreachTtl(duration) == Larger(duration * 3, BreachFloor)

GatePassed(first, duration) == nowTs - first >= duration

----------------------------------------------------------------------------
(* The evaluation of one reading.                                          *)

Pair == <<cur, event.sensor>>
\* The alert of the rule being evaluated, once it is inserted.
Current == Len(alerts)

Finish == /\ pc' = "idle" /\ event' = NoEvent /\ todo' = {} /\ cur' = NoRule
          /\ loaded' = [r \in Rules |-> Absent] /\ nowTs' = 0

\* _evaluate_rule returns: on to the rules not evaluated yet.
NextRule(r) == /\ pc' = "rules" /\ todo' = todo \ {r} /\ cur' = NoRule
               /\ nowTs' = 0
               /\ UNCHANGED <<event, loaded>>

GoTo(label) == pc' = label /\ UNCHANGED <<event, todo, loaded, cur, nowTs>>

\* The collector hands over a reading it has committed.
Submit(s, v) ==
  /\ pc = "idle" /\ pc' = "load" /\ event' = [sensor |-> s, value |-> v]
  /\ below' = [p \in Pairs |->
                 IF /\ p[2] = s /\ IsLive(p[1])
                    /\ ~ Breach(rules[p[1]].row, v)
                 THEN clock ELSE below[p]]
  /\ UNCHANGED <<clock, db, redis, todo, loaded, cur, nowTs, streak, bounds>>

\* The rules of the account that are active and target the sensor or all.
Load ==
  /\ pc = "load"
  /\ pc' = "rules"
  /\ loaded' = rules
  /\ todo' = {r \in Rules : /\ IsLive(r) /\ rules[r].row.active
                            /\ AppliesTo(rules[r].row, event.sensor)}
  /\ UNCHANGED <<clock, db, redis, event, cur, nowTs, history, bounds>>

Done == /\ pc = "rules" /\ todo = {} /\ Finish
        /\ UNCHANGED <<clock, db, redis, history, bounds>>

ClearBreach_KeyKept(r) ==
  /\ pc = "rules" /\ r \in todo /\ ~ Breach(loaded[r].row, event.value)
  /\ NextRule(r)
  /\ streak' = [streak EXCEPT ![<<r, event.sensor>>] = NoStreak]
  /\ UNCHANGED <<clock, db, redis, below, bounds>>

\* The reading is back to normal: the breach is no longer tracked.
ClearBreach(r) ==
  /\ pc = "rules" /\ r \in todo /\ ~ Breach(loaded[r].row, event.value)
  /\ breachKey' = [breachKey EXCEPT ![<<r, event.sensor>>] = NoKey]
  /\ NextRule(r)
  /\ streak' = [streak EXCEPT ![<<r, event.sensor>>] = NoStreak]
  /\ UNCHANGED <<clock, db, cooldown, below, bounds>>

\* EXISTS cooldown_key finds the key: the breach is ignored.
Ignore(r) ==
  /\ pc = "rules" /\ r \in todo /\ Breach(loaded[r].row, event.value)
  /\ InCooldown(<<r, event.sensor>>)
  /\ NextRule(r)
  /\ streak' = [streak EXCEPT ![<<r, event.sensor>>] = NoStreak]
  /\ UNCHANGED <<clock, db, redis, below, bounds>>

\* EXISTS cooldown_key finds nothing.
Consider(r) ==
  /\ pc = "rules" /\ r \in todo /\ Breach(loaded[r].row, event.value)
  /\ ~ InCooldown(<<r, event.sensor>>)
  /\ pc' = IF loaded[r].row.duration > 0 THEN "time" ELSE "insert"
  /\ cur' = r
  /\ UNCHANGED <<clock, db, redis, event, todo, loaded, nowTs, history, bounds>>

\* now_ts = time.time(), read before the GET is sent.
ReadTime == /\ pc = "time" /\ pc' = "gate" /\ nowTs' = clock
            /\ UNCHANGED <<clock, db, redis, event, todo, loaded, cur,
                           history, bounds>>

\* The evaluation found a breach that has not lasted long enough yet.  Only
\* readings at most `duration` apart, answered by Redis in the second they
\* were evaluated, are counted as one streak.
Prolonged(s, duration) ==
  IF nowTs < clock THEN [from |-> 0, to |-> 0, duration |-> duration]
  ELSE IF s.from > 0 /\ s.duration = duration /\ nowTs - s.to <= duration
       THEN [s EXCEPT !.to = nowTs]
       ELSE [from |-> nowTs, to |-> nowTs, duration |-> duration]

\* GET breach_key finds nothing.
GateMiss == /\ pc = "gate" /\ ~ Exists(breachKey[Pair]) /\ GoTo("mark")
            /\ streak' = [streak EXCEPT ![Pair] =
                            Prolonged(@, loaded[cur].row.duration)]
            /\ UNCHANGED <<clock, db, redis, below, bounds>>

\* SET breach_key: the first breach is stamped.
MarkBreach ==
  /\ pc = "mark"
  /\ breachKey' = [breachKey EXCEPT ![Pair] =
       [first |-> nowTs,
        expires |-> clock + BreachTtl(loaded[cur].row.duration)]]
  /\ NextRule(cur)
  /\ UNCHANGED <<clock, db, cooldown, history, bounds>>

\* GET breach_key finds a first breach that is too recent.  The key lives as
\* long as the duration of the rule asked for when it was set: under another
\* one, nothing is counted until the key is set again.
GateWait ==
  /\ pc = "gate" /\ Exists(breachKey[Pair])
  /\ ~ GatePassed(breachKey[Pair].first, loaded[cur].row.duration)
  /\ NextRule(cur)
  /\ streak' = [streak EXCEPT ![Pair] =
                  IF @.duration # loaded[cur].row.duration THEN NoStreak
                  ELSE Prolonged(@, loaded[cur].row.duration)]
  /\ UNCHANGED <<clock, db, redis, below, bounds>>

GatePass ==
  /\ pc = "gate" /\ Exists(breachKey[Pair])
  /\ GatePassed(breachKey[Pair].first, loaded[cur].row.duration)
  /\ GoTo("insert")
  /\ UNCHANGED <<clock, db, redis, history, bounds>>

\* INSERT INTO alerts and COMMIT.  The columns are rule, sensor and status;
\* the rest is history: `at` is the second of the commit, `quiet` the
\* cooldown the rule asked for, `until` when the cooldown key expires (0: it
\* was never set), `since` and `below` the first breach the gate relied on
\* and the last reading without a breach, `told` that dispatch was called.
Insert ==
  LET row == loaded[cur].row IN
  /\ pc = "insert" /\ IsLive(cur)
  /\ alerts' = Append(alerts,
       [rule |-> cur, sensor |-> event.sensor, status |-> "ACTIVE",
        at |-> clock, quiet |-> CooldownTtl(row.cooldown), until |-> 0,
        duration |-> row.duration,
        since |-> IF row.duration > 0 THEN breachKey[Pair].first ELSE clock,
        below |-> below[Pair], told |-> FALSE])
  /\ GoTo("arm")
  /\ streak' = [streak EXCEPT ![Pair] = NoStreak]
  /\ UNCHANGED <<clock, rules, redis, below, bounds>>

InsertRefused_Swallowed == /\ pc = "insert" /\ ~ IsLive(cur) /\ GoTo("arm")
                           /\ UNCHANGED <<clock, db, redis, history, bounds>>
\* The rule was deleted after Load: the foreign key refuses the row and the
\* exception leaves evaluate().
InsertRefused == /\ pc = "insert" /\ ~ IsLive(cur) /\ Finish
                 /\ UNCHANGED <<clock, db, redis, history, bounds>>

ArmCooldown_NotSet ==
  /\ pc = "arm"
  /\ alerts' = [alerts EXCEPT ![Current].until =
                    clock + CooldownTtl(loaded[cur].row.cooldown)]
  /\ GoTo("reset")
  /\ UNCHANGED <<clock, rules, redis, history, bounds>>
\* SET cooldown_key.
ArmCooldown ==
  /\ pc = "arm"
  /\ cooldown' = [cooldown EXCEPT ![Pair] =
                    clock + CooldownTtl(loaded[cur].row.cooldown)]
  /\ alerts' = [alerts EXCEPT ![Current].until =
                    clock + CooldownTtl(loaded[cur].row.cooldown)]
  /\ GoTo("reset")
  /\ UNCHANGED <<clock, rules, breachKey, history, bounds>>

\* DEL breach_key.
ResetBreach ==
  /\ pc = "reset"
  /\ breachKey' = [breachKey EXCEPT ![Pair] = NoKey]
  /\ GoTo("notify")
  /\ UNCHANGED <<clock, db, cooldown, history, bounds>>

\* notifier.dispatch: it catches every channel's failure.
Notify ==
  /\ pc = "notify"
  /\ alerts' = [alerts EXCEPT ![Current].told = TRUE]
  /\ NextRule(cur)
  /\ UNCHANGED <<clock, rules, redis, history, bounds>>

\* The process dies, or PostgreSQL or Redis raises, at any await: the rest
\* of the evaluation does not happen.
Abort ==
  /\ pc # "idle" /\ aborts < MaxAborts
  /\ aborts' = aborts + 1
  /\ Finish
  /\ UNCHANGED <<clock, db, redis, history, edits>>

----------------------------------------------------------------------------
(* The API process, on behalf of the account that owns the rules.          *)

CreateRule(r, row) ==
  /\ rules[r] = Absent
  /\ rules' = [rules EXCEPT ![r] = Live(row)]
  /\ UNCHANGED <<clock, alerts, redis, engine, history, bounds>>

\* COMMIT of a PATCH.  Its SELECT decides nothing else: the columns written
\* are the payload's, and the row is any with the same target (the schema has
\* every column except sensor_id), so that of two overlapping PATCHes too.  A
\* rule deleted since the SELECT matches no row and nothing is written.
UpdateRule(r, row) ==
  /\ IsLive(r) /\ edits < MaxEdits
  /\ row # rules[r].row /\ row.target = rules[r].row.target
  /\ rules' = [rules EXCEPT ![r] = Live(row)]
  /\ edits' = edits + 1
  /\ UNCHANGED <<clock, alerts, redis, engine, history, aborts>>

\* ON DELETE SET NULL: alerts keep their row.  alerts[i].rule is the rule
\* that triggered; the column alert_rule_id is NULL iff it is deleted.
DeleteRule(r) ==
  /\ IsLive(r) /\ edits < MaxEdits
  /\ rules' = [rules EXCEPT ![r] = Deleted]
  /\ edits' = edits + 1
  /\ UNCHANGED <<clock, alerts, redis, engine, history, aborts>>

\* COMMIT.  An alert is never deleted and the status is overwritten whatever
\* the SELECT found: a second call changes nothing but acknowledged_at, which
\* no property reads.
Acknowledge(i) ==
  /\ alerts[i].status = "ACTIVE"
  /\ alerts' = [alerts EXCEPT ![i].status = "ACKNOWLEDGED"]
  /\ UNCHANGED <<clock, rules, redis, engine, history, bounds>>

Tick == /\ clock < MaxClock /\ clock' = clock + 1
        /\ UNCHANGED <<db, redis, engine, history, bounds>>

----------------------------------------------------------------------------
Init ==
  /\ clock = 1
  /\ rules = [r \in Rules |-> Absent] /\ alerts = <<>>
  /\ breachKey = [p \in Pairs |-> NoKey] /\ cooldown = [p \in Pairs |-> 0]
  /\ pc = "idle" /\ event = NoEvent /\ todo = {} /\ cur = NoRule
  /\ loaded = [r \in Rules |-> Absent] /\ nowTs = 0
  /\ below = [p \in Pairs |-> 0] /\ streak = [p \in Pairs |-> NoStreak]
  /\ edits = 0 /\ aborts = 0

EngineStep ==
  \/ Load \/ Done
  \/ \E r \in Rules : ClearBreach(r) \/ Ignore(r) \/ Consider(r)
  \/ ReadTime \/ GateMiss \/ MarkBreach \/ GateWait \/ GatePass
  \/ Insert \/ InsertRefused \/ ArmCooldown \/ ResetBreach \/ Notify

ApiStep ==
  \/ \E r \in Rules, row \in Row : CreateRule(r, row) \/ UpdateRule(r, row)
  \/ \E r \in Rules : DeleteRule(r)
  \/ \E i \in DOMAIN alerts : Acknowledge(i)

Next == \/ \E s \in Sensors, v \in Values : Submit(s, v)
        \/ EngineStep \/ ApiStep \/ Abort \/ Tick

Spec == Init /\ [][Next]_vars

----------------------------------------------------------------------------
TypeOK ==
  /\ clock \in Nat
  /\ rules \in [Rules -> {Absent, Deleted} \cup {Live(row) : row \in Row}]
  /\ alerts \in Seq([rule: Rules, sensor: Sensors, at: Nat, quiet: Nat,
                     status: {"ACTIVE", "ACKNOWLEDGED"}, until: Nat,
                     duration: Nat, since: Nat, below: Nat, told: BOOLEAN])
  /\ breachKey \in [Pairs -> [first: Nat, expires: Nat]]
  /\ cooldown \in [Pairs -> Nat]
  /\ pc \in {"idle", "load", "rules", "time", "gate", "mark", "insert", "arm",
            "reset", "notify"}
  /\ event \in [sensor: Sensors, value: Values] \cup {NoEvent}
  /\ pc # "idle" => event.sensor \in Sensors
  /\ loaded \in [Rules -> {Absent, Deleted} \cup {Live(row) : row \in Row}]
  /\ todo \subseteq {r \in Rules : loaded[r].state = "live"}
  /\ IF pc \in {"idle", "load", "rules"} THEN cur = NoRule ELSE cur \in todo
  /\ pc \in {"arm", "reset", "notify"} => Current > 0
  /\ nowTs \in Nat
  /\ below \in [Pairs -> Nat]
  /\ streak \in [Pairs -> [from: Nat, to: Nat, duration: Nat]]
  /\ edits \in Nat /\ aborts \in Nat

SamePair(i, j) == /\ alerts[i].rule = alerts[j].rule
                  /\ alerts[i].sensor = alerts[j].sensor
Spaced(i, j) == alerts[j].at >= alerts[i].at + alerts[i].quiet

\* Once the owner has been told of an alert, no other alert of the same rule
\* and sensor is recorded (or told) before the cooldown has passed, whatever
\* fails and is edited in between: evaluate() arms the cooldown before it
\* dispatches.
NotificationSpacing ==
  \A i, j \in DOMAIN alerts :
    i < j /\ SamePair(i, j) /\ alerts[i].told => Spaced(i, j)

\* A cooldown never silences a rule whose alert was not recorded: the row is
\* committed before the key is set, and a refused or failed INSERT sets none.
CooldownHasAlert ==
  \A p \in Pairs : cooldown[p] > 0 =>
    \E i \in DOMAIN alerts : /\ <<alerts[i].rule, alerts[i].sensor>> = p
                             /\ alerts[i].until = cooldown[p]

\* docs/alerting-rules.md, duration gate: an alert is raised only if the
\* threshold "reste franchi au moins duration_seconds": no reading since the
\* first breach was back to normal, and the first breach is old enough.
Sustained ==
  \A i \in DOMAIN alerts : alerts[i].duration > 0 =>
    /\ alerts[i].at - alerts[i].since >= alerts[i].duration
    /\ alerts[i].since >= alerts[i].below

\* The same promise as long as the rule is not edited (a deactivated rule
\* keeps its breach key) and no evaluation is cut short before its DEL.
SustainedUndisturbed == edits = 0 /\ aborts = 0 => Sustained

\* A breach evaluated at least every `duration` seconds is never pending for
\* longer than `duration`, whatever else of the rule is edited in between: the
\* tracking key outlives the wait, so the alarm is raised
\* (alert_engine.py:175-179).  A failure before the SET of the key starts the
\* wait anew, and so may a duration edited after it.
NoSilentBreach ==
  aborts = 0 => \A p \in Pairs :
    streak[p].from > 0 => streak[p].to - streak[p].from < streak[p].duration

----------------------------------------------------------------------------
(* The engine keeps the contract with the owner.                           *)

PromiseOf(i) == [pair |-> <<alerts[i].rule, alerts[i].sensor>>,
                 until |-> alerts[i].at + alerts[i].quiet]

\* From its row until it is dispatched, an alert is about to be told.
Telling == {"arm", "reset", "notify"}
NoPromise == [pair |-> NoRule, until |-> -1]
Raised == IF pc \in Telling THEN PromiseOf(Current) ELSE NoPromise

Promised == {PromiseOf(i) : i \in {j \in DOMAIN alerts : alerts[j].told}}

Contract == INSTANCE AlertContract WITH
  Quiets <- {CooldownTtl(m) : m \in Cooldowns}, None <- NoPromise,
  raised <- Raised, promises <- Promised

\* Whatever fails and is edited, the engine's steps are steps of the
\* contract: no alert is raised during a silence the owner was promised, nor
\* while another is on its way (the order COMMIT, SET, DEL, dispatch of
\* alert_engine.py:130-171).
KeepsContract == Contract!Spec

----------------------------------------------------------------------------
(* The inductive invariant behind NotificationSpacing and CooldownHasAlert *)

Armed(i) == alerts[i].until > 0
PairOf(i) == <<alerts[i].rule, alerts[i].sensor>>

\* A cooldown key is never shortened, and lasts for the alert's cooldown.
ArmedCovered ==
  \A i \in DOMAIN alerts : Armed(i) =>
    /\ alerts[i].until <= cooldown[PairOf(i)]
    /\ alerts[i].at + alerts[i].quiet <= alerts[i].until

\* No cooldown is running while an evaluation is between EXISTS and SET.
ConsideredFree ==
  pc \in {"time", "gate", "mark", "insert", "arm"} => ~ InCooldown(Pair)

\* The alert that was just inserted is the one being armed, then told.
CurrentAlert ==
  /\ pc = "arm" =>
       /\ PairOf(Current) = Pair /\ alerts[Current].at <= clock
       /\ alerts[Current].quiet = CooldownTtl(loaded[cur].row.cooldown)
  /\ pc \in {"reset", "notify"} => Armed(Current)

ToldArmed == \A i \in DOMAIN alerts : alerts[i].told => Armed(i)

ArmedSpaced ==
  \A i, j \in DOMAIN alerts : i < j /\ SamePair(i, j) /\ Armed(i) => Spaced(i, j)

SpacingInv == /\ ArmedCovered /\ ConsideredFree /\ CurrentAlert
              /\ ToldArmed /\ ArmedSpaced /\ CooldownHasAlert
=============================================================================

------------------------- MODULE AlertEngineProofs -------------------------
(***************************************************************************)
(* Theorems about AlertEngine, for every set of rules, sensors and values  *)
(* and every bound.                                                        *)
(***************************************************************************)
EXTENDS AlertEngine, SequenceTheorems, TLAPS

AlertRow == [rule: Rules, sensor: Sensors, at: Nat, quiet: Nat,
             status: {"ACTIVE", "ACKNOWLEDGED"}, until: Nat,
             duration: Nat, since: Nat, below: Nat, told: BOOLEAN]
RuleState == {Absent, Deleted} \cup {Live(row) : row \in Row}

\* A table entry that is live holds a row.
LEMMA LiveRow ==
  ASSUME NEW x \in RuleState, x.state = "live"
  PROVE  x.row \in Row
BY DEF RuleState, Absent, Deleted, Live

\* The life of a cooldown key is at least one second: Redis refuses ex=0.
LEMMA CooldownTtlPositive ==
  ASSUME NEW m \in Nat
  PROVE  CooldownTtl(m) \in Nat /\ CooldownTtl(m) >= 1
<1> m * MinuteTicks \in Nat
  BY ConstantsAssumption, SMT
<1> QED  BY DEF CooldownTtl, Larger

LEMMA BreachTtlNat == ASSUME NEW d \in Nat PROVE BreachTtl(d) \in Nat
BY ConstantsAssumption DEF BreachTtl, Larger

LEMMA ProlongedTyped ==
  ASSUME NEW s \in [from: Nat, to: Nat, duration: Nat], NEW d \in Nat, nowTs \in Nat
  PROVE  Prolonged(s, d) \in [from: Nat, to: Nat, duration: Nat]
BY DEF Prolonged

\* Writing a column of one alert leaves a table of as many alerts.
LEMMA AlertUpdate ==
  ASSUME alerts \in Seq(AlertRow), NEW i \in DOMAIN alerts, NEW v \in AlertRow
  PROVE  /\ [alerts EXCEPT ![i] = v] \in Seq(AlertRow)
         /\ Len([alerts EXCEPT ![i] = v]) = Len(alerts)
<1> i \in 1 .. Len(alerts)
  BY LenProperties
<1> QED  BY ExceptSeq

\* Every row of the table has the columns of an alert, and keeps them when
\* one is written.
LEMMA AlertColumns ==
  ASSUME alerts \in Seq(AlertRow), NEW i \in DOMAIN alerts, NEW n \in Nat
  PROVE  /\ alerts[i] \in AlertRow
         /\ [alerts[i] EXCEPT !.until = n] \in AlertRow
         /\ [alerts[i] EXCEPT !.told = TRUE] \in AlertRow
         /\ [alerts[i] EXCEPT !.status = "ACKNOWLEDGED"] \in AlertRow
<1>1. alerts[i] \in AlertRow
  BY ElementOfSeq, LenProperties
<1> QED  BY <1>1 DEF AlertRow

\* The state has the types TypeOK gives it.
THEOREM TypeCorrect == Spec => []TypeOK
<1> USE ConstantsAssumption
<1>1. Init => TypeOK
  BY DEF Init, TypeOK, NoKey, NoStreak, NoEvent, Absent
<1>2. TypeOK /\ [Next]_vars => TypeOK'
  <2> SUFFICES ASSUME TypeOK, [Next]_vars PROVE TypeOK'
    OBVIOUS
  <2> USE DEF TypeOK, Current, db, redis, engine, history, bounds
  <2>1. ASSUME NEW s \in Sensors, NEW v \in Values, Submit(s, v) PROVE TypeOK'
    BY <2>1 DEF Submit
  <2>2. CASE Load
    BY <2>2 DEF Load, IsLive
  <2>3. CASE Done
    BY <2>3 DEF Done, Finish, NoEvent, Absent
  <2>4. ASSUME NEW r \in Rules, ClearBreach(r) PROVE TypeOK'
    BY <2>4 DEF ClearBreach, NextRule, NoKey, NoStreak, Pairs
  <2>5. ASSUME NEW r \in Rules, Ignore(r) PROVE TypeOK'
    BY <2>5 DEF Ignore, NextRule, NoStreak, Pairs
  <2>6. ASSUME NEW r \in Rules, Consider(r) PROVE TypeOK'
    BY <2>6 DEF Consider
  <2>7. CASE ReadTime
    BY <2>7 DEF ReadTime
  <2>8. CASE GateMiss
    <3>1. loaded[cur].row \in Row
      BY <2>8, LiveRow DEF GateMiss, RuleState
    <3>2. streak' \in [Pairs -> [from: Nat, to: Nat, duration: Nat]]
      BY <2>8, <3>1, ProlongedTyped DEF GateMiss, Row
    <3> QED  BY <2>8, <3>2 DEF GateMiss, GoTo
  <2>9. CASE MarkBreach
    <3>1. loaded[cur].row \in Row
      BY <2>9, LiveRow DEF MarkBreach, RuleState
    <3>2. BreachTtl(loaded[cur].row.duration) \in Nat
      BY <3>1, BreachTtlNat DEF Row
    <3> DEFINE key == [first |-> nowTs,
                       expires |-> clock + BreachTtl(loaded[cur].row.duration)]
    <3>3. breachKey' \in [Pairs -> [first: Nat, expires: Nat]]
      <4>1. key \in [first: Nat, expires: Nat]
        BY <3>2
      <4>2. breachKey' = [breachKey EXCEPT ![Pair] = key]
        BY <2>9 DEF MarkBreach
      <4> HIDE DEF key
      <4> QED  BY <4>1, <4>2
    <3> QED  BY <2>9, <3>3 DEF MarkBreach, NextRule
  <2>10. CASE GateWait
    <3>1. loaded[cur].row \in Row
      BY <2>10, LiveRow DEF GateWait, RuleState
    <3>2. streak' \in [Pairs -> [from: Nat, to: Nat, duration: Nat]]
      BY <2>10, <3>1, ProlongedTyped DEF GateWait, NoStreak, Row
    <3> QED  BY <2>10, <3>2 DEF GateWait, NextRule
  <2>11. CASE GatePass
    BY <2>11 DEF GatePass, GoTo
  <2>12. CASE Insert
    <3>1. Pair \in Pairs
      BY <2>12 DEF Insert, Pair, Pairs
    <3>2. /\ loaded[cur].row.duration \in Nat
          /\ CooldownTtl(loaded[cur].row.cooldown) \in Nat
      <4>1. loaded[cur].row \in Row
        BY <2>12, LiveRow DEF Insert, RuleState
      <4> QED  BY <4>1, CooldownTtlPositive DEF Row
    <3>3. \E a \in AlertRow : alerts' = Append(alerts, a)
      <4>1. /\ breachKey[Pair].first \in Nat /\ below[Pair] \in Nat
            /\ cur \in Rules /\ event.sensor \in Sensors
        BY <2>12, <3>1 DEF Insert
      <4> DEFINE a ==
            [rule |-> cur, sensor |-> event.sensor, status |-> "ACTIVE",
             at |-> clock, quiet |-> CooldownTtl(loaded[cur].row.cooldown),
             until |-> 0, duration |-> loaded[cur].row.duration,
             since |-> IF loaded[cur].row.duration > 0
                       THEN breachKey[Pair].first ELSE clock,
             below |-> below[Pair], told |-> FALSE]
      <4>2. a \in AlertRow
        BY <3>2, <4>1 DEF AlertRow
      <4>3. alerts' = Append(alerts, a)
        BY <2>12 DEF Insert
      <4> QED  BY <4>2, <4>3
    <3>4. alerts' \in Seq(AlertRow) /\ Len(alerts') > 0
      BY <3>3, LenProperties DEF AlertRow
    <3>5. streak' \in [Pairs -> [from: Nat, to: Nat, duration: Nat]]
      BY <2>12 DEF Insert, NoStreak
    <3> QED  BY <2>12, <3>4, <3>5 DEF Insert, GoTo, AlertRow
  <2>13. CASE InsertRefused
    BY <2>13 DEF InsertRefused, Finish, NoEvent, Absent
  <2>14. CASE ArmCooldown
    <3> DEFINE expires == clock + CooldownTtl(loaded[cur].row.cooldown)
               a == [alerts[Current] EXCEPT !.until = expires]
    <3>1. expires \in Nat
      <4>1. loaded[cur].row \in Row
        BY <2>14, LiveRow DEF ArmCooldown, RuleState
      <4>2. CooldownTtl(loaded[cur].row.cooldown) \in Nat
        BY <4>1, CooldownTtlPositive DEF Row
      <4> QED  BY <4>2
    <3>2. /\ cooldown' = [cooldown EXCEPT ![Pair] = expires]
          /\ alerts' = [alerts EXCEPT ![Current].until = expires]
      BY <2>14 DEF ArmCooldown
    <3> HIDE DEF expires
    <3>3. cooldown' \in [Pairs -> Nat]
      BY <3>1, <3>2
    <3>4. alerts \in Seq(AlertRow)
      BY DEF AlertRow
    <3>5. Current \in DOMAIN alerts
      BY <2>14, <3>4, LenProperties DEF ArmCooldown
    <3>6. a \in AlertRow /\ alerts' = [alerts EXCEPT ![Current] = a]
      BY <3>1, <3>2, <3>4, <3>5, AlertColumns
    <3>7. alerts' \in Seq(AlertRow) /\ Len(alerts') = Len(alerts)
      BY <3>4, <3>5, <3>6, AlertUpdate
    <3> QED  BY <2>14, <3>3, <3>7 DEF ArmCooldown, GoTo, AlertRow
  <2>15. CASE ResetBreach
    BY <2>15 DEF ResetBreach, GoTo, NoKey
  <2>16. CASE Notify
    <3> DEFINE a == [alerts[Current] EXCEPT !.told = TRUE]
    <3>1. alerts \in Seq(AlertRow)
      BY DEF AlertRow
    <3>2. Current \in DOMAIN alerts
      BY <2>16, <3>1, LenProperties DEF Notify
    <3>3. a \in AlertRow /\ alerts' = [alerts EXCEPT ![Current] = a]
      BY <2>16, <3>1, <3>2, AlertColumns DEF Notify
    <3>4. alerts' \in Seq(AlertRow) /\ Len(alerts') = Len(alerts)
      BY <3>1, <3>2, <3>3, AlertUpdate
    <3> QED  BY <2>16, <3>4 DEF Notify, NextRule, AlertRow
  <2>17. ASSUME NEW r \in Rules, NEW row \in Row, CreateRule(r, row)
         PROVE  TypeOK'
    BY <2>17 DEF CreateRule
  <2>18. ASSUME NEW r \in Rules, NEW row \in Row, UpdateRule(r, row)
         PROVE  TypeOK'
    BY <2>18 DEF UpdateRule
  <2>19. ASSUME NEW r \in Rules, DeleteRule(r) PROVE TypeOK'
    BY <2>19 DEF DeleteRule
  <2>20. ASSUME NEW i \in DOMAIN alerts, Acknowledge(i) PROVE TypeOK'
    <3> DEFINE a == [alerts[i] EXCEPT !.status = "ACKNOWLEDGED"]
    <3>1. a \in AlertRow
      BY AlertColumns DEF AlertRow
    <3>2. alerts' = [alerts EXCEPT ![i] = a]
      BY <2>20 DEF Acknowledge
    <3>3. alerts' \in Seq(AlertRow) /\ Len(alerts') = Len(alerts)
      BY <3>1, <3>2, AlertUpdate DEF AlertRow
    <3> QED  BY <2>20, <3>3 DEF Acknowledge, AlertRow
  <2>21. CASE Abort
    BY <2>21 DEF Abort, Finish, NoEvent, Absent
  <2>22. CASE Tick
    BY <2>22 DEF Tick
  <2>23. CASE UNCHANGED vars
    BY <2>23 DEF vars
  <2> QED
    BY <2>1, <2>2, <2>3, <2>4, <2>5, <2>6, <2>7, <2>8, <2>9, <2>10, <2>11,
       <2>12, <2>13, <2>14, <2>15, <2>16, <2>17, <2>18, <2>19, <2>20, <2>21,
       <2>22, <2>23 DEF Next, EngineStep, ApiStep
<1> QED
  BY <1>1, <1>2, PTL DEF Spec

----------------------------------------------------------------------------
(* Spacing of alerts and notifications.                                    *)

(* What a running evaluation is about is a rule and a sensor.              *)
LEMMA PairTyped ==
  ASSUME TypeOK, pc \notin {"idle", "load", "rules"}
  PROVE  /\ cur \in Rules /\ event.sensor \in Sensors
         /\ Pair \in Pairs /\ cooldown[Pair] \in Nat
<1>1. cur \in Rules /\ event.sensor \in Sensors
  BY DEF TypeOK
<1>2. Pair \in Pairs
  BY <1>1 DEF Pair, Pairs
<1> QED  BY <1>1, <1>2 DEF TypeOK

\* Steps that write neither alerts nor cooldowns, and leave the evaluation
\* where it is or outside the protected section, keep the invariant.
LEMMA SpacingFrame ==
  ASSUME TypeOK, SpacingInv, clock' \in Nat, clock' >= clock,
         UNCHANGED <<alerts, cooldown>>,
         \/ pc' \in {"idle", "load", "rules"}
         \/ /\ UNCHANGED <<cur, event, loaded>>
            /\ \/ pc' = pc
               \/ pc' \in {"gate", "mark", "insert"} /\ pc \in {"time", "gate"}
               \/ pc' = "notify" /\ pc = "reset"
  PROVE  SpacingInv'
<1> USE DEF SpacingInv
<1>1. ArmedCovered' /\ ToldArmed' /\ ArmedSpaced' /\ CooldownHasAlert'
  BY DEF ArmedCovered, ToldArmed, ArmedSpaced, CooldownHasAlert, Armed,
         PairOf, SamePair, Spaced
<1>2. ConsideredFree'
  <2>1. CASE pc' \in {"idle", "load", "rules"}
    BY <2>1 DEF ConsideredFree
  <2>2. CASE pc' \notin {"idle", "load", "rules", "reset", "notify"}
    <3>1. ~ InCooldown(Pair) /\ Pair' = Pair /\ cooldown' = cooldown
      BY <2>2 DEF ConsideredFree, Pair, TypeOK
    <3>2. cooldown[Pair] \in Nat /\ clock \in Nat
      BY <2>2, PairTyped DEF TypeOK
    <3> QED  BY <3>1, <3>2 DEF ConsideredFree, InCooldown
  <2> QED  BY <2>1, <2>2 DEF ConsideredFree
<1>3. CurrentAlert'
  <2>1. CASE pc' = "arm"
    <3>1. pc = "arm" /\ Pair' = Pair /\ Current' = Current /\ PairOf(Current)' = PairOf(Current)
      BY <2>1 DEF Pair, Current, PairOf
    <3>2. Current \in DOMAIN alerts
      BY <3>1 DEF TypeOK, Current
    <3>3. alerts[Current].at \in Nat /\ clock \in Nat
      BY <3>2, AlertColumns DEF TypeOK, AlertRow
    <3>4. PairOf(Current) = Pair /\ alerts[Current].at <= clock
          /\ alerts[Current].quiet = CooldownTtl(loaded[cur].row.cooldown)
      BY <3>1 DEF CurrentAlert
    <3> QED  BY <2>1, <3>1, <3>3, <3>4 DEF CurrentAlert, CooldownTtl
  <2>2. CASE pc' \in {"reset", "notify"}
    BY <2>2 DEF CurrentAlert, Armed, Current
  <2> QED  BY <2>1, <2>2 DEF CurrentAlert
<1> QED  BY <1>1, <1>2, <1>3

(* Before any key, alert or evaluation, the inductive invariant holds.     *)
LEMMA SpacingInit == Init => SpacingInv
BY DEF Init, SpacingInv, ArmedCovered, ConsideredFree, CurrentAlert, ToldArmed,
       ArmedSpaced, CooldownHasAlert

\* INSERT: no cooldown covers the moment of the commit, so every armed alert
\* of the pair is far enough in the past.
LEMMA SpacingInsert ==
  ASSUME TypeOK, SpacingInv, Insert
  PROVE  SpacingInv'
<1> USE DEF SpacingInv
<1> DEFINE n == Len(alerts)
<1>1. /\ n \in Nat /\ DOMAIN alerts = 1 .. n
      /\ \A i \in 1 .. n : alerts[i] \in AlertRow
  BY LenProperties, ElementOfSeq DEF TypeOK, AlertRow
<1>2. PICK a : /\ alerts' = Append(alerts, a)
              /\ a.rule = cur /\ a.sensor = event.sensor
              /\ a.at = clock /\ a.until = 0 /\ a.told = FALSE
              /\ a.quiet = CooldownTtl(loaded[cur].row.cooldown)
  BY DEF Insert
<1>3. /\ DOMAIN alerts' = 1 .. n + 1 /\ Len(alerts') = n + 1
      /\ alerts'[n + 1] = a
      /\ \A i \in 1 .. n : alerts'[i] = alerts[i]
  BY <1>1, <1>2 DEF TypeOK
<1>4. /\ UNCHANGED <<clock, cooldown, cur, event, loaded>>
      /\ pc = "insert" /\ pc' = "arm"
  BY DEF Insert, redis, GoTo
<1>5. ArmedCovered'
  BY <1>1, <1>2, <1>3, <1>4 DEF ArmedCovered, Armed, PairOf, AlertRow
<1>6. ConsideredFree'
  BY <1>4 DEF ConsideredFree, InCooldown, Pair
<1>7. CurrentAlert'
  <2>1. Current' = n + 1 /\ PairOf(Current)' = Pair' /\ clock \in Nat
    BY <1>2, <1>3, <1>4 DEF Current, PairOf, Pair, TypeOK
  <2> QED  BY <1>2, <1>3, <1>4, <2>1 DEF CurrentAlert, CooldownTtl
<1>8. ToldArmed'
  BY <1>1, <1>2, <1>3 DEF ToldArmed, Armed
<1>9. ArmedSpaced'
  <2> SUFFICES ASSUME NEW i \in 1 .. n + 1, NEW j \in 1 .. n + 1, i < j,
                      SamePair(i, j)', Armed(i)'
               PROVE  Spaced(i, j)'
    BY <1>3 DEF ArmedSpaced
  <2>1. i \in 1 .. n /\ Armed(i)
    BY <1>1, <1>3 DEF Armed
  <2>2. CASE j \in 1 .. n
    BY <1>1, <1>3, <2>1, <2>2 DEF ArmedSpaced, SamePair, Spaced
  <2>3. CASE j = n + 1
    <3>1. PairOf(i) = Pair
      BY <1>2, <1>3, <2>1, <2>3 DEF SamePair, PairOf, Pair
    <3>2. /\ alerts[i].at + alerts[i].quiet <= alerts[i].until
          /\ alerts[i].until <= cooldown[Pair]
      BY <1>1, <2>1, <3>1 DEF ArmedCovered
    <3>3. cooldown[Pair] \in Nat /\ clock \in Nat /\ ~ (clock < cooldown[Pair])
      BY <1>4, PairTyped DEF ConsideredFree, InCooldown, TypeOK
    <3>4. {alerts[i].at, alerts[i].quiet, alerts[i].until} \subseteq Nat
      BY <1>1, <2>1 DEF AlertRow
    <3>5. clock >= alerts[i].at + alerts[i].quiet
      BY <3>2, <3>3, <3>4
    <3> QED  BY <1>2, <1>3, <2>1, <2>3, <3>5 DEF Spaced
  <2> QED  BY <2>2, <2>3
<1>10. CooldownHasAlert'
  BY <1>1, <1>3, <1>4 DEF CooldownHasAlert
<1> QED  BY <1>5, <1>6, <1>7, <1>8, <1>9, <1>10

\* Writing one alert, seen through the columns of each.
LEMMA OneAlertChanged ==
  ASSUME TypeOK, NEW i \in DOMAIN alerts, NEW v, alerts' = [alerts EXCEPT ![i] = v]
  PROVE  /\ DOMAIN alerts' = DOMAIN alerts /\ Len(alerts') = Len(alerts)
         /\ alerts'[i] = v
         /\ \A j \in DOMAIN alerts : j # i => alerts'[j] = alerts[j]
BY DEF TypeOK

\* SET: the key now covers the alert that was just committed, and it ends
\* later than the key it replaces.
LEMMA SpacingArm ==
  ASSUME TypeOK, SpacingInv, ArmCooldown
  PROVE  SpacingInv'
<1> USE DEF SpacingInv
<1> DEFINE n == Len(alerts)
           expires == clock + CooldownTtl(loaded[cur].row.cooldown)
<1>1. /\ n \in Nat /\ n > 0 /\ DOMAIN alerts = 1 .. n /\ n \in DOMAIN alerts
      /\ \A i \in 1 .. n : alerts[i] \in AlertRow
  <2>1. alerts \in Seq(AlertRow) /\ n > 0
    BY DEF TypeOK, AlertRow, ArmCooldown, Current
  <2> QED  BY <2>1, LenProperties, ElementOfSeq
<1>2. /\ pc = "arm" /\ pc' = "reset"
      /\ UNCHANGED <<clock, cur, event, loaded>>
      /\ alerts' = [alerts EXCEPT ![n] = [alerts[n] EXCEPT !.until = expires]]
      /\ cooldown' = [cooldown EXCEPT ![Pair] = expires]
  BY DEF ArmCooldown, GoTo, Current
<1>3. /\ DOMAIN alerts' = 1 .. n /\ Len(alerts') = n
      /\ alerts'[n] = [alerts[n] EXCEPT !.until = expires]
      /\ \A i \in 1 .. n : i # n => alerts'[i] = alerts[i]
  BY <1>1, <1>2, OneAlertChanged
<1>4. /\ PairOf(n) = Pair /\ alerts[n].at <= clock
      /\ alerts[n].quiet = CooldownTtl(loaded[cur].row.cooldown)
      /\ clock \in Nat /\ Pair \in Pairs
      /\ cooldown[Pair] \in Nat /\ cooldown[Pair] <= clock
  <2>1. /\ PairOf(n) = Pair /\ alerts[n].at <= clock
        /\ alerts[n].quiet = CooldownTtl(loaded[cur].row.cooldown)
    BY <1>2 DEF CurrentAlert, Current
  <2>2. ~ (clock < cooldown[Pair])
    BY <1>2 DEF ConsideredFree, InCooldown
  <2>3. clock \in Nat /\ Pair \in Pairs /\ cooldown[Pair] \in Nat
    BY <1>2, PairTyped DEF TypeOK
  <2> QED  BY <2>1, <2>2, <2>3
<1>5. expires \in Nat /\ expires > clock /\ alerts[n].at + alerts[n].quiet <= expires
  <2>1. loaded[cur].row.cooldown \in Nat
    <3>1. loaded[cur].row \in Row
      BY <1>2, LiveRow DEF TypeOK, RuleState
    <3> QED  BY <3>1, ConstantsAssumption DEF Row
  <2>2. CooldownTtl(loaded[cur].row.cooldown) \in Nat \ {0}
    BY <2>1, CooldownTtlPositive
  <2>3. alerts[n].at \in Nat
    BY <1>1 DEF AlertRow
  <2> QED  BY <1>4, <2>2, <2>3
<1> HIDE DEF expires
\* The columns other than `until` are those of before.
<1>6. \A i \in 1 .. n : /\ PairOf(i)' = PairOf(i)
                        /\ alerts'[i].rule = alerts[i].rule
                        /\ alerts'[i].sensor = alerts[i].sensor
                        /\ alerts'[i].at = alerts[i].at
                        /\ alerts'[i].quiet = alerts[i].quiet
                        /\ alerts'[i].told = alerts[i].told
                        /\ alerts'[i].until = IF i = n THEN expires ELSE alerts[i].until
  BY <1>1, <1>3 DEF PairOf, AlertRow
<1>7. ArmedCovered'
  <2> SUFFICES ASSUME NEW i \in 1 .. n, Armed(i)'
               PROVE  /\ alerts'[i].until <= cooldown'[PairOf(i)']
                      /\ alerts'[i].at + alerts'[i].quiet <= alerts'[i].until
    BY <1>3 DEF ArmedCovered
  <2>1. CASE i = n
    <3>1. cooldown'[Pair] = expires
      BY <1>2, <1>4 DEF TypeOK
    <3> QED  BY <1>4, <1>5, <1>6, <2>1, <3>1
  <2>2. CASE i # n
    <3>1. /\ alerts[i].until <= cooldown[PairOf(i)]
          /\ alerts[i].at + alerts[i].quiet <= alerts[i].until
      BY <1>1, <1>6, <2>2 DEF ArmedCovered, Armed
    <3>2. alerts[i].until \in Nat
      BY <1>1 DEF AlertRow
    <3>3. CASE PairOf(i) = Pair
      <4>1. cooldown'[PairOf(i)] = expires
        BY <1>2, <1>4, <3>3 DEF TypeOK
      <4> QED  BY <1>4, <1>5, <1>6, <2>2, <3>1, <3>2, <3>3, <4>1
    <3>4. CASE PairOf(i) # Pair
      <4>1. cooldown'[PairOf(i)] = cooldown[PairOf(i)]
        BY <1>2, <3>4 DEF TypeOK
      <4> QED  BY <1>6, <2>2, <3>1, <4>1
    <3> QED  BY <3>3, <3>4
  <2> QED  BY <2>1, <2>2
<1>8. ConsideredFree'
  BY <1>2 DEF ConsideredFree
<1>9. CurrentAlert'
  <2>1. alerts'[n].until > 0
    <3>1. alerts'[n].until = expires
      BY <1>1, <1>6
    <3>2. expires > 0
      BY <1>4, <1>5
    <3> QED  BY <3>1, <3>2
  <2> QED  BY <1>2, <1>3, <2>1 DEF CurrentAlert, Current, Armed
<1>10. ToldArmed'
  BY <1>3, <1>4, <1>5, <1>6 DEF ToldArmed, Armed
<1>11. ArmedSpaced'
  <2> SUFFICES ASSUME NEW i \in 1 .. n, NEW j \in 1 .. n, i < j,
                      SamePair(i, j)', Armed(i)'
               PROVE  Spaced(i, j)'
    BY <1>3 DEF ArmedSpaced
  <2>1. i # n /\ SamePair(i, j) /\ Armed(i)
    BY <1>1, <1>3, <1>6 DEF SamePair, Armed
  <2>2. Spaced(i, j)
    BY <1>1, <2>1 DEF ArmedSpaced
  <2> QED  BY <1>6, <2>2 DEF Spaced
<1>12. CooldownHasAlert'
  <2> SUFFICES ASSUME NEW p \in Pairs, cooldown'[p] > 0
               PROVE  \E i \in 1 .. n : /\ PairOf(i)' = p
                                         /\ alerts'[i].until = cooldown'[p]
    BY <1>3 DEF CooldownHasAlert, PairOf
  <2>1. CASE p = Pair
    BY <1>1, <1>2, <1>4, <1>6, <2>1 DEF TypeOK
  <2>2. CASE p # Pair
    <3>1. cooldown'[p] = cooldown[p]
      BY <1>2, <2>2 DEF TypeOK
    <3>2. PICK i \in 1 .. n : PairOf(i) = p /\ alerts[i].until = cooldown[p]
      BY <1>1, <3>1 DEF CooldownHasAlert, PairOf
    <3> QED  BY <1>4, <1>6, <2>2, <3>1, <3>2
  <2> QED  BY <2>1, <2>2
<1> QED  BY <1>7, <1>8, <1>9, <1>10, <1>11, <1>12

\* Writing the column status, or told on an armed alert, disturbs nothing.
LEMMA SpacingAlertEdit ==
  ASSUME TypeOK, SpacingInv, NEW i \in DOMAIN alerts, NEW v \in AlertRow,
         alerts' = [alerts EXCEPT ![i] = v],
         v.rule = alerts[i].rule, v.sensor = alerts[i].sensor,
         v.at = alerts[i].at, v.quiet = alerts[i].quiet,
         v.until = alerts[i].until, v.told => alerts[i].told \/ Armed(i),
         UNCHANGED <<clock, cooldown>>,
         pc' \in {"rules"} \/ UNCHANGED <<pc, cur, event, loaded>>
  PROVE  SpacingInv'
<1> USE DEF SpacingInv
<1>1. /\ DOMAIN alerts' = DOMAIN alerts /\ Len(alerts') = Len(alerts)
      /\ alerts'[i] = v
      /\ \A j \in DOMAIN alerts : j # i => alerts'[j] = alerts[j]
  BY OneAlertChanged
<1>2. \A j \in DOMAIN alerts : /\ PairOf(j)' = PairOf(j)
                               /\ alerts'[j].at = alerts[j].at
                               /\ alerts'[j].quiet = alerts[j].quiet
                               /\ alerts'[j].until = alerts[j].until
                               /\ alerts'[j].told => alerts[j].told \/ Armed(j)
  BY <1>1 DEF PairOf
<1>3. ArmedCovered'
  BY <1>1, <1>2 DEF ArmedCovered, Armed
<1>4. ConsideredFree'
  BY DEF ConsideredFree, InCooldown, Pair
<1>5. CurrentAlert'
  <2>1. pc \in {"arm", "reset", "notify"} => Current \in DOMAIN alerts
    BY LenProperties DEF TypeOK, Current
  <2> QED  BY <1>1, <1>2, <2>1 DEF CurrentAlert, Current, Armed, Pair, CooldownTtl
<1>6. ToldArmed'
  BY <1>1, <1>2 DEF ToldArmed, Armed
<1>7. ArmedSpaced'
  BY <1>1, <1>2 DEF ArmedSpaced, Armed, SamePair, Spaced, PairOf
<1>8. CooldownHasAlert'
  BY <1>1, <1>2 DEF CooldownHasAlert, PairOf
<1> QED  BY <1>3, <1>4, <1>5, <1>6, <1>7, <1>8

LEMMA SpacingStep == TypeOK /\ SpacingInv /\ [Next]_vars => SpacingInv'
<1> SUFFICES ASSUME TypeOK, SpacingInv, [Next]_vars PROVE SpacingInv'
  OBVIOUS
<1> USE DEF db, redis, engine, history, bounds
<1>0. clock \in Nat
  BY DEF TypeOK
<1>1. ASSUME NEW s \in Sensors, NEW v \in Values, Submit(s, v) PROVE SpacingInv'
  BY <1>0, <1>1, SpacingFrame DEF Submit
<1>2. CASE Load
  BY <1>0, <1>2, SpacingFrame DEF Load
<1>3. CASE Done \/ InsertRefused
  BY <1>0, <1>3, SpacingFrame DEF Done, InsertRefused, Finish
<1>4. ASSUME NEW r \in Rules, ClearBreach(r) \/ Ignore(r) PROVE SpacingInv'
  BY <1>0, <1>4, SpacingFrame DEF ClearBreach, Ignore, NextRule
<1>5. ASSUME NEW r \in Rules, Consider(r) PROVE SpacingInv'
  <2>1. /\ UNCHANGED <<clock, alerts, cooldown, event, loaded>>
        /\ cur' = r /\ pc' \in {"time", "insert"} /\ ~ InCooldown(<<r, event.sensor>>)
    BY <1>5 DEF Consider
  <2>2. ConsideredFree'
    BY <2>1 DEF ConsideredFree, InCooldown, Pair
  <2> QED
    BY <2>1, <2>2 DEF SpacingInv, ArmedCovered, CurrentAlert, ToldArmed,
       ArmedSpaced, CooldownHasAlert, Armed, PairOf, SamePair, Spaced
<1>6. CASE ReadTime \/ GateMiss \/ GatePass
  BY <1>0, <1>6, SpacingFrame DEF ReadTime, GateMiss, GatePass, GoTo
<1>7. CASE MarkBreach \/ GateWait
  BY <1>0, <1>7, SpacingFrame DEF MarkBreach, GateWait, NextRule
<1>8. CASE Insert
  BY <1>8, SpacingInsert
<1>9. CASE ArmCooldown
  BY <1>9, SpacingArm
<1>10. CASE ResetBreach
  BY <1>0, <1>10, SpacingFrame DEF ResetBreach, GoTo
<1>11. CASE Notify
  <2> DEFINE a == [alerts[Current] EXCEPT !.told = TRUE]
  <2>1. alerts \in Seq(AlertRow)
    BY DEF TypeOK, AlertRow
  <2>2. Current \in DOMAIN alerts
    BY <1>11, <2>1, LenProperties DEF Notify, TypeOK, Current
  <2>3. alerts[Current] \in AlertRow /\ a \in AlertRow
    BY <2>1, <2>2, AlertColumns
  <2>4. /\ a.rule = alerts[Current].rule /\ a.sensor = alerts[Current].sensor
        /\ a.at = alerts[Current].at /\ a.quiet = alerts[Current].quiet
        /\ a.until = alerts[Current].until
    BY <2>3 DEF AlertRow
  <2>5. Armed(Current)
    BY <1>11 DEF Notify, SpacingInv, CurrentAlert
  <2>6. /\ alerts' = [alerts EXCEPT ![Current] = a]
        /\ UNCHANGED <<clock, cooldown>> /\ pc' = "rules"
    BY <1>11 DEF Notify, NextRule
  <2> HIDE DEF a
  <2> QED  BY <2>2, <2>3, <2>4, <2>5, <2>6, SpacingAlertEdit
<1>12. ASSUME NEW i \in DOMAIN alerts, Acknowledge(i) PROVE SpacingInv'
  <2> DEFINE a == [alerts[i] EXCEPT !.status = "ACKNOWLEDGED"]
  <2>1. alerts[i] \in AlertRow /\ a \in AlertRow
    BY AlertColumns DEF TypeOK, AlertRow
  <2>2. /\ a.rule = alerts[i].rule /\ a.sensor = alerts[i].sensor
        /\ a.at = alerts[i].at /\ a.quiet = alerts[i].quiet
        /\ a.until = alerts[i].until /\ a.told = alerts[i].told
    BY <2>1 DEF AlertRow
  <2>3. /\ alerts' = [alerts EXCEPT ![i] = a]
        /\ UNCHANGED <<clock, cooldown, pc, cur, event, loaded>>
    BY <1>12 DEF Acknowledge
  <2> HIDE DEF a
  <2> QED  BY <2>1, <2>2, <2>3, SpacingAlertEdit
<1>13. ASSUME NEW r \in Rules, NEW row \in Row,
              CreateRule(r, row) \/ UpdateRule(r, row)
       PROVE  SpacingInv'
  BY <1>0, <1>13, SpacingFrame DEF CreateRule, UpdateRule
<1>14. ASSUME NEW r \in Rules, DeleteRule(r) PROVE SpacingInv'
  BY <1>0, <1>14, SpacingFrame DEF DeleteRule
<1>15. CASE Abort
  BY <1>0, <1>15, SpacingFrame DEF Abort, Finish
<1>16. CASE Tick
  BY <1>0, <1>16, SpacingFrame DEF Tick
<1>17. CASE UNCHANGED vars
  BY <1>0, <1>17, SpacingFrame DEF vars
<1> QED
  BY <1>1, <1>2, <1>3, <1>4, <1>5, <1>6, <1>7, <1>8, <1>9, <1>10, <1>11, <1>12,
     <1>13, <1>14, <1>15, <1>16, <1>17 DEF Next, EngineStep, ApiStep

\* The strengthening of NotificationSpacing holds in every reachable state:
\* each cooldown key covers the alerts it was armed for (alert_engine.py:140-143).
THEOREM SpacingCorrect == Spec => []SpacingInv
<1>1. TypeOK /\ SpacingInv /\ [Next]_vars => SpacingInv'
  BY SpacingStep
<1> QED  BY <1>1, SpacingInit, TypeCorrect, PTL DEF Spec

\* An owner who has been told of an alert hears of no other one of the same
\* rule and sensor before the cooldown has passed: dispatch follows the SET of
\* the cooldown key, which outlives the cooldown of every alert told so far.
THEOREM NotificationSpacingCorrect == Spec => []NotificationSpacing
<1>1. SpacingInv => NotificationSpacing
  BY DEF SpacingInv, ToldArmed, ArmedSpaced, NotificationSpacing
<1> QED  BY <1>1, SpacingCorrect, PTL

\* A rule is silenced only after one of its alerts was committed.
THEOREM CooldownHasAlertCorrect == Spec => []CooldownHasAlert
<1>1. SpacingInv => CooldownHasAlert
  BY DEF SpacingInv
<1> QED  BY <1>1, SpacingCorrect, PTL

-----------------------------------------------------------------------------
(* The engine implements AlertContract.                                    *)

\* Writing a column the owner is not told about changes no promise.
LEMMA PromisesKept ==
  ASSUME TypeOK, NEW i \in DOMAIN alerts, NEW v \in AlertRow,
         alerts' = [alerts EXCEPT ![i] = v],
         v.rule = alerts[i].rule, v.sensor = alerts[i].sensor,
         v.at = alerts[i].at, v.quiet = alerts[i].quiet
  PROVE  /\ DOMAIN alerts' = DOMAIN alerts /\ Current' = Current
         /\ \A j \in DOMAIN alerts : PromiseOf(j)' = PromiseOf(j)
         /\ \A j \in DOMAIN alerts : j # i => alerts'[j] = alerts[j]
         /\ alerts'[i] = v
<1>1. /\ DOMAIN alerts' = DOMAIN alerts /\ Len(alerts') = Len(alerts) /\ alerts'[i] = v
      /\ \A j \in DOMAIN alerts : j # i => alerts'[j] = alerts[j]
  BY OneAlertChanged
<1> QED  BY <1>1 DEF PromiseOf, Current

\* What is promised is a moment.
LEMMA PromiseTyped ==
  ASSUME TypeOK, NEW i \in DOMAIN alerts
  PROVE  alerts[i].at \in Nat /\ alerts[i].quiet \in Nat /\ PromiseOf(i) # NoPromise
<1>1. alerts[i] \in AlertRow
  BY AlertColumns DEF TypeOK, AlertRow
<1>2. alerts[i].at \in Nat /\ alerts[i].quiet \in Nat
  BY <1>1 DEF AlertRow
<1>3. PromiseOf(i).until = alerts[i].at + alerts[i].quiet /\ NoPromise.until = -1
  BY DEF PromiseOf, NoPromise
<1>4. PromiseOf(i).until # NoPromise.until
  BY <1>2, <1>3
<1> QED  BY <1>2, <1>4

\* A step that leaves the alerts alone and does not touch one being told.
LEMMA ContractStutter ==
  ASSUME UNCHANGED <<clock, alerts>>,
         (pc \in Telling /\ pc' \in Telling) \/ (pc \notin Telling /\ pc' \notin Telling)
  PROVE  UNCHANGED Contract!vars
BY DEF Contract!vars, Raised, Promised, PromiseOf, Current

\* INSERT raises an alert: no promise of silence still holds for the pair,
\* because every alert told of is covered by the cooldown key that EXISTS
\* did not find.
LEMMA InsertRaises ==
  ASSUME TypeOK, SpacingInv, Insert
  PROVE  Contract!Next
<1> USE DEF SpacingInv
<1> DEFINE n == Len(alerts)
           quiet == CooldownTtl(loaded[cur].row.cooldown)
<1>1. /\ n \in Nat /\ DOMAIN alerts = 1 .. n
      /\ \A i \in 1 .. n : alerts[i] \in AlertRow
  BY LenProperties, ElementOfSeq DEF TypeOK, AlertRow
<1>2. PICK a : /\ alerts' = Append(alerts, a)
              /\ a.rule = cur /\ a.sensor = event.sensor
              /\ a.at = clock /\ a.told = FALSE /\ a.quiet = quiet
  BY DEF Insert
<1>3. /\ DOMAIN alerts' = 1 .. n + 1 /\ Len(alerts') = n + 1
      /\ alerts'[n + 1] = a
      /\ \A i \in 1 .. n : alerts'[i] = alerts[i]
  BY <1>1, <1>2 DEF TypeOK
<1>4. pc = "insert" /\ pc' = "arm" /\ clock' = clock
  BY DEF Insert, GoTo
<1>5. Pair \in Pairs /\ cooldown[Pair] \in Nat /\ clock \in Nat
  BY <1>4, PairTyped DEF TypeOK
<1>6. Raised = NoPromise
  BY <1>4 DEF Raised, Telling
<1>7. Raised' = Contract!Promise(Pair, clock + quiet)
  BY <1>2, <1>3, <1>4 DEF Raised, Telling, Current, PromiseOf, Pair, Contract!Promise
<1>8. Promised' = Promised
  <2>1. \A i \in 1 .. n : PromiseOf(i)' = PromiseOf(i)
    BY <1>3 DEF PromiseOf
  <2>2. \A i \in 1 .. n + 1 : alerts'[i].told => i \in 1 .. n
    BY <1>1, <1>2, <1>3
  <2> QED  BY <1>1, <1>3, <2>1, <2>2 DEF Promised
<1>9. ~ Contract!Silent(Pair)
  <2> SUFFICES ASSUME NEW i \in 1 .. n, alerts[i].told, PromiseOf(i).pair = Pair,
                      clock < PromiseOf(i).until
               PROVE  FALSE
    BY <1>1 DEF Contract!Silent, Promised
  <2>1. Armed(i) /\ PairOf(i) = Pair
    BY <1>1 DEF ToldArmed, PromiseOf, PairOf
  <2>2. /\ alerts[i].at + alerts[i].quiet <= alerts[i].until
        /\ alerts[i].until <= cooldown[Pair]
    BY <1>1, <2>1 DEF ArmedCovered
  <2>3. ~ (clock < cooldown[Pair])
    BY <1>4 DEF ConsideredFree, InCooldown
  <2>4. {alerts[i].at, alerts[i].quiet, alerts[i].until} \subseteq Nat
    BY <1>1 DEF AlertRow
  <2>5. PromiseOf(i).until = alerts[i].at + alerts[i].quiet
    BY DEF PromiseOf
  <2> QED  BY <1>5, <2>2, <2>3, <2>4, <2>5
<1>10. loaded[cur].row.cooldown \in Cooldowns
  <2>1. cur \in todo /\ todo \subseteq {r \in Rules : loaded[r].state = "live"}
    BY <1>4 DEF TypeOK
  <2>2. loaded[cur].row \in Row
    BY <2>1, LiveRow DEF TypeOK, RuleState
  <2> QED  BY <2>2 DEF Row
<1>11. Contract!Raise(Pair, quiet)
  BY <1>4, <1>6, <1>7, <1>8, <1>9 DEF Contract!Raise
<1> QED  BY <1>5, <1>10, <1>11 DEF Contract!Next

\* SET: the alert being told stays the same.
LEMMA ArmStutters ==
  ASSUME TypeOK, ArmCooldown
  PROVE  UNCHANGED Contract!vars
<1> DEFINE expires == clock + CooldownTtl(loaded[cur].row.cooldown)
           a == [alerts[Current] EXCEPT !.until = expires]
<1>1. /\ pc = "arm" /\ pc' = "reset" /\ clock' = clock
      /\ alerts' = [alerts EXCEPT ![Current] = a]
  BY DEF ArmCooldown, GoTo
<1>2. Current \in DOMAIN alerts
  BY <1>1, LenProperties DEF TypeOK, Current
<1>3. expires \in Nat
  <2>1. cur \in todo /\ todo \subseteq {r \in Rules : loaded[r].state = "live"}
    BY <1>1 DEF TypeOK
  <2>2. loaded[cur].row \in Row
    BY <2>1, LiveRow DEF TypeOK, RuleState
  <2>3. loaded[cur].row.cooldown \in Nat
    BY <2>2, ConstantsAssumption DEF Row
  <2>4. CooldownTtl(loaded[cur].row.cooldown) \in Nat
    BY <2>3, CooldownTtlPositive
  <2>5. clock \in Nat
    BY DEF TypeOK
  <2> QED  BY <2>4, <2>5
<1>4. alerts[Current] \in AlertRow /\ a \in AlertRow
  <2> HIDE DEF expires
  <2> QED  BY <1>2, <1>3, AlertColumns DEF TypeOK, AlertRow
<1>5. /\ a.rule = alerts[Current].rule /\ a.sensor = alerts[Current].sensor
      /\ a.at = alerts[Current].at /\ a.quiet = alerts[Current].quiet
      /\ a.told = alerts[Current].told
  BY <1>4 DEF AlertRow
<1> HIDE DEF a
<1>6. /\ DOMAIN alerts' = DOMAIN alerts /\ Current' = Current
      /\ \A j \in DOMAIN alerts : PromiseOf(j)' = PromiseOf(j)
      /\ \A j \in DOMAIN alerts : j # Current => alerts'[j] = alerts[j]
      /\ alerts'[Current] = a
  BY <1>1, <1>2, <1>4, <1>5, PromisesKept
<1>7. Promised' = Promised
  BY <1>5, <1>6 DEF Promised
<1>8. Raised' = Raised
  BY <1>1, <1>2, <1>6 DEF Raised, Telling, PromiseOf
<1> QED  BY <1>1, <1>7, <1>8 DEF Contract!vars

\* Dispatch makes the alert's cooldown a promise.
LEMMA NotifyTells ==
  ASSUME TypeOK, Notify
  PROVE  Contract!Tell
<1> DEFINE a == [alerts[Current] EXCEPT !.told = TRUE]
<1>1. /\ pc = "notify" /\ pc' = "rules" /\ clock' = clock
      /\ alerts' = [alerts EXCEPT ![Current] = a]
  BY DEF Notify, NextRule
<1>2. Current \in DOMAIN alerts
  BY <1>1, LenProperties DEF TypeOK, Current
<1>3. alerts[Current] \in AlertRow /\ a \in AlertRow
  BY <1>2, AlertColumns DEF TypeOK, AlertRow
<1>4. /\ a.rule = alerts[Current].rule /\ a.sensor = alerts[Current].sensor
      /\ a.at = alerts[Current].at /\ a.quiet = alerts[Current].quiet
      /\ a.told = TRUE
  BY <1>3 DEF AlertRow
<1> HIDE DEF a
<1>5. /\ DOMAIN alerts' = DOMAIN alerts
      /\ \A j \in DOMAIN alerts : PromiseOf(j)' = PromiseOf(j)
      /\ \A j \in DOMAIN alerts : j # Current => alerts'[j] = alerts[j]
      /\ alerts'[Current] = a
  BY <1>1, <1>2, <1>3, <1>4, PromisesKept
<1>6. Raised = PromiseOf(Current) /\ Raised' = NoPromise
  BY <1>1 DEF Raised, Telling, NoPromise
<1>7. {j \in DOMAIN alerts' : alerts'[j].told} = {j \in DOMAIN alerts : alerts[j].told} \cup {Current}
  BY <1>2, <1>4, <1>5
<1>8. Promised' = Promised \cup {PromiseOf(Current)}
  BY <1>2, <1>5, <1>7 DEF Promised
<1>9. PromiseOf(Current) # NoPromise
  BY <1>2, PromiseTyped
<1> QED  BY <1>1, <1>6, <1>8, <1>9 DEF Contract!Tell

LEMMA AcknowledgeStutters ==
  ASSUME TypeOK, NEW i \in DOMAIN alerts, Acknowledge(i)
  PROVE  UNCHANGED Contract!vars
<1> DEFINE a == [alerts[i] EXCEPT !.status = "ACKNOWLEDGED"]
<1>1. /\ alerts' = [alerts EXCEPT ![i] = a]
      /\ UNCHANGED <<clock, pc>>
  BY DEF Acknowledge, engine
<1>2. alerts[i] \in AlertRow /\ a \in AlertRow
  BY AlertColumns DEF TypeOK, AlertRow
<1>3. /\ a.rule = alerts[i].rule /\ a.sensor = alerts[i].sensor
      /\ a.at = alerts[i].at /\ a.quiet = alerts[i].quiet /\ a.told = alerts[i].told
  BY <1>2 DEF AlertRow
<1> HIDE DEF a
<1>4. /\ DOMAIN alerts' = DOMAIN alerts /\ Current' = Current
      /\ \A j \in DOMAIN alerts : PromiseOf(j)' = PromiseOf(j)
      /\ \A j \in DOMAIN alerts : j # i => alerts'[j] = alerts[j]
      /\ alerts'[i] = a
  BY <1>1, <1>2, <1>3, PromisesKept
<1>5. Promised' = Promised
  BY <1>3, <1>4 DEF Promised
<1>6. pc \in Telling => Current \in DOMAIN alerts
  BY LenProperties DEF TypeOK, Current, Telling
<1>7. Raised' = Raised
  BY <1>1, <1>4, <1>6 DEF Raised
<1> QED  BY <1>1, <1>5, <1>7 DEF Contract!vars

\* An evaluation cut short while an alert is being told loses it.
LEMMA AbortLoses ==
  ASSUME TypeOK, Abort
  PROVE  [Contract!Next]_(Contract!vars)
<1>1. UNCHANGED <<clock, alerts>> /\ pc' = "idle"
  BY DEF Abort, Finish, db
<1>2. CASE pc \notin Telling
  <2>1. pc' \notin Telling
    BY <1>1 DEF Telling
  <2> QED  BY <1>1, <1>2, <2>1, ContractStutter
<1>3. CASE pc \in Telling
  <2>1. Current \in DOMAIN alerts
    BY <1>3, LenProperties DEF TypeOK, Current, Telling
  <2>2. Raised = PromiseOf(Current) /\ Raised' = NoPromise /\ Promised' = Promised
    BY <1>1, <1>3 DEF Raised, Telling, NoPromise, Promised, PromiseOf
  <2>3. Raised # NoPromise
    BY <2>1, <2>2, PromiseTyped
  <2> QED  BY <1>1, <2>2, <2>3 DEF Contract!Lose, Contract!Next
<1> QED  BY <1>2, <1>3

LEMMA ContractStep ==
  TypeOK /\ SpacingInv /\ [Next]_vars => [Contract!Next]_(Contract!vars)
<1> SUFFICES ASSUME TypeOK, SpacingInv, [Next]_vars PROVE [Contract!Next]_(Contract!vars)
  OBVIOUS
<1> USE DEF db, redis, engine, history, bounds, Telling
<1>1. ASSUME NEW s \in Sensors, NEW v \in Values, Submit(s, v)
      PROVE  UNCHANGED Contract!vars
  BY <1>1, ContractStutter DEF Submit
<1>2. CASE Load
  BY <1>2, ContractStutter DEF Load
<1>3. CASE Done \/ InsertRefused
  BY <1>3, ContractStutter DEF Done, InsertRefused, Finish
<1>4. ASSUME NEW r \in Rules, ClearBreach(r) \/ Ignore(r) PROVE UNCHANGED Contract!vars
  BY <1>4, ContractStutter DEF ClearBreach, Ignore, NextRule
<1>5. ASSUME NEW r \in Rules, Consider(r) PROVE UNCHANGED Contract!vars
  BY <1>5, ContractStutter DEF Consider
<1>6. CASE ReadTime \/ GateMiss \/ GatePass
  BY <1>6, ContractStutter DEF ReadTime, GateMiss, GatePass, GoTo
<1>7. CASE MarkBreach \/ GateWait
  BY <1>7, ContractStutter DEF MarkBreach, GateWait, NextRule
<1>8. CASE Insert
  BY <1>8, InsertRaises
<1>9. CASE ArmCooldown
  BY <1>9, ArmStutters
<1>10. CASE ResetBreach
  BY <1>10, ContractStutter DEF ResetBreach, GoTo
<1>11. CASE Notify
  BY <1>11, NotifyTells DEF Contract!Next
<1>12. ASSUME NEW i \in DOMAIN alerts, Acknowledge(i) PROVE UNCHANGED Contract!vars
  BY <1>12, AcknowledgeStutters
<1>13. ASSUME NEW r \in Rules, NEW row \in Row, CreateRule(r, row) \/ UpdateRule(r, row)
       PROVE  UNCHANGED Contract!vars
  BY <1>13, ContractStutter DEF CreateRule, UpdateRule
<1>14. ASSUME NEW r \in Rules, DeleteRule(r) PROVE UNCHANGED Contract!vars
  BY <1>14, ContractStutter DEF DeleteRule
<1>15. CASE Abort
  BY <1>15, AbortLoses
<1>16. CASE Tick
  <2>1. clock' = clock + 1 /\ UNCHANGED <<alerts, pc>>
    BY <1>16 DEF Tick
  <2>2. Raised' = Raised /\ Promised' = Promised
    BY <2>1 DEF Raised, Promised, PromiseOf, Current
  <2> QED  BY <2>1, <2>2 DEF Contract!Tick, Contract!Next
<1>17. CASE UNCHANGED vars
  BY <1>17, ContractStutter DEF vars
<1> QED
  BY <1>1, <1>2, <1>3, <1>4, <1>5, <1>6, <1>7, <1>8, <1>9, <1>10, <1>11, <1>12,
     <1>13, <1>14, <1>15, <1>16, <1>17 DEF Next, EngineStep, ApiStep

\* The engine implements the contract with the owner, for any rules, sensors
\* and clocks: alert_engine.py:111-171 keeps every promise of silence.
THEOREM ContractKept == Spec => KeepsContract
<1>1. Init => Contract!Init
  BY DEF Init, Contract!Init, Raised, Telling, Promised
<1>2. TypeOK /\ SpacingInv /\ [Next]_vars => [Contract!Next]_(Contract!vars)
  BY ContractStep
<1> QED
  BY <1>1, <1>2, TypeCorrect, SpacingCorrect, PTL DEF Spec, KeepsContract, Contract!Spec

-----------------------------------------------------------------------------
(* The duration gate.                                                      *)

Undisturbed == edits = 0 /\ aborts = 0
Running == {"time", "gate", "mark", "insert", "arm", "reset", "notify"}

\* The reading under evaluation does not breach the rule, whose key it is still
\* to clear.
Pending(p) == /\ event.sensor = p[2] /\ ~ Breach(rules[p[1]].row, event.value)
              /\ pc = "load" \/ p[1] \in todo

\* A breach is tracked for rules that are evaluated, since the last reading back
\* to normal.
KeysEvaluated ==
  \A p \in Pairs : breachKey[p] # NoKey =>
    /\ IsLive(p[1]) /\ rules[p[1]].row.active /\ AppliesTo(rules[p[1]].row, p[2])
    /\ breachKey[p].first >= below[p] \/ Pending(p)
TodoCurrent ==
  /\ pc \in {"idle", "load"} => todo = {}
  /\ \A r \in todo : /\ rules[r] = loaded[r] /\ rules[r].row.active
                     /\ AppliesTo(rules[r].row, event.sensor)
CurBreaches == pc \in Running => Breach(loaded[cur].row, event.value)
BelowPast == /\ \A p \in Pairs : below[p] <= clock
             /\ pc \in {"gate", "mark"} => below[Pair] <= nowTs /\ nowTs <= clock
             /\ pc = "insert" /\ loaded[cur].row.duration > 0 =>
                  /\ breachKey[Pair] # NoKey
                  /\ clock - breachKey[Pair].first >= loaded[cur].row.duration
SustainInv == Undisturbed =>
  KeysEvaluated /\ TodoCurrent /\ CurBreaches /\ BelowPast /\ Sustained

SameHistory(j) == /\ alerts'[j].duration = alerts[j].duration
                  /\ alerts'[j].at = alerts[j].at
                  /\ alerts'[j].since = alerts[j].since
                  /\ alerts'[j].below = alerts[j].below

\* No step after the INSERT writes the columns Sustained reads.
LEMMA HistoryKept ==
  ASSUME TypeOK, Sustained,
         \/ alerts' = alerts
         \/ ArmCooldown \/ Notify
         \/ \E i \in DOMAIN alerts : Acknowledge(i)
  PROVE  Sustained'
<1>1. ASSUME NEW i \in DOMAIN alerts, NEW v,
             \/ alerts' = [alerts EXCEPT ![i] = [alerts[i] EXCEPT !.until = v]]
             \/ alerts' = [alerts EXCEPT ![i] = [alerts[i] EXCEPT !.told = TRUE]]
             \/ alerts' = [alerts EXCEPT ![i] = [alerts[i] EXCEPT !.status = "ACKNOWLEDGED"]]
      PROVE  DOMAIN alerts' = DOMAIN alerts /\ \A j \in DOMAIN alerts : SameHistory(j)
  <2>1. alerts[i] \in AlertRow
    BY AlertColumns DEF TypeOK, AlertRow
  <2>2. PICK a : /\ alerts' = [alerts EXCEPT ![i] = a]
                /\ a.duration = alerts[i].duration /\ a.at = alerts[i].at
                /\ a.since = alerts[i].since /\ a.below = alerts[i].below
    BY <1>1, <2>1 DEF AlertRow
  <2>3. /\ DOMAIN alerts' = DOMAIN alerts /\ alerts'[i] = a
        /\ \A j \in DOMAIN alerts : j # i => alerts'[j] = alerts[j]
    BY <2>2, OneAlertChanged
  <2> QED
    BY <2>2, <2>3 DEF SameHistory
<1>2. ASSUME DOMAIN alerts' = DOMAIN alerts, \A j \in DOMAIN alerts : SameHistory(j)
      PROVE  Sustained'
  BY <1>2 DEF Sustained, SameHistory
<1>3. CASE alerts' = alerts
  BY <1>3 DEF Sustained
<1>4. CASE ArmCooldown \/ Notify
  <2>1. Current \in DOMAIN alerts
    BY <1>4, LenProperties DEF ArmCooldown, Notify, TypeOK, Current
  <2> QED
    BY <1>1, <1>2, <1>4, <2>1 DEF ArmCooldown, Notify
<1>5. CASE \E i \in DOMAIN alerts : Acknowledge(i)
  BY <1>1, <1>2, <1>5 DEF Acknowledge
<1> QED
  BY <1>3, <1>4, <1>5

\* An evaluation in progress is about a rule that is the table's and breached.
LEMMA CurrentRule ==
  ASSUME TypeOK, TodoCurrent, CurBreaches, pc \in Running
  PROVE  /\ cur \in todo /\ cur \in Rules /\ rules[cur] = loaded[cur] /\ IsLive(cur)
         /\ loaded[cur].row \in Row /\ loaded[cur].row.duration \in Nat
         /\ Pair \in Pairs /\ Pair[1] = cur /\ Pair[2] = event.sensor
         /\ ~ Pending(Pair)
<1>1. cur \in todo /\ cur \in Rules /\ loaded[cur].state = "live" /\ loaded[cur] \in RuleState
  BY DEF Running, TypeOK, RuleState
<1>2. rules[cur] = loaded[cur] /\ IsLive(cur)
  BY <1>1 DEF TodoCurrent, IsLive
<1>3. loaded[cur].row \in Row
  BY <1>1, LiveRow
<1>4. Pair \in Pairs /\ Pair[1] = cur /\ Pair[2] = event.sensor
  BY <1>1, PairTyped DEF Running, Pair
<1> QED
  BY <1>1, <1>2, <1>3, <1>4, ConstantsAssumption DEF CurBreaches, Pending, Row

\* Steps that leave rules, keys and the reading alone, and at most go on within the
\* evaluation of the current rule.
LEMMA SustainFrame ==
  ASSUME TypeOK, SustainInv, clock' \in Nat, clock' >= clock, Sustained => Sustained',
         UNCHANGED <<rules, breachKey, event, todo, loaded, cur, below, edits, aborts>>,
         \/ pc' = pc /\ nowTs' = nowTs
         \/ pc' \in {"arm", "reset", "notify"} /\ pc \in Running
  PROVE  SustainInv'
<1> SUFFICES ASSUME Undisturbed
             PROVE  KeysEvaluated' /\ TodoCurrent' /\ CurBreaches' /\ BelowPast' /\ Sustained'
  BY DEF SustainInv, Undisturbed
<1>1. KeysEvaluated /\ TodoCurrent /\ CurBreaches /\ BelowPast /\ Sustained
  BY DEF SustainInv
<1>2. (pc' = pc /\ nowTs' = nowTs) \/ (pc' \notin {"idle", "load", "gate", "mark", "insert"} /\ pc \in Running)
  BY DEF Running
<1>3. clock \in Nat /\ \A p \in Pairs : below[p] \in Nat /\ breachKey[p].first \in Nat
  BY DEF TypeOK
<1>4. KeysEvaluated'
  <2>1. \A p \in Pairs : Pending(p) => Pending(p)'
    BY <1>1, <1>2 DEF Pending, TodoCurrent, Running
  <2> QED
    BY <1>1, <2>1 DEF KeysEvaluated, IsLive
<1>5. TodoCurrent' /\ CurBreaches'
  BY <1>1, <1>2 DEF TodoCurrent, CurBreaches, Running
<1>6. BelowPast'
  <2>1. \A p \in Pairs : below'[p] <= clock'
    BY <1>1, <1>3 DEF BelowPast
  <2>2. CASE pc' \notin {"gate", "mark", "insert"}
    BY <2>1, <2>2 DEF BelowPast
  <2>3. CASE pc' \in {"gate", "mark", "insert"}
    <3>1. pc' = pc /\ nowTs' = nowTs /\ Pair' = Pair /\ pc \in Running
      BY <1>2, <2>3 DEF Pair, Running
    <3>2. Pair \in Pairs /\ nowTs \in Nat /\ loaded[cur].row.duration \in Nat
      BY <1>1, <3>1, CurrentRule DEF TypeOK
    <3> QED
      BY <1>1, <1>3, <2>1, <2>3, <3>1, <3>2 DEF BelowPast
  <2> QED
    BY <2>2, <2>3
<1> QED
  BY <1>1, <1>4, <1>5, <1>6

\* Leaving the evaluation of a rule whose reading breaches it, or has cleared its key.
LEMMA SustainNext ==
  ASSUME TypeOK, SustainInv, NEW r \in todo, NextRule(r),
         UNCHANGED <<clock, rules, below, edits, aborts>>, Sustained => Sustained',
         pc \notin {"idle", "load"},
         \/ breachKey' = breachKey /\ Breach(loaded[r].row, event.value)
         \/ breachKey' = [breachKey EXCEPT ![<<r, event.sensor>>] = NoKey]
         \/ /\ pc = "mark" /\ r = cur
            /\ \E n : breachKey' = [breachKey EXCEPT ![Pair] = [first |-> nowTs, expires |-> n]]
  PROVE  SustainInv'
<1> SUFFICES ASSUME Undisturbed
             PROVE  KeysEvaluated' /\ TodoCurrent' /\ CurBreaches' /\ BelowPast' /\ Sustained'
  BY DEF SustainInv, Undisturbed
<1>1. KeysEvaluated /\ TodoCurrent /\ CurBreaches /\ BelowPast /\ Sustained
  BY DEF SustainInv
<1>2. /\ pc' = "rules" /\ todo' = todo \ {r} /\ UNCHANGED <<event, loaded>>
      /\ event.sensor \in Sensors /\ r \in Rules
      /\ breachKey \in [Pairs -> [first: Nat, expires: Nat]]
  BY DEF NextRule, TypeOK
<1>3. TodoCurrent' /\ CurBreaches' /\ BelowPast'
  BY <1>1, <1>2 DEF TodoCurrent, CurBreaches, BelowPast, Running
<1> DEFINE q == <<r, event.sensor>>
<1>4. q \in Pairs /\ q[1] = r /\ q[2] = event.sensor
  BY <1>2 DEF Pairs
<1> HIDE DEF q
<1>5. \A p \in Pairs : p # q => breachKey'[p] = breachKey[p]
  BY <1>2 DEF q, NextRule, Pair
<1>6. \A p \in Pairs : p # q => (Pending(p) => Pending(p)')
  <2> SUFFICES ASSUME NEW p \in Pairs, p # q, Pending(p) PROVE Pending(p)'
    OBVIOUS
  <2>1. p[1] # r
    BY <1>4 DEF Pending, Pairs
  <2> QED
    BY <1>2, <2>1 DEF Pending
<1>7. KeysEvaluated'
  <2> SUFFICES ASSUME NEW p \in Pairs, breachKey'[p] # NoKey
               PROVE  /\ IsLive(p[1])' /\ rules'[p[1]].row.active
                      /\ AppliesTo(rules'[p[1]].row, p[2])
                      /\ breachKey'[p].first >= below'[p] \/ Pending(p)'
    BY DEF KeysEvaluated
  <2>1. CASE p # q
    BY <1>1, <1>5, <1>6, <2>1 DEF KeysEvaluated, IsLive
  <2>2. CASE p = q /\ breachKey' = breachKey /\ Breach(loaded[r].row, event.value)
    <3>1. ~ Pending(q)
      BY <1>1, <1>4, <2>2 DEF Pending, TodoCurrent
    <3> QED
      BY <1>1, <2>2, <3>1 DEF KeysEvaluated, IsLive
  <2>3. CASE p = q /\ breachKey' = [breachKey EXCEPT ![q] = NoKey]
    BY <1>2, <1>4, <2>3
  <2>4. ASSUME p = q, pc = "mark", r = cur, NEW n,
               breachKey' = [breachKey EXCEPT ![Pair] = [first |-> nowTs, expires |-> n]]
        PROVE  /\ IsLive(p[1]) /\ rules[p[1]].row.active
               /\ AppliesTo(rules[p[1]].row, p[2])
               /\ breachKey'[p].first >= below[p]
    <3>1. Pair = q
      BY <2>4 DEF Pair, q
    <3>2. breachKey'[q].first = nowTs
      BY <1>2, <1>4, <2>4, <3>1
    <3>3. below[q] <= nowTs /\ nowTs \in Nat /\ below[q] \in Nat
      BY <1>1, <1>4, <2>4, <3>1 DEF BelowPast, TypeOK
    <3>4. IsLive(r) /\ rules[r].row.active /\ AppliesTo(rules[r].row, event.sensor)
      BY <1>1 DEF TodoCurrent, IsLive, TypeOK
    <3> QED
      BY <1>4, <2>4, <3>2, <3>3, <3>4
  <2> QED
    BY <2>1, <2>2, <2>3, <2>4 DEF q, IsLive
<1> QED
  BY <1>1, <1>3, <1>7

\* The reading is handed over, to be compared with every live rule.
LEMMA SustainSubmit ==
  ASSUME TypeOK, SustainInv, NEW s \in Sensors, NEW v \in Values, Submit(s, v)
  PROVE  SustainInv'
<1>1. /\ pc = "idle" /\ pc' = "load" /\ event' = [sensor |-> s, value |-> v]
      /\ \A p \in Pairs : below'[p] = IF /\ p[2] = s /\ IsLive(p[1])
                                         /\ ~ Breach(rules[p[1]].row, v)
                                      THEN clock ELSE below[p]
      /\ UNCHANGED <<clock, rules, alerts, breachKey, todo, loaded, edits, aborts>>
  BY DEF Submit, db, redis, bounds
<1> SUFFICES ASSUME Undisturbed
             PROVE  KeysEvaluated' /\ TodoCurrent' /\ CurBreaches' /\ BelowPast' /\ Sustained'
  BY <1>1 DEF SustainInv, Undisturbed
<1>2. KeysEvaluated /\ TodoCurrent /\ CurBreaches /\ BelowPast /\ Sustained
  BY DEF SustainInv
<1>3. clock \in Nat /\ todo = {}
  BY <1>1, <1>2 DEF TypeOK, TodoCurrent
<1>4. TodoCurrent' /\ CurBreaches' /\ BelowPast' /\ Sustained'
  BY <1>1, <1>2, <1>3 DEF TodoCurrent, CurBreaches, BelowPast, Sustained, Running
<1>5. KeysEvaluated'
  <2> SUFFICES ASSUME NEW p \in Pairs, breachKey[p] # NoKey
               PROVE  /\ IsLive(p[1]) /\ rules[p[1]].row.active /\ AppliesTo(rules[p[1]].row, p[2])
                      /\ breachKey[p].first >= below'[p] \/ Pending(p)'
    BY <1>1 DEF KeysEvaluated, IsLive
  <2>1. /\ IsLive(p[1]) /\ rules[p[1]].row.active /\ AppliesTo(rules[p[1]].row, p[2])
        /\ breachKey[p].first >= below[p]
    BY <1>1, <1>2, <1>3 DEF KeysEvaluated, Pending
  <2>2. CASE p[2] = s /\ ~ Breach(rules[p[1]].row, v)
    BY <1>1, <2>1, <2>2 DEF Pending
  <2>3. CASE ~ (p[2] = s /\ ~ Breach(rules[p[1]].row, v))
    BY <1>1, <2>1, <2>3
  <2> QED
    BY <2>1, <2>2, <2>3
<1> QED
  BY <1>4, <1>5

LEMMA SustainLoad ==
  ASSUME TypeOK, SustainInv, Load
  PROVE  SustainInv'
<1>1. /\ pc = "load" /\ pc' = "rules" /\ loaded' = rules
      /\ todo' = {r \in Rules : /\ IsLive(r) /\ rules[r].row.active
                                /\ AppliesTo(rules[r].row, event.sensor)}
      /\ UNCHANGED <<clock, rules, alerts, breachKey, event, below, edits, aborts>>
  BY DEF Load, db, redis, history, bounds
<1> SUFFICES ASSUME Undisturbed
             PROVE  KeysEvaluated' /\ TodoCurrent' /\ CurBreaches' /\ BelowPast' /\ Sustained'
  BY <1>1 DEF SustainInv, Undisturbed
<1>2. KeysEvaluated /\ TodoCurrent /\ CurBreaches /\ BelowPast /\ Sustained
  BY DEF SustainInv
<1>3. TodoCurrent' /\ CurBreaches' /\ BelowPast' /\ Sustained'
  BY <1>1, <1>2 DEF TodoCurrent, CurBreaches, BelowPast, Sustained, Running
<1>4. \A p \in Pairs : IsLive(p[1]) /\ rules[p[1]].row.active /\ AppliesTo(rules[p[1]].row, p[2])
        /\ Pending(p) => Pending(p)'
  BY <1>1 DEF Pending, Pairs
<1>5. KeysEvaluated'
  BY <1>1, <1>2, <1>4 DEF KeysEvaluated, IsLive
<1> QED
  BY <1>3, <1>5

\* The evaluation is over, with no rule left.
LEMMA SustainDone ==
  ASSUME TypeOK, SustainInv, Done
  PROVE  SustainInv'
<1>1. /\ pc = "rules" /\ todo = {} /\ pc' = "idle" /\ todo' = {}
      /\ UNCHANGED <<clock, rules, alerts, breachKey, below, edits, aborts>>
  BY DEF Done, Finish, db, redis, history, bounds
<1> SUFFICES ASSUME Undisturbed
             PROVE  KeysEvaluated' /\ TodoCurrent' /\ CurBreaches' /\ BelowPast' /\ Sustained'
  BY <1>1 DEF SustainInv, Undisturbed
<1>2. KeysEvaluated /\ TodoCurrent /\ CurBreaches /\ BelowPast /\ Sustained
  BY DEF SustainInv
<1>3. TodoCurrent' /\ CurBreaches' /\ BelowPast' /\ Sustained'
  BY <1>1, <1>2 DEF TodoCurrent, CurBreaches, BelowPast, Sustained, Running
<1>4. KeysEvaluated'
  BY <1>1, <1>2 DEF KeysEvaluated, IsLive, Pending
<1> QED
  BY <1>3, <1>4

\* From the first await of a rule to its gate and its insertion.
LEMMA SustainGate ==
  ASSUME TypeOK, SustainInv,
         (\E r \in Rules : Consider(r)) \/ ReadTime \/ GateMiss \/ GatePass
  PROVE  SustainInv'
<1>1. /\ UNCHANGED <<clock, rules, alerts, breachKey, event, todo, loaded, below, edits, aborts>>
      /\ pc # "load" /\ pc' \in {"time", "gate", "mark", "insert"}
  BY DEF Consider, ReadTime, GateMiss, GatePass, GoTo, db, redis, history, bounds
<1> SUFFICES ASSUME Undisturbed
             PROVE  KeysEvaluated' /\ TodoCurrent' /\ CurBreaches' /\ BelowPast' /\ Sustained'
  BY <1>1 DEF SustainInv, Undisturbed
<1>2. KeysEvaluated /\ TodoCurrent /\ CurBreaches /\ BelowPast /\ Sustained
  BY DEF SustainInv
<1>3. clock \in Nat /\ nowTs \in Nat /\ \A p \in Pairs : below[p] \in Nat /\ breachKey[p].first \in Nat
  BY DEF TypeOK
<1>4. KeysEvaluated' /\ Sustained'
  BY <1>1, <1>2 DEF KeysEvaluated, IsLive, Pending, Sustained
<1>5. TodoCurrent'
  BY <1>1, <1>2 DEF TodoCurrent
<1>6. ASSUME NEW r \in Rules, Consider(r)
      PROVE  CurBreaches' /\ BelowPast'
  <2>1. /\ cur' = r /\ r \in todo /\ Breach(loaded[r].row, event.value)
        /\ pc' = IF loaded[r].row.duration > 0 THEN "time" ELSE "insert"
    BY <1>6 DEF Consider
  <2>2. loaded[r].row.duration \in Nat
    <3>1. loaded[r].row \in Row
      BY <2>1, LiveRow DEF TypeOK, RuleState
    <3> QED
      BY <3>1, ConstantsAssumption DEF Row
  <2>3. CurBreaches'
    BY <1>1, <2>1 DEF CurBreaches
  <2>4. BelowPast'
    BY <1>1, <1>2, <2>1, <2>2 DEF BelowPast
  <2> QED
    BY <2>3, <2>4
<1>7. ASSUME ReadTime \/ GateMiss \/ GatePass
      PROVE  CurBreaches' /\ BelowPast'
  <2>1. cur' = cur /\ pc \in {"time", "gate"} /\ Pair' = Pair
    BY <1>1, <1>7 DEF ReadTime, GateMiss, GatePass, GoTo, Pair
  <2>2. Pair \in Pairs /\ loaded[cur].row.duration \in Nat
    BY <1>2, <2>1, CurrentRule DEF Running
  <2>3. CurBreaches'
    BY <1>1, <1>2, <2>1 DEF CurBreaches, Running
  <2>4. ASSUME ReadTime PROVE BelowPast'
    BY <1>1, <1>2, <1>3, <2>1, <2>2, <2>4 DEF BelowPast, ReadTime
  <2>5. ASSUME GateMiss PROVE BelowPast'
    BY <1>1, <1>2, <1>3, <2>1, <2>2, <2>5 DEF BelowPast, GateMiss, GoTo
  <2>6. ASSUME GatePass PROVE BelowPast'
    <3>1. /\ pc = "gate" /\ pc' = "insert" /\ nowTs' = nowTs
          /\ clock < breachKey[Pair].expires
          /\ nowTs - breachKey[Pair].first >= loaded[cur].row.duration
      BY <2>6 DEF GatePass, GoTo, Exists, GatePassed
    <3>2. breachKey[Pair] # NoKey
      BY <1>3, <3>1 DEF NoKey
    <3>3. clock - breachKey[Pair].first >= loaded[cur].row.duration
      BY <1>2, <1>3, <2>2, <3>1 DEF BelowPast
    <3> QED
      BY <1>1, <1>2, <2>1, <3>1, <3>2, <3>3 DEF BelowPast
  <2> QED
    BY <1>7, <2>3, <2>4, <2>5, <2>6
<1> QED
  BY <1>4, <1>5, <1>6, <1>7

\* INSERT: the key it relies on is old enough, and no normal reading came since.
LEMMA SustainInsert ==
  ASSUME TypeOK, SustainInv, Insert
  PROVE  SustainInv'
<1>1. /\ pc = "insert" /\ pc' = "arm"
      /\ UNCHANGED <<clock, rules, breachKey, event, todo, loaded, cur, nowTs, below, edits, aborts>>
  BY DEF Insert, GoTo, redis, bounds
<1> DEFINE n == Len(alerts)
<1>2. /\ n \in Nat /\ DOMAIN alerts = 1 .. n /\ clock \in Nat
      /\ \A i \in 1 .. n : alerts[i] \in AlertRow
  BY LenProperties, ElementOfSeq DEF TypeOK, AlertRow
<1>3. PICK a : /\ alerts' = Append(alerts, a) /\ a.duration = loaded[cur].row.duration
               /\ a.at = clock /\ a.below = below[Pair]
               /\ loaded[cur].row.duration > 0 => a.since = breachKey[Pair].first
  BY DEF Insert
<1>4. /\ DOMAIN alerts' = 1 .. n + 1 /\ alerts'[n + 1] = a
      /\ \A i \in 1 .. n : alerts'[i] = alerts[i]
  BY <1>2, <1>3 DEF TypeOK
<1>5. ASSUME Undisturbed PROVE Sustained => Sustained'
  <2>1. KeysEvaluated /\ TodoCurrent /\ CurBreaches /\ BelowPast
    BY <1>5 DEF SustainInv
  <2>2. Pair \in Pairs /\ ~ Pending(Pair) /\ loaded[cur].row.duration \in Nat
    BY <1>1, <2>1, CurrentRule DEF Running
  <2>3. ASSUME loaded[cur].row.duration > 0
        PROVE  /\ breachKey[Pair] # NoKey
               /\ clock - breachKey[Pair].first >= loaded[cur].row.duration
    BY <1>1, <2>1, <2>3 DEF BelowPast
  <2>4. ASSUME loaded[cur].row.duration > 0
        PROVE  breachKey[Pair].first >= below[Pair]
    BY <2>1, <2>2, <2>3, <2>4 DEF KeysEvaluated
  <2>5. a.duration > 0 => a.at - a.since >= a.duration /\ a.since >= a.below
    BY <1>3, <2>3, <2>4
  <2> QED
    BY <1>2, <1>4, <2>5 DEF Sustained
<1>6. CASE Undisturbed
  BY <1>1, <1>2, <1>5, <1>6, SustainFrame DEF Running
<1>7. CASE ~ Undisturbed
  BY <1>1, <1>7 DEF SustainInv, Undisturbed
<1> QED
  BY <1>6, <1>7

LEMMA SustainStep ==
  ASSUME TypeOK, SustainInv, [Next]_vars
  PROVE  SustainInv'
<1> USE DEF db, redis, engine, history, bounds
<1>0. clock \in Nat /\ edits \in Nat /\ aborts \in Nat
  BY DEF TypeOK
<1>1. ASSUME NEW r \in Rules, ClearBreach(r) PROVE SustainInv'
  <2>1. Sustained => Sustained'
    BY <1>1, HistoryKept DEF ClearBreach
  <2> QED
    BY <1>1, <2>1, SustainNext DEF ClearBreach
<1>2. ASSUME NEW r \in Rules, Ignore(r) PROVE SustainInv'
  <2>1. Sustained => Sustained'
    BY <1>2, HistoryKept DEF Ignore
  <2> QED
    BY <1>2, <2>1, SustainNext DEF Ignore
<1>3. CASE MarkBreach
  <2>1. Sustained => Sustained'
    BY <1>3, HistoryKept DEF MarkBreach
  <2>2. cur \in todo
    BY <1>3 DEF MarkBreach, TypeOK
  <2> QED
    BY <1>3, <2>1, <2>2, SustainNext DEF MarkBreach
<1>4. CASE GateWait \/ Notify
  <2>1. Sustained => Sustained'
    BY <1>4, HistoryKept DEF GateWait
  <2>2. /\ cur \in todo /\ pc \in Running /\ NextRule(cur)
        /\ UNCHANGED <<clock, rules, breachKey, below, edits, aborts>>
    BY <1>4 DEF GateWait, Notify, TypeOK, Running
  <2>3. CASE Undisturbed
    <3>1. CurBreaches
      BY <2>3 DEF SustainInv
    <3>2. Breach(loaded[cur].row, event.value)
      BY <2>2, <3>1 DEF CurBreaches
    <3> QED
      BY <2>1, <2>2, <3>2, SustainNext DEF Running
  <2>4. CASE ~ Undisturbed
    BY <2>2, <2>4 DEF SustainInv, Undisturbed
  <2> QED
    BY <2>3, <2>4
<1>5. CASE ArmCooldown
  <2>1. Sustained => Sustained'
    BY <1>5, HistoryKept
  <2> QED
    BY <1>0, <1>5, <2>1, SustainFrame DEF ArmCooldown, GoTo, Running
<1>6. CASE ResetBreach
  <2>1. /\ UNCHANGED <<clock, rules, alerts, event, todo, loaded, cur, below, edits, aborts>>
        /\ pc = "reset" /\ pc' = "notify"
        /\ breachKey' = [breachKey EXCEPT ![Pair] = NoKey]
        /\ breachKey \in [Pairs -> [first: Nat, expires: Nat]]
    BY <1>6 DEF ResetBreach, GoTo, TypeOK
  <2>2. CASE Undisturbed
    <3>1. KeysEvaluated /\ TodoCurrent /\ CurBreaches /\ BelowPast /\ Sustained
      BY <2>2 DEF SustainInv
    <3>2. KeysEvaluated'
      BY <2>1, <3>1 DEF KeysEvaluated, IsLive, Pending
    <3>3. TodoCurrent' /\ CurBreaches' /\ BelowPast' /\ Sustained'
      BY <2>1, <3>1 DEF TodoCurrent, CurBreaches, BelowPast, Sustained, Running
    <3> QED
      BY <3>2, <3>3 DEF SustainInv
  <2>3. CASE ~ Undisturbed
    BY <2>1, <2>3 DEF SustainInv, Undisturbed
  <2> QED
    BY <2>2, <2>3
<1>7. CASE InsertRefused
  <2>1. pc \in Running /\ ~ IsLive(cur) /\ UNCHANGED <<edits, aborts>>
    BY <1>7 DEF InsertRefused, Running
  <2>2. ~ Undisturbed
    <3> SUFFICES ASSUME Undisturbed PROVE FALSE
      OBVIOUS
    <3>1. TodoCurrent /\ CurBreaches
      BY DEF SustainInv
    <3> QED
      BY <2>1, <3>1, CurrentRule
  <2> QED
    BY <2>1, <2>2 DEF SustainInv, Undisturbed
<1>8. ASSUME NEW r \in Rules, NEW row \in Row, CreateRule(r, row) PROVE SustainInv'
  <2>1. /\ rules[r] = Absent /\ rules' = [rules EXCEPT ![r] = Live(row)]
        /\ UNCHANGED <<clock, alerts, breachKey, pc, event, todo, loaded, cur, nowTs, below, edits, aborts>>
    BY <1>8 DEF CreateRule
  <2>2. ~ IsLive(r) /\ \A q \in Rules : q # r => rules'[q] = rules[q]
    BY <2>1 DEF IsLive, Absent, TypeOK
  <2>3. CASE Undisturbed
    <3>1. KeysEvaluated /\ TodoCurrent /\ CurBreaches /\ BelowPast /\ Sustained
      BY <2>3 DEF SustainInv
    <3>2. r \notin todo
      BY <2>2, <3>1 DEF TodoCurrent, IsLive, TypeOK
    <3>3. KeysEvaluated'
      BY <2>1, <2>2, <3>1 DEF KeysEvaluated, IsLive, Pending, Pairs
    <3>4. TodoCurrent'
      BY <2>1, <2>2, <3>1, <3>2 DEF TodoCurrent, TypeOK
    <3>5. CurBreaches' /\ BelowPast' /\ Sustained'
      BY <2>1, <3>1 DEF CurBreaches, BelowPast, Sustained, Pair
    <3> QED
      BY <3>3, <3>4, <3>5 DEF SustainInv
  <2>4. CASE ~ Undisturbed
    BY <2>1, <2>4 DEF SustainInv, Undisturbed
  <2> QED
    BY <2>3, <2>4
<1>9. ASSUME NEW r \in Rules, NEW row \in Row, UpdateRule(r, row) PROVE SustainInv'
  BY <1>0, <1>9 DEF UpdateRule, SustainInv, Undisturbed
<1>10. ASSUME NEW r \in Rules, DeleteRule(r) PROVE SustainInv'
  BY <1>0, <1>10 DEF DeleteRule, SustainInv, Undisturbed
<1>11. CASE Abort
  BY <1>0, <1>11 DEF Abort, SustainInv, Undisturbed
<1>12. ASSUME NEW i \in DOMAIN alerts, Acknowledge(i) PROVE SustainInv'
  <2>1. Sustained => Sustained'
    BY <1>12, HistoryKept
  <2> QED
    BY <1>0, <1>12, <2>1, SustainFrame DEF Acknowledge
<1>13. CASE Tick \/ UNCHANGED vars
  <2>1. /\ Sustained => Sustained'
        /\ clock' \in Nat /\ clock' >= clock
        /\ UNCHANGED <<db, redis, engine, history, bounds>>
    BY <1>0, <1>13, HistoryKept DEF Tick, vars
  <2> QED
    BY <2>1, SustainFrame
<1> QED
  BY <1>1, <1>2, <1>3, <1>4, <1>5, <1>6, <1>7, <1>8, <1>9, <1>10, <1>11, <1>12, <1>13,
     SustainSubmit, SustainLoad, SustainDone, SustainGate, SustainInsert
     DEF Next, EngineStep, ApiStep

\* While no rule is edited and no evaluation cut short, an alert with a duration
\* relies on a breach that lasted at least as long, with no reading back to normal
\* since: the key is deleted by every reading that does not breach
\* (alert_engine.py:118-119), and is stamped after the last one.
THEOREM SustainedCorrect == Spec => []SustainedUndisturbed
<1>1. Init => SustainInv
  BY DEF Init, SustainInv, KeysEvaluated, TodoCurrent, CurBreaches, BelowPast, Sustained,
     Running
<1>2. TypeOK /\ SustainInv /\ [Next]_vars => SustainInv'
  BY SustainStep
<1>3. SustainInv => SustainedUndisturbed
  BY DEF SustainInv, Undisturbed, SustainedUndisturbed
<1> QED
  BY <1>1, <1>2, <1>3, TypeCorrect, PTL DEF Spec

-----------------------------------------------------------------------------
(* A breach is not left pending.                                           *)

\* The key k lasts three times the wait of the streak s, which it started.
Covers(k, s) ==
  s.duration > 0 => /\ k.expires >= k.first + 3 * s.duration
                    /\ s.from > 0 => k.first <= s.from /\ s.to < k.first + s.duration
Counted(s) == s.from > 0 => s.duration > 0

\* Between GET and SET the streak has just started, and the key is to be set.
Starting(p) == pc = "mark" /\ p = Pair
Started(s) == /\ s.duration = loaded[cur].row.duration
              /\ s.from > 0 => s.from = nowTs /\ s.to = nowTs

KeysPast == \A p \in Pairs : breachKey[p].first <= clock
EvalTimed == /\ pc \in {"gate", "mark"} => nowTs <= clock
             /\ pc \in {"time", "gate", "mark"} => loaded[cur].row.duration > 0
ResetFree == pc \in {"arm", "reset"} => streak[Pair].duration = 0
StreaksCovered ==
  \A p \in Pairs : /\ Counted(streak[p])
                   /\ IF Starting(p) THEN Started(streak[p])
                      ELSE Covers(breachKey[p], streak[p])
StreakInv == aborts = 0 => KeysPast /\ EvalTimed /\ ResetFree /\ StreaksCovered

StreakRow == [from: Nat, to: Nat, duration: Nat]
KeyRow == [first: Nat, expires: Nat]

LEMMA CurrentDuration ==
  ASSUME TypeOK, pc \notin {"idle", "load", "rules"}
  PROVE  loaded[cur].row.duration \in Nat
<1>1. cur \in Rules /\ loaded[cur].state = "live" /\ loaded[cur] \in RuleState
  BY DEF TypeOK, RuleState
<1>2. loaded[cur].row \in Row
  BY <1>1, LiveRow
<1> QED
  BY <1>2, ConstantsAssumption DEF Row

\* A step that is neither the GET that misses nor the SET.
LEMMA StreaksOther ==
  ASSUME StreaksCovered, pc # "mark", pc' # "mark",
         \A p \in Pairs : Counted(streak[p]) /\ Covers(breachKey[p], streak[p]) =>
                            Counted(streak'[p]) /\ Covers(breachKey'[p], streak'[p])
  PROVE  StreaksCovered'
BY DEF StreaksCovered, Starting

\* A step that leaves keys and streaks alone, and does not come from a GET.
LEMMA StreakFrame ==
  ASSUME TypeOK, StreakInv, UNCHANGED <<breachKey, streak, aborts>>,
         clock' \in Nat, clock' >= clock,
         \/ UNCHANGED <<pc, event, loaded, cur, nowTs>>
         \/ /\ pc \notin {"mark", "arm"}
            /\ pc' \notin {"mark", "time", "gate", "arm", "reset"}
         \/ pc = "arm" /\ pc' = "reset" /\ UNCHANGED <<event, loaded, cur, nowTs>>
  PROVE  StreakInv'
<1> SUFFICES ASSUME aborts = 0
             PROVE  KeysPast' /\ EvalTimed' /\ ResetFree' /\ StreaksCovered'
  BY DEF StreakInv
<1>1. KeysPast /\ EvalTimed /\ ResetFree /\ StreaksCovered
  BY DEF StreakInv
<1>2. clock \in Nat /\ nowTs \in Nat /\ \A p \in Pairs : breachKey[p].first \in Nat
  BY DEF TypeOK
<1>3. KeysPast'
  BY <1>1, <1>2 DEF KeysPast
<1>4. CASE UNCHANGED <<pc, event, loaded, cur, nowTs>>
  BY <1>1, <1>2, <1>3, <1>4
     DEF EvalTimed, ResetFree, StreaksCovered, Starting, Started, Pair
<1>5. CASE /\ pc \notin {"mark", "arm"}
           /\ pc' \notin {"mark", "time", "gate", "arm", "reset"}
  BY <1>1, <1>3, <1>5, StreaksOther DEF EvalTimed, ResetFree
<1>6. CASE pc = "arm" /\ pc' = "reset" /\ UNCHANGED <<event, loaded, cur, nowTs>>
  BY <1>1, <1>3, <1>6, StreaksOther DEF EvalTimed, ResetFree, Pair
<1> QED
  BY <1>4, <1>5, <1>6

\* A step that ends the streak of one pair, with or without its key.
LEMMA StreakEnds ==
  ASSUME TypeOK, StreakInv, UNCHANGED <<clock, aborts>>, NEW p \in Pairs,
         \/ streak' = [streak EXCEPT ![p] = NoStreak]
         \/ UNCHANGED streak /\ streak[p].duration = 0,
         UNCHANGED breachKey \/ breachKey' = [breachKey EXCEPT ![p] = NoKey],
         pc # "mark",
         \/ pc' \notin {"mark", "time", "gate", "arm", "reset"}
         \/ pc' = "arm" /\ Pair' = p /\ streak' = [streak EXCEPT ![p] = NoStreak]
  PROVE  StreakInv'
<1> SUFFICES ASSUME aborts = 0
             PROVE  KeysPast' /\ EvalTimed' /\ ResetFree' /\ StreaksCovered'
  BY DEF StreakInv
<1>1. KeysPast /\ EvalTimed /\ ResetFree /\ StreaksCovered
  BY DEF StreakInv
<1>2. streak \in [Pairs -> StreakRow] /\ breachKey \in [Pairs -> KeyRow] /\ clock \in Nat
  BY DEF TypeOK, StreakRow, KeyRow
<1>3. KeysPast'
  BY <1>1, <1>2 DEF KeysPast, NoKey
<1>4. EvalTimed' /\ ResetFree'
  BY <1>2 DEF EvalTimed, ResetFree, NoStreak
<1>5. streak'[p].duration = 0 /\ (Counted(streak[p]) => Counted(streak'[p]))
  BY <1>2 DEF NoStreak, Counted
<1>6. \A q \in Pairs : q # p => streak'[q] = streak[q] /\ breachKey'[q] = breachKey[q]
  BY <1>2
<1>7. Covers(breachKey'[p], streak'[p])
  BY <1>2, <1>5 DEF Covers, NoStreak
<1>8. StreaksCovered'
  <2>1. \A q \in Pairs : Counted(streak[q]) /\ Covers(breachKey[q], streak[q]) =>
                            Counted(streak'[q]) /\ Covers(breachKey'[q], streak'[q])
    BY <1>5, <1>6, <1>7
  <2> QED
    BY <1>1, <2>1, StreaksOther
<1> QED
  BY <1>3, <1>4, <1>8

LEMMA StreakMiss ==
  ASSUME TypeOK, StreakInv, GateMiss
  PROVE  StreakInv'
<1> SUFFICES ASSUME aborts = 0
             PROVE  KeysPast' /\ EvalTimed' /\ ResetFree' /\ StreaksCovered'
  BY DEF StreakInv, GateMiss, bounds
<1>1. KeysPast /\ EvalTimed /\ ResetFree /\ StreaksCovered
  BY DEF StreakInv
<1>2. /\ pc = "gate" /\ pc' = "mark" /\ UNCHANGED <<clock, breachKey, event, loaded, cur, nowTs>>
      /\ Pair' = Pair
  BY DEF GateMiss, GoTo, redis, Pair
<1> DEFINE d == loaded[cur].row.duration
           k == breachKey[Pair]
           s == streak[Pair]
<1>3. Pair \in Pairs /\ d \in Nat /\ d > 0
  BY <1>1, <1>2, PairTyped, CurrentDuration DEF EvalTimed
<1>4. streak \in [Pairs -> StreakRow] /\ k \in KeyRow /\ clock \in Nat /\ nowTs \in Nat /\ s \in StreakRow
  BY <1>3 DEF TypeOK, StreakRow, KeyRow
<1>5. ~ (clock < k.expires) /\ streak' = [streak EXCEPT ![Pair] = Prolonged(s, d)]
  BY DEF GateMiss, Exists
<1>6. Counted(s) /\ Covers(k, s) /\ nowTs <= clock
  BY <1>1, <1>2, <1>3 DEF StreaksCovered, Starting, EvalTimed
<1> HIDE DEF d, k, s
<1>7. Counted(Prolonged(s, d)) /\ Prolonged(s, d).duration = d
      /\ (Prolonged(s, d).from > 0 => Prolonged(s, d).from = nowTs /\ Prolonged(s, d).to = nowTs)
  <2>1. CASE nowTs < clock
    BY <1>3, <1>4, <2>1 DEF Prolonged, Counted
  <2>2. ASSUME ~ (nowTs < clock), s.from > 0, s.duration = d, nowTs - s.to <= d
        PROVE  FALSE
    BY <1>3, <1>4, <1>5, <1>6, <2>2 DEF Covers, StreakRow, KeyRow
  <2>3. CASE ~ (nowTs < clock) /\ ~ (s.from > 0 /\ s.duration = d /\ nowTs - s.to <= d)
    BY <1>3, <1>4, <2>3 DEF Prolonged, Counted
  <2> QED
    BY <2>1, <2>2, <2>3
<1>8. KeysPast' /\ EvalTimed' /\ ResetFree'
  BY <1>1, <1>2 DEF KeysPast, EvalTimed, ResetFree
<1>9. StreaksCovered'
  <2> SUFFICES ASSUME NEW p \in Pairs
               PROVE  /\ Counted(streak'[p])
                      /\ IF Starting(p)' THEN Started(streak[p])'
                         ELSE Covers(breachKey'[p], streak'[p])
    BY DEF StreaksCovered
  <2>1. CASE p = Pair
    <3>1. streak'[p] = Prolonged(s, d)
      BY <1>3, <1>4, <1>5, <2>1
    <3> QED
      BY <1>2, <1>7, <2>1, <3>1 DEF Starting, Started, d
  <2>2. CASE p # Pair
    BY <1>1, <1>2, <1>4, <1>5, <2>2 DEF StreaksCovered, Starting
  <2> QED
    BY <2>1, <2>2
<1> QED
  BY <1>8, <1>9

LEMMA StreakMark ==
  ASSUME TypeOK, StreakInv, MarkBreach
  PROVE  StreakInv'
<1> SUFFICES ASSUME aborts = 0
             PROVE  KeysPast' /\ EvalTimed' /\ ResetFree' /\ StreaksCovered'
  BY DEF StreakInv, MarkBreach, bounds
<1>1. KeysPast /\ EvalTimed /\ ResetFree /\ StreaksCovered
  BY DEF StreakInv
<1> DEFINE d == loaded[cur].row.duration
           k == [first |-> nowTs, expires |-> clock + BreachTtl(d)]
           s == streak[Pair]
<1>2. /\ pc = "mark" /\ pc' = "rules" /\ UNCHANGED <<clock, streak>>
      /\ breachKey' = [breachKey EXCEPT ![Pair] = k]
  BY DEF MarkBreach, NextRule, history
<1>3. Pair \in Pairs /\ d \in Nat /\ d > 0 /\ nowTs <= clock
  BY <1>1, <1>2, PairTyped, CurrentDuration DEF EvalTimed
<1>4. /\ breachKey \in [Pairs -> KeyRow] /\ clock \in Nat /\ nowTs \in Nat /\ s \in StreakRow
      /\ k.first = nowTs /\ k.expires = clock + BreachTtl(d)
  BY <1>3 DEF TypeOK, StreakRow, KeyRow
<1>5. BreachTtl(d) \in Nat /\ BreachTtl(d) >= 3 * d
  BY <1>3, ConstantsAssumption DEF BreachTtl, Larger
<1>6. s.duration = d /\ (s.from > 0 => s.from = nowTs /\ s.to = nowTs)
  BY <1>1, <1>2, <1>3 DEF StreaksCovered, Starting, Started
<1> HIDE DEF d, k, s
<1>7. Covers(k, s)
  BY <1>3, <1>4, <1>5, <1>6 DEF Covers, StreakRow
<1>8. KeysPast' /\ EvalTimed' /\ ResetFree'
  BY <1>1, <1>2, <1>3, <1>4 DEF KeysPast, EvalTimed, ResetFree
<1>9. StreaksCovered'
  <2>1. breachKey'[Pair] = k /\ \A p \in Pairs : p # Pair => breachKey'[p] = breachKey[p]
    BY <1>2, <1>3, <1>4
  <2> QED
    BY <1>1, <1>2, <1>7, <2>1 DEF StreaksCovered, Starting, s
<1> QED
  BY <1>8, <1>9

LEMMA StreakWait ==
  ASSUME TypeOK, StreakInv, GateWait
  PROVE  StreakInv'
<1> SUFFICES ASSUME aborts = 0
             PROVE  KeysPast' /\ EvalTimed' /\ ResetFree' /\ StreaksCovered'
  BY DEF StreakInv, GateWait, bounds
<1>1. KeysPast /\ EvalTimed /\ ResetFree /\ StreaksCovered
  BY DEF StreakInv
<1> DEFINE d == loaded[cur].row.duration
           k == breachKey[Pair]
           s == streak[Pair]
           t == IF s.duration # d THEN NoStreak ELSE Prolonged(s, d)
<1>2. /\ pc = "gate" /\ pc' = "rules" /\ UNCHANGED <<clock, breachKey>>
      /\ streak' = [streak EXCEPT ![Pair] = t]
      /\ ~ (nowTs - k.first >= d)
  BY DEF GateWait, NextRule, redis, GatePassed
<1>3. Pair \in Pairs /\ d \in Nat /\ d > 0 /\ nowTs <= clock
  BY <1>1, <1>2, PairTyped, CurrentDuration DEF EvalTimed
<1>4. /\ streak \in [Pairs -> StreakRow] /\ clock \in Nat /\ nowTs \in Nat /\ s \in StreakRow
      /\ k \in KeyRow
  BY <1>3 DEF TypeOK, StreakRow, KeyRow
<1>5. Counted(s) /\ Covers(k, s) /\ k.first <= clock
  BY <1>1, <1>2, <1>3 DEF StreaksCovered, Starting, KeysPast
<1> HIDE DEF d, k, s
<1>6. Counted(t) /\ Covers(k, t)
  <2>1. CASE s.duration # d
    BY <2>1 DEF NoStreak, Counted, Covers
  <2>2. CASE s.duration = d /\ nowTs < clock
    BY <1>3, <1>4, <1>5, <2>2 DEF Prolonged, Counted, Covers
  <2>3. CASE s.duration = d /\ ~ (nowTs < clock) /\ s.from > 0 /\ nowTs - s.to <= d
    <3>1. t.from = s.from /\ t.duration = d /\ t.to = nowTs
      BY <1>4, <2>3 DEF Prolonged, StreakRow
    <3> HIDE DEF t
    <3> QED
      BY <1>2, <1>3, <1>4, <1>5, <2>3, <3>1 DEF Counted, Covers, StreakRow, KeyRow
  <2>4. CASE s.duration = d /\ ~ (nowTs < clock) /\ ~ (s.from > 0 /\ nowTs - s.to <= d)
    <3>1. t.from = nowTs /\ t.duration = d /\ t.to = nowTs
      BY <1>4, <2>4 DEF Prolonged, StreakRow
    <3> HIDE DEF t
    <3> QED
      BY <1>2, <1>3, <1>4, <1>5, <2>4, <3>1 DEF Counted, Covers, StreakRow, KeyRow
  <2> QED
    BY <2>1, <2>2, <2>3, <2>4
<1> HIDE DEF t
<1>7. KeysPast' /\ EvalTimed' /\ ResetFree'
  BY <1>1, <1>2 DEF KeysPast, EvalTimed, ResetFree
<1>8. StreaksCovered'
  <2>1. streak'[Pair] = t /\ \A p \in Pairs : p # Pair => streak'[p] = streak[p]
    BY <1>2, <1>3, <1>4
  <2> QED
    BY <1>1, <1>2, <1>6, <2>1 DEF StreaksCovered, Starting, k
<1> QED
  BY <1>7, <1>8

LEMMA StreakStep ==
  ASSUME TypeOK, StreakInv, [Next]_vars
  PROVE  StreakInv'
<1> USE DEF db, redis, engine, history, bounds
<1>0. clock \in Nat /\ aborts \in Nat
  BY DEF TypeOK
<1>1. ASSUME NEW s \in Sensors, NEW v \in Values, Submit(s, v) PROVE StreakInv'
  BY <1>0, <1>1, StreakFrame DEF Submit
<1>2. CASE Load \/ Done
  BY <1>0, <1>2, StreakFrame DEF Load, Done, Finish
<1>3. ASSUME NEW r \in Rules, ClearBreach(r) \/ Ignore(r) PROVE StreakInv'
  <2> DEFINE q == <<r, event.sensor>>
  <2>1. q \in Pairs
    BY <1>3 DEF ClearBreach, Ignore, TypeOK, Pairs
  <2>2. /\ streak' = [streak EXCEPT ![q] = NoStreak]
        /\ UNCHANGED breachKey \/ breachKey' = [breachKey EXCEPT ![q] = NoKey]
        /\ UNCHANGED <<clock, aborts>> /\ pc = "rules" /\ pc' = "rules"
    BY <1>3 DEF ClearBreach, Ignore, NextRule
  <2> HIDE DEF q
  <2> QED
    BY <2>1, <2>2, StreakEnds
<1>4. ASSUME NEW r \in Rules, Consider(r) PROVE StreakInv'
  <2> SUFFICES ASSUME aborts = 0
               PROVE  KeysPast' /\ EvalTimed' /\ ResetFree' /\ StreaksCovered'
    BY <1>4 DEF StreakInv, Consider
  <2>1. KeysPast /\ EvalTimed /\ ResetFree /\ StreaksCovered
    BY DEF StreakInv
  <2> QED
    BY <1>4, <2>1, StreaksOther DEF Consider, KeysPast, EvalTimed, ResetFree
<1>5. CASE ReadTime
  <2> SUFFICES ASSUME aborts = 0
               PROVE  KeysPast' /\ EvalTimed' /\ ResetFree' /\ StreaksCovered'
    BY <1>5 DEF StreakInv, ReadTime
  <2>1. KeysPast /\ EvalTimed /\ ResetFree /\ StreaksCovered
    BY DEF StreakInv
  <2> QED
    BY <1>0, <1>5, <2>1, StreaksOther DEF ReadTime, KeysPast, EvalTimed, ResetFree
<1>6. CASE GatePass \/ Notify \/ InsertRefused
  BY <1>0, <1>6, StreakFrame DEF GatePass, Notify, InsertRefused, GoTo, NextRule, Finish
<1>7. CASE Insert
  <2>1. Pair \in Pairs /\ Pair' = Pair
    BY <1>7, PairTyped DEF Insert, GoTo, Pair
  <2>2. /\ streak' = [streak EXCEPT ![Pair] = NoStreak]
        /\ UNCHANGED <<clock, breachKey, aborts>> /\ pc = "insert" /\ pc' = "arm"
    BY <1>7 DEF Insert, GoTo
  <2> QED
    BY <2>1, <2>2, StreakEnds
<1>8. CASE ArmCooldown
  BY <1>0, <1>8, StreakFrame DEF ArmCooldown, GoTo
<1>9. CASE ResetBreach
  <2>1. Pair \in Pairs
    BY <1>9, PairTyped DEF ResetBreach
  <2>2. CASE aborts = 0
    <3>1. streak[Pair].duration = 0
      BY <1>9, <2>2 DEF StreakInv, ResetFree, ResetBreach
    <3> QED
      BY <1>9, <2>1, <3>1, StreakEnds DEF ResetBreach, GoTo
  <2>3. CASE aborts # 0
    BY <1>9, <2>3 DEF StreakInv, ResetBreach
  <2> QED
    BY <2>2, <2>3
<1>10. CASE Abort
  BY <1>0, <1>10 DEF StreakInv, Abort
<1>11. CASE ApiStep
  BY <1>0, <1>11, StreakFrame DEF ApiStep, CreateRule, UpdateRule, DeleteRule, Acknowledge
<1>12. CASE Tick \/ UNCHANGED vars
  BY <1>0, <1>12, StreakFrame DEF Tick, vars
<1> QED
  BY <1>1, <1>2, <1>3, <1>4, <1>5, <1>6, <1>7, <1>8, <1>9, <1>10, <1>11, <1>12,
     StreakMiss, StreakMark, StreakWait DEF Next, EngineStep

\* While no evaluation is cut short, a breach found again at most `duration` seconds
\* after the previous evaluation, by the second, never waits `duration` seconds in all:
\* it is counted under one key, set for at least three times as long
\* (alert_engine.py:175-179), which is still there when the wait is over.
THEOREM NoSilentBreachCorrect == Spec => []NoSilentBreach
<1>1. Init => StreakInv
  <2> SUFFICES ASSUME Init PROVE StreakInv
    OBVIOUS
  <2>1. \A p \in Pairs : breachKey[p] = NoKey /\ streak[p] = NoStreak
    BY DEF Init
  <2> QED
    BY <2>1 DEF Init, StreakInv, KeysPast, EvalTimed, ResetFree, StreaksCovered, Starting,
       Covers, Counted, NoKey, NoStreak
<1>2. TypeOK /\ StreakInv /\ [Next]_vars => StreakInv'
  BY StreakStep
<1>3. TypeOK /\ StreakInv => NoSilentBreach
  <2> SUFFICES ASSUME TypeOK, StreakInv, aborts = 0, NEW p \in Pairs, streak[p].from > 0
               PROVE  streak[p].to - streak[p].from < streak[p].duration
    BY DEF NoSilentBreach
  <2>1. streak[p] \in StreakRow /\ breachKey[p] \in KeyRow
    BY DEF TypeOK, StreakRow, KeyRow
  <2>2. /\ streak[p].duration > 0
        /\ IF Starting(p) THEN Started(streak[p]) ELSE Covers(breachKey[p], streak[p])
    BY DEF StreakInv, StreaksCovered, Counted
  <2> QED
    BY <2>1, <2>2 DEF Started, Covers, StreakRow, KeyRow
<1> QED
  BY <1>1, <1>2, <1>3, TypeCorrect, PTL DEF Spec
=============================================================================

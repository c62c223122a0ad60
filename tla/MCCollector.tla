---------------------------- MODULE MCCollector ----------------------------
(***************************************************************************)
(* Instances of Collector for TLC.                                         *)
(***************************************************************************)
EXTENDS Collector, TLC

CONSTANTS g1, g2, a1

TwoGatewaysOfOneAccount == (g1 :> a1) @@ (g2 :> a1)
Tenths == -9999

Entry(id, unit, raw, state, alarm) ==
  [id |-> id, unit |-> unit, raw |-> raw, state |-> state, status |-> state,
   alarm |-> alarm]

\* A flood detector dry, in alarm with its sentinel, or in alarm with its unit
\* missing; a thermometer measuring, or without its probe.
InAlarm == Entry("12571", "WLD", Tenths, "2", "1")
Detector == {Entry("12571", "WLD", 0, "1", "0"), InAlarm, Entry("12571", "", Tenths, "2", "0")}
Measuring == Entry("16145", "C", 1, "1", "0")
Probeless == Entry("16145", "C", Tenths, "1", "0")
Unnamed == Entry("", "C", 1, "1", "0")

\* A detector alone, one beside the measuring thermometer with an entry without
\* ID between them, the thermometer without its probe, or a response that
\* repeats an alarm.
Documents == {<<e>> : e \in Detector}
             \cup {<<e, Unnamed, Measuring>> : e \in Detector}
             \cup {<<Probeless>>, <<InAlarm, InAlarm>>}

\* An answer whose second request may fail, and the ways to get none.
Answers ==
  {[values |-> "ok", page |-> "http_error", entries |-> d] : d \in Documents}
  \cup {[values |-> "http_error", page |-> "ok", entries |-> <<>>],
        [values |-> "ok", page |-> "not_xml", entries |-> <<>>]}

ASSUME DevicesAssumption == AlarmsAreDetectors
=============================================================================

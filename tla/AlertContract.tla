---------------------------- MODULE AlertContract ----------------------------
(***************************************************************************)
(* What the owner of a rule is promised (docs/alerting-rules.md): alerts    *)
(* are raised one at a time; being told of one is a promise of silence for  *)
(* that rule and sensor, until its cooldown is over.  How the engine keeps  *)
(* the promise (two stores, two keys, an order of writes) is AlertEngine's. *)
(***************************************************************************)
EXTENDS Integers

CONSTANTS Pairs,   \* rules and sensors
          Quiets,  \* cooldowns, in seconds
          None     \* no alert is being raised

VARIABLES clock,
          raised,   \* the alert the owner is about to be told of, or None
          promises  \* silence promised: a pair and the second it ends

vars == <<clock, raised, promises>>

Promise(p, until) == [pair |-> p, until |-> until]

Silent(p) == \E x \in promises : x.pair = p /\ clock < x.until

Init == clock = 1 /\ raised = None /\ promises = {}

\* An alert is recorded.
Raise(p, quiet) ==
  /\ raised = None /\ ~ Silent(p)
  /\ raised' = Promise(p, clock + quiet)
  /\ UNCHANGED <<clock, promises>>

\* The owner is told.
Tell ==
  /\ raised # None
  /\ promises' = promises \cup {raised} /\ raised' = None
  /\ UNCHANGED clock

\* The owner is never told: the alert is on record only.
Lose ==
  /\ raised # None /\ raised' = None
  /\ UNCHANGED <<clock, promises>>

Tick == clock' = clock + 1 /\ UNCHANGED <<raised, promises>>

Next == Tell \/ Lose \/ Tick \/ \E p \in Pairs, quiet \in Quiets : Raise(p, quiet)

Spec == Init /\ [][Next]_vars
=============================================================================

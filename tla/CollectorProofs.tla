-------------------------- MODULE CollectorProofs --------------------------
(***************************************************************************)
(* Proofs about Collector, for any gateways, accounts, sensors, exchanges  *)
(* and bounds.                                                             *)
(*                                                                         *)
(* The steps that do not touch what an invariant speaks of are one lemma   *)
(* (IndexAside, SeenBeside, HandedAside, DetectorAside).  The others are   *)
(* the SELECT, a turn of the loop over the samples, the COMMIT and the     *)
(* PATCH; what they do to a row is said once, by SampleTurn, CommitRow and *)
(* PatchRow.  The types and the numbers of the sensors are proved          *)
(* together, since the highest number of an account exists only because    *)
(* the numbers are bounded; the other invariants rest on these two.        *)
(*                                                                         *)
(* tlapm has no induction over naturals.  LeastNat takes its place: the    *)
(* least counterexample is refuted, for the greatest element of a set and  *)
(* for the recursive function ParseValues is.                              *)
(***************************************************************************)
EXTENDS Collector, TLAPS, WellFoundedInduction, SequenceTheorems

----------------------------------------------------------------------------
(* Numbers.                                                                *)

LEMMA LessThan == OpToRel(<, Nat) = {p \in Nat \X Nat : p[1] < p[2]}
BY DEF OpToRel

\* A set of naturals has a least element.  Induction over data is done with
\* this lemma: the least counterexample is refuted.
LEMMA LeastNat ==
  ASSUME NEW T, T \subseteq Nat, T # {}
  PROVE  \E n \in T : \A m \in T : n <= m
<1> DEFINE R == {p \in Nat \X Nat : p[1] < p[2]}
<1>1. IsWellFoundedOn(R, Nat)
  BY NatLessThanWellFounded, LessThan
<1>2. \E n \in T : \A m \in T : ~ (<<m, n>> \in R)
  <2> HIDE DEF R
  <2> QED
  BY <1>1, WFMin
<1>3. PICK n \in T : \A m \in T : ~ (<<m, n>> \in R)
  BY <1>2
<1>4. ASSUME NEW m \in T PROVE n <= m
  <2>1. m \in Nat /\ n \in Nat /\ ~ (<<m, n>> \in R)
    BY <1>3
  <2> QED
    BY <2>1
<1> QED
  BY <1>4

LEMMA UpTo == \A L \in Nat : L \in 0..L /\ \A n \in 0..L : n = 0 \/ n \in 1..L
OBVIOUS

\* A bounded set of naturals has a greatest element.
LEMMA GreatestNat ==
  ASSUME NEW S, S \subseteq Nat, S # {}, NEW b \in Nat, \A m \in S : m <= b
  PROVE  \E n \in S : \A m \in S : m <= n
<1> DEFINE T == {u \in Nat : \A m \in S : m <= u}
<1>1. PICK n \in T : \A u \in T : n <= u
  <2>1. T \subseteq Nat /\ T # {}
    OBVIOUS
  <2> HIDE DEF T
  <2> QED
    BY <2>1, LeastNat
<1>2. n \in Nat /\ \A m \in S : m <= n
  OBVIOUS
<1>3. n \in S
  <2> SUFFICES ASSUME n \notin S PROVE FALSE
    OBVIOUS
  <2>1. PICK m \in S : TRUE
    OBVIOUS
  <2>2. n - 1 \in Nat /\ \A k \in S : k <= n - 1
    BY <1>2, <2>1
  <2> QED
    BY <1>1, <1>2, <2>2
<1> QED
  BY <1>2, <1>3

LEMMA MaxOfProperties ==
  ASSUME NEW S, S \subseteq Nat, S # {}, NEW b \in Nat, \A m \in S : m <= b
  PROVE  MaxOf(S) \in S /\ \A m \in S : m <= MaxOf(S)
<1>1. \E n \in S : \A m \in S : m <= n
  BY GreatestNat
<1> QED
  BY <1>1 DEF MaxOf

LEMMA MaxOfIs ==
  ASSUME NEW S, S \subseteq Nat, NEW n \in S, \A m \in S : m <= n
  PROVE  MaxOf(S) = n
<1>1. MaxOf(S) \in S /\ \A m \in S : m <= MaxOf(S)
  BY DEF MaxOf
<1>2. ASSUME NEW k \in S, \A m \in S : m <= k PROVE k = n
  BY <1>2
<1> QED
  BY <1>1, <1>2

----------------------------------------------------------------------------
(* The parser.                                                             *)

\* The recursive function of ParseValues, with its tests and items as arguments:
\* it exists, and there is only one.
Filtered(keep, item, L, g) ==
  g = [n \in 0..L |-> IF n = 0 THEN <<>>
                      ELSE IF n \in keep THEN Append(g[n - 1], item[n])
                      ELSE g[n - 1]]

LEMMA FilteredParts ==
  ASSUME NEW L \in Nat, NEW keep, NEW item, NEW g
  PROVE  Filtered(keep, item, L, g) <=>
           /\ g = [n \in 0..L |-> g[n]] /\ g[0] = <<>>
           /\ \A n \in 1..L : g[n] = IF n \in keep THEN Append(g[n - 1], item[n])
                                     ELSE g[n - 1]
<1>1. ASSUME Filtered(keep, item, L, g)
      PROVE  /\ g = [n \in 0..L |-> g[n]] /\ g[0] = <<>>
             /\ \A n \in 1..L : g[n] = IF n \in keep THEN Append(g[n - 1], item[n])
                                       ELSE g[n - 1]
  <2>1. \A n \in 0..L : g[n] = IF n = 0 THEN <<>>
                      ELSE IF n \in keep THEN Append(g[n - 1], item[n])
                      ELSE g[n - 1]
    BY <1>1, Zenon DEF Filtered
  <2>2. g = [n \in 0..L |-> g[n]]
    BY <1>1 DEF Filtered
  <2>3. 0 \in 0..L /\ \A n \in 1..L : n \in 0..L /\ n # 0
    OBVIOUS
  <2> QED
    BY <2>1, <2>2, <2>3, Zenon
<1>2. ASSUME /\ g = [n \in 0..L |-> g[n]] /\ g[0] = <<>>
             /\ \A n \in 1..L : g[n] = IF n \in keep THEN Append(g[n - 1], item[n])
                                       ELSE g[n - 1]
      PROVE  Filtered(keep, item, L, g)
  <2>1. \A n \in 0..L : g[n] = IF n = 0 THEN <<>>
                      ELSE IF n \in keep THEN Append(g[n - 1], item[n])
                      ELSE g[n - 1]
    <3>1. \A n \in 0..L : n = 0 \/ n \in 1..L
      OBVIOUS
    <3> QED
      BY <1>2, <3>1, Zenon
  <2> QED
    BY <1>2, <2>1, Zenon DEF Filtered
<1> QED
  BY <1>1, <1>2

LEMMA FilteredOne ==
  ASSUME NEW L \in Nat, NEW keep, NEW item,
         NEW f, NEW g, Filtered(keep, item, L, f), Filtered(keep, item, L, g)
  PROVE  f = g
<1> DEFINE Apart == {n \in 0..L : f[n] # g[n]}
<1>1. /\ f = [n \in 0..L |-> f[n]] /\ f[0] = <<>>
      /\ \A n \in 1..L : f[n] = IF n \in keep THEN Append(f[n - 1], item[n])
                                ELSE f[n - 1]
  BY FilteredParts
<1>2. /\ g = [n \in 0..L |-> g[n]] /\ g[0] = <<>>
      /\ \A n \in 1..L : g[n] = IF n \in keep THEN Append(g[n - 1], item[n])
                                ELSE g[n - 1]
  BY FilteredParts
<1>3. ASSUME Apart # {} PROVE FALSE
  <2>1. PICK m \in Apart : \A n \in Apart : m <= n
    <3>1. Apart \subseteq Nat
      OBVIOUS
    <3> HIDE DEF Apart
    <3> QED
      BY <1>3, <3>1, LeastNat
  <2>2. m \in 1..L
    BY <1>1, <1>2, <2>1
  <2>3. m - 1 \in 0..L /\ ~ (m <= m - 1)
    BY <2>2
  <2>4. f[m - 1] = g[m - 1]
    BY <2>1, <2>3
  <2> QED
    BY <1>1, <1>2, <2>1, <2>2, <2>4
<1>4. \A n \in 0..L : f[n] = g[n]
  BY <1>3
<1> QED
  BY <1>1, <1>2, <1>4

LEMMA FilteredExists ==
  ASSUME NEW L \in Nat, NEW keep, NEW item, NEW P,
         \A n \in 1..L : n \in keep => item[n] \in P
  PROVE  \E g \in [0..L -> Seq(P)] : Filtered(keep, item, L, g)
<1> DEFINE Good(m) == \E g \in [0..m -> Seq(P)] : Filtered(keep, item, m, g)
           Bad == {m \in 0..L : ~ Good(m)}
<1>1. Good(0)
  <2> DEFINE g == [n \in 0..0 |-> <<>>]
  <2>1. g \in [0..0 -> Seq(P)]
    BY EmptySeq
  <2>2. Filtered(keep, item, 0, g)
    <3>1. /\ g = [n \in 0..0 |-> g[n]] /\ g[0] = <<>>
          /\ \A n \in 1..0 : g[n] = IF n \in keep THEN Append(g[n - 1], item[n])
                                    ELSE g[n - 1]
      OBVIOUS
    <3> HIDE DEF g
    <3> QED
      BY <3>1, FilteredParts
  <2> QED
    BY <2>1, <2>2
<1>2. ASSUME NEW m \in 1..L, Good(m - 1)
      PROVE  Good(m)
  <2>1. PICK g \in [0..(m - 1) -> Seq(P)] : Filtered(keep, item, m - 1, g)
    BY <1>2
  <2>2. m - 1 \in Nat /\ m \in Nat /\ m - 1 \in 0..(m - 1)
    OBVIOUS
  <2>3. /\ g[0] = <<>>
        /\ \A n \in 1..(m - 1) : g[n] = IF n \in keep THEN Append(g[n - 1], item[n])
                                        ELSE g[n - 1]
    BY <2>1, <2>2, FilteredParts
  <2> DEFINE last == IF m \in keep THEN Append(g[m - 1], item[m]) ELSE g[m - 1]
             h == [n \in 0..m |-> IF n = m THEN last ELSE g[n]]
  <2>4. last \in Seq(P)
    BY <2>2, AppendProperties
  <2> HIDE DEF last
  <2>5. h \in [0..m -> Seq(P)]
    BY <2>2, <2>4
  <2>6. h[m] = last /\ \A n \in 0..(m - 1) : h[n] = g[n]
    BY <2>2
  <2>7. h = [n \in 0..m |-> h[n]]
    OBVIOUS
  <2> HIDE DEF h
  <2>8. \A n \in 1..m : h[n] = IF n \in keep THEN Append(h[n - 1], item[n])
                                ELSE h[n - 1]
    <3>1. \A n \in 1..m : \/ n = m
                          \/ n \in 1..(m - 1) /\ n \in 0..(m - 1) /\ n - 1 \in 0..(m - 1)
      BY <2>2
    <3>2. h[m] = IF m \in keep THEN Append(h[m - 1], item[m]) ELSE h[m - 1]
      BY <2>2, <2>6 DEF last
    <3> QED
      BY <2>3, <2>6, <3>1, <3>2
  <2>9. Filtered(keep, item, m, h)
    <3>1. h[0] = <<>>
      <4>1. 0 \in 0..(m - 1)
        BY <2>2
      <4> QED
        BY <2>3, <2>6, <4>1, Zenon
    <3> QED
      BY <2>2, <2>7, <2>8, <3>1, FilteredParts
  <2> QED
    BY <2>5, <2>9
<1>3. Bad = {}
  <2> SUFFICES ASSUME Bad # {} PROVE FALSE
    OBVIOUS
  <2> HIDE DEF Good
  <2>1. PICK m \in Bad : \A n \in Bad : m <= n
    <3>1. Bad \subseteq Nat
      OBVIOUS
    <3> HIDE DEF Bad
    <3> QED
      BY <3>1, LeastNat
  <2>2. m \in 1..L
    BY <1>1
  <2>3. m - 1 \in 0..L /\ ~ (m <= m - 1)
    BY <2>2
  <2>4. Good(m - 1)
    BY <2>1, <2>3
  <2> QED
    BY <1>2, <2>2, <2>4
<1> HIDE DEF Good
<1>4. Good(L)
  BY <1>3
<1> QED
  BY <1>4 DEF Good

\* Parsing yields what ParseEntry makes of the entries that have an ID.
LEMMA ParseValuesTyped ==
  ASSUME NEW d \in Seq(Entries), NEW P,
         \A i \in 1..Len(d) : Named(d[i]) => ParseEntry(d[i]) \in P
  PROVE  ParseValues(d) \in Seq(P)
<1> DEFINE keep == {n \in 1..Len(d) : Named(d[n])}
           item == [n \in 1..Len(d) |-> ParseEntry(d[n])]
           L == Len(d)
           Def(g, n) == IF n = 0 THEN <<>>
                        ELSE IF ~ Named(d[n]) THEN g[n - 1]
                        ELSE Append(g[n - 1], ParseEntry(d[n]))
           F == CHOOSE g : g = [n \in 0..L |-> Def(g, n)]
<1>1. ParseValues(d) = F[L]
  BY DEF ParseValues
<1>2. L \in Nat
  BY LenProperties
<1>3. ASSUME NEW g PROVE (g = [n \in 0..L |-> Def(g, n)]) <=> Filtered(keep, item, L, g)
  <2>1. \A n \in 0..L : n = 0 \/ n \in 1..L
    BY <1>2, UpTo, Zenon
  <2>2. \A n \in 0..L :
           Def(g, n) = IF n = 0 THEN <<>>
                       ELSE IF n \in keep THEN Append(g[n - 1], item[n])
                       ELSE g[n - 1]
    <3> HIDE DEF L
    <3> QED
      BY <2>1, Zenon DEF L
  <2> HIDE DEF Def, keep, item, L
  <2> QED
    BY <2>2, Zenon DEF Filtered
<1>4. \A n \in 1..L : n \in keep => item[n] \in P
  OBVIOUS
<1> HIDE DEF keep, item, L
<1>5. PICK g \in [0..L -> Seq(P)] : Filtered(keep, item, L, g)
  BY <1>2, <1>4, FilteredExists
<1> HIDE DEF Def
<1>6. Filtered(keep, item, L, F)
  BY <1>3, <1>5
<1>7. F = g
  BY <1>2, <1>5, <1>6, FilteredOne
<1> HIDE DEF F
<1>8. L \in 0..L
  BY <1>2, UpTo, Zenon
<1>9. g[L] \in Seq(P)
  BY <1>5, <1>8
<1> QED
  BY <1>1, <1>7, <1>9

Entered == [ref: Refs, sample: Samples]

LEMMA ParseEntryTyped ==
  ASSUME NEW e \in Entries, Named(e)
  PROVE  LET p == ParseEntry(e)
         IN  /\ p \in Entered
             /\ p.ref = e.id /\ p.sample.state = StatusState(e)
             /\ p.sample.kind = InferKind(e.unit)
             /\ p.sample.value # NoValue => p.sample.value # Sentinel
<1>1. InferKind(e.unit) \in Kinds
  BY DEF InferKind, Kinds
<1>2. ParsedValue(e) \in Int \cup {NoValue}
      /\ (ParsedValue(e) # NoValue => ParsedValue(e) # Sentinel)
  <2>1. Sentinel # 0 /\ Sentinel # 1
    BY ConstantsAssumption
  <2>2. e.raw \in Int \cup {NoValue}
    BY DEF Entries
  <2>3. \/ ParsedValue(e) \in {NoValue, 0, 1}
        \/ ParsedValue(e) = e.raw /\ e.raw # NoValue /\ e.raw # Sentinel
    BY DEF ParsedValue, Valid
  <2>4. ParsedValue(e) # NoValue => ParsedValue(e) # Sentinel
    BY <2>1, <2>3
  <2>5. ParsedValue(e) \in Int \cup {NoValue}
    BY <2>2, <2>3
  <2> QED
    BY <2>4, <2>5
<1>3. StatusState(e) \in STRING
  BY DEF StatusState, Entries
<1>4. e.id \in Refs
  BY Zenon DEF Entries, Named
<1> QED
  BY <1>1, <1>2, <1>3, <1>4 DEF ParseEntry, Entered, Samples

----------------------------------------------------------------------------
(* Types.                                                                  *)

Row == [id: ReadingId, value: Int]
TablesOK == /\ gateways \subseteq Gateways /\ queue \subseteq gateways
            /\ sensors \in [SensorIds -> {Absent} \cup SensorRow]
            /\ readings \subseteq Row
PollOK == /\ pc \in {"sleep", "next", "load", "samples", "publish"}
          /\ IF pc \in {"load", "samples"} THEN gateway \in gateways
             ELSE gateway = NoGateway
          /\ batch \in Seq(Entered) /\ now \in Nat /\ nextIndex \in Nat
          /\ existing \in [Refs -> {Absent} \cup SensorRow]
          /\ written \in [fresh: SUBSET Refs, kinds: SUBSET Refs, rows: Seq(Row)]
HandedOK == /\ publishing \in Seq(ReadingId) /\ evaluating \in Seq(ReadingId)
            /\ published \in Seq(ReadingId) /\ evaluated \in Seq(ReadingId)
HistoryOK == /\ cycle \in [due: SUBSET Gateways, done: SUBSET Gateways, cut: BOOLEAN]
             /\ patching \subseteq Patch
             /\ chosen \in [SensorIds -> BOOLEAN]
             /\ detectors \subseteq SensorIds /\ alarms \subseteq ReadingId
             /\ dropped \subseteq Nat /\ interrupted \subseteq Nat
             /\ polls \in Nat /\ crashes \in Nat /\ raises \in Nat /\ patches \in Nat

LEMMA TypeParts == TypeOK <=> TablesOK /\ PollOK /\ HandedOK /\ HistoryOK
BY DEF TypeOK, TablesOK, PollOK, HandedOK, HistoryOK, Row, Entered

LEMMA TypePartsNext == TablesOK' /\ PollOK' /\ HandedOK' /\ HistoryOK' => TypeOK'
BY TypeParts, PTL

LEMMA RowParts ==
  ASSUME NEW row \in {Absent} \cup SensorRow
  PROVE  /\ row = Absent <=> row \notin SensorRow
         /\ row = Absent <=> row.state # "present"
BY DEF Absent, SensorRow

\* What one turn of the loop over the samples does, its LETs as arguments.
SampleDoes(r, s, row, new, recorded, value) ==
  /\ pc = "samples" /\ gateway \in Gateways
  /\ batch # <<>> /\ Head(batch) = [ref |-> r, sample |-> s]
  /\ new <=> existing[r] = Absent
  /\ new => row = NewSensor(s)
  /\ ~ new => row = [existing[r] EXCEPT !.kind = NextKind(@, s)]
  /\ recorded <=> Present(row.kind, s) /\ row.active
  /\ recorded => value = ReadingValue(row.kind, s)
  /\ batch' = Tail(batch)
  /\ existing' = [existing EXCEPT ![r] =
                    [row EXCEPT !.seen = IF recorded THEN now ELSE @]]
  /\ nextIndex' = nextIndex + (IF new THEN 1 ELSE 0)
  /\ written' =
       [fresh |-> written.fresh \cup {y \in {r} : new},
        kinds |-> written.kinds \cup {y \in {r} : ~ new /\ row # existing[r]},
        rows |-> IF recorded
                 THEN Append(written.rows, [id |-> [sensor |-> <<gateway, r>>, at |-> now],
                                            value |-> value])
                 ELSE written.rows]
  /\ alarms' = alarms \cup
       {a \in {[sensor |-> <<gateway, r>>, at |-> now]} :
          <<gateway, r>> \in detectors /\ row.active /\ s.state = "2"}
  /\ UNCHANGED <<tables, pc, queue, gateway, now, outgoing, handed, cycle,
                 chosen, detectors, dropped, interrupted, bounds>>

LEMMA SampleFacts ==
  ASSUME TypeOK, Sample
  PROVE  \E r \in Refs, s \in Samples, row \in SensorRow,
            new \in BOOLEAN, recorded \in BOOLEAN, value \in Int :
           SampleDoes(r, s, row, new, recorded, value)
<1> DEFINE r == Head(batch).ref
           s == Head(batch).sample
           new == existing[r] = Absent
           row == IF new THEN NewSensor(s)
                  ELSE [existing[r] EXCEPT !.kind = NextKind(@, s)]
           recorded == Present(row.kind, s) /\ row.active
           value == IF recorded THEN ReadingValue(row.kind, s) ELSE 0
<1>1. TablesOK /\ PollOK /\ HandedOK /\ HistoryOK
  BY TypeParts
<1>2. pc = "samples" /\ batch # <<>> /\ gateway \in Gateways
  BY <1>1 DEF Sample, PollOK, TablesOK
<1>3. Head(batch) \in Entered /\ Head(batch) = [ref |-> r, sample |-> s]
      /\ r \in Refs /\ s \in Samples
  <2>1. Head(batch) \in Entered
    BY <1>1, <1>2 DEF PollOK
  <2> QED
    BY <2>1 DEF Entered
<1> HIDE DEF r, s
<1>4. row \in SensorRow
  <2>1. NewSensor(s) \in SensorRow
    BY <1>1, <1>3 DEF NewSensor, SensorRow, Samples, PollOK
  <2>2. ASSUME ~ new PROVE [existing[r] EXCEPT !.kind = NextKind(@, s)] \in SensorRow
    <3>1. existing[r] \in SensorRow
      BY <1>1, <1>3, <2>2 DEF PollOK
    <3>2. NextKind(existing[r].kind, s) \in Kinds
      BY <1>3, <3>1 DEF NextKind, SensorRow, Samples
    <3> QED
      BY <3>1, <3>2 DEF SensorRow
  <2> QED
    BY <2>1, <2>2
<1>5. new \in BOOLEAN /\ recorded \in BOOLEAN
  BY <1>4 DEF Present, SensorRow, IsBinary
<1>6. value \in Int
  <2>1. s.value \in Int \cup {NoValue}
    BY <1>3 DEF Samples
  <2> HIDE DEF row
  <2> QED
    BY <2>1 DEF ReadingValue, Present
<1>7. SampleDoes(r, s, row, new, recorded, value)
  <2> DEFINE reading == [id |-> [sensor |-> <<gateway, r>>, at |-> now],
                         value |-> ReadingValue(row.kind, s)]
  <2>1. /\ batch' = Tail(batch)
        /\ existing' = [existing EXCEPT ![r] =
                          [row EXCEPT !.seen = IF recorded THEN now ELSE @]]
        /\ nextIndex' = nextIndex + (IF new THEN 1 ELSE 0)
        /\ written' =
             [fresh |-> written.fresh \cup {y \in {r} : new},
              kinds |-> written.kinds \cup {y \in {r} : ~ new /\ row # existing[r]},
              rows |-> IF recorded THEN Append(written.rows, reading) ELSE written.rows]
    BY Zenon DEF Sample, r, s
  <2>2. /\ alarms' = alarms \cup
             {a \in {reading.id} : <<gateway, r>> \in detectors /\ row.active /\ s.state = "2"}
        /\ UNCHANGED <<tables, pc, queue, gateway, now, outgoing, handed, cycle,
                       chosen, detectors, dropped, interrupted, bounds>>
    BY Zenon DEF Sample, r, s
  <2>9. reading.id = [sensor |-> <<gateway, r>>, at |-> now]
    OBVIOUS
  <2>3. recorded => value = ReadingValue(row.kind, s)
    OBVIOUS
  <2>4. new => row = NewSensor(s)
    OBVIOUS
  <2>5. ~ new => row = [existing[r] EXCEPT !.kind = NextKind(@, s)]
    OBVIOUS
  <2>6. recorded <=> Present(row.kind, s) /\ row.active
    OBVIOUS
  <2>7. new <=> existing[r] = Absent
    OBVIOUS
  <2>8. written' =
             [fresh |-> written.fresh \cup {y \in {r} : new},
              kinds |-> written.kinds \cup {y \in {r} : ~ new /\ row # existing[r]},
              rows |-> IF recorded
                 THEN Append(written.rows, [id |-> [sensor |-> <<gateway, r>>, at |-> now],
                                            value |-> value])
                 ELSE written.rows]
    <3> HIDE DEF row, recorded, value, new
    <3> QED
      BY <2>1, <2>3
  <2> HIDE DEF row, recorded, value, new, reading
  <2> QED
    BY <1>2, <1>3, <2>1, <2>2, <2>3, <2>4, <2>5, <2>6, <2>7, <2>8, <2>9 DEF SampleDoes
<1> HIDE DEF new, row, recorded, value
<1> QED
  BY <1>3, <1>4, <1>5, <1>6, <1>7

\* The columns of the sensor after that turn, and what it adds to the transaction.
Turned(r, s, row, new, recorded) ==
  /\ new => /\ row.index = nextIndex /\ row.active = TRUE
            /\ row.seen = 0 /\ row.kind = s.kind
  /\ ~ new => /\ existing[r] \in SensorRow
              /\ row.index = existing[r].index /\ row.active = existing[r].active
              /\ row.seen = existing[r].seen
              /\ row.kind = NextKind(existing[r].kind, s)
              /\ row # existing[r] => row.kind = s.kind /\ s.kind # "unknown"
  /\ existing' \in [Refs -> {Absent} \cup SensorRow]
  /\ existing'[r] \in SensorRow
  /\ existing'[r].index = row.index /\ existing'[r].active = row.active
  /\ existing'[r].kind = row.kind
  /\ recorded => existing'[r].seen = now
  /\ ~ recorded => existing'[r].seen = row.seen
  /\ \A q \in Refs : q # r => existing'[q] = existing[q]

LEMMA SampleRow ==
  ASSUME TypeOK,
         NEW r \in Refs, NEW s \in Samples, NEW row \in SensorRow,
         NEW new \in BOOLEAN, NEW recorded \in BOOLEAN, NEW value \in Int,
         SampleDoes(r, s, row, new, recorded, value)
  PROVE  Turned(r, s, row, new, recorded)
<1>1. TablesOK /\ PollOK
  BY TypeParts
<1>2. /\ new <=> existing[r] = Absent
      /\ new => row = NewSensor(s)
      /\ ~ new => row = [existing[r] EXCEPT !.kind = NextKind(@, s)]
      /\ existing' = [existing EXCEPT ![r] =
                        [row EXCEPT !.seen = IF recorded THEN now ELSE @]]
  BY DEF SampleDoes
<1>3. now \in Nat /\ existing \in [Refs -> {Absent} \cup SensorRow]
  BY <1>1 DEF PollOK
<1>4. new => /\ row.index = nextIndex /\ row.active = TRUE
             /\ row.seen = 0 /\ row.kind = s.kind
  BY <1>2 DEF NewSensor
<1>5. ~ new => /\ existing[r] \in SensorRow
               /\ row.index = existing[r].index /\ row.active = existing[r].active
               /\ row.seen = existing[r].seen
               /\ row.kind = NextKind(existing[r].kind, s)
  <2> SUFFICES ASSUME ~ new PROVE
               /\ existing[r] \in SensorRow
               /\ row.index = existing[r].index /\ row.active = existing[r].active
               /\ row.seen = existing[r].seen
               /\ row.kind = NextKind(existing[r].kind, s)
    OBVIOUS
  <2>1. existing[r] \in SensorRow
    BY <1>2, <1>3
  <2>2. row = [existing[r] EXCEPT !.kind = NextKind(existing[r].kind, s)]
    BY <1>2
  <2> QED
    BY <2>1, <2>2 DEF SensorRow
<1>6. ~ new /\ row # existing[r] => row.kind = s.kind /\ s.kind # "unknown"
  <2> SUFFICES ASSUME ~ new, row # existing[r] PROVE row.kind = s.kind /\ s.kind # "unknown"
    OBVIOUS
  <2>1. CASE s.kind = "unknown"
    <3>1. row.kind = existing[r].kind
      BY <1>5, <2>1 DEF NextKind
    <3>2. row = existing[r]
      BY <1>5, <3>1 DEF SensorRow
    <3> QED
      BY <3>2
  <2>2. CASE s.kind # "unknown"
    BY <1>5, <2>2 DEF NextKind
  <2> QED
    BY <2>1, <2>2
<1> DEFINE after == [row EXCEPT !.seen = IF recorded THEN now ELSE row.seen]
<1>7. /\ after \in SensorRow /\ after.index = row.index /\ after.active = row.active
      /\ after.kind = row.kind
      /\ recorded => after.seen = now
      /\ ~ recorded => after.seen = row.seen
  BY <1>3 DEF SensorRow
<1>8. existing' = [existing EXCEPT ![r] = after]
  BY <1>2
<1> HIDE DEF after
<1>9. /\ existing' \in [Refs -> {Absent} \cup SensorRow]
      /\ existing'[r] = after
      /\ \A q \in Refs : q # r => existing'[q] = existing[q]
  BY <1>3, <1>7, <1>8
<1> QED
  BY <1>4, <1>5, <1>6, <1>7, <1>9 DEF Turned

Wrote(r, row, new, recorded, value) ==
  LET reading == [id |-> [sensor |-> <<gateway, r>>, at |-> now], value |-> value]
  IN  /\ written' \in [fresh: SUBSET Refs, kinds: SUBSET Refs, rows: Seq(Row)]
      /\ reading \in Row
      /\ written'.fresh = written.fresh \cup {y \in {r} : new}
      /\ written'.kinds = written.kinds \cup {y \in {r} : ~ new /\ row # existing[r]}
      /\ recorded => written'.rows = Append(written.rows, reading)
      /\ ~ recorded => written'.rows = written.rows

LEMMA WrittenNext ==
  ASSUME TypeOK,
         NEW r \in Refs, NEW s \in Samples, NEW row \in SensorRow,
         NEW new \in BOOLEAN, NEW recorded \in BOOLEAN, NEW value \in Int,
         SampleDoes(r, s, row, new, recorded, value)
  PROVE  Wrote(r, row, new, recorded, value)
<1> DEFINE reading == [id |-> [sensor |-> <<gateway, r>>, at |-> now], value |-> value]
           rows == IF recorded THEN Append(written.rows, reading) ELSE written.rows
           fresh == written.fresh \cup {y \in {r} : new}
           kinds == written.kinds \cup {y \in {r} : ~ new /\ row # existing[r]}
<1>1. TablesOK /\ PollOK
  BY TypeParts
<1>2. written' = [fresh |-> fresh, kinds |-> kinds, rows |-> rows]
  BY DEF SampleDoes
<1>3. reading \in Row
  BY <1>1 DEF SampleDoes, Row, ReadingId, SensorIds, PollOK
<1>4. written \in [fresh: SUBSET Refs, kinds: SUBSET Refs, rows: Seq(Row)]
  BY <1>1 DEF PollOK
<1>5. rows \in Seq(Row)
  <2> HIDE DEF reading
  <2> QED
    BY <1>3, <1>4, AppendProperties
<1>6. fresh \in SUBSET Refs /\ kinds \in SUBSET Refs
  BY <1>4
<1>7. /\ recorded => rows = Append(written.rows, reading)
      /\ ~ recorded => rows = written.rows
  OBVIOUS
<1> HIDE DEF reading, rows, fresh, kinds
<1>8. /\ written'.fresh = fresh /\ written'.kinds = kinds /\ written'.rows = rows
      /\ written' \in [fresh: SUBSET Refs, kinds: SUBSET Refs, rows: Seq(Row)]
  BY <1>2, <1>5, <1>6
<1> QED
  BY <1>3, <1>7, <1>8 DEF reading, fresh, kinds, Wrote

LEMMA SampleTurn ==
  ASSUME TypeOK, Sample
  PROVE  \E r \in Refs, s \in Samples, row \in SensorRow,
            new \in BOOLEAN, recorded \in BOOLEAN, value \in Int :
           /\ SampleDoes(r, s, row, new, recorded, value)
           /\ Turned(r, s, row, new, recorded) /\ Wrote(r, row, new, recorded, value)
<1>1. PICK r \in Refs, s \in Samples, row \in SensorRow,
           new \in BOOLEAN, recorded \in BOOLEAN, value \in Int :
             SampleDoes(r, s, row, new, recorded, value)
  BY SampleFacts
<1>2. Turned(r, s, row, new, recorded)
  BY <1>1, SampleRow
<1>3. Wrote(r, row, new, recorded, value)
  BY <1>1, WrittenNext
<1> QED
  BY <1>1, <1>2, <1>3

\* While a transaction is open, the copies stand for the rows they were loaded
\* from, and the sensors it has provisioned are in no table yet.
Copies ==
  pc = "samples" =>
    /\ \A r \in written.fresh : existing[r] # Absent /\ sensors[<<gateway, r>>] = Absent
    /\ \A r \in Refs \ written.fresh :
         existing[r] = Absent <=> sensors[<<gateway, r>>] = Absent

\* A PATCH is of a sensor that exists: no row is ever deleted.
Owned == \A e \in patching : Exists(e.sensor)

\* What the COMMIT makes of one row.
LEMMA CommitRow ==
  ASSUME TypeOK, Copies, Commit, NEW r \in Refs
  PROVE  LET x == <<gateway, r>>
         IN  \/ /\ r \in written.fresh /\ sensors[x] = Absent
                /\ existing[r] \in SensorRow /\ sensors'[x] = existing[r]
             \/ /\ r \notin written.fresh /\ sensors[x] = Absent /\ sensors'[x] = Absent
             \/ /\ r \notin written.fresh /\ sensors[x] \in SensorRow
                /\ existing[r] \in SensorRow /\ sensors'[x] \in SensorRow
                /\ sensors'[x].index = sensors[x].index
                /\ sensors'[x].active = sensors[x].active
                /\ sensors'[x].seen = existing[r].seen
                /\ r \in written.kinds => sensors'[x].kind = existing[r].kind
                /\ r \notin written.kinds => sensors'[x].kind = sensors[x].kind
<1> DEFINE x == <<gateway, r>>
<1>1. TablesOK /\ PollOK
  BY TypeParts
<1>2. pc = "samples" /\ gateway \in Gateways
  BY <1>1 DEF Commit, PollOK, TablesOK
<1>3. x \in SensorIds /\ x[1] = gateway /\ x[2] = r
  BY <1>2 DEF SensorIds
<1>4. sensors'[x] = CommittedRow(r)
  BY <1>3 DEF Commit
<1>5. sensors[x] \in {Absent} \cup SensorRow /\ existing[r] \in {Absent} \cup SensorRow
      /\ (sensors[x] = Absent <=> sensors[x] \notin SensorRow)
      /\ (existing[r] = Absent <=> existing[r] \notin SensorRow)
  BY <1>1, <1>3, RowParts DEF PollOK, TablesOK
<1>6. CASE r \in written.fresh
  BY <1>2, <1>4, <1>5, <1>6 DEF Copies, CommittedRow
<1>7. CASE r \notin written.fresh /\ sensors[x] = Absent
  BY <1>2, <1>4, <1>5, <1>7 DEF Copies, CommittedRow
<1>8. CASE r \notin written.fresh /\ sensors[x] # Absent
  <2>1. sensors[x] \in SensorRow /\ existing[r] \in SensorRow
    BY <1>2, <1>5, <1>8 DEF Copies
  <2> DEFINE k == IF r \in written.kinds THEN existing[r].kind ELSE sensors[x].kind
  <2>2. sensors'[x] = [sensors[x] EXCEPT !.kind = k, !.seen = existing[r].seen]
    BY <1>4, <1>8 DEF CommittedRow
  <2>3. k \in Kinds /\ (r \in written.kinds => k = existing[r].kind)
        /\ (r \notin written.kinds => k = sensors[x].kind)
    BY <2>1 DEF SensorRow
  <2> HIDE DEF k, x
  <2>4. /\ sensors'[x] \in SensorRow
        /\ sensors'[x].index = sensors[x].index
        /\ sensors'[x].active = sensors[x].active
        /\ sensors'[x].seen = existing[r].seen /\ sensors'[x].kind = k
    BY <2>1, <2>2, <2>3 DEF SensorRow
  <2> QED
    BY <1>8, <2>1, <2>3, <2>4 DEF x
<1> QED
  BY <1>6, <1>7, <1>8

LEMMA CommitElsewhere ==
  ASSUME Commit, NEW x \in SensorIds, x[1] # gateway
  PROVE  sensors'[x] = sensors[x]
BY DEF Commit

LEMMA PatchRow ==
  ASSUME TypeOK, Owned, NEW e \in patching, UpdateSensor(e)
  PROVE  LET x == e.sensor
         IN  /\ x \in SensorIds /\ e.active \in BOOLEAN
             /\ sensors[x] \in SensorRow
             /\ sensors' \in [SensorIds -> {Absent} \cup SensorRow]
             /\ sensors'[x] \in SensorRow /\ sensors'[x].index = sensors[x].index
             /\ sensors'[x].seen = sensors[x].seen
             /\ sensors'[x].active = IF e.active # e.from.active THEN e.active
                                     ELSE sensors[x].active
             /\ sensors'[x].kind = IF e.kind # e.from.kind THEN e.kind
                                   ELSE sensors[x].kind
             /\ \A y \in SensorIds : y # x => sensors'[y] = sensors[y]
<1> DEFINE x == e.sensor
           active == IF e.active # e.from.active THEN e.active ELSE sensors[x].active
           kind == IF e.kind # e.from.kind THEN e.kind ELSE sensors[x].kind
           row == [[sensors[x] EXCEPT !.active = active] EXCEPT !.kind = kind]
<1>1. TablesOK /\ e \in Patch
  BY TypeParts DEF HistoryOK
<1>2. x \in SensorIds /\ e.active \in BOOLEAN /\ e.kind \in Kinds
  BY <1>1, ConstantsAssumption DEF Patch
<1>3. sensors[x] \in SensorRow
  BY <1>1, <1>2, RowParts DEF TablesOK, Owned, Exists
<1>4. active \in BOOLEAN /\ kind \in Kinds
  BY <1>2, <1>3 DEF SensorRow
<1>5. sensors' = [sensors EXCEPT ![x] = row]
  BY <1>1, <1>2 DEF UpdateSensor, Patched, TablesOK
<1> HIDE DEF active, kind, x
<1>6. /\ row \in SensorRow /\ row.index = sensors[x].index
      /\ row.seen = sensors[x].seen /\ row.active = active /\ row.kind = kind
  BY <1>3, <1>4 DEF SensorRow
<1> HIDE DEF row
<1>7. /\ sensors' \in [SensorIds -> {Absent} \cup SensorRow]
      /\ sensors'[x] = row /\ \A y \in SensorIds : y # x => sensors'[y] = sensors[y]
  BY <1>1, <1>2, <1>5, <1>6 DEF TablesOK
<1> QED
  BY <1>2, <1>3, <1>6, <1>7 DEF x, active, kind

\* The highest index of the account is one, since all of them are bounded.
Bounded == \E b \in Nat : \A x \in SensorIds : Exists(x) => sensors[x].index <= b

LEMMA MaxIndexTyped ==
  ASSUME TypeOK, Bounded, NEW g \in Gateways
  PROVE  /\ MaxIndex(g) \in Nat
         /\ \A x \in SensorIds :
              Exists(x) /\ AccountOf[x[1]] = AccountOf[g] => sensors[x].index <= MaxIndex(g)
<1> DEFINE S == {0} \cup {sensors[x].index :
                   x \in {y \in SensorIds : Exists(y) /\ AccountOf[y[1]] = AccountOf[g]}}
<1>1. \A x \in SensorIds : Exists(x) => sensors[x].index \in Nat
  BY TypeParts, RowParts DEF TablesOK, Exists, SensorRow
<1>2. S \subseteq Nat /\ S # {}
  BY <1>1
<1>3. PICK b \in Nat : \A x \in SensorIds : Exists(x) => sensors[x].index <= b
  BY DEF Bounded
<1>4. \A m \in S : m <= b
  BY <1>1, <1>3
<1>5. MaxIndex(g) = MaxOf(S)
  BY DEF MaxIndex
<1>6. \A x \in SensorIds :
        Exists(x) /\ AccountOf[x[1]] = AccountOf[g] => sensors[x].index \in S
  OBVIOUS
<1> HIDE DEF S
<1>7. MaxOf(S) \in S /\ \A m \in S : m <= MaxOf(S)
  BY <1>2, <1>4, MaxOfProperties
<1> QED
  BY <1>2, <1>5, <1>6, <1>7

LEMMA EmptyPoll ==
  /\ NoWrites \in [fresh: SUBSET Refs, kinds: SUBSET Refs, rows: Seq(Row)]
  /\ NoSensors \in [Refs -> {Absent} \cup SensorRow]
BY EmptySeq DEF NoWrites, NoSensors

LEMMA NoPollTyped ==
  ASSUME NoPoll, pc' \in {"next", "publish", "sleep"}
  PROVE  PollOK'
BY EmptyPoll, EmptySeq DEF NoPoll, PollOK

LEMMA FetchedBatch ==
  ASSUME NEW x \in Exchanges
  PROVE  /\ x.entries \in Seq(Entries)
         /\ ParseValues(x.entries) \in Seq(Entered)
<1>1. x.entries \in Seq(Entries)
  BY ConstantsAssumption DEF Outcomes
<1>2. \A i \in 1..Len(x.entries) : x.entries[i] \in Entries
  BY <1>1, ElementOfSeq
<1>3. \A i \in 1..Len(x.entries) :
        Named(x.entries[i]) => ParseEntry(x.entries[i]) \in Entered
  BY <1>2, ParseEntryTyped
<1> QED
  BY <1>1, <1>3, ParseValuesTyped

LEMMA IdsTyped ==
  ASSUME NEW rows \in Seq(Row)
  PROVE  /\ Ids(rows) \in Seq(ReadingId) /\ DOMAIN Ids(rows) = 1..Len(rows)
         /\ \A i \in 1..Len(rows) : Ids(rows)[i] = rows[i].id
<1>1. \A i \in 1..Len(rows) : rows[i] \in Row
  BY ElementOfSeq
<1>2. Len(rows) \in Nat /\ DOMAIN rows = 1..Len(rows)
  BY LenProperties
<1>3. Ids(rows) \in [1..Len(rows) -> ReadingId]
  BY <1>1, <1>2 DEF Ids, Row
<1> QED
  BY <1>2, <1>3, IsASeq DEF Ids

LEMMA TypeInit == Init => TypeOK
<1> SUFFICES ASSUME Init PROVE TypeOK
  OBVIOUS
<1>1. TablesOK /\ HandedOK /\ HistoryOK
  BY EmptySeq DEF Init, TablesOK, HandedOK, HistoryOK
<1>2. PollOK
  BY EmptyPoll, EmptySeq DEF Init, PollOK
<1> QED
  BY <1>1, <1>2, TypeParts

LEMMA TypeStep ==
  ASSUME TypeOK, Bounded, Copies, Owned, Next
  PROVE  TypeOK'
<1>1. TablesOK /\ PollOK /\ HandedOK /\ HistoryOK
  BY TypeParts
<1>2. CASE StartCycle
  <2>1. TablesOK' /\ PollOK' /\ HandedOK' /\ HistoryOK'
    BY <1>1, <1>2 DEF StartCycle, TablesOK, PollOK, HandedOK, HistoryOK,
       tables, locals, outgoing, handed, flags, bounds, api
  <2> QED
    BY <2>1, TypePartsNext
<1>3. CASE EndCycle
  <2>1. TablesOK' /\ PollOK' /\ HandedOK' /\ HistoryOK'
    BY <1>1, <1>3 DEF EndCycle, TablesOK, PollOK, HandedOK, HistoryOK,
       tables, locals, outgoing, handed, flags, bounds, api
  <2> QED
    BY <2>1, TypePartsNext
<1>4. ASSUME NEW g \in Gateways, NEW x \in Exchanges, Attempt(g)
      PROVE  /\ queue' \subseteq gateways /\ g \in gateways
             /\ cycle' \in [due: SUBSET Gateways, done: SUBSET Gateways, cut: BOOLEAN]
  BY <1>1, <1>4 DEF Attempt, TablesOK, HistoryOK
<1>5. ASSUME NEW g \in Gateways, NEW x \in Exchanges, FetchFails(g, x)
      PROVE  TypeOK'
  <2>1. TablesOK' /\ PollOK' /\ HandedOK' /\ HistoryOK'
    BY <1>1, <1>4, <1>5 DEF FetchFails, TablesOK, PollOK, HandedOK, HistoryOK,
       tables, locals, outgoing, handed, flags, bounds, api
  <2> QED
    BY <2>1, TypePartsNext
<1>6. ASSUME NEW g \in Gateways, NEW x \in Exchanges, Fetch(g, x)
      PROVE  TypeOK'
  <2>1. ParseValues(x.entries) \in Seq(Entered)
    BY FetchedBatch
  <2>2. TablesOK' /\ PollOK' /\ HandedOK' /\ HistoryOK'
    BY <1>1, <1>4, <1>6, <2>1 DEF Fetch, TablesOK, PollOK, HandedOK, HistoryOK,
       tables, outgoing, handed, flags, api
  <2> QED
    BY <2>2, TypePartsNext
<1>7. CASE LoadSensors
  <2>1. gateway \in Gateways /\ pc = "load"
    BY <1>1, <1>7 DEF LoadSensors, PollOK, TablesOK
  <2>2. nextIndex' \in Nat
    BY <1>7, <2>1, MaxIndexTyped DEF LoadSensors
  <2>3. existing' \in [Refs -> {Absent} \cup SensorRow]
    BY <1>1, <1>7, <2>1 DEF LoadSensors, TablesOK, SensorIds
  <2>4. TablesOK' /\ PollOK' /\ HandedOK' /\ HistoryOK'
    BY <1>1, <1>7, <2>1, <2>2, <2>3 DEF LoadSensors, TablesOK, PollOK, HandedOK, HistoryOK,
       tables, outgoing, handed, flags, bounds, api
  <2> QED
    BY <2>4, TypePartsNext
<1>8. CASE Sample
  <2>1. PICK r \in Refs, s \in Samples, row \in SensorRow,
             new \in BOOLEAN, recorded \in BOOLEAN, value \in Int :
               /\ SampleDoes(r, s, row, new, recorded, value)
               /\ Turned(r, s, row, new, recorded) /\ Wrote(r, row, new, recorded, value)
    BY <1>8, SampleTurn
  <2>2. /\ existing' \in [Refs -> {Absent} \cup SensorRow]
        /\ written' \in [fresh: SUBSET Refs, kinds: SUBSET Refs, rows: Seq(Row)]
    <3>1. existing' \in [Refs -> {Absent} \cup SensorRow]
      BY <2>1 DEF Turned
    <3>2. written' \in [fresh: SUBSET Refs, kinds: SUBSET Refs, rows: Seq(Row)]
      BY <2>1 DEF Wrote
    <3> QED
      BY <3>1, <3>2
  <2>3. /\ pc = "samples" /\ gateway \in gateways /\ batch \in Seq(Entered) /\ batch # <<>>
        /\ batch' = Tail(batch) /\ nextIndex' = nextIndex + (IF new THEN 1 ELSE 0)
        /\ alarms' \subseteq alarms \cup {[sensor |-> <<gateway, r>>, at |-> now]}
        /\ UNCHANGED <<tables, pc, queue, gateway, now, outgoing, handed, cycle,
                       chosen, detectors, dropped, interrupted, bounds>>
    BY <1>1, <2>1 DEF SampleDoes, PollOK
  <2>4. batch' \in Seq(Entered) /\ nextIndex' \in Nat
    BY <1>1, <2>3, HeadTailProperties DEF PollOK
  <2>6. alarms' \subseteq ReadingId
    <3>1. [sensor |-> <<gateway, r>>, at |-> now] \in ReadingId
      BY <1>1, <2>3 DEF PollOK, TablesOK, SensorIds, ReadingId
    <3> QED
      BY <1>1, <2>3, <3>1 DEF HistoryOK
  <2>5. TablesOK' /\ PollOK' /\ HandedOK' /\ HistoryOK'
    BY <1>1, <2>2, <2>3, <2>4, <2>6 DEF TablesOK, PollOK, HandedOK, HistoryOK,
       tables, outgoing, handed, bounds, api
  <2> QED
    BY <2>5, TypePartsNext
<1>9. CASE Commit
  <2>1. /\ gateway \in Gateways /\ NoPoll /\ pc' = "publish"
        /\ publishing' = Ids(written.rows) /\ evaluating' = Ids(written.rows)
        /\ readings' = readings \cup {written.rows[i] : i \in DOMAIN written.rows}
        /\ UNCHANGED <<gateways, queue, handed, cycle, alarms, dropped, interrupted, bounds>>
    BY <1>1, <1>9 DEF Commit, PollOK, TablesOK
  <2>2. written.rows \in Seq(Row)
    BY <1>1 DEF PollOK
  <2>3. \A i \in DOMAIN written.rows : written.rows[i] \in Row
    BY <2>2, ElementOfSeq
  <2>4. Ids(written.rows) \in Seq(ReadingId)
    BY <2>2, IdsTyped
  <2>5. sensors' \in [SensorIds -> {Absent} \cup SensorRow]
    <3>1. ASSUME NEW x \in SensorIds PROVE sensors'[x] \in {Absent} \cup SensorRow
      <4>1. CASE x[1] # gateway
        BY <1>1, <1>9, <4>1, CommitElsewhere DEF TablesOK
      <4>2. CASE x[1] = gateway
        <5>1. x[2] \in Refs /\ x = <<gateway, x[2]>>
          BY <4>2 DEF SensorIds
        <5> QED
          BY <1>9, <5>1, CommitRow
      <4> QED
        BY <4>1, <4>2
    <3> QED
      BY <1>9, <3>1 DEF Commit
  <2>6. detectors' \subseteq SensorIds /\ chosen' \in [SensorIds -> BOOLEAN]
    BY <1>1, <1>9 DEF Commit, HistoryOK
  <2>7. PollOK'
    BY <2>1, NoPollTyped
  <2>8. TablesOK' /\ HandedOK' /\ HistoryOK'
    BY <1>1, <2>1, <2>3, <2>4, <2>5, <2>6 DEF TablesOK, HandedOK, HistoryOK, handed, bounds, api
  <2> QED
    BY <2>7, <2>8, TypePartsNext
<1>19. [cycle EXCEPT !.cut = TRUE] \in [due: SUBSET Gateways, done: SUBSET Gateways,
                                        cut: BOOLEAN]
  BY <1>1, Zenon DEF HistoryOK
<1>10. CASE PersistFails \/ ConnectionFails
  <2>1. PollOK'
    BY <1>10, NoPollTyped DEF PersistFails, ConnectionFails
  <2>2. now \in Nat
    BY <1>1 DEF PollOK
  <2>3. CASE PersistFails
    <3>1. TablesOK' /\ HandedOK' /\ HistoryOK'
      BY <1>1, <2>2, <2>3 DEF PersistFails, TablesOK, HandedOK, HistoryOK,
         tables, outgoing, handed, bounds, api
    <3> QED
      BY <2>1, <3>1, TypePartsNext
  <2>4. CASE ConnectionFails
    <3>1. TablesOK' /\ HandedOK'
      BY <1>1, <2>4 DEF ConnectionFails, TablesOK, HandedOK, tables, outgoing, handed
    <3>2. cycle' = [cycle EXCEPT !.cut = TRUE] /\ raises' = raises + 1
          /\ dropped' = dropped \cup {now}
          /\ UNCHANGED <<chosen, detectors, alarms, interrupted, polls, crashes, patching,
                         patches>>
      BY <2>4 DEF ConnectionFails, api
    <3>3. HistoryOK'
      BY <1>1, <1>19, <2>2, <3>2 DEF HistoryOK
    <3> QED
      BY <2>1, <3>1, <3>3, TypePartsNext
  <2> QED
    BY <1>10, <2>3, <2>4
<1>11. CASE Publish \/ Evaluate
  <2>1. HandedOK'
    <3>1. CASE Publish
      <4>1. Head(publishing) \in ReadingId /\ Tail(publishing) \in Seq(ReadingId)
        BY <1>1, <3>1, HeadTailProperties DEF Publish, HandedOK
      <4> QED
        BY <1>1, <3>1, <4>1, AppendProperties DEF Publish, HandedOK
    <3>2. CASE Evaluate
      <4>1. Head(evaluating) \in ReadingId /\ Tail(evaluating) \in Seq(ReadingId)
        BY <1>1, <3>2, HeadTailProperties DEF Evaluate, HandedOK
      <4> QED
        BY <1>1, <3>2, <4>1, AppendProperties DEF Evaluate, HandedOK
    <3> QED
      BY <1>11, <3>1, <3>2
  <2>2. TablesOK' /\ PollOK' /\ HistoryOK'
    BY <1>1, <1>11 DEF Publish, Evaluate, TablesOK, PollOK, HistoryOK,
       tables, locals, flags, bounds, api
  <2> QED
    BY <2>1, <2>2, TypePartsNext
<1>12. CASE EndPoll
  <2>1. TablesOK' /\ PollOK' /\ HandedOK' /\ HistoryOK'
    BY <1>1, <1>12 DEF EndPoll, TablesOK, PollOK, HandedOK, HistoryOK,
       tables, locals, outgoing, handed, flags, bounds, api
  <2> QED
    BY <2>1, TypePartsNext
<1>13. CASE HandOverRaises
  <2>1. TablesOK' /\ PollOK' /\ HandedOK'
    BY <1>1, <1>13, EmptySeq DEF HandOverRaises, TablesOK, PollOK, HandedOK,
       tables, locals, handed
  <2>2. cycle' = [cycle EXCEPT !.cut = TRUE] /\ raises' = raises + 1
        /\ interrupted' = interrupted \cup {polls}
        /\ UNCHANGED <<chosen, detectors, alarms, dropped, polls, crashes, patching, patches>>
    BY <1>13 DEF HandOverRaises, api
  <2>3. HistoryOK'
    BY <1>1, <1>19, <2>2 DEF HistoryOK
  <2> QED
    BY <2>1, <2>3, TypePartsNext
<1>14. CASE Crash
  <2>1. PollOK'
    BY <1>14, NoPollTyped DEF Crash
  <2>2. TablesOK' /\ HandedOK'
    BY <1>1, <1>14, EmptySeq DEF Crash, TablesOK, HandedOK, tables, handed
  <2>3. /\ cycle' = [due |-> {}, done |-> {}, cut |-> TRUE] /\ crashes' = crashes + 1
        /\ dropped' \subseteq dropped \cup {polls}
        /\ interrupted' \subseteq interrupted \cup {polls}
        /\ UNCHANGED <<chosen, detectors, alarms, polls, raises, patching, patches>>
    BY <1>14 DEF Crash, api
  <2>4. HistoryOK'
    BY <1>1, <2>3 DEF HistoryOK
  <2> QED
    BY <2>1, <2>2, <2>4, TypePartsNext
<1>15. ASSUME NEW g \in Gateways, CreateGateway(g)
       PROVE  TypeOK'
  <2>1. TablesOK' /\ PollOK' /\ HandedOK' /\ HistoryOK'
    BY <1>1, <1>15 DEF CreateGateway, TablesOK, PollOK, HandedOK, HistoryOK,
       locals, outgoing, handed, flags, bounds, api
  <2> QED
    BY <2>1, TypePartsNext
<1>16. ASSUME NEW e \in patching, UpdateSensor(e)
       PROVE  TypeOK'
  <2>1. /\ sensors' \in [SensorIds -> {Absent} \cup SensorRow]
        /\ e.sensor \in SensorIds /\ e.active \in BOOLEAN
    BY <1>16, PatchRow
  <2>2. /\ UNCHANGED <<gateways, readings, pc, queue, locals, outgoing, handed, cycle,
                        alarms, dropped, interrupted, polls, crashes, raises, patches>>
        /\ patching' \subseteq patching /\ detectors' \subseteq detectors
        /\ chosen' = [chosen EXCEPT ![e.sensor] =
                         IF e.active # e.from.active THEN e.active ELSE chosen[e.sensor]]
    BY <1>16 DEF UpdateSensor
  <2>3. chosen' \in [SensorIds -> BOOLEAN]
    BY <1>1, <2>1, <2>2 DEF HistoryOK
  <2>4. TablesOK' /\ PollOK' /\ HandedOK' /\ HistoryOK'
    BY <1>1, <2>1, <2>2, <2>3 DEF TablesOK, PollOK, HandedOK, HistoryOK,
       locals, outgoing, handed
  <2> QED
    BY <2>4, TypePartsNext
<1>17. ASSUME NEW x \in SensorIds, NEW active \in BOOLEAN, NEW kind \in PatchKinds,
              GetOwnedSensor(x, active, kind)
       PROVE  TypeOK'
  <2>1. [sensor |-> x, active |-> active, kind |-> kind, from |-> sensors[x]] \in Patch
    <3>1. sensors[x] \in SensorRow
      BY <1>1, <1>17, RowParts DEF TablesOK, GetOwnedSensor, Exists
    <3> QED
      BY <3>1 DEF Patch
  <2>2. patching' \subseteq Patch /\ patches' \in Nat
    BY <1>1, <1>17, <2>1 DEF GetOwnedSensor, HistoryOK
  <2>3. TablesOK' /\ PollOK' /\ HandedOK' /\ HistoryOK'
    BY <1>1, <1>17, <2>2 DEF GetOwnedSensor, TablesOK, PollOK, HandedOK, HistoryOK,
       tables, locals, outgoing, handed, flags
  <2> QED
    BY <2>3, TypePartsNext
<1>18. CASE StartFails
  <2>1. TablesOK' /\ PollOK' /\ HandedOK' /\ HistoryOK'
    BY <1>1, <1>18 DEF StartFails, TablesOK, PollOK, HandedOK, HistoryOK,
       tables, locals, outgoing, handed, flags, api
  <2> QED
    BY <2>1, TypePartsNext
<1> QED
  BY <1>2, <1>3, <1>5, <1>6, <1>7, <1>8, <1>9, <1>10, <1>11, <1>12, <1>13, <1>14,
     <1>15, <1>16, <1>17, <1>18 DEF Next

----------------------------------------------------------------------------
(* The numbers of an account's sensors.                                    *)

\* The copies of known sensors keep their numbers; those provisioned in the
\* open transaction are numbered below the next one, each differently, and
\* unlike every sensor of the account.
Numbering ==
  pc = "samples" =>
    /\ \A r \in Refs \ written.fresh :
         existing[r] # Absent => existing[r].index = sensors[<<gateway, r>>].index
    /\ \A x \in SensorIds :
         Exists(x) /\ AccountOf[x[1]] = AccountOf[gateway] => sensors[x].index < nextIndex
    /\ \A r \in written.fresh :
         /\ existing[r].index < nextIndex
         /\ \A x \in SensorIds :
              Exists(x) /\ AccountOf[x[1]] = AccountOf[gateway] =>
                sensors[x].index # existing[r].index
         /\ \A q \in written.fresh : q # r => existing[q].index # existing[r].index

Idle == pc # "samples" => written = NoWrites
IndexInv == Bounded /\ Idle /\ Copies /\ Owned /\ IndexUnique /\ Numbering

\* A step that leaves the sensors alone, and the open transaction if one stays open.
Aside ==
  /\ sensors' = sensors
  /\ \A e \in patching' : e \in patching \/ Exists(e.sensor)
  /\ \/ /\ pc' # "samples"
        /\ written' = NoWrites \/ (pc # "samples" /\ written' = written)
     \/ UNCHANGED <<pc, gateway, existing, nextIndex, written>>

LEMMA IndexAside ==
  ASSUME IndexInv, Aside
  PROVE  IndexInv'
<1>1. Bounded' /\ IndexUnique' /\ Owned'
  BY DEF IndexInv, Aside, Bounded, IndexUnique, Exists, Owned
<1>2. CASE pc' # "samples"
  BY <1>1, <1>2 DEF IndexInv, Copies, Numbering, Idle, Aside
<1>3. CASE UNCHANGED <<pc, gateway, existing, nextIndex, written>>
  BY <1>1, <1>3 DEF IndexInv, Aside, Copies, Numbering, Exists, Idle
<1> QED
  BY <1>2, <1>3 DEF Aside

LEMMA IndexLoad ==
  ASSUME TypeOK, IndexInv, LoadSensors
  PROVE  IndexInv'
<1>1. TablesOK /\ PollOK /\ pc = "load" /\ gateway \in Gateways
  BY TypeParts DEF LoadSensors, PollOK, TablesOK
<1>2. /\ existing' = [r \in Refs |-> sensors[<<gateway, r>>]]
      /\ nextIndex' = MaxIndex(gateway) + 1
      /\ sensors' = sensors /\ gateway' = gateway /\ written' = written
      /\ patching' = patching
  BY DEF LoadSensors, tables, bounds, api
<1>3. Bounded' /\ IndexUnique' /\ Owned'
  BY <1>2 DEF IndexInv, Bounded, IndexUnique, Exists, Owned
<1>4. MaxIndex(gateway) \in Nat
      /\ \A x \in SensorIds :
           Exists(x) /\ AccountOf[x[1]] = AccountOf[gateway] => sensors[x].index <= MaxIndex(gateway)
  BY <1>1, MaxIndexTyped DEF IndexInv
<1>5. \A x \in SensorIds : Exists(x) => sensors[x].index \in Nat
  BY <1>1, RowParts DEF TablesOK, Exists, SensorRow
<1>6. \A x \in SensorIds :
        Exists(x) /\ AccountOf[x[1]] = AccountOf[gateway] => sensors[x].index < nextIndex'
  BY <1>2, <1>4, <1>5
<1>7. \A r \in Refs : existing'[r] = sensors'[<<gateway', r>>]
  BY <1>2
<1>8. written'.fresh = {} /\ Idle' /\ pc' = "samples"
  BY <1>1, <1>2 DEF IndexInv, Idle, NoWrites, LoadSensors
<1>9. Copies'
  BY <1>7, <1>8 DEF Copies
<1>10. Numbering'
  BY <1>2, <1>6, <1>7, <1>8 DEF Numbering, Exists
<1> QED
  BY <1>3, <1>8, <1>9, <1>10 DEF IndexInv

LEMMA IndexSample ==
  ASSUME TypeOK, IndexInv, Sample
  PROVE  IndexInv'
<1>1. TablesOK /\ PollOK
  BY TypeParts
<1>2. PICK r \in Refs, s \in Samples, row \in SensorRow,
           new \in BOOLEAN, recorded \in BOOLEAN, value \in Int :
             /\ SampleDoes(r, s, row, new, recorded, value)
             /\ Turned(r, s, row, new, recorded) /\ Wrote(r, row, new, recorded, value)
  BY SampleTurn
<1>3. /\ pc = "samples" /\ gateway \in Gateways /\ (new <=> existing[r] = Absent)
      /\ nextIndex' = nextIndex + (IF new THEN 1 ELSE 0)
      /\ UNCHANGED <<sensors, pc, gateway, patching>>
  BY <1>2 DEF SampleDoes, tables, bounds, api
<1>4. /\ new => row.index = nextIndex
      /\ ~ new => row.index = existing[r].index
      /\ existing'[r] \in SensorRow /\ existing'[r].index = row.index
      /\ \A q \in Refs : q # r => existing'[q] = existing[q]
  BY <1>2 DEF Turned
<1>5. written'.fresh = written.fresh \cup {y \in {r} : new}
  BY <1>2 DEF Wrote
<1>6. Bounded' /\ IndexUnique' /\ Idle' /\ Owned'
  BY <1>3 DEF IndexInv, Bounded, IndexUnique, Exists, Idle, Owned
<1>7. existing'[r] # Absent /\ nextIndex \in Nat /\ written.fresh \subseteq Refs
  BY <1>1, <1>4, RowParts DEF PollOK
<1>8. CASE new
  <2>1. /\ r \notin written.fresh /\ sensors[<<gateway, r>>] = Absent
        /\ written'.fresh = written.fresh \cup {r} /\ nextIndex' = nextIndex + 1
        /\ existing'[r].index = nextIndex
    BY <1>3, <1>4, <1>5, <1>8 DEF IndexInv, Copies
  <2>2. Copies'
    BY <1>3, <1>4, <1>7, <2>1 DEF IndexInv, Copies
  <2>3. \A x \in SensorIds : Exists(x) => sensors[x].index \in Nat
    BY <1>1, RowParts DEF TablesOK, Exists, SensorRow
  <2>4. \A q \in Refs : existing[q] # Absent => existing[q].index \in Nat
    BY <1>1, RowParts DEF PollOK, SensorRow
  <2>5. /\ \A x \in SensorIds :
             Exists(x) /\ AccountOf[x[1]] = AccountOf[gateway] =>
               /\ sensors[x].index < nextIndex' /\ sensors[x].index # existing'[r].index
        /\ existing'[r].index < nextIndex'
    BY <1>3, <1>7, <2>1, <2>3 DEF IndexInv, Numbering
  <2>6. \A q \in written.fresh :
          /\ q # r /\ existing'[q] = existing[q]
          /\ existing[q].index < nextIndex' /\ existing[q].index # existing'[r].index
    <3> SUFFICES ASSUME NEW q \in written.fresh
                 PROVE  /\ q # r /\ existing'[q] = existing[q]
                        /\ existing[q].index < nextIndex'
                        /\ existing[q].index # existing'[r].index
      OBVIOUS
    <3>1. q \in Refs /\ q # r
      BY <1>7, <2>1
    <3>2. existing[q].index \in Nat /\ existing[q].index < nextIndex
      BY <1>3, <2>4, <3>1 DEF IndexInv, Numbering, Copies
    <3> QED
      BY <1>4, <1>7, <2>1, <3>1, <3>2
  <2>7. Numbering'
    <3>1. \A q \in Refs \ written'.fresh :
            existing'[q] # Absent => existing'[q].index = sensors'[<<gateway', q>>].index
      BY <1>3, <1>4, <2>1 DEF IndexInv, Numbering
    <3>2. \A q \in written'.fresh :
            /\ existing'[q].index < nextIndex'
            /\ \A x \in SensorIds :
                 Exists(x) /\ AccountOf[x[1]] = AccountOf[gateway] =>
                   sensors[x].index # existing'[q].index
            /\ \A p \in written'.fresh : p # q => existing'[p].index # existing'[q].index
      <4>1. \A q \in written'.fresh : q = r \/ q \in written.fresh
        BY <2>1
      <4> QED
        BY <1>3, <2>5, <2>6, <4>1 DEF IndexInv, Numbering
    <3> QED
      BY <1>3, <2>5, <3>1, <3>2 DEF Numbering, Exists
  <2> QED
    BY <1>6, <2>2, <2>7 DEF IndexInv
<1>9. CASE ~ new
  <2>1. written'.fresh = written.fresh /\ nextIndex' = nextIndex
        /\ existing'[r].index = existing[r].index /\ existing[r] # Absent
    BY <1>3, <1>4, <1>5, <1>7, <1>9
  <2>2. \A q \in Refs : /\ existing'[q] = Absent <=> existing[q] = Absent
                        /\ existing[q] # Absent => existing'[q].index = existing[q].index
    BY <1>4, <1>7, <2>1
  <2>3. Copies'
    BY <1>3, <1>7, <2>1, <2>2 DEF IndexInv, Copies
  <2>4. Numbering'
    <3>1. \A q \in Refs \ written.fresh :
            existing'[q] # Absent => existing'[q].index = sensors[<<gateway, q>>].index
      BY <1>3, <2>2 DEF IndexInv, Numbering
    <3>2. \A q \in written.fresh : existing'[q].index = existing[q].index
      BY <1>3, <1>7, <2>2 DEF IndexInv, Copies
    <3> QED
      BY <1>3, <2>1, <3>1, <3>2 DEF IndexInv, Numbering, Exists
  <2> QED
    BY <1>6, <2>3, <2>4 DEF IndexInv
<1> QED
  BY <1>8, <1>9

LEMMA IndexCommit ==
  ASSUME TypeOK, IndexInv, Commit
  PROVE  IndexInv'
<1>1. TablesOK /\ PollOK
  BY TypeParts
<1>2. pc = "samples" /\ gateway \in Gateways /\ pc' = "publish" /\ written' = NoWrites
  BY <1>1 DEF Commit, PollOK, TablesOK, NoPoll
<1>3. Copies' /\ Numbering' /\ Idle'
  BY <1>2 DEF Copies, Numbering, Idle
<1> DEFINE Kept(x) == Exists(x) /\ sensors'[x].index = sensors[x].index
           Born(x) == /\ x[1] = gateway /\ x[2] \in written.fresh /\ ~ Exists(x)
                      /\ sensors'[x].index = existing[x[2]].index
<1>4. ASSUME NEW x \in SensorIds, Exists(x)' PROVE Kept(x) \/ Born(x)
  <2>1. CASE x[1] # gateway
    BY <1>4, <2>1, CommitElsewhere DEF Exists
  <2>2. CASE x[1] = gateway
    <3>1. x[2] \in Refs /\ x = <<gateway, x[2]>>
      BY <2>2 DEF SensorIds
    <3>2. CASE x[2] \in written.fresh
      <4>1. sensors[x] = Absent /\ sensors'[x] = existing[x[2]]
        BY <3>1, <3>2, CommitRow DEF IndexInv
      <4> QED
        BY <2>2, <3>2, <4>1 DEF Exists, Absent
    <3>3. CASE x[2] \notin written.fresh
      <4>1. \/ sensors'[x] = Absent
            \/ sensors[x] \in SensorRow /\ sensors'[x].index = sensors[x].index
        BY <3>1, <3>3, CommitRow DEF IndexInv
      <4>2. sensors'[x] # Absent
        BY <1>4 DEF Exists, Absent
      <4> QED
        BY <4>1, <4>2 DEF Exists, SensorRow
    <3> QED
      BY <3>2, <3>3
  <2> QED
    BY <2>1, <2>2
<1>5. IndexUnique'
  <2> SUFFICES ASSUME NEW x \in SensorIds, NEW y \in SensorIds,
                      Exists(x)', Exists(y)', x # y, AccountOf[x[1]] = AccountOf[y[1]]
               PROVE  sensors'[x].index # sensors'[y].index
    BY DEF IndexUnique
  <2>1. CASE Kept(x) /\ Kept(y)
    BY <2>1 DEF IndexInv, IndexUnique
  <2>2. CASE Kept(x) /\ Born(y)
    BY <1>2, <2>2 DEF IndexInv, Numbering
  <2>3. CASE Born(x) /\ Kept(y)
    BY <1>2, <2>3 DEF IndexInv, Numbering
  <2>4. CASE Born(x) /\ Born(y)
    <3>1. x[2] # y[2]
      BY <2>4 DEF SensorIds
    <3> QED
      BY <1>2, <2>4, <3>1 DEF IndexInv, Numbering
  <2> QED
    BY <1>4, <2>1, <2>2, <2>3, <2>4
<1>6. Bounded'
  <2>1. PICK b \in Nat : \A x \in SensorIds : Exists(x) => sensors[x].index <= b
    BY DEF IndexInv, Bounded
  <2> DEFINE top == IF b < nextIndex THEN nextIndex ELSE b
  <2>2. nextIndex \in Nat /\ top \in Nat /\ b <= top /\ nextIndex <= top
    BY <1>1 DEF PollOK
  <2> HIDE DEF top
  <2>3. \A x \in SensorIds : Exists(x) => sensors[x].index \in Nat
    BY <1>1, RowParts DEF TablesOK, Exists, SensorRow
  <2>4. \A r \in written.fresh : existing[r].index < nextIndex /\ existing[r].index \in Nat
    BY <1>1, <1>2, RowParts DEF IndexInv, Numbering, Copies, PollOK, SensorRow
  <2>5. ASSUME NEW x \in SensorIds, Exists(x)' PROVE sensors'[x].index <= top
    BY <1>4, <2>1, <2>2, <2>3, <2>4, <2>5
  <2> QED
    BY <2>2, <2>5 DEF Bounded
<1>7. Owned'
  <2>1. patching' = patching
    BY DEF Commit, bounds, api
  <2>2. ASSUME NEW e \in patching PROVE Exists(e.sensor)'
    <3> DEFINE x == e.sensor
    <3>1. e \in Patch /\ Exists(x)
      BY TypeParts DEF IndexInv, Owned, HistoryOK
    <3>2. x \in SensorIds
      BY <3>1 DEF Patch
    <3> HIDE DEF x
    <3>3. CASE x[1] # gateway
      BY <3>1, <3>2, <3>3, CommitElsewhere DEF Exists, x
    <3>4. CASE x[1] = gateway
      <4>1. x[2] \in Refs /\ x = <<gateway, x[2]>>
        BY <3>2, <3>4 DEF SensorIds
      <4>2. sensors[x] # Absent
        BY <3>1 DEF Exists, Absent
      <4>3. sensors'[x] \in SensorRow
        BY <4>1, <4>2, CommitRow DEF IndexInv
      <4> QED
        BY <4>3 DEF Exists, SensorRow, x
    <3> QED
      BY <3>3, <3>4
  <2> QED
    BY <2>1, <2>2 DEF Owned
<1> QED
  BY <1>3, <1>5, <1>6, <1>7 DEF IndexInv

LEMMA IndexPatch ==
  ASSUME TypeOK, IndexInv, NEW e \in patching, UpdateSensor(e)
  PROVE  IndexInv'
<1>8. Owned
  BY DEF IndexInv
<1>1. \A y \in SensorIds : /\ sensors'[y] = Absent <=> sensors[y] = Absent
                           /\ Exists(y)' <=> Exists(y)
                           /\ sensors'[y].index = sensors[y].index
  BY <1>8, PatchRow, RowParts DEF Exists
<1>2. /\ UNCHANGED <<pc, gateway, existing, nextIndex, written>>
      /\ patching' \subseteq patching
  BY DEF UpdateSensor, locals
<1>3. pc = "samples" => gateway \in Gateways /\ written.fresh \subseteq Refs
  BY TypeParts DEF TablesOK, PollOK
<1>4. \A r \in Refs : gateway \in Gateways => <<gateway, r>> \in SensorIds
  BY DEF SensorIds
<1>5. Bounded' /\ IndexUnique'
  BY <1>1 DEF IndexInv, Bounded, IndexUnique
<1>6. Copies' /\ Idle'
  BY <1>1, <1>2, <1>3, <1>4 DEF IndexInv, Copies, Idle
<1>7. Numbering'
  BY <1>1, <1>2, <1>3, <1>4 DEF IndexInv, Numbering
<1>9. Owned'
  <2>1. \A d \in patching : d.sensor \in SensorIds
    BY TypeParts DEF HistoryOK, Patch
  <2> QED
    BY <1>1, <1>2, <1>8, <2>1 DEF Owned
<1> QED
  BY <1>5, <1>6, <1>7, <1>9 DEF IndexInv

LEMMA IndexInit == Init => IndexInv
<1> SUFFICES ASSUME Init PROVE IndexInv
  OBVIOUS
<1>1. \A x \in SensorIds : ~ Exists(x)
  BY DEF Init, Exists, Absent
<1>2. Bounded /\ IndexUnique
  BY <1>1 DEF Bounded, IndexUnique
<1>3. Idle /\ Copies /\ Numbering /\ Owned
  BY DEF Init, Idle, Copies, Numbering, Owned
<1> QED
  BY <1>2, <1>3 DEF IndexInv

LEMMA IndexStep ==
  ASSUME TypeOK, IndexInv, [Next]_vars
  PROVE  IndexInv'
<1>1. Idle /\ pc \in {"sleep", "next", "load", "samples", "publish"}
  BY TypeParts DEF IndexInv, PollOK
<1>2. ASSUME NEW g \in Gateways, NEW x \in Exchanges, FetchFails(g, x) \/ Fetch(g, x)
      PROVE  Aside
  <2>1. CASE FetchFails(g, x)
    BY <2>1 DEF FetchFails, Attempt, Aside, tables, locals, bounds, api
  <2>2. CASE Fetch(g, x)
    BY <2>2 DEF Fetch, Attempt, Aside, tables, locals, api
  <2> QED
    BY <1>2, <2>1, <2>2
<1>3. CASE StartCycle \/ StartFails \/ EndCycle
  <2>1. Aside
    BY <1>3 DEF StartCycle, StartFails, EndCycle, Aside, tables, locals, bounds, api
  <2> QED
    BY <2>1, IndexAside
<1>4. CASE PersistFails \/ ConnectionFails \/ Crash
  <2>1. Aside
    BY <1>4 DEF PersistFails, ConnectionFails, Crash, Aside, NoPoll, tables, bounds, api
  <2> QED
    BY <2>1, IndexAside
<1>5. CASE Publish \/ Evaluate \/ EndPoll \/ HandOverRaises
  <2>1. Aside
    BY <1>5 DEF Publish, Evaluate, EndPoll, HandOverRaises, Aside, tables, locals,
       bounds, api
  <2> QED
    BY <2>1, IndexAside
<1>6. ASSUME NEW g \in Gateways, CreateGateway(g)
      PROVE  Aside
  BY <1>6 DEF CreateGateway, Aside, locals, bounds, api
<1>7. CASE UNCHANGED vars
  <2>1. Aside
    BY <1>7 DEF vars, tables, locals, bounds, api, Aside
  <2> QED
    BY <2>1, IndexAside
<1>8. ASSUME NEW x \in SensorIds, NEW active \in BOOLEAN, NEW kind \in PatchKinds,
             GetOwnedSensor(x, active, kind)
      PROVE  Aside
  BY <1>8 DEF GetOwnedSensor, Aside, tables, locals
<1> QED
  BY <1>2, <1>3, <1>4, <1>5, <1>6, <1>7, <1>8, IndexAside, IndexLoad, IndexSample, IndexCommit,
     IndexPatch DEF Next

LEMMA TypeAndIndex == Spec => [](TypeOK /\ IndexInv)
<1>1. Init => TypeOK /\ IndexInv
  BY TypeInit, IndexInit
<1>2. ASSUME TypeOK, IndexInv, [Next]_vars
      PROVE  TypeOK' /\ IndexInv'
  <2>1. CASE Next
    BY <1>2, <2>1, TypeStep, IndexStep DEF IndexInv
  <2>2. CASE UNCHANGED vars
    <3>1. TypeOK'
      BY <1>2, <2>2 DEF TypeOK, vars, tables, locals, outgoing, handed, flags, bounds, api
    <3> QED
      BY <1>2, <3>1, IndexStep
  <2> QED
    BY <1>2, <2>1, <2>2
<1> QED
  BY <1>1, <1>2, PTL DEF Spec

\* Every variable keeps its type, the batch being what ParseValues makes of a
\* document and the next number one above the account's highest.
THEOREM TypeCorrect == Spec => []TypeOK
BY TypeAndIndex, PTL

\* No two sensors of an account get one device_index (collector_service.py, the
\* max() + 1 of _poll_gateway), with any number of gateways of the account, any
\* failed transaction and any restart.
THEOREM IndexUniqueCorrect == Spec => []IndexUnique
<1>1. IndexInv => IndexUnique
  BY DEF IndexInv
<1> QED
  BY <1>1, TypeAndIndex, PTL

\* A step other than those of the loop over the samples: the tables keep their
\* rows, and the transaction is the same or there is none.
Beside == /\ UNCHANGED <<sensors, readings, polls>>
          /\ \/ pc' \notin {"load", "samples"}
             \/ UNCHANGED <<pc, gateway, existing, now, written>>

Elements(s) == {s[i] : i \in DOMAIN s}

LEMMA ElementsAppend ==
  ASSUME NEW S, NEW s \in Seq(S), NEW e \in S
  PROVE  Elements(Append(s, e)) = Elements(s) \cup {e}
<1>1. /\ Len(Append(s, e)) = Len(s) + 1 /\ Append(s, e)[Len(s) + 1] = e
      /\ \A i \in 1..Len(s) : Append(s, e)[i] = s[i]
      /\ Append(s, e) \in Seq(S)
  BY AppendProperties
<1>2. /\ DOMAIN s = 1..Len(s) /\ Len(s) \in Nat
      /\ DOMAIN Append(s, e) = 1..(Len(s) + 1)
  BY <1>1, LenProperties
<1>3. 1..(Len(s) + 1) = (1..Len(s)) \cup {Len(s) + 1}
  BY <1>2
<1>4. ASSUME NEW v PROVE v \in Elements(Append(s, e)) <=> v \in Elements(s) \cup {e}
  BY <1>1, <1>2, <1>3, Zenon DEF Elements
<1> QED
  BY <1>4

Dates(x) == {d.id.at : d \in {e \in readings : e.id.sensor = x}}
ReadBefore ==
  /\ \A d \in readings : Exists(d.id.sensor) /\ d.id.at <= polls
  /\ pc \in {"load", "samples"} =>
       now = polls /\ \A d \in readings : d.id.at < now
Latest(n, x) == n \in {0} \cup Dates(x) /\ \A m \in Dates(x) : m <= n
SeenLatest == \A x \in SensorIds : Exists(x) => Latest(sensors[x].seen, x)

\* The rows of the open transaction are of this poll, and the copy of a sensor
\* that has one carries its date.
HasRow(r) == \E d \in Elements(written.rows) : d.id.sensor = <<gateway, r>>
RowsOfPoll ==
  pc = "samples" =>
    /\ \A d \in Elements(written.rows) :
         /\ d.id.at = now
         /\ \E r \in Refs : d.id.sensor = <<gateway, r>> /\ existing[r] # Absent
    /\ \A r \in Refs : existing[r] # Absent =>
         /\ HasRow(r) => existing[r].seen = now
         /\ ~ HasRow(r) /\ r \in written.fresh => existing[r].seen = 0
         /\ ~ HasRow(r) /\ r \notin written.fresh =>
              existing[r].seen = sensors[<<gateway, r>>].seen
SeenInv == ReadBefore /\ SeenLatest /\ RowsOfPoll

LEMMA SeenBeside ==
  ASSUME SeenInv, Beside
  PROVE  SeenInv'
<1>1. SeenLatest'
  BY DEF SeenInv, Beside, SeenLatest, Latest, Dates, Exists
<1>2. ReadBefore'
  BY DEF SeenInv, Beside, ReadBefore, Exists
<1>3. CASE pc' \notin {"load", "samples"}
  BY <1>1, <1>2, <1>3 DEF SeenInv, RowsOfPoll
<1>4. CASE UNCHANGED <<pc, gateway, existing, now, written>>
  BY <1>1, <1>2, <1>4 DEF SeenInv, RowsOfPoll, Beside, HasRow
<1> QED
  BY <1>3, <1>4 DEF Beside

LEMMA SeenFetch ==
  ASSUME TypeOK, SeenInv, NEW g \in Gateways, NEW x \in Exchanges, Fetch(g, x)
  PROVE  SeenInv'
<1>1. /\ UNCHANGED <<sensors, readings>>
      /\ pc' = "load" /\ polls' = polls + 1 /\ now' = polls + 1
  BY DEF Fetch, tables
<1>2. polls \in Nat /\ readings \subseteq Row
  BY TypeParts DEF TablesOK, HistoryOK
<1>3. \A d \in readings : d.id.at \in Nat
  BY <1>2 DEF Row, ReadingId
<1>4. ReadBefore'
  BY <1>1, <1>2, <1>3 DEF SeenInv, ReadBefore, Exists
<1>5. SeenLatest' /\ RowsOfPoll'
  BY <1>1 DEF SeenInv, SeenLatest, Latest, Dates, Exists, RowsOfPoll
<1> QED
  BY <1>4, <1>5 DEF SeenInv

LEMMA SeenLoad ==
  ASSUME TypeOK, IndexInv, SeenInv, LoadSensors
  PROVE  SeenInv'
<1>1. /\ UNCHANGED <<sensors, readings, polls, now, gateway, written>>
      /\ pc = "load" /\ pc' = "samples"
      /\ \A r \in Refs : existing'[r] = sensors[<<gateway, r>>]
  BY DEF LoadSensors, tables, bounds
<1>2. ReadBefore' /\ SeenLatest'
  BY <1>1 DEF SeenInv, ReadBefore, SeenLatest, Latest, Dates, Exists
<1>3. written'.fresh = {} /\ Elements(written'.rows) = {}
  BY <1>1 DEF IndexInv, Idle, NoWrites, Elements
<1>4. \A r \in Refs : ~ HasRow(r)'
  BY <1>3 DEF HasRow
<1>5. RowsOfPoll'
  BY <1>1, <1>3, <1>4 DEF RowsOfPoll
<1> QED
  BY <1>2, <1>5 DEF SeenInv

LEMMA SeenSample ==
  ASSUME TypeOK, IndexInv, SeenInv, Sample
  PROVE  SeenInv'
<1>1. TablesOK /\ PollOK
  BY TypeParts
<1>2. PICK r \in Refs, s \in Samples, row \in SensorRow,
           new \in BOOLEAN, recorded \in BOOLEAN, value \in Int :
             /\ SampleDoes(r, s, row, new, recorded, value)
             /\ Turned(r, s, row, new, recorded) /\ Wrote(r, row, new, recorded, value)
  BY SampleTurn
<1>3. /\ pc = "samples" /\ (new <=> existing[r] = Absent)
      /\ UNCHANGED <<sensors, readings, polls, pc, gateway, now>>
  BY <1>2 DEF SampleDoes, tables, bounds
<1>4. ReadBefore' /\ SeenLatest'
  BY <1>3 DEF SeenInv, ReadBefore, SeenLatest, Latest, Dates, Exists
<1> DEFINE reading == [id |-> [sensor |-> <<gateway, r>>, at |-> now], value |-> value]
<1>5. /\ recorded => Elements(written'.rows) = Elements(written.rows) \cup {reading}
      /\ ~ recorded => Elements(written'.rows) = Elements(written.rows)
      /\ written'.fresh = written.fresh \cup {y \in {r} : new}
  <2>1. reading \in Row /\ written.rows \in Seq(Row)
    BY <1>1, <1>2 DEF Wrote, PollOK
  <2>2. /\ recorded => written'.rows = Append(written.rows, reading)
        /\ ~ recorded => written'.rows = written.rows
        /\ written'.fresh = written.fresh \cup {y \in {r} : new}
    BY <1>2 DEF Wrote
  <2> HIDE DEF reading
  <2>3. Elements(Append(written.rows, reading)) = Elements(written.rows) \cup {reading}
    BY <2>1, ElementsAppend
  <2> QED
    BY <2>2, <2>3
<1>6. reading.id.sensor = <<gateway, r>> /\ reading.id.at = now
  OBVIOUS
<1> HIDE DEF reading
<1>7. \A q \in Refs : HasRow(q)' <=> HasRow(q) \/ (recorded /\ q = r)
  BY <1>3, <1>5, <1>6 DEF HasRow
<1>8. /\ existing'[r] # Absent
      /\ recorded => existing'[r].seen = now
      /\ ~ recorded => existing'[r].seen = row.seen
      /\ new => row.seen = 0
      /\ ~ new => row.seen = existing[r].seen
      /\ \A q \in Refs : q # r => existing'[q] = existing[q]
  BY <1>2, RowParts DEF Turned
<1>9. \A d \in Elements(written'.rows) :
        /\ d.id.at = now
        /\ \E q \in Refs : d.id.sensor = <<gateway, q>> /\ existing'[q] # Absent
  BY <1>3, <1>5, <1>6, <1>8 DEF SeenInv, RowsOfPoll
<1>10. new => r \notin written.fresh /\ ~ HasRow(r)
  <2>1. new => r \notin written.fresh
    BY <1>3 DEF IndexInv, Copies
  <2>2. HasRow(r) => existing[r] # Absent
    BY <1>3 DEF HasRow, SeenInv, RowsOfPoll
  <2> QED
    BY <1>3, <2>1, <2>2
<1>11. ASSUME NEW q \in Refs, existing'[q] # Absent
       PROVE  /\ HasRow(q)' => existing'[q].seen = now
              /\ ~ HasRow(q)' /\ q \in written'.fresh => existing'[q].seen = 0
              /\ ~ HasRow(q)' /\ q \notin written'.fresh =>
                   existing'[q].seen = sensors[<<gateway, q>>].seen
  <2>1. CASE q # r
    BY <1>3, <1>5, <1>7, <1>8, <1>11, <2>1 DEF SeenInv, RowsOfPoll
  <2>2. CASE q = r /\ new
    BY <1>3, <1>5, <1>7, <1>8, <1>10, <2>2 
  <2>3. CASE q = r /\ ~ new
    BY <1>3, <1>5, <1>7, <1>8, <2>3 DEF SeenInv, RowsOfPoll
  <2> QED
    BY <2>1, <2>2, <2>3
<1>12. RowsOfPoll'
  BY <1>3, <1>9, <1>11 DEF RowsOfPoll
<1> QED
  BY <1>4, <1>12 DEF SeenInv

LEMMA SeenCommit ==
  ASSUME TypeOK, IndexInv, SeenInv, Commit
  PROVE  SeenInv'
<1>1. TablesOK /\ PollOK /\ HistoryOK
  BY TypeParts
<1>2. /\ pc = "samples" /\ gateway \in Gateways /\ pc' = "publish" /\ polls' = polls
      /\ readings' = readings \cup Elements(written.rows)
  BY <1>1 DEF Commit, PollOK, TablesOK, bounds, Elements
<1>3. RowsOfPoll'
  BY <1>2 DEF RowsOfPoll
<1>4. /\ now = polls /\ now \in Nat
      /\ \A d \in readings : d.id.at < now /\ d.id.at \in Nat
      /\ \A d \in readings : Exists(d.id.sensor) /\ d.id.sensor \in SensorIds
  BY <1>1, <1>2 DEF SeenInv, ReadBefore, TablesOK, PollOK, Row, ReadingId
<1>5. /\ \A d \in Elements(written.rows) : d.id.at = now
      /\ \A d \in Elements(written.rows) :
           \E r \in Refs : d.id.sensor = <<gateway, r>> /\ existing[r] # Absent
  BY <1>2 DEF SeenInv, RowsOfPoll
<1>6. ASSUME NEW x \in SensorIds, NEW r \in Refs, x = <<gateway, r>>
      PROVE  /\ Exists(x)' <=> existing[r] # Absent
             /\ Exists(x) => Exists(x)'
             /\ Exists(x)' => /\ sensors'[x].seen = existing[r].seen
                              /\ r \in written.fresh => ~ Exists(x)
                              /\ r \notin written.fresh => Exists(x)
  <2>1. existing[r] \in {Absent} \cup SensorRow
    BY <1>1 DEF PollOK
  <2>2. Copies
    BY DEF IndexInv
  <2>3. r \notin written.fresh => (existing[r] = Absent <=> sensors[x] = Absent)
    BY <1>2, <1>6, <2>2 DEF Copies
  <2>4. \/ /\ r \in written.fresh /\ sensors[x] = Absent
           /\ existing[r] \in SensorRow /\ sensors'[x] = existing[r]
        \/ r \notin written.fresh /\ sensors[x] = Absent /\ sensors'[x] = Absent
        \/ /\ r \notin written.fresh /\ sensors[x] \in SensorRow
           /\ existing[r] \in SensorRow /\ sensors'[x] \in SensorRow
           /\ sensors'[x].seen = existing[r].seen
    BY <1>6, <2>2, CommitRow
  <2>5. /\ Absent \notin SensorRow /\ Absent.state # "present"
        /\ \A w \in SensorRow : w.state = "present"
    BY DEF Absent, SensorRow
  <2> QED
    BY <2>3, <2>4, <2>5 DEF Exists
<1>7. \A x \in SensorIds : Exists(x) => Exists(x)'
  <2>1. ASSUME NEW x \in SensorIds, Exists(x) PROVE Exists(x)'
    <3>1. CASE x[1] # gateway
      BY <2>1, <3>1, CommitElsewhere DEF Exists
    <3>2. CASE x[1] = gateway
      <4>1. x[2] \in Refs /\ x = <<gateway, x[2]>>
        BY <3>2 DEF SensorIds
      <4> QED
        BY <1>6, <2>1, <4>1
    <3> QED
      BY <3>1, <3>2
  <2> QED
    BY <2>1
<1>8. ReadBefore'
  <2>1. ASSUME NEW d \in readings' PROVE Exists(d.id.sensor)' /\ d.id.at <= polls'
    <3>1. CASE d \in readings
      BY <1>2, <1>4, <1>7, <3>1
    <3>2. CASE d \in Elements(written.rows)
      <4>1. PICK r \in Refs : d.id.sensor = <<gateway, r>> /\ existing[r] # Absent
        BY <1>5, <3>2
      <4>2. d.id.sensor \in SensorIds /\ d.id.at <= polls
        BY <1>2, <1>4, <1>5, <3>2, <4>1 DEF SensorIds
      <4> QED
        BY <1>2, <1>6, <4>1, <4>2
    <3> QED
      BY <1>2, <2>1, <3>1, <3>2
  <2> QED
    BY <1>2, <2>1 DEF ReadBefore
<1>9. ASSUME NEW x \in SensorIds, Exists(x)' PROVE Latest(sensors[x].seen, x)'
  <2>1. ASSUME \A d \in Elements(written.rows) : d.id.sensor # x
        PROVE  Dates(x)' = Dates(x)
    BY <1>2, <2>1 DEF Dates
  <2>2. CASE x[1] # gateway
    <3>1. \A d \in Elements(written.rows) : d.id.sensor # x
      BY <1>5, <2>2
    <3>2. sensors'[x] = sensors[x] /\ Exists(x)
      BY <1>9, <2>2, CommitElsewhere DEF Exists
    <3> QED
      BY <2>1, <3>1, <3>2 DEF SeenInv, SeenLatest, Latest
  <2>3. ASSUME NEW r \in Refs, x = <<gateway, r>>, HasRow(r)
        PROVE  Latest(sensors[x].seen, x)'
    <3>1. sensors'[x].seen = now
      BY <1>2, <1>6, <1>9, <2>3 DEF SeenInv, RowsOfPoll
    <3>2. PICK d \in Elements(written.rows) : d.id.sensor = x
      BY <2>3 DEF HasRow
    <3>3. now \in Dates(x)'
      BY <1>2, <1>5, <3>2 DEF Dates
    <3>4. \A n \in Dates(x)' : n <= now
      BY <1>2, <1>4, <1>5 DEF Dates
    <3> QED
      BY <3>1, <3>3, <3>4 DEF Latest
  <2>4. ASSUME NEW r \in Refs, x = <<gateway, r>>, ~ HasRow(r)
        PROVE  Latest(sensors[x].seen, x)'
    <3>1. Dates(x)' = Dates(x)
      BY <2>1, <2>4 DEF HasRow
    <3>2. CASE r \in written.fresh
      <4>1. sensors'[x].seen = 0 /\ ~ Exists(x)
        BY <1>2, <1>6, <1>9, <2>4, <3>2 DEF SeenInv, RowsOfPoll
      <4>2. Dates(x) = {}
        BY <1>4, <4>1 DEF Dates
      <4> QED
        BY <3>1, <4>1, <4>2 DEF Latest
    <3>3. CASE r \notin written.fresh
      <4>1. sensors'[x].seen = sensors[x].seen /\ Exists(x)
        BY <1>2, <1>6, <1>9, <2>4, <3>3 DEF SeenInv, RowsOfPoll
      <4> QED
        BY <3>1, <4>1 DEF SeenInv, SeenLatest, Latest
    <3> QED
      BY <3>2, <3>3
  <2>5. CASE x[1] = gateway
    <3>1. x[2] \in Refs /\ x = <<gateway, x[2]>>
      BY <2>5 DEF SensorIds
    <3> QED
      BY <2>3, <2>4, <3>1
  <2> QED
    BY <2>2, <2>5
<1>10. SeenLatest'
  BY <1>9 DEF SeenLatest
<1> QED
  BY <1>3, <1>8, <1>10 DEF SeenInv

LEMMA SeenPatch ==
  ASSUME TypeOK, Owned, SeenInv, NEW e \in patching, UpdateSensor(e)
  PROVE  SeenInv'
<1>1. \A y \in SensorIds : /\ Exists(y)' <=> Exists(y)
                           /\ sensors'[y].seen = sensors[y].seen
  BY PatchRow, RowParts DEF Exists
<1>2. UNCHANGED <<readings, polls, pc, gateway, now, existing, written>>
  BY DEF UpdateSensor, locals
<1>3. /\ pc = "samples" => gateway \in Gateways
      /\ \A d \in readings : d.id.sensor \in SensorIds
  BY TypeParts DEF TablesOK, PollOK, Row, ReadingId
<1>4. \A r \in Refs : gateway \in Gateways => <<gateway, r>> \in SensorIds
  BY DEF SensorIds
<1>5. ReadBefore'
  BY <1>1, <1>2, <1>3 DEF SeenInv, ReadBefore
<1>6. SeenLatest'
  BY <1>1, <1>2 DEF SeenInv, SeenLatest, Latest, Dates
<1>7. RowsOfPoll'
  BY <1>1, <1>2, <1>3, <1>4 DEF SeenInv, RowsOfPoll, HasRow
<1> QED
  BY <1>5, <1>6, <1>7 DEF SeenInv

LEMMA SeenInit == Init => SeenInv
<1> SUFFICES ASSUME Init PROVE SeenInv
  OBVIOUS
<1>1. readings = {} /\ pc = "sleep" /\ \A x \in SensorIds : ~ Exists(x)
  BY DEF Init, Exists, Absent
<1> QED
  BY <1>1 DEF SeenInv, ReadBefore, SeenLatest, RowsOfPoll

LEMMA SeenStep ==
  ASSUME TypeOK, IndexInv, SeenInv, [Next]_vars
  PROVE  SeenInv'
<1>1. ASSUME NEW g \in Gateways, NEW x \in Exchanges, FetchFails(g, x)
      PROVE  SeenInv'
  <2>1. Beside
    BY <1>1 DEF FetchFails, Attempt, Beside, tables, locals, bounds
  <2> QED
    BY <2>1, SeenBeside
<1>2. CASE StartCycle \/ StartFails \/ EndCycle \/ PersistFails \/ ConnectionFails \/ Crash
  <2>1. Beside
    BY <1>2 DEF StartCycle, StartFails, EndCycle, PersistFails, ConnectionFails, Crash, Beside,
       tables, bounds
  <2> QED
    BY <2>1, SeenBeside
<1>3. CASE Publish \/ Evaluate \/ EndPoll \/ HandOverRaises
  <2>1. Beside
    BY <1>3 DEF Publish, Evaluate, EndPoll, HandOverRaises, Beside, tables, locals, bounds
  <2> QED
    BY <2>1, SeenBeside
<1>4. ASSUME NEW g \in Gateways, CreateGateway(g)
      PROVE  SeenInv'
  <2>1. Beside
    BY <1>4 DEF CreateGateway, Beside, locals, bounds
  <2> QED
    BY <2>1, SeenBeside
<1>5. CASE UNCHANGED vars
  <2>1. Beside
    BY <1>5 DEF vars, tables, locals, bounds, Beside
  <2> QED
    BY <2>1, SeenBeside
<1>6. ASSUME NEW x \in SensorIds, NEW active \in BOOLEAN, NEW kind \in PatchKinds,
             GetOwnedSensor(x, active, kind)
      PROVE  SeenInv'
  <2>1. Beside
    BY <1>6 DEF GetOwnedSensor, Beside, tables, locals
  <2> QED
    BY <2>1, SeenBeside
<1>7. Owned
  BY DEF IndexInv
<1> QED
  BY <1>1, <1>2, <1>3, <1>4, <1>5, <1>6, <1>7, SeenFetch, SeenLoad, SeenSample, SeenCommit,
     SeenPatch DEF Next

LEMMA SeenAlways == Spec => []SeenInv
<1>1. Init => SeenInv
  BY SeenInit
<1>2. TypeOK /\ IndexInv /\ SeenInv /\ [Next]_vars => SeenInv'
  BY SeenStep
<1> QED
  BY <1>1, <1>2, TypeAndIndex, PTL DEF Spec

\* last_seen_at is the date of the last reading in the table, or the sensor has
\* neither: the copy loaded before a PATCH or a failure never brings it back.
THEOREM SeenCorrect == Spec => []SeenIsLastReading
<1>1. ASSUME TypeOK, SeenInv PROVE SeenIsLastReading
  <2> SUFFICES ASSUME NEW x \in SensorIds, Exists(x)
               PROVE  sensors[x].seen = MaxOf({0} \cup Dates(x))
    BY DEF SeenIsLastReading, Dates
  <2>1. Latest(sensors[x].seen, x)
    BY <1>1 DEF SeenInv, SeenLatest
  <2>2. {0} \cup Dates(x) \subseteq Nat
    BY <1>1, TypeParts DEF TablesOK, Dates, Row, ReadingId
  <2> QED
    BY <2>1, <2>2, MaxOfIs DEF Latest
<1> QED
  BY <1>1, TypeAndIndex, SeenAlways, PTL

----------------------------------------------------------------------------
(* Choices, sentinels and the cycle.                                       *)

\* A copy's is_active may be stale, since a PATCH can come after the SELECT;
\* the copy of a sensor still to be inserted is active.
FreshActive == pc = "samples" => \A r \in written.fresh : existing[r].active = TRUE
ChoiceInv == ChoiceKept /\ FreshActive

LEMMA ChoiceStep ==
  ASSUME TypeOK, IndexInv, ChoiceInv, [Next]_vars
  PROVE  ChoiceInv'
<1>1. TablesOK /\ PollOK
  BY TypeParts
<1>2. ASSUME UNCHANGED <<sensors, chosen>>,
             \/ pc' # "samples"
             \/ written'.fresh = {}
             \/ UNCHANGED <<pc, existing, written>>
      PROVE  ChoiceInv'
  BY <1>2 DEF ChoiceInv, ChoiceKept, FreshActive, Exists
<1>3. ASSUME NEW g \in Gateways, NEW x \in Exchanges, FetchFails(g, x) \/ Fetch(g, x)
      PROVE  ChoiceInv'
  <2>1. CASE FetchFails(g, x)
    BY <1>2, <2>1 DEF FetchFails, Attempt, tables, locals, flags
  <2>2. CASE Fetch(g, x)
    BY <1>2, <2>2 DEF Fetch, Attempt, tables, locals, flags
  <2> QED
    BY <1>3, <2>1, <2>2
<1>4. CASE StartCycle \/ StartFails \/ EndCycle \/ PersistFails \/ ConnectionFails \/ Crash
  BY <1>2, <1>4 DEF StartCycle, StartFails, EndCycle, PersistFails, ConnectionFails, Crash,
     tables, locals, flags
<1>5. CASE Publish \/ Evaluate \/ EndPoll \/ HandOverRaises
  BY <1>2, <1>5 DEF Publish, Evaluate, EndPoll, HandOverRaises, tables, locals, flags
<1>6. ASSUME NEW g \in Gateways, CreateGateway(g)
      PROVE  ChoiceInv'
  BY <1>2, <1>6 DEF CreateGateway, locals, flags
<1>7. CASE LoadSensors
  <2>1. UNCHANGED <<sensors, chosen>> /\ written'.fresh = {}
    BY <1>7 DEF LoadSensors, IndexInv, Idle, NoWrites, tables, flags
  <2> QED
    BY <1>2, <2>1
<1>8. CASE Sample
  <2>1. PICK r \in Refs, s \in Samples, row \in SensorRow,
             new \in BOOLEAN, recorded \in BOOLEAN, value \in Int :
               /\ SampleDoes(r, s, row, new, recorded, value)
               /\ Turned(r, s, row, new, recorded) /\ Wrote(r, row, new, recorded, value)
    BY <1>8, SampleTurn
  <2>2. /\ pc = "samples" /\ (new <=> existing[r] = Absent)
        /\ UNCHANGED <<sensors, chosen>>
    BY <2>1 DEF SampleDoes, tables
  <2>3. /\ new => existing'[r].active = TRUE
        /\ ~ new => existing'[r].active = existing[r].active
        /\ \A q \in Refs : q # r => existing'[q] = existing[q]
    BY <2>1 DEF Turned
  <2>4. written'.fresh = written.fresh \cup {y \in {r} : new}
    BY <2>1 DEF Wrote
  <2>5. written.fresh \subseteq Refs
    BY <1>1 DEF PollOK
  <2> QED
    BY <2>2, <2>3, <2>4, <2>5 DEF ChoiceInv, ChoiceKept, FreshActive, Exists
<1>9. CASE Commit
  <2>1. /\ pc = "samples" /\ pc' = "publish" /\ gateway \in Gateways
        /\ \A x \in SensorIds :
             chosen'[x] = IF x[1] = gateway /\ x[2] \in written.fresh THEN TRUE
                          ELSE chosen[x]
    BY <1>1, <1>9 DEF Commit, PollOK, TablesOK
  <2>2. ASSUME NEW x \in SensorIds, Exists(x)'
        PROVE  sensors'[x].active = chosen'[x]
    <3>1. CASE x[1] # gateway
      BY <1>9, <2>1, <2>2, <3>1, CommitElsewhere DEF Exists, ChoiceInv, ChoiceKept
    <3>2. CASE x[1] = gateway
      <4>1. x[2] \in Refs /\ x = <<gateway, x[2]>>
        BY <3>2 DEF SensorIds
      <4>2. \/ /\ x[2] \in written.fresh /\ sensors'[x] = existing[x[2]]
            \/ x[2] \notin written.fresh /\ sensors'[x] = Absent
            \/ /\ x[2] \notin written.fresh /\ sensors[x] \in SensorRow
               /\ sensors'[x].active = sensors[x].active
        BY <1>9, <4>1, CommitRow DEF IndexInv
      <4>3. CASE x[2] \in written.fresh
        <5>1. chosen'[x] = TRUE
          BY <2>1, <3>2, <4>3
        <5>2. existing[x[2]].active = TRUE
          BY <2>1, <4>3 DEF ChoiceInv, FreshActive
        <5> QED
          BY <4>2, <4>3, <5>1, <5>2, Zenon
      <4>4. CASE x[2] \notin written.fresh
        <5>1. sensors[x] \in SensorRow /\ sensors'[x].active = sensors[x].active
          BY <2>2, <4>2, <4>4 DEF Exists, Absent
        <5> QED
          BY <2>1, <4>4, <5>1 DEF ChoiceInv, ChoiceKept, Exists, SensorRow
      <4> QED
        BY <4>3, <4>4
    <3> QED
      BY <3>1, <3>2
  <2> QED
    BY <2>1, <2>2 DEF ChoiceInv, ChoiceKept, FreshActive
<1>10. ASSUME NEW e \in patching, UpdateSensor(e)
       PROVE  ChoiceInv'
  <2>1. /\ chosen' = [chosen EXCEPT ![e.sensor] =
                        IF e.active # e.from.active THEN e.active ELSE chosen[e.sensor]]
        /\ chosen \in [SensorIds -> BOOLEAN]
        /\ UNCHANGED <<pc, existing, written>>
    BY <1>10, TypeParts DEF UpdateSensor, locals, HistoryOK
  <2>2. /\ e.sensor \in SensorIds /\ sensors[e.sensor] \in SensorRow
        /\ sensors'[e.sensor].active = IF e.active # e.from.active THEN e.active
                                       ELSE sensors[e.sensor].active
        /\ \A y \in SensorIds : y # e.sensor => sensors'[y] = sensors[y]
    BY <1>10, PatchRow DEF IndexInv
  <2>3. sensors[e.sensor].active = chosen[e.sensor]
    BY <2>2 DEF ChoiceInv, ChoiceKept, Exists, SensorRow
  <2>4. ASSUME NEW y \in SensorIds, Exists(y)'
        PROVE  sensors'[y].active = chosen'[y]
    BY <2>1, <2>2, <2>3, <2>4 DEF ChoiceInv, ChoiceKept, Exists
  <2> QED
    BY <2>1, <2>4 DEF ChoiceInv, ChoiceKept, FreshActive
<1>12. ASSUME NEW x \in SensorIds, NEW active \in BOOLEAN, NEW kind \in PatchKinds,
              GetOwnedSensor(x, active, kind)
       PROVE  ChoiceInv'
  BY <1>2, <1>12 DEF GetOwnedSensor, tables, locals, flags
<1>11. CASE UNCHANGED vars
  BY <1>2, <1>11 DEF vars, tables, locals, flags
<1> QED
  BY <1>3, <1>4, <1>5, <1>6, <1>7, <1>8, <1>9, <1>10, <1>11, <1>12 DEF Next

\* The COMMIT writes the columns the loop changed, never is_active: a user's
\* choice outlives a transaction that read the row before it.
THEOREM ChoiceCorrect == Spec => []ChoiceKept
<1>1. ASSUME Init PROVE ChoiceInv
  <2>1. \A x \in SensorIds : ~ Exists(x)
    BY <1>1 DEF Init, Exists, Absent
  <2> QED
    BY <1>1, <2>1 DEF Init, ChoiceInv, ChoiceKept, FreshActive
<1>2. TypeOK /\ IndexInv /\ ChoiceInv /\ [Next]_vars => ChoiceInv'
  BY ChoiceStep
<1>3. ChoiceInv => ChoiceKept
  BY DEF ChoiceInv
<1> QED
  BY <1>1, <1>2, <1>3, TypeAndIndex, PTL DEF Spec

\* The gateways the cycle is still to poll are those it is due and has not done,
\* up to a death or an exception nothing catches, which abandons them.
CycleInv == ~ cycle.cut => cycle.due = IF pc = "sleep" THEN cycle.done
                                       ELSE cycle.done \cup queue

LEMMA CycleStep ==
  ASSUME TypeOK, CycleInv, [Next]_vars
  PROVE  CycleInv'
<1>1. cycle \in [due: SUBSET Gateways, done: SUBSET Gateways, cut: BOOLEAN]
      /\ pc \in {"sleep", "next", "load", "samples", "publish"}
  BY TypeParts DEF HistoryOK, PollOK
<1>2. ASSUME UNCHANGED <<cycle, queue>>, pc = "sleep" <=> pc' = "sleep"
      PROVE  CycleInv'
  BY <1>2 DEF CycleInv
<1>3. CASE StartCycle
  BY <1>3 DEF StartCycle, CycleInv
<1>4. CASE EndCycle
  BY <1>4 DEF EndCycle, CycleInv
<1>5. ASSUME NEW g \in Gateways, NEW x \in Exchanges, FetchFails(g, x) \/ Fetch(g, x)
      PROVE  CycleInv'
  <2>1. Attempt(g) /\ pc' \in {"next", "load"}
    BY <1>5 DEF FetchFails, Fetch, Attempt
  <2>2. cycle'.cut = cycle.cut /\ cycle'.due = cycle.due /\ cycle'.done = cycle.done \cup {g}
    BY <1>1, <2>1 DEF Attempt
  <2> QED
    BY <1>1, <2>1, <2>2 DEF Attempt, CycleInv
<1>6. CASE LoadSensors \/ Sample \/ Commit \/ PersistFails
  <2>1. UNCHANGED <<cycle, queue>> /\ pc # "sleep" /\ pc' # "sleep"
    BY <1>6, Zenon DEF LoadSensors, Sample, Commit, PersistFails
  <2> QED
    BY <1>2, <2>1
<1>7. CASE Publish \/ Evaluate \/ EndPoll
  BY <1>2, <1>7 DEF Publish, Evaluate, EndPoll
<1>8. CASE StartFails \/ ConnectionFails \/ HandOverRaises \/ Crash
  <2>1. cycle'.cut = TRUE
    BY <1>1, <1>8 DEF StartFails, ConnectionFails, HandOverRaises, Crash
  <2> QED
    BY <2>1 DEF CycleInv
<1>9. ASSUME NEW g \in Gateways, CreateGateway(g)
      PROVE  CycleInv'
  BY <1>2, <1>9 DEF CreateGateway
<1>10. ASSUME NEW x \in SensorIds, NEW active \in BOOLEAN, NEW kind \in PatchKinds,
              GetOwnedSensor(x, active, kind)
       PROVE  CycleInv'
  BY <1>2, <1>10 DEF GetOwnedSensor
<1>11. ASSUME NEW e \in patching, UpdateSensor(e)
       PROVE  CycleInv'
  BY <1>2, <1>11 DEF UpdateSensor
<1>12. CASE UNCHANGED vars
  BY <1>2, <1>12 DEF vars
<1> QED
  BY <1>3, <1>4, <1>5, <1>6, <1>7, <1>8, <1>9, <1>10, <1>11, <1>12 DEF Next

\* A cycle that ended otherwise than by a death or an uncaught exception (of the
\* connection to the database, of a hand-over, of the first SELECT) has tried every
\* gateway it was due, whichever fetches failed and transactions raised a
\* SQLAlchemyError.
THEOREM FailuresContainedCorrect == Spec => []FailuresContained
<1>1. Init => CycleInv
  BY DEF Init, CycleInv
<1>2. TypeOK /\ CycleInv /\ [Next]_vars => CycleInv'
  BY CycleStep
<1>3. CycleInv => FailuresContained
  BY DEF CycleInv, FailuresContained
<1> QED
  BY <1>1, <1>2, <1>3, TypeCorrect, PTL DEF Spec

\* Neither a sample under way nor a row of the open transaction holds the
\* sentinel.
MeasuredSample(e) == e.sample.value # NoValue => e.sample.value # Sentinel
SentinelInv ==
  /\ \A i \in 1..Len(batch) : MeasuredSample(batch[i])
  /\ \A d \in Elements(written.rows) : d.value # Sentinel
  /\ SentinelNeverStored

LEMMA FetchedMeasured ==
  ASSUME NEW x \in Exchanges
  PROVE  \A i \in 1..Len(ParseValues(x.entries)) : MeasuredSample(ParseValues(x.entries)[i])
<1> DEFINE P == {e \in Entered : MeasuredSample(e)}
<1>1. x.entries \in Seq(Entries)
  BY FetchedBatch
<1>2. \A i \in 1..Len(x.entries) : x.entries[i] \in Entries
  BY <1>1, ElementOfSeq
<1>3. \A i \in 1..Len(x.entries) : Named(x.entries[i]) => ParseEntry(x.entries[i]) \in P
  BY <1>2, ParseEntryTyped DEF MeasuredSample
<1> HIDE DEF P
<1>4. ParseValues(x.entries) \in Seq(P)
  BY <1>1, <1>3, ParseValuesTyped
<1>5. \A i \in 1..Len(ParseValues(x.entries)) : ParseValues(x.entries)[i] \in P
  BY <1>4, ElementOfSeq
<1> QED
  BY <1>5 DEF P

LEMMA SentinelStep ==
  ASSUME TypeOK, IndexInv, SentinelInv, [Next]_vars
  PROVE  SentinelInv'
<1>1. TablesOK /\ PollOK /\ batch \in Seq(Entered)
  BY TypeParts DEF PollOK
<1>2. ASSUME UNCHANGED readings,
             batch' = <<>> \/ batch' = batch, written' = NoWrites \/ written' = written
      PROVE  SentinelInv'
  <2>1. Elements(NoWrites.rows) = {} /\ Len(<<>>) = 0
    BY EmptySeq DEF NoWrites, Elements
  <2> QED
    BY <1>2, <2>1 DEF SentinelInv, SentinelNeverStored
<1>3. ASSUME NEW g \in Gateways, NEW x \in Exchanges, FetchFails(g, x)
      PROVE  SentinelInv'
  BY <1>2, <1>3 DEF FetchFails, tables, locals
<1>4. ASSUME NEW g \in Gateways, NEW x \in Exchanges, Fetch(g, x)
      PROVE  SentinelInv'
  <2>1. batch' = ParseValues(x.entries) /\ UNCHANGED <<readings, written>>
    BY <1>4 DEF Fetch, tables
  <2> QED
    BY <2>1, FetchedMeasured DEF SentinelInv, SentinelNeverStored
<1>5. CASE \/ StartCycle \/ StartFails \/ EndCycle \/ LoadSensors
           \/ PersistFails \/ ConnectionFails \/ Crash
  BY <1>2, <1>5 DEF StartCycle, StartFails, EndCycle, LoadSensors, PersistFails,
     ConnectionFails, Crash, NoPoll, tables, locals
<1>6. CASE Publish \/ Evaluate \/ EndPoll \/ HandOverRaises
  BY <1>2, <1>6 DEF Publish, Evaluate, EndPoll, HandOverRaises, tables, locals
<1>7. ASSUME NEW g \in Gateways, CreateGateway(g)
      PROVE  SentinelInv'
  BY <1>2, <1>7 DEF CreateGateway, locals
<1>8. ASSUME NEW e \in patching, UpdateSensor(e)
      PROVE  SentinelInv'
  BY <1>2, <1>8 DEF UpdateSensor, locals
<1>12. ASSUME NEW x \in SensorIds, NEW active \in BOOLEAN, NEW kind \in PatchKinds,
              GetOwnedSensor(x, active, kind)
       PROVE  SentinelInv'
  BY <1>2, <1>12 DEF GetOwnedSensor, tables, locals
<1>9. CASE UNCHANGED vars
  BY <1>2, <1>9 DEF vars, tables, locals
<1>10. CASE Sample
  <2>1. PICK r \in Refs, s \in Samples, row \in SensorRow,
             new \in BOOLEAN, recorded \in BOOLEAN, value \in Int :
               /\ SampleDoes(r, s, row, new, recorded, value)
               /\ Turned(r, s, row, new, recorded) /\ Wrote(r, row, new, recorded, value)
    BY <1>10, SampleTurn
  <2>2. /\ batch # <<>> /\ Head(batch) = [ref |-> r, sample |-> s]
        /\ batch' = Tail(batch) /\ readings' = readings
        /\ recorded => Present(row.kind, s) /\ value = ReadingValue(row.kind, s)
    BY <2>1 DEF SampleDoes, tables
  <2>3. /\ 1 \in 1..Len(batch) /\ batch[1] = Head(batch)
        /\ \A i \in 1..Len(Tail(batch)) : i + 1 \in 1..Len(batch) /\ Tail(batch)[i] = batch[i + 1]
    BY <1>1, <2>2, HeadTailProperties
  <2>4. \A i \in 1..Len(batch') : MeasuredSample(batch'[i])
    BY <2>2, <2>3 DEF SentinelInv
  <2>5. s.value # NoValue => s.value # Sentinel
    BY <2>2, <2>3 DEF SentinelInv, MeasuredSample
  <2>6. recorded => value # Sentinel
    BY <2>2, <2>5, ConstantsAssumption DEF Present, ReadingValue
  <2>7. \A d \in Elements(written'.rows) : d.value # Sentinel
    <3> DEFINE reading == [id |-> [sensor |-> <<gateway, r>>, at |-> now], value |-> value]
    <3>1. reading \in Row /\ written.rows \in Seq(Row) /\ reading.value = value
      BY <1>1, <2>1 DEF Wrote, PollOK
    <3>2. /\ recorded => written'.rows = Append(written.rows, reading)
          /\ ~ recorded => written'.rows = written.rows
      BY <2>1 DEF Wrote
    <3> HIDE DEF reading
    <3>3. Elements(Append(written.rows, reading)) = Elements(written.rows) \cup {reading}
      BY <3>1, ElementsAppend
    <3> QED
      BY <2>6, <3>1, <3>2, <3>3 DEF SentinelInv
  <2> QED
    BY <2>2, <2>4, <2>7 DEF SentinelInv, SentinelNeverStored
<1>11. CASE Commit
  <2>1. readings' = readings \cup Elements(written.rows)
        /\ batch' = <<>> /\ written' = NoWrites
    BY <1>11 DEF Commit, Elements, NoPoll
  <2>2. Elements(NoWrites.rows) = {} /\ Len(<<>>) = 0
    BY EmptySeq DEF NoWrites, Elements
  <2> QED
    BY <2>1, <2>2 DEF SentinelInv, SentinelNeverStored
<1> QED
  BY <1>3, <1>4, <1>5, <1>6, <1>7, <1>8, <1>9, <1>10, <1>11, <1>12 DEF Next

\* The -999.9 the parser takes out of a sample is in no reading, whatever kinds
\* the device and the user give the sensor in between.
THEOREM SentinelCorrect == Spec => []SentinelNeverStored
<1>1. Init => SentinelInv
  <2>1. Elements(NoWrites.rows) = {} /\ Len(<<>>) = 0
    BY EmptySeq DEF NoWrites, Elements
  <2> QED
    BY <2>1 DEF Init, SentinelInv, SentinelNeverStored
<1>2. TypeOK /\ IndexInv /\ SentinelInv /\ [Next]_vars => SentinelInv'
  BY SentinelStep
<1>3. SentinelInv => SentinelNeverStored
  BY DEF SentinelInv
<1> QED
  BY <1>1, <1>2, <1>3, TypeAndIndex, PTL DEF Spec

----------------------------------------------------------------------------
(* The readings handed over.                                               *)

Precedes(p, q) == p.at < q.at \/ (p.at = q.at /\ p.sensor # q.sensor)

LEMMA InOrderIs ==
  ASSUME NEW s
  PROVE  InOrder(s) <=> \A i, j \in DOMAIN s : i < j => Precedes(s[i], s[j])
BY DEF InOrder, Precedes

LEMMA InOrderAppend ==
  ASSUME NEW S, NEW s \in Seq(S), NEW e \in S, InOrder(s),
         \A d \in Elements(s) : Precedes(d, e)
  PROVE  InOrder(Append(s, e))
<1>1. /\ Append(s, e)[Len(s) + 1] = e
      /\ \A i \in 1..Len(s) : Append(s, e)[i] = s[i]
      /\ DOMAIN Append(s, e) = 1..(Len(s) + 1) /\ DOMAIN s = 1..Len(s) /\ Len(s) \in Nat
  <2>1. Len(Append(s, e)) = Len(s) + 1 /\ Append(s, e) \in Seq(S)
    BY AppendProperties
  <2> QED
    BY <2>1, AppendProperties, LenProperties
<1> DEFINE t == Append(s, e)
<1> HIDE DEF t
<1>2. ASSUME NEW i \in DOMAIN t, NEW j \in DOMAIN t, i < j
      PROVE  Precedes(t[i], t[j])
  <2>1. i \in DOMAIN s /\ t[i] = s[i]
    BY <1>1, <1>2 DEF t
  <2>2. CASE j = Len(s) + 1
    BY <1>1, <2>1, <2>2 DEF t, Elements
  <2>3. CASE j # Len(s) + 1
    <3>1. j \in DOMAIN s /\ t[j] = s[j]
      BY <1>1, <2>3 DEF t
    <3> QED
      BY <1>2, <2>1, <3>1, InOrderIs
  <2> QED
    BY <2>2, <2>3
<1> QED
  BY <1>2, InOrderIs DEF t

LEMMA InOrderTail ==
  ASSUME NEW S, NEW s \in Seq(S), s # <<>>, InOrder(s)
  PROVE  /\ Head(s) \in S /\ Tail(s) \in Seq(S)
         /\ InOrder(Tail(s)) /\ \A d \in Elements(Tail(s)) : Precedes(Head(s), d)
         /\ Elements(s) = {Head(s)} \cup Elements(Tail(s))
<1>1. /\ Head(s) \in S /\ Tail(s) \in Seq(S) /\ Head(s) = s[1]
      /\ Len(s) \in Nat \ {0} /\ Len(Tail(s)) = Len(s) - 1
      /\ \A i \in 1..Len(Tail(s)) : Tail(s)[i] = s[i + 1]
  BY HeadTailProperties, LenProperties, EmptySeq
<1>2. DOMAIN s = 1..Len(s) /\ DOMAIN Tail(s) = 1..(Len(s) - 1)
  BY <1>1, LenProperties
<1>3. \A i \in DOMAIN Tail(s) : i + 1 \in DOMAIN s /\ 1 \in DOMAIN s /\ 1 < i + 1
  BY <1>1, <1>2
<1>4. InOrder(Tail(s))
  <2>1. ASSUME NEW i \in DOMAIN Tail(s), NEW j \in DOMAIN Tail(s), i < j
        PROVE  Precedes(Tail(s)[i], Tail(s)[j])
    <3>1. /\ i + 1 \in DOMAIN s /\ j + 1 \in DOMAIN s /\ i + 1 < j + 1
          /\ Tail(s)[i] = s[i + 1] /\ Tail(s)[j] = s[j + 1]
      BY <1>1, <1>2, <1>3, <2>1
    <3> QED
      BY <3>1, InOrderIs
  <2> QED
    BY <2>1, InOrderIs
<1>5. \A d \in Elements(Tail(s)) : Precedes(Head(s), d)
  BY <1>1, <1>2, <1>3, InOrderIs DEF Elements
<1>6. \A i \in DOMAIN s : i = 1 \/ (i - 1 \in DOMAIN Tail(s) /\ (i - 1) + 1 = i)
  BY <1>1, <1>2
<1>7. Elements(s) = {Head(s)} \cup Elements(Tail(s))
  <2>1. ASSUME NEW v \in Elements(s) PROVE v \in {Head(s)} \cup Elements(Tail(s))
    <3>1. PICK i \in DOMAIN s : v = s[i]
      BY DEF Elements
    <3>2. CASE i = 1
      BY <1>1, <3>1, <3>2
    <3>3. CASE i # 1
      <4>1. i - 1 \in DOMAIN Tail(s) /\ Tail(s)[i - 1] = s[i]
        BY <1>1, <1>2, <1>6, <3>3
      <4> QED
        BY <3>1, <4>1 DEF Elements
    <3> QED
      BY <3>2, <3>3
  <2>2. ASSUME NEW v \in {Head(s)} \cup Elements(Tail(s)) PROVE v \in Elements(s)
    <3>1. CASE v = Head(s)
      BY <1>1, <1>2, <3>1 DEF Elements
    <3>2. CASE v \in Elements(Tail(s))
      <4>1. PICK i \in DOMAIN Tail(s) : v = Tail(s)[i]
        BY <3>2 DEF Elements
      <4>2. v = s[i + 1] /\ i + 1 \in DOMAIN s
        BY <1>1, <1>2, <1>3, <4>1
      <4> QED
        BY <4>2 DEF Elements
    <3> QED
      BY <2>2, <3>1, <3>2
  <2> QED
    BY <2>1, <2>2
<1> QED
  BY <1>1, <1>4, <1>5, <1>7

\* What is left to publish and to evaluate comes after what was, and is stored.
Lists ==
  /\ pc # "publish" => publishing = <<>> /\ evaluating = <<>>
  /\ Elements(published) \cup Elements(publishing) \subseteq Stored
  /\ Elements(evaluated) \subseteq Elements(published)
  /\ Elements(evaluating) \subseteq Elements(published) \cup Elements(publishing)
Ordered ==
  /\ InOrder(published) /\ InOrder(publishing)
  /\ InOrder(evaluated) /\ InOrder(evaluating)
  /\ \A p \in Elements(published), q \in Elements(publishing) : Precedes(p, q)
  /\ \A p \in Elements(evaluated), q \in Elements(evaluating) : Precedes(p, q)
\* The readings still to evaluate are of the last poll, the one in its hand-over.
Evaluated ==
  /\ \A id \in Stored :
       id.at \in interrupted \/ id \in Elements(evaluated) \cup Elements(evaluating)
  /\ \A id \in Elements(evaluating) : id.at = polls
HandedInv == Lists /\ Ordered /\ Evaluated

LEMMA NothingIn ==
  /\ Elements(<<>>) = {} /\ InOrder(<<>>)
  /\ \A rows : Ids(rows) = [i \in DOMAIN rows |-> rows[i].id]
BY DEF Elements, InOrder, Ids

LEMMA HandedAside ==
  ASSUME HandedInv, UNCHANGED <<readings, outgoing, handed, interrupted>>,
         pc' = pc \/ (pc' # "publish" /\ (pc # "publish" \/ outgoing = <<<<>>, <<>>>>)),
         polls' = polls \/ pc # "publish"
  PROVE  HandedInv'
<1>1. /\ UNCHANGED <<readings, publishing, evaluating, published, evaluated, interrupted>>
      /\ Stored' = Stored
  BY DEF outgoing, handed, Stored
<1>2. pc' # "publish" => publishing = <<>> /\ evaluating = <<>>
  BY DEF HandedInv, Lists, outgoing
<1>3. Lists'
  BY <1>1, <1>2 DEF HandedInv, Lists
<1>4. Ordered'
  BY <1>1 DEF HandedInv, Ordered
<1>5. polls' = polls \/ Elements(evaluating) = {}
  BY NothingIn DEF HandedInv, Lists
<1>6. Evaluated'
  BY <1>1, <1>5 DEF HandedInv, Evaluated
<1> QED
  BY <1>3, <1>4, <1>6 DEF HandedInv

\* What a step abandons in a hand-over is of the last poll, whose date it marks.
LEMMA HandedAbandoned ==
  ASSUME HandedInv, UNCHANGED <<readings, handed, polls>>,
         publishing' = <<>>, evaluating' = <<>>,
         interrupted \subseteq interrupted', pc = "publish" => polls \in interrupted'
  PROVE  HandedInv'
<1>1. UNCHANGED <<readings, published, evaluated>> /\ Stored' = Stored
  BY DEF handed, Stored
<1>2. Lists' /\ Ordered'
  BY <1>1, NothingIn DEF HandedInv, Lists, Ordered
<1>3. Elements(evaluating') = {} /\ (pc # "publish" => Elements(evaluating) = {})
  BY NothingIn DEF HandedInv, Lists
<1>4. ASSUME NEW id \in Stored
      PROVE  id.at \in interrupted' \/ id \in Elements(evaluated)
  BY <1>3 DEF HandedInv, Evaluated
<1>5. Evaluated'
  BY <1>1, <1>3, <1>4 DEF Evaluated
<1> QED
  BY <1>2, <1>5 DEF HandedInv

LEMMA HandedCommit ==
  ASSUME TypeOK, SeenInv, HandedInv, Commit
  PROVE  HandedInv'
<1>1. TablesOK /\ PollOK /\ HandedOK
  BY TypeParts
<1>2. /\ pc = "samples" /\ pc' = "publish" /\ ~ Collision
      /\ readings' = readings \cup Elements(written.rows)
      /\ publishing' = Ids(written.rows) /\ evaluating' = Ids(written.rows)
      /\ UNCHANGED <<published, evaluated, interrupted, polls>>
  BY DEF Commit, Elements, handed, bounds
<1>3. publishing = <<>> /\ evaluating = <<>>
  BY <1>2 DEF HandedInv, Lists
<1> DEFINE ids == Ids(written.rows)
<1>4. /\ ids \in Seq(ReadingId) /\ DOMAIN ids = DOMAIN written.rows
      /\ \A i \in DOMAIN written.rows : ids[i] = written.rows[i].id
      /\ DOMAIN ids = 1..Len(written.rows) /\ Len(written.rows) \in Nat
  <2>1. written.rows \in Seq(Row)
    BY <1>1 DEF PollOK
  <2> QED
    BY <2>1, IdsTyped, LenProperties
<1> HIDE DEF ids
<1>5. \A i \in DOMAIN ids : ids[i].at = now /\ ids[i] \in ReadingId
  BY <1>2, <1>4, ElementOfSeq DEF SeenInv, RowsOfPoll, Elements
<1>6. Elements(ids) = {d.id : d \in Elements(written.rows)}
  BY <1>4 DEF Elements
<1>7. InOrder(ids)
  <2>1. ASSUME NEW i \in DOMAIN ids, NEW j \in DOMAIN ids, i < j
        PROVE  Precedes(ids[i], ids[j])
    <3>1. ids[i] # ids[j]
      BY <1>2, <1>4, <2>1 DEF Collision
    <3>2. ids[i].sensor # ids[j].sensor
      BY <1>5, <3>1 DEF ReadingId
    <3> QED
      BY <1>5, <3>2 DEF Precedes
  <2> QED
    BY <2>1, InOrderIs
<1>8. Stored' = Stored \cup Elements(ids)
  BY <1>2, <1>6 DEF Stored
<1>9. \A d \in Stored : d.at < now
  BY <1>2 DEF SeenInv, ReadBefore, Stored
<1>10. /\ Elements(published) \subseteq Stored /\ Elements(evaluated) \subseteq Stored
       /\ \A q \in Elements(ids) : q.at = now
  BY <1>5 DEF HandedInv, Lists, Elements
<1>11. Ordered'
  <2>1. \A p \in Stored, q \in Elements(ids) : Precedes(p, q)
    BY <1>9, <1>10 DEF Precedes
  <2> QED
    BY <1>2, <1>7, <1>10, <2>1 DEF HandedInv, Ordered, ids
<1>12. Lists'
  BY <1>2, <1>8 DEF HandedInv, Lists, ids
<1>13. Evaluated'
  <2>1. now = polls
    BY <1>2 DEF SeenInv, ReadBefore
  <2>2. Elements(evaluating) = {}
    BY <1>3, NothingIn
  <2> QED
    BY <1>2, <1>8, <1>10, <2>1, <2>2 DEF HandedInv, Evaluated, ids
<1> QED
  BY <1>11, <1>12, <1>13 DEF HandedInv

LEMMA HandedPublish ==
  ASSUME TypeOK, HandedInv, Publish
  PROVE  HandedInv'
<1>1. HandedOK
  BY TypeParts
<1>2. /\ pc = "publish" /\ publishing # <<>>
      /\ published' = Append(published, Head(publishing)) /\ publishing' = Tail(publishing)
      /\ UNCHANGED <<readings, pc, evaluating, evaluated, interrupted, polls>>
  BY DEF Publish, tables, flags, bounds
<1>3. /\ Head(publishing) \in ReadingId
      /\ InOrder(Tail(publishing))
      /\ \A d \in Elements(Tail(publishing)) : Precedes(Head(publishing), d)
      /\ Elements(publishing) = {Head(publishing)} \cup Elements(Tail(publishing))
  BY <1>1, <1>2, InOrderTail DEF HandedOK, HandedInv, Ordered
<1>4. /\ InOrder(Append(published, Head(publishing)))
      /\ Elements(Append(published, Head(publishing)))
           = Elements(published) \cup {Head(publishing)}
  <2>1. \A d \in Elements(published) : Precedes(d, Head(publishing))
    BY <1>3 DEF HandedInv, Ordered
  <2>2. published \in Seq(ReadingId) /\ InOrder(published)
    BY <1>1 DEF HandedOK, HandedInv, Ordered
  <2> QED
    BY <1>3, <2>1, <2>2, InOrderAppend, ElementsAppend
<1>5. Stored' = Stored
  BY <1>2 DEF Stored
<1>6. Lists'
  BY <1>2, <1>3, <1>4, <1>5 DEF HandedInv, Lists
<1>7. Ordered' /\ Evaluated'
  BY <1>2, <1>3, <1>4, <1>5 DEF HandedInv, Ordered, Evaluated
<1> QED
  BY <1>6, <1>7 DEF HandedInv

LEMMA HandedEvaluate ==
  ASSUME TypeOK, HandedInv, Evaluate
  PROVE  HandedInv'
<1>1. HandedOK
  BY TypeParts
<1>2. /\ pc = "publish" /\ publishing = <<>> /\ evaluating # <<>>
      /\ evaluated' = Append(evaluated, Head(evaluating)) /\ evaluating' = Tail(evaluating)
      /\ UNCHANGED <<readings, pc, publishing, published, interrupted, polls>>
  BY DEF Evaluate, tables, flags, bounds
<1>3. /\ Head(evaluating) \in ReadingId
      /\ InOrder(Tail(evaluating))
      /\ \A d \in Elements(Tail(evaluating)) : Precedes(Head(evaluating), d)
      /\ Elements(evaluating) = {Head(evaluating)} \cup Elements(Tail(evaluating))
  BY <1>1, <1>2, InOrderTail DEF HandedOK, HandedInv, Ordered
<1>4. /\ InOrder(Append(evaluated, Head(evaluating)))
      /\ Elements(Append(evaluated, Head(evaluating)))
           = Elements(evaluated) \cup {Head(evaluating)}
  <2>1. \A d \in Elements(evaluated) : Precedes(d, Head(evaluating))
    BY <1>3 DEF HandedInv, Ordered
  <2>2. evaluated \in Seq(ReadingId) /\ InOrder(evaluated)
    BY <1>1 DEF HandedOK, HandedInv, Ordered
  <2> QED
    BY <1>3, <2>1, <2>2, InOrderAppend, ElementsAppend
<1>5. Stored' = Stored
  BY <1>2 DEF Stored
<1>6. Lists'
  BY <1>2, <1>3, <1>4, <1>5, NothingIn DEF HandedInv, Lists
<1>7. Ordered' /\ Evaluated'
  BY <1>2, <1>3, <1>4, <1>5 DEF HandedInv, Ordered, Evaluated
<1> QED
  BY <1>6, <1>7 DEF HandedInv

LEMMA HandedStep ==
  ASSUME TypeOK, SeenInv, HandedInv, [Next]_vars
  PROVE  HandedInv'
<1>1. ASSUME NEW g \in Gateways, NEW x \in Exchanges, FetchFails(g, x) \/ Fetch(g, x)
      PROVE  HandedInv'
  <2>1. /\ UNCHANGED <<readings, outgoing, handed, interrupted>>
        /\ pc # "publish" /\ pc' # "publish"
    BY <1>1 DEF FetchFails, Fetch, Attempt, tables, flags
  <2> QED
    BY <2>1, HandedAside
<1>2. CASE StartCycle \/ StartFails \/ EndCycle \/ LoadSensors
  <2>1. /\ UNCHANGED <<readings, outgoing, handed, interrupted>>
        /\ pc # "publish" /\ pc' # "publish"
    BY <1>2 DEF StartCycle, StartFails, EndCycle, LoadSensors, tables, flags
  <2> QED
    BY <2>1, HandedAside
<1>3. CASE PersistFails \/ ConnectionFails
  <2>1. /\ UNCHANGED <<readings, outgoing, handed, interrupted>>
        /\ pc # "publish" /\ pc' # "publish"
    BY <1>3 DEF PersistFails, ConnectionFails, tables
  <2> QED
    BY <2>1, HandedAside
<1>4. CASE Sample
  <2>1. UNCHANGED <<readings, outgoing, handed, interrupted, polls, pc>>
    BY <1>4, Zenon DEF Sample, tables, bounds
  <2> QED
    BY <2>1, HandedAside
<1>5. CASE EndPoll
  <2>1. /\ UNCHANGED <<readings, outgoing, handed, interrupted, polls>>
        /\ pc' # "publish" /\ outgoing = <<<<>>, <<>>>>
    BY <1>5 DEF EndPoll, tables, flags, bounds, outgoing
  <2> QED
    BY <2>1, HandedAside
<1>6. CASE HandOverRaises
  <2>1. /\ UNCHANGED <<readings, handed, polls>>
        /\ publishing' = <<>> /\ evaluating' = <<>>
        /\ interrupted' = interrupted \cup {polls}
    BY <1>6 DEF HandOverRaises, tables
  <2> QED
    BY <2>1, HandedAbandoned
<1>7. CASE Crash
  <2>1. /\ UNCHANGED <<readings, handed, polls>>
        /\ publishing' = <<>> /\ evaluating' = <<>>
        /\ interrupted' = interrupted \cup {d \in {polls} : pc = "publish"}
    BY <1>7 DEF Crash, tables
  <2> QED
    BY <2>1, HandedAbandoned
<1>8. ASSUME NEW g \in Gateways, CreateGateway(g)
      PROVE  HandedInv'
  <2>1. UNCHANGED <<readings, outgoing, handed, interrupted, polls, pc>>
    BY <1>8 DEF CreateGateway, flags, bounds
  <2> QED
    BY <2>1, HandedAside
<1>9. ASSUME NEW x \in SensorIds, NEW active \in BOOLEAN, NEW kind \in PatchKinds,
             GetOwnedSensor(x, active, kind)
      PROVE  HandedInv'
  <2>1. UNCHANGED <<readings, outgoing, handed, interrupted, polls, pc>>
    BY <1>9 DEF GetOwnedSensor, tables, flags
  <2> QED
    BY <2>1, HandedAside
<1>10. ASSUME NEW e \in patching, UpdateSensor(e)
       PROVE  HandedInv'
  <2>1. UNCHANGED <<readings, outgoing, handed, interrupted, polls, pc>>
    BY <1>10 DEF UpdateSensor
  <2> QED
    BY <2>1, HandedAside
<1>11. CASE UNCHANGED vars
  <2>1. UNCHANGED <<readings, outgoing, handed, interrupted, polls, pc>>
    BY <1>11 DEF vars, tables, flags, bounds
  <2> QED
    BY <2>1, HandedAside
<1> QED
  BY <1>1, <1>2, <1>3, <1>4, <1>5, <1>6, <1>7, <1>8, <1>9, <1>10, <1>11, HandedCommit,
     HandedPublish, HandedEvaluate DEF Next

LEMMA HandedAlways == Spec => []HandedInv
<1>1. Init => HandedInv
  BY NothingIn DEF Init, HandedInv, Lists, Ordered, Evaluated, Stored
<1>2. TypeOK /\ SeenInv /\ HandedInv /\ [Next]_vars => HandedInv'
  BY HandedStep
<1> QED
  BY <1>1, <1>2, TypeCorrect, SeenAlways, PTL DEF Spec

\* What is broadcast and evaluated is in the table, once and in the order of the
\* polls: two samples of one ref cannot be committed together, and a poll is
\* later than all the readings of the table.
THEOREM HandedOverCorrect == Spec => []HandedOverOnce
<1>1. HandedInv => HandedOverOnce
  BY DEF HandedInv, Lists, Ordered, HandedOverOnce, Elements
<1> QED
  BY <1>1, HandedAlways, PTL

\* A reading of the table is evaluated, or about to be in the hand-over under
\* way, unless a death or an exception cut off the hand-over of its own poll.
THEOREM EvaluatedCorrect == Spec => []EvaluatedUnlessInterrupted
<1>1. HandedInv => EvaluatedUnlessInterrupted
  BY NothingIn DEF HandedInv, Lists, Evaluated, EvaluatedUnlessInterrupted, Elements
<1> QED
  BY <1>1, HandedAlways, PTL

----------------------------------------------------------------------------
(* Detectors.                                                              *)

Alarms(p, q) == p.ref = q.ref /\ q.sample.state = "2"
DetectorLike(kind) == IsBinary(kind) \/ kind = "unknown"

\* A detector is stored as binary.  The open transaction gives no known sensor
\* an unknown kind, and the copy of a detector that is still to report an alarm
\* in this poll is binary too, though a PATCH may have changed the row.
DetectorsBinary == \A x \in detectors : Exists(x) /\ IsBinary(sensors[x].kind)
KindsKnown == pc = "samples" =>
  \A r \in written.kinds \ written.fresh : existing[r].kind # "unknown"
AlarmsOfDetectors == \A i, j \in 1..Len(batch) :
  Alarms(batch[i], batch[j]) => DetectorLike(batch[i].sample.kind)
CopiesOfDetectors ==
  pc = "samples" =>
    \A r \in Refs, j \in 1..Len(batch) :
      <<gateway, r>> \in detectors /\ batch[j].ref = r /\ batch[j].sample.state = "2" =>
        IsBinary(existing[r].kind)
AlarmReadings == \A a \in alarms :
  \/ a.at \in dropped
  \/ a.at = now /\ pc = "samples" /\ [id |-> a, value |-> 1] \in Elements(written.rows)
  \/ [id |-> a, value |-> 1] \in readings
\* The polls that lost their transaction are over, and none of their readings is
\* stored.
DroppedPolls ==
  /\ \A d \in dropped : d <= polls /\ (pc \in {"load", "samples"} => d < polls)
  /\ \A d \in readings : d.id.at \notin dropped
DetectorInv == /\ DetectorsBinary /\ KindsKnown /\ AlarmsOfDetectors
               /\ CopiesOfDetectors /\ AlarmReadings /\ DroppedPolls

LEMMA FetchedAlarms ==
  ASSUME AlarmsAreDetectors, NEW x \in Exchanges
  PROVE  \A i, j \in 1..Len(ParseValues(x.entries)) :
           Alarms(ParseValues(x.entries)[i], ParseValues(x.entries)[j]) =>
             DetectorLike(ParseValues(x.entries)[i].sample.kind)
<1> DEFINE d == x.entries
           P == {p \in Entered : \E k \in DOMAIN d :
                   /\ p.ref = d[k].id /\ p.sample.state = StatusState(d[k])
                   /\ p.sample.kind = InferKind(d[k].unit)}
<1>1. d \in Seq(Entries)
  BY FetchedBatch
<1>2. ASSUME NEW i \in 1..Len(d), Named(d[i]) PROVE ParseEntry(d[i]) \in P
  <2>1. d[i] \in Entries /\ i \in DOMAIN d
    BY <1>1, ElementOfSeq, LenProperties
  <2> DEFINE p == ParseEntry(d[i])
  <2>2. /\ p \in Entered /\ p.ref = d[i].id /\ p.sample.state = StatusState(d[i])
        /\ p.sample.kind = InferKind(d[i].unit)
    BY <1>2, <2>1, ParseEntryTyped
  <2> HIDE DEF p
  <2> QED
    BY <2>1, <2>2 DEF p
<1>3. \A i, j \in DOMAIN d :
        d[i].id = d[j].id /\ StatusState(d[j]) = "2" => DetectorLike(InferKind(d[i].unit))
  BY DEF AlarmsAreDetectors, DetectorLike
<1>4. \A p, q \in P : Alarms(p, q) => DetectorLike(p.sample.kind)
  BY <1>3 DEF Alarms
<1> HIDE DEF P, d
<1>5. ParseValues(d) \in Seq(P)
  BY <1>1, <1>2, ParseValuesTyped
<1>6. \A i \in 1..Len(ParseValues(d)) : ParseValues(d)[i] \in P
  BY <1>5, ElementOfSeq
<1> QED
  BY <1>4, <1>6 DEF d

LEMMA DetectorAside ==
  ASSUME DetectorInv, UNCHANGED <<sensors, readings, detectors, alarms, dropped, polls>>,
         \/ pc # "samples" /\ pc' \notin {"load", "samples"} /\ batch' = batch
         \/ UNCHANGED <<pc, batch, gateway, now, existing, written>>
  PROVE  DetectorInv'
<1>1. DetectorsBinary' /\ DroppedPolls'
  BY DEF DetectorInv, DetectorsBinary, DroppedPolls, Exists
<1>2. CASE pc # "samples" /\ pc' \notin {"load", "samples"} /\ batch' = batch
  <2>1. AlarmReadings'
    BY <1>2 DEF DetectorInv, AlarmReadings
  <2> QED
    BY <1>1, <1>2, <2>1 DEF DetectorInv, KindsKnown, AlarmsOfDetectors, CopiesOfDetectors
<1>3. CASE UNCHANGED <<pc, batch, gateway, now, existing, written>>
  BY <1>1, <1>3 DEF DetectorInv, KindsKnown, AlarmsOfDetectors, CopiesOfDetectors,
     AlarmReadings
<1> QED
  BY <1>2, <1>3

\* A transaction that does not commit takes its alarms along, and its date.
LEMMA DetectorLost ==
  ASSUME TypeOK, SeenInv, DetectorInv, UNCHANGED <<sensors, readings, detectors, alarms, polls>>,
         pc' \notin {"load", "samples"}, batch' = <<>>,
         dropped' = dropped \cup {d \in {polls} : pc \in {"load", "samples"}}
  PROVE  DetectorInv'
<1>1. polls \in Nat /\ (pc = "samples" => now = polls) /\ Len(batch') = 0
  BY TypeParts, EmptySeq DEF HistoryOK, SeenInv, ReadBefore
<1>2. DetectorsBinary' /\ KindsKnown' /\ AlarmsOfDetectors' /\ CopiesOfDetectors'
  BY <1>1 DEF DetectorInv, DetectorsBinary, KindsKnown, AlarmsOfDetectors,
     CopiesOfDetectors, Exists
<1>3. AlarmReadings'
  BY <1>1 DEF DetectorInv, AlarmReadings
<1>4. ASSUME NEW d \in readings, pc \in {"load", "samples"} PROVE d.id.at # polls
  <2>1. d.id.at < polls /\ d.id.at \in Nat
    BY <1>4, TypeParts DEF SeenInv, ReadBefore, TablesOK, Row, ReadingId
  <2> QED
    BY <1>1, <2>1
<1>5. DroppedPolls'
  <2>1. \A d \in dropped' : d <= polls
    BY <1>1 DEF DetectorInv, DroppedPolls
  <2>2. \A d \in readings : d.id.at \notin dropped'
    BY <1>4 DEF DetectorInv, DroppedPolls
  <2> QED
    BY <2>1, <2>2 DEF DroppedPolls
<1> QED
  BY <1>2, <1>3, <1>5 DEF DetectorInv

LEMMA DetectorSample ==
  ASSUME TypeOK, IndexInv, DetectorInv, Sample
  PROVE  DetectorInv'
<1>1. PollOK
  BY TypeParts
<1>2. PICK r \in Refs, s \in Samples, row \in SensorRow,
           new \in BOOLEAN, recorded \in BOOLEAN, value \in Int :
             /\ SampleDoes(r, s, row, new, recorded, value)
             /\ Turned(r, s, row, new, recorded) /\ Wrote(r, row, new, recorded, value)
  BY SampleTurn
<1>3. /\ pc = "samples" /\ batch # <<>> /\ Head(batch) = [ref |-> r, sample |-> s]
      /\ batch' = Tail(batch) /\ (new <=> existing[r] = Absent)
      /\ recorded <=> Present(row.kind, s) /\ row.active
      /\ recorded => value = ReadingValue(row.kind, s)
      /\ alarms' = alarms \cup
           {a \in {[sensor |-> <<gateway, r>>, at |-> now]} :
              <<gateway, r>> \in detectors /\ row.active /\ s.state = "2"}
      /\ UNCHANGED <<sensors, readings, pc, gateway, now, detectors, dropped, polls>>
  BY <1>2 DEF SampleDoes, tables, bounds
<1>4. /\ new => row.kind = s.kind
      /\ ~ new => /\ existing[r] \in SensorRow
                  /\ row.kind = NextKind(existing[r].kind, s)
                  /\ row # existing[r] => row.kind = s.kind /\ s.kind # "unknown"
      /\ existing'[r].kind = row.kind
      /\ \A q \in Refs : q # r => existing'[q] = existing[q]
  BY <1>2 DEF Turned
<1>5. /\ written'.fresh = written.fresh \cup {y \in {r} : new}
      /\ written'.kinds = written.kinds \cup {y \in {r} : ~ new /\ row # existing[r]}
      /\ written.kinds \subseteq Refs
  BY <1>1, <1>2 DEF Wrote, PollOK
<1>6. /\ 1 \in 1..Len(batch) /\ batch[1].ref = r /\ batch[1].sample = s
      /\ \A i \in 1..Len(batch') : i + 1 \in 1..Len(batch) /\ batch'[i] = batch[i + 1]
  <2>1. 1 \in 1..Len(batch) /\ batch[1] = Head(batch)
        /\ \A i \in 1..Len(Tail(batch)) : i + 1 \in 1..Len(batch) /\ Tail(batch)[i] = batch[i + 1]
    BY <1>1, <1>3, HeadTailProperties DEF PollOK
  <2> QED
    BY <1>3, <2>1
<1>7. AlarmsOfDetectors'
  BY <1>6 DEF DetectorInv, AlarmsOfDetectors
<1>8. DetectorsBinary'
  BY <1>3 DEF DetectorInv, DetectorsBinary, Exists
<1>9. KindsKnown'
  <2>1. ASSUME NEW q \in written'.kinds \ written'.fresh PROVE existing'[q].kind # "unknown"
    <3>1. CASE q # r
      BY <1>3, <1>4, <1>5, <2>1, <3>1 DEF DetectorInv, KindsKnown
    <3>2. CASE q = r
      <4>1. ~ new /\ r \notin written.fresh
        BY <1>5, <2>1, <3>2
      <4>2. CASE row # existing[r]
        BY <1>4, <3>2, <4>1, <4>2
      <4>3. CASE row = existing[r]
        BY <1>3, <1>4, <1>5, <2>1, <3>2, <4>1, <4>3 DEF DetectorInv, KindsKnown
      <4> QED
        BY <4>2, <4>3
    <3> QED
      BY <3>1, <3>2
  <2> QED
    BY <2>1 DEF KindsKnown
<1>10. ASSUME NEW j \in 1..Len(batch), <<gateway, r>> \in detectors,
              batch[j].ref = r, batch[j].sample.state = "2"
       PROVE  IsBinary(row.kind)
  <2>1. DetectorLike(s.kind)
    BY <1>6, <1>10 DEF DetectorInv, AlarmsOfDetectors, Alarms
  <2>2. ~ new
    <3>1. Exists(<<gateway, r>>)
      BY <1>10 DEF DetectorInv, DetectorsBinary
    <3> QED
      BY <1>3, <3>1 DEF IndexInv, Copies, Exists, Absent
  <2>3. IsBinary(existing[r].kind)
    BY <1>3, <1>10 DEF DetectorInv, CopiesOfDetectors
  <2> QED
    BY <1>4, <2>1, <2>2, <2>3 DEF DetectorLike, NextKind
<1>11. CopiesOfDetectors'
  <2> SUFFICES ASSUME NEW q \in Refs, NEW j \in 1..Len(batch'),
                      <<gateway, q>> \in detectors, batch'[j].ref = q,
                      batch'[j].sample.state = "2"
               PROVE  IsBinary(existing'[q].kind)
    BY <1>3 DEF CopiesOfDetectors
  <2>1. /\ j + 1 \in 1..Len(batch) /\ batch[j + 1].ref = q
        /\ batch[j + 1].sample.state = "2"
    BY <1>6
  <2>2. CASE q = r
    BY <1>4, <1>10, <2>1, <2>2
  <2>3. CASE q # r
    BY <1>3, <1>4, <2>1, <2>3 DEF DetectorInv, CopiesOfDetectors
  <2> QED
    BY <2>2, <2>3
<1> DEFINE id == [sensor |-> <<gateway, r>>, at |-> now]
           reading == [id |-> id, value |-> value]
<1>12. /\ recorded => Elements(written'.rows) = Elements(written.rows) \cup {reading}
       /\ ~ recorded => Elements(written'.rows) = Elements(written.rows)
  <2>1. /\ reading \in Row /\ written.rows \in Seq(Row)
        /\ recorded => written'.rows = Append(written.rows, reading)
        /\ ~ recorded => written'.rows = written.rows
    BY <1>1, <1>2 DEF Wrote, PollOK
  <2> HIDE DEF reading
  <2>2. Elements(Append(written.rows, reading)) = Elements(written.rows) \cup {reading}
    BY <2>1, ElementsAppend
  <2> QED
    BY <2>1, <2>2
<1>13. ASSUME <<gateway, r>> \in detectors, row.active, s.state = "2"
       PROVE  reading = [id |-> id, value |-> 1] /\ reading \in Elements(written'.rows)
  <2>1. IsBinary(row.kind)
    BY <1>6, <1>10, <1>13
  <2>2. recorded /\ value = 1
    BY <1>3, <1>13, <2>1 DEF Present, ReadingValue, Detected
  <2> QED
    BY <1>12, <2>2
<1> HIDE DEF reading
<1>14. id.at = now /\ Elements(written.rows) \subseteq Elements(written'.rows)
  BY <1>12
<1> HIDE DEF id
<1>15. ASSUME NEW a \in alarms'
       PROVE  \/ a.at \in dropped
              \/ a.at = now /\ [id |-> a, value |-> 1] \in Elements(written'.rows)
              \/ [id |-> a, value |-> 1] \in readings
  <2>1. CASE a \in alarms
    BY <1>14, <2>1 DEF DetectorInv, AlarmReadings
  <2>2. CASE a \notin alarms
    <3>1. a = id /\ <<gateway, r>> \in detectors /\ row.active /\ s.state = "2"
      BY <1>3, <1>15, <2>2 DEF id
    <3> QED
      BY <1>13, <1>14, <3>1
  <2> QED
    BY <2>1, <2>2
<1>16. AlarmReadings' /\ DroppedPolls'
  BY <1>3, <1>15 DEF DetectorInv, AlarmReadings, DroppedPolls
<1> QED
  BY <1>7, <1>8, <1>9, <1>11, <1>16 DEF DetectorInv

LEMMA DetectorCommit ==
  ASSUME TypeOK, IndexInv, SeenInv, DetectorInv, Commit
  PROVE  DetectorInv'
<1>1. /\ pc = "samples" /\ pc' = "publish" /\ batch' = <<>>
      /\ readings' = readings \cup Elements(written.rows)
      /\ UNCHANGED <<alarms, dropped, polls>>
      /\ detectors' = {x \in SensorIds : sensors'[x].state = "present"
                          /\ \/ x[1] = gateway /\ IsBinary(sensors'[x].kind)
                             \/ x \in detectors /\ (x[1] # gateway
                                    \/ sensors'[x].kind = "unknown")}
  BY DEF Commit, NoPoll, Elements, bounds
<1>2. Len(batch') = 0
  BY <1>1, EmptySeq
<1>3. KindsKnown' /\ AlarmsOfDetectors' /\ CopiesOfDetectors' /\ AlarmReadings'
  BY <1>1, <1>2 DEF DetectorInv, KindsKnown, AlarmsOfDetectors, CopiesOfDetectors,
     AlarmReadings
<1>4. ASSUME NEW x \in detectors' PROVE Exists(x)' /\ IsBinary(sensors'[x].kind)
  <2>1. x \in SensorIds /\ Exists(x)'
    BY <1>1 DEF Exists
  <2>2. CASE x[1] # gateway
    BY <1>1, <1>4, <2>1, <2>2, CommitElsewhere DEF DetectorInv, DetectorsBinary
  <2>3. CASE x[1] = gateway /\ ~ IsBinary(sensors'[x].kind)
    <3>1. x \in detectors /\ sensors'[x].kind = "unknown"
      BY <1>1, <1>4, <2>3
    <3>2. Exists(x) /\ IsBinary(sensors[x].kind)
      BY <3>1 DEF DetectorInv, DetectorsBinary
    <3>3. x[2] \in Refs /\ x = <<gateway, x[2]>>
      BY <2>1, <2>3 DEF SensorIds
    <3>4. /\ x[2] \notin written.fresh
          /\ x[2] \in written.kinds => sensors'[x].kind = existing[x[2]].kind
          /\ x[2] \notin written.kinds => sensors'[x].kind = sensors[x].kind
      <4>1. sensors[x] # Absent
        BY <3>2 DEF Exists, Absent
      <4> QED
        BY <3>3, <4>1, CommitRow DEF IndexInv
    <3>5. x[2] \in written.kinds => existing[x[2]].kind # "unknown"
      BY <1>1, <3>4 DEF DetectorInv, KindsKnown
    <3> QED
      BY <2>3, <3>1, <3>2, <3>4, <3>5
  <2> QED
    BY <2>1, <2>2, <2>3
<1>5. DetectorsBinary'
  BY <1>4 DEF DetectorsBinary
<1>6. DroppedPolls'
  <2>1. now = polls /\ \A d \in Elements(written.rows) : d.id.at = now
    BY <1>1 DEF SeenInv, ReadBefore, RowsOfPoll
  <2>2. polls \notin dropped
    <3>1. polls \in Nat /\ ~ (polls < polls)
      BY TypeParts DEF HistoryOK
    <3> QED
      BY <1>1, <3>1 DEF DetectorInv, DroppedPolls
  <2> QED
    BY <1>1, <2>1, <2>2 DEF DetectorInv, DroppedPolls
<1> QED
  BY <1>3, <1>5, <1>6 DEF DetectorInv

LEMMA DetectorPatch ==
  ASSUME TypeOK, IndexInv, DetectorInv, NEW e \in patching, UpdateSensor(e)
  PROVE  DetectorInv'
<1>1. /\ detectors' = detectors \
           {y \in {e.sensor} : e.kind # e.from.kind /\ ~ IsBinary(e.kind)}
      /\ UNCHANGED <<readings, alarms, dropped, polls, pc, batch, gateway, now, existing,
                     written>>
  BY DEF UpdateSensor, locals
<1>2. /\ sensors[e.sensor] \in SensorRow /\ sensors'[e.sensor] \in SensorRow
      /\ sensors'[e.sensor].kind = IF e.kind # e.from.kind THEN e.kind
                                   ELSE sensors[e.sensor].kind
      /\ \A y \in SensorIds : y # e.sensor => sensors'[y] = sensors[y]
  BY PatchRow DEF IndexInv
<1>3. detectors \subseteq SensorIds
  BY TypeParts DEF HistoryOK
<1>4. DetectorsBinary'
  <2>1. ASSUME NEW x \in detectors' PROVE Exists(x)' /\ IsBinary(sensors'[x].kind)
    <3>1. x \in SensorIds /\ Exists(x) /\ IsBinary(sensors[x].kind)
      BY <1>1, <1>3 DEF DetectorInv, DetectorsBinary
    <3>2. CASE x # e.sensor
      BY <1>2, <3>1, <3>2 DEF Exists
    <3>3. CASE x = e.sensor
      <4>1. e.kind = e.from.kind \/ IsBinary(e.kind)
        BY <1>1, <2>1, <3>3
      <4>2. IsBinary(sensors'[x].kind)
        BY <1>2, <3>1, <3>3, <4>1
      <4> QED
        BY <1>2, <3>3, <4>2 DEF Exists, SensorRow
    <3> QED
      BY <3>2, <3>3
  <2> QED
    BY <2>1 DEF DetectorsBinary
<1>5. /\ KindsKnown' /\ AlarmsOfDetectors' /\ CopiesOfDetectors'
      /\ AlarmReadings' /\ DroppedPolls'
  BY <1>1 DEF DetectorInv, KindsKnown, AlarmsOfDetectors, CopiesOfDetectors,
     AlarmReadings, DroppedPolls
<1> QED
  BY <1>4, <1>5 DEF DetectorInv

LEMMA DetectorStep ==
  ASSUME AlarmsAreDetectors, TypeOK, IndexInv, SeenInv, DetectorInv, [Next]_vars
  PROVE  DetectorInv'
<1>1. ASSUME NEW g \in Gateways, NEW x \in Exchanges, FetchFails(g, x)
      PROVE  DetectorInv'
  <2>1. /\ UNCHANGED <<sensors, readings, detectors, alarms, dropped, polls, batch>>
        /\ pc = "next" /\ pc' = "next"
    BY <1>1 DEF FetchFails, Attempt, tables, locals, flags, bounds
  <2> QED
    BY <2>1, DetectorAside
<1>2. ASSUME NEW g \in Gateways, NEW x \in Exchanges, Fetch(g, x)
      PROVE  DetectorInv'
  <2>1. /\ UNCHANGED <<sensors, readings, detectors, alarms, dropped>> /\ pc = "next"
        /\ pc' = "load" /\ batch' = ParseValues(x.entries) /\ polls' = polls + 1
    BY <1>2 DEF Fetch, Attempt, tables, flags
  <2>2. AlarmsOfDetectors'
    BY <2>1, FetchedAlarms DEF AlarmsOfDetectors
  <2>3. DetectorsBinary' /\ AlarmReadings' /\ KindsKnown' /\ CopiesOfDetectors'
    BY <2>1 DEF DetectorInv, DetectorsBinary, AlarmReadings, Exists, KindsKnown,
       CopiesOfDetectors
  <2>4. DroppedPolls'
    <3>1. polls \in Nat /\ dropped \subseteq Nat
      BY TypeParts DEF HistoryOK
    <3>2. \A d \in dropped : d <= polls
      BY DEF DetectorInv, DroppedPolls
    <3>3. \A d \in dropped : d <= polls + 1 /\ d < polls + 1
      BY <3>1, <3>2
    <3> QED
      BY <2>1, <3>3 DEF DetectorInv, DroppedPolls
  <2> QED
    BY <2>2, <2>3, <2>4 DEF DetectorInv
<1>3. CASE LoadSensors
  <2>1. /\ UNCHANGED <<sensors, readings, detectors, alarms, dropped, polls, batch, gateway,
                       written>>
        /\ pc = "load" /\ pc' = "samples"
        /\ \A r \in Refs : existing'[r] = sensors[<<gateway, r>>]
    BY <1>3 DEF LoadSensors, tables, flags, bounds
  <2>2. written'.kinds = {}
    BY <2>1 DEF IndexInv, Idle, NoWrites
  <2>3. /\ DetectorsBinary' /\ AlarmReadings' /\ DroppedPolls' /\ KindsKnown'
        /\ AlarmsOfDetectors'
    BY <2>1, <2>2 DEF DetectorInv, DetectorsBinary, AlarmReadings, DroppedPolls, Exists,
       KindsKnown, AlarmsOfDetectors
  <2>4. CopiesOfDetectors'
    BY <2>1 DEF DetectorInv, DetectorsBinary, CopiesOfDetectors
  <2> QED
    BY <2>3, <2>4 DEF DetectorInv
<1>4. CASE StartCycle \/ StartFails \/ EndCycle
  <2>1. /\ UNCHANGED <<sensors, readings, detectors, alarms, dropped, polls, batch>>
        /\ pc # "samples" /\ pc' \notin {"load", "samples"}
    BY <1>4 DEF StartCycle, StartFails, EndCycle, tables, locals, flags, bounds
  <2> QED
    BY <2>1, DetectorAside
<1>5. CASE PersistFails \/ ConnectionFails
  <2>1. /\ UNCHANGED <<sensors, readings, detectors, alarms, polls>> /\ batch' = <<>>
        /\ pc' \notin {"load", "samples"} /\ pc \in {"load", "samples"}
        /\ dropped' = dropped \cup {now}
    BY <1>5 DEF PersistFails, ConnectionFails, NoPoll, tables, bounds
  <2>2. now = polls
    BY <2>1 DEF SeenInv, ReadBefore
  <2>3. dropped' = dropped \cup {d \in {polls} : pc \in {"load", "samples"}}
    BY <2>1, <2>2
  <2> QED
    BY <2>1, <2>3, DetectorLost
<1>6. CASE Crash
  <2>1. /\ UNCHANGED <<sensors, readings, detectors, alarms, polls>> /\ batch' = <<>>
        /\ pc' \notin {"load", "samples"}
        /\ dropped' = dropped \cup {d \in {polls} : pc \in {"load", "samples"}}
    BY <1>6 DEF Crash, NoPoll, tables
  <2> QED
    BY <2>1, DetectorLost
<1>7. CASE Publish \/ Evaluate \/ EndPoll \/ HandOverRaises
  <2>1. /\ UNCHANGED <<sensors, readings, detectors, alarms, dropped, polls, batch>>
        /\ pc # "samples" /\ pc' \notin {"load", "samples"}
    BY <1>7 DEF Publish, Evaluate, EndPoll, HandOverRaises, tables, locals, flags, bounds
  <2> QED
    BY <2>1, DetectorAside
<1>8. ASSUME NEW g \in Gateways, CreateGateway(g)
      PROVE  DetectorInv'
  <2>1. UNCHANGED <<sensors, readings, detectors, alarms, dropped, polls, pc, batch,
                    gateway, now, existing, written>>
    BY <1>8 DEF CreateGateway, locals, flags, bounds
  <2> QED
    BY <2>1, DetectorAside
<1>9. ASSUME NEW x \in SensorIds, NEW active \in BOOLEAN, NEW kind \in PatchKinds,
             GetOwnedSensor(x, active, kind)
      PROVE  DetectorInv'
  <2>1. UNCHANGED <<sensors, readings, detectors, alarms, dropped, polls, pc, batch,
                    gateway, now, existing, written>>
    BY <1>9 DEF GetOwnedSensor, tables, locals, flags
  <2> QED
    BY <2>1, DetectorAside
<1>10. CASE UNCHANGED vars
  <2>1. UNCHANGED <<sensors, readings, detectors, alarms, dropped, polls, pc, batch,
                    gateway, now, existing, written>>
    BY <1>10 DEF vars, tables, locals, flags, bounds
  <2> QED
    BY <2>1, DetectorAside
<1> QED
  BY <1>1, <1>2, <1>3, <1>4, <1>5, <1>6, <1>7, <1>8, <1>9, <1>10, DetectorSample,
     DetectorCommit, DetectorPatch DEF Next

\* An alarm of an active detector becomes a stored reading of 1, or its whole poll
\* is lost with its transaction, if only detectors and sensors without a unit
\* report alarms: an unknown kind never replaces a binary one, neither in the copy
\* nor at the COMMIT.
THEOREM DetectorCorrect ==
  ASSUME AlarmsAreDetectors
  PROVE  Spec => []DetectorNeverMasked
<1>1. Init => DetectorInv
  BY EmptySeq DEF Init, DetectorInv, DetectorsBinary, KindsKnown, AlarmsOfDetectors,
     CopiesOfDetectors, AlarmReadings, DroppedPolls
<1>2. TypeOK /\ IndexInv /\ SeenInv /\ DetectorInv /\ [Next]_vars => DetectorInv'
  BY DetectorStep
<1>3. DetectorInv => DetectorNeverMasked
  BY DEF DetectorInv, AlarmReadings, DroppedPolls, DetectorNeverMasked
<1> QED
  BY <1>1, <1>2, <1>3, TypeAndIndex, SeenAlways, PTL DEF Spec
=============================================================================

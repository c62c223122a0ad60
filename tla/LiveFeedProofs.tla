--------------------------- MODULE LiveFeedProofs ---------------------------
(***************************************************************************)
(* Proofs about LiveFeed, for any sensors, sockets, readings and tokens:   *)
(* the types, that a tab reads one socket at a time, that what it shows of *)
(* the feed never goes back, and that what it lacks is on its way or lost. *)
(*                                                                         *)
(* NeverBackwards rests on the order of everything that is on its way to   *)
(* the page.  InOrder says that, for each sensor, what the page shows of   *)
(* the feed, the frames of the socket it reads and the outbox follow one   *)
(* another.  Frames of other sockets may be older: nothing reads them.     *)
(*                                                                         *)
(* BehindByLossOnly needs that order too: once the feed has shown the last *)
(* reading of a sensor, no older frame can put it back.                    *)
(***************************************************************************)
EXTENDS LiveFeed, TLAPS

\* The parts of TypeOK.
Clients == {"connecting", "open", "leaving", "gone"}
Servers == {"token", "account", "accepted", "relay", "ended"}
Socket == [client: Clients, server: Servers, token: 0..MaxTokens, wire: Seq(Readings)]
Shows == [number: 0..MaxReadings, from: {"nothing", "summary", "socket"}]

SocketsOK == sockets \in [SocketIds -> Socket]
OneReader == /\ current \in SocketIds \cup {NoSocket}
             /\ \A k \in SocketIds : Readable(k) => k = current
FeedOK == /\ latest \in [Sensors -> 0..MaxReadings] /\ outbox \in Seq(Readings)
          /\ missed \subseteq Readings
PageOK == /\ live \in [Sensors -> Shows] /\ connected \in BOOLEAN
          /\ mounted \in BOOLEAN /\ visible \in BOOLEAN
SessionOK == /\ account \in {"ACTIVE", "SUSPENDED"} /\ token \in 0..MaxTokens
             /\ valid \in BOOLEAN /\ drops \in Nat

LEMMA TypeParts ==
  TypeOK <=> SocketsOK /\ OneReader /\ FeedOK /\ PageOK /\ SessionOK
BY DEF TypeOK, SocketsOK, OneReader, FeedOK, PageOK, SessionOK, Socket, Shows,
       Clients, Servers

LEMMA TypePartsNext ==
  SocketsOK' /\ OneReader' /\ FeedOK' /\ PageOK' /\ SessionOK' => TypeOK'
BY TypeParts, PTL

\* A reading and one that follows it, if they are of one sensor.
Precedes(x, y) == x[1] = y[1] => x[2] < y[2]
Ascends(seq) == \A i, j \in DOMAIN seq : i < j => Precedes(seq[i], seq[j])

\* The page shows an earlier reading of the feed, or nothing of the feed.
Awaits(x) == live[x[1]].from = "socket" => Shown(x[1]) < x[2]

\* A page that is not mounted reads no socket and shows nothing.
Blank == ~ mounted => current = NoSocket /\ \A s \in Sensors : live[s].from # "socket"

InOrder ==
  /\ Ascends(outbox)
  /\ \A x \in InSeq(outbox) : x[2] <= latest[x[1]] /\ Awaits(x)
  /\ \A s \in Sensors : live[s].from = "socket" => Shown(s) <= latest[s]
  /\ \A k \in SocketIds : Readable(k) =>
       /\ Ascends(sockets[k].wire)
       /\ \A x \in InSeq(sockets[k].wire) :
            /\ x[2] <= latest[x[1]] /\ Awaits(x)
            /\ \A y \in InSeq(outbox) : Precedes(x, y)

----------------------------------------------------------------------------
(* Sequences of readings.                                                  *)

LEMMA ReadingParts ==
  ASSUME NEW x \in Readings
  PROVE  x[1] \in Sensors /\ x[2] \in 1..MaxReadings /\ x[2] \in Nat
BY ConstantsAssumption DEF Readings

LEMMA InSeqTyped ==
  ASSUME NEW seq \in Seq(Readings)
  PROVE  InSeq(seq) \subseteq Readings
BY DEF InSeq

LEMMA AppendSeq ==
  ASSUME NEW seq \in Seq(Readings), NEW x \in Readings
  PROVE  /\ Append(seq, x) \in Seq(Readings)
         /\ InSeq(Append(seq, x)) = InSeq(seq) \cup {x}
         /\ Ascends(seq) /\ (\A y \in InSeq(seq) : Precedes(y, x)) => Ascends(Append(seq, x))
<1> DEFINE new == Append(seq, x)
           n == Len(seq)
<1>1. /\ new \in Seq(Readings) /\ n \in Nat
      /\ DOMAIN seq = 1..n /\ DOMAIN new = 1..(n + 1)
      /\ \A i \in 1..n : new[i] = seq[i]
      /\ new[n + 1] = x
  OBVIOUS
<1> HIDE DEF new, n
<1>2. InSeq(new) = InSeq(seq) \cup {x}
  BY <1>1 DEF InSeq
<1>3. ASSUME Ascends(seq), \A y \in InSeq(seq) : Precedes(y, x)
      PROVE  Ascends(new)
  <2> SUFFICES ASSUME NEW i \in DOMAIN new, NEW j \in DOMAIN new, i < j
               PROVE  Precedes(new[i], new[j])
    BY DEF Ascends
  <2>1. i \in 1..n /\ new[i] = seq[i] /\ seq[i] \in InSeq(seq)
    BY <1>1 DEF InSeq
  <2>2. CASE j = n + 1
    BY <1>1, <1>3, <2>1, <2>2
  <2>3. CASE j # n + 1
    <3>1. j \in 1..n
      BY <1>1, <2>3
    <3> QED
      BY <1>1, <1>3, <2>1, <3>1 DEF Ascends
  <2> QED
    BY <2>2, <2>3
<1> QED
  BY <1>1, <1>2, <1>3 DEF new

LEMMA TailSeq ==
  ASSUME NEW seq \in Seq(Readings), seq # <<>>
  PROVE  /\ Head(seq) \in InSeq(seq) /\ Tail(seq) \in Seq(Readings)
         /\ InSeq(Tail(seq)) \subseteq InSeq(seq)
         /\ Ascends(seq) => /\ Ascends(Tail(seq))
                            /\ \A y \in InSeq(Tail(seq)) : Precedes(Head(seq), y)
<1> DEFINE rest == Tail(seq)
           n == Len(seq)
<1>1. /\ rest \in Seq(Readings) /\ n \in Nat /\ n >= 1 /\ Head(seq) = seq[1]
      /\ DOMAIN seq = 1..n /\ DOMAIN rest = 1..(n - 1)
      /\ \A i \in 1..(n - 1) : rest[i] = seq[i + 1]
  OBVIOUS
<1> HIDE DEF rest, n
<1>2. Head(seq) \in InSeq(seq) /\ InSeq(rest) \subseteq InSeq(seq)
  BY <1>1 DEF InSeq
<1>3. ASSUME Ascends(seq)
      PROVE  Ascends(rest) /\ \A y \in InSeq(rest) : Precedes(Head(seq), y)
  <2>1. Ascends(rest)
    <3> SUFFICES ASSUME NEW i \in DOMAIN rest, NEW j \in DOMAIN rest, i < j
                 PROVE  Precedes(rest[i], rest[j])
      BY DEF Ascends
    <3>1. i + 1 \in DOMAIN seq /\ j + 1 \in DOMAIN seq /\ i + 1 < j + 1
          /\ rest[i] = seq[i + 1] /\ rest[j] = seq[j + 1]
      BY <1>1
    <3> QED
      BY <1>3, <3>1 DEF Ascends
  <2>2. ASSUME NEW i \in DOMAIN rest PROVE Precedes(Head(seq), rest[i])
    <3>1. 1 \in DOMAIN seq /\ i + 1 \in DOMAIN seq /\ 1 < i + 1 /\ rest[i] = seq[i + 1]
      BY <1>1
    <3> QED
      BY <1>1, <1>3, <3>1 DEF Ascends
  <2> QED
    BY <2>1, <2>2 DEF InSeq
<1> QED
  BY <1>1, <1>2, <1>3 DEF rest

LEMMA HeadOrTail ==
  ASSUME NEW seq \in Seq(Readings), seq # <<>>
  PROVE  InSeq(seq) \subseteq {Head(seq)} \cup InSeq(Tail(seq))
<1> DEFINE rest == Tail(seq)
           n == Len(seq)
<1>1. /\ n \in Nat /\ n >= 1 /\ Head(seq) = seq[1]
      /\ DOMAIN seq = 1..n /\ DOMAIN rest = 1..(n - 1)
      /\ \A i \in 1..(n - 1) : rest[i] = seq[i + 1]
  OBVIOUS
<1> HIDE DEF rest, n
<1>2. ASSUME NEW i \in 1..n, i # 1
      PROVE  seq[i] \in InSeq(rest)
  <2>1. i - 1 \in 1..(n - 1) /\ rest[i - 1] = seq[i]
    BY <1>1, <1>2
  <2> QED
    BY <1>1, <2>1 DEF InSeq
<1> QED
  BY <1>1, <1>2 DEF InSeq, rest

LEMMA EmptySeq == <<>> \in Seq(Readings) /\ InSeq(<<>>) = {} /\ Ascends(<<>>)
BY DEF InSeq, Ascends

----------------------------------------------------------------------------
(* Sockets.                                                                *)

\* The set of sockets keeps its type, and what the page reads of each is what
\* it was, or nothing yet.
Calm(k) == Readable(k)' =>
  \/ sockets'[k].wire = <<>>
  \/ Readable(k) /\ sockets'[k].wire = sockets[k].wire

LEMMA UnusedTyped == Unused \in Socket /\ Unused.client = "gone" /\ Unused.wire = <<>>
BY ConstantsAssumption, EmptySeq DEF Unused, Socket, Clients, Servers

LEMMA FreshTyped ==
  ASSUME NEW t \in 0..MaxTokens
  PROVE  Fresh(t) \in Socket /\ Fresh(t).wire = <<>>
BY EmptySeq DEF Fresh, Socket, Clients, Servers

\* SetSocket changes one socket, and forgets those nobody uses.
LEMMA SetSocketTyped ==
  ASSUME SocketsOK, NEW k \in SocketIds, NEW record \in Socket, SetSocket(k, record)
  PROVE  /\ SocketsOK'
         /\ sockets'[k] \in {record, Unused}
         /\ \A j \in SocketIds \ {k} : sockets'[j] \in {sockets[j], Unused}
BY UnusedTyped DEF SocketsOK, SetSocket, Settled

\* The fields a step changes.
LEMMA FieldsTyped ==
  ASSUME NEW r \in Socket
  PROVE  /\ \A x \in Servers : /\ [r EXCEPT !.server = x] \in Socket
                               /\ [r EXCEPT !.server = x].client = r.client
                               /\ [r EXCEPT !.server = x].wire = r.wire
         /\ \A x \in Clients : /\ [r EXCEPT !.client = x] \in Socket
                               /\ [r EXCEPT !.client = x].client = x
                               /\ [r EXCEPT !.client = x].wire = r.wire
         /\ \A w \in Seq(Readings) : /\ [r EXCEPT !.wire = w] \in Socket
                                     /\ [r EXCEPT !.wire = w].client = r.client
                                     /\ [r EXCEPT !.wire = w].wire = w
BY DEF Socket

LEMMA SocketStep ==
  ASSUME SocketsOK, NEW k \in SocketIds, NEW record \in Socket, SetSocket(k, record),
         record.client \in {"connecting", "open"} => Readable(k)
  PROVE  /\ SocketsOK'
         /\ \A j \in SocketIds : Readable(j)' =>
              Readable(j) /\ sockets'[j] = IF j = k THEN record ELSE sockets[j]
<1>1. /\ SocketsOK' /\ sockets'[k] \in {record, Unused}
      /\ \A j \in SocketIds \ {k} : sockets'[j] \in {sockets[j], Unused}
  BY SetSocketTyped
<1>2. ASSUME NEW j \in SocketIds, Readable(j)'
      PROVE  Readable(j) /\ sockets'[j] = IF j = k THEN record ELSE sockets[j]
  <2>1. sockets'[j] # Unused
    BY <1>2, UnusedTyped DEF Readable
  <2> QED
    BY <1>1, <1>2, <2>1 DEF Readable
<1> QED
  BY <1>1, <1>2

----------------------------------------------------------------------------
(* The steps, by what they do to the order of the readings.                *)

\* What the page shows of the feed stays, or the page is left.
PageKept ==
  \/ \A s \in Sensors : \/ live'[s] = live[s]
                        \/ live[s].from # "socket" /\ live'[s].from # "socket"
  \/ ~ mounted' /\ \A s \in Sensors : live'[s].from # "socket"

Quiet ==
  /\ UNCHANGED <<latest, outbox>> /\ PageKept
  /\ \A k \in SocketIds : Calm(k)

\* A step that sets one socket k, without a new reader.
LEMMA OneSocket ==
  ASSUME TypeOK, NEW k \in SocketIds, NEW record \in Socket, SetSocket(k, record),
         record.client \in {"connecting", "open"} => Readable(k),
         record.wire \in {sockets[k].wire, <<>>},
         UNCHANGED <<latest, outbox, live>>,
         \/ current' = current
         \/ current = k /\ current' = NoSocket /\ ~ Readable(k)'
  PROVE  SocketsOK' /\ OneReader' /\ Quiet
<1>1. SocketsOK /\ OneReader
  BY TypeParts
<1>2. /\ SocketsOK'
      /\ \A j \in SocketIds : Readable(j)' =>
           Readable(j) /\ sockets'[j] = IF j = k THEN record ELSE sockets[j]
  BY <1>1, SocketStep
<1>3. OneReader'
  BY <1>1, <1>2 DEF OneReader
<1>4. \A j \in SocketIds : Calm(j)
  BY <1>2 DEF Calm
<1>5. PageKept
  BY DEF PageKept
<1> QED
  BY <1>2, <1>3, <1>4, <1>5 DEF Quiet

LEMMA HandlerStep ==
  ASSUME TypeOK, NEW k \in SocketIds, Handler(k)
  PROVE  TypeOK' /\ Quiet
<1>1. SocketsOK /\ sockets[k] \in Socket /\ OneReader /\ FeedOK /\ PageOK /\ SessionOK
  BY TypeParts DEF SocketsOK
<1>2. UNCHANGED <<latest, outbox, account, token, valid, current, connected, live, mounted, visible,
                  missed, drops>>
  BY DEF Handler, CheckToken, CheckAccount, Subscribe, NoticeGone, backend, session, page, tab
<1>3. ASSUME NEW x \in Servers, SetSocket(k, [sockets[k] EXCEPT !.server = x])
      PROVE  SocketsOK' /\ OneReader' /\ Quiet
  <2> DEFINE record == [sockets[k] EXCEPT !.server = x]
  <2>1. record \in Socket /\ record.client = sockets[k].client /\ record.wire = sockets[k].wire
    BY <1>1, FieldsTyped
  <2>2. SetSocket(k, record)
    BY <1>3
  <2>3. record.client \in {"connecting", "open"} => Readable(k)
    BY <2>1 DEF Readable
  <2> HIDE DEF record
  <2> QED
    BY <1>2, <2>1, <2>2, <2>3, OneSocket
<1>4. CASE CheckToken(k) \/ CheckAccount(k) \/ Subscribe(k)
  <2>1. \E x \in {"ended", "account", "accepted", "relay"} :
          SetSocket(k, [sockets[k] EXCEPT !.server = x])
    BY <1>4 DEF CheckToken, CheckAccount, Subscribe
  <2>2. SocketsOK' /\ OneReader' /\ Quiet
    BY <1>3, <2>1 DEF Servers
  <2> QED
    BY <1>1, <1>2, <2>2, TypePartsNext DEF FeedOK, PageOK, SessionOK
<1>5. CASE NoticeGone(k)
  <2> DEFINE record == [sockets[k] EXCEPT !.server = "ended", !.wire = <<>>]
  <2>1. record \in Socket /\ record.client = sockets[k].client /\ record.wire = <<>>
    BY <1>1, EmptySeq DEF Socket, Servers
  <2>2. SetSocket(k, record)
    BY <1>5 DEF NoticeGone
  <2>3. record.client \in {"connecting", "open"} => Readable(k)
    BY <2>1 DEF Readable
  <2> HIDE DEF record
  <2>4. SocketsOK' /\ OneReader' /\ Quiet
    BY <1>2, <2>1, <2>2, <2>3, OneSocket
  <2> QED
    BY <1>1, <1>2, <2>4, TypePartsNext DEF FeedOK, PageOK, SessionOK
<1> QED
  BY <1>4, <1>5 DEF Handler

\* The callbacks of the browser that show nothing new.
LEMMA BrowserStep ==
  ASSUME TypeOK, NEW k \in SocketIds, Open(k) \/ Closed(k) \/ ClosedByUs(k) \/ Drop(k)
  PROVE  TypeOK' /\ Quiet
<1>1. SocketsOK /\ sockets[k] \in Socket /\ OneReader /\ FeedOK /\ PageOK /\ SessionOK
  BY TypeParts DEF SocketsOK
<1>2. /\ UNCHANGED <<latest, outbox, account, token, valid, live, mounted, visible>>
      /\ connected' \in BOOLEAN /\ drops' \in Nat
  <2>1. drops \in Nat
    BY <1>1 DEF SessionOK
  <2>2. CASE Open(k)
    BY <2>1, <2>2 DEF Open, backend, session, page
  <2>3. CASE Closed(k)
    BY <2>1, <2>3 DEF Closed, backend, session, page
  <2>4. CASE ClosedByUs(k)
    BY <2>1, <2>4 DEF ClosedByUs, backend, session, page
  <2>5. CASE Drop(k)
    <3>1. drops' = drops + 1 /\ connected' = FALSE
      BY <2>5 DEF Drop
    <3>2. drops' \in Nat
      BY <2>1, <3>1
    <3>3. UNCHANGED <<latest, outbox, account, token, valid, live, mounted, visible>>
      BY <2>5 DEF Drop, backend, session, page
    <3> QED
      BY <3>1, <3>2, <3>3
  <2> QED
    BY <2>2, <2>3, <2>4, <2>5
<1>3. missed' \subseteq Readings
  <2>1. InSeq(sockets[k].wire) \subseteq Readings
    BY <1>1, InSeqTyped DEF Socket
  <2> QED
    BY <1>1, <2>1 DEF Open, Closed, ClosedByUs, Drop, FeedOK
<1>4. SocketsOK' /\ OneReader' /\ Quiet
  <2>1. CASE Open(k)
    <3> DEFINE record == [sockets[k] EXCEPT !.client = "open"]
    <3>1. record \in Socket /\ record.wire = sockets[k].wire
      BY <1>1, FieldsTyped DEF Clients
    <3>2. SetSocket(k, record) /\ Readable(k) /\ current' = current
      BY <2>1 DEF Open, Readable
    <3> HIDE DEF record
    <3> QED
      BY <1>2, <3>1, <3>2, OneSocket
  <2>2. CASE Closed(k)
    <3>1. SetSocket(k, Unused) /\ current = k /\ current' = NoSocket
      BY <1>1, <2>2 DEF Closed, OneReader
    <3>2. ~ Readable(k)'
      BY <1>1, <3>1, UnusedTyped, SetSocketTyped DEF Readable
    <3> QED
      BY <1>2, <3>1, <3>2, UnusedTyped, OneSocket
  <2>3. CASE ClosedByUs(k)
    <3> DEFINE record == [sockets[k] EXCEPT !.client = "gone"]
    <3>1. record \in Socket /\ record.wire = sockets[k].wire /\ record.client = "gone"
      BY <1>1, FieldsTyped DEF Clients
    <3>2. SetSocket(k, record) /\ current' = current
      BY <2>3 DEF ClosedByUs
    <3> HIDE DEF record
    <3> QED
      BY <1>2, <3>1, <3>2, OneSocket
  <2>4. CASE Drop(k)
    <3> DEFINE record == [sockets[k] EXCEPT !.client = "gone", !.wire = <<>>]
    <3>1. record \in Socket /\ record.wire = <<>> /\ record.client = "gone"
      BY <1>1, EmptySeq DEF Socket, Clients
    <3>2. SetSocket(k, record) /\ current = k /\ current' = NoSocket
      BY <1>1, <2>4 DEF Drop, OneReader
    <3> HIDE DEF record
    <3>3. ~ Readable(k)'
      BY <1>1, <3>1, <3>2, UnusedTyped, SetSocketTyped DEF Readable
    <3> QED
      BY <1>2, <3>1, <3>2, <3>3, OneSocket
  <2> QED
    BY <2>1, <2>2, <2>3, <2>4
<1> QED
  BY <1>1, <1>2, <1>3, <1>4, TypePartsNext DEF FeedOK, PageOK, SessionOK

LEMMA EntryTyped ==
  ASSUME NEW n \in 0..MaxReadings, NEW from \in {"summary", "socket"}
  PROVE  /\ Entry(n, from) \in Shows /\ Entry(n, from).number = n
         /\ n # 0 => Entry(n, from).from = from
         /\ Entry(n, from).from \in {"nothing", from}
BY DEF Entry, NoEntry, Shows

LEMMA NoEntryTyped == NoEntry \in Shows /\ NoEntry.from = "nothing" /\ NoEntry.number = 0
BY ConstantsAssumption DEF NoEntry, Shows

\* A new socket, when no other is read or the one that was is left.
LEMMA RetryStep ==
  ASSUME TypeOK, NEW k \in SocketIds, Retry(k)
  PROVE  TypeOK' /\ Quiet
<1>1. SocketsOK /\ OneReader /\ FeedOK /\ PageOK /\ SessionOK
  BY TypeParts
<1>2. /\ UNCHANGED <<latest, outbox, account, token, valid, connected, live, mounted, visible, missed, drops>>
      /\ current = NoSocket /\ current' = k /\ SetSocket(k, Fresh(token))
  BY DEF Retry, backend, session, page
<1>3. Fresh(token) \in Socket /\ Fresh(token).wire = <<>>
  BY <1>1, FreshTyped DEF SessionOK
<1>4. /\ SocketsOK' /\ sockets'[k] \in {Fresh(token), Unused}
      /\ \A j \in SocketIds \ {k} : sockets'[j] \in {sockets[j], Unused}
  BY <1>1, <1>2, <1>3, SetSocketTyped
<1>5. \A j \in SocketIds : Readable(j)' => j = k /\ sockets'[j].wire = <<>>
  <2>1. \A j \in SocketIds : ~ Readable(j)
    BY <1>1, <1>2, ConstantsAssumption DEF OneReader
  <2> QED
    BY <1>3, <1>4, <2>1, UnusedTyped DEF Readable
<1>6. OneReader'
  BY <1>2, <1>5 DEF OneReader
<1>7. \A j \in SocketIds : Calm(j)
  BY <1>5 DEF Calm
<1>8. Quiet
  BY <1>2, <1>7 DEF Quiet, PageKept
<1> QED
  BY <1>1, <1>2, <1>4, <1>6, <1>8, TypePartsNext DEF FeedOK, PageOK, SessionOK

\* The cleanup of the effect leaves no reader.
LEMMA LeftTyped ==
  ASSUME TypeOK
  PROVE  /\ Left(current) \in [SocketIds -> Socket] /\ LostByLeaving \subseteq Readings
         /\ \A j \in SocketIds : Left(current)[j].client \notin {"connecting", "open"}
<1>1. SocketsOK /\ OneReader
  BY TypeParts
<1>2. CASE current = NoSocket
  BY <1>1, <1>2, ConstantsAssumption DEF Left, LostByLeaving, SocketsOK, OneReader, Readable
<1>3. CASE current \in SocketIds /\ current # NoSocket
  <2> DEFINE gone == [sockets[current] EXCEPT !.client = "leaving", !.wire = <<>>]
  <2>1. sockets[current] \in Socket
    BY <1>1, <1>3 DEF SocketsOK
  <2>2. gone \in Socket /\ gone.client = "leaving"
    BY <2>1, EmptySeq DEF Socket, Clients
  <2>3. Left(current) = [sockets EXCEPT ![current] = gone]
    <3>1. Left(current) = [[sockets EXCEPT ![current].client = "leaving"] EXCEPT ![current].wire = <<>>]
      BY <1>3 DEF Left
    <3>2. \A j \in SocketIds : Left(current)[j] = [sockets EXCEPT ![current] = gone][j]
      BY <1>1, <1>3, <3>1 DEF SocketsOK
    <3> QED
      BY <1>1, <1>3, <3>1, <3>2 DEF SocketsOK
  <2>4. LostByLeaving \subseteq Readings
    <3>1. sockets[current].wire \in Seq(Readings)
      BY <2>1 DEF Socket
    <3> QED
      BY <1>3, <3>1, InSeqTyped DEF LostByLeaving
  <2> HIDE DEF gone
  <2>5. Left(current) \in [SocketIds -> Socket]
    BY <1>1, <2>2, <2>3 DEF SocketsOK
  <2>6. \A j \in SocketIds : Left(current)[j].client \notin {"connecting", "open"}
    BY <1>1, <1>3, <2>2, <2>3 DEF SocketsOK, OneReader, Readable
  <2> QED
    BY <2>4, <2>5, <2>6
<1> QED
  BY <1>1, <1>2, <1>3 DEF OneReader

LEMMA RotateStep ==
  ASSUME TypeOK, NEW k \in SocketIds, Rotate(k)
  PROVE  TypeOK' /\ Quiet
<1>1. SocketsOK /\ OneReader /\ FeedOK /\ PageOK /\ SessionOK
  BY TypeParts
<1>2. /\ UNCHANGED <<latest, outbox, account, connected, live, mounted, visible, drops>>
      /\ current' = k /\ valid' = TRUE /\ missed' = missed \cup LostByLeaving
      /\ sockets' = [Left(current) EXCEPT ![k] = Fresh(token + 1)]
  BY DEF Rotate, NewToken, backend, page
<1>3. token + 1 \in 0..MaxTokens /\ token' = token + 1
  BY <1>1, ConstantsAssumption DEF Rotate, NewToken, SessionOK
<1>4. Fresh(token + 1) \in Socket /\ Fresh(token + 1).wire = <<>>
  BY <1>3, FreshTyped
<1>5. SocketsOK'
  BY <1>2, <1>4, LeftTyped DEF SocketsOK
<1>6. \A j \in SocketIds : Readable(j)' => j = k /\ sockets'[j].wire = <<>>
  BY <1>2, <1>4, LeftTyped DEF Readable
<1>7. OneReader'
  BY <1>2, <1>6 DEF OneReader
<1>8. \A j \in SocketIds : Calm(j)
  BY <1>6 DEF Calm
<1>9. Quiet
  BY <1>2, <1>8 DEF Quiet, PageKept
<1> QED
  BY <1>1, <1>2, <1>3, <1>5, <1>7, <1>9, LeftTyped, TypePartsNext DEF FeedOK, PageOK, SessionOK

\* Whoever leaves the page, by signing out or by going to another one, leaves no
\* reader behind.
LEMMA PageLeftTyped ==
  ASSUME TypeOK, PageLeft
  PROVE  /\ SocketsOK' /\ \A j \in SocketIds : ~ Readable(j)'
         /\ OneReader' /\ missed' \subseteq Readings
         /\ live' = [s \in Sensors |-> NoEntry] /\ mounted' = FALSE /\ connected' = FALSE
<1>1. SocketsOK /\ FeedOK
  BY TypeParts
<1> DEFINE closed(k) == [sockets[k] EXCEPT !.client = "gone", !.wire = <<>>]
<1>2. ASSUME NEW k \in SocketIds
      PROVE  sockets'[k] \in Socket /\ sockets'[k].client = "gone"
  <2>1. closed(k) \in Socket /\ closed(k).client = "gone"
    BY <1>1, EmptySeq DEF SocketsOK, Socket, Clients
  <2>2. sockets'[k] \in {closed(k), Unused}
    BY DEF PageLeft, Settled
  <2> HIDE DEF closed
  <2> QED
    BY <2>1, <2>2, UnusedTyped
<1>3. SocketsOK'
  <2>1. sockets' = [k \in SocketIds |-> sockets'[k]]
    BY DEF PageLeft, Settled
  <2> QED
    BY <1>2, <2>1 DEF SocketsOK
<1>4. \A j \in SocketIds : ~ Readable(j)'
  BY <1>2 DEF Readable
<1>5. missed' \subseteq Readings
  BY <1>1 DEF PageLeft, Published, FeedOK
<1> QED
  BY <1>3, <1>4, <1>5 DEF PageLeft, OneReader

LEMMA LeaveStep ==
  ASSUME TypeOK, SignOut \/ Unmount
  PROVE  TypeOK' /\ Quiet
<1>1. FeedOK /\ PageOK /\ SessionOK /\ PageLeft
  BY TypeParts DEF SignOut, Unmount
<1>2. UNCHANGED <<latest, outbox, account, visible, drops>>
  BY DEF SignOut, Unmount, backend
<1>3. token' \in 0..MaxTokens /\ valid' \in BOOLEAN
  <2>1. 0 \in 0..MaxTokens
    BY ConstantsAssumption
  <2>2. token \in 0..MaxTokens /\ valid \in BOOLEAN
    BY <1>1 DEF SessionOK
  <2>3. CASE SignOut
    BY <2>1, <2>3 DEF SignOut
  <2>4. CASE Unmount
    BY <2>2, <2>4 DEF Unmount, session
  <2> QED
    BY <2>3, <2>4
<1>4. Quiet
  BY <1>1, <1>2, PageLeftTyped, NoEntryTyped DEF Quiet, PageKept, Calm
<1>5. FeedOK' /\ PageOK' /\ SessionOK'
  BY <1>1, <1>2, <1>3, PageLeftTyped, NoEntryTyped DEF FeedOK, PageOK, SessionOK
<1> QED
  BY <1>1, <1>4, <1>5, PageLeftTyped, TypePartsNext

\* A summary never replaces what the feed has shown.
LEMMA PageStep ==
  ASSUME TypeOK, Blank, Suspend \/ Expire \/ Apply \/ RotateElsewhere \/ Mount \/ Hide
  PROVE  TypeOK' /\ Quiet
<1>1. SocketsOK /\ OneReader /\ FeedOK /\ PageOK /\ SessionOK
  BY TypeParts
<1>2. /\ UNCHANGED <<latest, outbox, sockets, current, connected, missed, drops>>
      /\ account' \in {"ACTIVE", "SUSPENDED"} /\ valid' \in BOOLEAN
      /\ token' \in 0..MaxTokens /\ mounted' \in BOOLEAN /\ visible' \in BOOLEAN
  <2>1. /\ account \in {"ACTIVE", "SUSPENDED"} /\ valid \in BOOLEAN
        /\ token \in 0..MaxTokens /\ mounted \in BOOLEAN /\ visible \in BOOLEAN
    BY <1>1 DEF SessionOK, PageOK
  <2>2. CASE Suspend
    BY <2>1, <2>2 DEF Suspend, session, page, tab
  <2>3. CASE Expire
    BY <2>1, <2>3 DEF Expire, backend, page, tab
  <2>4. CASE Apply
    BY <2>1, <2>4 DEF Apply, backend, session, page
  <2>5. CASE RotateElsewhere
    <3>1. token + 1 \in 0..MaxTokens
      BY <2>1, <2>5, ConstantsAssumption DEF RotateElsewhere, NewToken
    <3> QED
      BY <2>1, <2>5, <3>1 DEF RotateElsewhere, NewToken, backend, page, tab
  <2>6. CASE Mount
    BY <2>1, <2>6 DEF Mount, backend, session
  <2>7. CASE Hide
    BY <2>1, <2>7 DEF Hide, backend, session, tab
  <2> QED
    BY <2>2, <2>3, <2>4, <2>5, <2>6, <2>7
<1>3. live' \in [Sensors -> Shows] /\ PageKept
  <2>1. CASE Suspend \/ Expire \/ RotateElsewhere \/ Hide
    <3>1. live' = live
      BY <2>1 DEF Suspend, Expire, RotateElsewhere, Hide, tab
    <3> QED
      BY <1>1, <3>1 DEF PageKept, PageOK
  <2>2. CASE Apply
    <3> PICK seed \in [Sensors -> 0..MaxReadings] : live' = Merged(seed)
      BY <2>2 DEF Apply, Summaries
    <3>1. ASSUME NEW s \in Sensors
          PROVE  /\ live'[s] \in Shows
                 /\ live'[s] = live[s] \/ (live[s].from # "socket" /\ live'[s].from # "socket")
      <4>1. live'[s] = IF live[s] # NoEntry THEN live[s] ELSE Entry(seed[s], "summary")
        BY DEF Merged
      <4>2. live[s] \in Shows /\ seed[s] \in 0..MaxReadings
        BY <1>1 DEF PageOK
      <4> QED
        BY <4>1, <4>2, EntryTyped, NoEntryTyped
    <3>2. live' = [s \in Sensors |-> live'[s]]
      BY DEF Merged
    <3>3. live' \in [Sensors -> Shows]
      BY <3>1, <3>2
    <3> QED
      BY <3>1, <3>3 DEF PageKept
  <2>3. CASE Mount
    <3> PICK cached \in [Sensors -> 0..MaxReadings] :
               live' = [s \in Sensors |-> Entry(cached[s], "summary")]
      BY <2>3 DEF Mount, Summaries
    <3>1. ASSUME NEW s \in Sensors
          PROVE  Entry(cached[s], "summary") \in Shows
                 /\ Entry(cached[s], "summary").from # "socket"
      BY EntryTyped
    <3>2. live' \in [Sensors -> Shows] /\ \A s \in Sensors : live'[s].from # "socket"
      BY <3>1
    <3>3. \A s \in Sensors : live[s].from # "socket"
      BY <2>3 DEF Mount, Blank
    <3> QED
      BY <3>2, <3>3 DEF PageKept
  <2> QED
    BY <2>1, <2>2, <2>3
<1>4. \A j \in SocketIds : Calm(j)
  BY <1>2 DEF Calm, Readable
<1>5. Quiet
  BY <1>2, <1>3, <1>4 DEF Quiet
<1> QED
  BY <1>1, <1>2, <1>3, <1>5, TypePartsNext
  DEF SocketsOK, OneReader, Readable, FeedOK, PageOK, SessionOK

\* Only a page that is mounted reads a socket.
LEMMA BlankStep ==
  ASSUME TypeOK, Blank, Next
  PROVE  Blank'
<1>1. OneReader
  BY TypeParts
<1>2. CASE UNCHANGED <<mounted, current, live>>
  BY <1>2 DEF Blank
<1>3. ASSUME NEW k \in SocketIds, Browser(k) \/ Drop(k) \/ Rotate(k)
      PROVE  Blank'
  <2>1. CASE Open(k) \/ ClosedByUs(k)
    BY <1>2, <2>1 DEF Open, ClosedByUs, page
  <2>2. CASE Closed(k) \/ Drop(k)
    BY <2>2 DEF Closed, Drop, page, Blank
  <2>3. CASE Receive(k)
    <3>1. mounted /\ mounted' = mounted
      BY <1>1, <2>3, ConstantsAssumption DEF Receive, OneReader, Readable, Blank, page
    <3> QED
      BY <3>1 DEF Blank
  <2>4. CASE Retry(k) \/ Rotate(k)
    BY <2>4 DEF Retry, Rotate, page, Blank
  <2> QED
    BY <1>3, <2>1, <2>2, <2>3, <2>4 DEF Browser
<1>4. ASSUME NEW k \in SocketIds, Handler(k)
      PROVE  Blank'
  BY <1>2, <1>4 DEF Handler, CheckToken, CheckAccount, Subscribe, NoticeGone, page, tab
<1>5. CASE (\E s \in Sensors : Commit(s)) \/ Publish \/ Lose \/ Suspend \/ Expire
           \/ RotateElsewhere \/ Hide
  BY <1>2, <1>5 DEF Commit, Publish, Lose, Suspend, Expire, RotateElsewhere, Hide, page, tab
<1>6. CASE Apply \/ Mount
  BY <1>6 DEF Apply, Mount, Blank, page
<1>7. CASE SignOut \/ Unmount
  BY <1>7, NoEntryTyped DEF SignOut, Unmount, PageLeft, Blank
<1> QED
  BY <1>3, <1>4, <1>5, <1>6, <1>7 DEF Next

----------------------------------------------------------------------------
(* The steps that move a reading: each keeps the types and the order.      *)

\* What the page showed of the feed, it shows again or something newer.
Onwards == \A s \in Sensors :
  live[s].from = "socket" /\ mounted' => live'[s].number >= live[s].number

LEMMA QuietKeeps ==
  ASSUME TypeOK, TypeOK', InOrder, Quiet
  PROVE  InOrder' /\ Onwards
<1>1. PageOK /\ FeedOK /\ FeedOK' /\ SocketsOK
  <2>1. TypeOK' => FeedOK'
    BY TypeParts, PTL
  <2> QED
    BY <2>1, TypeParts
<1>2. /\ latest' = latest /\ outbox' = outbox
      /\ \A s \in Sensors : live'[s].from = "socket" => live'[s] = live[s]
  BY DEF Quiet, PageKept
<1>3. \A x \in Readings : Awaits(x) => Awaits(x)'
  <2> SUFFICES ASSUME NEW x \in Readings, Awaits(x) PROVE Awaits(x)'
    OBVIOUS
  <2>1. x[1] \in Sensors
    BY ReadingParts
  <2> QED
    BY <1>2, <2>1 DEF Awaits, Shown
<1>4. Ascends(outbox)' /\ \A x \in InSeq(outbox)' : x[2] <= latest'[x[1]] /\ Awaits(x)'
  <2>1. InSeq(outbox) \subseteq Readings
    BY <1>1, InSeqTyped DEF FeedOK
  <2> QED
    BY <1>2, <1>3, <2>1 DEF InOrder, Ascends, Precedes, InSeq
<1>5. \A s \in Sensors : live'[s].from = "socket" => Shown(s)' <= latest'[s]
  BY <1>2 DEF InOrder, Shown
<1>6. ASSUME NEW k \in SocketIds, Readable(k)'
      PROVE  /\ Ascends(sockets'[k].wire)
             /\ \A x \in InSeq(sockets'[k].wire) :
                  /\ x[2] <= latest'[x[1]] /\ Awaits(x)'
                  /\ \A y \in InSeq(outbox') : Precedes(x, y)
  <2>1. CASE sockets'[k].wire = <<>>
    BY <2>1, EmptySeq
  <2>2. CASE Readable(k) /\ sockets'[k].wire = sockets[k].wire
    <3>1. InSeq(sockets[k].wire) \subseteq Readings
      BY <1>1, InSeqTyped DEF SocketsOK, Socket
    <3> QED
      BY <1>2, <1>3, <2>2, <3>1 DEF InOrder
  <2> QED
    BY <1>6, <2>1, <2>2 DEF Quiet, Calm
<1>7. InOrder'
  BY <1>4, <1>5, <1>6 DEF InOrder, Awaits
<1>8. Onwards
  BY <1>1 DEF Onwards, Quiet, PageKept, PageOK, Shows
<1> QED
  BY <1>7, <1>8

LEMMA CommitStep ==
  ASSUME TypeOK, InOrder, NEW s \in Sensors, Commit(s)
  PROVE  TypeOK' /\ InOrder' /\ Onwards
<1>1. SocketsOK /\ OneReader /\ FeedOK /\ PageOK /\ SessionOK
  BY TypeParts
<1> DEFINE x == <<s, latest[s] + 1>>
<1>2. /\ UNCHANGED <<account, token, valid, sockets, current, connected, live, mounted, visible, missed, drops>>
      /\ latest' = [latest EXCEPT ![s] = latest[s] + 1] /\ outbox' = Append(outbox, x)
  BY DEF Commit, session, page, tab
<1>3. latest[s] \in 0..MaxReadings /\ latest[s] + 1 \in 1..MaxReadings
  BY <1>1, ConstantsAssumption DEF Commit, FeedOK
<1>4. x \in Readings /\ x[1] = s /\ x[2] = latest[s] + 1
  BY <1>3 DEF Readings
<1> HIDE DEF x
<1>5. outbox \in Seq(Readings) /\ InSeq(outbox) \subseteq Readings
  BY <1>1, InSeqTyped DEF FeedOK
<1>6. latest' \in [Sensors -> 0..MaxReadings] /\ \A t \in Sensors : latest[t] <= latest'[t]
  BY <1>1, <1>2, <1>3, ConstantsAssumption DEF FeedOK
<1>7. TypeOK'
  BY <1>1, <1>2, <1>4, <1>5, <1>6, AppendSeq, TypePartsNext
  DEF SocketsOK, OneReader, Readable, FeedOK, PageOK, SessionOK
<1>8. \A y \in Readings : y[2] <= latest[y[1]] => y[2] <= latest'[y[1]] /\ Precedes(y, x)
  <2> SUFFICES ASSUME NEW y \in Readings, y[2] <= latest[y[1]]
               PROVE  y[2] <= latest'[y[1]] /\ Precedes(y, x)
    OBVIOUS
  <2>1. y[1] \in Sensors /\ y[2] \in Nat
    BY ReadingParts
  <2>2. latest[y[1]] \in Nat /\ latest'[y[1]] \in Nat /\ latest[y[1]] <= latest'[y[1]]
    BY <1>1, <1>6, <2>1, ConstantsAssumption DEF FeedOK
  <2> QED
    BY <1>3, <1>4, <2>1, <2>2 DEF Precedes
<1>9. Ascends(outbox') /\ InSeq(outbox') = InSeq(outbox) \cup {x}
  BY <1>2, <1>4, <1>5, <1>8, AppendSeq DEF InOrder
<1>10. \A y : Awaits(y)' <=> Awaits(y)
  BY <1>2 DEF Awaits, Shown
<1>11. \A t \in Sensors : live[t].from = "socket" => Shown(t) <= latest'[t]
  <2> SUFFICES ASSUME NEW t \in Sensors, live[t].from = "socket" PROVE Shown(t) <= latest'[t]
    OBVIOUS
  <2>1. Shown(t) \in Nat /\ latest[t] \in Nat /\ latest'[t] \in Nat
    BY <1>1, <1>6, ConstantsAssumption DEF FeedOK, PageOK, Shows, Shown
  <2>2. Shown(t) <= latest[t]
    BY DEF InOrder
  <2> QED
    BY <1>6, <2>1, <2>2
<1>12. x[2] <= latest'[x[1]] /\ Awaits(x)
  <2>1. latest'[s] = latest[s] + 1
    BY <1>1, <1>2 DEF FeedOK
  <2>2. live[s].from = "socket" => Shown(s) <= latest[s] /\ Shown(s) \in Nat
    BY <1>1, ConstantsAssumption DEF InOrder, PageOK, Shows, Shown
  <2> QED
    BY <1>3, <1>4, <2>1, <2>2 DEF Awaits
<1>13. ASSUME NEW k \in SocketIds, Readable(k)
       PROVE  /\ Ascends(sockets[k].wire)
              /\ \A y \in InSeq(sockets[k].wire) :
                   /\ y[2] <= latest'[y[1]] /\ Awaits(y)
                   /\ \A z \in InSeq(outbox') : Precedes(y, z)
  <2>1. InSeq(sockets[k].wire) \subseteq Readings
    BY <1>1, InSeqTyped DEF SocketsOK, Socket
  <2> QED
    BY <1>8, <1>9, <1>13, <2>1 DEF InOrder
<1>14. InOrder'
  <2>1. \A y \in InSeq(outbox') : y[2] <= latest'[y[1]] /\ Awaits(y)'
    BY <1>5, <1>8, <1>9, <1>10, <1>12 DEF InOrder
  <2>2. \A t \in Sensors : live'[t].from = "socket" => Shown(t)' <= latest'[t]
    BY <1>2, <1>11 DEF Shown
  <2>3. \A k \in SocketIds : Readable(k)' =>
          /\ Ascends(sockets'[k].wire)
          /\ \A y \in InSeq(sockets'[k].wire) :
               /\ y[2] <= latest'[y[1]] /\ Awaits(y)'
               /\ \A z \in InSeq(outbox') : Precedes(y, z)
    BY <1>2, <1>10, <1>13 DEF Readable
  <2> QED
    BY <1>9, <2>1, <2>2, <2>3 DEF InOrder
<1>15. Onwards
  BY <1>1, <1>2, ConstantsAssumption DEF Onwards, PageOK, Shows
<1> QED
  BY <1>7, <1>14, <1>15

\* A published reading follows everything on the way to the page.
LEMMA PublishStep ==
  ASSUME TypeOK, InOrder, Publish
  PROVE  TypeOK' /\ InOrder' /\ Onwards
<1>1. SocketsOK /\ OneReader /\ FeedOK /\ PageOK /\ SessionOK
  BY TypeParts
<1> DEFINE x == Head(outbox)
<1>2. /\ UNCHANGED <<latest, account, token, valid, current, connected, live, mounted, visible, drops>>
      /\ outbox # <<>> /\ outbox' = Tail(outbox)
      /\ missed' = missed \/ missed' = missed \cup {x}
      /\ sockets' = [k \in SocketIds |-> IF k \in Reaching
                       THEN [sockets[k] EXCEPT !.wire = Append(sockets[k].wire, x)]
                       ELSE sockets[k]]
  BY DEF Publish, session, page, tab
<1>3. /\ outbox \in Seq(Readings) /\ x \in InSeq(outbox) /\ x \in Readings
      /\ InSeq(outbox) \subseteq Readings
      /\ Tail(outbox) \in Seq(Readings) /\ InSeq(Tail(outbox)) \subseteq InSeq(outbox)
      /\ Ascends(Tail(outbox)) /\ \A y \in InSeq(Tail(outbox)) : Precedes(x, y)
  BY <1>1, <1>2, InSeqTyped, TailSeq DEF FeedOK, InOrder
<1> HIDE DEF x
<1>4. ASSUME NEW k \in SocketIds
      PROVE  /\ sockets'[k] \in Socket /\ sockets'[k].client = sockets[k].client
             /\ \/ sockets'[k].wire = sockets[k].wire
                \/ sockets'[k].wire = Append(sockets[k].wire, x)
  <2>1. sockets[k] \in Socket /\ sockets[k].wire \in Seq(Readings)
    BY <1>1 DEF SocketsOK, Socket
  <2> DEFINE longer == Append(sockets[k].wire, x)
  <2>2. longer \in Seq(Readings)
    BY <1>3, <2>1, AppendSeq
  <2>3. sockets'[k] = sockets[k] \/ sockets'[k] = [sockets[k] EXCEPT !.wire = longer]
    BY <1>2
  <2> HIDE DEF longer
  <2>4. LET s == [sockets[k] EXCEPT !.wire = longer]
        IN  s \in Socket /\ s.client = sockets[k].client /\ s.wire = longer
    BY <2>1, <2>2, FieldsTyped
  <2>5. /\ sockets'[k] \in Socket /\ sockets'[k].client = sockets[k].client
        /\ sockets'[k].wire = sockets[k].wire \/ sockets'[k].wire = longer
    BY <2>1, <2>3, <2>4
  <2> QED
    BY <2>5 DEF longer
<1>5. SocketsOK' /\ \A k \in SocketIds : Readable(k)' <=> Readable(k)
  BY <1>2, <1>4 DEF SocketsOK, Readable
<1>6. TypeOK'
  BY <1>1, <1>2, <1>3, <1>5, TypePartsNext DEF OneReader, FeedOK, PageOK, SessionOK
<1>7. \A y : Awaits(y)' <=> Awaits(y)
  BY <1>2 DEF Awaits, Shown
<1>8. ASSUME NEW k \in SocketIds, Readable(k)
      PROVE  /\ Ascends(sockets'[k].wire)
             /\ \A y \in InSeq(sockets'[k].wire) :
                  /\ y[2] <= latest[y[1]] /\ Awaits(y)
                  /\ \A z \in InSeq(Tail(outbox)) : Precedes(y, z)
  <2>1. /\ sockets[k].wire \in Seq(Readings) /\ Ascends(sockets[k].wire)
        /\ \A y \in InSeq(sockets[k].wire) :
             /\ y[2] <= latest[y[1]] /\ Awaits(y)
             /\ \A z \in InSeq(outbox) : Precedes(y, z)
    BY <1>1, <1>8 DEF SocketsOK, Socket, InOrder
  <2>2. x[2] <= latest[x[1]] /\ Awaits(x)
    BY <1>3 DEF InOrder
  <2>3. CASE sockets'[k].wire = sockets[k].wire
    BY <1>3, <2>1, <2>3
  <2>4. CASE sockets'[k].wire = Append(sockets[k].wire, x)
    <3>1. /\ Ascends(sockets'[k].wire)
          /\ InSeq(sockets'[k].wire) = InSeq(sockets[k].wire) \cup {x}
      BY <1>3, <2>1, <2>4, AppendSeq
    <3> QED
      BY <1>3, <2>1, <2>2, <3>1
  <2> QED
    BY <1>4, <2>3, <2>4
<1>9. InOrder'
  <2>1. Ascends(outbox') /\ \A y \in InSeq(outbox') : y[2] <= latest'[y[1]] /\ Awaits(y)'
    BY <1>2, <1>3, <1>7 DEF InOrder
  <2>2. \A t \in Sensors : live'[t].from = "socket" => Shown(t)' <= latest'[t]
    BY <1>2 DEF Shown, InOrder
  <2>3. \A k \in SocketIds : Readable(k)' =>
          /\ Ascends(sockets'[k].wire)
          /\ \A y \in InSeq(sockets'[k].wire) :
               /\ y[2] <= latest'[y[1]] /\ Awaits(y)'
               /\ \A z \in InSeq(outbox') : Precedes(y, z)
    BY <1>2, <1>5, <1>7, <1>8
  <2> QED
    BY <2>1, <2>2, <2>3 DEF InOrder
<1>10. Onwards
  BY <1>1, <1>2, ConstantsAssumption DEF Onwards, PageOK, Shows
<1> QED
  BY <1>6, <1>9, <1>10

\* Nothing is left to follow what the collector loses.
LEMMA LoseStep ==
  ASSUME TypeOK, InOrder, Lose
  PROVE  TypeOK' /\ InOrder' /\ Onwards
<1>1. SocketsOK /\ OneReader /\ FeedOK /\ PageOK /\ SessionOK
  BY TypeParts
<1>2. /\ UNCHANGED <<latest, account, token, valid, sockets, current, connected, live,
                     mounted, visible, drops>>
      /\ outbox' = <<>> /\ missed' = missed \cup InSeq(outbox)
  BY DEF Lose, session, page, tab
<1>3. InSeq(outbox) \subseteq Readings
  BY <1>1, InSeqTyped DEF FeedOK
<1>4. TypeOK'
  BY <1>1, <1>2, <1>3, EmptySeq, TypePartsNext
  DEF SocketsOK, OneReader, Readable, FeedOK, PageOK, SessionOK
<1>5. \A y : Awaits(y)' <=> Awaits(y)
  BY <1>2 DEF Awaits, Shown
<1>6. InOrder'
  BY <1>2, <1>5, EmptySeq DEF InOrder, Readable, Shown
<1>7. Onwards
  BY <1>1, <1>2, ConstantsAssumption DEF Onwards, PageOK, Shows
<1> QED
  BY <1>4, <1>6, <1>7

\* The page takes the next frame of the one socket it reads.
LEMMA ReceiveStep ==
  ASSUME TypeOK, InOrder, NEW k \in SocketIds, Receive(k)
  PROVE  TypeOK' /\ InOrder' /\ Onwards
<1>1. SocketsOK /\ OneReader /\ FeedOK /\ PageOK /\ SessionOK /\ sockets[k] \in Socket
  BY TypeParts DEF SocketsOK
<1> DEFINE wire == sockets[k].wire
           x == Head(wire)
           record == [sockets[k] EXCEPT !.wire = Tail(wire)]
<1>2. /\ UNCHANGED <<latest, outbox, account, token, valid, current, connected, mounted, visible, missed, drops>>
      /\ Readable(k) /\ wire # <<>> /\ SetSocket(k, record)
      /\ live' = [live EXCEPT ![x[1]] = Entry(x[2], "socket")]
  BY DEF Receive, backend, session, page, Readable
<1>3. /\ wire \in Seq(Readings) /\ InSeq(wire) \subseteq Readings /\ x \in InSeq(wire)
      /\ Ascends(wire)
      /\ Tail(wire) \in Seq(Readings) /\ InSeq(Tail(wire)) \subseteq InSeq(wire)
      /\ Ascends(Tail(wire)) /\ \A y \in InSeq(Tail(wire)) : Precedes(x, y)
  <2>1. wire \in Seq(Readings) /\ Ascends(wire)
    BY <1>1, <1>2 DEF Socket, InOrder
  <2> QED
    BY <1>2, <2>1, InSeqTyped, TailSeq
<1>4. record \in Socket /\ record.client = sockets[k].client /\ record.wire = Tail(wire)
  BY <1>1, <1>3, FieldsTyped
<1>5. x \in Readings /\ x[1] \in Sensors /\ x[2] \in 1..MaxReadings
  BY <1>3, ReadingParts
<1> HIDE DEF record, x, wire
<1>6. /\ SocketsOK'
      /\ \A j \in SocketIds : Readable(j)' =>
           Readable(j) /\ sockets'[j] = IF j = k THEN record ELSE sockets[j]
  <2>1. record.client \in {"connecting", "open"} => Readable(k)
    BY <1>2
  <2> QED
    BY <1>1, <1>2, <1>4, <2>1, SocketStep
<1>7. \A j \in SocketIds : Readable(j)' => j = k /\ sockets'[j].wire = Tail(wire)
  BY <1>1, <1>2, <1>4, <1>6 DEF OneReader
<1>8. OneReader'
  BY <1>1, <1>2, <1>6 DEF OneReader
<1> DEFINE entry == Entry(x[2], "socket")
<1>9. entry \in Shows /\ entry.number = x[2] /\ entry.from = "socket"
  BY <1>5, ConstantsAssumption, EntryTyped
<1> HIDE DEF entry
<1>10. /\ live' \in [Sensors -> Shows] /\ live'[x[1]] = entry
       /\ \A t \in Sensors \ {x[1]} : live'[t] = live[t]
  BY <1>1, <1>2, <1>5, <1>9 DEF PageOK, entry
<1>11. TypeOK'
  BY <1>1, <1>2, <1>6, <1>8, <1>10, TypePartsNext DEF FeedOK, PageOK, SessionOK
<1>12. x[2] <= latest[x[1]] /\ Awaits(x) /\ \A y \in InSeq(outbox) : Precedes(x, y)
  BY <1>2, <1>3 DEF InOrder, wire
<1>13. \A y \in Readings : Awaits(y) /\ Precedes(x, y) => Awaits(y)'
  <2> SUFFICES ASSUME NEW y \in Readings, Awaits(y), Precedes(x, y) PROVE Awaits(y)'
    OBVIOUS
  <2>1. y[1] \in Sensors
    BY ReadingParts
  <2>2. CASE y[1] = x[1]
    BY <1>9, <1>10, <2>2 DEF Awaits, Precedes, Shown
  <2>3. CASE y[1] # x[1]
    BY <1>10, <2>1, <2>3 DEF Awaits, Shown
  <2> QED
    BY <2>2, <2>3
<1>14. InOrder'
  <2>1. Ascends(outbox') /\ \A y \in InSeq(outbox') : y[2] <= latest'[y[1]] /\ Awaits(y)'
    <3>1. InSeq(outbox) \subseteq Readings
      BY <1>1, InSeqTyped DEF FeedOK
    <3> QED
      BY <1>2, <1>12, <1>13, <3>1 DEF InOrder
  <2>2. \A t \in Sensors : live'[t].from = "socket" => Shown(t)' <= latest'[t]
    <3> SUFFICES ASSUME NEW t \in Sensors, live'[t].from = "socket"
                 PROVE  Shown(t)' <= latest'[t]
      OBVIOUS
    <3>1. CASE t = x[1]
      BY <1>2, <1>9, <1>10, <1>12, <3>1 DEF Shown
    <3>2. CASE t # x[1]
      BY <1>2, <1>10, <3>2 DEF Shown, InOrder
    <3> QED
      BY <3>1, <3>2
  <2>3. ASSUME NEW j \in SocketIds, Readable(j)'
        PROVE  /\ Ascends(sockets'[j].wire)
               /\ \A y \in InSeq(sockets'[j].wire) :
                    /\ y[2] <= latest'[y[1]] /\ Awaits(y)'
                    /\ \A z \in InSeq(outbox') : Precedes(y, z)
    <3>1. j = k /\ sockets'[j].wire = Tail(wire)
      BY <1>7, <2>3
    <3>2. \A y \in InSeq(wire) : /\ y[2] <= latest[y[1]] /\ Awaits(y)
                                 /\ \A z \in InSeq(outbox) : Precedes(y, z)
      BY <1>2 DEF InOrder, wire
    <3> QED
      BY <1>2, <1>3, <1>13, <3>1, <3>2
  <2> QED
    BY <2>1, <2>2, <2>3 DEF InOrder
<1>15. Onwards
  <2> SUFFICES ASSUME NEW s \in Sensors, live[s].from = "socket"
               PROVE  live'[s].number >= live[s].number
    BY DEF Onwards
  <2>1. live[s].number \in Nat /\ x[2] \in Nat
    BY <1>1, <1>5, ConstantsAssumption DEF PageOK, Shows
  <2>2. CASE s = x[1]
    BY <1>9, <1>10, <1>12, <2>1, <2>2 DEF Awaits, Shown
  <2>3. CASE s # x[1]
    BY <1>10, <2>1, <2>3
  <2> QED
    BY <2>2, <2>3
<1> QED
  BY <1>11, <1>14, <1>15

----------------------------------------------------------------------------
OrderInv == TypeOK /\ Blank /\ InOrder

LEMMA OrderInit == Init => OrderInv
<1> SUFFICES ASSUME Init PROVE OrderInv
  OBVIOUS
<1>1. SocketsOK /\ \A k \in SocketIds : ~ Readable(k)
  BY UnusedTyped DEF Init, SocketsOK, Readable
<1>2. OneReader
  BY <1>1 DEF Init, OneReader
<1>3. FeedOK /\ SessionOK
  BY ConstantsAssumption, EmptySeq DEF Init, FeedOK, SessionOK
<1>4. PageOK
  BY NoEntryTyped DEF Init, PageOK
<1>5. InOrder
  BY <1>1, EmptySeq, NoEntryTyped DEF Init, InOrder
<1>6. Blank
  BY DEF Init, Blank
<1> QED
  BY <1>1, <1>2, <1>3, <1>4, <1>5, <1>6, TypeParts DEF OrderInv

LEMMA OrderStep ==
  ASSUME OrderInv, [Next]_vars
  PROVE  OrderInv' /\ (Onwards \/ UNCHANGED vars)
<1>0. TypeOK /\ Blank /\ InOrder
  BY DEF OrderInv
<1>1. ASSUME TypeOK', Quiet
      PROVE  TypeOK' /\ InOrder' /\ Onwards
  BY <1>0, <1>1, QuietKeeps
<1>2. CASE Next
  <2>1. TypeOK' /\ InOrder' /\ Onwards
    <3>1. CASE \E s \in Sensors : Commit(s)
      BY <1>0, <3>1, CommitStep
    <3>2. CASE Publish
      BY <1>0, <3>2, PublishStep
    <3>3. CASE Lose
      BY <1>0, <3>3, LoseStep
    <3>4. CASE Suspend \/ Expire \/ Apply \/ RotateElsewhere \/ Mount \/ Hide
      BY <1>0, <1>1, <3>4, PageStep
    <3>5. CASE SignOut \/ Unmount
      BY <1>0, <1>1, <3>5, LeaveStep
    <3>6. ASSUME NEW k \in SocketIds, Handler(k) \/ Browser(k) \/ Drop(k) \/ Rotate(k)
          PROVE  TypeOK' /\ InOrder' /\ Onwards
      <4>1. CASE Receive(k)
        BY <1>0, <4>1, ReceiveStep
      <4>2. CASE Handler(k)
        BY <1>0, <1>1, <4>2, HandlerStep
      <4>3. CASE Open(k) \/ Closed(k) \/ ClosedByUs(k) \/ Drop(k)
        BY <1>0, <1>1, <4>3, BrowserStep
      <4>4. CASE Retry(k)
        BY <1>0, <1>1, <4>4, RetryStep
      <4>5. CASE Rotate(k)
        BY <1>0, <1>1, <4>5, RotateStep
      <4> QED
        BY <3>6, <4>1, <4>2, <4>3, <4>4, <4>5 DEF Browser
    <3> QED
      BY <1>2, <3>1, <3>2, <3>3, <3>4, <3>5, <3>6 DEF Next
  <2>2. Blank'
    BY <1>0, <1>2, BlankStep
  <2> QED
    BY <2>1, <2>2 DEF OrderInv
<1>3. CASE UNCHANGED vars
  BY <1>0, <1>3 DEF vars, backend, session, page, tab, OrderInv, TypeOK, Readable,
     Blank, InOrder, Ascends, Precedes, Awaits, Shown, InSeq
<1> QED
  BY <1>2, <1>3

LEMMA OrderKept == Spec => []OrderInv
<1>1. OrderInv /\ [Next]_vars => OrderInv'
  BY OrderStep
<1> QED
  BY <1>1, OrderInit, PTL DEF Spec

\* The state has its types, and the one socket a tab reads is the one its
\* effect holds: those that rotations and cuts leave behind deliver nothing.
THEOREM TypeCorrect == Spec => []TypeOK
<1>1. OrderInv => TypeOK
  BY DEF OrderInv
<1> QED
  BY <1>1, OrderKept, PTL

\* The page never goes back behind a reading of the feed it has shown, for any
\* sensors, sockets and readings, and however late the summaries are answered
\* (use-live.ts:25-47, dashboard.tsx:57-84).
THEOREM NeverBackwardsCorrect == Spec => NeverBackwards
<1>1. OrderInv /\ [Next]_vars => [Onwards]_vars
  BY OrderStep
<1> QED
  BY <1>1, OrderKept, PTL DEF Spec, NeverBackwards, Onwards
----------------------------------------------------------------------------
(* What the page lacks.                                                    *)

\* A socket the page reads brings nothing before its handler relays, so
\* nothing is lost when that handler refuses it.
SilentUntilRelay == \A k \in SocketIds :
  Readable(k) /\ sockets[k].server # "relay" => sockets[k].wire = <<>>

\* A reading that the socket the page reads still brings, or never will.
InFlight(x) == \E k \in SocketIds : Readable(k) /\ x \in InSeq(sockets[k].wire)
Undelivered(x) == x \in InSeq(outbox) \/ InFlight(x) \/ x \in missed

\* The feed has shown the sensor's last reading: a summary may show it before.
UpToDate(s) == live[s].from = "socket" /\ Shown(s) >= latest[s]

Supplied == \A s \in Sensors :
  latest[s] > 0 => UpToDate(s) \/ Undelivered(<<s, latest[s]>>)

SupplyInv == OrderInv /\ SilentUntilRelay /\ Supplied

\* What a step does to the readings under way.
Carried ==
  /\ \A s \in Sensors : latest'[s] = latest[s] \/ Undelivered(<<s, latest[s]>>)'
  /\ \A s \in Sensors : live[s].from = "socket" =>
       live'[s].from = "socket" /\ live'[s].number >= live[s].number
  /\ \A x \in Readings : Undelivered(x) =>
       \/ Undelivered(x)'
       \/ live'[x[1]].from = "socket" /\ live'[x[1]].number = x[2]

LEMMA CarriedKeeps ==
  ASSUME SupplyInv, OrderInv', SilentUntilRelay', Carried
  PROVE  SupplyInv'
<1> SUFFICES ASSUME NEW s \in Sensors, latest'[s] > 0
             PROVE  UpToDate(s)' \/ Undelivered(<<s, latest[s]>>)'
  BY DEF SupplyInv, Supplied
<1>1. FeedOK /\ PageOK /\ latest' \in [Sensors -> 0..MaxReadings]
      /\ live' \in [Sensors -> Shows]
  BY TypeParts DEF SupplyInv, OrderInv, TypeOK, Shows
<1>2. CASE latest'[s] = latest[s]
  <2>1. <<s, latest[s]>> \in Readings
    BY <1>1, <1>2, ConstantsAssumption DEF FeedOK, Readings
  <2>2. UpToDate(s) \/ Undelivered(<<s, latest[s]>>)
    BY <1>2 DEF SupplyInv, Supplied, Carried
  <2>3. CASE UpToDate(s)
    <3>1. live'[s].from = "socket" /\ live'[s].number >= live[s].number
          /\ live[s].number >= latest[s]
      BY <2>3 DEF Carried, UpToDate, Shown
    <3>2. live[s].number \in Nat /\ live'[s].number \in Nat /\ latest[s] \in Nat
      BY <1>1, ConstantsAssumption DEF FeedOK, PageOK, Shows
    <3>3. live'[s].number >= latest'[s]
      BY <1>2, <3>1, <3>2
    <3> QED
      BY <3>1, <3>3 DEF UpToDate, Shown
  <2>4. CASE Undelivered(<<s, latest[s]>>)
    <3>1. \/ Undelivered(<<s, latest[s]>>)'
          \/ live'[s].from = "socket" /\ live'[s].number = latest[s]
      <4>1. \/ Undelivered(<<s, latest[s]>>)'
            \/ live'[<<s, latest[s]>>[1]].from = "socket"
               /\ live'[<<s, latest[s]>>[1]].number = <<s, latest[s]>>[2]
        BY <2>1, <2>4 DEF Carried
      <4> QED
        BY <4>1
    <3> QED
      BY <1>1, <1>2, <3>1, ConstantsAssumption DEF UpToDate, Shown
  <2> QED
    BY <2>2, <2>3, <2>4
<1>3. CASE latest'[s] # latest[s]
  BY <1>3 DEF Carried
<1> QED
  BY <1>2, <1>3

\* A socket that one end still uses is what the step made it.
LEMMA SocketStays ==
  ASSUME SocketsOK, NEW k \in SocketIds, NEW record \in Socket, SetSocket(k, record)
  PROVE  /\ record.client # "gone" => sockets'[k] = record
         /\ \A j \in SocketIds \ {k} : sockets[j].client # "gone" => sockets'[j] = sockets[j]
         /\ sockets'[k] \in {record, Unused}
         /\ \A j \in SocketIds \ {k} : sockets'[j] \in {sockets[j], Unused}
BY DEF SocketsOK, SetSocket, Settled

\* A step that sets one socket loses no reading, if it loses none of that one's.
LEMMA OneSocketCarries ==
  ASSUME TypeOK, SilentUntilRelay, NEW k \in SocketIds, NEW record \in Socket,
         SetSocket(k, record), UNCHANGED <<latest, outbox, live>>,
         missed \subseteq missed',
         record.client \in {"connecting", "open"} /\ record.server # "relay"
           => record.wire = <<>>,
         Readable(k) =>
           \/ record.client \in {"connecting", "open"} /\ record.wire = sockets[k].wire
           \/ InSeq(sockets[k].wire) \subseteq missed'
  PROVE  SilentUntilRelay' /\ Carried
<1>1. SocketsOK /\ FeedOK /\ PageOK
  BY TypeParts
<1>2. /\ record.client # "gone" => sockets'[k] = record
      /\ \A j \in SocketIds \ {k} : sockets[j].client # "gone" => sockets'[j] = sockets[j]
      /\ sockets'[k] \in {record, Unused}
      /\ \A j \in SocketIds \ {k} : sockets'[j] \in {sockets[j], Unused}
  BY <1>1, SocketStays
<1>3. SilentUntilRelay'
  <2> SUFFICES ASSUME NEW j \in SocketIds, Readable(j)', sockets'[j].server # "relay"
               PROVE  sockets'[j].wire = <<>>
    BY DEF SilentUntilRelay
  <2>1. CASE j = k
    BY <1>2, <2>1, UnusedTyped DEF Readable
  <2>2. CASE j # k
    BY <1>2, <2>2, UnusedTyped DEF Readable, SilentUntilRelay
  <2> QED
    BY <2>1, <2>2
<1>4. ASSUME NEW x \in Readings, Undelivered(x)
      PROVE  Undelivered(x)'
  <2>1. CASE x \in InSeq(outbox) \/ x \in missed
    BY <2>1 DEF Undelivered
  <2>2. CASE InFlight(x)
    <3> PICK j \in SocketIds : Readable(j) /\ x \in InSeq(sockets[j].wire)
      BY <2>2 DEF InFlight
    <3>1. CASE j # k
      <4>1. sockets'[j] = sockets[j]
        BY <1>2, <3>1 DEF Readable
      <4> QED
        BY <4>1 DEF Undelivered, InFlight, Readable
    <3>2. CASE j = k /\ InSeq(sockets[k].wire) \subseteq missed'
      BY <3>2 DEF Undelivered
    <3>3. CASE /\ j = k /\ record.client \in {"connecting", "open"}
               /\ record.wire = sockets[k].wire
      <4>1. sockets'[k] = record
        BY <1>2, <3>3
      <4> QED
        BY <3>3, <4>1 DEF Undelivered, InFlight, Readable
    <3> QED
      BY <3>1, <3>2, <3>3
  <2> QED
    BY <1>4, <2>1, <2>2 DEF Undelivered
<1>5. \A s \in Sensors : live[s].number \in Nat
  BY <1>1, ConstantsAssumption DEF PageOK, Shows
<1>6. \A s \in Sensors : live'[s].number >= live[s].number
  BY <1>5
<1> QED
  BY <1>3, <1>4, <1>6 DEF Carried

LEMMA HandlerCarries ==
  ASSUME TypeOK, SilentUntilRelay, NEW k \in SocketIds, Handler(k)
  PROVE  SilentUntilRelay' /\ Carried
<1>1. sockets[k] \in Socket
  BY TypeParts DEF SocketsOK
<1>2. UNCHANGED <<latest, outbox, live, missed>>
  BY DEF Handler, CheckToken, CheckAccount, Subscribe, NoticeGone, backend, session, page, tab
<1>3. CASE CheckToken(k) \/ CheckAccount(k) \/ Subscribe(k)
  <2>1. sockets[k].server # "relay"
    BY <1>3 DEF CheckToken, CheckAccount, Subscribe
  <2> PICK x \in Servers : SetSocket(k, [sockets[k] EXCEPT !.server = x])
    BY <1>3 DEF CheckToken, CheckAccount, Subscribe, Servers
  <2> DEFINE record == [sockets[k] EXCEPT !.server = x]
  <2>2. record \in Socket /\ record.client = sockets[k].client /\ record.wire = sockets[k].wire
    BY <1>1, FieldsTyped
  <2>3. SetSocket(k, record)
    OBVIOUS
  <2> HIDE DEF record
  <2>4. record.client \in {"connecting", "open"} => Readable(k) /\ record.wire = <<>>
    BY <2>1, <2>2 DEF Readable, SilentUntilRelay
  <2>5. Readable(k) => record.client \in {"connecting", "open"}
    BY <2>2 DEF Readable
  <2> QED
    BY <1>2, <2>2, <2>3, <2>4, <2>5, OneSocketCarries
<1>4. CASE NoticeGone(k)
  <2> DEFINE record == [sockets[k] EXCEPT !.server = "ended", !.wire = <<>>]
  <2>1. record \in Socket /\ record.wire = <<>>
    BY <1>1, EmptySeq DEF Socket, Servers
  <2>2. SetSocket(k, record) /\ ~ Readable(k)
    BY <1>4 DEF NoticeGone
  <2> HIDE DEF record
  <2> QED
    BY <1>2, <2>1, <2>2, OneSocketCarries
<1> QED
  BY <1>3, <1>4 DEF Handler

LEMMA BrowserCarries ==
  ASSUME TypeOK, SilentUntilRelay, NEW k \in SocketIds,
         Open(k) \/ Closed(k) \/ ClosedByUs(k) \/ Drop(k) \/ Retry(k)
  PROVE  SilentUntilRelay' /\ Carried
<1>1. sockets[k] \in Socket /\ token \in 0..MaxTokens
  BY TypeParts DEF SocketsOK, SessionOK
<1>2. CASE Open(k)
  <2> DEFINE record == [sockets[k] EXCEPT !.client = "open"]
  <2>1. /\ record \in Socket /\ record.wire = sockets[k].wire /\ record.client = "open"
        /\ record.server = sockets[k].server
    BY <1>1 DEF Socket, Clients
  <2>2. /\ SetSocket(k, record) /\ Readable(k)
        /\ UNCHANGED <<latest, outbox, live, missed>>
    BY <1>2 DEF Open, backend, session, page, Readable
  <2> HIDE DEF record
  <2>3. record.server # "relay" => record.wire = <<>>
    BY <2>1, <2>2 DEF SilentUntilRelay
  <2> QED
    BY <2>1, <2>2, <2>3, OneSocketCarries
<1>3. CASE Closed(k)
  <2>1. /\ SetSocket(k, Unused) /\ Readable(k) /\ sockets[k].server # "relay"
        /\ UNCHANGED <<latest, outbox, live, missed>>
    BY <1>3 DEF Closed, backend, session, page
  <2>2. InSeq(sockets[k].wire) \subseteq missed'
    BY <2>1, EmptySeq DEF SilentUntilRelay
  <2> QED
    BY <2>1, <2>2, UnusedTyped, OneSocketCarries
<1>4. CASE ClosedByUs(k)
  <2> DEFINE record == [sockets[k] EXCEPT !.client = "gone"]
  <2>1. record \in Socket /\ record.client = "gone"
    BY <1>1, FieldsTyped DEF Clients
  <2>2. /\ SetSocket(k, record) /\ ~ Readable(k)
        /\ UNCHANGED <<latest, outbox, live, missed>>
    BY <1>4 DEF ClosedByUs, backend, session, page, Readable
  <2> HIDE DEF record
  <2> QED
    BY <2>1, <2>2, OneSocketCarries
<1>5. CASE Drop(k)
  <2> DEFINE record == [sockets[k] EXCEPT !.client = "gone", !.wire = <<>>]
  <2>1. record \in Socket /\ record.client = "gone"
    BY <1>1, EmptySeq DEF Socket, Clients
  <2>2. /\ SetSocket(k, record) /\ missed' = missed \cup InSeq(sockets[k].wire)
        /\ UNCHANGED <<latest, outbox, live>>
    BY <1>5 DEF Drop, backend, session, page
  <2> HIDE DEF record
  <2> QED
    BY <2>1, <2>2, OneSocketCarries
<1>6. CASE Retry(k)
  <2>1. /\ SetSocket(k, Fresh(token)) /\ sockets[k] = Unused
        /\ UNCHANGED <<latest, outbox, live, missed>>
    BY <1>6 DEF Retry, backend, session, page
  <2>2. ~ Readable(k)
    BY <2>1, UnusedTyped DEF Readable
  <2> QED
    BY <1>1, <2>1, <2>2, FreshTyped, OneSocketCarries
<1> QED
  BY <1>2, <1>3, <1>4, <1>5, <1>6

LEMMA CommitCarries ==
  ASSUME TypeOK, SilentUntilRelay, NEW s \in Sensors, Commit(s)
  PROVE  SilentUntilRelay' /\ Carried
<1>1. FeedOK /\ PageOK
  BY TypeParts
<1> DEFINE x == <<s, latest[s] + 1>>
<1>2. /\ UNCHANGED <<sockets, live, missed>>
      /\ latest' = [latest EXCEPT ![s] = latest[s] + 1] /\ outbox' = Append(outbox, x)
  BY DEF Commit, session, page, tab
<1>3. x \in Readings
  BY <1>1, ConstantsAssumption DEF Commit, FeedOK, Readings
<1>4. x = <<s, latest'[s]>> /\ \A t \in Sensors \ {s} : latest'[t] = latest[t]
  BY <1>1, <1>2 DEF FeedOK
<1> HIDE DEF x
<1>5. InSeq(outbox') = InSeq(outbox) \cup {x}
  BY <1>1, <1>2, <1>3, AppendSeq DEF FeedOK
<1>6. \A y : Undelivered(y) \/ y = x => Undelivered(y)'
  BY <1>2, <1>5 DEF Undelivered, InFlight, Readable
<1>7. \A t \in Sensors : latest'[t] = latest[t] \/ Undelivered(<<t, latest[t]>>)'
  BY <1>4, <1>6
<1>8. \A t \in Sensors : live'[t].number >= live[t].number
  BY <1>1, <1>2, ConstantsAssumption DEF PageOK, Shows
<1>9. SilentUntilRelay'
  BY <1>2 DEF SilentUntilRelay, Readable
<1> QED
  BY <1>2, <1>6, <1>7, <1>8, <1>9 DEF Carried

\* A published reading goes to the socket the page reads, or is missed.
LEMMA PublishCarries ==
  ASSUME TypeOK, SilentUntilRelay, Publish
  PROVE  SilentUntilRelay' /\ Carried
<1>1. SocketsOK /\ FeedOK /\ PageOK
  BY TypeParts
<1> DEFINE r == Head(outbox)
<1>2. /\ UNCHANGED <<latest, live>> /\ outbox # <<>> /\ outbox' = Tail(outbox)
      /\ sockets' = [k \in SocketIds |-> IF k \in Reaching
                       THEN [sockets[k] EXCEPT !.wire = Append(sockets[k].wire, r)]
                       ELSE sockets[k]]
      /\ missed' = IF Reaching # {} THEN missed ELSE missed \cup {r}
  BY DEF Publish, session, page, tab
<1>3. outbox \in Seq(Readings) /\ InSeq(outbox) \subseteq {r} \cup InSeq(outbox')
      /\ r \in Readings
  BY <1>1, <1>2, HeadOrTail, TailSeq, InSeqTyped DEF FeedOK
<1> HIDE DEF r
<1>4. ASSUME NEW k \in SocketIds
      PROVE  /\ sockets'[k].client = sockets[k].client
             /\ sockets'[k].server = sockets[k].server
             /\ InSeq(sockets[k].wire) \subseteq InSeq(sockets'[k].wire)
             /\ k \in Reaching => r \in InSeq(sockets'[k].wire)
             /\ k \notin Reaching => sockets'[k].wire = sockets[k].wire
  <2>1. sockets[k] \in Socket /\ sockets[k].wire \in Seq(Readings)
    BY <1>1 DEF SocketsOK, Socket
  <2>2. CASE k \in Reaching
    <3>1. sockets'[k] = [sockets[k] EXCEPT !.wire = Append(sockets[k].wire, r)]
      BY <1>2, <2>2
    <3>2. InSeq(Append(sockets[k].wire, r)) = InSeq(sockets[k].wire) \cup {r}
      BY <1>3, <2>1, AppendSeq
    <3>3. /\ sockets'[k].client = sockets[k].client
          /\ sockets'[k].server = sockets[k].server
          /\ sockets'[k].wire = Append(sockets[k].wire, r)
      BY <2>1, <3>1 DEF Socket
    <3> QED
      BY <2>2, <3>2, <3>3
  <2>3. CASE k \notin Reaching
    BY <1>2, <2>3
  <2> QED
    BY <2>2, <2>3
<1>5. SilentUntilRelay'
  <2> SUFFICES ASSUME NEW k \in SocketIds, Readable(k)', sockets'[k].server # "relay"
               PROVE  sockets'[k].wire = <<>>
    BY DEF SilentUntilRelay
  <2>1. k \notin Reaching
    BY <1>4 DEF Reaching, Relaying
  <2> QED
    BY <1>4, <2>1 DEF Readable, SilentUntilRelay
<1>6. ASSUME NEW x, Undelivered(x)
      PROVE  Undelivered(x)'
  <2>1. CASE x = r
    <3>1. CASE Reaching # {}
      <4> PICK k \in SocketIds : k \in Reaching /\ Readable(k)
        BY <3>1 DEF Reaching, Relaying
      <4>1. Readable(k)' /\ r \in InSeq(sockets'[k].wire)
        BY <1>4 DEF Readable
      <4> QED
        BY <2>1, <4>1 DEF Undelivered, InFlight
    <3>2. CASE Reaching = {}
      BY <1>2, <2>1, <3>2 DEF Undelivered
    <3> QED
      BY <3>1, <3>2
  <2>2. CASE x \in InSeq(outbox) /\ x # r
    BY <1>3, <2>2 DEF Undelivered
  <2>3. CASE x \in missed
    BY <1>2, <2>3 DEF Undelivered
  <2>4. CASE InFlight(x)
    BY <1>4, <2>4 DEF Undelivered, InFlight, Readable
  <2> QED
    BY <1>6, <2>1, <2>2, <2>3, <2>4 DEF Undelivered
<1>7. \A t \in Sensors : live'[t].number >= live[t].number
  BY <1>1, <1>2, ConstantsAssumption DEF PageOK, Shows
<1> QED
  BY <1>2, <1>5, <1>6, <1>7 DEF Carried

\* What the page takes from the socket, it shows.
LEMMA ReceiveCarries ==
  ASSUME TypeOK, InOrder, SilentUntilRelay, NEW k \in SocketIds, Receive(k)
  PROVE  SilentUntilRelay' /\ Carried
<1>1. SocketsOK /\ OneReader /\ FeedOK /\ PageOK /\ sockets[k] \in Socket
  BY TypeParts DEF SocketsOK
<1> DEFINE wire == sockets[k].wire
           r == Head(wire)
           record == [sockets[k] EXCEPT !.wire = Tail(wire)]
<1>2. /\ UNCHANGED <<latest, outbox, missed>>
      /\ Readable(k) /\ wire # <<>> /\ SetSocket(k, record)
      /\ live' = [live EXCEPT ![r[1]] = Entry(r[2], "socket")]
  BY DEF Receive, backend, session, page, Readable
<1>3. /\ wire \in Seq(Readings) /\ Tail(wire) \in Seq(Readings) /\ r \in Readings
      /\ InSeq(wire) \subseteq {r} \cup InSeq(Tail(wire))
  BY <1>1, <1>2, InSeqTyped, TailSeq, HeadOrTail DEF Socket
<1>4. /\ record \in Socket /\ record.client = sockets[k].client /\ record.wire = Tail(wire)
      /\ record.server = sockets[k].server
  BY <1>1, <1>3 DEF Socket
<1>5. r[1] \in Sensors /\ r[2] \in 1..MaxReadings
  BY <1>3, ReadingParts
<1>6. sockets[k].server = "relay"
  BY <1>2 DEF SilentUntilRelay, wire
<1>7. \A j \in SocketIds : Readable(j) => j = k
  BY <1>1, <1>2 DEF OneReader
<1> DEFINE entry == Entry(r[2], "socket")
<1>8. entry.number = r[2] /\ entry.from = "socket"
  BY <1>5, ConstantsAssumption, EntryTyped
<1> HIDE DEF entry, record, r, wire
<1>9. /\ live'[r[1]] = entry
      /\ \A t \in Sensors \ {r[1]} : live'[t] = live[t]
  BY <1>1, <1>2, <1>5 DEF PageOK, entry
<1>10. /\ sockets'[k] = record
       /\ \A j \in SocketIds \ {k} : sockets'[j] \in {sockets[j], Unused}
  <2>1. record.client # "gone"
    BY <1>2, <1>4 DEF Readable
  <2> QED
    BY <1>1, <1>2, <1>4, <2>1, SocketStays
<1>11. SilentUntilRelay'
  <2> SUFFICES ASSUME NEW j \in SocketIds, Readable(j)', sockets'[j].server # "relay"
               PROVE  FALSE
    BY DEF SilentUntilRelay
  <2>1. j # k
    BY <1>4, <1>6, <1>10
  <2> QED
    BY <1>7, <1>10, <2>1, UnusedTyped DEF Readable
<1>12. ASSUME NEW x \in Readings, Undelivered(x)
       PROVE  \/ Undelivered(x)'
              \/ live'[x[1]].from = "socket" /\ live'[x[1]].number = x[2]
  <2>1. CASE x = r
    BY <1>8, <1>9, <2>1
  <2>2. CASE x \in InSeq(outbox) \/ x \in missed
    BY <1>2, <2>2 DEF Undelivered
  <2>3. CASE InFlight(x) /\ x # r
    <3>1. x \in InSeq(record.wire)
      BY <1>3, <1>4, <1>7, <2>3 DEF InFlight, wire
    <3>2. Readable(k)'
      BY <1>2, <1>4, <1>10 DEF Readable
    <3> QED
      BY <1>10, <3>1, <3>2 DEF Undelivered, InFlight
  <2> QED
    BY <1>12, <2>1, <2>2, <2>3 DEF Undelivered
<1>13. ASSUME NEW s \in Sensors, live[s].from = "socket"
       PROVE  live'[s].from = "socket" /\ live'[s].number >= live[s].number
  <2>1. live[s].number \in Nat
    BY <1>1, ConstantsAssumption DEF PageOK, Shows
  <2>2. CASE s = r[1]
    <3>1. Awaits(r)
      <4>1. r \in InSeq(sockets[k].wire)
        BY <1>2, <1>3, TailSeq DEF r, wire
      <4> QED
        BY <1>2, <4>1 DEF InOrder
    <3> QED
      BY <1>5, <1>8, <1>9, <1>13, <2>1, <2>2, <3>1 DEF Awaits, Shown
  <2>3. CASE s # r[1]
    BY <1>9, <1>13, <2>1, <2>3
  <2> QED
    BY <2>2, <2>3
<1> QED
  BY <1>2, <1>11, <1>12, <1>13 DEF Carried

\* A rotation leaves one socket for another, which has brought nothing yet.
LEMMA RotateCarries ==
  ASSUME TypeOK, NEW k \in SocketIds, Rotate(k)
  PROVE  SilentUntilRelay' /\ Carried
<1>1. SocketsOK /\ OneReader /\ PageOK /\ SessionOK
  BY TypeParts
<1>2. /\ UNCHANGED <<latest, outbox, live>> /\ missed' = missed \cup LostByLeaving
      /\ sockets' = [Left(current) EXCEPT ![k] = Fresh(token + 1)]
  BY DEF Rotate, NewToken, backend, page
<1>3. token + 1 \in 0..MaxTokens
  BY <1>1, ConstantsAssumption DEF Rotate, NewToken, SessionOK
<1>4. \A j \in SocketIds : Readable(j)' => sockets'[j].wire = <<>>
  <2>1. Fresh(token + 1).wire = <<>>
    BY <1>3, FreshTyped
  <2> QED
    BY <1>2, <2>1, LeftTyped DEF Readable
<1>5. \A x : Undelivered(x) => Undelivered(x)'
  <2>1. \A x : InFlight(x) => x \in LostByLeaving
    BY <1>1, ConstantsAssumption DEF InFlight, LostByLeaving, OneReader
  <2> QED
    BY <1>2, <2>1 DEF Undelivered
<1>6. \A t \in Sensors : live'[t].number >= live[t].number
  BY <1>1, <1>2, ConstantsAssumption DEF PageOK, Shows
<1> QED
  BY <1>2, <1>4, <1>5, <1>6 DEF Carried, SilentUntilRelay

\* What a page that is left has been shown, the next one has not: it is missed,
\* like everything that was published before.
LEMMA LeaveSupplies ==
  ASSUME TypeOK, SignOut \/ Unmount
  PROVE  SilentUntilRelay' /\ Supplied'
<1>1. FeedOK /\ PageLeft /\ UNCHANGED <<latest, outbox>>
  BY TypeParts DEF SignOut, Unmount, backend
<1>2. SilentUntilRelay'
  BY <1>1, PageLeftTyped DEF SilentUntilRelay
<1>3. ASSUME NEW s \in Sensors, latest[s] > 0
      PROVE  <<s, latest[s]>> \in InSeq(outbox) \cup Published
  <2> DEFINE x == <<s, latest[s]>>
  <2>1. latest[s] \in 0..MaxReadings
    BY <1>1 DEF FeedOK
  <2>2. latest[s] \in 1..MaxReadings /\ latest[s] <= latest[s]
    BY <1>3, <2>1, ConstantsAssumption
  <2>3. x \in Readings /\ x[2] <= latest[x[1]]
    BY <2>2 DEF Readings
  <2> HIDE DEF x
  <2>4. x \in InSeq(outbox) \cup Published
    BY <2>3 DEF Published
  <2> QED
    BY <2>4 DEF x
<1>4. ASSUME NEW s \in Sensors, latest[s] > 0
      PROVE  Undelivered(<<s, latest[s]>>)'
  <2>1. <<s, latest[s]>> \in InSeq(outbox) \cup Published
    BY <1>3, <1>4
  <2>2. missed' = missed \cup Published
    BY <1>1 DEF PageLeft
  <2> QED
    BY <1>1, <2>1, <2>2 DEF Undelivered
<1> QED
  BY <1>1, <1>2, <1>4 DEF Supplied

\* What the collector loses is missed.
LEMMA LoseCarries ==
  ASSUME TypeOK, SilentUntilRelay, Lose
  PROVE  SilentUntilRelay' /\ Carried
<1>1. PageOK
  BY TypeParts
<1>2. /\ UNCHANGED <<latest, sockets, live>> /\ missed' = missed \cup InSeq(outbox)
  BY DEF Lose, page, tab
<1>3. SilentUntilRelay' /\ \A x : Undelivered(x) => Undelivered(x)'
  BY <1>2 DEF SilentUntilRelay, Undelivered, InFlight, Readable
<1>4. \A s \in Sensors : live'[s].number >= live[s].number
  BY <1>1, <1>2, ConstantsAssumption DEF PageOK, Shows
<1> QED
  BY <1>2, <1>3, <1>4 DEF Carried

\* A summary fills in what the page does not show, and only that.
LEMMA PageCarries ==
  ASSUME TypeOK, Blank, SilentUntilRelay,
         Suspend \/ Expire \/ Apply \/ RotateElsewhere \/ Mount \/ Hide
  PROVE  SilentUntilRelay' /\ Carried
<1>1. PageOK
  BY TypeParts
<1>2. UNCHANGED <<latest, outbox, sockets, missed>>
  BY DEF Suspend, Expire, Apply, RotateElsewhere, Mount, Hide, backend, session
<1>3. ASSUME NEW s \in Sensors, live[s].from = "socket"
      PROVE  live'[s] = live[s]
  <2>1. CASE Suspend \/ Expire \/ RotateElsewhere \/ Hide
    BY <2>1 DEF Suspend, Expire, RotateElsewhere, Hide, tab
  <2>2. CASE Apply
    BY <1>3, <2>2, NoEntryTyped DEF Apply, Merged
  <2>3. CASE Mount
    BY <1>3, <2>3 DEF Mount, Blank
  <2> QED
    BY <2>1, <2>2, <2>3
<1>4. \A s \in Sensors : live[s].number \in Nat
  BY <1>1, ConstantsAssumption DEF PageOK, Shows
<1>5. \A s \in Sensors : live[s].from = "socket" =>
        live'[s].from = "socket" /\ live'[s].number >= live[s].number
  BY <1>3, <1>4
<1>6. SilentUntilRelay' /\ \A x : Undelivered(x) => Undelivered(x)'
  BY <1>2 DEF SilentUntilRelay, Undelivered, InFlight, Readable
<1> QED
  BY <1>2, <1>5, <1>6 DEF Carried

LEMMA SupplyInit == Init => SupplyInv
<1> SUFFICES ASSUME Init PROVE SupplyInv
  OBVIOUS
<1>1. SilentUntilRelay
  BY UnusedTyped DEF Init, SilentUntilRelay
<1>2. Supplied
  BY DEF Init, Supplied
<1> QED
  BY <1>1, <1>2, OrderInit DEF SupplyInv

LEMMA SupplyStep ==
  ASSUME SupplyInv, [Next]_vars
  PROVE  SupplyInv'
<1>1. TypeOK /\ Blank /\ InOrder /\ SilentUntilRelay /\ OrderInv
  BY DEF SupplyInv, OrderInv
<1>2. OrderInv'
  BY <1>1, OrderStep
<1>3. CASE Next
  <2>1. CASE \E s \in Sensors : Commit(s)
    BY <1>1, <1>2, <2>1, CommitCarries, CarriedKeeps
  <2>2. CASE Publish
    BY <1>1, <1>2, <2>2, PublishCarries, CarriedKeeps
  <2>3. CASE Suspend \/ Expire \/ Apply \/ RotateElsewhere \/ Mount \/ Hide
    BY <1>1, <1>2, <2>3, PageCarries, CarriedKeeps
  <2>4. CASE SignOut \/ Unmount
    BY <1>1, <1>2, <2>4, LeaveSupplies DEF SupplyInv
  <2>6. CASE Lose
    BY <1>1, <1>2, <2>6, LoseCarries, CarriedKeeps
  <2>5. ASSUME NEW k \in SocketIds, Handler(k) \/ Browser(k) \/ Drop(k) \/ Rotate(k)
        PROVE  SupplyInv'
    <3>1. CASE Receive(k)
      BY <1>1, <1>2, <3>1, ReceiveCarries, CarriedKeeps
    <3>2. CASE Handler(k)
      BY <1>1, <1>2, <3>2, HandlerCarries, CarriedKeeps
    <3>3. CASE Open(k) \/ Closed(k) \/ ClosedByUs(k) \/ Drop(k) \/ Retry(k)
      BY <1>1, <1>2, <3>3, BrowserCarries, CarriedKeeps
    <3>4. CASE Rotate(k)
      BY <1>1, <1>2, <3>4, RotateCarries, CarriedKeeps
    <3> QED
      BY <2>5, <3>1, <3>2, <3>3, <3>4 DEF Browser
  <2> QED
    BY <1>3, <2>1, <2>2, <2>3, <2>4, <2>5, <2>6 DEF Next
<1>4. CASE UNCHANGED vars
  <2>1. UNCHANGED <<latest, outbox, sockets, live, missed>>
    BY <1>4 DEF vars, backend, session, page, tab
  <2>2. SilentUntilRelay' /\ Supplied'
    BY <2>1 DEF SupplyInv, SilentUntilRelay, Supplied, UpToDate, Shown,
       Undelivered, InFlight, Readable
  <2> QED
    BY <1>2, <2>2 DEF SupplyInv
<1> QED
  BY <1>3, <1>4

\* The page is behind the database only by readings that are still on their
\* way or that no socket could bring, for any sensors, sockets, rotations and
\* cuts: what reached the socket it reads is neither overwritten nor forgotten
\* (ws_routes.py:54-81, use-live.ts:25-47, dashboard.tsx:57-84).
THEOREM BehindByLossOnlyCorrect == Spec => []BehindByLossOnly
<1>1. SupplyInv => BehindByLossOnly
  <2> SUFFICES ASSUME SupplyInv, NEW s \in Sensors, mounted, Shown(s) < latest[s]
               PROVE  Coming(s) \/ <<s, latest[s]>> \in missed
    BY DEF BehindByLossOnly
  <2>1. Shown(s) \in Nat /\ latest[s] \in Nat
    BY TypeParts, ConstantsAssumption DEF SupplyInv, OrderInv, FeedOK, PageOK, Shows, Shown
  <2>2. Undelivered(<<s, latest[s]>>)
    BY <2>1 DEF SupplyInv, Supplied, UpToDate
  <2> QED
    BY <2>2 DEF Undelivered, InFlight, Coming
<1>2. SupplyInv /\ [Next]_vars => SupplyInv'
  BY SupplyStep
<1> QED
  BY <1>1, <1>2, SupplyInit, PTL DEF Spec
=============================================================================

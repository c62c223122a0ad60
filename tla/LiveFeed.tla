------------------------------ MODULE LiveFeed ------------------------------
(***************************************************************************)
(* The live feed of one account and the dashboard of one browser tab: the  *)
(* collector publishes readings on a Redis channel (core/live.py), the     *)
(* handler of /ws/live relays it (api/ws_routes.py), the hook              *)
(* useLiveReadings keeps a socket open (hooks/use-live.ts), and the page   *)
(* merges the readings with the summary it polls (pages/dashboard.tsx).    *)
(*                                                                         *)
(* A handler is a coroutine: decoding and looking up the token, reading    *)
(* the account, and subscribing are awaits, so are steps of their own.  In *)
(* the browser every callback runs to its end: one step each.              *)
(* The dashboard is mounted while its route is shown: navigating away runs *)
(* the cleanup of its effects and drops its state, and coming back starts  *)
(* both again from the summary the query cache kept (a reload of the tab   *)
(* does the same with nothing kept).  A tab that is hidden keeps its       *)
(* socket and its timers, but TanStack Query pauses its polls: no query    *)
(* sets refetchIntervalInBackground.  Hide stands for the moment the last  *)
(* request sent before it has been answered.                               *)
(*                                                                         *)
(* Readings of a sensor are numbered in the order they were taken.  The    *)
(* summary's list of the latest reading of each sensor is the only part of *)
(* it modelled; "online" is derived from that reading's date.  The token   *)
(* is a generation number: 0 once the tab is signed out, one more after    *)
(* each rotation.                                                          *)
(***************************************************************************)
EXTENDS Integers, Sequences

CONSTANTS
  Sensors,
  SocketIds,    \* sockets that can exist at a time
  NoSocket,
  MaxReadings,  \* bound: readings of a sensor
  MaxTokens,    \* bound: access tokens the tab obtains
  MaxDrops      \* bound: connections the network cuts

ASSUME ConstantsAssumption ==
  /\ NoSocket \notin SocketIds
  /\ MaxReadings \in Nat /\ MaxTokens \in Nat \ {0} /\ MaxDrops \in Nat

VARIABLES
  latest,     \* table readings: number of the sensor's last one
  outbox,     \* committed by the collector, not published yet
  account,    \* accounts.status
  token,      \* the token in the tab's store
  valid,      \* whether decode_token and the blacklist still accept it
  sockets,    \* both ends of each socket, with the text frames in between
  mounted,    \* the dashboard is the page of the tab
  visible,    \* the tab is not hidden
  current,    \* the socket of the effect that runs, if one exists
  connected, live,  \* React state of the hook and of the page
  missed,     \* history: readings no socket of this mount could bring
  drops

backend == <<latest, outbox, account>>
session == <<token, valid>>
tab == <<current, connected, live>>
page == <<mounted, visible>>
vars == <<backend, session, sockets, page, tab, missed, drops>>

----------------------------------------------------------------------------
SignedOut == token = 0
\* What the page shows of a sensor, and where it comes from.
NoEntry == [number |-> 0, from |-> "nothing"]
Entry(n, from) == IF n = 0 THEN NoEntry ELSE [number |-> n, from |-> from]
Shown(s) == live[s].number
Readings == Sensors \X (1..MaxReadings)
\* What the table held at some moment, or nothing.
Summaries == {f \in [Sensors -> 0..MaxReadings] : \A s \in Sensors : f[s] <= latest[s]}

\* client: "connecting", "open", "leaving" (closed by the effect's cleanup;
\* its onclose has not run) or "gone" (no callback of it matters any more).
\* server: the await the handler is at.
Unused == [client |-> "gone", server |-> "ended", token |-> 0, wire |-> <<>>]
Fresh(t) == [client |-> "connecting", server |-> "token", token |-> t, wire |-> <<>>]
Readable(k) == sockets[k].client \in {"connecting", "open"}
Relaying == {k \in SocketIds : sockets[k].server = "relay"}
Reaching == {k \in Relaying : Readable(k)}
InSeq(seq) == {seq[i] : i \in DOMAIN seq}

\* Readings a page that is mounted from now on can get from no socket.
Published == {r \in Readings : r[2] <= latest[r[1]]} \ InSeq(outbox)

\* A socket neither end uses any more leaves nothing behind.
Settled(f) == [k \in SocketIds |->
  IF f[k].client = "gone" /\ f[k].server = "ended" THEN Unused ELSE f[k]]
SetSocket(k, record) == sockets' = Settled([sockets EXCEPT ![k] = record])

----------------------------------------------------------------------------
(* The collector and the administrator.                                    *)

Commit(s) ==
  /\ latest[s] < MaxReadings
  /\ latest' = [latest EXCEPT ![s] = @ + 1]
  /\ outbox' = Append(outbox, <<s, latest[s] + 1>>)
  /\ UNCHANGED <<account, session, sockets, page, tab, missed, drops>>

Publish_LastFirst ==
  LET r == outbox[Len(outbox)] IN
  /\ outbox # <<>>
  /\ outbox' = SubSeq(outbox, 1, Len(outbox) - 1)
  /\ sockets' = [k \in SocketIds |-> IF k \in Reaching
                   THEN [sockets[k] EXCEPT !.wire = Append(@, r)] ELSE sockets[k]]
  /\ missed' = IF Reaching # {} THEN missed ELSE missed \cup {r}
  /\ UNCHANGED <<latest, account, session, page, tab, drops>>
\* PUBLISH: every handler that is subscribed sends it on its socket, where it
\* goes nowhere if the browser has left.
Publish ==
  LET r == Head(outbox) IN
  /\ outbox # <<>>
  /\ outbox' = Tail(outbox)
  /\ sockets' = [k \in SocketIds |-> IF k \in Reaching
                   THEN [sockets[k] EXCEPT !.wire = Append(@, r)] ELSE sockets[k]]
  /\ missed' = IF Reaching # {} THEN missed ELSE missed \cup {r}
  /\ UNCHANGED <<latest, account, session, page, tab, drops>>

\* A death of the collector between its COMMIT and its last PUBLISH, or a
\* hand-over that raises: what is stored and not published yet never is.
Lose ==
  /\ outbox # <<>>
  /\ outbox' = <<>> /\ missed' = missed \cup InSeq(outbox)
  /\ UNCHANGED <<latest, account, session, sockets, page, tab, drops>>

Suspend ==
  /\ account = "ACTIVE"
  /\ account' = "SUSPENDED"
  /\ UNCHANGED <<latest, outbox, session, sockets, page, tab, missed, drops>>

----------------------------------------------------------------------------
(* The handler ws_live.                                                    *)

Accepts(t) == t = token /\ valid

\* decode_token, then is_revoked; 4401 otherwise.
CheckToken(k) ==
  /\ sockets[k].server = "token"
  /\ SetSocket(k, [sockets[k] EXCEPT
       !.server = IF Accepts(sockets[k].token) THEN "account" ELSE "ended"])
  /\ UNCHANGED <<backend, session, page, tab, missed, drops>>

\* session.get(Account), then accept(): from here on the handler holds a
\* connection of the pool of the database.
CheckAccount(k) ==
  /\ sockets[k].server = "account"
  /\ SetSocket(k, [sockets[k] EXCEPT
       !.server = IF account = "ACTIVE" THEN "accepted" ELSE "ended"])
  /\ UNCHANGED <<backend, session, page, tab, missed, drops>>

Subscribe(k) ==
  /\ sockets[k].server = "accepted"
  /\ SetSocket(k, [sockets[k] EXCEPT !.server = "relay"])
  /\ UNCHANGED <<backend, session, page, tab, missed, drops>>

NoticeGone_WhenSending(k) ==
  /\ sockets[k].server = "relay" /\ ~ Readable(k) /\ outbox # <<>>
  /\ SetSocket(k, [sockets[k] EXCEPT !.server = "ended", !.wire = <<>>])
  /\ UNCHANGED <<backend, session, page, tab, missed, drops>>
\* _detect_disconnect returns (or a send fails): both tasks end, the handler
\* unsubscribes and gives its connection of the database back.
NoticeGone(k) ==
  /\ sockets[k].server = "relay" /\ ~ Readable(k)
  /\ SetSocket(k, [sockets[k] EXCEPT !.server = "ended", !.wire = <<>>])
  /\ UNCHANGED <<backend, session, page, tab, missed, drops>>

----------------------------------------------------------------------------
(* The hook useLiveReadings.                                               *)

Open(k) ==
  /\ sockets[k].client = "connecting"
  /\ sockets[k].server \in {"accepted", "relay"}
  /\ SetSocket(k, [sockets[k] EXCEPT !.client = "open"])
  /\ connected' = TRUE
  /\ UNCHANGED <<backend, session, page, current, live, missed, drops>>

\* onmessage; a socket that is being closed delivers nothing any more.
Receive(k) ==
  /\ sockets[k].client = "open" /\ sockets[k].wire # <<>>
  /\ LET r == Head(sockets[k].wire) IN live' = [live EXCEPT ![r[1]] = Entry(r[2], "socket")]
  /\ SetSocket(k, [sockets[k] EXCEPT !.wire = Tail(@)])
  /\ UNCHANGED <<backend, session, page, current, connected, missed, drops>>

\* onclose of the effect's own socket: refused by the handler.  The timer
\* that connects again is armed: current = NoSocket.
Closed(k) ==
  /\ Readable(k) /\ sockets[k].server = "ended"
  /\ SetSocket(k, Unused) /\ connected' = FALSE /\ current' = NoSocket
  /\ UNCHANGED <<backend, session, page, live, missed, drops>>

Drop_NoRetry(k) ==
  /\ Readable(k) /\ drops < MaxDrops
  /\ SetSocket(k, [sockets[k] EXCEPT !.client = "gone", !.wire = <<>>])
  /\ missed' = missed \cup InSeq(sockets[k].wire)
  /\ connected' = FALSE /\ drops' = drops + 1
  /\ UNCHANGED <<backend, session, page, current, live>>
\* The network cuts the connection: onclose runs in the browser, and the
\* handler notices later.  The frames under way are lost.
Drop(k) ==
  /\ Readable(k) /\ drops < MaxDrops
  /\ SetSocket(k, [sockets[k] EXCEPT !.client = "gone", !.wire = <<>>])
  /\ missed' = missed \cup InSeq(sockets[k].wire)
  /\ connected' = FALSE /\ current' = NoSocket
  /\ drops' = drops + 1
  /\ UNCHANGED <<backend, session, page, live>>

\* onclose of a socket the cleanup has closed: no retry, but the indicator.
ClosedByUs(k) ==
  /\ sockets[k].client = "leaving"
  /\ SetSocket(k, [sockets[k] EXCEPT !.client = "gone"])
  /\ connected' = FALSE
  /\ UNCHANGED <<backend, session, page, current, live, missed, drops>>

\* The effect starts, or the timer (3 s) fires: the same URL, hence the same token.
Retry(k) ==
  /\ mounted /\ current = NoSocket /\ sockets[k] = Unused
  /\ SetSocket(k, Fresh(token)) /\ current' = k
  /\ UNCHANGED <<backend, session, page, connected, live, missed, drops>>

\* Cleanup of the effect, because the token changed.
Left(k) == IF k = NoSocket THEN sockets
           ELSE [sockets EXCEPT ![k].client = "leaving", ![k].wire = <<>>]
LostByLeaving == IF current = NoSocket THEN {} ELSE InSeq(sockets[current].wire)

\* The same cleanup because the page is left: the state of the hook goes with it,
\* so that no callback of its sockets matters any more.
PageLeft ==
  /\ mounted' = FALSE /\ connected' = FALSE /\ live' = [s \in Sensors |-> NoEntry]
  /\ sockets' = Settled([k \in SocketIds |->
                  [sockets[k] EXCEPT !.client = "gone", !.wire = <<>>]])
  /\ current' = NoSocket
  /\ missed' = missed \cup Published

----------------------------------------------------------------------------
(* The page, its polling and the token.                                    *)

Expire ==
  /\ valid /\ ~ SignedOut /\ token < MaxTokens
  /\ valid' = FALSE
  /\ UNCHANGED <<backend, token, sockets, page, tab, missed, drops>>

Merged_SeedWins(seed) ==
  [s \in Sensors |-> IF seed[s] > 0 THEN Entry(seed[s], "summary") ELSE live[s]]
\* {...seed, ...previous}
Merged(seed) ==
  [s \in Sensors |-> IF live[s] # NoEntry THEN live[s] ELSE Entry(seed[s], "summary")]

\* The answer to a poll of the summary (every 5 s), which may be late: it tells
\* what the table held at some moment.
Apply ==
  /\ mounted /\ visible
  /\ \E seed \in Summaries : live' = Merged(seed)
  /\ UNCHANGED <<backend, session, sockets, page, current, connected, missed, drops>>

\* A poll gets a 401, and the refresh a new token.
NewToken ==
  /\ visible /\ ~ SignedOut /\ ~ valid /\ account = "ACTIVE" /\ token < MaxTokens
  /\ token' = token + 1 /\ valid' = TRUE

\* On the dashboard: cleanup, and a new socket.
Rotate(k) ==
  /\ NewToken /\ mounted /\ sockets[k] = Unused
  /\ sockets' = [Left(current) EXCEPT ![k] = Fresh(token + 1)]
  /\ current' = k
  /\ missed' = missed \cup LostByLeaving
  /\ UNCHANGED <<backend, page, connected, live, drops>>

RotateElsewhere ==
  /\ NewToken /\ ~ mounted
  /\ UNCHANGED <<backend, sockets, page, tab, missed, drops>>

SignOut_WithoutCleanup ==
  /\ visible /\ ~ SignedOut
  /\ token' = 0 /\ valid' = FALSE
  /\ mounted' = FALSE /\ live' = [s \in Sensors |-> NoEntry]
  /\ UNCHANGED <<backend, visible, sockets, current, connected, missed, drops>>
\* The store is cleared, and the tab sent to the page of the login: by the
\* user's logout, or because a poll gets a 401 and its refresh fails, refused
\* for an account that is suspended or lost on the network for any account.
SignOut ==
  /\ visible /\ ~ SignedOut
  /\ token' = 0 /\ valid' = FALSE
  /\ PageLeft
  /\ UNCHANGED <<backend, visible, drops>>

\* The user goes to another page of the application, and comes back: to a page
\* that starts from the summary in the cache, some earlier one, or none.
Unmount ==
  /\ mounted /\ visible
  /\ PageLeft
  /\ UNCHANGED <<backend, session, visible, drops>>

Mount ==
  /\ ~ mounted /\ visible /\ ~ SignedOut
  /\ mounted' = TRUE
  /\ \E cached \in Summaries :
       live' = [s \in Sensors |-> Entry(cached[s], "summary")]
  /\ UNCHANGED <<backend, session, sockets, visible, current, connected, missed, drops>>

\* The tab is hidden, or shown again (refetchOnWindowFocus is off).  Off the
\* dashboard it would only keep the user and the polls idle.
Hide ==
  /\ mounted
  /\ visible' = ~ visible
  /\ UNCHANGED <<backend, session, sockets, mounted, tab, missed, drops>>

----------------------------------------------------------------------------
Init ==
  /\ latest = [s \in Sensors |-> 0] /\ outbox = <<>> /\ account = "ACTIVE"
  /\ token = 1 /\ valid = TRUE
  /\ sockets = [k \in SocketIds |-> Unused]
  /\ mounted = TRUE /\ visible = TRUE
  /\ current = NoSocket /\ connected = FALSE /\ live = [s \in Sensors |-> NoEntry]
  /\ missed = {} /\ drops = 0

Handler(k) == CheckToken(k) \/ CheckAccount(k) \/ Subscribe(k) \/ NoticeGone(k)
Browser(k) == \/ Open(k) \/ Receive(k) \/ Closed(k) \/ ClosedByUs(k)
              \/ Retry(k)

Next == \/ \E s \in Sensors : Commit(s)
        \/ Publish \/ Lose \/ Suspend \/ Expire \/ Apply \/ SignOut
        \/ RotateElsewhere \/ Mount \/ Unmount \/ Hide
        \/ \E k \in SocketIds : Handler(k) \/ Browser(k) \/ Drop(k) \/ Rotate(k)

\* The dashboard of a suspended account polls, and is refused.
Refused == mounted /\ account = "SUSPENDED" /\ SignOut

\* The processes and the browser run: the timers fire, the polls of a dashboard
\* that stays visible are sent, what is asked is answered.  Nothing obliges
\* readings to be taken, tokens to expire, accounts to be suspended, connections
\* to break, the user to come back to the tab or to the page, or other pages to
\* poll (that of the settings does not).
Fairness ==
  /\ \A k \in SocketIds : WF_vars(Handler(k)) /\ WF_vars(Browser(k))
  /\ WF_vars(\E k \in SocketIds : Rotate(k))
  /\ WF_vars(Refused)

Spec == Init /\ [][Next]_vars /\ Fairness

----------------------------------------------------------------------------
TypeOK ==
  /\ latest \in [Sensors -> 0..MaxReadings]
  /\ live \in [Sensors -> [number: 0..MaxReadings, from: {"nothing", "summary", "socket"}]]
  /\ outbox \in Seq(Readings) /\ missed \subseteq Readings
  /\ account \in {"ACTIVE", "SUSPENDED"}
  /\ token \in 0..MaxTokens /\ valid \in BOOLEAN
  /\ sockets \in [SocketIds ->
       [client: {"connecting", "open", "leaving", "gone"},
        server: {"token", "account", "accepted", "relay", "ended"},
        token: 0..MaxTokens, wire: Seq(Readings)]]
  /\ current \in SocketIds \cup {NoSocket}
  /\ \A k \in SocketIds : Readable(k) => k = current
  /\ connected \in BOOLEAN /\ mounted \in BOOLEAN /\ visible \in BOOLEAN
  /\ drops \in Nat

\* As long as the page is mounted, a sensor that shows a reading of the feed
\* never goes back to an older one, although summaries are answered late and two
\* sockets overlap at each rotation.  (A summary may show a reading that is still
\* to be published: the feed then goes back behind it, until it catches up.  A
\* page that is mounted again starts from the summary in the cache, which may be
\* older than what its predecessor showed.)
NeverBackwards ==
  [][\A s \in Sensors : live[s].from = "socket" /\ mounted' =>
       live'[s].number >= live[s].number]_vars

Coming(s) ==
  \/ <<s, latest[s]>> \in InSeq(outbox)
  \/ \E k \in SocketIds : Readable(k) /\ <<s, latest[s]>> \in InSeq(sockets[k].wire)

\* The page is behind the database only by readings no socket of this mount
\* could bring, those the collector never publishes among them: nothing that
\* reached an open socket is overwritten or forgotten.
BehindByLossOnly ==
  \A s \in Sensors : mounted /\ Shown(s) < latest[s] =>
    Coming(s) \/ <<s, latest[s]>> \in missed

\* The dashboard of an active account always gets a socket open again, after
\* cuts, refusals and rotations, in a hidden tab too: but not once the token of
\* a hidden tab has expired, for nothing polls there, and the hook tries the
\* same token for ever.
Reopens ==
  []<>(~ mounted \/ account = "SUSPENDED" \/ (~ visible /\ ~ valid)
       \/ \E k \in SocketIds : sockets[k].client = "open")

\* The handler of a socket the browser left gives its subscription and its
\* connection of the database back, even if nothing is published any more.
Released == \A k \in SocketIds :
  ~ Readable(k) ~> sockets[k].server = "ended"

\* The handler checks the token and the account once, so that a socket outlives
\* a suspension, a revocation and the end of its token.  It ends because the
\* dashboard polls, is refused, and rotates the token or signs the tab out: if
\* somebody leaves the page on show, for a hidden tab keeps receiving.
Attended == SignedOut \/ (mounted /\ visible)
Entitled(k) == account = "ACTIVE" /\ Accepts(sockets[k].token)
RefusalReachesSocket ==
  <>[]Attended => \A k \in SocketIds :
    (k \in Relaying /\ ~ Entitled(k)) ~> k \notin Relaying

\* dashboard.tsx:144 shows "En direct" or "Hors ligne" (i18n/fr/common.json:31)
\* after `connected`: a socket that is open, with none left to close, is shown
\* as live.
OpenIsShown ==
  (\E k \in SocketIds : sockets[k].client = "open")
  /\ (\A k \in SocketIds : sockets[k].client # "leaving") => connected
=============================================================================

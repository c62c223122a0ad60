------------------------ MODULE SessionClientProofs ------------------------
(***************************************************************************)
(* Proofs about SessionClient, for any tabs, accounts and requests: that   *)
(* every cookie and token is a pair the server issued; that a refresh      *)
(* always has one request that leads it and gathers those that wait; that  *)
(* a tab that left stays out, that a tab shows one account, and that the   *)
(* cookie is one the server accepts.                                       *)
(*                                                                         *)
(* RefreshHasLeader counts requests.  Its inductive form, Coherent, says   *)
(* which set leads instead, and adds that a request under way is in a tab. *)
(* The other three stand on it, each with an invariant of its own about    *)
(* the exchanges in flight.                                                *)
(***************************************************************************)
EXTENDS SessionClient, FiniteSetTheorems, TLAPS

\* What a request may be, from TypeOK.
Request ==
  [state: {"idle", "sent", "ok", "401", "waiting", "leading"},
   tab: Tabs \cup {NoTab}, kind: {"get", "logout"}, token: Issued \cup {0},
   cookie: Issued \cup {0}, retry: BOOLEAN, wanted: BOOLEAN]

\* A pair the server has looked up, or answered with, is one it has issued: the
\* 0 of "no cookie" and "no token" has been refused before.
Granted ==
  /\ \A t \in Tabs : exchange[t].state = "checked" => exchange[t].cookie \in Issued
  /\ \A r \in Requests : Is(r, "ok") => requests[r].token \in Issued

TypeInv == TypeOK /\ Granted

Leading(t) == {r \in InTab(t) : Is(r, "leading")}
Waiting(t) == {r \in InTab(t) : Is(r, "waiting")}

Coherent ==
  /\ \A t \in Tabs :
       /\ refreshing[t] <=> exchange[t].state # "none"
       /\ refreshing[t] => \E r \in Requests : Leading(t) = {r}
       /\ ~ refreshing[t] => Leading(t) = {} /\ Waiting(t) = {}
       /\ waiters[t] = Waiting(t)
  /\ \A r \in Requests : ~ Is(r, "idle") => requests[r].tab \in Tabs

----------------------------------------------------------------------------
(* Types.                                                                  *)

\* Nothing but an issue changes the set of pairs issued.
LEMMA IssuedKept ==
  ASSUME owner' = owner
  PROVE  Issued' = Issued /\ Cardinality(Issued)' = Cardinality(Issued)
BY DEF Issued

\* A new pair takes the next number.
LEMMA IssuedGrows ==
  ASSUME TypeOK, NEW a \in Accounts, NextPair \in Pairs, Issue(a)
  PROVE  /\ owner' \in [Pairs -> Accounts \cup {NoAccount}]
         /\ Issued' = Issued \cup {NextPair} /\ Issued \subseteq Issued'
         /\ Issued' = 1..Cardinality(Issued')
<1> DEFINE n == Cardinality(Issued)
<1>1. NextPair = n + 1 /\ n + 1 \in 1..MaxPairs /\ Issued = 1..n
  BY DEF TypeOK, NextPair, Pairs
<1>2. n \in Nat
  <2>1. n + 1 \in Nat /\ MaxPairs \in Nat
    BY <1>1, ConstantsAssumption
  <2>2. IsFiniteSet(Issued)
    <3>1. IsFiniteSet(1..MaxPairs)
      BY FS_Interval, ConstantsAssumption
    <3> QED
      BY <3>1, FS_Subset DEF Issued, Pairs
  <2> QED
    BY <2>2, FS_CardinalityType
<1>3. Issued' = Issued \cup {n + 1}
  BY <1>1, ConstantsAssumption DEF Issued, Issue, Pairs, TypeOK
<1>4. Issued' = 1..(n + 1)
  BY <1>1, <1>2, <1>3
<1>5. Cardinality(1..(n + 1)) = n + 1
  BY <1>2, FS_Interval
<1>6. owner' \in [Pairs -> Accounts \cup {NoAccount}]
  BY <1>1 DEF Issue, TypeOK, Pairs
<1> QED
  BY <1>1, <1>3, <1>4, <1>5, <1>6

LEMMA ZeroNotIssued == 0 \notin Issued
BY ConstantsAssumption DEF Issued, Pairs

\* What the steps make of a request is a request.
LEMMA RequestTyped ==
  ASSUME NEW q \in Request
  PROVE  /\ \A n, jar \in Issued \cup {0} : Sent(q, n, jar) \in Request
         /\ Refused(q, "401") \in Request
         /\ [q EXCEPT !.state = "ok"] \in Request
         /\ \A b \in BOOLEAN : [q EXCEPT !.wanted = b] \in Request
         /\ Idle \in Request
BY DEF Request, Sent, Refused, Idle

\* Their state, and the fields they keep.
LEMMA RequestFields ==
  ASSUME NEW q \in Request
  PROVE  /\ \A n, jar \in Issued \cup {0} : /\ Sent(q, n, jar).state = "sent"
                                         /\ Sent(q, n, jar).tab = q.tab
         /\ Refused(q, "401").state = "401" /\ Refused(q, "401").tab = q.tab
         /\ LET ok == [q EXCEPT !.state = "ok"] IN
            ok.state = "ok" /\ ok.tab = q.tab /\ ok.token = q.token
         /\ LET unwanted == [q EXCEPT !.wanted = FALSE] IN
            /\ unwanted.state = q.state /\ unwanted.tab = q.tab
            /\ unwanted.token = q.token
         /\ Idle.state = "idle" /\ Idle.tab = NoTab
BY DEF Request, Sent, Refused, Idle

LEMMA UnwantedFields ==
  ASSUME requests \in [Requests -> Request], NEW t, NEW q \in Requests
  PROVE  /\ Unwanted(t)[q] \in Request
         /\ Unwanted(t)[q].state = requests[q].state
         /\ Unwanted(t)[q].tab = requests[q].tab
         /\ Unwanted(t)[q].token = requests[q].token
BY RequestTyped, RequestFields DEF Unwanted

\* Pairs once issued stay issued: what was a request stays one.
LEMMA RequestsGrow ==
  ASSUME Issued \subseteq Issued', NEW q \in Request
  PROVE  q \in Request'
BY DEF Request

LEMMA OverTyped ==
  ASSUME TypeOK, NEW t \in Tabs, NEW b \in BOOLEAN, Over(t, b)
  PROVE  /\ refreshing' \in [Tabs -> BOOLEAN] /\ left' \in [Tabs -> BOOLEAN]
         /\ late' \in [Tabs -> SUBSET Tabs]
         /\ exchange' = [exchange EXCEPT ![t] = NoExchange]
<1>1. left' \in [Tabs -> BOOLEAN]
  <2>1. \A u \in Tabs : (left[u] /\ ~ (b /\ t \in late[u])) \in BOOLEAN
    OBVIOUS
  <2> QED
    BY <2>1 DEF Over
<1>2. late' \in [Tabs -> SUBSET Tabs]
  BY DEF Over, TypeOK
<1> QED
  BY <1>1, <1>2 DEF Over, TypeOK

\* Every message, cookie and store holds a pair that was issued, or none.
THEOREM TypeCorrect == Spec => []TypeInv
<1>1. Init => TypeInv
  <2> SUFFICES ASSUME Init PROVE TypeInv
    OBVIOUS
  <2>1. Issued = {}
    BY DEF Init, Issued
  <2>2. Cardinality({}) = 0 /\ 1..0 = {}
    BY FS_EmptySet
  <2> QED
    BY <2>1, <2>2 DEF Init, TypeInv, TypeOK, Granted, Is, NoExchange, Idle
<1>2. TypeInv /\ [Next]_vars => TypeInv'
  <2> SUFFICES ASSUME TypeInv, [Next]_vars PROVE TypeInv'
    OBVIOUS
  <2> USE DEF TypeInv, Granted, Is
  <2>0. requests \in [Requests -> Request]
    BY DEF TypeOK, Request
  <2>1. CASE UNCHANGED vars
    BY <2>1, IssuedKept DEF vars, server, browser, tab, history, TypeOK
  <2>2. ASSUME NEW t \in Tabs, NEW a \in Accounts, Login(t, a) PROVE TypeInv'
    <3>1. NextPair \in Pairs /\ Issue(a)
      BY <2>2 DEF Login
    <3>2. NextPair \in Issued' /\ Issued \subseteq Issued'
      BY <3>1, IssuedGrows
    <3>3. UNCHANGED <<accessDead, refreshDead, browser, tab, exchange, requests, history, losses>>
          /\ login' = [login EXCEPT ![t] = NextPair]
      BY <2>2 DEF Login
    <3>4. requests' \in [Requests -> Request']
      BY <2>0, <3>2, <3>3, RequestsGrow
    <3>5. Granted'
      BY <3>2, <3>3
    <3>6. login' \in [Tabs -> Issued' \cup {0}]
      BY <3>2, <3>3 DEF TypeOK
    <3>7. exchange' \in [Tabs -> [state: {"none", "sent", "checked", "rotated", "failed"},
                            cookie: Issued' \cup {0}, pair: Issued' \cup {0}]]
      BY <3>2, <3>3 DEF TypeOK
    <3> QED
      BY <3>1, <3>2, <3>3, <3>4, <3>5, <3>6, <3>7, IssuedGrows
      DEF TypeOK, Request, browser, tab, history
  <2>8. ASSUME NEW t \in Tabs, LoggedIn(t) \/ LoginFails(t) PROVE TypeInv'
    <3>1. CASE LoggedIn(t)
      <4>1. requests' \in [Requests -> Request]
        BY <2>0, <3>1, RequestTyped DEF LoggedIn, Unwanted
      <4>2. \A r \in Requests : Is(r, "ok")' => requests'[r].token \in Issued
        BY <2>0, <3>1 DEF LoggedIn, Unwanted, Request
      <4>3. foreign' \in [Tabs -> BOOLEAN]
        <5>1. Overtaking(owner[login[t]]) \in BOOLEAN
          BY DEF Overtaking
        <5> QED
          BY <3>1, <5>1 DEF LoggedIn
      <4>4. left' \in [Tabs -> BOOLEAN] /\ late' \in [Tabs -> SUBSET Tabs]
        BY <3>1 DEF LoggedIn
      <4> QED
        BY <3>1, <4>1, <4>2, <4>3, <4>4, IssuedKept DEF LoggedIn, TypeOK, server, Request
    <3>2. CASE LoginFails(t)
      BY <3>2, IssuedKept DEF LoginFails, TypeOK, server, browser, tab, history
    <3> QED
      BY <2>8, <3>1, <3>2
  <2>3. ASSUME NEW t \in Tabs, OpenPage(t) PROVE TypeInv'
    <3>1. Overtaking(owner[stored]) \in BOOLEAN
      BY DEF Overtaking
    <3>2. foreign' \in [Tabs -> BOOLEAN]
      BY <2>3, <3>1 DEF OpenPage, TypeOK
    <3> QED
      BY <2>3, <3>2, IssuedKept DEF OpenPage, TypeOK, server, browser
  <2>4. ASSUME NEW r \in Requests, NEW t \in Tabs, NEW kind \in {"get", "logout"},
               Send(r, t, kind)
        PROVE TypeInv'
    <3>1. requests' \in [Requests -> Request]
      BY <2>0, <2>4 DEF Send, TypeOK, Sent, Idle, Request
    <3>2. \A q \in Requests : Is(q, "ok")' => requests'[q].token \in Issued
      BY <2>0, <2>4 DEF Send, Sent, Idle, Request
    <3> QED
      BY <2>4, <3>1, <3>2, IssuedKept
      DEF Send, TypeOK, server, browser, tab, history, Request
  <2>5. ASSUME NEW r \in Requests, Progress(r) \/ RequestFails(r) PROVE TypeInv'
    <3>1. CASE Serve(r)
      <4>1. requests' \in [Requests -> Request]
        BY <3>1, <2>0, RequestTyped DEF Serve
      <4>2. \A q \in Requests : Is(q, "ok")' => requests'[q].token \in Issued
        BY <3>1, <2>0, RequestFields DEF Serve, Accepted
      <4> QED
        BY <3>1, <4>1, <4>2, IssuedKept
        DEF Serve, TypeOK, browser, tab, history, Accepted, Request
    <3>2. CASE Show(r)
      <4>1. requests' \in [Requests -> Request]
        BY <3>2, <2>0, RequestTyped DEF Show
      <4>2. \A q \in Requests : Is(q, "ok")' => requests'[q].token \in Issued
        BY <3>2, <2>0 DEF Show, Idle
      <4>3. owner[requests[r].token] \in Accounts
        BY <3>2 DEF Show, TypeOK, Issued
      <4>4. cache' \in [Tabs -> SUBSET Accounts]
        BY <3>2, <4>3 DEF Show, TypeOK
      <4> QED
        BY <3>2, <4>1, <4>2, <4>4, IssuedKept
        DEF Show, TypeOK, server, browser, history, Request
    <3>3. CASE LoggedOut(r)
      <4>1. requests' \in [Requests -> Request]
        BY <3>3, <2>0, RequestTyped DEF LoggedOut, Unwanted
      <4>2. \A q \in Requests : Is(q, "ok")' => requests'[q].token \in Issued
        BY <3>3, <2>0 DEF LoggedOut, Unwanted, Idle, Request
      <4>3. left' \in [Tabs -> BOOLEAN] /\ late' \in [Tabs -> SUBSET Tabs]
        <5>2. left \in [Tabs -> BOOLEAN] /\ late \in [Tabs -> SUBSET Tabs] /\ Refreshing \subseteq Tabs
          BY DEF TypeOK, Refreshing
        <5> QED
          BY <3>3, <5>2 DEF LoggedOut
      <4> QED
        BY <3>3, <4>1, <4>2, <4>3, IssuedKept DEF LoggedOut, Leave, TypeOK, server, Request
    <3>4. CASE GiveUp(r) \/ RequestFails(r)
      <4>0. Rejected(r) /\ losses' \in Nat
        BY <3>4 DEF GiveUp, RequestFails, TypeOK
      <4>1. requests' \in [Requests -> Request]
        BY <4>0, <2>0, RequestTyped DEF Rejected, Unwanted
      <4>2. \A q \in Requests : Is(q, "ok")' => requests'[q].token \in Issued
        <5>1. \/ requests' = [Unwanted(requests[r].tab) EXCEPT ![r] = Idle]
              \/ requests' = [requests EXCEPT ![r] = Idle]
          BY <4>0 DEF Rejected
        <5>2. \A q \in Requests \ {r} : /\ requests'[q].state = requests[q].state
                                       /\ requests'[q].token = requests[q].token
          BY <5>1, <2>0, UnwantedFields DEF Unwanted
        <5>3. requests'[r].state = "idle"
          BY <5>1, <2>0 DEF Unwanted, Idle
        <5> QED
          BY <5>2, <5>3
      <4>3. /\ token' \in [Tabs -> Issued \cup {0}] /\ stored' \in Issued \cup {0}
            /\ cache' \in [Tabs -> SUBSET Accounts]
        BY <4>0 DEF Rejected, Leave, TypeOK
      <4> QED
        BY <4>0, <4>1, <4>2, <4>3, IssuedKept DEF Rejected, TypeOK, server, history, Request
    <3>5. CASE Wait(r)
      <4>1. requests' \in [Requests -> Request]
        BY <3>5, <2>0 DEF Wait, Request
      <4>2. \A q \in Requests : Is(q, "ok")' => requests'[q].token \in Issued
        BY <3>5, <2>0 DEF Wait, Request
      <4> QED
        BY <3>5, <4>1, <4>2, IssuedKept DEF Wait, TypeOK, server, browser, history, Request
    <3>6. CASE Lead(r)
      <4>1. requests' \in [Requests -> Request]
        BY <3>6, <2>0 DEF Lead, Request
      <4>2. \A q \in Requests : Is(q, "ok")' => requests'[q].token \in Issued
        BY <3>6, <2>0 DEF Lead, Request
      <4> QED
        BY <3>6, <4>1, <4>2, IssuedKept DEF Lead, TypeOK, server, browser, history, Request
    <3> QED
      BY <2>5, <3>1, <3>2, <3>3, <3>4, <3>5, <3>6 DEF Progress
  <2>6. ASSUME NEW t \in Tabs, Settle(t) \/ Lose(t) PROVE TypeInv'
    <3>1. CASE Check(t)
      <4> DEFINE v == [exchange[t] EXCEPT !.state = "checked"]
                 X == [state: {"none", "sent", "checked", "rotated", "failed"},
                       cookie: Issued \cup {0}, pair: Issued \cup {0}]
      <4>1. UNCHANGED <<server, browser, tab, login, requests, history, losses>>
        BY <3>1 DEF Check
      <4>2. exchange \in [Tabs -> X] /\ v \in X /\ v.cookie = exchange[t].cookie
            /\ Failed \in X /\ Failed.state = "failed"
        <5>1. exchange \in [Tabs -> X]
          BY DEF TypeOK
        <5>2. exchange[t] \in X
          BY <5>1
        <5>3. v \in X /\ v.cookie = exchange[t].cookie
          BY <5>2
        <5>4. Failed \in X /\ Failed.state = "failed"
          BY DEF Failed
        <5> QED
          BY <5>1, <5>3, <5>4
      <4>3. PICK w \in X : /\ exchange' = [exchange EXCEPT ![t] = w]
                           /\ w.state = "checked" => w.cookie \in Issued
        <5>1. CASE exchange[t].cookie \in Issued \ refreshDead
          BY <3>1, <4>2, <5>1 DEF Check
        <5>2. CASE exchange[t].cookie \notin Issued \ refreshDead
          BY <3>1, <4>2, <5>2 DEF Check
        <5> QED
          BY <5>1, <5>2
      <4> HIDE DEF X, v
      <4>4. exchange' \in [Tabs -> X]
        BY <4>2, <4>3
      <4>5. \A u \in Tabs : exchange'[u].state = "checked" => exchange'[u].cookie \in Issued
        BY <4>2, <4>3
      <4> QED
        BY <4>1, <4>4, <4>5, IssuedKept DEF TypeOK, server, browser, tab, history, X
    <3>2. CASE Rotate(t)
      <4>1. owner[exchange[t].cookie] \in Accounts /\ exchange[t].cookie \in Issued
        BY <3>2 DEF Rotate, TypeOK, Issued
      <4>2. NextPair \in Pairs /\ Issue(owner[exchange[t].cookie])
        BY <3>2 DEF Rotate
      <4>3. NextPair \in Issued' /\ Issued \subseteq Issued'
        BY <4>1, <4>2, IssuedGrows
      <4>4. requests' \in [Requests -> Request']
        BY <3>2, <2>0, <4>3, RequestsGrow DEF Rotate
      <4>5. exchange' \in [Tabs -> [state: {"none", "sent", "checked", "rotated", "failed"},
                            cookie: Issued' \cup {0}, pair: Issued' \cup {0}]]
        <5> DEFINE X(S) == [state: {"none", "sent", "checked", "rotated", "failed"},
                            cookie: S \cup {0}, pair: S \cup {0}]
        <5>1. \A u \in Tabs : exchange[u] \in X(Issued')
          BY <4>3 DEF TypeOK
        <5>2. [exchange[t] EXCEPT !.state = "rotated", !.pair = NextPair] \in X(Issued')
          BY <4>3, <5>1
        <5>3. exchange' = [exchange EXCEPT
                ![t] = [exchange[t] EXCEPT !.state = "rotated", !.pair = NextPair]]
          BY <3>2 DEF Rotate, TypeOK
        <5> HIDE DEF X
        <5>4. exchange' \in [Tabs -> X(Issued')]
          BY <5>1, <5>2, <5>3 DEF TypeOK
        <5> QED
          BY <5>4 DEF X
      <4>6. Granted'
        <5>1. \A r \in Requests : Is(r, "ok")' => requests'[r].token \in Issued'
          BY <3>2, <4>3 DEF Rotate
        <5>2. \A u \in Tabs : exchange'[u].state = "checked" => exchange'[u] = exchange[u]
          BY <3>2 DEF Rotate, TypeOK
        <5> QED
          BY <4>3, <5>1, <5>2
      <4> QED
        BY <3>2, <4>1, <4>2, <4>3, <4>4, <4>5, <4>6, IssuedGrows
        DEF Rotate, TypeOK, browser, tab, history, Request
    <3>3. CASE Lose(t)
      BY <3>3, IssuedKept DEF Lose, TypeOK, server, browser, tab, history, Failed
    <3>4. CASE Refreshed(t)
      <4>0. Over(t, TRUE)
        BY <3>4 DEF Refreshed
      <4>1. exchange[t].pair \in Issued \cup {0}
        BY DEF TypeOK
      <4>2. requests' \in [Requests -> Request]
        BY <3>4, <2>0, <4>1, RequestTyped DEF Refreshed
      <4>3. \A q \in Requests : Is(q, "ok")' => requests'[q].token \in Issued
        BY <3>4, <2>0, <4>1, RequestFields DEF Refreshed
      <4> QED
        <5>1. UNCHANGED <<server, cache, login, foreign, losses>>
              /\ cookie' = exchange[t].pair /\ stored' = exchange[t].pair
              /\ token' = [token EXCEPT ![t] = exchange[t].pair]
              /\ waiters' = [waiters EXCEPT ![t] = {}]
          BY <3>4 DEF Refreshed
        <5>2. exchange' = [exchange EXCEPT ![t] = NoExchange]
          BY <4>0, OverTyped
        <5>3. TypeOK'
          BY <4>0, <4>1, <4>2, <5>1, <5>2, IssuedKept, OverTyped
          DEF TypeOK, server, Request, NoExchange
        <5>4. \A u \in Tabs : exchange'[u].state = "checked" => exchange'[u].cookie \in Issued
          BY <5>2 DEF TypeOK, NoExchange
        <5> QED
          BY <4>3, <5>1, <5>3, <5>4, IssuedKept DEF server
    <3>5. CASE RefreshFailed(t)
      <4>0. Over(t, FALSE)
        BY <3>5 DEF RefreshFailed
      <4>1. requests' \in [Requests -> Request]
        BY <3>5, <2>0, RequestTyped DEF RefreshFailed, Unwanted
      <4>2. \A q \in Requests : Is(q, "ok")' => requests'[q].token \in Issued
        BY <3>5, <2>0 DEF RefreshFailed, Unwanted, Idle, Request
      <4>3. /\ token' \in [Tabs -> Issued \cup {0}] /\ stored' \in Issued \cup {0}
            /\ cache' \in [Tabs -> SUBSET Accounts]
            /\ waiters' \in [Tabs -> SUBSET Requests]
        BY <3>5 DEF RefreshFailed, TypeOK
      <4>4. exchange' = [exchange EXCEPT ![t] = NoExchange]
        BY <4>0, OverTyped
      <4>5. exchange' \in [Tabs -> [state: {"none", "sent", "checked", "rotated", "failed"},
                            cookie: Issued \cup {0}, pair: Issued \cup {0}]]
        BY <4>4 DEF TypeOK, NoExchange
      <4>6. \A u \in Tabs : exchange'[u].state = "checked" => exchange'[u].cookie \in Issued
        BY <4>4 DEF TypeOK, NoExchange
      <4> QED
        <5>1. UNCHANGED <<server, cookie, login, foreign, losses>>
          BY <3>5 DEF RefreshFailed
        <5>2. TypeOK'
          BY <4>0, <4>1, <4>3, <4>5, <5>1, IssuedKept, OverTyped
          DEF TypeOK, server, Request
        <5> QED
          BY <4>2, <4>6, <5>1, <5>2, IssuedKept DEF server
    <3> QED
      BY <2>6, <3>1, <3>2, <3>3, <3>4, <3>5 DEF Settle
  <2>7. ASSUME NEW n \in Pairs, Expire(n) PROVE TypeInv'
    BY <2>7, IssuedKept DEF Expire, Held, TypeOK, browser, tab, history
  <2> QED
    BY <2>1, <2>2, <2>3, <2>4, <2>5, <2>6, <2>7, <2>8 DEF Next
<1> QED
  BY <1>1, <1>2, PTL DEF Spec

----------------------------------------------------------------------------
(* Who leads, who waits.                                                   *)

\* A step that neither starts nor ends a refresh, and gives no request the
\* state "leading" or "waiting" nor takes it away, keeps Coherent.
LEMMA CoherentKept ==
  ASSUME Coherent, UNCHANGED <<refreshing, waiters>>,
         \A t \in Tabs : exchange'[t].state = "none" <=> exchange[t].state = "none",
         \A r \in Requests :
           \/ requests'[r].state = requests[r].state /\ requests'[r].tab = requests[r].tab
           \/ /\ requests[r].state \notin {"leading", "waiting"}
              /\ requests'[r].state \notin {"leading", "waiting"}
              /\ requests'[r].state # "idle" => requests'[r].tab \in Tabs
  PROVE  Coherent'
<1>1. \A t \in Tabs : Leading(t)' = Leading(t) /\ Waiting(t)' = Waiting(t)
  BY DEF Leading, Waiting, InTab, Is
<1> QED
  BY <1>1 DEF Coherent, Is

LEMMA CoherentCorrect == Spec => []Coherent
<1>1. Init => Coherent
  BY DEF Init, Coherent, Leading, Waiting, InTab, Is, Idle, NoExchange
<1>2. TypeInv /\ Coherent /\ [Next]_vars => Coherent'
  <2> SUFFICES ASSUME TypeInv, Coherent, [Next]_vars PROVE Coherent'
    OBVIOUS
  <2>0. requests \in [Requests -> Request]
    BY DEF TypeInv, TypeOK, Request
  <2>1. CASE UNCHANGED vars
    BY <2>1, CoherentKept DEF vars, tab
  <2>2. ASSUME NEW t \in Tabs, NEW a \in Accounts, Login(t, a) PROVE Coherent'
    BY <2>2, CoherentKept DEF Login, tab
  <2>8. ASSUME NEW t \in Tabs, LoggedIn(t) \/ LoginFails(t) PROVE Coherent'
    BY <2>0, <2>8, CoherentKept DEF LoggedIn, LoginFails, tab, Unwanted, Request
  <2>3. ASSUME NEW t \in Tabs, OpenPage(t) PROVE Coherent'
    BY <2>3, CoherentKept DEF OpenPage
  <2>4. ASSUME NEW r \in Requests, NEW t \in Tabs, NEW kind \in {"get", "logout"},
               Send(r, t, kind)
        PROVE Coherent'
    BY <2>0, <2>4, CoherentKept DEF Send, tab, Sent, Idle, Is, Request
  <2>5. ASSUME NEW r \in Requests, Progress(r) \/ RequestFails(r) PROVE Coherent'
    <3> DEFINE t == requests[r].tab
    <3>1. CASE Serve(r)
      <4>1. requests[r].state = "sent" /\ UNCHANGED <<refreshing, waiters, exchange>>
        BY <3>1 DEF Serve, Is, tab
      <4>2. requests' = [requests EXCEPT ![r] = [requests[r] EXCEPT !.state = "ok"]]
              \/ requests' = [requests EXCEPT ![r] = Refused(requests[r], "401")]
        BY <3>1 DEF Serve
      <4>3. requests'[r].state \in {"ok", "401"} /\ requests'[r].tab = requests[r].tab
        <5>1. /\ [requests[r] EXCEPT !.state = "ok"].state = "ok"
              /\ [requests[r] EXCEPT !.state = "ok"].tab = requests[r].tab
              /\ Refused(requests[r], "401").state = "401"
              /\ Refused(requests[r], "401").tab = requests[r].tab
          BY <2>0, RequestFields
        <5>2. \/ requests'[r] = [requests[r] EXCEPT !.state = "ok"]
              \/ requests'[r] = Refused(requests[r], "401")
          BY <2>0, <4>2
        <5> QED
          BY <5>1, <5>2
      <4>4. requests[r].tab \in Tabs
        BY <4>1 DEF Coherent, Is
      <4>5. \A q \in Requests \ {r} : requests'[q] = requests[q]
        BY <2>0, <4>2
      <4> QED
        BY <4>1, <4>3, <4>4, <4>5, CoherentKept
    <3>2. CASE Show(r)
      BY <2>0, <3>2, CoherentKept DEF Show, Idle, Is, Request
    <3>3. CASE LoggedOut(r)
      BY <2>0, <3>3, CoherentKept DEF LoggedOut, Unwanted, Idle, Is, Request
    <3>4. CASE GiveUp(r) \/ RequestFails(r)
      <4>0. Rejected(r) /\ requests[r].state \in {"sent", "ok", "401"}
        BY <3>4 DEF GiveUp, RequestFails, Is
      <4>1. \A q \in Requests \ {r} :
              requests'[q].state = requests[q].state /\ requests'[q].tab = requests[q].tab
        <5>1. \/ requests' = [Unwanted(t) EXCEPT ![r] = Idle]
              \/ requests' = [requests EXCEPT ![r] = Idle]
          BY <4>0 DEF Rejected
        <5> QED
          BY <5>1, <2>0, UnwantedFields DEF Unwanted
      <4>2. requests'[r].state = "idle"
        BY <2>0, <4>0 DEF Rejected, Unwanted, Idle
      <4>3. UNCHANGED <<refreshing, waiters, exchange>>
        BY <4>0 DEF Rejected
      <4> QED
        BY <4>0, <4>1, <4>2, <4>3, CoherentKept
    <3>5. CASE Wait(r)
      <4>1. t \in Tabs /\ requests'[r].tab = t /\ requests'[r].state = "waiting"
        BY <2>0, <3>5 DEF Wait, Coherent, Is, Request
      <4>2. \A q \in Requests \ {r} : requests'[q] = requests[q]
        BY <2>0, <3>5 DEF Wait
      <4>3. requests[r].state = "401"
        BY <3>5 DEF Wait, Is
      <4>5. /\ Leading(t)' = Leading(t) /\ Waiting(t)' = Waiting(t) \cup {r}
            /\ \A u \in Tabs \ {t} : Leading(u)' = Leading(u) /\ Waiting(u)' = Waiting(u)
        BY <4>1, <4>2, <4>3 DEF Leading, Waiting, InTab, Is
      <4>4. waiters' = [waiters EXCEPT ![t] = @ \cup {r}] /\ refreshing[t]
            /\ UNCHANGED <<refreshing, exchange>>
        BY <3>5 DEF Wait
      <4> QED
        <5>1. \A q \in Requests : ~ Is(q, "idle")' => requests'[q].tab \in Tabs
          BY <4>1, <4>2 DEF Coherent, Is
        <5>2. \A u \in Tabs : waiters'[u] = Waiting(u)'
          <6>1. waiters \in [Tabs -> SUBSET Requests] /\ \A u \in Tabs : waiters[u] = Waiting(u)
            BY DEF Coherent, TypeInv, TypeOK
          <6> QED
            BY <4>1, <4>4, <4>5, <6>1
        <5> QED
          BY <4>1, <4>4, <4>5, <5>1, <5>2 DEF Coherent
    <3>6. CASE Lead(r)
      <4>1. t \in Tabs /\ requests'[r].tab = t /\ requests'[r].state = "leading"
        BY <2>0, <3>6 DEF Lead, Coherent, Is, Request
      <4>2. \A q \in Requests \ {r} : requests'[q] = requests[q]
        BY <2>0, <3>6 DEF Lead
      <4>3. /\ Leading(t)' = Leading(t) \cup {r} /\ Waiting(t)' = Waiting(t)
            /\ \A u \in Tabs \ {t} : Leading(u)' = Leading(u) /\ Waiting(u)' = Waiting(u)
        BY <3>6, <4>1, <4>2 DEF Lead, Leading, Waiting, InTab, Is
      <4>4. /\ refreshing' = [refreshing EXCEPT ![t] = TRUE] /\ ~ refreshing[t]
            /\ exchange' = [exchange EXCEPT ![t] = [state |-> "sent", cookie |-> cookie, pair |-> 0]]
            /\ UNCHANGED waiters
        BY <3>6 DEF Lead
      <4>5. Leading(t)' = {r}
        BY <4>1, <4>3, <4>4 DEF Coherent
      <4> QED
        <5>1. \A q \in Requests : ~ Is(q, "idle")' => requests'[q].tab \in Tabs
          BY <4>1, <4>2 DEF Coherent, Is
        <5>2. \A u \in Tabs : waiters'[u] = Waiting(u)'
          <6>1. \A u \in Tabs : waiters[u] = Waiting(u)
            BY DEF Coherent
          <6> QED
            BY <4>1, <4>3, <4>4, <6>1
        <5>3. /\ refreshing'[t] /\ exchange'[t].state = "sent"
              /\ \A u \in Tabs \ {t} : /\ refreshing'[u] = refreshing[u]
                                      /\ exchange'[u] = exchange[u]
          BY <4>1, <4>4 DEF TypeInv, TypeOK
        <5> QED
          BY <4>1, <4>3, <4>5, <5>1, <5>2, <5>3 DEF Coherent
    <3> QED
      BY <2>5, <3>1, <3>2, <3>3, <3>4, <3>5, <3>6 DEF Progress
  <2>6. ASSUME NEW t \in Tabs, Settle(t) \/ Lose(t) PROVE Coherent'
    <3>1. CASE Check(t)
      BY <3>1, CoherentKept DEF Check, tab, Failed, TypeInv, TypeOK
    <3>2. CASE Rotate(t)
      BY <3>2, CoherentKept DEF Rotate, tab, TypeInv, TypeOK
    <3>3. CASE Lose(t)
      BY <3>3, CoherentKept DEF Lose, tab, Failed, TypeInv, TypeOK
    <3>4. CASE Refreshed(t) \/ RefreshFailed(t)
      <4>1. \A r \in Requests \ Concerned(t) :
              requests'[r].state = requests[r].state /\ requests'[r].tab = requests[r].tab
        <5>1. \A r \in Requests \ Concerned(t) :
                requests'[r] = requests[r] \/ requests'[r] = Unwanted(t)[r]
          BY <3>4 DEF Refreshed, RefreshFailed
        <5> QED
          BY <2>0, <5>1, UnwantedFields
      <4>2. \A r \in Concerned(t) :
              /\ r \in Requests /\ requests[r].tab = t
              /\ requests'[r].state \in {"sent", "idle"}
              /\ requests'[r].state = "sent" => requests'[r].tab = t
        <5>1. exchange[t].pair \in Issued \cup {0}
          BY DEF TypeInv, TypeOK
        <5>2. \A r \in Concerned(t) : r \in Requests /\ requests[r].tab = t
          BY DEF Concerned, Coherent, Waiting, InTab
        <5>3. CASE Refreshed(t)
          <6> DEFINE retried(r) == Sent(requests[r], exchange[t].pair, exchange[t].pair)
          <6>1. \A r \in Concerned(t) : requests'[r] = retried(r)
            BY <5>2, <5>3 DEF Refreshed
          <6>2. \A r \in Concerned(t) : retried(r).state = "sent" /\ retried(r).tab = t
            BY <2>0, <5>1, <5>2, RequestFields
          <6> QED
            BY <5>2, <6>1, <6>2
        <5>4. CASE RefreshFailed(t)
          BY <5>2, <5>4 DEF RefreshFailed, Idle
        <5> QED
          BY <3>4, <5>3, <5>4
      <4>3. Leading(t)' = {} /\ Waiting(t)' = {}
        BY <4>1, <4>2 DEF Leading, Waiting, InTab, Is, Concerned, Coherent
      <4>4. \A u \in Tabs \ {t} : Leading(u)' = Leading(u) /\ Waiting(u)' = Waiting(u)
        BY <4>1, <4>2 DEF Leading, Waiting, InTab, Is
      <4>5. /\ waiters' = [waiters EXCEPT ![t] = {}]
            /\ refreshing' = [refreshing EXCEPT ![t] = FALSE]
            /\ exchange' = [exchange EXCEPT ![t] = NoExchange]
        BY <3>4 DEF Refreshed, RefreshFailed, Over
      <4>6. \A r \in Requests : ~ Is(r, "idle")' => requests'[r].tab \in Tabs
        BY <4>1, <4>2 DEF Coherent, Is
      <4> QED
        BY <4>3, <4>4, <4>5, <4>6 DEF Coherent, TypeInv, TypeOK, NoExchange
    <3> QED
      BY <2>6, <3>1, <3>2, <3>3, <3>4 DEF Settle
  <2>7. ASSUME NEW n \in Pairs, Expire(n) PROVE Coherent'
    BY <2>7, CoherentKept DEF Expire, tab
  <2> QED
    BY <2>1, <2>2, <2>3, <2>4, <2>5, <2>6, <2>7, <2>8 DEF Next
<1> QED
  BY <1>1, <1>2, TypeCorrect, PTL DEF Spec

\* In each tab isRefreshing, the exchange and the waiters agree (SessionClient's
\* RefreshHasLeader), whatever the number of requests and tabs.
THEOREM RefreshHasLeaderCorrect == Spec => []RefreshHasLeader
<1>1. Coherent => RefreshHasLeader
  <2> SUFFICES ASSUME Coherent, NEW t \in Tabs
               PROVE  /\ refreshing[t] <=> exchange[t].state # "none"
                      /\ refreshing[t] <=> Cardinality(Leading(t)) = 1
                      /\ waiters[t] = Waiting(t)
                      /\ waiters[t] # {} => refreshing[t]
    BY DEF RefreshHasLeader, Leading, Waiting
  <2>1. CASE refreshing[t]
    <3>1. PICK r \in Requests : Leading(t) = {r}
      BY <2>1 DEF Coherent
    <3>2. Cardinality({r}) = 1
      BY FS_Singleton
    <3> QED
      BY <2>1, <3>1, <3>2 DEF Coherent
  <2>2. CASE ~ refreshing[t]
    BY <2>2, FS_EmptySet DEF Coherent
  <2> QED
    BY <2>1, <2>2
<1> QED
  BY <1>1, CoherentCorrect, PTL

----------------------------------------------------------------------------
(* A tab shows one account.                                                *)

\* What the tab shows, holds and may yet receive is of account a.
Of(n, a) == n # 0 => owner[n] = a
RequestOf(q, t, a) == q.tab = t /\ q.wanted => Of(q.token, a)
BrowserOf(a) == Of(cookie, a) /\ \A u \in Tabs : Of(exchange[u].cookie, a)
TabOf(t, a) == /\ cache[t] \subseteq {a} /\ Of(token[t], a)
               /\ \A r \in Requests : RequestOf(requests[r], t, a)

\* The cookie and the stored token are of one pair; a refresh answers with a pair of
\* the account that sent it.
StoredIsCookie == stored # 0 => stored = cookie
PairOfCookie ==
  \A u \in Tabs : exchange[u].pair # 0 => /\ exchange[u].cookie # 0
                                          /\ owner[exchange[u].pair] = owner[exchange[u].cookie]
OwnAccount ==
  \A t \in Tabs : ~ foreign[t] =>
    \E a \in Accounts \cup {NoAccount} : BrowserOf(a) /\ TabOf(t, a)
AccountInv == StoredIsCookie /\ PairOfCookie /\ OwnAccount

Exchange == [state: {"none", "sent", "checked", "rotated", "failed"},
             cookie: Issued \cup {0}, pair: Issued \cup {0}]

\* Nothing issued.
LEMMA OwnAccountKept ==
  ASSUME OwnAccount, owner' = owner,
         \A t \in Tabs : ~ foreign'[t] => ~ foreign[t],
         \A t \in Tabs, a \in Accounts \cup {NoAccount} :
           BrowserOf(a) /\ TabOf(t, a) => BrowserOf(a)' /\ TabOf(t, a)'
  PROVE  OwnAccount'
BY DEF OwnAccount

\* What a step may make of a request without changing the account of its answer.
SameOwner(r, v) == /\ requests'[r].tab # NoTab => requests'[r].tab = requests[r].tab
                   /\ requests'[r].wanted => requests[r].wanted
                   /\ requests'[r].token \in {requests[r].token, 0, v}
LEMMA RequestKept ==
  ASSUME owner' = owner, NEW r \in Requests, NEW v, NEW t \in Tabs, NEW a,
         SameOwner(r, v), RequestOf(requests[r], t, a),
         requests[r].tab = t => Of(v, a)
  PROVE  RequestOf(requests[r], t, a)'
BY ConstantsAssumption DEF RequestOf, Of, SameOwner

LEMMA UnwantedSame ==
  ASSUME NEW r \in Requests, requests[r] \in Request,
         \/ requests'[r] = requests[r]
         \/ requests'[r] = [requests[r] EXCEPT !.wanted = FALSE]
         \/ requests'[r] = Idle
  PROVE  SameOwner(r, 0)
<1> DEFINE q == [requests[r] EXCEPT !.wanted = FALSE]
<1>1. q.tab = requests[r].tab /\ q.wanted = FALSE /\ q.token = requests[r].token
  BY DEF Request
<1>2. Idle.tab = NoTab /\ Idle.wanted = FALSE /\ Idle.token = 0
  BY DEF Idle
<1> HIDE DEF q
<1> QED
  BY <1>1, <1>2 DEF SameOwner, q

\* Steps that install no cookie and no token, and show nothing.
LEMMA AccountKept ==
  ASSUME AccountInv, UNCHANGED <<owner, foreign>>,
         \/ UNCHANGED <<cookie, stored>>
         \/ cookie' = cookie /\ stored' = 0
         \/ cookie' = 0 /\ stored' = 0,
         \A u \in Tabs : \/ exchange'[u] = exchange[u]
                         \/ /\ exchange'[u].cookie \in {exchange[u].cookie, cookie, 0}
                            /\ exchange'[u].pair = 0
         ,
         \A t \in Tabs : token'[t] \in {token[t], 0} /\ cache'[t] \subseteq cache[t],
         \A r \in Requests : SameOwner(r, 0)
  PROVE  AccountInv'
<1>1. StoredIsCookie'
  BY DEF AccountInv, StoredIsCookie
<1>2. PairOfCookie'
  BY DEF AccountInv, PairOfCookie
<1>3. \A t \in Tabs, a \in Accounts \cup {NoAccount} :
        BrowserOf(a) /\ TabOf(t, a) => BrowserOf(a)' /\ TabOf(t, a)'
  <2> SUFFICES ASSUME NEW t \in Tabs, NEW a \in Accounts \cup {NoAccount},
                      BrowserOf(a), TabOf(t, a)
               PROVE  BrowserOf(a)' /\ TabOf(t, a)'
    OBVIOUS
  <2>1. BrowserOf(a)'
    BY DEF BrowserOf, Of
  <2>2. \A r \in Requests : RequestOf(requests[r], t, a)'
    BY RequestKept DEF TabOf, Of
  <2>3. cache'[t] \subseteq {a} /\ Of(token[t], a)'
    BY DEF TabOf, Of
  <2> QED
    BY <2>1, <2>2, <2>3 DEF TabOf
<1>4. OwnAccount'
  BY <1>3, OwnAccountKept DEF AccountInv
<1> QED
  BY <1>1, <1>2, <1>4 DEF AccountInv

\* A pair that can still be issued has not been.
LEMMA FreshPair ==
  ASSUME TypeInv, NextPair \in Pairs
  PROVE  NextPair \notin Issued
<1> DEFINE n == Cardinality(Issued)
<1>1. Issued = 1..n /\ NextPair = n + 1 /\ n + 1 \in Nat
  BY ConstantsAssumption DEF TypeInv, TypeOK, NextPair, Pairs
<1>2. n \in Nat
  <2>1. IsFiniteSet(1..MaxPairs)
    BY FS_Interval, ConstantsAssumption
  <2>2. IsFiniteSet(Issued)
    BY <2>1, FS_Subset DEF Issued, Pairs
  <2> QED
    BY <2>2, FS_CardinalityType
<1> HIDE DEF n
<1> QED
  BY <1>1, <1>2

\* Steps that only issue a pair, which nothing holds yet.
LEMMA AccountGrows ==
  ASSUME TypeInv, AccountInv, \A m \in Issued : owner'[m] = owner[m],
         UNCHANGED <<cookie, stored, token, cache, foreign, requests>>,
         \A u \in Tabs : exchange'[u].cookie = exchange[u].cookie
  PROVE  OwnAccount' /\ StoredIsCookie'
<1>1. /\ cookie \in Issued \cup {0} /\ \A t \in Tabs : token[t] \in Issued \cup {0}
      /\ \A u \in Tabs : exchange[u].cookie \in Issued \cup {0}
      /\ \A r \in Requests : requests[r].token \in Issued \cup {0}
  <2>1. exchange \in [Tabs -> Exchange] /\ requests \in [Requests -> Request]
    BY DEF TypeInv, TypeOK, Exchange, Request
  <2> QED
    BY <2>1 DEF TypeInv, TypeOK, Exchange, Request
<1>2. ASSUME NEW u \in Tabs, NEW a \in Accounts \cup {NoAccount}, BrowserOf(a), TabOf(u, a)
      PROVE  BrowserOf(a)' /\ TabOf(u, a)'
  <2>1. BrowserOf(a)'
    BY <1>1, <1>2 DEF BrowserOf, Of
  <2>2. \A r \in Requests : RequestOf(requests[r], u, a)'
    BY <1>1, <1>2 DEF TabOf, RequestOf, Of
  <2> QED
    BY <1>1, <1>2, <2>1, <2>2 DEF TabOf, Of
<1> QED
  BY <1>2 DEF AccountInv, OwnAccount, StoredIsCookie

LEMMA AccountStep ==
  ASSUME TypeInv, Coherent, AccountInv, [Next]_vars
  PROVE  AccountInv'
<1>0. /\ requests \in [Requests -> Request] /\ exchange \in [Tabs -> Exchange]
      /\ token \in [Tabs -> Issued \cup {0}] /\ cache \in [Tabs -> SUBSET Accounts]
      /\ foreign \in [Tabs -> BOOLEAN]
      /\ cookie \in Issued \cup {0} /\ stored \in Issued \cup {0}
      /\ owner \in [Pairs -> Accounts \cup {NoAccount}]
  BY DEF TypeInv, TypeOK, Request, Exchange
<1>1. CASE UNCHANGED vars
  BY <1>1, AccountKept DEF vars, server, browser, tab, history, SameOwner
<1>2. ASSUME NEW t \in Tabs, NEW a \in Accounts, Login(t, a) PROVE AccountInv'
  <2>1. NextPair \in Pairs /\ owner' = [owner EXCEPT ![NextPair] = a] /\ NextPair \notin Issued
        /\ UNCHANGED <<browser, tab, exchange, requests, history>>
    BY <1>2, FreshPair DEF Login, Issue
  <2>2. \A m \in Issued : owner'[m] = owner[m]
    BY <1>0, <2>1 DEF Issued
  <2>3. PairOfCookie'
    BY <1>0, <2>1, <2>2 DEF AccountInv, PairOfCookie, Exchange
  <2> QED
    BY <2>1, <2>2, <2>3, AccountGrows DEF AccountInv, browser, tab, history
<1>8. ASSUME NEW t \in Tabs, LoggedIn(t) PROVE AccountInv'
  <2>1. PICK n, a : n = login[t] /\ a = owner[n]
    OBVIOUS
  <2>2. /\ n # 0 /\ cookie' = n /\ stored' = n /\ token' = [token EXCEPT ![t] = n]
        /\ cache' = [cache EXCEPT ![t] = {}] /\ requests' = Unwanted(t)
        /\ foreign' = [u \in Tabs |-> u # t \/ Overtaking(a)]
        /\ UNCHANGED <<owner, exchange>>
    BY <1>8, <2>1 DEF LoggedIn, server
  <2>3. n \in Issued /\ a \in Accounts
    BY <2>1, <2>2 DEF TypeInv, TypeOK, Issued
  <2>4. StoredIsCookie' /\ PairOfCookie'
    BY <2>2 DEF AccountInv, StoredIsCookie, PairOfCookie
  <2>6. ASSUME ~ Overtaking(a) PROVE BrowserOf(a)' /\ TabOf(t, a)'
    <3>1. BrowserOf(a)'
      BY <1>0, <2>1, <2>2, <2>6 DEF BrowserOf, Of, Overtaking
    <3>2. \A r \in Requests : RequestOf(requests[r], t, a)'
      BY <1>0, <2>2 DEF Unwanted, RequestOf, Request
    <3>3. cache'[t] \subseteq {a} /\ Of(token[t], a)'
      BY <1>0, <2>1, <2>2 DEF Of
    <3> QED
      BY <3>1, <3>2, <3>3 DEF TabOf
  <2>7. OwnAccount'
    BY <2>2, <2>3, <2>6 DEF OwnAccount
  <2> QED
    BY <2>4, <2>7 DEF AccountInv
<1>9. ASSUME NEW t \in Tabs, LoginFails(t) PROVE AccountInv'
  BY <1>9, AccountKept DEF LoginFails, server, browser, tab, history, SameOwner
<1>3. ASSUME NEW t \in Tabs, OpenPage(t) PROVE AccountInv'
  <2>0. PICK a : a = owner[stored]
    OBVIOUS
  <2>1. /\ UNCHANGED <<owner, cookie, stored, exchange, requests>> /\ stored # 0 /\ InTab(t) = {}
        /\ token' = [token EXCEPT ![t] = stored] /\ cache' = [cache EXCEPT ![t] = {}]
        /\ foreign' = [foreign EXCEPT ![t] = Overtaking(a)]
    BY <1>3, <2>0 DEF OpenPage, server, browser
  <2>2. stored = cookie /\ a \in Accounts
    <3>1. stored \in Issued
      BY <1>0, <2>1
    <3> QED
      BY <1>0, <2>0, <2>1, <3>1 DEF AccountInv, StoredIsCookie, Issued
  <2>3. StoredIsCookie' /\ PairOfCookie'
    BY <2>1 DEF AccountInv, StoredIsCookie, PairOfCookie
  <2>4. ASSUME ~ Overtaking(a) PROVE BrowserOf(a)' /\ TabOf(t, a)'
    <3>1. BrowserOf(a)'
      BY <2>0, <2>1, <2>2, <2>4 DEF BrowserOf, Of, Overtaking
    <3>2. \A r \in Requests : RequestOf(requests[r], t, a)'
      BY <2>1 DEF RequestOf, InTab
    <3>3. cache'[t] \subseteq {a} /\ Of(token[t], a)'
      BY <1>0, <2>0, <2>1 DEF Of
    <3> QED
      BY <3>1, <3>2, <3>3 DEF TabOf
  <2>5. ASSUME NEW u \in Tabs \ {t}, NEW b \in Accounts \cup {NoAccount},
               BrowserOf(b), TabOf(u, b)
        PROVE  BrowserOf(b)' /\ TabOf(u, b)'
    BY <1>0, <2>1, <2>5 DEF BrowserOf, TabOf, Of, RequestOf
  <2>6. OwnAccount'
    <3> SUFFICES ASSUME NEW u \in Tabs, ~ foreign'[u]
                 PROVE  \E b \in Accounts \cup {NoAccount} : BrowserOf(b)' /\ TabOf(u, b)'
      BY DEF OwnAccount
    <3>1. CASE u = t
      <4>1. ~ Overtaking(a)
        BY <1>0, <2>1, <3>1
      <4> QED
        BY <2>2, <2>4, <3>1, <4>1
    <3>2. CASE u # t
      <4>1. ~ foreign[u]
        BY <1>0, <2>1, <3>2
      <4> QED
        BY <2>5, <3>2, <4>1 DEF AccountInv, OwnAccount
    <3> QED
      BY <3>1, <3>2
  <2> QED
    BY <2>3, <2>6 DEF AccountInv
<1>4. ASSUME NEW r \in Requests, NEW t \in Tabs, NEW kind \in {"get", "logout"},
             Send(r, t, kind)
      PROVE AccountInv'
  <2>1. /\ UNCHANGED <<owner, cookie, stored, exchange, token, cache, foreign>>
        /\ requests' = [requests EXCEPT ![r] =
             Sent([Idle EXCEPT !.tab = t, !.kind = kind, !.wanted = TRUE], token[t], cookie)]
    BY <1>4 DEF Send, server, browser, tab, history
  <2>2. requests'[r].tab = t /\ requests'[r].token = token[t]
    BY <1>0, <2>1 DEF Sent, Idle
  <2>3. \A q \in Requests \ {r} : requests'[q] = requests[q]
    BY <1>0, <2>1
  <2>4. ASSUME NEW u \in Tabs, NEW a \in Accounts \cup {NoAccount}, BrowserOf(a), TabOf(u, a)
        PROVE  BrowserOf(a)' /\ TabOf(u, a)'
    BY <2>1, <2>2, <2>3, <2>4 DEF BrowserOf, TabOf, Of, RequestOf
  <2> QED
    BY <2>1, <2>4, OwnAccountKept DEF AccountInv, StoredIsCookie, PairOfCookie
<1>5. ASSUME NEW r \in Requests, Progress(r) \/ RequestFails(r) PROVE AccountInv'
  <2> DEFINE t == requests[r].tab
  <2>1. CASE Serve(r)
    <3>1. \A q \in Requests : SameOwner(q, 0)
      BY <1>0, <2>1 DEF Serve, SameOwner, Refused, Request
    <3> QED
      BY <2>1, <3>1, AccountKept DEF Serve, browser, tab, history
  <2>2. CASE Show(r)
    <3>1. /\ UNCHANGED <<owner, cookie, stored, exchange, token, foreign>>
          /\ requests' = [requests EXCEPT ![r] = Idle]
          /\ cache' = IF requests[r].wanted
                      THEN [cache EXCEPT ![t] = @ \cup {owner[requests[r].token]}] ELSE cache
          /\ requests[r].state = "ok"
      BY <2>2 DEF Show, server, browser, history, Is
    <3>2. requests[r].token # 0
      BY <3>1, ZeroNotIssued DEF TypeInv, Granted, Is
    <3>3. \A q \in Requests : SameOwner(q, 0)
      BY <1>0, <3>1 DEF SameOwner, Idle
    <3>4. ASSUME NEW u \in Tabs, NEW a \in Accounts \cup {NoAccount}, BrowserOf(a), TabOf(u, a)
          PROVE  BrowserOf(a)' /\ TabOf(u, a)'
      <4>1. BrowserOf(a)' /\ Of(token[u], a)'
        BY <3>1, <3>4 DEF BrowserOf, TabOf, Of
      <4>2. \A q \in Requests : RequestOf(requests[q], u, a)'
        BY <3>1, <3>3, <3>4, RequestKept DEF TabOf, Of
      <4>3. cache'[u] \subseteq {a}
        <5>1. u = t /\ requests[r].wanted => owner[requests[r].token] = a
          BY <3>2, <3>4 DEF TabOf, RequestOf, Of
        <5> QED
          BY <1>0, <3>1, <3>4, <5>1 DEF TabOf
      <4> QED
        BY <4>1, <4>2, <4>3 DEF TabOf
    <3> QED
      BY <3>1, <3>4, OwnAccountKept DEF AccountInv, StoredIsCookie, PairOfCookie
  <2>3. CASE LoggedOut(r) \/ GiveUp(r) \/ RequestFails(r)
    <3>1. \A q \in Requests : SameOwner(q, 0)
      <4>1. \/ requests' = [Unwanted(t) EXCEPT ![r] = Idle]
            \/ requests' = [requests EXCEPT ![r] = Idle]
        BY <2>3 DEF LoggedOut, GiveUp, RequestFails, Rejected
      <4>2. \A q \in Requests : \/ requests'[q] \in {requests[q], Idle}
                                \/ requests'[q] = [requests[q] EXCEPT !.wanted = FALSE]
        BY <1>0, <4>1 DEF Unwanted
      <4> QED
        BY <1>0, <4>2, UnwantedSame
    <3>2. /\ UNCHANGED <<owner, foreign, exchange>>
          /\ \/ UNCHANGED <<cookie, stored>>
             \/ cookie' = cookie /\ stored' = 0
             \/ cookie' = 0 /\ stored' = 0
          /\ \A u \in Tabs : token'[u] \in {token[u], 0} /\ cache'[u] \subseteq cache[u]
      BY <1>0, <2>3 DEF LoggedOut, GiveUp, RequestFails, Rejected, Leave, server, history
    <3> QED
      BY <3>1, <3>2, AccountKept
  <2>4. CASE Wait(r)
    <3>1. \A q \in Requests : SameOwner(q, 0)
      BY <1>0, <2>4 DEF Wait, SameOwner, Request
    <3> QED
      BY <2>4, <3>1, AccountKept DEF Wait, server, browser, history
  <2>5. CASE Lead(r)
    <3>1. \A q \in Requests : SameOwner(q, 0)
      BY <1>0, <2>5 DEF Lead, SameOwner, Request
    <3>2. \A u \in Tabs : \/ exchange'[u] = exchange[u]
                          \/ exchange'[u].cookie = cookie /\ exchange'[u].pair = 0
      BY <1>0, <2>5 DEF Lead
    <3> QED
      BY <2>5, <3>1, <3>2, AccountKept DEF Lead, server, browser, history
  <2> QED
    BY <1>5, <2>1, <2>2, <2>3, <2>4, <2>5 DEF Progress
<1>6. ASSUME NEW t \in Tabs, Settle(t) \/ Lose(t) PROVE AccountInv'
  <2>1. CASE Check(t) \/ Lose(t)
    <3>1. /\ UNCHANGED <<owner, cookie, stored, token, cache, foreign, requests>>
          /\ \A u \in Tabs : \/ exchange'[u] = exchange[u]
                             \/ u = t /\ exchange'[u] = Failed
                             \/ u = t /\ exchange'[u] = [exchange[u] EXCEPT !.state = "checked"]
      BY <1>0, <2>1 DEF Check, Lose, server, browser, tab, history
    <3>2. \A u \in Tabs : \/ /\ exchange'[u].cookie = exchange[u].cookie
                             /\ exchange'[u].pair = exchange[u].pair
                          \/ exchange'[u].cookie = 0 /\ exchange'[u].pair = 0
      <4>1. /\ [exchange[t] EXCEPT !.state = "checked"].cookie = exchange[t].cookie
            /\ [exchange[t] EXCEPT !.state = "checked"].pair = exchange[t].pair
        BY <1>0 DEF Exchange
      <4>2. Failed.cookie = 0 /\ Failed.pair = 0
        BY DEF Failed
      <4> QED
        BY <3>1, <4>1, <4>2
    <3>3. StoredIsCookie' /\ PairOfCookie'
      BY <3>1, <3>2 DEF AccountInv, StoredIsCookie, PairOfCookie
    <3>4. ASSUME NEW u \in Tabs, NEW a \in Accounts \cup {NoAccount}, BrowserOf(a), TabOf(u, a)
          PROVE  BrowserOf(a)' /\ TabOf(u, a)'
      BY <3>1, <3>2, <3>4 DEF BrowserOf, TabOf, Of, RequestOf
    <3> QED
      BY <3>1, <3>3, <3>4, OwnAccountKept DEF AccountInv
  <2>2. CASE Rotate(t)
    <3> DEFINE n == NextPair  c == exchange[t].cookie
    <3>1. /\ n \in Pairs /\ owner' = [owner EXCEPT ![n] = owner[c]]
          /\ UNCHANGED <<cookie, stored, token, cache, foreign, requests>>
          /\ exchange' = [exchange EXCEPT ![t].state = "rotated", ![t].pair = n]
          /\ exchange[t].state = "checked"
      BY <2>2 DEF Rotate, Issue, browser, tab, history
    <3>2. n \notin Issued /\ n # 0 /\ c \in Issued
      BY <3>1, FreshPair, ConstantsAssumption DEF Pairs, TypeInv, Granted
    <3> HIDE DEF n
    <3>3. owner'[n] = owner[c] /\ \A m \in Issued : owner'[m] = owner[m]
      BY <1>0, <3>1, <3>2 DEF Issued
    <3>4. /\ \A u \in Tabs : exchange'[u].cookie = exchange[u].cookie
          /\ exchange'[t].pair = n /\ \A u \in Tabs \ {t} : exchange'[u].pair = exchange[u].pair
      BY <1>0, <3>1 DEF Exchange
    <3>5. \A u \in Tabs : exchange[u].cookie \in Issued \cup {0} /\ exchange[u].pair \in Issued \cup {0}
      BY <1>0 DEF Exchange
    <3>6. PairOfCookie'
      BY <3>2, <3>3, <3>4, <3>5, ZeroNotIssued DEF AccountInv, PairOfCookie
    <3>8. OwnAccount' /\ StoredIsCookie'
      BY <3>1, <3>3, <3>4, AccountGrows
    <3> QED
      BY <3>6, <3>8 DEF AccountInv
  <2>3. CASE Refreshed(t)
    <3> DEFINE n == exchange[t].pair
    <3>1. /\ UNCHANGED <<owner, cache, foreign>>
          /\ cookie' = n /\ stored' = n /\ token' = [token EXCEPT ![t] = n]
          /\ requests' = [r \in Requests |-> IF r \in Concerned(t)
                            THEN Sent(requests[r], n, n) ELSE requests[r]]
          /\ exchange' = [exchange EXCEPT ![t] = NoExchange]
      BY <2>3 DEF Refreshed, server, Over
    <3>2. \A u \in Tabs : \/ exchange'[u] = exchange[u]
                          \/ exchange'[u].cookie = 0 /\ exchange'[u].pair = 0
      BY <1>0, <3>1 DEF NoExchange
    <3>3. StoredIsCookie' /\ PairOfCookie'
      BY <3>1, <3>2 DEF AccountInv, StoredIsCookie, PairOfCookie
    <3>4. \A r \in Requests : SameOwner(r, n) /\ (requests[r].tab # t => SameOwner(r, 0))
      <4>1. \A r \in Concerned(t) : requests[r].tab = t
        BY DEF Concerned, Coherent, Waiting, InTab
      <4>2. \A r \in Requests : \/ requests'[r] = requests[r]
                                \/ requests[r].tab = t /\ requests'[r] = Sent(requests[r], n, n)
        BY <3>1, <4>1
      <4>3. \A r \in Requests : /\ Sent(requests[r], n, n).tab = requests[r].tab
                                /\ Sent(requests[r], n, n).wanted = requests[r].wanted
                                /\ Sent(requests[r], n, n).token = n
        BY <1>0 DEF Sent, Request
      <4> QED
        BY <4>2, <4>3 DEF SameOwner
    <3>5. ASSUME NEW u \in Tabs, NEW a \in Accounts \cup {NoAccount}, BrowserOf(a), TabOf(u, a)
          PROVE  BrowserOf(a)' /\ TabOf(u, a)'
      <4>1. Of(n, a)
        BY <3>5 DEF AccountInv, PairOfCookie, BrowserOf, Of
      <4>2. BrowserOf(a)'
        BY <3>1, <3>2, <3>5, <4>1 DEF BrowserOf, Of
      <4>3. \A r \in Requests : RequestOf(requests[r], u, a)'
        BY <3>1, <3>4, <3>5, <4>1, RequestKept DEF TabOf
      <4>4. cache'[u] \subseteq {a} /\ Of(token[u], a)'
        BY <1>0, <3>1, <3>5, <4>1 DEF TabOf, Of
      <4> QED
        BY <4>2, <4>3, <4>4 DEF TabOf
    <3> QED
      BY <3>1, <3>3, <3>5, OwnAccountKept DEF AccountInv
  <2>4. CASE RefreshFailed(t)
    <3>1. /\ UNCHANGED <<owner, foreign, cookie>> /\ stored' = 0
          /\ \A u \in Tabs : token'[u] \in {token[u], 0} /\ cache'[u] \subseteq cache[u]
          /\ \A u \in Tabs : exchange'[u] = exchange[u] \/ exchange'[u] = NoExchange
      BY <1>0, <2>4 DEF RefreshFailed, server, Over
    <3>2. \A u \in Tabs : \/ exchange'[u] = exchange[u]
                          \/ exchange'[u].cookie = 0 /\ exchange'[u].pair = 0
      BY <3>1 DEF NoExchange
    <3>3. \A r \in Requests : SameOwner(r, 0)
      <4>1. \A r \in Requests : \/ requests'[r] \in {requests[r], Idle}
                                \/ requests'[r] = [requests[r] EXCEPT !.wanted = FALSE]
        BY <1>0, <2>4 DEF RefreshFailed, Unwanted
      <4> QED
        BY <1>0, <4>1, UnwantedSame
    <3> QED
      BY <3>1, <3>2, <3>3, AccountKept
  <2> QED
    BY <1>6, <2>1, <2>2, <2>3, <2>4 DEF Settle
<1>7. ASSUME NEW n \in Pairs, Expire(n) PROVE AccountInv'
  BY <1>7, AccountKept DEF Expire, browser, tab, history, SameOwner
<1> QED
  BY <1>1, <1>2, <1>3, <1>4, <1>5, <1>6, <1>7, <1>8, <1>9 DEF Next

LEMMA AccountCorrect == Spec => []AccountInv
<1>1. Init => AccountInv
  <2> SUFFICES ASSUME Init PROVE AccountInv
    OBVIOUS
  <2>1. BrowserOf(NoAccount) /\ \A t \in Tabs : TabOf(t, NoAccount)
    BY DEF Init, BrowserOf, TabOf, Of, RequestOf, NoExchange, Idle
  <2> QED
    BY <2>1 DEF Init, AccountInv, StoredIsCookie, PairOfCookie, OwnAccount, NoExchange
<1>2. TypeInv /\ Coherent /\ AccountInv /\ [Next]_vars => AccountInv'
  BY AccountStep
<1> QED
  BY <1>1, <1>2, TypeCorrect, CoherentCorrect, PTL DEF Spec

\* For any number of tabs, accounts and requests, a tab that shows data of two accounts
\* has had another tab log in, or has logged in while a refresh of another account was
\* under way: nothing else brings data of an account into a cache that was cleared when
\* the account changed (use-auth.ts:20-24, 46-49), a login of a tab that is signed in
\* included.
THEOREM OneAccountShownCorrect == Spec => []OneAccountShown
<1>1. AccountInv => OneAccountShown
  <2> SUFFICES ASSUME AccountInv, NEW t \in Tabs, ~ foreign[t]
               PROVE  ~ (Cardinality(cache[t]) > 1)
    BY DEF OneAccountShown
  <2>1. PICK a \in Accounts \cup {NoAccount} : cache[t] \subseteq {a}
    BY DEF AccountInv, OwnAccount, TabOf
  <2>2. cache[t] = {} \/ cache[t] = {a}
    BY <2>1
  <2>3. Cardinality({}) = 0 /\ Cardinality({a}) = 1
    BY FS_EmptySet, FS_Singleton
  <2> QED
    BY <2>2, <2>3
<1> QED
  BY <1>1, AccountCorrect, PTL

----------------------------------------------------------------------------
(* A tab that left stays out.                                              *)

\* While tab t is out, the jar is empty, and a refresh that may still be answered was
\* under way when t left: one that started since carries no cookie.
OutOf(t) == /\ token[t] = 0 /\ cookie = 0
            /\ \A u \in Tabs \ late[t] : /\ exchange[u].cookie = 0
                                         /\ exchange[u].state \notin {"checked", "rotated"}
LeftInv == /\ \A u \in Tabs : exchange[u].state = "none" => exchange[u].cookie = 0
           /\ \A t \in Tabs : left[t] => OutOf(t)

\* A step that neither starts nor ends a refresh, lets no tab leave and sets no token.
LEMMA LeftKept ==
  ASSUME LeftInv, UNCHANGED <<cookie, exchange, left, late>>,
         \A t \in Tabs : token'[t] \in {token[t], 0}
  PROVE  LeftInv'
BY DEF LeftInv, OutOf

\* Neither does one that changes a refresh on its way.
LEMMA LeftExchange ==
  ASSUME LeftInv, NEW t \in Tabs, UNCHANGED <<cookie, left, late, token>>,
         \A u \in Tabs \ {t} : exchange'[u] = exchange[u],
         exchange'[t].state = "none" => exchange'[t].cookie = 0,
         \A u \in Tabs : left[u] /\ t \notin late[u] =>
           /\ exchange'[t].cookie = 0
           /\ exchange'[t].state \notin {"checked", "rotated"}
  PROVE  LeftInv'
<1>1. \A u \in Tabs : exchange'[u].state = "none" => exchange'[u].cookie = 0
  BY DEF LeftInv
<1>2. ASSUME NEW u \in Tabs, left[u] PROVE OutOf(u)'
  <2>1. OutOf(u)
    BY <1>2 DEF LeftInv
  <2> QED
    BY <1>2, <2>1 DEF OutOf
<1> QED
  BY <1>1, <1>2 DEF LeftInv

LEMMA LeftStep ==
  ASSUME TypeInv, Coherent, AccountInv, LeftInv, [Next]_vars
  PROVE  LeftInv'
<1>0. /\ token \in [Tabs -> Issued \cup {0}] /\ left \in [Tabs -> BOOLEAN]
      /\ late \in [Tabs -> SUBSET Tabs]
      /\ \A u \in Tabs : exchange[u] \in [state: {"none", "sent", "checked", "rotated", "failed"},
                                          cookie: Issued \cup {0}, pair: Issued \cup {0}]
      /\ DOMAIN exchange = Tabs /\ exchange = [u \in Tabs |-> exchange[u]]
  BY DEF TypeInv, TypeOK
<1>1. CASE UNCHANGED vars
  BY <1>1, LeftKept DEF vars, browser, tab, history
<1>2. ASSUME NEW t \in Tabs, NEW a \in Accounts, Login(t, a) PROVE LeftInv'
  BY <1>2, LeftKept DEF Login, browser, tab, history
<1>3. ASSUME NEW t \in Tabs, LoggedIn(t) \/ LoginFails(t) \/ OpenPage(t) PROVE LeftInv'
  <2>1. CASE LoggedIn(t)
    <3>1. exchange' = exchange /\ \A u \in Tabs : ~ left'[u]
      BY <2>1 DEF LoggedIn
    <3> QED
      BY <3>1 DEF LeftInv
  <2>2. CASE LoginFails(t)
    BY <2>2, LeftKept DEF LoginFails, browser, tab, history
  <2>3. CASE OpenPage(t)
    <3>1. UNCHANGED <<cookie, stored, exchange, left, late>> /\ stored # 0
          /\ token' = [token EXCEPT ![t] = stored]
      BY <2>3 DEF OpenPage, browser
    <3>2. ASSUME NEW u \in Tabs, left[u] PROVE FALSE
      BY <3>1, <3>2 DEF LeftInv, OutOf, StoredIsCookie, AccountInv
    <3> QED
      BY <3>1, <3>2 DEF LeftInv
  <2> QED
    BY <1>3, <2>1, <2>2, <2>3
<1>4. ASSUME NEW r \in Requests, NEW t \in Tabs, NEW kind \in {"get", "logout"},
             Send(r, t, kind)
      PROVE LeftInv'
  BY <1>4, LeftKept DEF Send, browser, tab, history
<1>5. ASSUME NEW r \in Requests, Progress(r) \/ RequestFails(r) PROVE LeftInv'
  <2> DEFINE t == requests[r].tab
  <2>1. CASE Serve(r) \/ Show(r) \/ Wait(r)
    BY <2>1, LeftKept DEF Serve, Show, Wait, browser, tab, history
  <2>2. CASE LoggedOut(r)
    <3>1. PICK v \in Tabs : v = t
      BY <2>2 DEF LoggedOut, Coherent, Is
    <3>2. /\ cookie' = 0 /\ exchange' = exchange /\ left' = [left EXCEPT ![v] = TRUE]
          /\ late' = [late EXCEPT ![v] = Refreshing] /\ token' = [token EXCEPT ![v] = 0]
      BY <2>2, <3>1 DEF LoggedOut, Leave
    <3>3. OutOf(v)'
      <4>1. \A u \in Tabs \ Refreshing : exchange[u].state = "none" /\ exchange[u].cookie = 0
        BY DEF Refreshing, LeftInv
      <4>2. late'[v] = Refreshing /\ token'[v] = 0
        BY <1>0, <3>1, <3>2
      <4> QED
        BY <3>2, <4>1, <4>2 DEF OutOf
    <3>4. ASSUME NEW u \in Tabs \ {v}, left'[u] PROVE OutOf(u)'
      <4>1. left[u] /\ late'[u] = late[u] /\ token'[u] = token[u]
        BY <1>0, <3>2, <3>4
      <4> QED
        BY <3>2, <4>1 DEF LeftInv, OutOf
    <3> QED
      BY <3>2, <3>3, <3>4 DEF LeftInv
  <2>3. CASE GiveUp(r) \/ RequestFails(r)
    <3>1. Rejected(r)
      BY <2>3 DEF GiveUp, RequestFails
    <3>2. UNCHANGED <<cookie, exchange, left, late>>
          /\ (token' = token \/ token' = [token EXCEPT ![t] = 0])
      BY <3>1 DEF Rejected, Leave, history
    <3> QED
      BY <1>0, <3>2, LeftKept
  <2>4. CASE Lead(r)
    <3>1. t \in Tabs
      BY <2>4 DEF Lead, Coherent, Is
    <3>2. /\ exchange' = [exchange EXCEPT ![t] = [state |-> "sent", cookie |-> cookie, pair |-> 0]]
          /\ UNCHANGED <<cookie, left, late, token>>
      BY <2>4 DEF Lead, browser, history
    <3>3. exchange'[t].cookie = cookie /\ exchange'[t].state = "sent"
          /\ \A u \in Tabs \ {t} : exchange'[u] = exchange[u]
      BY <1>0, <3>1, <3>2
    <3>4. \A u \in Tabs : left[u] => cookie = 0
      BY DEF LeftInv, OutOf
    <3> QED
      BY <3>1, <3>2, <3>3, <3>4, LeftExchange
  <2> QED
    BY <1>5, <2>1, <2>2, <2>3, <2>4 DEF Progress
<1>6. ASSUME NEW t \in Tabs, Settle(t) \/ Lose(t) PROVE LeftInv'
  <2>1. CASE Check(t) \/ Lose(t)
    <3>1. /\ UNCHANGED <<cookie, left, late, token>>
          /\ \A u \in Tabs \ {t} : exchange'[u] = exchange[u]
          /\ \/ exchange'[t] = Failed
             \/ /\ exchange[t].cookie \in Issued
                /\ exchange'[t] = [exchange[t] EXCEPT !.state = "checked"]
      BY <1>0, <2>1 DEF Check, Lose, browser, tab, history
    <3>2. Failed.state = "failed" /\ Failed.cookie = 0
      BY DEF Failed
    <3>3. [exchange[t] EXCEPT !.state = "checked"].state = "checked"
      BY <1>0
    <3>4. exchange[t].cookie \in Issued => \A u \in Tabs : left[u] => t \in late[u]
      BY ZeroNotIssued DEF LeftInv, OutOf
    <3> QED
      BY <3>1, <3>2, <3>3, <3>4, LeftExchange
  <2>2. CASE Rotate(t)
    <3>1. /\ UNCHANGED <<cookie, left, late, token>> /\ exchange[t].state = "checked"
          /\ exchange'[t].state = "rotated" /\ \A u \in Tabs \ {t} : exchange'[u] = exchange[u]
      BY <1>0, <2>2 DEF Rotate, browser, tab, history
    <3>2. \A u \in Tabs : left[u] => t \in late[u]
      BY <3>1 DEF LeftInv, OutOf
    <3> QED
      BY <3>1, <3>2, LeftExchange
  <2>3. CASE Refreshed(t)
    <3>1. /\ exchange[t].state = "rotated" /\ Over(t, TRUE)
      BY <2>3 DEF Refreshed
    <3>2. \A u \in Tabs : left[u] => t \in late[u]
      BY <3>1 DEF LeftInv, OutOf
    <3>3. \A u \in Tabs : ~ left'[u]
      BY <1>0, <3>1, <3>2 DEF Over
    <3>4. exchange' = [exchange EXCEPT ![t] = NoExchange]
      BY <3>1 DEF Over
    <3> QED
      BY <1>0, <3>3, <3>4 DEF LeftInv, NoExchange
  <2>4. CASE RefreshFailed(t)
    <3>1. /\ cookie' = cookie /\ token' = [token EXCEPT ![t] = 0] /\ Over(t, FALSE)
      BY <2>4 DEF RefreshFailed
    <3>2. /\ exchange' = [exchange EXCEPT ![t] = NoExchange]
          /\ \A u \in Tabs : left'[u] = left[u] /\ late'[u] = late[u] \ {t}
      BY <1>0, <3>1 DEF Over
    <3>3. \A u \in Tabs : exchange'[u].state = "none" => exchange'[u].cookie = 0
      BY <1>0, <3>2 DEF LeftInv, NoExchange
    <3>4. exchange'[t].cookie = 0 /\ exchange'[t].state = "none"
          /\ \A u \in Tabs \ {t} : exchange'[u] = exchange[u]
      BY <1>0, <3>2 DEF NoExchange
    <3>5. ASSUME NEW u \in Tabs, left[u] PROVE OutOf(u)'
      <4>1. OutOf(u)
        BY <3>5 DEF LeftInv
      <4>2. token'[u] = 0
        BY <1>0, <3>1, <4>1 DEF OutOf
      <4> QED
        BY <3>1, <3>2, <3>4, <4>1, <4>2 DEF OutOf
    <3> QED
      BY <3>2, <3>3, <3>5 DEF LeftInv
  <2> QED
    BY <1>6, <2>1, <2>2, <2>3, <2>4 DEF Settle
<1>7. ASSUME NEW n \in Pairs, Expire(n) PROVE LeftInv'
  BY <1>7, LeftKept DEF Expire, browser, tab, history
<1> QED
  BY <1>1, <1>2, <1>3, <1>4, <1>5, <1>6, <1>7 DEF Next

\* A tab whose logout the server carried out stays signed out until somebody logs in or
\* a refresh that was under way when it left is answered: the answer deletes the cookie,
\* and a refresh without one is refused (auth_routes.py:99-101), whatever late 401s the
\* tab gets and whatever other requests fail.
THEOREM StaysOutCorrect == Spec => []StaysOut
<1>1. Init => LeftInv
  BY DEF Init, LeftInv, NoExchange
<1>2. TypeInv /\ Coherent /\ AccountInv /\ LeftInv /\ [Next]_vars => LeftInv'
  BY LeftStep
<1>3. LeftInv => StaysOut
  BY DEF LeftInv, OutOf, StaysOut
<1> QED
  BY <1>1, <1>2, <1>3, TypeCorrect, CoherentCorrect, AccountCorrect, PTL DEF Spec

----------------------------------------------------------------------------
(* The cookie is one the server accepts.                                   *)

\* The pair that the answer of a login or of a refresh of tab t brings, or 0.
How == {"login", "refresh"}
Due(t, h) == IF h = "login" THEN login[t]
             ELSE IF exchange[t].state = "rotated" THEN exchange[t].pair ELSE 0

\* Until then nobody else knows it.
Unseen(p) ==
  /\ p \in Issued \ refreshDead /\ cookie # p
  /\ \A u \in Tabs : exchange[u].cookie # p
  /\ \A r \in Requests : requests[r].cookie # p
FreshPairs ==
  /\ \A t \in Tabs : exchange[t].state = "rotated" => exchange[t].pair # 0
  /\ \A t \in Tabs, h \in How : Due(t, h) # 0 => Unseen(Due(t, h))
  /\ \A t, u \in Tabs, h, k \in How :
       Due(t, h) # 0 /\ Due(t, h) = Due(u, k) => t = u /\ h = k
LiveInv == FreshPairs /\ CookieIsLive

\* A logout that has been served, whose answer will delete cookie n.
Leaving(r, n) == /\ requests[r].state = "ok" /\ requests[r].kind = "logout"
                 /\ requests[r].cookie = n
\* What a step may make of a request while no token is dealt out.
SameCookie(r) == /\ requests'[r].cookie \in {requests[r].cookie, cookie, 0}
                 /\ requests[r].state = "ok" /\ requests[r].kind = "logout" =>
                      /\ requests'[r].state = "ok" /\ requests'[r].kind = "logout"
                      /\ requests'[r].cookie = requests[r].cookie
SameExchange(t) == /\ exchange'[t].cookie \in {exchange[t].cookie, cookie, 0}
                   /\ "rotated" \in {exchange'[t].state, exchange[t].state} =>
                        exchange'[t] = exchange[t]

LEMMA UnderwayLeaving ==
  ASSUME NEW n
  PROVE  Underway(n) <=> \/ \E t \in Tabs : exchange[t].state = "rotated" /\ exchange[t].cookie = n
                         \/ \E r \in Requests : Leaving(r, n)
BY DEF Underway, Leaving, Is

\* Steps that issue no pair, and give away at most the one they answer with.
LEMMA FreshKept ==
  ASSUME TypeInv, FreshPairs, owner' = owner,
         \A t \in Tabs, h \in How :
           Due(t, h)' # 0 => /\ Due(t, h)' = Due(t, h)
                             /\ Due(t, h) \notin refreshDead' /\ Due(t, h) # cookie',
         \A t \in Tabs : exchange'[t].state = "rotated" => exchange'[t] = exchange[t],
         \A t \in Tabs : exchange'[t].cookie \in {exchange[t].cookie, cookie, 0},
         \A r \in Requests : requests'[r].cookie \in {requests[r].cookie, cookie, cookie', 0}
  PROVE  FreshPairs'
<1>1. Issued' = Issued
  BY DEF Issued
<1>2. \A t \in Tabs : exchange'[t].state = "rotated" => exchange'[t].pair # 0
  BY DEF FreshPairs
<1>3. ASSUME NEW t \in Tabs, NEW h \in How, Due(t, h)' # 0 PROVE Unseen(Due(t, h))'
  <2>1. PICK p : p = Due(t, h)
    OBVIOUS
  <2>2. Due(t, h)' = p /\ p # 0 /\ Unseen(p) /\ p \notin refreshDead' /\ p # cookie'
    BY <1>3, <2>1 DEF FreshPairs
  <2>3. Unseen(p)'
    BY <1>1, <2>2 DEF Unseen
  <2> QED
    BY <2>2, <2>3 DEF Unseen
<1>4. ASSUME NEW t \in Tabs, NEW u \in Tabs, NEW h \in How, NEW k \in How,
             Due(t, h)' # 0, Due(t, h)' = Due(u, k)'
      PROVE  t = u /\ h = k
  BY <1>4 DEF FreshPairs
<1> QED
  BY <1>2, <1>3, <1>4 DEF FreshPairs

\* Steps that neither issue a pair nor end a rotation or a logout.
LEMMA LiveKept ==
  ASSUME TypeInv, LiveInv, UNCHANGED <<owner, cookie, login>>, losses' = losses,
         \A t \in Tabs : SameExchange(t),
         \A r \in Requests : SameCookie(r),
         \/ refreshDead' = refreshDead
         \/ \E r \in Requests : /\ refreshDead' \subseteq refreshDead \cup {requests[r].cookie}
                                /\ Leaving(r, requests[r].cookie)'
                                /\ requests'[r].cookie = requests[r].cookie
  PROVE  LiveInv'
<1>1. Issued' = Issued /\ NextPair' = NextPair
  BY DEF Issued, NextPair
<1>2. \A t \in Tabs, h \in How : Due(t, h)' = Due(t, h)
  BY DEF Due, SameExchange
<1>3. FreshPairs'
  <2>1. \A t \in Tabs, h \in How : Due(t, h) # 0 =>
          Due(t, h) \notin refreshDead' /\ Due(t, h) # cookie'
    BY DEF LiveInv, FreshPairs, Unseen
  <2>2. /\ \A t \in Tabs : exchange'[t].state = "rotated" => exchange'[t] = exchange[t]
        /\ \A t \in Tabs : exchange'[t].cookie \in {exchange[t].cookie, cookie, 0}
    BY DEF SameExchange
  <2>3. \A r \in Requests : requests'[r].cookie \in {requests[r].cookie, cookie, 0}
    BY DEF SameCookie
  <2> QED
    BY <1>2, <2>1, <2>2, <2>3, FreshKept DEF LiveInv
<1>4. CookieIsLive'
  <2> SUFFICES ASSUME losses = 0, NextPair \in Pairs, cookie \in refreshDead'
               PROVE  Underway(cookie)'
    BY <1>1 DEF CookieIsLive
  <2>1. CASE cookie \in refreshDead
    <3>1. Underway(cookie)
      BY <2>1 DEF LiveInv, CookieIsLive
    <3>2. CASE \E t \in Tabs : exchange[t].state = "rotated" /\ exchange[t].cookie = cookie
      BY <3>2 DEF Underway, SameExchange
    <3>3. CASE \E r \in Requests : Leaving(r, cookie)
      BY <3>3 DEF Underway, Leaving, SameCookie, Is
    <3> QED
      BY <3>1, <3>2, <3>3, UnderwayLeaving
  <2>2. CASE cookie \notin refreshDead
    <3>1. PICK r \in Requests : /\ refreshDead' \subseteq refreshDead \cup {requests[r].cookie}
                                /\ Leaving(r, requests[r].cookie)'
                                /\ requests'[r].cookie = requests[r].cookie
      BY <2>2
    <3>2. cookie = requests[r].cookie
      BY <2>2, <3>1
    <3> QED
      BY <3>1, <3>2 DEF Underway, Leaving, Is
  <2> QED
    BY <2>1, <2>2
<1> QED
  BY <1>3, <1>4 DEF LiveInv

\* Only one request changes, and it is not a logout that was served.
LEMMA OneRequest ==
  ASSUME requests \in [Requests -> Request], NEW r \in Requests, NEW v \in Request,
         v.cookie \in {requests[r].cookie, cookie, 0},
         requests[r].state # "ok" \/ requests[r].kind # "logout",
         requests' = [requests EXCEPT ![r] = v]
  PROVE  \A q \in Requests : SameCookie(q)
<1>1. requests'[r] = v /\ \A q \in Requests \ {r} : requests'[q] = requests[q]
  OBVIOUS
<1> QED
  BY <1>1 DEF SameCookie

LEMMA UnwantedCookie ==
  ASSUME requests \in [Requests -> Request], NEW r \in Requests, NEW t,
         Unwanted(t)[r] = requests'[r]
  PROVE  /\ SameCookie(r)
         /\ requests'[r].cookie = requests[r].cookie
         /\ requests'[r].state = requests[r].state /\ requests'[r].kind = requests[r].kind
<1> DEFINE q == [requests[r] EXCEPT !.wanted = FALSE]
<1>1. q.cookie = requests[r].cookie /\ q.state = requests[r].state /\ q.kind = requests[r].kind
  BY DEF Request
<1>2. requests'[r] = q \/ requests'[r] = requests[r]
  BY DEF Unwanted
<1> HIDE DEF q
<1> QED
  BY <1>1, <1>2 DEF SameCookie

\* Once the browser has no cookie, or a new one, nothing is amiss with it.
LEMMA LiveNew ==
  ASSUME TypeInv, LiveInv, owner' = owner,
         refreshDead' = refreshDead, cookie' \notin refreshDead,
         \A t \in Tabs, h \in How :
           Due(t, h)' # 0 => Due(t, h)' = Due(t, h) /\ Due(t, h) # cookie',
         \A t \in Tabs : exchange'[t].state = "rotated" => exchange'[t] = exchange[t],
         \A t \in Tabs : exchange'[t].cookie \in {exchange[t].cookie, 0},
         \A r \in Requests : requests'[r].cookie \in {requests[r].cookie, cookie', 0}
  PROVE  LiveInv'
<1>1. CookieIsLive'
  BY DEF CookieIsLive
<1>2. \A t \in Tabs, h \in How : Due(t, h) # 0 => Due(t, h) \notin refreshDead'
  BY DEF LiveInv, FreshPairs, Unseen
<1>3. FreshPairs'
  BY <1>2, FreshKept DEF LiveInv
<1> QED
  BY <1>1, <1>3 DEF LiveInv

\* An exchange fails.
LEMMA LiveLost ==
  ASSUME TypeInv, LiveInv, UNCHANGED <<owner, cookie, refreshDead>>,
         losses' = losses + 1 \/ NextPair \notin Pairs,
         \A t \in Tabs : login'[t] \in {login[t], 0},
         \A t \in Tabs : \/ exchange'[t] = exchange[t]
                         \/ exchange'[t].state = "failed" /\ exchange'[t].cookie = 0,
         \A r \in Requests : requests'[r].cookie \in {requests[r].cookie, 0}
  PROVE  LiveInv'
<1>1. CookieIsLive'
  <2>1. NextPair' = NextPair
    BY DEF NextPair, Issued
  <2>2. losses \in Nat
    BY DEF TypeInv, TypeOK
  <2> QED
    BY <2>1, <2>2 DEF CookieIsLive
<1>2. \A t \in Tabs, h \in How : Due(t, h)' # 0 => Due(t, h)' = Due(t, h)
  BY DEF Due
<1>3. \A t \in Tabs, h \in How :
        Due(t, h) # 0 => Due(t, h) \notin refreshDead' /\ Due(t, h) # cookie'
  BY DEF LiveInv, FreshPairs, Unseen
<1>4. FreshPairs'
  BY <1>2, <1>3, FreshKept DEF LiveInv
<1> QED
  BY <1>1, <1>4 DEF LiveInv

\* A pair is issued, which an answer of tab t will bring.
LEMMA LiveIssued ==
  ASSUME TypeInv, LiveInv, NEW t \in Tabs, NEW h \in How, NEW n, n = NextPair, n \in Pairs,
         n \notin Issued, n \in Issued', Issued \subseteq Issued', n \notin refreshDead',
         UNCHANGED <<cookie, requests, losses>>,
         \A u \in Tabs : exchange'[u].cookie = exchange[u].cookie,
         \A u \in Tabs : exchange'[u].state = "rotated" => exchange'[u].pair # 0,
         Due(t, h)' = n,
         \A u \in Tabs, k \in How : (u # t \/ k # h) => Due(u, k)' = Due(u, k),
         \A u \in Tabs, k \in How : Due(u, k) # 0 => Due(u, k) \notin refreshDead'
  PROVE  FreshPairs'
<1>1. /\ cookie \in Issued \cup {0} /\ \A u \in Tabs : exchange[u].cookie \in Issued \cup {0}
      /\ \A r \in Requests : requests[r].cookie \in Issued \cup {0}
  <2>1. exchange \in [Tabs -> Exchange] /\ requests \in [Requests -> Request]
    BY DEF TypeInv, TypeOK, Exchange, Request
  <2> QED
    BY <2>1 DEF TypeInv, TypeOK, Exchange, Request
<1>2. n # 0
  BY ConstantsAssumption DEF Pairs
<1>3. Unseen(n)'
  BY <1>1, <1>2 DEF Unseen
<1>4. \A u \in Tabs, k \in How : Due(u, k) # 0 => Unseen(Due(u, k)) /\ Due(u, k) # n
  BY DEF LiveInv, FreshPairs, Unseen
<1>5. ASSUME NEW u \in Tabs, NEW k \in How, Due(u, k)' # 0 PROVE Unseen(Due(u, k))'
  <2>1. CASE u = t /\ k = h
    BY <1>3, <2>1 DEF Unseen
  <2>2. CASE u # t \/ k # h
    <3>1. PICK p : p = Due(u, k)
      OBVIOUS
    <3>2. Due(u, k)' = p /\ p # 0 /\ Unseen(p) /\ p \notin refreshDead'
      BY <1>4, <1>5, <2>2, <3>1
    <3>3. Unseen(p)'
      BY <3>2 DEF Unseen
    <3> QED
      BY <3>2, <3>3 DEF Unseen
  <2> QED
    BY <2>1, <2>2
<1>6. ASSUME NEW u \in Tabs, NEW v \in Tabs, NEW k \in How, NEW l \in How,
             Due(u, k)' # 0, Due(u, k)' = Due(v, l)'
      PROVE  u = v /\ k = l
  BY <1>4, <1>6 DEF LiveInv, FreshPairs
<1> QED
  BY <1>5, <1>6 DEF FreshPairs

LEMMA LiveStep ==
  ASSUME TypeInv, Coherent, LiveInv, [Next]_vars
  PROVE  LiveInv'
<1>0. /\ requests \in [Requests -> Request] /\ exchange \in [Tabs -> Exchange]
      /\ cookie \in Issued \cup {0} /\ refreshDead \subseteq Issued
      /\ owner \in [Pairs -> Accounts \cup {NoAccount}] /\ losses \in Nat
      /\ \A r \in Requests : requests[r].cookie \in Issued \cup {0}
      /\ \A t \in Tabs : exchange[t].cookie \in Issued \cup {0} /\ exchange[t].pair \in Issued \cup {0}
  <2>1. requests \in [Requests -> Request] /\ exchange \in [Tabs -> Exchange]
    BY DEF TypeInv, TypeOK, Request, Exchange
  <2> QED
    BY <2>1 DEF TypeInv, TypeOK, Request, Exchange
<1>1. CASE UNCHANGED vars
  BY <1>1, LiveKept DEF vars, server, browser, SameExchange, SameCookie
<1>2. ASSUME NEW t \in Tabs, NEW a \in Accounts, Login(t, a) PROVE LiveInv'
  <2>1. /\ NextPair \in Pairs /\ Issue(a) /\ login' = [login EXCEPT ![t] = NextPair]
        /\ UNCHANGED <<refreshDead, cookie, exchange, requests, losses>>
    BY <1>2 DEF Login, browser
  <2>2. PICK n : n = NextPair
    OBVIOUS
  <2>3. n \notin Issued /\ n \in Issued' /\ Issued \subseteq Issued'
    BY <2>1, <2>2, FreshPair, IssuedGrows DEF TypeInv
  <2>4. CookieIsLive'
    BY <2>1, <2>2 DEF LiveInv, CookieIsLive, Underway, Is
  <2>5. /\ Due(t, "login")' = n
        /\ \A u \in Tabs, k \in How : (u # t \/ k # "login") => Due(u, k)' = Due(u, k)
    BY <2>1, <2>2 DEF Due, How, TypeInv, TypeOK
  <2>6. \A u \in Tabs, k \in How : Due(u, k) # 0 => Due(u, k) \notin refreshDead'
    BY <2>1 DEF LiveInv, FreshPairs, Unseen
  <2>7. \A u \in Tabs : exchange'[u].state = "rotated" => exchange'[u].pair # 0
    BY <2>1 DEF LiveInv, FreshPairs
  <2>8. "login" \in How /\ n \notin refreshDead'
    BY <1>0, <2>1, <2>3 DEF How
  <2>9. FreshPairs'
    BY <2>1, <2>2, <2>3, <2>5, <2>6, <2>7, <2>8, LiveIssued
  <2> QED
    BY <2>4, <2>9 DEF LiveInv
<1>8. ASSUME NEW t \in Tabs, LoggedIn(t) PROVE LiveInv'
  <2>1. PICK n : n = Due(t, "login")
    OBVIOUS
  <2>2. /\ n # 0 /\ cookie' = n /\ login' = [login EXCEPT ![t] = 0] /\ requests' = Unwanted(t)
        /\ UNCHANGED <<owner, refreshDead, exchange>>
    BY <1>8, <2>1 DEF LoggedIn, Due, server
  <2>3. n \notin refreshDead /\ "login" \in How
    BY <2>1, <2>2 DEF LiveInv, FreshPairs, Unseen, How
  <2>4. /\ Due(t, "login")' = 0
        /\ \A u \in Tabs, k \in How : (u # t \/ k # "login") => Due(u, k)' = Due(u, k)
    BY <2>2 DEF Due, How, TypeInv, TypeOK
  <2>5. \A u \in Tabs, k \in How : Due(u, k)' # 0 => Due(u, k)' = Due(u, k) /\ Due(u, k) # n
    BY <2>1, <2>2, <2>3, <2>4 DEF LiveInv, FreshPairs
  <2>6. \A r \in Requests : requests'[r].cookie = requests[r].cookie
    BY <1>0, <2>2, UnwantedCookie
  <2> QED
    BY <2>2, <2>3, <2>5, <2>6, LiveNew
<1>9. ASSUME NEW t \in Tabs, LoginFails(t) PROVE LiveInv'
  <2>1. /\ UNCHANGED <<owner, cookie, refreshDead, exchange, requests>>
        /\ losses' = losses + 1 /\ login' = [login EXCEPT ![t] = 0]
    BY <1>9 DEF LoginFails, server, browser
  <2>2. \A u \in Tabs : login'[u] \in {login[u], 0}
    BY <2>1 DEF TypeInv, TypeOK
  <2> QED
    BY <2>1, <2>2, LiveLost
<1>3. ASSUME NEW t \in Tabs, OpenPage(t) PROVE LiveInv'
  BY <1>3, LiveKept DEF OpenPage, server, browser, SameExchange, SameCookie
<1>4. ASSUME NEW r \in Requests, NEW t \in Tabs, NEW kind \in {"get", "logout"},
             Send(r, t, kind)
      PROVE LiveInv'
  <2> DEFINE v == Sent([Idle EXCEPT !.tab = t, !.kind = kind, !.wanted = TRUE], token[t], cookie)
  <2>1. /\ UNCHANGED <<owner, cookie, exchange, refreshDead, losses, login>>
        /\ requests' = [requests EXCEPT ![r] = v] /\ requests[r].state = "idle"
    BY <1>4 DEF Send, server, browser, Is
  <2>2. v \in Request /\ v.cookie \in {requests[r].cookie, cookie, 0}
    BY <1>0 DEF TypeInv, TypeOK, Sent, Idle, Request
  <2> HIDE DEF v
  <2>3. \A q \in Requests : SameCookie(q)
    BY <1>0, <2>1, <2>2, OneRequest
  <2> QED
    BY <2>1, <2>3, LiveKept DEF SameExchange
<1>5. ASSUME NEW r \in Requests, Progress(r) \/ RequestFails(r) PROVE LiveInv'
  <2> DEFINE t == requests[r].tab
  <2>1. CASE Serve(r)
    <3> DEFINE ok == [requests[r] EXCEPT !.state = "ok"]
               no == Refused(requests[r], "401")
    <3>1. /\ UNCHANGED <<owner, cookie, exchange, losses, login>> /\ requests[r].state = "sent"
          /\ requests' = [requests EXCEPT ![r] = IF Accepted(requests[r].token) THEN ok ELSE no]
          /\ IF requests[r].kind = "logout" /\ Accepted(requests[r].token)
             THEN refreshDead' = refreshDead \cup ({requests[r].cookie} \ {0})
             ELSE refreshDead' = refreshDead
      BY <2>1 DEF Serve, browser, Is
    <3>2. /\ ok \in Request /\ no \in Request /\ ok.cookie = requests[r].cookie /\ no.cookie = 0
          /\ ok.state = "ok" /\ ok.kind = requests[r].kind
      <4>1. requests[r] \in Request
        BY <1>0
      <4>2. ok \in Request /\ no \in Request
        BY <4>1, RequestTyped
      <4> QED
        BY <4>1, <4>2 DEF Refused, Request
    <3> HIDE DEF ok, no
    <3>3. \A q \in Requests : SameCookie(q)
      BY <1>0, <3>1, <3>2, OneRequest
    <3>4. \/ refreshDead' = refreshDead
          \/ /\ refreshDead' \subseteq refreshDead \cup {requests[r].cookie}
             /\ Leaving(r, requests[r].cookie)'
             /\ requests'[r].cookie = requests[r].cookie
      <4>1. CASE requests[r].kind = "logout" /\ Accepted(requests[r].token)
        <5>1. requests'[r] = ok
          BY <1>0, <3>1, <4>1
        <5> QED
          BY <3>1, <3>2, <4>1, <5>1 DEF Leaving
      <4>2. CASE ~ (requests[r].kind = "logout" /\ Accepted(requests[r].token))
        BY <3>1, <4>2
      <4> QED
        BY <4>1, <4>2
    <3> QED
      BY <3>1, <3>3, <3>4, LiveKept DEF SameExchange
  <2>2. CASE Show(r)
    <3>1. /\ UNCHANGED <<owner, cookie, exchange, refreshDead, losses, login>>
          /\ requests' = [requests EXCEPT ![r] = Idle] /\ requests[r].kind = "get"
      BY <2>2 DEF Show, server, browser
    <3>2. Idle \in Request /\ Idle.cookie = 0
      BY <1>0, RequestTyped DEF Idle
    <3>3. \A q \in Requests : SameCookie(q)
      BY <1>0, <3>1, <3>2, OneRequest
    <3> QED
      BY <3>1, <3>3, LiveKept DEF SameExchange
  <2>3. CASE LoggedOut(r)
    <3>1. /\ UNCHANGED <<owner, exchange, refreshDead, login>> /\ cookie' = 0
          /\ requests' = [Unwanted(t) EXCEPT ![r] = Idle]
      BY <2>3 DEF LoggedOut, server
    <3>2. \A q \in Requests : requests'[q].cookie \in {requests[q].cookie, 0}
      <4>1. requests'[r] = Idle /\ \A q \in Requests \ {r} : requests'[q] = Unwanted(t)[q]
        BY <3>1 DEF Unwanted
      <4> QED
        BY <1>0, <4>1, UnwantedCookie DEF Idle
    <3>3. \A u \in Tabs, k \in How : Due(u, k)' = Due(u, k)
      BY <3>1 DEF Due
    <3>4. cookie' \notin refreshDead
      BY <1>0, <3>1, ZeroNotIssued
    <3> QED
      BY <3>1, <3>2, <3>3, <3>4, LiveNew
  <2>4. CASE GiveUp(r) \/ RequestFails(r)
    <3>1. /\ UNCHANGED <<owner, cookie, exchange, refreshDead, login>>
          /\ \/ requests' = [Unwanted(t) EXCEPT ![r] = Idle]
             \/ requests' = [requests EXCEPT ![r] = Idle]
      BY <2>4 DEF GiveUp, RequestFails, Rejected, server
    <3>2. requests'[r] = Idle
      BY <1>0, <3>1 DEF Unwanted
    <3>3. \A q \in Requests \ {r} : requests'[q] = requests[q] \/ requests'[q] = Unwanted(t)[q]
      BY <1>0, <3>1 DEF Unwanted
    <3>4. \A q \in Requests : requests'[q].cookie \in {requests[q].cookie, 0}
      BY <1>0, <3>2, <3>3, UnwantedCookie DEF Idle
    <3>5. CASE GiveUp(r)
      <4>1. requests[r].state = "401" /\ losses' = losses
        BY <3>5 DEF GiveUp, Is
      <4>2. SameCookie(r)
        BY <3>2, <4>1 DEF SameCookie, Idle
      <4>3. \A q \in Requests \ {r} : SameCookie(q)
        BY <1>0, <3>3, UnwantedCookie DEF SameCookie
      <4> QED
        BY <3>1, <4>1, <4>2, <4>3, LiveKept DEF SameExchange
    <3>6. CASE RequestFails(r)
      BY <3>1, <3>4, <3>6, LiveLost DEF RequestFails
    <3> QED
      BY <2>4, <3>5, <3>6
  <2>5. CASE Wait(r)
    <3> DEFINE v == [requests[r] EXCEPT !.state = "waiting", !.retry = TRUE]
    <3>1. /\ UNCHANGED <<owner, cookie, exchange, refreshDead, losses, login>>
          /\ requests[r].state = "401" /\ requests' = [requests EXCEPT ![r] = v]
      BY <1>0, <2>5 DEF Wait, server, browser, Is
    <3>2. v \in Request /\ v.cookie = requests[r].cookie
      BY <1>0 DEF Request
    <3> HIDE DEF v
    <3>3. \A q \in Requests : SameCookie(q)
      BY <1>0, <3>1, <3>2, OneRequest
    <3> QED
      BY <3>1, <3>3, LiveKept DEF SameExchange
  <2>6. CASE Lead(r)
    <3> DEFINE v == [requests[r] EXCEPT !.state = "leading", !.retry = TRUE]
    <3>1. /\ UNCHANGED <<owner, cookie, refreshDead, losses, login>> /\ requests[r].state = "401"
          /\ requests' = [requests EXCEPT ![r] = v] /\ ~ refreshing[t]
          /\ exchange' = [exchange EXCEPT ![t] = [state |-> "sent", cookie |-> cookie, pair |-> 0]]
      BY <1>0, <2>6 DEF Lead, server, browser, Is
    <3>2. v \in Request /\ v.cookie = requests[r].cookie
      BY <1>0 DEF Request
    <3> HIDE DEF v
    <3>3. \A q \in Requests : SameCookie(q)
      BY <1>0, <3>1, <3>2, OneRequest
    <3>4. t \in Tabs /\ exchange[t].state = "none"
      BY <3>1 DEF Coherent, Is
    <3>5. \A u \in Tabs : SameExchange(u)
      BY <1>0, <3>1, <3>4 DEF SameExchange
    <3> QED
      BY <3>1, <3>3, <3>5, LiveKept
  <2> QED
    BY <1>5, <2>1, <2>2, <2>3, <2>4, <2>5, <2>6 DEF Progress
<1>6. ASSUME NEW t \in Tabs, Settle(t) \/ Lose(t) PROVE LiveInv'
  <2>1. CASE Check(t)
    <3> DEFINE v == [exchange[t] EXCEPT !.state = "checked"]
    <3>1. /\ UNCHANGED <<owner, cookie, refreshDead, losses, requests, login>>
          /\ exchange[t].state = "sent"
          /\ exchange' = [exchange EXCEPT ![t] = v] \/ exchange' = [exchange EXCEPT ![t] = Failed]
      BY <1>0, <2>1 DEF Check, server, browser
    <3>2. /\ v.state = "checked" /\ v.cookie = exchange[t].cookie
          /\ Failed.state = "failed" /\ Failed.cookie = 0
      BY <1>0 DEF Failed, Exchange
    <3> HIDE DEF v
    <3>3. \A u \in Tabs : SameExchange(u)
      BY <1>0, <3>1, <3>2 DEF SameExchange
    <3> QED
      BY <3>1, <3>3, LiveKept DEF SameCookie
  <2>2. CASE Lose(t)
    <3>1. /\ UNCHANGED <<owner, cookie, refreshDead, requests, login>>
          /\ exchange' = [exchange EXCEPT ![t] = Failed]
          /\ losses' = losses + 1 \/ NextPair \notin Pairs
      BY <2>2 DEF Lose, server, browser
    <3>2. \A u \in Tabs : \/ exchange'[u] = exchange[u]
                          \/ exchange'[u].state = "failed" /\ exchange'[u].cookie = 0
      BY <1>0, <3>1 DEF Failed
    <3> QED
      BY <3>1, <3>2, LiveLost
  <2>3. CASE Rotate(t)
    <3>1. PICK n, c : n = NextPair /\ c = exchange[t].cookie
      OBVIOUS
    <3>2. /\ n \in Pairs /\ Issue(owner[c]) /\ refreshDead' = refreshDead \cup {c}
          /\ UNCHANGED <<cookie, requests, losses, login>>
          /\ exchange' = [exchange EXCEPT ![t].state = "rotated", ![t].pair = n]
          /\ exchange[t].state = "checked"
      BY <2>3, <3>1 DEF Rotate, browser
    <3>3. c \in Issued /\ owner[c] \in Accounts
      BY <1>0, <3>1, <3>2 DEF TypeInv, Granted, Issued
    <3>4. n \notin Issued /\ n \in Issued' /\ Issued \subseteq Issued'
      BY <3>1, <3>2, <3>3, FreshPair, IssuedGrows DEF TypeInv
    <3>5. /\ exchange'[t].state = "rotated" /\ exchange'[t].pair = n /\ exchange'[t].cookie = c
          /\ \A u \in Tabs \ {t} : exchange'[u] = exchange[u]
      BY <1>0, <3>1, <3>2 DEF Exchange
    <3>6. n # 0 /\ n # c
      BY <3>2, <3>3, <3>4, ConstantsAssumption DEF Pairs
    <3>7. /\ \A u \in Tabs : exchange'[u].cookie = exchange[u].cookie
          /\ \A u \in Tabs : exchange'[u].state = "rotated" => exchange'[u].pair # 0
      BY <3>1, <3>5, <3>6 DEF LiveInv, FreshPairs
    <3>8. /\ Due(t, "refresh")' = n
          /\ \A u \in Tabs, k \in How : (u # t \/ k # "refresh") => Due(u, k)' = Due(u, k)
      <4>1. \A u \in Tabs : Due(u, "login")' = Due(u, "login")
        BY <3>2 DEF Due
      <4>2. \A u \in Tabs \ {t} : Due(u, "refresh")' = Due(u, "refresh")
        BY <3>5 DEF Due
      <4>3. Due(t, "refresh")' = n
        BY <3>5 DEF Due
      <4> QED
        BY <4>1, <4>2, <4>3 DEF How
    <3>9. \A u \in Tabs, k \in How : Due(u, k) # 0 => Due(u, k) \notin refreshDead'
      BY <3>1, <3>2 DEF LiveInv, FreshPairs, Unseen
    <3>10. n \notin refreshDead' /\ "refresh" \in How
      BY <1>0, <3>2, <3>4, <3>6 DEF How
    <3>11. FreshPairs'
      BY <3>1, <3>2, <3>4, <3>7, <3>8, <3>9, <3>10, LiveIssued
    <3>12. CookieIsLive'
      <4> SUFFICES ASSUME losses = 0, cookie \in refreshDead'
                   PROVE  Underway(cookie)'
        BY <3>2 DEF CookieIsLive
      <4>1. CASE cookie = c
        BY <3>2, <3>5, <4>1 DEF Underway
      <4>2. CASE cookie \in refreshDead
        <5>1. Underway(cookie)
          BY <3>1, <3>2, <4>2 DEF LiveInv, CookieIsLive
        <5> QED
          BY <3>2, <3>5, <5>1 DEF Underway, Is
      <4> QED
        BY <3>2, <4>1, <4>2
    <3> QED
      BY <3>11, <3>12 DEF LiveInv
  <2>4. CASE Refreshed(t)
    <3>1. PICK n : n = exchange[t].pair
      OBVIOUS
    <3>2. /\ UNCHANGED <<owner, refreshDead, login>> /\ cookie' = n
          /\ exchange[t].state = "rotated"
          /\ requests' = [r \in Requests |-> IF r \in Concerned(t)
                            THEN Sent(requests[r], n, n) ELSE requests[r]]
          /\ exchange' = [exchange EXCEPT ![t] = NoExchange]
      BY <2>4, <3>1 DEF Refreshed, server, Over
    <3>3. n = Due(t, "refresh") /\ n # 0 /\ "refresh" \in How
      BY <3>1, <3>2 DEF Due, How, LiveInv, FreshPairs
    <3>4. \A r \in Requests : requests'[r].cookie \in {requests[r].cookie, n, 0}
      <4>1. \A r \in Requests : Sent(requests[r], n, n).cookie \in {n, 0}
        BY <1>0 DEF Sent, Request
      <4> QED
        BY <3>2, <4>1
    <3>5. /\ exchange'[t].state = "none" /\ exchange'[t].cookie = 0
          /\ \A u \in Tabs \ {t} : exchange'[u] = exchange[u]
      BY <1>0, <3>2 DEF NoExchange
    <3>6. n \notin refreshDead
      BY <3>3 DEF LiveInv, FreshPairs, Unseen
    <3>7. /\ Due(t, "refresh")' = 0
          /\ \A u \in Tabs, k \in How : (u # t \/ k # "refresh") => Due(u, k)' = Due(u, k)
      <4>1. \A u \in Tabs : Due(u, "login")' = Due(u, "login")
        BY <3>2 DEF Due
      <4>2. \A u \in Tabs \ {t} : Due(u, "refresh")' = Due(u, "refresh")
        BY <3>5 DEF Due
      <4>3. Due(t, "refresh")' = 0
        BY <3>5 DEF Due
      <4> QED
        BY <4>1, <4>2, <4>3 DEF How
    <3>8. \A u \in Tabs, k \in How : Due(u, k)' # 0 => Due(u, k)' = Due(u, k) /\ Due(u, k) # n
      BY <3>3, <3>7 DEF LiveInv, FreshPairs
    <3> QED
      BY <3>2, <3>4, <3>5, <3>6, <3>8, LiveNew
  <2>5. CASE RefreshFailed(t)
    <3>1. /\ UNCHANGED <<owner, cookie, refreshDead, losses, login>>
          /\ exchange[t].state = "failed"
          /\ exchange' = [exchange EXCEPT ![t] = NoExchange]
      BY <2>5 DEF RefreshFailed, server, Over
    <3>2. \A u \in Tabs : SameExchange(u)
      BY <1>0, <3>1 DEF SameExchange, NoExchange
    <3>3. \A r \in Concerned(t) : r \in Requests /\ requests[r].state # "ok"
      BY DEF Concerned, Coherent, Waiting, InTab, Is
    <3>4. \A r \in Requests : SameCookie(r)
      <4>1. \A r \in Requests : \/ r \in Concerned(t) /\ requests'[r] = Idle
                                \/ requests'[r] \in {requests[r], Unwanted(t)[r]}
        BY <2>5 DEF RefreshFailed
      <4>2. ASSUME NEW r \in Concerned(t), requests'[r] = Idle PROVE SameCookie(r)
        BY <3>3, <4>2 DEF SameCookie, Idle
      <4>3. ASSUME NEW r \in Requests, requests'[r] = requests[r] PROVE SameCookie(r)
        BY <4>3 DEF SameCookie
      <4> QED
        BY <1>0, <4>1, <4>2, <4>3, UnwantedCookie
    <3> QED
      BY <3>1, <3>2, <3>4, LiveKept
  <2> QED
    BY <1>6, <2>1, <2>2, <2>3, <2>4, <2>5 DEF Settle
<1>7. ASSUME NEW n \in Pairs, Expire(n) PROVE LiveInv'
  BY <1>7, LiveKept DEF Expire, browser, SameExchange, SameCookie
<1> QED
  BY <1>1, <1>2, <1>3, <1>4, <1>5, <1>6, <1>7, <1>8, <1>9 DEF Next

\* As long as no exchange is left without its answer, the cookie in the jar is revoked only
\* while the answer that replaces or deletes it is on its way: a rotation revokes the
\* token it was sent and its answer sets the next (auth_routes.py:116-117), and the pair
\* of an answer not yet read is known to nobody else.
THEOREM CookieIsLiveCorrect == Spec => []CookieIsLive
<1>1. Init => LiveInv
  BY DEF Init, LiveInv, FreshPairs, Due, CookieIsLive, NoExchange
<1>2. TypeInv /\ Coherent /\ LiveInv /\ [Next]_vars => LiveInv'
  BY LiveStep
<1>3. LiveInv => CookieIsLive
  BY DEF LiveInv
<1> QED
  BY <1>1, <1>2, <1>3, TypeCorrect, CoherentCorrect, PTL DEF Spec
=============================================================================

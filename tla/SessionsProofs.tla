--------------------------- MODULE SessionsProofs ---------------------------
(***************************************************************************)
(* Proofs about Sessions, for any number of requests and pairs, any        *)
(* lifetimes and any number of ticks in a second.                          *)
(*                                                                         *)
(* RetiredIsDead is not inductive: the key of a retired token is written   *)
(* again by a second request that computed its TTL earlier.  Secured says  *)
(* that a key lasts as long as its token; Ready, that a TTL computed at    *)
(* some tick and used at a later one still reaches the token's expiry,     *)
(* because the date it was computed from was rounded down.                 *)
(***************************************************************************)
EXTENDS Sessions, TLAPS

Secured(t) == Expired(t) \/ Expiry(t) * Second <= blacklist[t]

\* A SET of this TTL, now or later, outlives the token.
Ready(t, ttl) == Expiry(t) * Second <= clock + ttl * Second

OnTheWay(r) ==
  /\ At(r, "revoke") => Ready(Token(r), requests[r].ttl)
  /\ At(r, "cookie") => Secured(Token(r)) /\ Ready(requests[r].cookie, requests[r].ttl)
  /\ At(r, "issue") /\ Token(r) # NoToken => Secured(Token(r))

Retirement == (\A t \in retired : Secured(t)) /\ (\A r \in Requests : OnTheWay(r))

\* The history variable `stale' is a fact about `retired'.
Past == {"account", "revoke", "cookie", "issue"}
Replay(r) == requests[r].stale =>
  Token(r) \in retired /\ (requests[r].pc \in Past => Expired(Token(r)))

Replays == \A r \in Requests : Replay(r)

----------------------------------------------------------------------------
(* Types.                                                                  *)

Pair == [accessExp: Nat, refreshExp: Nat, from: 0 .. MaxPairs]
Request ==
  [op: {"none", "login", "refresh", "call"},
   pc: {"idle", "check", "account", "revoke", "cookie", "issue"},
   token: Issued \cup {NoToken}, cookie: Issued \cup {NoToken},
   ttl: Nat, stale: BOOLEAN]

\* TypeOK in parts: what a request must be, and the rest of the state.
WellFormed(q) ==
  /\ q.pc = "idle" <=> q.op = "none"
  /\ q.op \in {"refresh", "call"} => q.token # NoToken
  /\ q.pc = "cookie" => q.cookie # NoToken
  /\ q.pc = "issue" => q.op \in {"login", "refresh"}
  /\ q.op = "login" => q.pc = "issue"

RequestsOK ==
  requests \in [Requests -> Request] /\ \A r \in Requests : WellFormed(requests[r])

StoreOK ==
  /\ clock \in Nat /\ status \in {"ACTIVE", "SUSPENDED"}
  /\ pairs \in Seq(Pair) /\ Len(pairs) <= MaxPairs
  /\ blacklist \in [Tokens -> Nat]
  /\ retired \subseteq Issued /\ statusEdits \in Nat

LEMMA TypeParts == TypeOK <=> RequestsOK /\ StoreOK
BY DEF TypeOK, RequestsOK, StoreOK, WellFormed, Request, Pair, At, Token

LEMMA IssuedTyped ==
  ASSUME TypeOK, NEW t \in Issued
  PROVE  t \in Tokens /\ t # NoToken /\ t[2] \in DOMAIN pairs /\ Expiry(t) \in Nat
<1>1. t[1] \in {"access", "refresh"} /\ t[2] \in 1 .. MaxPairs /\ t = <<t[1], t[2]>>
  BY DEF Issued, Tokens
<1>2. t[2] \in 1 .. Len(pairs) /\ Len(pairs) \in Nat
  BY <1>1 DEF Issued, TypeOK
<1>3. pairs[t[2]] \in Pair
  BY <1>2, TypeParts DEF StoreOK
<1>4. Expiry(t) \in Nat
  BY <1>3 DEF Expiry, Pair
<1>5. t # NoToken
  BY <1>1 DEF NoToken
<1> QED
  BY <1>2, <1>4, <1>5 DEF Issued

LEMMA TtlTyped ==
  ASSUME NEW exp \in Nat, clock \in Nat
  PROVE  RemainingTtl(exp) \in Nat
BY ConstantsAssumption DEF RemainingTtl

\* The TTL a step computes is enough for the token it was computed for:
\* exp - int(now) rounds now down to its second.
LEMMA TtlReady ==
  ASSUME TypeOK, NEW t \in Issued
  PROVE  Ready(t, RemainingTtl(Expiry(t)))
<1> DEFINE e == Expiry(t)
<1> DEFINE q == clock \div Second
<1>1. e \in Nat /\ q \in Nat /\ q * Second <= clock /\ clock \in Nat /\ Second \in Nat
  <2>1. clock \in Nat /\ Second \in Nat \ {0}
    BY ConstantsAssumption DEF TypeOK
  <2>2. q \in Nat /\ q * Second <= clock
    BY <2>1
  <2> QED
    BY <2>1, <2>2, IssuedTyped
<1> HIDE DEF e, q
<1>2. CASE e > q
  <2>1. (e - q) * Second + q * Second = e * Second
    BY <1>1, <1>2
  <2>2. e * Second \in Int /\ q * Second \in Int /\ (e - q) * Second \in Int
    BY <1>1
  <2>3. e * Second <= clock + (e - q) * Second
    BY <1>1, <2>1, <2>2
  <2> QED
    BY <1>2, <2>3 DEF Ready, RemainingTtl, e, q
<1>3. CASE ~ (e > q)
  <2>1. e * Second <= q * Second /\ e * Second \in Int /\ q * Second \in Int
    BY <1>1, <1>3
  <2>2. e * Second <= clock + 0 * Second
    BY <1>1, <2>1
  <2> QED
    BY <1>3, <2>2 DEF Ready, RemainingTtl, e, q
<1> QED
  BY <1>2, <1>3

\* No step but Issue adds a pair, and a pair once issued keeps its dates.
LEMMA PairsKept ==
  ASSUME UNCHANGED pairs
  PROVE  Issued' = Issued /\ Request' = Request /\ \A t : Expiry(t)' = Expiry(t)
BY DEF Issued, Request, Expiry

LEMMA PairsGrow ==
  ASSUME TypeOK, NEW p \in Pair, pairs' = Append(pairs, p), Len(pairs) < MaxPairs
  PROVE  /\ pairs' \in Seq(Pair) /\ Len(pairs') <= MaxPairs
         /\ Issued \subseteq Issued'
         /\ \A t \in Issued : Expiry(t)' = Expiry(t)
<1>1. Len(pairs) \in Nat /\ MaxPairs \in Nat /\ pairs \in Seq(Pair)
  BY ConstantsAssumption DEF TypeOK, Pair
<1>2. /\ pairs' \in Seq(Pair) /\ Len(pairs') = Len(pairs) + 1
      /\ \A i \in DOMAIN pairs : pairs'[i] = pairs[i]
  BY <1>1
<1>3. \A t \in Issued : t[2] \in DOMAIN pairs /\ t \in Issued'
  BY <1>1, <1>2, IssuedTyped DEF Issued
<1>4. \A t \in Issued : Expiry(t)' = Expiry(t)
  BY <1>2, <1>3 DEF Expiry
<1> QED
  BY <1>1, <1>2, <1>3, <1>4

LEMMA IssuesPair ==
  ASSUME TypeOK, NEW r \in Requests, Issue(r)
  PROVE  \E p \in Pair : pairs' = Append(pairs, p) /\ Len(pairs) < MaxPairs
<1> DEFINE p == [accessExp |-> clock \div Second + AccessLife,
                 refreshExp |-> clock \div Second + RefreshLife,
                 from |-> Token(r)[2]]
<1>1. Token(r) \in Issued \cup {NoToken}
  BY TypeParts DEF RequestsOK, Token, Request
<1>2. Token(r)[2] \in 0 .. MaxPairs
  BY <1>1, ConstantsAssumption DEF Issued, Tokens, NoToken
<1>3. clock \div Second \in Nat
  <2>1. clock \in Nat /\ Second \in Nat \ {0}
    BY ConstantsAssumption DEF TypeOK
  <2> QED
    BY <2>1
<1>4. p \in Pair
  BY <1>2, <1>3, ConstantsAssumption DEF Pair
<1> QED
  BY <1>4 DEF Issue

\* A key is written for its TTL, or not at all.
LEMMA BlacklistTyped ==
  ASSUME TypeOK, NEW t \in Tokens, NEW ttl \in Nat, Blacklist(t, ttl)
  PROVE  blacklist' \in [Tokens -> Nat]
<1>1. clock + ttl * Second \in Nat
  <2>1. clock \in Nat /\ Second \in Nat
    BY ConstantsAssumption DEF TypeOK
  <2>2. ttl * Second \in Nat
    BY <2>1
  <2> QED
    BY <2>1, <2>2
<1> QED
  BY <1>1 DEF TypeOK, Blacklist

\* A step that touches one request and leaves a good one.
LEMMA OneRequest ==
  ASSUME RequestsOK, Issued \subseteq Issued', NEW r \in Requests, NEW q \in Request,
         WellFormed(q), requests' = [requests EXCEPT ![r] = q]
  PROVE  RequestsOK'
<1>1. q \in Request' /\ \A p \in Requests : requests[p] \in Request'
  BY DEF RequestsOK, Request
<1>2. requests' \in [Requests -> Request']
  BY <1>1 DEF RequestsOK
<1>3. \A p \in Requests : WellFormed(requests'[p])
  BY DEF RequestsOK
<1> QED
  BY <1>2, <1>3 DEF RequestsOK, WellFormed

LEMMA IdleTyped == Idle \in Request /\ WellFormed(Idle)
BY DEF Idle, Request, WellFormed

\* Requests, tokens and the dates of the blacklist have their types, and a
\* request that is past a check of get_current_account or of /auth/refresh
\* carries what that check left it (auth_routes.py, dependencies.py).
THEOREM TypeCorrect == Spec => []TypeOK
<1>1. Init => TypeOK
  BY ConstantsAssumption DEF Init, TypeOK, Idle, At, Token, Issued
<1>2. TypeOK /\ [Next]_vars => TypeOK'
  <2> SUFFICES ASSUME TypeOK, [Next]_vars PROVE RequestsOK' /\ StoreOK'
    BY TypeParts, PTL
  <2>0. RequestsOK /\ StoreOK
    BY TypeParts
  <2>1. CASE UNCHANGED vars
    BY <2>0, <2>1, PairsKept DEF vars, RequestsOK, StoreOK, WellFormed
  <2>2. ASSUME NEW r \in Requests, RequestStep(r) PROVE RequestsOK' /\ StoreOK'
    <3> DEFINE q == requests[r]
    <3>0. q \in Request /\ WellFormed(q)
      BY <2>0 DEF RequestsOK
    <3> HIDE DEF q
    <3>1. CASE Login(r)
      <4>1. [Idle EXCEPT !.op = "login", !.pc = "issue"] \in Request
            /\ WellFormed([Idle EXCEPT !.op = "login", !.pc = "issue"])
        BY DEF Idle, Request, WellFormed
      <4> QED
        BY <2>0, <3>1, <4>1, OneRequest, PairsKept DEF Login, StoreOK
    <3>2. ASSUME NEW i \in DOMAIN pairs, NEW j \in {0} \cup DOMAIN pairs,
                 Refresh(r, i) \/ Call(r, i, j)
          PROVE  RequestsOK' /\ StoreOK'
      <4>1. \A k \in DOMAIN pairs : <<"refresh", k>> \in Issued /\ <<"access", k>> \in Issued
        <5>1. DOMAIN pairs = 1 .. Len(pairs) /\ Len(pairs) \in Nat /\ Len(pairs) <= MaxPairs
          BY <2>0 DEF StoreOK
        <5>2. MaxPairs \in Nat
          BY ConstantsAssumption
        <5>3. \A k \in DOMAIN pairs : k \in 1 .. MaxPairs /\ k <= Len(pairs)
          BY <5>1, <5>2
        <5> QED
          BY <5>3 DEF Issued, Tokens
      <4>2. (IF j = 0 THEN NoToken ELSE <<"refresh", j>>) \in Issued \cup {NoToken}
        BY <4>1
      <4>3. PICK op \in {"refresh", "call"}, token \in Issued, cookie \in Issued \cup {NoToken} :
              Begin(r, op, token, cookie)
        BY <3>2, <4>1, <4>2 DEF Refresh, Call
      <4> DEFINE new == [op |-> op, pc |-> "check", token |-> token, cookie |-> cookie,
                         ttl |-> 0, stale |-> token \in retired]
      <4>4. token # NoToken
        BY IssuedTyped
      <4>5. new \in Request /\ WellFormed(new)
        BY <4>4 DEF Request, WellFormed
      <4>6. requests' = [requests EXCEPT ![r] = new]
            /\ UNCHANGED <<clock, status, pairs, blacklist, retired, statusEdits>>
        BY <4>3 DEF Begin
      <4> HIDE DEF new
      <4> QED
        BY <2>0, <4>5, <4>6, OneRequest, PairsKept DEF StoreOK
    <3>3. CASE Refused(r) \/ Suspended(r) \/ Served(r) \/ Fail(r)
      BY <2>0, <3>3, IdleTyped, OneRequest, PairsKept
      DEF Refused, Suspended, Served, Fail, End, StoreOK
    <3>4. CASE Unrevoked(r)
      <4>1. [q EXCEPT !.pc = "account"] \in Request /\ WellFormed([q EXCEPT !.pc = "account"])
        BY <3>0, <3>4 DEF Unrevoked, At, Request, WellFormed, q
      <4>2. requests' = [requests EXCEPT ![r] = [q EXCEPT !.pc = "account"]]
        BY <3>4 DEF Unrevoked, GoTo, q
      <4> QED
        BY <2>0, <3>4, <4>1, <4>2, OneRequest, PairsKept DEF Unrevoked, StoreOK
    <3>5. CASE ToRevoke(r)
      <4> DEFINE ttl == RemainingTtl(Expiry(Token(r)))
      <4> DEFINE new == [q EXCEPT !.pc = "revoke", !.ttl = ttl]
      <4>1. q.pc = "account" /\ Token(r) \in Issued
        BY <3>0, <3>5 DEF ToRevoke, At, Token, Request, WellFormed, q
      <4>2. ttl \in Nat
        BY <4>1, IssuedTyped, TtlTyped DEF TypeOK
      <4>3. requests' = [requests EXCEPT ![r] = new]
        BY <3>5 DEF ToRevoke, q
      <4> HIDE DEF ttl
      <4>4. new \in Request /\ WellFormed(new)
        BY <3>0, <4>1, <4>2 DEF Request, WellFormed
      <4> QED
        BY <2>0, <3>5, <4>3, <4>4, OneRequest, PairsKept DEF ToRevoke, StoreOK
    <3>6. CASE RevokeForRefresh(r)
      <4>1. q.pc = "revoke" /\ q.op = "refresh" /\ Token(r) \in Issued /\ requests[r].ttl \in Nat
        BY <3>0, <3>6 DEF RevokeForRefresh, At, Token, Request, WellFormed, q
      <4>2. blacklist' \in [Tokens -> Nat]
        BY <3>6, <4>1, IssuedTyped, BlacklistTyped DEF RevokeForRefresh
      <4>3. [q EXCEPT !.pc = "issue"] \in Request /\ WellFormed([q EXCEPT !.pc = "issue"])
        BY <3>0, <4>1 DEF Request, WellFormed
      <4>4. requests' = [requests EXCEPT ![r] = [q EXCEPT !.pc = "issue"]]
        BY <3>6 DEF RevokeForRefresh, GoTo, q
      <4> QED
        BY <2>0, <3>6, <4>2, <4>3, <4>4, OneRequest, PairsKept
        DEF RevokeForRefresh, StoreOK
    <3>7. CASE RevokeAccess(r)
      <4> DEFINE ttl == RemainingTtl(Expiry(requests[r].cookie))
      <4> DEFINE new == [q EXCEPT !.pc = "cookie", !.ttl = ttl]
      <4>1. /\ q.pc = "revoke" /\ q.op = "call" /\ q.cookie # NoToken
            /\ Token(r) \in Issued /\ requests[r].ttl \in Nat /\ requests[r].cookie \in Issued
        BY <3>0, <3>7 DEF RevokeAccess, CookieDecodes, At, Token, Request, WellFormed, q
      <4>2. blacklist' \in [Tokens -> Nat]
        BY <3>7, <4>1, IssuedTyped, BlacklistTyped DEF RevokeAccess
      <4>3. ttl \in Nat
        BY <4>1, IssuedTyped, TtlTyped DEF TypeOK
      <4>4. requests' = [requests EXCEPT ![r] = new]
        BY <3>7 DEF RevokeAccess, q
      <4> HIDE DEF ttl
      <4>5. new \in Request /\ WellFormed(new)
        BY <3>0, <4>1, <4>3 DEF Request, WellFormed
      <4> QED
        BY <2>0, <3>7, <4>2, <4>4, <4>5, OneRequest, PairsKept DEF RevokeAccess, StoreOK
    <3>8. CASE RevokeAccessOnly(r)
      <4>1. Token(r) \in Issued /\ requests[r].ttl \in Nat
            /\ requests[r].cookie \in Issued \cup {NoToken}
        BY <3>0, <3>8 DEF RevokeAccessOnly, At, Token, Request, WellFormed, q
      <4>2. blacklist' \in [Tokens -> Nat]
        BY <3>8, <4>1, IssuedTyped, BlacklistTyped DEF RevokeAccessOnly
      <4>3. retired' \subseteq Issued
        BY <2>0, <3>8, <4>1 DEF RevokeAccessOnly, StoreOK
      <4> QED
        BY <2>0, <3>8, <4>2, <4>3, IdleTyped, OneRequest, PairsKept
        DEF RevokeAccessOnly, End, StoreOK
    <3>9. CASE RevokeCookie(r)
      <4>1. /\ Token(r) \in Issued /\ requests[r].cookie \in Issued
            /\ requests[r].ttl \in Nat
        BY <3>0, <3>9 DEF RevokeCookie, At, Token, Request, WellFormed, q
      <4>2. blacklist' \in [Tokens -> Nat]
        BY <3>9, <4>1, IssuedTyped, BlacklistTyped DEF RevokeCookie
      <4>3. retired' \subseteq Issued
        BY <2>0, <3>9, <4>1 DEF RevokeCookie, StoreOK
      <4> QED
        BY <2>0, <3>9, <4>2, <4>3, IdleTyped, OneRequest, PairsKept
        DEF RevokeCookie, End, StoreOK
    <3>10. CASE Issue(r)
      <4>1. PICK p \in Pair : pairs' = Append(pairs, p) /\ Len(pairs) < MaxPairs
        BY <3>10, IssuesPair
      <4>2. Token(r) \in Issued \cup {NoToken}
        BY <3>0 DEF Token, Request, q
      <4>5. pairs' \in Seq(Pair) /\ Len(pairs') <= MaxPairs /\ Issued \subseteq Issued'
        BY <4>1, PairsGrow
      <4>6. RequestsOK'
        BY <2>0, <3>10, <4>5, IdleTyped, OneRequest DEF Issue, End
      <4>7. retired' \subseteq Issued'
        BY <2>0, <3>10, <4>2, <4>5 DEF Issue, StoreOK
      <4> QED
        BY <2>0, <3>10, <4>5, <4>6, <4>7 DEF Issue, StoreOK
    <3> QED
      BY <2>2, <3>1, <3>2, <3>3, <3>4, <3>5, <3>6, <3>7, <3>8, <3>9, <3>10 DEF RequestStep
  <2>3. ASSUME NEW s \in {"ACTIVE", "SUSPENDED"}, SetStatus(s) PROVE RequestsOK' /\ StoreOK'
    BY <2>0, <2>3, PairsKept DEF SetStatus, RequestsOK, StoreOK, WellFormed
  <2>4. CASE Tick
    BY <2>0, <2>4, PairsKept DEF Tick, RequestsOK, StoreOK, WellFormed
  <2> QED
    BY <2>1, <2>2, <2>3, <2>4 DEF Next
<1> QED
  BY <1>1, <1>2, PTL DEF Spec

----------------------------------------------------------------------------
(* A retired token stays dead.                                             *)

\* A step is harmless when it takes no key away and no date forward.
Harmless ==
  /\ \A t \in Issued : Secured(t) => Secured(t)'
  /\ \A t \in Issued, ttl \in Nat : Ready(t, ttl) => Ready(t, ttl)'

\* It is when the clock goes on and no key is written.
LEMMA HarmlessStep ==
  ASSUME TypeOK, TypeOK', clock' >= clock, UNCHANGED blacklist,
         \A t \in Issued : Expiry(t)' = Expiry(t)
  PROVE  Harmless
<1>1. \A t \in Issued : /\ Expiry(t) * Second \in Nat
                        /\ Expiry(t)' * Second = Expiry(t) * Second
  BY IssuedTyped, ConstantsAssumption
<1>2. clock \in Nat /\ clock' \in Nat /\ \A ttl \in Nat : ttl * Second \in Nat
  BY ConstantsAssumption DEF TypeOK
<1>3. ASSUME NEW t \in Issued, Secured(t) PROVE Secured(t)'
  BY <1>1, <1>2, <1>3 DEF Secured, Expired
<1>4. ASSUME NEW t \in Issued, NEW ttl \in Nat, Ready(t, ttl) PROVE Ready(t, ttl)'
  BY <1>1, <1>2, <1>4 DEF Ready
<1> QED
  BY <1>3, <1>4 DEF Harmless

\* The SET of a TTL that is ready secures its token, and is harmless: it may
\* shorten the life of a key, never below that of its token.
LEMMA BlacklistSecures ==
  ASSUME TypeOK, NEW t \in Issued, NEW ttl \in Nat, Ready(t, ttl), Blacklist(t, ttl),
         UNCHANGED <<clock, pairs>>
  PROVE  Secured(t)' /\ Harmless
<1>1. Expiry(t) \in Nat /\ Second \in Nat /\ clock \in Nat /\ t \in Tokens
      /\ blacklist \in [Tokens -> Nat] /\ \A u \in Issued : u \in Tokens
  BY IssuedTyped, ConstantsAssumption DEF TypeOK
<1>2. Expiry(t) * Second \in Nat /\ ttl * Second \in Nat
  BY <1>1
<1>3. \A u : Expiry(u)' = Expiry(u)
  BY PairsKept
<1>4. CASE ttl > 0
  <2>1. blacklist'[t] = clock + ttl * Second /\ \A u \in Issued \ {t} : blacklist'[u] = blacklist[u]
    BY <1>1, <1>4 DEF Blacklist
  <2>2. Secured(t)'
    BY <1>1, <1>2, <1>3, <2>1 DEF Ready, Secured
  <2> QED
    BY <1>3, <2>1, <2>2 DEF Harmless, Ready, Secured, Expired
<1>5. CASE ttl = 0
  <2>1. clock >= Expiry(t) * Second
    BY <1>1, <1>2, <1>5 DEF Ready
  <2>2. blacklist' = blacklist
    BY <1>5 DEF Blacklist
  <2> QED
    BY <1>3, <2>1, <2>2 DEF Harmless, Ready, Secured, Expired
<1> QED
  BY <1>4, <1>5

\* A harmless step that changes one request at most.
LEMMA RetirementKept ==
  ASSUME TypeOK, Retirement, Harmless,
         \A r \in Requests : requests'[r] = requests[r] \/ OnTheWay(r)',
         \A t \in retired' \ retired : Secured(t)'
  PROVE  Retirement'
<1>1. \A t \in retired' : Secured(t)'
  BY DEF Retirement, TypeOK, Harmless
<1>2. ASSUME NEW p \in Requests, requests'[p] = requests[p] PROVE OnTheWay(p)'
  <2>0. requests[p] \in Request /\ WellFormed(requests[p]) /\ OnTheWay(p)
    BY TypeParts DEF RequestsOK, Retirement
  <2>1. CASE At(p, "revoke")'
    <3>1. Token(p) \in Issued /\ requests[p].ttl \in Nat
      BY <1>2, <2>0, <2>1 DEF At, Token, Request, WellFormed
    <3>2. Ready(Token(p), requests[p].ttl)'
      BY <1>2, <2>0, <2>1, <3>1 DEF Harmless, OnTheWay, At, Token, Ready, Expiry
    <3> QED
      BY <2>1, <3>2 DEF OnTheWay, At
  <2>2. CASE At(p, "cookie")'
    <3>1. Token(p) \in Issued /\ requests[p].ttl \in Nat /\ requests[p].cookie \in Issued
      BY <1>2, <2>0, <2>2 DEF At, Token, Request, WellFormed
    <3>2. Secured(Token(p))' /\ Ready(requests[p].cookie, requests[p].ttl)'
      BY <1>2, <2>0, <2>2, <3>1
      DEF Harmless, OnTheWay, At, Token, Ready, Secured, Expired, Expiry
    <3> QED
      BY <2>2, <3>2 DEF OnTheWay, At
  <2>3. CASE (At(p, "issue") /\ Token(p) # NoToken)'
    <3>1. Token(p) \in Issued
      BY <1>2, <2>0, <2>3 DEF At, Token, Request, WellFormed
    <3>2. Secured(Token(p))'
      BY <1>2, <2>0, <2>3, <3>1 DEF Harmless, OnTheWay, At, Token, Secured, Expired, Expiry
    <3> QED
      BY <2>3, <3>2 DEF OnTheWay, At
  <2> QED
    BY <2>1, <2>2, <2>3 DEF OnTheWay
<1> QED
  BY <1>1, <1>2 DEF Retirement

\* What makes Retirement inductive is the type of the requests.
Inv == TypeOK /\ Retirement

\* A token whose rotation or logout was answered is expired or blacklisted in
\* every state the routes and the clock can reach (auth_routes.py:34-45,
\* revocation.py).
THEOREM RetiredIsDeadCorrect == Spec => []RetiredIsDead
<1>1. Init => Retirement
  BY DEF Init, Retirement, OnTheWay, At, Idle
<1>2. Inv /\ TypeOK' /\ [Next]_vars => Retirement'
  <2> SUFFICES ASSUME TypeOK, Retirement, TypeOK', [Next]_vars PROVE Retirement'
    BY DEF Inv
  <2>0. RequestsOK /\ clock \in Nat
    BY TypeParts DEF TypeOK
  <2>1. CASE UNCHANGED vars
    <3>1. Harmless
      BY <2>0, <2>1, HarmlessStep, PairsKept DEF vars
    <3>2. \A p \in Requests : OnTheWay(p)'
      BY <2>1 DEF vars, Retirement, OnTheWay, At, Token, Ready, Secured, Expired, Expiry
    <3> QED
      BY <2>1, <3>1, <3>2 DEF Retirement, vars, Harmless, TypeOK
  <2>2. ASSUME NEW r \in Requests, RequestStep(r) PROVE Retirement'
    <3> DEFINE q == requests[r]
    <3>0. q \in Request /\ WellFormed(q) /\ OnTheWay(r)
      BY <2>0 DEF RequestsOK, Retirement
    <3>a. ASSUME UNCHANGED <<clock, pairs, blacklist>> PROVE Harmless
      BY <2>0, <3>a, HarmlessStep, PairsKept
    <3>1. CASE \/ Login(r) \/ Refused(r) \/ Unrevoked(r) \/ Suspended(r) \/ Served(r) \/ Fail(r)
               \/ \E i \in DOMAIN pairs :
                    Refresh(r, i) \/ \E j \in {0} \cup DOMAIN pairs : Call(r, i, j)
      <4> DEFINE Same == /\ UNCHANGED <<clock, pairs, blacklist, retired>>
                         /\ \A p \in Requests \ {r} : requests'[p] = requests[p]
      <4> DEFINE There == \/ requests'[r].pc \in {"idle", "check", "account"}
                          \/ requests'[r].pc = "issue" /\ requests'[r].token = NoToken
      <4>1. Same /\ There
        <5>1. requests \in [Requests -> Request]
          BY <2>0 DEF RequestsOK
        <5>2. CASE Refused(r) \/ Suspended(r) \/ Served(r) \/ Fail(r)
          BY <5>1, <5>2 DEF Refused, Suspended, Served, Fail, End, Idle
        <5>3. CASE Login(r)
          BY <5>1, <5>3 DEF Login, Idle
        <5>4. CASE Unrevoked(r)
          <6>1. requests' = [requests EXCEPT ![r] = [q EXCEPT !.pc = "account"]]
            BY <5>4 DEF Unrevoked, GoTo
          <6>2. [q EXCEPT !.pc = "account"].pc = "account"
            BY <3>0 DEF Request
          <6> QED
            BY <5>1, <5>4, <6>1, <6>2 DEF Unrevoked
        <5>5. CASE \E i \in DOMAIN pairs :
                     Refresh(r, i) \/ \E j \in {0} \cup DOMAIN pairs : Call(r, i, j)
          <6>1. PICK op, token, cookie : Begin(r, op, token, cookie)
            BY <5>5 DEF Refresh, Call
          <6> QED
            BY <5>1, <6>1 DEF Begin
        <5> HIDE DEF Same, There
        <5> QED
          BY <3>1, <5>2, <5>3, <5>4, <5>5
      <4>2. OnTheWay(r)'
        BY <4>1 DEF OnTheWay, At, Token
      <4> QED
        BY <3>a, <4>1, <4>2, RetirementKept
    <3>2. CASE ToRevoke(r)
      <4>1. q.pc = "account" /\ Token(r) \in Issued
        BY <3>0, <3>2 DEF ToRevoke, At, Token, Request, WellFormed
      <4>2. /\ UNCHANGED <<clock, pairs, blacklist, retired>>
            /\ \A p \in Requests \ {r} : requests'[p] = requests[p]
            /\ requests'[r].pc = "revoke" /\ requests'[r].token = Token(r)
            /\ requests'[r].ttl = RemainingTtl(Expiry(Token(r)))
        BY <2>0, <3>0, <3>2 DEF ToRevoke, Token, RequestsOK, Request
      <4>3. Ready(Token(r), RemainingTtl(Expiry(Token(r))))
        BY <4>1, TtlReady
      <4>4. OnTheWay(r)'
        BY <4>2, <4>3 DEF OnTheWay, At, Token, Ready, Expiry
      <4> QED
        BY <3>a, <4>2, <4>4, RetirementKept
    <3>3. CASE RevokeForRefresh(r)
      <4>1. PICK t \in Issued, ttl \in Nat : t = Token(r) /\ ttl = q.ttl /\ Ready(t, ttl)
        BY <3>0, <3>3 DEF RevokeForRefresh, At, Token, Request, WellFormed, OnTheWay
      <4>2. /\ UNCHANGED <<clock, pairs, retired>> /\ Blacklist(t, ttl)
            /\ \A p \in Requests \ {r} : requests'[p] = requests[p]
            /\ requests'[r].pc = "issue" /\ requests'[r].token = t
        BY <2>0, <3>0, <3>3, <4>1 DEF RevokeForRefresh, GoTo, Token, RequestsOK, Request
      <4>3. Secured(t)' /\ Harmless
        BY <4>1, <4>2, BlacklistSecures
      <4>4. OnTheWay(r)'
        BY <4>2, <4>3 DEF OnTheWay, At, Token, Secured, Expired, Expiry
      <4> QED
        BY <4>2, <4>3, <4>4, RetirementKept
    <3>4. CASE RevokeAccess(r)
      <4>1. PICK t \in Issued, ttl \in Nat, cookie \in Issued :
              t = Token(r) /\ ttl = q.ttl /\ cookie = q.cookie /\ Ready(t, ttl)
        BY <3>0, <3>4
        DEF RevokeAccess, CookieDecodes, At, Token, Request, WellFormed, OnTheWay
      <4>2. /\ UNCHANGED <<clock, pairs, retired>> /\ Blacklist(t, ttl)
            /\ \A p \in Requests \ {r} : requests'[p] = requests[p]
            /\ requests'[r].pc = "cookie" /\ requests'[r].token = t
            /\ requests'[r].cookie = cookie
            /\ requests'[r].ttl = RemainingTtl(Expiry(cookie))
        BY <2>0, <3>0, <3>4, <4>1 DEF RevokeAccess, Token, RequestsOK, Request
      <4>3. Secured(t)' /\ Harmless
        BY <4>1, <4>2, BlacklistSecures
      <4>4. Ready(cookie, RemainingTtl(Expiry(cookie)))
        BY <4>1, TtlReady
      <4>5. OnTheWay(r)'
        BY <4>2, <4>3, <4>4 DEF OnTheWay, At, Token, Secured, Ready, Expired, Expiry
      <4> QED
        BY <4>2, <4>3, <4>5, RetirementKept
    <3>5. CASE RevokeAccessOnly(r)
      <4>1. PICK t \in Issued, ttl \in Nat, cookie \in Issued \cup {NoToken} :
              /\ t = Token(r) /\ ttl = q.ttl /\ cookie = q.cookie
              /\ Ready(t, ttl) /\ (cookie # NoToken => Secured(cookie))
        BY <3>0, <3>5
        DEF RevokeAccessOnly, CookieDecodes, At, Token, Request, WellFormed, OnTheWay, Secured
      <4>2. /\ UNCHANGED <<clock, pairs>> /\ Blacklist(t, ttl)
            /\ retired' = retired \cup ({t, cookie} \ {NoToken})
            /\ \A p \in Requests \ {r} : requests'[p] = requests[p]
            /\ requests'[r].pc = "idle"
        BY <2>0, <3>5, <4>1 DEF RevokeAccessOnly, End, Idle, RequestsOK
      <4>3. Secured(t)' /\ Harmless
        BY <4>1, <4>2, BlacklistSecures
      <4>4. \A u \in retired' \ retired : Secured(u)'
        BY <4>1, <4>2, <4>3 DEF Harmless
      <4>5. OnTheWay(r)'
        BY <4>2 DEF OnTheWay, At
      <4> QED
        BY <4>2, <4>3, <4>4, <4>5, RetirementKept
    <3>6. CASE RevokeCookie(r)
      <4>1. PICK t \in Issued, ttl \in Nat, cookie \in Issued :
              /\ t = Token(r) /\ ttl = q.ttl /\ cookie = q.cookie
              /\ Secured(t) /\ Ready(cookie, ttl)
        BY <3>0, <3>6 DEF RevokeCookie, At, Token, Request, WellFormed, OnTheWay
      <4>2. /\ UNCHANGED <<clock, pairs>> /\ Blacklist(cookie, ttl)
            /\ retired' = retired \cup {t, cookie}
            /\ \A p \in Requests \ {r} : requests'[p] = requests[p]
            /\ requests'[r].pc = "idle"
        BY <2>0, <3>6, <4>1 DEF RevokeCookie, End, Idle, RequestsOK
      <4>3. Secured(cookie)' /\ Harmless
        BY <4>1, <4>2, BlacklistSecures
      <4>4. \A u \in retired' \ retired : Secured(u)'
        BY <4>1, <4>2, <4>3 DEF Harmless
      <4>5. OnTheWay(r)'
        BY <4>2 DEF OnTheWay, At
      <4> QED
        BY <4>2, <4>3, <4>4, <4>5, RetirementKept
    <3>7. CASE Issue(r)
      <4>1. PICK p \in Pair : pairs' = Append(pairs, p) /\ Len(pairs) < MaxPairs
        BY <3>7, IssuesPair
      <4>2. \A t \in Issued : Expiry(t)' = Expiry(t)
        BY <4>1, PairsGrow
      <4>t. PICK t \in Issued \cup {NoToken} : t = Token(r) /\ (t # NoToken => Secured(t))
        BY <3>0, <3>7 DEF Issue, At, Token, Request, OnTheWay
      <4>3. /\ UNCHANGED <<clock, blacklist>>
            /\ retired' = retired \cup ({t} \ {NoToken})
            /\ \A u \in Requests \ {r} : requests'[u] = requests[u]
            /\ requests'[r].pc = "idle"
        BY <2>0, <3>7, <4>t DEF Issue, End, Idle, RequestsOK
      <4>4. Harmless
        BY <2>0, <4>2, <4>3, HarmlessStep
      <4>6. \A u \in retired' \ retired : Secured(u)'
        BY <4>3, <4>4, <4>t DEF Harmless
      <4>7. OnTheWay(r)'
        BY <4>3 DEF OnTheWay, At
      <4> QED
        BY <4>3, <4>4, <4>6, <4>7, RetirementKept
    <3> QED
      BY <2>2, <3>1, <3>2, <3>3, <3>4, <3>5, <3>6, <3>7 DEF RequestStep
  <2>3. ASSUME NEW s \in {"ACTIVE", "SUSPENDED"}, SetStatus(s) PROVE Retirement'
    BY <2>3 DEF SetStatus, Retirement, OnTheWay, At, Token, Ready, Secured, Expired, Expiry
  <2>4. CASE Tick
    <3>1. Harmless
      BY <2>0, <2>4, HarmlessStep, PairsKept DEF Tick
    <3>2. \A p \in Requests : requests'[p] = requests[p]
      BY <2>4 DEF Tick
    <3> QED
      BY <2>4, <3>1, <3>2, RetirementKept DEF Tick
  <2> QED
    BY <2>1, <2>2, <2>3, <2>4 DEF Next
<1>3. TypeOK /\ Retirement => RetiredIsDead
  <2> SUFFICES ASSUME TypeOK, Retirement, NEW t \in retired PROVE Dead(t)
    BY DEF RetiredIsDead
  <2>1. t \in Tokens /\ Expiry(t) \in Nat /\ blacklist[t] \in Nat /\ clock \in Nat
    BY IssuedTyped DEF TypeOK
  <2>2. Expiry(t) * Second \in Nat
    BY <2>1, ConstantsAssumption
  <2> QED
    BY <2>1, <2>2 DEF Retirement, Secured, Dead, Expired, IsRevoked
<1>4. Spec => []Inv
  BY <1>1, <1>2, TypeCorrect, PTL DEF Spec, Inv
<1> QED
  BY <1>3, <1>4, PTL DEF Inv

----------------------------------------------------------------------------
(* A token presented after it was retired gets no further than the check.  *)

\* A step where each request goes on with the token it had, ends, or is new.
LEMMA ReplaysKept ==
  ASSUME TypeOK, TypeOK', Replays, clock' >= clock, retired \subseteq retired',
         \A t \in Issued : Expiry(t)' = Expiry(t),
         \A r \in Requests :
           \/ Replay(r)'
           \/ /\ requests'[r].stale = requests[r].stale
              /\ requests'[r].token = requests[r].token
              /\ requests'[r].pc \in Past => requests[r].pc \in Past
  PROVE  Replays'
<1> SUFFICES ASSUME NEW r \in Requests,
                    requests'[r].stale = requests[r].stale,
                    requests'[r].token = requests[r].token,
                    requests'[r].pc \in Past => requests[r].pc \in Past,
                    requests[r].stale
             PROVE  /\ Token(r) \in retired'
                    /\ requests'[r].pc \in Past => clock' >= Expiry(Token(r))' * Second
  BY DEF Replays, Replay, Token, Expired, Expiry
<1>1. Token(r) \in retired /\ (requests[r].pc \in Past => Expired(Token(r)))
  BY DEF Replays, Replay
<1>2. PICK t \in Issued : t = Token(r)
  BY <1>1 DEF TypeOK
<1>3. Expiry(t) * Second \in Nat /\ clock \in Nat /\ clock' \in Nat
  <2>1. Expiry(t) \in Nat /\ Second \in Nat /\ clock \in Nat /\ clock' \in Nat
    BY IssuedTyped, ConstantsAssumption DEF TypeOK
  <2> QED
    BY <2>1
<1>4. Expiry(Token(r))' = Expiry(t)
  BY <1>2 DEF Token, Expiry
<1> QED
  BY <1>1, <1>2, <1>3, <1>4 DEF Expired

\* A request that begins after its token was given up never passes the EXISTS
\* of the blacklist, however the requests overlap, unless the token expires
\* while it waits (dependencies.py, auth_routes.py:99-109).
THEOREM ReplayRefusedCorrect == Spec => []ReplayRefused
<1>1. Init => Replays
  BY DEF Init, Replays, Replay, Idle
<1>2. TypeOK /\ TypeOK' /\ RetiredIsDead /\ Replays /\ [Next]_vars => Replays'
  <2> SUFFICES ASSUME TypeOK, TypeOK', RetiredIsDead, Replays, [Next]_vars PROVE Replays'
    OBVIOUS
  <2>0. requests \in [Requests -> Request] /\ clock \in Nat
    BY TypeParts DEF RequestsOK, TypeOK
  <2>1. CASE UNCHANGED vars
    BY <2>1, <2>0, PairsKept, ReplaysKept DEF vars
  <2>2. ASSUME NEW r \in Requests, RequestStep(r) PROVE Replays'
    <3> DEFINE q == requests[r]
    <3> DEFINE GoesOn == /\ requests'[r].stale = q.stale /\ requests'[r].token = q.token
                         /\ requests'[r].pc \in Past => q.pc \in Past
    <3>0. q \in Request
      BY <2>0
    <3>1. \A p \in Requests \ {r} : requests'[p] = requests[p]
      <4>1. \E new : requests' = [requests EXCEPT ![r] = new]
        BY <2>2
        DEF RequestStep, Login, Refresh, Call, Begin, Refused, Unrevoked, Suspended, Served,
            ToRevoke, RevokeForRefresh, RevokeAccess, RevokeAccessOnly, RevokeCookie, Issue,
            Fail, End, GoTo
      <4> QED
        BY <2>0, <4>1
    <3>2. clock' = clock /\ retired \subseteq retired'
      BY <2>2
      DEF RequestStep, Login, Refresh, Call, Begin, Refused, Unrevoked, Suspended, Served,
          ToRevoke, RevokeForRefresh, RevokeAccess, RevokeAccessOnly, RevokeCookie, Issue, Fail
    <3>3. \A t \in Issued : Expiry(t)' = Expiry(t)
      <4>1. CASE Issue(r)
        <5>1. PICK p \in Pair : pairs' = Append(pairs, p) /\ Len(pairs) < MaxPairs
          BY <4>1, IssuesPair
        <5> QED
          BY <5>1, PairsGrow
      <4>2. CASE ~ Issue(r)
        <5>1. UNCHANGED pairs
          BY <2>2, <4>2
          DEF RequestStep, Login, Refresh, Call, Begin, Refused, Unrevoked, Suspended, Served,
              ToRevoke, RevokeForRefresh, RevokeAccess, RevokeAccessOnly, RevokeCookie, Fail
        <5> QED
          BY <5>1, PairsKept
      <4> QED
        BY <4>1, <4>2
    <3>4. Replay(r)' \/ GoesOn
      <4>1. CASE \/ Refused(r) \/ Suspended(r) \/ Served(r) \/ RevokeAccessOnly(r)
                 \/ RevokeCookie(r) \/ Issue(r) \/ Fail(r)
        <5>1. requests'[r].stale = FALSE
          BY <2>0, <4>1
          DEF Refused, Suspended, Served, RevokeAccessOnly, RevokeCookie, Issue, Fail, End, Idle
        <5> QED
          BY <5>1 DEF Replay
      <4>2. CASE Login(r)
        BY <2>0, <4>2 DEF Login, Idle, Replay
      <4>3. CASE \E i \in DOMAIN pairs :
                   Refresh(r, i) \/ \E j \in {0} \cup DOMAIN pairs : Call(r, i, j)
        <5>1. PICK op, token, cookie : Begin(r, op, token, cookie)
          BY <4>3 DEF Refresh, Call
        <5>2. /\ requests'[r].pc = "check" /\ requests'[r].token = token
              /\ requests'[r].stale = (token \in retired) /\ retired' = retired
          BY <2>0, <5>1 DEF Begin
        <5> QED
          BY <5>2 DEF Replay, Token, Past
      <4>4. CASE Unrevoked(r)
        <5>1. /\ requests'[r].stale = q.stale /\ requests'[r].token = q.token
              /\ UNCHANGED <<clock, pairs, retired>> /\ ~ IsRevoked(Token(r))
          BY <2>0, <3>0, <4>4 DEF Unrevoked, GoTo, Request
        <5>2. q.stale => Token(r) \in retired /\ Expired(Token(r))
          BY <5>1 DEF Replays, Replay, RetiredIsDead, Dead
        <5> QED
          BY <5>1, <5>2 DEF Replay, Token, Expired, Expiry
      <4>5. CASE ToRevoke(r) \/ RevokeForRefresh(r) \/ RevokeAccess(r)
        <5>1. q.pc \in Past
          BY <4>5 DEF ToRevoke, RevokeForRefresh, RevokeAccess, At, Past
        <5>2. requests'[r].stale = q.stale /\ requests'[r].token = q.token
          BY <2>0, <3>0, <4>5 DEF ToRevoke, RevokeForRefresh, RevokeAccess, GoTo, Request
        <5> QED
          BY <5>1, <5>2
      <4> HIDE DEF GoesOn
      <4> QED
        BY <2>2, <4>1, <4>2, <4>3, <4>4, <4>5 DEF RequestStep
    <3> QED
      BY <2>0, <3>1, <3>2, <3>3, <3>4, ReplaysKept
  <2>3. ASSUME NEW s \in {"ACTIVE", "SUSPENDED"}, SetStatus(s) PROVE Replays'
    BY <2>0, <2>3, PairsKept, ReplaysKept DEF SetStatus
  <2>4. CASE Tick
    BY <2>0, <2>4, PairsKept, ReplaysKept DEF Tick
  <2> QED
    BY <2>1, <2>2, <2>3, <2>4 DEF Next
<1>3. Replays => ReplayRefused
  BY DEF Replays, Replay, ReplayRefused, Past
<1> QED
  BY <1>1, <1>2, <1>3, TypeCorrect, RetiredIsDeadCorrect, PTL DEF Spec
=============================================================================

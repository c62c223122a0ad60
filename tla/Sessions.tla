------------------------------ MODULE Sessions ------------------------------
(***************************************************************************)
(* The JWT sessions of one account: /auth/login, /auth/refresh, /auth/     *)
(* logout, every route behind get_current_account, and the blacklist of    *)
(* token identifiers (jti) in Redis.                                       *)
(*                                                                         *)
(* Requests run concurrently in the API's workers.  A step of a request    *)
(* ends at its next await: EXISTS, SELECT, SET.  Time is counted in ticks, *)
(* several to a second, because tokens and keys expire at seconds computed *)
(* by rounding.  Redis and the workers read the same clock (deploy/        *)
(* installs them on one host).                                             *)
(*                                                                         *)
(* A token is a pair <<type, i>>: login and refresh issue one access and   *)
(* one refresh token, the i-th pair.  What a request may present is any    *)
(* token ever issued, not only the latest.                                 *)
(***************************************************************************)
EXTENDS Integers, Sequences, FiniteSets

CONSTANTS
  Requests,        \* concurrent requests
  Second,          \* ticks in a second
  AccessLife,      \* seconds an access token is valid (15 minutes)
  RefreshLife,     \* seconds a refresh token is valid (7 days)
  MaxPairs,        \* bound: pairs issued
  MaxStatusEdits,  \* bound: suspensions and reactivations
  MaxClock         \* bound: the clock stops there

ASSUME ConstantsAssumption ==
  /\ Second \in Nat \ {0}
  /\ AccessLife \in Nat \ {0} /\ RefreshLife \in Nat \ {0}
  /\ {MaxPairs, MaxStatusEdits, MaxClock} \subseteq Nat

VARIABLES
  clock,
  status,      \* accounts.status
  pairs,       \* pairs issued: seconds they expire at, and the refresh
               \* token they were rotated from (0: a login)
  blacklist,   \* Redis jwt:blacklist:<jti>: the tick the key expires at
  requests,    \* the requests being served
  retired,     \* history: tokens whose logout or rotation was answered
  statusEdits

vars == <<clock, status, pairs, blacklist, requests, retired, statusEdits>>

----------------------------------------------------------------------------
Tokens == {"access", "refresh"} \X (1 .. MaxPairs)
Expiry(t) == IF t[1] = "access" THEN pairs[t[2]].accessExp
             ELSE pairs[t[2]].refreshExp
\* decode_token: an issued token is refused from the second of its exp on.
Expired(t) == clock >= Expiry(t) * Second
IsRevoked(t) == clock < blacklist[t]

NoToken == <<"none", 0>>
Idle == [op |-> "none", pc |-> "idle", token |-> NoToken, cookie |-> NoToken,
         ttl |-> 0, stale |-> FALSE]
At(r, label) == requests[r].pc = label
Token(r) == requests[r].token
End(r) == requests' = [requests EXCEPT ![r] = Idle]
GoTo(r, label) == requests' = [requests EXCEPT ![r].pc = label]

RemainingTtl_RoundedDown(exp) ==
  IF exp * Second > clock THEN (exp * Second - clock) \div Second ELSE 0
\* max(0, exp - int(now))
RemainingTtl(exp) == IF exp > clock \div Second THEN exp - clock \div Second
                     ELSE 0

----------------------------------------------------------------------------
Begin(r, op, token, cookie) ==
  /\ At(r, "idle")
  /\ requests' = [requests EXCEPT ![r] =
       [op |-> op, pc |-> "check", token |-> token, cookie |-> cookie,
        ttl |-> 0, stale |-> token \in retired]]
  /\ UNCHANGED <<clock, status, pairs, blacklist, retired, statusEdits>>

\* authenticate() has found an active account and the right password (see
\* LoginLockout).
Login(r) ==
  /\ At(r, "idle") /\ status = "ACTIVE"
  /\ requests' = [requests EXCEPT ![r] = [Idle EXCEPT !.op = "login", !.pc = "issue"]]
  /\ UNCHANGED <<clock, status, pairs, blacklist, retired, statusEdits>>

\* A token that does not decode changes nothing: only valid ones start.
Refresh(r, i) == /\ ~ Expired(<<"refresh", i>>)
                 /\ Begin(r, "refresh", <<"refresh", i>>, NoToken)

\* Any other route: get_current_account checks the access token of pair i.  The
\* browser sends the cookie of some pair j, or none (j = 0); /auth/logout alone
\* reads it.
Call(r, i, j) ==
  /\ ~ Expired(<<"access", i>>)
  /\ Begin(r, "call", <<"access", i>>, IF j = 0 THEN NoToken ELSE <<"refresh", j>>)

\* EXISTS finds the key: 401.
Refused(r) ==
  /\ At(r, "check") /\ IsRevoked(Token(r)) /\ End(r)
  /\ UNCHANGED <<clock, status, pairs, blacklist, retired, statusEdits>>

Unrevoked_AccessUnchecked(r) ==
  /\ At(r, "check") /\ (requests[r].op # "refresh" \/ ~ IsRevoked(Token(r)))
  /\ GoTo(r, "account")
  /\ UNCHANGED <<clock, status, pairs, blacklist, retired, statusEdits>>
Unrevoked(r) ==
  /\ At(r, "check") /\ ~ IsRevoked(Token(r)) /\ GoTo(r, "account")
  /\ UNCHANGED <<clock, status, pairs, blacklist, retired, statusEdits>>

\* SELECT finds a suspended account: 401.
Suspended(r) ==
  /\ At(r, "account") /\ status # "ACTIVE" /\ End(r)
  /\ UNCHANGED <<clock, status, pairs, blacklist, retired, statusEdits>>

\* The account is active, and the route is not /auth/logout.
Served(r) ==
  /\ At(r, "account") /\ status = "ACTIVE" /\ requests[r].op = "call" /\ End(r)
  /\ UNCHANGED <<clock, status, pairs, blacklist, retired, statusEdits>>

\* /auth/refresh or /auth/logout: the account is active, and the TTL of the
\* key is computed before the SET.
ToRevoke(r) ==
  /\ At(r, "account") /\ status = "ACTIVE"
  /\ requests' = [requests EXCEPT ![r].pc = "revoke",
                                  ![r].ttl = RemainingTtl(Expiry(Token(r)))]
  /\ UNCHANGED <<clock, status, pairs, blacklist, retired, statusEdits>>

\* SET EX ttl, unless the token has expired meanwhile.
Blacklist(t, ttl) ==
  blacklist' = IF ttl > 0 THEN [blacklist EXCEPT ![t] = clock + ttl * Second]
               ELSE blacklist

RevokeForRefresh_AnyRoute(r) ==
  /\ At(r, "revoke")
  /\ Blacklist(Token(r), requests[r].ttl)
  /\ GoTo(r, "issue")
  /\ UNCHANGED <<clock, status, pairs, retired, statusEdits>>
RevokeForRefresh(r) ==
  /\ At(r, "revoke") /\ requests[r].op = "refresh"
  /\ Blacklist(Token(r), requests[r].ttl)
  /\ GoTo(r, "issue")
  /\ UNCHANGED <<clock, status, pairs, retired, statusEdits>>

CookieDecodes(r) == requests[r].cookie # NoToken /\ ~ Expired(requests[r].cookie)

\* The access token is revoked; the cookie decodes.
RevokeAccess(r) ==
  /\ At(r, "revoke") /\ requests[r].op = "call" /\ CookieDecodes(r)
  /\ Blacklist(Token(r), requests[r].ttl)
  /\ requests' = [requests EXCEPT
       ![r].pc = "cookie", ![r].ttl = RemainingTtl(Expiry(requests[r].cookie))]
  /\ UNCHANGED <<clock, status, pairs, retired, statusEdits>>

\* The access token is revoked; the cookie is absent or does not decode.
RevokeAccessOnly(r) ==
  /\ At(r, "revoke") /\ requests[r].op = "call" /\ ~ CookieDecodes(r)
  /\ Blacklist(Token(r), requests[r].ttl)
  /\ End(r)
  /\ retired' = retired \cup ({Token(r), requests[r].cookie} \ {NoToken})
  /\ UNCHANGED <<clock, status, pairs, statusEdits>>

RevokeCookie(r) ==
  /\ At(r, "cookie")
  /\ Blacklist(requests[r].cookie, requests[r].ttl)
  /\ End(r)
  /\ retired' = retired \cup {Token(r), requests[r].cookie}
  /\ UNCHANGED <<clock, status, pairs, statusEdits>>

\* _issue_tokens: exp is cut to the second.  The answer sets the cookie.
Issue(r) ==
  /\ At(r, "issue") /\ Len(pairs) < MaxPairs
  /\ pairs' = Append(pairs, [accessExp |-> clock \div Second + AccessLife,
                             refreshExp |-> clock \div Second + RefreshLife,
                             from |-> Token(r)[2]])
  /\ retired' = retired \cup ({Token(r)} \ {NoToken})
  /\ End(r)
  /\ UNCHANGED <<clock, status, blacklist, statusEdits>>

\* Redis or PostgreSQL raises, or the worker dies: 500, or no answer.
Fail(r) ==
  /\ ~ At(r, "idle") /\ End(r)
  /\ UNCHANGED <<clock, status, pairs, blacklist, retired, statusEdits>>

\* PATCH /accounts/{id} by the super administrator.
SetStatus(s) ==
  /\ s # status /\ statusEdits < MaxStatusEdits
  /\ status' = s /\ statusEdits' = statusEdits + 1
  /\ UNCHANGED <<clock, pairs, blacklist, requests, retired>>

Tick == /\ clock < MaxClock /\ clock' = clock + 1
        /\ UNCHANGED <<status, pairs, blacklist, requests, retired, statusEdits>>

----------------------------------------------------------------------------
Init ==
  /\ clock = 1 /\ status = "ACTIVE" /\ pairs = <<>>
  /\ blacklist = [t \in Tokens |-> 0]
  /\ requests = [r \in Requests |-> Idle]
  /\ retired = {} /\ statusEdits = 0

RequestStep(r) ==
  \/ Login(r)
  \/ \E i \in DOMAIN pairs :
       Refresh(r, i) \/ (\E j \in {0} \cup DOMAIN pairs : Call(r, i, j))
  \/ Refused(r) \/ Unrevoked(r) \/ Suspended(r) \/ Served(r) \/ ToRevoke(r)
  \/ RevokeForRefresh(r) \/ RevokeAccess(r) \/ RevokeAccessOnly(r)
  \/ RevokeCookie(r) \/ Issue(r) \/ Fail(r)

Next == \/ \E r \in Requests : RequestStep(r)
        \/ \E s \in {"ACTIVE", "SUSPENDED"} : SetStatus(s)
        \/ Tick

Spec == Init /\ [][Next]_vars

----------------------------------------------------------------------------
Issued == {t \in Tokens : t[2] <= Len(pairs)}

TypeOK ==
  /\ clock \in Nat /\ status \in {"ACTIVE", "SUSPENDED"}
  /\ pairs \in Seq([accessExp: Nat, refreshExp: Nat, from: 0 .. MaxPairs])
  /\ Len(pairs) <= MaxPairs
  /\ blacklist \in [Tokens -> Nat]
  /\ requests \in [Requests ->
       [op: {"none", "login", "refresh", "call"},
        pc: {"idle", "check", "account", "revoke", "cookie", "issue"},
        token: Issued \cup {NoToken}, cookie: Issued \cup {NoToken},
        ttl: Nat, stale: BOOLEAN]]
  /\ \A r \in Requests :
       /\ At(r, "idle") <=> requests[r].op = "none"
       /\ requests[r].op \in {"refresh", "call"} => Token(r) # NoToken
       /\ At(r, "cookie") => requests[r].cookie # NoToken
       /\ At(r, "issue") => requests[r].op \in {"login", "refresh"}
       /\ requests[r].op = "login" => At(r, "issue")
  /\ retired \subseteq Issued /\ statusEdits \in Nat

Dead(t) == Expired(t) \/ IsRevoked(t)

\* Once a rotation or a logout is answered, the refresh token it consumed, and
\* the access token and cookie it was given, are never accepted again: the
\* key is set before the answer and lives at least as long as the token,
\* although both dates are rounded to the second and the TTL is computed
\* before it is sent.
RetiredIsDead == \A t \in retired : Dead(t)

\* A request that begins after its token was retired never gets past the
\* check, whatever else runs, unless the token expires while it waits.
ReplayRefused ==
  \A r \in Requests :
    requests[r].stale /\ requests[r].pc \in {"account", "revoke", "cookie", "issue"}
      => Expired(Token(r))
=============================================================================

--------------------------- MODULE SessionClient ---------------------------
(***************************************************************************)
(* The session as the browser sees it: the axios client with its refresh   *)
(* after a 401 (frontend lib/api.ts), the token store (stores/auth.ts),    *)
(* login and logout (hooks/use-auth.ts), in several tabs that share one    *)
(* cookie, against the routes /auth of the API.                            *)
(*                                                                         *)
(* Each tab runs one callback at a time, to its end.  In between are the   *)
(* network (requests and answers, in any order; any of them may fail, with *)
(* a network error or a 5xx, before or after the server has handled it)    *)
(* and the server.  There, what Sessions models in detail is cut to what   *)
(* the client can tell apart: a login issues a pair; a refresh looks its   *)
(* token up and, in a later step, revokes it and issues a pair; a logout   *)
(* revokes both tokens; other requests need an access token that is        *)
(* neither expired nor revoked.  A pair of tokens is named by its number,  *)
(* in order of issue.                                                      *)
(***************************************************************************)
EXTENDS Integers, FiniteSets

CONSTANTS
  Tabs, Accounts,
  Requests,     \* requests under way at a time
  NoTab, NoAccount,
  MaxPairs,     \* bound: pairs issued
  MaxLosses     \* bound: exchanges that fail

ASSUME ConstantsAssumption ==
  /\ NoTab \notin Tabs /\ NoAccount \notin Accounts
  /\ MaxPairs \in Nat /\ MaxLosses \in Nat

VARIABLES
  owner,                      \* server: account of each pair issued
  accessDead, refreshDead,    \* server: expired or revoked
  cookie, stored,             \* browser: the cookie jar and localStorage
  token, refreshing, waiters, \* tab: its store, isRefreshing, waiters
  login,                      \* tab: the pair its POST /auth/login will answer
  exchange,                   \* tab: its POST /auth/refresh
  requests,                   \* the other requests
  cache,                      \* tab: accounts whose data it shows
  left, late, foreign,        \* history, see StaysOut and OneAccountShown
  losses

server == <<owner, accessDead, refreshDead>>
browser == <<cookie, stored>>
tab == <<token, refreshing, waiters, cache>>
history == <<left, late, foreign>>
vars == <<server, browser, tab, login, exchange, requests, history, losses>>

----------------------------------------------------------------------------
Pairs == 1..MaxPairs
Issued == {n \in Pairs : owner[n] # NoAccount}
NextPair == Cardinality(Issued) + 1
Issue(a) == owner' = [owner EXCEPT ![NextPair] = a]

NoExchange == [state |-> "none", cookie |-> 0, pair |-> 0]
Failed == [state |-> "failed", cookie |-> 0, pair |-> 0]
Idle == [state |-> "idle", tab |-> NoTab, kind |-> "get", token |-> 0,
         cookie |-> 0, retry |-> FALSE, wanted |-> FALSE]
Is(r, state) == requests[r].state = state
InTab(t) == {r \in Requests : requests[r].tab = t}
Refreshing == {t \in Tabs : exchange[t].state # "none"}

\* The request interceptor puts the store's token in the header.  The cookie
\* (path /api/v1/auth) goes with a logout, not with a query.
Sent(req, n, jar) == [req EXCEPT !.state = "sent", !.token = n,
                        !.cookie = IF req.kind = "logout" THEN jar ELSE 0]
Refused(req, state) == [req EXCEPT !.state = state, !.token = 0, !.cookie = 0]

\* queryClient.clear(): the answers of queries under way are not shown.
Unwanted(t) == [r \in Requests |->
  IF requests[r].tab = t THEN [requests[r] EXCEPT !.wanted = FALSE] ELSE requests[r]]

\* A refresh sent for another account than a is not answered yet.
Overtaking(a) ==
  \E u \in Tabs : exchange[u].cookie # 0 /\ owner[exchange[u].cookie] # a

----------------------------------------------------------------------------
(* Login.                                                                  *)

\* The credentials are right: the server issues a pair.  The form is there for a
\* tab that is signed in too, and sends one login at a time.
Login(t, a) ==
  /\ login[t] = 0 /\ NextPair \in Pairs
  /\ Issue(a)
  /\ login' = [login EXCEPT ![t] = NextPair]
  /\ UNCHANGED <<accessDead, refreshDead, browser, tab, exchange, requests, history,
                 losses>>

LoggedIn_CacheKept(t) ==
  LET n == login[t] IN
  /\ n # 0
  /\ cookie' = n /\ stored' = n /\ token' = [token EXCEPT ![t] = n]
  /\ login' = [login EXCEPT ![t] = 0]
  /\ left' = [u \in Tabs |-> FALSE] /\ late' = [u \in Tabs |-> {}]
  /\ foreign' = [u \in Tabs |-> u # t \/ Overtaking(owner[n])]
  /\ UNCHANGED <<server, refreshing, waiters, cache, exchange, requests, losses>>
\* Its answer: the cookie, then setToken and queryClient.clear().
LoggedIn(t) ==
  LET n == login[t] IN
  /\ n # 0
  /\ cookie' = n /\ stored' = n /\ token' = [token EXCEPT ![t] = n]
  /\ cache' = [cache EXCEPT ![t] = {}] /\ requests' = Unwanted(t)
  /\ login' = [login EXCEPT ![t] = 0]
  /\ left' = [u \in Tabs |-> FALSE] /\ late' = [u \in Tabs |-> {}]
  /\ foreign' = [u \in Tabs |-> u # t \/ Overtaking(owner[n])]
  /\ UNCHANGED <<server, refreshing, waiters, exchange, losses>>

\* The answer is lost: the pair issued stays unused.
LoginFails(t) ==
  /\ login[t] # 0 /\ losses < MaxLosses
  /\ login' = [login EXCEPT ![t] = 0] /\ losses' = losses + 1
  /\ UNCHANGED <<server, browser, tab, exchange, requests, history>>

\* A page that loads takes the token the last tab stored.
OpenPage(t) ==
  /\ token[t] = 0 /\ stored # 0 /\ InTab(t) = {}
  /\ token' = [token EXCEPT ![t] = stored]
  /\ cache' = [cache EXCEPT ![t] = {}]
  /\ foreign' = [foreign EXCEPT ![t] = Overtaking(owner[stored])]
  /\ UNCHANGED <<server, browser, refreshing, waiters, login, exchange, requests, left,
                 late, losses>>

----------------------------------------------------------------------------
(* Requests.                                                               *)

\* A query or the logout button of a tab that is signed in.
Send(r, t, kind) ==
  /\ Is(r, "idle") /\ token[t] # 0
  /\ requests' = [requests EXCEPT ![r] =
       Sent([Idle EXCEPT !.tab = t, !.kind = kind, !.wanted = TRUE], token[t], cookie)]
  /\ UNCHANGED <<server, browser, tab, login, exchange, history, losses>>

Accepted(n) == n \in Issued \ accessDead

\* get_current_account, then the route.  Logout revokes the token it was
\* called with and the cookie it came with.
Serve(r) ==
  /\ Is(r, "sent")
  /\ requests' = [requests EXCEPT ![r] =
       IF Accepted(requests[r].token) THEN [@ EXCEPT !.state = "ok"]
       ELSE Refused(@, "401")]
  /\ IF requests[r].kind = "logout" /\ Accepted(requests[r].token)
     THEN /\ accessDead' = accessDead \cup {requests[r].token}
          /\ refreshDead' = refreshDead \cup ({requests[r].cookie} \ {0})
     ELSE UNCHANGED <<accessDead, refreshDead>>
  /\ UNCHANGED <<owner, browser, tab, login, exchange, history, losses>>

\* The answer of a query reaches the page.
Show(r) ==
  LET t == requests[r].tab IN
  /\ Is(r, "ok") /\ requests[r].kind = "get"
  /\ cache' = IF requests[r].wanted
              THEN [cache EXCEPT ![t] = @ \cup {owner[requests[r].token]}]
              ELSE cache
  /\ requests' = [requests EXCEPT ![r] = Idle]
  /\ UNCHANGED <<server, browser, token, refreshing, waiters, login, exchange, history,
                 losses>>

\* onSettled of a logout of tab t, whatever became of it: clear() and
\* queryClient.clear().
Leave(t) ==
  /\ token' = [token EXCEPT ![t] = 0] /\ stored' = 0
  /\ cache' = [cache EXCEPT ![t] = {}]

LoggedOut_CookieKept(r) ==
  LET t == requests[r].tab IN
  /\ Is(r, "ok") /\ requests[r].kind = "logout"
  /\ Leave(t) /\ left' = [left EXCEPT ![t] = TRUE] /\ late' = [late EXCEPT ![t] = Refreshing]
  /\ requests' = [Unwanted(t) EXCEPT ![r] = Idle]
  /\ UNCHANGED <<server, cookie, refreshing, waiters, login, exchange, foreign, losses>>
\* The server has logged the tab out; its answer deletes the cookie.
LoggedOut(r) ==
  LET t == requests[r].tab IN
  /\ Is(r, "ok") /\ requests[r].kind = "logout"
  /\ cookie' = 0 /\ Leave(t)
  /\ left' = [left EXCEPT ![t] = TRUE] /\ late' = [late EXCEPT ![t] = Refreshing]
  /\ requests' = [Unwanted(t) EXCEPT ![r] = Idle]
  /\ UNCHANGED <<server, refreshing, waiters, login, exchange, foreign, losses>>

\* The error goes to the caller.  A logout leaves all the same, with the cookie
\* still in the jar.
Rejected(r) ==
  LET t == requests[r].tab IN
  /\ IF requests[r].kind = "logout"
     THEN Leave(t) /\ requests' = [Unwanted(t) EXCEPT ![r] = Idle]
     ELSE /\ requests' = [requests EXCEPT ![r] = Idle]
          /\ UNCHANGED <<token, stored, cache>>
  /\ UNCHANGED <<server, cookie, refreshing, waiters, login, exchange, history>>

\* A second 401.
GiveUp(r) ==
  /\ Is(r, "401") /\ requests[r].retry
  /\ Rejected(r) /\ UNCHANGED losses

\* A network error or a 5xx, before or after the server has done its work.
RequestFails(r) ==
  /\ requests[r].state \in {"sent", "ok", "401"}
  /\ losses < MaxLosses /\ losses' = losses + 1
  /\ Rejected(r)

\* A 401 while a refresh is under way: wait for it.
Wait(r) ==
  LET t == requests[r].tab IN
  /\ Is(r, "401") /\ ~ requests[r].retry /\ refreshing[t]
  /\ requests' = [requests EXCEPT ![r].state = "waiting", ![r].retry = TRUE]
  /\ waiters' = [waiters EXCEPT ![t] = @ \cup {r}]
  /\ UNCHANGED <<server, browser, token, refreshing, cache, login, exchange, history,
                 losses>>

\* The first 401 starts the refresh, with the cookie of that moment.
Lead(r) ==
  LET t == requests[r].tab IN
  /\ Is(r, "401") /\ ~ requests[r].retry /\ ~ refreshing[t]
  /\ requests' = [requests EXCEPT ![r].state = "leading", ![r].retry = TRUE]
  /\ refreshing' = [refreshing EXCEPT ![t] = TRUE]
  /\ exchange' = [exchange EXCEPT ![t] = [state |-> "sent", cookie |-> cookie, pair |-> 0]]
  /\ UNCHANGED <<server, browser, token, waiters, cache, login, history, losses>>

----------------------------------------------------------------------------
(* The refresh.                                                            *)

\* decode_token and is_revoked; 401 without a cookie.
Check(t) ==
  LET live == exchange[t].cookie \in Issued \ refreshDead IN
  /\ exchange[t].state = "sent"
  /\ exchange' = [exchange EXCEPT ![t] =
       IF live THEN [@ EXCEPT !.state = "checked"] ELSE Failed]
  /\ UNCHANGED <<server, browser, tab, login, requests, history, losses>>

\* revoke, then a new pair.
Rotate(t) ==
  /\ exchange[t].state = "checked" /\ NextPair \in Pairs
  /\ Issue(owner[exchange[t].cookie])
  /\ refreshDead' = refreshDead \cup {exchange[t].cookie}
  /\ exchange' = [exchange EXCEPT ![t].state = "rotated", ![t].pair = NextPair]
  /\ UNCHANGED <<accessDead, browser, tab, login, requests, history, losses>>

\* The exchange breaks off, before or after the server has rotated.  (At its
\* bound the server issues no pair: the exchange can only break off.)
Lose(t) ==
  /\ exchange[t].state \in {"sent", "checked", "rotated"}
  /\ \/ losses < MaxLosses /\ losses' = losses + 1
     \/ exchange[t].state = "checked" /\ NextPair \notin Pairs /\ UNCHANGED losses
  /\ exchange' = [exchange EXCEPT ![t] = Failed]
  /\ UNCHANGED <<server, browser, tab, login, requests, history>>

\* Requests of the tab that go on with the new token, or do not.
Concerned(t) == waiters[t] \cup {r \in InTab(t) : Is(r, "leading")}

\* The refresh of tab t is over.  With an answer, the browser has a cookie again,
\* and a tab that left while it was under way may find itself signed in.
Over(t, answered) ==
  /\ exchange' = [exchange EXCEPT ![t] = NoExchange]
  /\ refreshing' = [refreshing EXCEPT ![t] = FALSE]
  /\ left' = [u \in Tabs |-> left[u] /\ ~ (answered /\ t \in late[u])]
  /\ late' = [u \in Tabs |->
       IF answered /\ t \in late[u] THEN {} ELSE late[u] \ {t}]

Refreshed_CookieNotSet(t) ==
  LET n == exchange[t].pair IN
  /\ exchange[t].state = "rotated"
  /\ stored' = n /\ token' = [token EXCEPT ![t] = n]
  /\ requests' = [r \in Requests |-> IF r \in Concerned(t)
       THEN Sent(requests[r], n, cookie) ELSE requests[r]]
  /\ waiters' = [waiters EXCEPT ![t] = {}] /\ Over(t, TRUE)
  /\ UNCHANGED <<server, cookie, cache, login, foreign, losses>>
\* setToken, flush(newToken), and the retry of the request that led.  The
\* retries are sent with the cookie the answer has just set.
Refreshed(t) ==
  LET n == exchange[t].pair IN
  /\ exchange[t].state = "rotated"
  /\ cookie' = n /\ stored' = n
  /\ token' = [token EXCEPT ![t] = n]
  /\ requests' = [r \in Requests |-> IF r \in Concerned(t)
       THEN Sent(requests[r], n, n)
       ELSE requests[r]]
  /\ waiters' = [waiters EXCEPT ![t] = {}] /\ Over(t, TRUE)
  /\ UNCHANGED <<server, cache, login, foreign, losses>>

RefreshFailed_NotFlushed(t) ==
  /\ exchange[t].state = "failed"
  /\ token' = [token EXCEPT ![t] = 0] /\ stored' = 0
  /\ requests' = [r \in Requests |->
       IF r \in Concerned(t) \ waiters[t] THEN Idle ELSE requests[r]]
  /\ Over(t, FALSE)
  /\ UNCHANGED <<server, cookie, waiters, cache, login, foreign, losses>>
RefreshFailed_StillRefreshing(t) ==
  /\ exchange[t].state = "failed"
  /\ token' = [token EXCEPT ![t] = 0] /\ stored' = 0
  /\ requests' = [r \in Requests |-> IF r \in Concerned(t) THEN Idle ELSE requests[r]]
  /\ waiters' = [waiters EXCEPT ![t] = {}]
  /\ exchange' = [exchange EXCEPT ![t] = NoExchange]
  /\ UNCHANGED <<server, cookie, refreshing, cache, login, history, losses>>
\* flush(null) and clear(): every request concerned is rejected.  A logout
\* among them settles, and leaves.
RefreshFailed(t) ==
  LET out == \E r \in Concerned(t) : requests[r].kind = "logout" IN
  /\ exchange[t].state = "failed"
  /\ token' = [token EXCEPT ![t] = 0] /\ stored' = 0
  /\ requests' = [r \in Requests |->
       IF r \in Concerned(t) THEN Idle
       ELSE IF out THEN Unwanted(t)[r] ELSE requests[r]]
  /\ cache' = IF out THEN [cache EXCEPT ![t] = {}] ELSE cache
  /\ waiters' = [waiters EXCEPT ![t] = {}] /\ Over(t, FALSE)
  /\ UNCHANGED <<server, cookie, login, foreign, losses>>

\* The expiry of a token nobody holds changes nothing.
Held == ({token[t] : t \in Tabs} \cup {stored}
          \cup {requests[r].token : r \in Requests}) \ {0}
Expire(n) ==
  /\ n \in Held \ accessDead
  /\ accessDead' = accessDead \cup {n}
  /\ UNCHANGED <<owner, refreshDead, browser, tab, login, exchange, requests, history,
                 losses>>

----------------------------------------------------------------------------
Init ==
  /\ owner = [n \in Pairs |-> NoAccount] /\ accessDead = {} /\ refreshDead = {}
  /\ cookie = 0 /\ stored = 0
  /\ token = [t \in Tabs |-> 0] /\ refreshing = [t \in Tabs |-> FALSE]
  /\ waiters = [t \in Tabs |-> {}] /\ cache = [t \in Tabs |-> {}]
  /\ login = [t \in Tabs |-> 0] /\ exchange = [t \in Tabs |-> NoExchange]
  /\ requests = [r \in Requests |-> Idle]
  /\ left = [t \in Tabs |-> FALSE] /\ late = [t \in Tabs |-> {}]
  /\ foreign = [t \in Tabs |-> FALSE] /\ losses = 0

Progress(r) == \/ Serve(r) \/ Show(r) \/ LoggedOut(r) \/ GiveUp(r) \/ Wait(r)
               \/ Lead(r)
Settle(t) == \/ Check(t) \/ Rotate(t) \/ Refreshed(t) \/ RefreshFailed(t)
             \/ NextPair \notin Pairs /\ Lose(t)

Next == \/ \E t \in Tabs, a \in Accounts : Login(t, a)
        \/ \E t \in Tabs : LoggedIn(t) \/ LoginFails(t) \/ OpenPage(t)
        \/ \E r \in Requests, t \in Tabs, kind \in {"get", "logout"} : Send(r, t, kind)
        \/ \E r \in Requests : Progress(r) \/ RequestFails(r)
        \/ \E t \in Tabs : Settle(t) \/ Lose(t)
        \/ \E n \in Pairs : Expire(n)

\* The server and the network answer, and the tab handles what arrives.
Fairness == /\ \A r \in Requests : WF_vars(Progress(r))
            /\ \A t \in Tabs : WF_vars(Settle(t))

Spec == Init /\ [][Next]_vars /\ Fairness

----------------------------------------------------------------------------
TypeOK ==
  /\ owner \in [Pairs -> Accounts \cup {NoAccount}] /\ Issued = 1..Cardinality(Issued)
  /\ accessDead \subseteq Issued /\ refreshDead \subseteq Issued
  /\ {cookie, stored} \subseteq Issued \cup {0}
  /\ token \in [Tabs -> Issued \cup {0}] /\ login \in [Tabs -> Issued \cup {0}]
  /\ refreshing \in [Tabs -> BOOLEAN]
  /\ exchange \in [Tabs -> [state: {"none", "sent", "checked", "rotated", "failed"},
                            cookie: Issued \cup {0}, pair: Issued \cup {0}]]
  /\ requests \in [Requests ->
       [state: {"idle", "sent", "ok", "401", "waiting", "leading"},
        tab: Tabs \cup {NoTab}, kind: {"get", "logout"}, token: Issued \cup {0},
        cookie: Issued \cup {0}, retry: BOOLEAN, wanted: BOOLEAN]]
  /\ waiters \in [Tabs -> SUBSET Requests]
  /\ cache \in [Tabs -> SUBSET Accounts]
  /\ left \in [Tabs -> BOOLEAN] /\ foreign \in [Tabs -> BOOLEAN]
  /\ late \in [Tabs -> SUBSET Tabs]
  /\ losses \in Nat

\* isRefreshing, the request that led and the waiters agree with the exchange
\* in every interleaving: nobody waits for a refresh that is not under way,
\* and one request leads it.
RefreshHasLeader ==
  \A t \in Tabs :
    /\ refreshing[t] <=> exchange[t].state # "none"
    /\ refreshing[t] <=> Cardinality({r \in InTab(t) : Is(r, "leading")}) = 1
    /\ waiters[t] = {r \in InTab(t) : Is(r, "waiting")}
    /\ waiters[t] # {} => refreshing[t]

Underway(n) == \/ \E t \in Tabs : exchange[t].state = "rotated" /\ exchange[t].cookie = n
               \/ \E r \in Requests : /\ Is(r, "ok") /\ requests[r].kind = "logout"
                                      /\ requests[r].cookie = n

\* The cookie in the jar is one the server still accepts, except while the
\* answer that replaces it is on its way or was lost: a tab alone is never
\* signed out by its own late 401s.
CookieIsLive ==
  losses = 0 /\ NextPair \in Pairs /\ cookie \in refreshDead => Underway(cookie)

\* A tab that left stays signed out, whatever late 401s and pages that load,
\* until somebody logs in or a refresh that was under way when it left is
\* answered (use-auth.ts:46 does not wait for it).  A tab has left when the
\* server has carried its logout out and the answer has deleted the cookie: a
\* logout that fails, or is refused, clears the tab alone, the cookie stays live
\* and the next 401 of the tab signs it in again.
StaysOut == \A t \in Tabs : left[t] => token[t] = 0

\* A tab mixes the data of two accounts only if, since it logged in or was
\* loaded, another tab has logged in, or if a refresh sent for another account
\* was not answered at that moment: the cache is cleared at login and logout
\* (use-auth.ts:20-25, 46-49: "aucune donnee du compte precedent ne doit
\* subsister") and the browser holds one session at a time.
OneAccountShown == \A t \in Tabs : Cardinality(cache[t]) > 1 => foreign[t]

\* Every request is answered or rejected, whatever its 401s: the waiters of a
\* refresh that fails included.
EveryRequestSettles == \A r \in Requests : ~ Is(r, "idle") ~> Is(r, "idle")
=============================================================================

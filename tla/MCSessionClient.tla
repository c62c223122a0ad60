-------------------------- MODULE MCSessionClient --------------------------
(***************************************************************************)
(* Instances of SessionClient for TLC.                                     *)
(***************************************************************************)
EXTENDS SessionClient, TLC

\* Nothing tells one tab, account or request from another.
Interchangeable ==
  Permutations(Tabs) \cup Permutations(Accounts) \cup Permutations(Requests)

\* Two states that differ only in what is no longer read are one: what the server
\* remembers of pairs that nobody holds, and the cache of a tab whose foreign is
\* set, which the next login or load of the tab empties together with foreign.
Answers == {login[t] : t \in Tabs} \cup {exchange[t].pair : t \in Tabs}
Tokens == {stored} \cup {token[t] : t \in Tabs} \cup {requests[r].token : r \in Requests}
            \cup Answers
Cookies == {cookie} \cup {exchange[t].cookie : t \in Tabs}
             \cup {requests[r].cookie : r \in Requests} \cup Answers
View ==
  <<NextPair, [n \in (Tokens \cup Cookies) \ {0} |-> owner[n]],
    accessDead \cap Tokens, refreshDead \cap Cookies, browser,
    token, refreshing, waiters, login, exchange, requests, history, losses,
    [t \in Tabs |-> IF foreign[t] THEN {} ELSE cache[t]]>>
=============================================================================

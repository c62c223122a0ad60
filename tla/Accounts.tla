------------------------------ MODULE Accounts ------------------------------
(***************************************************************************)
(* Administration of accounts (auth/accounts_routes.py, accounts_service.py *)
(* and scripts/create_superadmin.py): creation, PATCH and the append-only   *)
(* audit log, under concurrent requests on one database.                    *)
(*                                                                          *)
(* A request is named once and is used for one call.  Its account copy is   *)
(* the object of the request's own SQLAlchemy session: get() on an account  *)
(* the session already holds issues no SELECT, and a flush writes only the  *)
(* columns whose value differs from the copy as it was loaded.              *)
(*                                                                          *)
(* Bound: MaxFails failures of a database call, one call per request name.  *)
(***************************************************************************)
EXTENDS Naturals, Sequences, FiniteSets, FiniteSetsExt

CONSTANTS
  Requests,   \* calls of the API and runs of the script
  Seed,       \* the accounts of the database at the start: id |-> row
  Numbers,    \* telephone numbers, normalised
  BadNumber,  \* what normalize_phone refuses
  Roles,      \* roles the API is asked to create
  Payloads,   \* bodies of PATCH: functions from some of Columns to values
  None,       \* no account, no copy
  MaxFails

\* contact_email is treated as company_name is, and left out.
Columns == {"company", "language", "status"}

Ids == DOMAIN Seed \cup Requests

\* The columns of a row take their values from the seed, the calls and the
\* enumerations of the database.
Statuses == {"ACTIVE", "SUSPENDED"}
ColumnValues(c) ==
  {Seed[a][c] : a \in DOMAIN Seed} \cup {p[c] : p \in {x \in Payloads : c \in DOMAIN x}}
Rows == [number : Numbers \cup {Seed[a].number : a \in DOMAIN Seed},
         role : Roles \cup {"SUPER_ADMIN", "COMPANY"}, status : Statuses,
         company : ColumnValues("company") \cup {"new"},
         language : ColumnValues("language") \cup {"new"}]

\* The unique constraint and the enumerations hold at the start too.
ASSUME AccountsAssumption ==
  /\ DOMAIN Seed \cap Requests = {} /\ Seed \in [DOMAIN Seed -> Rows] /\ None \notin Rows
  /\ \A a, b \in DOMAIN Seed : Seed[a].number = Seed[b].number => a = b
  /\ BadNumber \notin Numbers
  /\ \A p \in Payloads : /\ DOMAIN p \subseteq Columns
                         /\ "status" \in DOMAIN p => p["status"] \in Statuses
  /\ MaxFails \in Nat

VARIABLES
  account,  \* the table: id |-> row, or None
  audit,    \* audit_log in order of commit, each row with the request it is from
  req,      \* what each request is doing
  fails,
  stale     \* history: accounts written from a copy that was out of date

vars == <<account, audit, req, fails, stale>>

-----------------------------------------------------------------------------
\* An account: its number, its role and the columns PATCH may change.
NewRow(n, role) ==
  [number |-> n, role |-> role, status |-> "ACTIVE", company |-> "new", language |-> "new"]

NoData == [c \in {} |-> None]

Idle == [at |-> "idle", kind |-> "none", number |-> None, role |-> None,
         target |-> None, payload |-> NoData, copy |-> None, code |-> 0]

\* An account of the requesting session: at the start of a PATCH only the
\* administrator's own, loaded while the request was authenticated.
Held(a, actor) == IF a = actor THEN account[a] ELSE None

\* The number belongs to a committed account.
Taken(n) == \E a \in Ids : account[a] # None /\ account[a].number = n

\* Another transaction has inserted the number and is not over: the unique
\* index makes an insert of the same number wait for its end.
Inserting(q, n) == \E p \in Requests \ {q} : req[p].at = "inserted" /\ req[p].number = n

Answer(q, code) ==
  req' = [req EXCEPT ![q].at = "done", ![q].code = code]

-----------------------------------------------------------------------------
Init ==
  /\ account = [a \in Ids |-> IF a \in DOMAIN Seed THEN Seed[a] ELSE None]
  /\ audit = <<>>
  /\ req = [q \in Requests |-> Idle]
  /\ fails = 0
  /\ stale = {}

\* A call arrives and its principal is checked: an account that is not active
\* is answered 401, one that is not SUPER_ADMIN 403.
Authenticate(q, actor, call) ==
  /\ req[q] = Idle /\ account[actor] # None
  /\ req' = [req EXCEPT ![q] =
       IF account[actor].status # "ACTIVE" THEN [call EXCEPT !.at = "done", !.code = 401]
       ELSE IF account[actor].role # "SUPER_ADMIN" THEN [call EXCEPT !.at = "done", !.code = 403]
       ELSE call]
  /\ UNCHANGED <<account, audit, fails, stale>>

CallCreate(q, actor, n, role) ==
  Authenticate(q, actor, [Idle EXCEPT !.at = "authorised", !.kind = "create",
                                      !.number = n, !.role = role])

CallPatch(q, actor, a, p) ==
  Authenticate(q, actor, [Idle EXCEPT !.at = "authorised", !.kind = "patch", !.target = a,
                                      !.payload = p, !.copy = Held(a, actor)])

\* The script opens its own session; nobody is authenticated.
RunScript(q, n) ==
  /\ req[q] = Idle
  /\ req' = [req EXCEPT ![q] = [Idle EXCEPT !.at = "authorised", !.kind = "script",
                                            !.number = n, !.role = "SUPER_ADMIN"]]
  /\ UNCHANGED <<account, audit, fails, stale>>

\* SELECT of the number: 422 and 409 end the call (SystemExit in the script).
LookUp(q) ==
  /\ req[q].at = "authorised" /\ req[q].kind \in {"create", "script"}
  /\ CASE req[q].number = BadNumber -> Answer(q, 422)
       [] Taken(req[q].number) -> Answer(q, 409)
       [] OTHER -> req' = [req EXCEPT ![q].at = "free"]
  /\ UNCHANGED <<account, audit, fails, stale>>

\* Mutant: the table has no unique constraint on the number.
Clash_Unconstrained(n) == FALSE

\* The unique constraint alone decides between two calls that both found the
\* number free; its IntegrityError is handled by nobody and answered 500.
Clash(n) == Taken(n)

Insert(q) ==
  /\ req[q].at = "free" /\ ~Inserting(q, req[q].number)
  /\ IF Clash(req[q].number) THEN Answer(q, 500)
                             ELSE req' = [req EXCEPT ![q].at = "inserted"]
  /\ UNCHANGED <<account, audit, fails, stale>>

\* One row of audit_log.  'old' and 'new' are the two sides of "old -> new".
Trail(q, a, action, old, new) ==
  [by |-> q, account |-> a, action |-> action, old |-> old, new |-> new]

\* The script writes no audit row.
CommitInsert(q) ==
  /\ req[q].at = "inserted"
  /\ account' = [account EXCEPT ![q] = NewRow(req[q].number, req[q].role)]
  /\ audit' = IF req[q].kind = "script" THEN audit
              ELSE Append(audit, Trail(q, q, "create", NoData, NoData))
  /\ req' = [req EXCEPT ![q].at = "finished"]
  /\ UNCHANGED <<fails, stale>>

-----------------------------------------------------------------------------
\* PATCH, first half: AccountsService.update.  The account is loaded (or is
\* held already), the columns named by the body are compared with the copy.
Load(q) ==
  /\ req[q].at = "authorised" /\ req[q].kind = "patch"
  /\ LET copy == IF req[q].copy # None THEN req[q].copy ELSE account[req[q].target]
     IN IF copy = None THEN Answer(q, 404)
        ELSE req' = [req EXCEPT ![q].at = "loaded", ![q].copy = copy]
  /\ UNCHANGED <<account, audit, fails, stale>>

Changed(copy, p) == {c \in DOMAIN p \ {"status"} : p[c] # copy[c]}

\* Mutant: the whole copy is written back.
WrittenWhole(row, copy, p, cs) == [c \in DOMAIN row |-> IF c \in cs THEN p[c] ELSE copy[c]]

\* The UPDATE of a flush: the changed columns only.
Written(row, copy, p, cs) == [c \in DOMAIN row |-> IF c \in cs THEN p[c] ELSE row[c]]

OutOfDate(q) == IF account[req[q].target] = req[q].copy THEN {} ELSE {req[q].target}

\* Nothing to change: no transaction.  The second half follows, if asked for.
NothingToUpdate(q) ==
  /\ req[q].at = "loaded" /\ Changed(req[q].copy, req[q].payload) = {}
  /\ IF "status" \in DOMAIN req[q].payload
     THEN req' = [req EXCEPT ![q].at = "updated"]
     ELSE Answer(q, 200)
  /\ UNCHANGED <<account, audit, fails, stale>>

\* Mutant: the text of the audit row is built after the assignment.
CommitUpdate_NewAsOld(q) ==
  /\ req[q].at = "loaded"
  /\ LET a == req[q].target
         copy == req[q].copy
         p == req[q].payload
         cs == Changed(copy, p)
     IN /\ cs # {}
        /\ account' = [account EXCEPT ![a] = Written(@, copy, p, cs)]
        /\ audit' = Append(audit, Trail(q, a, "update", [c \in cs |-> p[c]], [c \in cs |-> p[c]]))
  /\ stale' = stale \cup OutOfDate(q)
  /\ req' = [req EXCEPT ![q].at = "committed"]
  /\ UNCHANGED fails

CommitUpdate(q) ==
  /\ req[q].at = "loaded"
  /\ LET a == req[q].target
         copy == req[q].copy
         p == req[q].payload
         cs == Changed(copy, p)
     IN /\ cs # {}
        /\ account' = [account EXCEPT ![a] = Written(@, copy, p, cs)]
        /\ audit' = Append(audit, Trail(q, a, "update", [c \in cs |-> copy[c]], [c \in cs |-> p[c]]))
  /\ stale' = stale \cup OutOfDate(q)
  /\ req' = [req EXCEPT ![q].at = "committed"]
  /\ UNCHANGED fails

\* refresh() after the commit reads the row again, in a new transaction.
RefreshCopy(q) ==
  /\ req[q].at = "committed"
  /\ IF "status" \in DOMAIN req[q].payload
     THEN req' = [req EXCEPT ![q].at = "updated", ![q].copy = account[req[q].target]]
     ELSE Answer(q, 200)
  /\ UNCHANGED <<account, audit, fails, stale>>

StatusChanged(copy, p) == IF p.status # copy.status THEN {"status"} ELSE {}

\* PATCH, second half: AccountsService.set_status, a transaction of its own
\* on the copy the session holds.  The audit row is written whether or not
\* the flush has a column to update.
CommitStatus(q) ==
  /\ req[q].at = "updated"
  /\ LET a == req[q].target
         copy == req[q].copy
         p == req[q].payload
     IN /\ account' = [account EXCEPT ![a] = Written(@, copy, p, StatusChanged(copy, p))]
        /\ audit' = Append(audit, Trail(q, a, "status_change", NoData, [status |-> p.status]))
  /\ stale' = stale \cup OutOfDate(q)
  /\ req' = [req EXCEPT ![q].at = "finished"]
  /\ UNCHANGED fails

\* The last commit is followed by a refresh() of the row that is answered (in
\* the script by the end of its session): what fails there undoes nothing.
Finish(q) ==
  /\ req[q].at = "finished"
  /\ Answer(q, IF req[q].kind = "patch" THEN 200 ELSE 201)
  /\ UNCHANGED <<account, audit, fails, stale>>

\* Mutant: the second transaction is counted on, and its failure answered 200.
Fail_HalfIsOk(q) ==
  /\ req[q].at \notin {"idle", "done"} /\ fails < MaxFails
  /\ fails' = fails + 1
  /\ Answer(q, IF req[q].at = "updated" THEN 200 ELSE 500)
  /\ UNCHANGED <<account, audit, stale>>

\* Any database call may raise; the session is closed, what it had not
\* committed is rolled back and the answer is 500.
Fail(q) ==
  /\ req[q].at \notin {"idle", "done"} /\ fails < MaxFails
  /\ fails' = fails + 1
  /\ Answer(q, 500)
  /\ UNCHANGED <<account, audit, stale>>

Step(q) ==
  \/ LookUp(q) \/ Insert(q) \/ CommitInsert(q)
  \/ Load(q) \/ NothingToUpdate(q) \/ CommitUpdate(q) \/ RefreshCopy(q) \/ CommitStatus(q)
  \/ Finish(q)

Next ==
  \E q \in Requests :
    \/ \E actor \in Ids, n \in Numbers \cup {BadNumber}, role \in Roles : CallCreate(q, actor, n, role)
    \/ \E actor, a \in Ids, p \in Payloads : CallPatch(q, actor, a, p)
    \/ \E n \in Numbers : RunScript(q, n)
    \/ Step(q)
    \/ Fail(q)

Spec == Init /\ [][Next]_vars

-----------------------------------------------------------------------------
\* The data of an audit row: values of some columns.
Values == Statuses \cup ColumnValues("company") \cup ColumnValues("language") \cup {"new"}
Data == UNION {[cs -> Values] : cs \in SUBSET Columns}

\* Types of the table, the log and the requests (models of accounts and
\* audit_log); the log names accounts that exist, and a request that is over
\* has a status code, and no other has.
TypeOK ==
  /\ account \in [Ids -> Rows \cup {None}]
  /\ audit \in Seq([by : Requests, account : Ids, old : Data, new : Data,
                   action : {"create", "update", "status_change"}])
  /\ \A i \in DOMAIN audit : account[audit[i].account] \in Rows
  /\ req \in [Requests ->
       [at : {"idle", "authorised", "free", "inserted", "loaded", "committed", "updated",
              "finished", "done"},
        kind : {"none", "create", "script", "patch"},
        number : Numbers \cup {BadNumber, None}, role : Roles \cup {"SUPER_ADMIN", None},
        target : Ids \cup {None}, payload : Payloads \cup {NoData},
        copy : Rows \cup {None}, code : {0, 200, 201, 401, 403, 404, 409, 422, 500}]]
  /\ \A q \in Requests : (req[q].code # 0) <=> (req[q].at = "done")
  /\ fails \in 0..MaxFails /\ stale \subseteq Ids

\* Two creations of one number, or a creation and a run of the script, look
\* it up before either inserts (accounts_service.py:35): one account results.
UniqueNumber ==
  \A a, b \in Ids :
    account[a] # None /\ account[b] # None /\ account[a].number = account[b].number => a = b

RowsBy(q, action) == Cardinality({i \in DOMAIN audit : audit[i].by = q /\ audit[i].action = action})

\* What the caller is told is what was done and traced, whatever failed in
\* between: a refused call left nothing, a 2xx did and traced every part.  A
\* 500 may hide a part that was committed (accounts_routes.py:54-62, or a
\* refresh() after it), never one without its trace; only the script creates
\* an account no row tells of.
AnswerMatchesTrail ==
  \A q \in Requests :
    LET created == account[q] # None
        patched == RowsBy(q, "update") + RowsBy(q, "status_change")
    IN /\ RowsBy(q, "create") = (IF created /\ req[q].kind # "script" THEN 1 ELSE 0)
       /\ req[q].at = "done" =>
            LET code == req[q].code
            IN /\ code \in {401, 403, 404, 409, 422} => ~created /\ patched = 0
               /\ code = 201 => created
               /\ code = 200 /\ "status" \in DOMAIN req[q].payload => RowsBy(q, "status_change") = 1
               /\ code = 200 /\ "status" \notin DOMAIN req[q].payload =>
                    patched = (IF Changed(req[q].copy, req[q].payload) = {} THEN 0 ELSE 1)

Birth(a) == IF a \in DOMAIN Seed THEN Seed[a] ELSE NewRow(account[a].number, account[a].role)

\* The value of a column according to a part of the log: that of the last row
\* which names it.
TrailValue(a, c, log) ==
  LET naming == {i \in DOMAIN log : log[i].account = a /\ c \in DOMAIN log[i].new}
  IN IF naming = {} THEN Birth(a)[c] ELSE log[Max(naming)].new[c]

\* The log explains the table: replaying the new values in order of commit
\* gives the company and the language of every account, however the PATCHes
\* overlapped.  It gives the status too, and "old -> new" tells the truth about
\* old, unless a PATCH wrote from a copy another had made out of date: it then
\* names an old value that is gone, and traces a status its flush skips
\* (accounts_service.py:76-83, 105-113).
TrailReplays ==
  /\ \A a \in Ids, c \in Columns :
       account[a] # None /\ (c = "status" => a \notin stale) => account[a][c] = TrailValue(a, c, audit)
  /\ \A i \in DOMAIN audit : audit[i].account \notin stale =>
       \A c \in DOMAIN audit[i].old :
         audit[i].old[c] = TrailValue(audit[i].account, c, SubSeq(audit, 1, i - 1))

\* A step changes nothing of an account but the columns its own audit row
\* names, and the log only grows (trigger trg_audit_log_append_only): two
\* PATCHes of different columns never undo one another.
ChangesAreTrailed ==
  [][/\ SubSeq(audit', 1, Len(audit)) = audit
     /\ \A a \in Ids : account[a] # None => \A c \in DOMAIN account[a] :
          account'[a][c] # account[a][c] =>
            /\ Len(audit') = Len(audit) + 1
            /\ audit'[Len(audit')].account = a /\ c \in DOMAIN audit'[Len(audit')].new]_vars
=============================================================================

--------------------------- MODULE AccountsProofs ---------------------------
(***************************************************************************)
(* Proofs about Accounts, for any number of calls, accounts, numbers and   *)
(* bodies: the types, that no two accounts share a number, that every      *)
(* change of a row is named by the audit row committed with it, that the   *)
(* log replayed gives the table, and that an answer tells what was done.   *)
(*                                                                         *)
(* What a call does is only right because of what it has done before.      *)
(* Doing says, for each point a call can be at, what its fields hold, and  *)
(* Fits what it has done.                                                  *)
(***************************************************************************)
EXTENDS Accounts, FiniteSetTheorems, TLAPS

\* The parts of TypeOK, by name.
Points == {"idle", "authorised", "free", "inserted", "loaded", "committed", "updated",
           "finished", "done"}
CallKinds == {"none", "create", "script", "patch"}
Codes == {0, 200, 201, 401, 403, 404, 409, 422, 500}

Request ==
  [at : Points, kind : CallKinds, number : Numbers \cup {BadNumber, None},
   role : Roles \cup {"SUPER_ADMIN", None}, target : Ids \cup {None},
   payload : Payloads \cup {NoData}, copy : Rows \cup {None}, code : Codes]

AuditRow ==
  [by : Requests, account : Ids, old : Data, new : Data,
   action : {"create", "update", "status_change"}]

Doing(r) ==
  /\ (r.code # 0) <=> (r.at = "done")
  /\ r.at = "authorised" /\ r.kind \in {"create", "script"} =>
       r.number \in Numbers \cup {BadNumber} /\ r.role \in Roles \cup {"SUPER_ADMIN"}
  /\ r.at \in {"free", "inserted"} =>
       r.number \in Numbers /\ r.role \in Roles \cup {"SUPER_ADMIN"}
  /\ r.kind = "patch" => /\ r.target \in Ids /\ r.payload \in Payloads
                         /\ r.copy # None => account[r.target] \in Rows
  /\ r.at \in {"loaded", "committed", "updated"} => r.kind = "patch" /\ r.copy \in Rows
  /\ r.at = "updated" => "status" \in DOMAIN r.payload

TableOK == account \in [Ids -> Rows \cup {None}]
LogOK == /\ audit \in Seq(AuditRow)
         /\ \A i \in DOMAIN audit : account[audit[i].account] \in Rows
CallsOK == req \in [Requests -> Request] /\ \A q \in Requests : Doing(req[q])
HistoryOK == fails \in 0..MaxFails /\ stale \subseteq Ids

TypeInv == TableOK /\ LogOK /\ CallsOK /\ HistoryOK

\* A call has an account to show for it only once it has committed.
Unborn == \A q \in Requests : account[q] # None => req[q].at \in {"finished", "done"}

\* UniqueNumber, and the numbers about to be committed.
Numbering ==
  /\ UniqueNumber
  /\ \A q \in Requests : req[q].at = "inserted" =>
       ~ Taken(req[q].number) /\ ~ Inserting(q, req[q].number)

----------------------------------------------------------------------------
(* Rows.                                                                   *)

ColumnNames == {"number", "role", "status", "company", "language"}

LEMMA RowDomain ==
  ASSUME NEW row \in Rows
  PROVE  DOMAIN row = ColumnNames
BY DEF Rows, ColumnNames

LEMMA RowIntro ==
  ASSUME NEW f, f = [c \in ColumnNames |-> f[c]],
         f["number"] \in Numbers \cup {Seed[a].number : a \in DOMAIN Seed},
         f["role"] \in Roles \cup {"SUPER_ADMIN", "COMPANY"},
         f["status"] \in Statuses,
         f["company"] \in ColumnValues("company") \cup {"new"},
         f["language"] \in ColumnValues("language") \cup {"new"}
  PROVE  f \in Rows
BY DEF Rows, ColumnNames

LEMMA WrittenTyped ==
  ASSUME NEW row \in Rows, NEW copy, NEW p \in Payloads, NEW cs \in SUBSET DOMAIN p
  PROVE  /\ Written(row, copy, p, cs) \in Rows
         /\ Written(row, copy, p, cs).number = row.number
         /\ \A c \in DOMAIN row :
              Written(row, copy, p, cs)[c] = IF c \in cs THEN p[c] ELSE row[c]
<1> DEFINE w == Written(row, copy, p, cs)
<1>1. DOMAIN row = ColumnNames
  BY RowDomain
<1>2. w = [c \in ColumnNames |-> IF c \in cs THEN p[c] ELSE row[c]]
  BY <1>1 DEF Written
<1>3. cs \subseteq Columns
  BY AccountsAssumption
<1>4. /\ w["number"] = row["number"] /\ w["role"] = row["role"]
      /\ w["status"] = IF "status" \in cs THEN p["status"] ELSE row["status"]
      /\ w["company"] = IF "company" \in cs THEN p["company"] ELSE row["company"]
      /\ w["language"] = IF "language" \in cs THEN p["language"] ELSE row["language"]
  BY <1>2, <1>3 DEF Columns, ColumnNames
<1>5. /\ row["number"] \in Numbers \cup {Seed[a].number : a \in DOMAIN Seed}
      /\ row["role"] \in Roles \cup {"SUPER_ADMIN", "COMPANY"}
      /\ row["status"] \in Statuses
      /\ row["company"] \in ColumnValues("company") \cup {"new"}
      /\ row["language"] \in ColumnValues("language") \cup {"new"}
  BY DEF Rows
<1>6. /\ "status" \in cs => p["status"] \in Statuses
      /\ "company" \in cs => p["company"] \in ColumnValues("company")
      /\ "language" \in cs => p["language"] \in ColumnValues("language")
  BY AccountsAssumption DEF ColumnValues
<1>7. w = [c \in ColumnNames |-> w[c]]
  BY <1>2
<1>8. w \in Rows
  <2> HIDE DEF w
  <2> QED
    BY <1>4, <1>5, <1>6, <1>7, RowIntro
<1>9. \A c \in DOMAIN row : w[c] = IF c \in cs THEN p[c] ELSE row[c]
  BY <1>1, <1>2
<1>10. w.number = row.number
  BY <1>4
<1> HIDE DEF w
<1> QED
  BY <1>8, <1>9, <1>10 DEF w

LEMMA NewRowTyped ==
  ASSUME NEW n \in Numbers, NEW role \in Roles \cup {"SUPER_ADMIN"}
  PROVE  NewRow(n, role) \in Rows /\ NewRow(n, role).number = n
BY DEF NewRow, Rows, Statuses

\* Values of a row, in the data of the audit.
LEMMA DataTyped ==
  ASSUME NEW cs \in SUBSET Columns, NEW f \in [cs -> Values]
  PROVE  f \in Data
BY DEF Data

LEMMA RowValues ==
  ASSUME NEW row \in Rows, NEW c \in Columns
  PROVE  row[c] \in Values
BY DEF Rows, Columns, Values

LEMMA PayloadValues ==
  ASSUME NEW p \in Payloads, NEW c \in DOMAIN p
  PROVE  c \in Columns /\ p[c] \in Values
BY AccountsAssumption DEF Columns, Values, ColumnValues

LEMMA NoneIsNoRow == None \notin Rows
BY AccountsAssumption

----------------------------------------------------------------------------
(* Types.                                                                  *)

\* Accounts are never deleted, so that what a call and the log rely on stays.
Stays == \A a \in Ids : account[a] \in Rows => account'[a] \in Rows

LEMMA DoingStays ==
  ASSUME Stays, NEW r, Doing(r), r.kind = "patch" => r.target \in Ids
  PROVE  Doing(r)'
BY DEF Doing, Stays

\* A step of one call that leaves the table and the log alone.
LEMMA CallStep ==
  ASSUME TypeInv, NEW q \in Requests, NEW r \in Request, Doing(r),
         req' = [req EXCEPT ![q] = r], UNCHANGED <<account, audit, stale>>,
         fails' \in 0..MaxFails
  PROVE  TypeInv'
<1>1. CallsOK'
  BY DEF TypeInv, CallsOK, Doing
<1> QED
  BY <1>1 DEF TypeInv, TableOK, LogOK, HistoryOK

\* A commit of one call: a row of one account and a row of the log.
LEMMA CommitStep ==
  ASSUME TypeInv, NEW q \in Requests, NEW r \in Request, Doing(r),
         NEW a \in Ids, NEW row \in Rows, NEW entry \in AuditRow, entry.account = a,
         req' = [req EXCEPT ![q] = r], account' = [account EXCEPT ![a] = row],
         audit' = audit \/ audit' = Append(audit, entry),
         stale' \subseteq Ids, UNCHANGED fails
  PROVE  TypeInv'
<1>1. TableOK' /\ Stays /\ account'[a] \in Rows
  BY DEF TypeInv, TableOK, Stays
<1>2. LogOK'
  <2>1. audit' \in Seq(AuditRow)
    BY DEF TypeInv, LogOK
  <2>2. \A i \in DOMAIN audit : audit[i].account \in Ids /\ account'[audit[i].account] \in Rows
    <3> SUFFICES ASSUME NEW i \in DOMAIN audit
                 PROVE  audit[i].account \in Ids /\ account'[audit[i].account] \in Rows
      OBVIOUS
    <3>1. audit[i] \in AuditRow
      BY DEF TypeInv, LogOK
    <3>2. audit[i].account \in Ids /\ account[audit[i].account] \in Rows
      BY <3>1 DEF TypeInv, LogOK, AuditRow
    <3> QED
      BY <1>1, <3>2 DEF Stays
  <2>3. CASE audit' = audit
    BY <2>1, <2>2, <2>3 DEF LogOK
  <2>4. CASE audit' = Append(audit, entry)
    <3>1. \A i \in DOMAIN audit' : (i \in DOMAIN audit /\ audit'[i] = audit[i]) \/ audit'[i] = entry
      BY <2>4 DEF TypeInv, LogOK
    <3> QED
      BY <1>1, <2>1, <2>2, <3>1 DEF LogOK
  <2> QED
    BY <2>3, <2>4
<1>3. CallsOK'
  <2>1. \A p \in Requests : Doing(req[p])'
    <3> SUFFICES ASSUME NEW p \in Requests PROVE Doing(req[p])'
      OBVIOUS
    <3>1. CASE p = q
      <4>1. req'[p] = r
        BY <3>1 DEF TypeInv, CallsOK
      <4> QED
        BY <1>1, <4>1 DEF Doing, Stays
    <3>2. CASE p # q
      <4>1. req'[p] = req[p]
        BY <3>2 DEF TypeInv, CallsOK
      <4> QED
        BY <1>1, <4>1 DEF TypeInv, CallsOK, Doing, Stays
    <3> QED
      BY <3>1, <3>2
  <2> QED
    BY <2>1 DEF TypeInv, CallsOK
<1> QED
  BY <1>1, <1>2, <1>3 DEF TypeInv, HistoryOK

----------------------------------------------------------------------------
(* What the steps of a call do.                                            *)

LEMMA IdleTyped == Idle \in Request
BY DEF Request, Idle, Points, CallKinds, Codes

\* What becomes of a call: it is over, it asks for an account, or for a change.
Ended(r, code) == [r EXCEPT !.at = "done", !.code = code]
Asked(kind, n, role) == [Idle EXCEPT !.at = "authorised", !.kind = kind, !.number = n, !.role = role]
Patching(a, p, copy) == [Idle EXCEPT !.at = "authorised", !.kind = "patch", !.target = a, !.payload = p, !.copy = copy]

LEMMA EndedTyped ==
  ASSUME NEW r \in Request, NEW code \in Codes
  PROVE  /\ Ended(r, code) \in Request
         /\ Ended(r, code).at = "done" /\ Ended(r, code).code = code
         /\ Ended(r, code).kind = r.kind /\ Ended(r, code).target = r.target
         /\ Ended(r, code).copy = r.copy /\ Ended(r, code).payload = r.payload
<1>1. "done" \in Points
  BY DEF Points
<1>2. Ended(r, code) \in Request
  BY <1>1, ZenonT(60) DEF Request, Ended
<1>3. /\ Ended(r, code).at = "done" /\ Ended(r, code).code = code
      /\ Ended(r, code).kind = r.kind /\ Ended(r, code).target = r.target
      /\ Ended(r, code).copy = r.copy /\ Ended(r, code).payload = r.payload
  BY DEF Request, Ended
<1> QED BY <1>2, <1>3

LEMMA AskedTyped ==
  ASSUME NEW kind \in {"create", "script"}, 
         NEW n \in Numbers \cup {BadNumber}, NEW role \in Roles \cup {"SUPER_ADMIN"}
  PROVE  /\ Asked(kind, n, role) \in Request
         /\ Asked(kind, n, role).at = "authorised" /\ Asked(kind, n, role).kind = kind
         /\ Asked(kind, n, role).number = n /\ Asked(kind, n, role).role = role
         /\ Asked(kind, n, role).code = 0
<1>1. "authorised" \in Points /\ kind \in CallKinds /\ 0 \in Codes
  BY DEF Points, CallKinds, Codes
<1>2. Asked(kind, n, role) = [Idle EXCEPT !.at = "authorised", !.kind = kind, !.number = n, !.role = role]
  BY DEF Asked
<1>3. Asked(kind, n, role) =  [at |-> "authorised", kind |-> kind, number |-> n, role |-> role,
         target |-> None, payload |-> NoData, copy |-> None, code |-> 0]
  BY <1>2 DEF Idle
<1> QED BY <1>1, <1>3 DEF Request

LEMMA PatchingTyped ==
  ASSUME NEW a \in Ids, NEW p \in Payloads, NEW copy \in Rows \cup {None}
  PROVE  /\ Patching(a, p, copy) \in Request
         /\ Patching(a, p, copy).at = "authorised" /\ Patching(a, p, copy).kind = "patch"
         /\ Patching(a, p, copy).target = a /\ Patching(a, p, copy).payload = p
         /\ Patching(a, p, copy).copy = copy /\ Patching(a, p, copy).code = 0
<1>1. "authorised" \in Points /\ "patch" \in CallKinds /\ 0 \in Codes
  BY DEF Points, CallKinds, Codes
<1>2. Patching(a, p, copy) = [Idle EXCEPT !.at = "authorised", !.kind = "patch", !.target = a,
                                          !.payload = p, !.copy = copy]
  BY DEF Patching
<1>3. Patching(a, p, copy) =  [at |-> "authorised", kind |-> "patch", number |-> None, role |-> None,
         target |-> a, payload |-> p, copy |-> copy, code |-> 0]
  BY <1>2 DEF Idle
<1> QED BY <1>1, <1>3 DEF Request

LEMMA AnswerEnds ==
  ASSUME req \in [Requests -> Request], NEW q \in Requests, NEW code, Answer(q, code)
  PROVE  req' = [req EXCEPT ![q] = Ended(req[q], code)]
<1>1. \A p \in Requests : req'[p] = [req EXCEPT ![q] = Ended(req[q], code)][p]
  <2>1. SUFFICES ASSUME NEW p \in Requests PROVE req'[p] = [req EXCEPT ![q] = Ended(req[q], code)][p]
   OBVIOUS
  <2>2. CASE p # q
    BY <2>2 DEF Answer
  <2>3. CASE p = q
    <3>1. req'[q] = [[req[q] EXCEPT !.at = "done"] EXCEPT !.code = code]
      BY DEF Answer
    <3>2. [[req[q] EXCEPT !.at = "done"] EXCEPT !.code = code] = Ended(req[q], code)
      BY DEF Ended
    <3> QED BY <3>1, <3>2, <2>3
  <2> QED BY <2>2, <2>3
<1> QED BY <1>1, Zenon DEF Answer

LEMMA AuthStep ==
  ASSUME NEW q, NEW actor, NEW call, Authenticate(q, actor, call)
  PROVE   \/ req' = [req EXCEPT ![q] = call]
          \/ req' = [req EXCEPT ![q] = Ended(call, 401)]
          \/ req' = [req EXCEPT ![q] = Ended(call, 403)]
<1>1. CASE account[actor].status # "ACTIVE"
  BY <1>1, Zenon DEF Authenticate, Ended
<1>2. CASE account[actor].status = "ACTIVE" /\ account[actor].role # "SUPER_ADMIN"
  BY <1>2, Zenon DEF Authenticate, Ended
<1>3. CASE account[actor].status = "ACTIVE" /\ account[actor].role = "SUPER_ADMIN"
  BY <1>3, Zenon DEF Authenticate, Ended
<1> QED BY <1>1, <1>2, <1>3

LEMMA CopyTyped ==
  ASSUME NEW r \in Request, NEW at \in Points, NEW copy \in Rows \cup {None}
  PROVE  [r EXCEPT !.at = at, !.copy = copy] \in Request
BY ZenonT(60) DEF Request

Arrives(q) ==
  \/ \E actor \in Ids, n \in Numbers \cup {BadNumber}, role \in Roles : CallCreate(q, actor, n, role)
  \/ \E actor, a \in Ids, p \in Payloads : CallPatch(q, actor, a, p)
  \/ \E n \in Numbers : RunScript(q, n)

\* The steps that commit nothing.
Light(q) ==
  \/ Arrives(q) \/ LookUp(q) \/ Insert(q) \/ Load(q) \/ NothingToUpdate(q)
  \/ RefreshCopy(q) \/ Finish(q) \/ Fail(q)

Becomes(q, r) ==
  /\ r \in Request /\ Doing(r) /\ req' = [req EXCEPT ![q] = r]
  /\ UNCHANGED <<account, audit, stale>> /\ fails' \in 0..MaxFails
  /\ r.at = "inserted" => ~ Taken(r.number) /\ ~ Inserting(q, r.number)
  /\ req[q].at \in {"finished", "done"} => r.at = "done"

LEMMA LightStep ==
  ASSUME TypeInv, NEW q \in Requests, Light(q)
  PROVE  \E r : Becomes(q, r)
<1> DEFINE now == req[q]
<1>0. now \in Request /\ Doing(now) /\ fails \in 0..MaxFails /\ MaxFails \in Nat
  BY AccountsAssumption DEF TypeInv, CallsOK, HistoryOK
<1>a. /\ {"authorised", "free", "inserted", "loaded", "updated", "done"} \subseteq Points
      /\ {"create", "script", "patch"} \subseteq CallKinds
      /\ {0, 200, 201, 401, 403, 404, 409, 422, 500} \subseteq Codes
  BY DEF Points, CallKinds, Codes
<1>1. ASSUME NEW code \in {200, 201, 401, 403, 404, 409, 422, 500}, Answer(q, code),
             UNCHANGED <<account, audit, stale>>, fails' \in 0..MaxFails
      PROVE  \E r : Becomes(q, r)
  <2> DEFINE r == Ended(now, code)
  <2>1. code \in Codes
    BY <1>a
  <2>2. /\ r \in Request /\ r.at = "done" /\ r.code = code /\ r.kind = now.kind
        /\ r.target = now.target /\ r.copy = now.copy /\ r.payload = now.payload
    BY <1>0, <2>1, EndedTyped
  <2>3. req' = [req EXCEPT ![q] = r]
    BY <1>1, AnswerEnds DEF TypeInv, CallsOK
  <2> HIDE DEF r
  <2>4. Doing(r)
    BY <1>0, <2>2 DEF Doing
  <2> QED
    BY <1>1, <2>2, <2>3, <2>4 DEF Becomes
<1>2. CASE Arrives(q)
  <2>1. ASSUME NEW actor \in Ids, NEW call, Authenticate(q, actor, call), call \in Request,
               Doing(call), call.at = "authorised"
        PROVE  \E r : Becomes(q, r)
    <3>a. ASSUME NEW code \in {401, 403}
          PROVE  /\ Ended(call, code) \in Request /\ Ended(call, code).at = "done"
                 /\ Ended(call, code).code = code /\ Ended(call, code).kind = call.kind
                 /\ Ended(call, code).target = call.target
                 /\ Ended(call, code).copy = call.copy
                 /\ Ended(call, code).payload = call.payload
      <4>1. code \in Codes
        BY <1>a
      <4> QED
        BY <2>1, <4>1, EndedTyped
    <3>1. PICK r : /\ req' = [req EXCEPT ![q] = r]
                   /\ r = call \/ r = Ended(call, 401) \/ r = Ended(call, 403)
      BY <2>1, AuthStep
    <3>2. r \in Request /\ r.at \in {"authorised", "done"} /\ (r.code # 0 <=> r.at = "done")
          /\ r.kind = call.kind /\ r.target = call.target /\ r.copy = call.copy
          /\ r.payload = call.payload /\ (r.at = "authorised" => r = call)
      BY <2>1, <3>a, <3>1 DEF Doing
    <3>3. Doing(r)
      BY <2>1, <3>2 DEF Doing
    <3>4. req[q].at = "idle" /\ UNCHANGED <<account, audit, fails, stale>>
      BY <2>1 DEF Authenticate, Idle
    <3> QED
      BY <1>0, <3>1, <3>2, <3>3, <3>4 DEF Becomes
  <2>2. ASSUME NEW actor \in Ids, NEW n \in Numbers \cup {BadNumber}, NEW role \in Roles,
               CallCreate(q, actor, n, role)
        PROVE  \E r : Becomes(q, r)
    <3> DEFINE call == Asked("create", n, role)
    <3>1. call \in Request /\ Doing(call) /\ call.at = "authorised"
      <4>1. /\ call \in Request /\ call.at = "authorised" /\ call.kind = "create"
            /\ call.number = n /\ call.role = role /\ call.code = 0
        BY AskedTyped
      <4> HIDE DEF call
      <4> QED
        BY <4>1 DEF Doing
    <3>2. Authenticate(q, actor, call)
      BY <2>2 DEF CallCreate, Asked
    <3> HIDE DEF call
    <3> QED
      BY <2>1, <3>1, <3>2
  <2>3. ASSUME NEW actor \in Ids, NEW a \in Ids, NEW p \in Payloads, CallPatch(q, actor, a, p)
        PROVE  \E r : Becomes(q, r)
    <3> DEFINE held == Held(a, actor)
               call == Patching(a, p, held)
    <3>1. held \in Rows \cup {None} /\ (held # None => account[a] \in Rows)
      BY DEF Held, TypeInv, TableOK
    <3>2. call \in Request /\ Doing(call) /\ call.at = "authorised"
      <4> HIDE DEF held
      <4>1. /\ call \in Request /\ call.at = "authorised" /\ call.kind = "patch"
            /\ call.target = a /\ call.payload = p /\ call.copy = held /\ call.code = 0
        BY <3>1, PatchingTyped
      <4> HIDE DEF call
      <4> QED
        BY <3>1, <4>1 DEF Doing
    <3>3. Authenticate(q, actor, call)
      BY <2>3 DEF CallPatch, Patching
    <3> HIDE DEF call
    <3> QED
      BY <2>1, <3>2, <3>3
  <2>4. ASSUME NEW n \in Numbers, RunScript(q, n) PROVE \E r : Becomes(q, r)
    <3> DEFINE r == Asked("script", n, "SUPER_ADMIN")
    <3>1. r \in Request /\ Doing(r) /\ r.at = "authorised"
      <4>1. /\ r \in Request /\ r.at = "authorised" /\ r.kind = "script"
            /\ r.number = n /\ r.role = "SUPER_ADMIN" /\ r.code = 0
        BY AskedTyped
      <4> HIDE DEF r
      <4> QED
        BY <4>1 DEF Doing
    <3>2. /\ req[q].at = "idle" /\ req' = [req EXCEPT ![q] = r]
          /\ UNCHANGED <<account, audit, fails, stale>>
      BY <2>4 DEF RunScript, Idle, Asked
    <3> HIDE DEF r
    <3> QED
      BY <1>0, <3>1, <3>2 DEF Becomes
  <2> QED
    BY <1>2, <2>2, <2>3, <2>4 DEF Arrives
<1>3. CASE LookUp(q)
  <2>1. CASE Answer(q, 422) \/ Answer(q, 409)
    BY <1>0, <1>1, <1>3, <2>1 DEF LookUp
  <2>2. CASE req' = [req EXCEPT ![q].at = "free"] /\ now.number # BadNumber
    <3> DEFINE r == [now EXCEPT !.at = "free"]
    <3>1. r \in Request /\ r.at = "free" /\ r.number = now.number /\ r.role = now.role
          /\ r.code = now.code /\ r.kind = now.kind
      BY <1>0, <1>a DEF Request
    <3>2. now.at = "authorised" /\ now.kind \in {"create", "script"}
      BY <1>3 DEF LookUp
    <3>3. req' = [req EXCEPT ![q] = r]
      BY <2>2
    <3> HIDE DEF r
    <3>4. Doing(r)
      BY <1>0, <2>2, <3>1, <3>2 DEF Doing
    <3> QED
      BY <1>0, <1>3, <3>1, <3>2, <3>3, <3>4 DEF Becomes, LookUp
  <2> QED
    BY <1>3, <2>1, <2>2 DEF LookUp
<1>4. CASE Insert(q)
  <2>1. CASE Answer(q, 500)
    BY <1>0, <1>1, <1>4, <2>1 DEF Insert
  <2>2. CASE req' = [req EXCEPT ![q].at = "inserted"] /\ ~ Clash(now.number)
    <3> DEFINE r == [now EXCEPT !.at = "inserted"]
    <3>1. r \in Request /\ r.at = "inserted" /\ r.number = now.number /\ r.role = now.role
          /\ r.code = now.code /\ r.kind = now.kind /\ r.target = now.target
          /\ r.payload = now.payload /\ r.copy = now.copy
      BY <1>0, <1>a DEF Request
    <3>2. now.at = "free" /\ ~ Inserting(q, now.number) /\ ~ Taken(now.number)
      BY <1>4, <2>2 DEF Insert, Clash
    <3>3. req' = [req EXCEPT ![q] = r]
      BY <2>2
    <3> HIDE DEF r
    <3>4. Doing(r)
      BY <1>0, <3>1, <3>2 DEF Doing
    <3> QED
      BY <1>0, <1>4, <3>1, <3>2, <3>3, <3>4 DEF Becomes, Insert
  <2> QED
    BY <1>4, <2>1, <2>2 DEF Insert
<1>5. CASE Load(q)
  <2> DEFINE copy == IF now.copy # None THEN now.copy ELSE account[now.target]
  <2>1. now.at = "authorised" /\ now.kind = "patch" /\ now.target \in Ids
    BY <1>0, <1>5 DEF Load, Doing
  <2>2. copy \in Rows \cup {None} /\ (copy # None => copy \in Rows /\ account[now.target] \in Rows)
    BY <1>0, <2>1 DEF Doing, Request, TypeInv, TableOK
  <2>3. CASE copy = None
    <3>1. Answer(q, 404) /\ UNCHANGED <<account, audit, fails, stale>>
      BY <1>5, <2>3 DEF Load
    <3> QED
      BY <1>0, <1>1, <3>1
  <2>4. CASE copy # None
    <3> DEFINE r == [now EXCEPT !.at = "loaded", !.copy = copy]
    <3>1. req' = [req EXCEPT ![q] = r] /\ UNCHANGED <<account, audit, fails, stale>>
      BY <1>5, <2>4 DEF Load
    <3> HIDE DEF copy
    <3>2. r \in Request /\ r.at = "loaded" /\ r.copy = copy /\ r.code = now.code
          /\ r.kind = now.kind /\ r.target = now.target /\ r.payload = now.payload
      <4>1. copy \in Rows \cup {None} /\ "loaded" \in Points
        BY <1>a, <2>2
      <4>2. r \in Request
        BY <1>0, <4>1, CopyTyped
      <4> QED
        BY <1>0, <4>2 DEF Request
    <3> HIDE DEF r
    <3>3. Doing(r)
      BY <1>0, <2>1, <2>2, <2>4, <3>2 DEF Doing
    <3> QED
      BY <1>0, <2>1, <3>1, <3>2, <3>3 DEF Becomes
  <2> QED
    BY <2>3, <2>4
<1>6. CASE NothingToUpdate(q)
  <2>1. CASE Answer(q, 200)
    BY <1>0, <1>1, <1>6, <2>1 DEF NothingToUpdate
  <2>2. CASE req' = [req EXCEPT ![q].at = "updated"] /\ "status" \in DOMAIN now.payload
    <3> DEFINE r == [now EXCEPT !.at = "updated"]
    <3>1. r \in Request /\ r.at = "updated" /\ r.copy = now.copy /\ r.code = now.code
          /\ r.kind = now.kind /\ r.target = now.target /\ r.payload = now.payload
      BY <1>0, <1>a DEF Request
    <3>2. now.at = "loaded"
      BY <1>6 DEF NothingToUpdate
    <3>3. req' = [req EXCEPT ![q] = r]
      BY <2>2
    <3> HIDE DEF r
    <3>4. Doing(r)
      BY <1>0, <2>2, <3>1, <3>2 DEF Doing
    <3> QED
      BY <1>0, <1>6, <3>1, <3>2, <3>3, <3>4 DEF Becomes, NothingToUpdate
  <2> QED
    BY <1>6, <2>1, <2>2 DEF NothingToUpdate
<1>7. CASE RefreshCopy(q)
  <2> DEFINE row == account[now.target]
  <2>1. now.at = "committed" /\ row \in Rows
    BY <1>0, <1>7, NoneIsNoRow DEF RefreshCopy, Doing
  <2>2. CASE Answer(q, 200)
    BY <1>0, <1>1, <1>7, <2>2 DEF RefreshCopy
  <2>3. CASE /\ req' = [req EXCEPT ![q].at = "updated", ![q].copy = row]
             /\ "status" \in DOMAIN now.payload
    <3> DEFINE r == [now EXCEPT !.at = "updated", !.copy = row]
    <3>1. req' = [req EXCEPT ![q] = r]
      BY <2>3
    <3> HIDE DEF row
    <3>2. r \in Request /\ r.at = "updated" /\ r.copy = row /\ r.code = now.code
          /\ r.kind = now.kind /\ r.target = now.target /\ r.payload = now.payload
      <4>1. row \in Rows \cup {None} /\ "updated" \in Points
        BY <1>a, <2>1 DEF row
      <4>2. r \in Request
        BY <1>0, <4>1, CopyTyped
      <4> QED
        BY <1>0, <4>2 DEF Request
    <3> HIDE DEF r
    <3>3. Doing(r)
      BY <1>0, <2>1, <2>3, <3>2 DEF Doing, row
    <3> QED
      BY <1>0, <1>7, <2>1, <3>1, <3>2, <3>3 DEF Becomes, RefreshCopy
  <2> QED
    BY <1>7, <2>2, <2>3 DEF RefreshCopy
<1>8. CASE Finish(q)
  BY <1>0, <1>1, <1>8 DEF Finish
<1>9. CASE Fail(q)
  <2>1. fails' \in 0..MaxFails
    BY <1>0, <1>9 DEF Fail
  <2> QED
    BY <1>1, <1>9, <2>1 DEF Fail
<1> QED
  BY <1>2, <1>3, <1>4, <1>5, <1>6, <1>7, <1>8, <1>9 DEF Light

\* A row of the log tells what became of an account: what it names is what
\* the account has now; what it names as old is what the account had, unless
\* the copy was out of date.
Faithful(a, row, entry) ==
  /\ \A c \in DOMAIN entry.new : c # "status" \/ a \notin stale' => row[c] = entry.new[c]
  /\ \A c \in Columns \ DOMAIN entry.new : row[c] = account[a][c]
  /\ \A c \in DOMAIN entry.old :
       c \in Columns \ {"status"} /\ (a \notin stale' => entry.old[c] = account[a][c])

\* The two sides of a row of the log, when the columns cs are written from a copy.
Reports(cs, old, new, a, copy, p) ==
  /\ cs \subseteq DOMAIN new /\ DOMAIN new \subseteq Columns
  /\ \A c \in cs : new[c] = p[c]
  /\ \A c \in DOMAIN new \ cs : c = "status" /\ (a \notin stale' => copy[c] = new[c])
  /\ \A c \in DOMAIN old : c \in Columns \ {"status"} /\ old[c] = copy[c]

\* The two commits of a PATCH, by their rows of the log.
Half(from, to, action, copy, p) ==
  \/ from = "loaded" /\ to = "committed" /\ action = "update" /\ Changed(copy, p) # {}
  \/ from = "updated" /\ to = "finished" /\ action = "status_change" /\ "status" \in DOMAIN p

\* A commit of a PATCH: the row keeps its number, and the row of the log
\* names every column that changes.
Patches(q, a, row, entry, r) ==
  /\ row \in Rows /\ account[a] \in Rows /\ row.number = account[a].number
  /\ entry \in AuditRow /\ entry.account = a
  /\ \A c \in DOMAIN account[a] : row[c] # account[a][c] => c \in DOMAIN entry.new
  /\ account' = [account EXCEPT ![a] = row] /\ audit' = Append(audit, entry)
  /\ r \in Request /\ Doing(r) /\ req' = [req EXCEPT ![q] = r]
  /\ req[q].at \in {"loaded", "updated"} /\ r.at \in {"committed", "finished"}
  /\ stale' \subseteq Ids /\ UNCHANGED fails
  /\ stale \subseteq stale' /\ Faithful(a, row, entry)
  /\ entry.by = q /\ Half(req[q].at, r.at, entry.action, r.copy, r.payload)
  /\ r.kind = "patch" /\ r.copy = req[q].copy /\ r.payload = req[q].payload

LEMMA TrailTyped ==
  ASSUME NEW q \in Requests, NEW a \in Ids, NEW old \in Data, NEW new \in Data,
         NEW action \in {"create", "update", "status_change"}
  PROVE  /\ Trail(q, a, action, old, new) \in AuditRow
         /\ Trail(q, a, action, old, new).account = a
         /\ Trail(q, a, action, old, new).new = new /\ Trail(q, a, action, old, new).old = old
         /\ Trail(q, a, action, old, new).by = q
         /\ Trail(q, a, action, old, new).action = action
BY DEF Trail, AuditRow

LEMMA NoDataTyped == NoData \in Data
<1>1. NoData \in [{} -> Values]
  BY DEF NoData
<1> QED
  BY <1>1, DataTyped

LEMMA MovedTyped ==
  ASSUME NEW r \in Request, NEW at \in Points
  PROVE  /\ [r EXCEPT !.at = at] \in Request
         /\ [r EXCEPT !.at = at].at = at /\ [r EXCEPT !.at = at].code = r.code
         /\ [r EXCEPT !.at = at].kind = r.kind /\ [r EXCEPT !.at = at].target = r.target
         /\ [r EXCEPT !.at = at].copy = r.copy /\ [r EXCEPT !.at = at].payload = r.payload
BY DEF Request

LEMMA PatchStep ==
  ASSUME TypeInv, NEW q \in Requests, CommitUpdate(q) \/ CommitStatus(q)
  PROVE  \E a \in Ids : \E row, entry, r : Patches(q, a, row, entry, r)
<1> DEFINE now == req[q]
           a == now.target
           copy == now.copy
           p == now.payload
<1>1. /\ now \in Request /\ Doing(now) /\ now.at \in {"loaded", "updated"}
      /\ a \in Ids /\ p \in Payloads /\ copy \in Rows /\ account[a] \in Rows
  <2>1. now \in Request /\ Doing(now) /\ now.at \in {"loaded", "updated"}
    BY DEF TypeInv, CallsOK, CommitUpdate, CommitStatus
  <2> QED
    BY <2>1, NoneIsNoRow DEF Doing
<1>2. /\ stale' \subseteq Ids /\ stale \subseteq stale'
      /\ a \notin stale' => account[a] = copy
  BY <1>1 DEF TypeInv, HistoryOK, OutOfDate, CommitUpdate, CommitStatus
<1>3. ASSUME NEW cs \in SUBSET DOMAIN p, NEW old \in Data, NEW new \in Data,
             NEW action \in {"create", "update", "status_change"},
             NEW at \in {"committed", "finished"},
             Reports(cs, old, new, a, copy, p), Half(now.at, at, action, copy, p),
             account' = [account EXCEPT ![a] = Written(account[a], copy, p, cs)],
             audit' = Append(audit, Trail(q, a, action, old, new)),
             req' = [req EXCEPT ![q].at = at], UNCHANGED fails
      PROVE  \E row, entry, r : Patches(q, a, row, entry, r)
  <2> DEFINE row == Written(account[a], copy, p, cs)
             entry == Trail(q, a, action, old, new)
             r == [now EXCEPT !.at = at]
  <2>1. /\ row \in Rows /\ row.number = account[a].number
        /\ \A c \in DOMAIN account[a] : row[c] = IF c \in cs THEN p[c] ELSE account[a][c]
    BY <1>1, WrittenTyped
  <2>2. /\ entry \in AuditRow /\ entry.account = a /\ entry.new = new
        /\ entry.old = old /\ entry.by = q /\ entry.action = action
    BY <1>1, TrailTyped
  <2>3. /\ r \in Request /\ r.at = at /\ r.code = now.code /\ r.kind = now.kind
        /\ r.target = a /\ r.copy = copy /\ r.payload = p
    <3>1. at \in Points
      BY DEF Points
    <3> QED
      BY <1>1, <3>1, MovedTyped
  <2>4. req' = [req EXCEPT ![q] = r]
    BY <1>3
  <2>5. account' = [account EXCEPT ![a] = row] /\ audit' = Append(audit, entry)
    BY <1>3
  <2> HIDE DEF row, entry, r
  <2>6. Doing(r)
    BY <1>1, <2>3, NoneIsNoRow DEF Doing
  <2>7. Half(now.at, r.at, entry.action, r.copy, r.payload)
    BY <1>3, <2>2, <2>3
  <2>8. Faithful(a, row, entry)
    <3>1. Columns \subseteq DOMAIN account[a]
      BY <1>1, RowDomain DEF Columns, ColumnNames
    <3>2. \A c \in DOMAIN new : c \in cs => row[c] = new[c]
      BY <1>3, <2>1, <3>1 DEF Reports
    <3>3. \A c \in DOMAIN new : c \notin cs =>
            c = "status" /\ row[c] = account[a][c] /\ (a \notin stale' => row[c] = new[c])
      BY <1>2, <1>3, <2>1, <3>1 DEF Reports
    <3>4. \A c \in Columns \ DOMAIN new : row[c] = account[a][c]
      BY <1>3, <2>1, <3>1 DEF Reports
    <3>5. \A c \in DOMAIN old :
            c \in Columns \ {"status"} /\ (a \notin stale' => old[c] = account[a][c])
      BY <1>2, <1>3 DEF Reports
    <3> QED
      BY <2>2, <3>2, <3>3, <3>4, <3>5 DEF Faithful
  <2>9. Patches(q, a, row, entry, r)
    <3>1. row \in Rows /\ account[a] \in Rows /\ row.number = account[a].number
      BY <1>1, <2>1
    <3>2. \A c \in DOMAIN account[a] : row[c] # account[a][c] => c \in DOMAIN entry.new
      BY <1>3, <2>1, <2>2 DEF Reports
    <3>3. req[q].at \in {"loaded", "updated"} /\ r.at \in {"committed", "finished"}
      BY <1>1, <1>3, <2>3
    <3>4. r.kind = "patch" /\ r.copy = req[q].copy /\ r.payload = req[q].payload
      BY <1>1, <2>3 DEF Doing
    <3> QED
      BY <1>2, <1>3, <2>2, <2>3, <2>4, <2>5, <2>6, <2>7, <2>8, <3>1, <3>2, <3>3, <3>4 DEF Patches
  <2> QED
    BY <2>9
<1>4. CASE CommitUpdate(q)
  <2> DEFINE cs == Changed(copy, p)
             old == [c \in cs |-> copy[c]]
             new == [c \in cs |-> p[c]]
  <2>1. cs \in SUBSET DOMAIN p /\ cs \in SUBSET Columns
    BY <1>1, PayloadValues DEF Changed
  <2>2. old \in Data /\ new \in Data /\ cs \subseteq DOMAIN new
    <3>1. \A c \in cs : copy[c] \in Values /\ p[c] \in Values
      BY <1>1, <2>1, RowValues, PayloadValues
    <3> HIDE DEF cs
    <3>2. old \in [cs -> Values] /\ new \in [cs -> Values]
      BY <3>1
    <3> QED
      BY <2>1, <3>2, DataTyped
  <2>3. /\ account' = [account EXCEPT ![a] = Written(account[a], copy, p, cs)]
        /\ audit' = Append(audit, Trail(q, a, "update", old, new))
        /\ req' = [req EXCEPT ![q].at = "committed"] /\ UNCHANGED fails
        /\ now.at = "loaded" /\ cs # {}
    BY <1>4 DEF CommitUpdate
  <2>4. /\ DOMAIN new = cs /\ DOMAIN old = cs /\ "status" \notin cs
        /\ \A c \in cs : new[c] = p[c] /\ old[c] = copy[c]
    BY DEF Changed
  <2>5. Half(now.at, "committed", "update", copy, p)
    BY <2>3 DEF Half
  <2> HIDE DEF cs, old, new
  <2>6. Reports(cs, old, new, a, copy, p)
    BY <2>1, <2>4 DEF Reports
  <2>7. \E row, entry, r : Patches(q, a, row, entry, r)
    BY <1>3, <2>1, <2>2, <2>3, <2>5, <2>6
  <2> QED
    BY <1>1, <2>7
<1>5. CASE CommitStatus(q)
  <2> DEFINE cs == StatusChanged(copy, p)
             new == [status |-> p.status]
  <2>1. now.at = "updated" /\ "status" \in DOMAIN p
    BY <1>1, <1>5 DEF CommitStatus, Doing
  <2>2. cs \in SUBSET DOMAIN p /\ cs \subseteq {"status"}
    BY <2>1 DEF StatusChanged
  <2>3. NoData \in Data /\ new \in Data /\ cs \subseteq DOMAIN new
    <3>1. p["status"] \in Values
      BY <1>1, <2>1, PayloadValues
    <3>2. new \in [{"status"} -> Values]
      BY <3>1
    <3>3. {"status"} \in SUBSET Columns
      BY DEF Columns
    <3> QED
      BY <2>2, <3>2, <3>3, DataTyped, NoDataTyped
  <2>4. /\ account' = [account EXCEPT ![a] = Written(account[a], copy, p, cs)]
        /\ audit' = Append(audit, Trail(q, a, "status_change", NoData, new))
        /\ req' = [req EXCEPT ![q].at = "finished"] /\ UNCHANGED fails
    BY <1>5 DEF CommitStatus
  <2>5. /\ DOMAIN new = {"status"} /\ new["status"] = p.status /\ {"status"} \subseteq Columns
        /\ DOMAIN NoData = {}
        /\ "status" \notin cs => copy["status"] = p.status
    BY DEF StatusChanged, Columns, NoData
  <2>a. Half(now.at, "finished", "status_change", copy, p)
    BY <2>1 DEF Half
  <2> HIDE DEF cs, new
  <2>6. Reports(cs, NoData, new, a, copy, p)
    BY <2>2, <2>5 DEF Reports
  <2>7. \E row, entry, r : Patches(q, a, row, entry, r)
    BY <1>3, <2>2, <2>3, <2>4, <2>6, <2>a
  <2> QED
    BY <1>1, <2>7
<1> QED
  BY <1>1, <1>4, <1>5

\* A commit of a creation: an account the call had none of before.
Creates(q, row, entry, r) ==
  /\ row \in Rows /\ row.number = req[q].number
  /\ entry \in AuditRow /\ entry.account = q
  /\ account' = [account EXCEPT ![q] = row]
  /\ audit' = audit \/ audit' = Append(audit, entry)
  /\ r \in Request /\ Doing(r) /\ req' = [req EXCEPT ![q] = r]
  /\ req[q].at = "inserted" /\ r.at = "finished"
  /\ UNCHANGED <<fails, stale>>
  /\ \A c \in Columns : row[c] = NewRow(row.number, row.role)[c]
  /\ audit' = IF r.kind = "script" THEN audit ELSE Append(audit, entry)
  /\ entry.by = q /\ entry.action = "create" /\ DOMAIN entry.new = {} /\ DOMAIN entry.old = {}
  /\ r.kind = req[q].kind

LEMMA CreateStep ==
  ASSUME TypeInv, NEW q \in Requests, CommitInsert(q)
  PROVE  \E row, entry, r : Creates(q, row, entry, r)
<1> DEFINE now == req[q]
           row == NewRow(now.number, now.role)
           entry == Trail(q, q, "create", NoData, NoData)
           r == [now EXCEPT !.at = "finished"]
<1>1. now \in Request /\ Doing(now) /\ now.at = "inserted"
  BY DEF TypeInv, CallsOK, CommitInsert
<1>2. /\ row \in Rows /\ row.number = now.number
      /\ \A c \in Columns : row[c] = NewRow(row.number, row.role)[c]
  <2>1. \A c \in Columns : row[c] = NewRow(row.number, row.role)[c]
    BY DEF NewRow, Columns
  <2> QED
    BY <1>1, <2>1, NewRowTyped DEF Doing
<1>3. /\ entry \in AuditRow /\ entry.account = q /\ entry.by = q /\ entry.action = "create"
      /\ DOMAIN entry.new = {} /\ DOMAIN entry.old = {}
  <2>1. q \in Ids /\ DOMAIN NoData = {}
    BY DEF Ids, NoData
  <2>2. /\ entry \in AuditRow /\ entry.account = q /\ entry.by = q /\ entry.action = "create"
        /\ entry.new = NoData /\ entry.old = NoData
    BY <2>1, NoDataTyped, TrailTyped
  <2> QED
    BY <2>1, <2>2
<1>4. /\ r \in Request /\ r.at = "finished" /\ r.code = now.code /\ r.kind = now.kind
      /\ r.target = now.target /\ r.copy = now.copy /\ r.payload = now.payload
  BY <1>1, MovedTyped DEF Points
<1>5. /\ account' = [account EXCEPT ![q] = row] /\ req' = [req EXCEPT ![q] = r]
      /\ audit' = IF now.kind = "script" THEN audit ELSE Append(audit, entry)
      /\ UNCHANGED <<fails, stale>>
  BY DEF CommitInsert
<1> HIDE DEF row, entry, r
<1>6. Doing(r)
  BY <1>1, <1>4 DEF Doing
<1>7. Creates(q, row, entry, r)
  BY <1>1, <1>2, <1>3, <1>4, <1>5, <1>6 DEF Creates
<1> QED
  BY <1>7

LEMMA StepCases ==
  ASSUME NEW q \in Requests
  PROVE  Step(q) \/ Fail(q) \/ Arrives(q) <=>
           Light(q) \/ CommitInsert(q) \/ CommitUpdate(q) \/ CommitStatus(q)
BY DEF Step, Light

LEMMA NextCases ==
  ASSUME TypeInv, Next
  PROVE  \E q \in Requests :
           \/ \E r : Becomes(q, r)
           \/ \E row, entry, r : Creates(q, row, entry, r)
           \/ \E a \in Ids : \E row, entry, r : Patches(q, a, row, entry, r)
<1>1. PICK q \in Requests : Step(q) \/ Fail(q) \/ Arrives(q)
  BY DEF Next, Arrives
<1> QED
  BY <1>1, StepCases, LightStep, CreateStep, PatchStep

LEMMA TypesInit == Init => TypeInv
<1> SUFFICES ASSUME Init PROVE TypeInv
  OBVIOUS
<1>1. TableOK /\ LogOK
  BY AccountsAssumption DEF Init, TableOK, LogOK, Ids
<1>2. CallsOK
  <2>1. Doing(Idle)
    BY DEF Doing, Idle
  <2> QED
    BY <2>1, IdleTyped DEF Init, CallsOK
<1>3. HistoryOK
  BY AccountsAssumption DEF Init, HistoryOK
<1> QED
  BY <1>1, <1>2, <1>3 DEF TypeInv

LEMMA TypesStep == TypeInv /\ [Next]_vars => TypeInv'
<1> SUFFICES ASSUME TypeInv, [Next]_vars PROVE TypeInv'
  OBVIOUS
<1>1. CASE Next
  <2>1. PICK q \in Requests :
           \/ \E r : Becomes(q, r)
           \/ \E row, entry, r : Creates(q, row, entry, r)
           \/ \E a \in Ids : \E row, entry, r : Patches(q, a, row, entry, r)
    BY <1>1, NextCases
  <2>2. CASE \E r : Becomes(q, r)
    BY <2>2, CallStep DEF Becomes
  <2>3. CASE \E row, entry, r : Creates(q, row, entry, r)
    <3>1. PICK row, entry, r : Creates(q, row, entry, r)
      BY <2>3
    <3>2. q \in Ids /\ stale' \subseteq Ids
      BY <3>1 DEF Ids, Creates, TypeInv, HistoryOK
    <3> QED
      BY <3>1, <3>2, CommitStep DEF Creates
  <2>4. CASE \E a \in Ids : \E row, entry, r : Patches(q, a, row, entry, r)
    <3>1. PICK a \in Ids : \E row, entry, r : Patches(q, a, row, entry, r)
      BY <2>4
    <3>2. PICK row, entry, r : Patches(q, a, row, entry, r)
      BY <3>1
    <3> QED
      BY <3>2, CommitStep DEF Patches
  <2> QED
    BY <2>1, <2>2, <2>3, <2>4
<1>2. CASE UNCHANGED vars
  BY <1>2 DEF vars, TypeInv, TableOK, LogOK, CallsOK, HistoryOK, Doing
<1> QED
  BY <1>1, <1>2

LEMMA TypesKept == Spec => []TypeInv
BY TypesInit, TypesStep, PTL DEF Spec

\* The table, the log and the calls are well typed, the log names accounts
\* that exist and never disappear, and only a call that is over has a status
\* code (models of accounts and audit_log).
THEOREM TypeCorrect == Spec => []TypeOK
<1>1. TypeInv => TypeOK
  BY DEF TypeInv, TableOK, LogOK, CallsOK, HistoryOK, TypeOK, Doing, Request, AuditRow,
         Points, CallKinds, Codes
<1> QED
  BY <1>1, TypesKept, PTL

----------------------------------------------------------------------------
(* One account for a number: Insert waits for the insert of another call,  *)
(* and finds the number taken once that has committed.                     *)

LEMMA NumberingInit == Init => Numbering
<1> SUFFICES ASSUME Init PROVE Numbering
  OBVIOUS
<1>1. UniqueNumber
  BY AccountsAssumption DEF Init, UniqueNumber, Ids
<1> QED
  BY <1>1 DEF Init, Numbering, Idle

LEMMA NumberingStep ==
  ASSUME TypeInv, Numbering, [Next]_vars
  PROVE  Numbering'
<1>1. CASE Next
  <2>1. PICK q \in Requests :
           \/ \E r : Becomes(q, r)
           \/ \E row, entry, r : Creates(q, row, entry, r)
           \/ \E a \in Ids : \E row, entry, r : Patches(q, a, row, entry, r)
    BY <1>1, NextCases
  <2>a. /\ req \in [Requests -> Request] /\ account \in [Ids -> Rows \cup {None}]
        /\ q \in Ids /\ None \notin Rows
    BY NoneIsNoRow DEF TypeInv, TableOK, CallsOK, Ids
  <2>2. CASE \E r : Becomes(q, r)
    <3>1. PICK r : Becomes(q, r)
      BY <2>2
    <3>2. account' = account /\ req'[q] = r /\ \A p \in Requests \ {q} : req'[p] = req[p]
      BY <2>a, <3>1 DEF Becomes
    <3>3. r.at = "inserted" => ~ Taken(r.number) /\ ~ Inserting(q, r.number)
      BY <3>1 DEF Becomes
    <3>4. ASSUME NEW p \in Requests, req'[p].at = "inserted"
          PROVE  ~ Taken(req[p].number)' /\ ~ Inserting(p, req[p].number)'
      <4>1. CASE p = q
        BY <3>2, <3>3, <3>4, <4>1 DEF Taken, Inserting
      <4>2. CASE p # q
        BY <3>2, <3>3, <3>4, <4>2 DEF Numbering, Taken, Inserting
      <4> QED
        BY <4>1, <4>2
    <3> QED
      BY <3>2, <3>4 DEF Numbering, UniqueNumber
  <2>3. CASE \E row, entry, r : Creates(q, row, entry, r)
    <3>1. PICK row, entry, r : Creates(q, row, entry, r)
      BY <2>3
    <3>2. /\ req'[q] = r /\ r.at = "finished" /\ \A p \in Requests \ {q} : req'[p] = req[p]
          /\ account'[q] = row /\ row \in Rows /\ row.number = req[q].number
          /\ \A a \in Ids \ {q} : account'[a] = account[a]
      BY <2>a, <3>1 DEF Creates
    <3>3. req[q].at = "inserted" /\ ~ Taken(req[q].number) /\ ~ Inserting(q, req[q].number)
      BY <3>1 DEF Creates, Numbering
    <3>4. UniqueNumber'
      BY <2>a, <3>2, <3>3 DEF Numbering, UniqueNumber, Taken
    <3>5. ASSUME NEW p \in Requests, req'[p].at = "inserted"
          PROVE  ~ Taken(req[p].number)' /\ ~ Inserting(p, req[p].number)'
      <4>1. p # q
        BY <3>2, <3>5
      <4>2. req'[p] = req[p] /\ req[p].number # req[q].number
        BY <3>2, <3>3, <3>5, <4>1 DEF Inserting
      <4>3. ~ Taken(req[p].number) /\ ~ Inserting(p, req[p].number)
        BY <3>5, <4>2 DEF Numbering
      <4>4. ~ Taken(req[p].number)'
        BY <3>2, <4>2, <4>3 DEF Taken
      <4>5. ~ Inserting(p, req[p].number)'
        BY <3>2, <4>2, <4>3 DEF Inserting
      <4> QED
        BY <4>4, <4>5
    <3> QED
      BY <3>4, <3>5 DEF Numbering
  <2>4. CASE \E a \in Ids : \E row, entry, r : Patches(q, a, row, entry, r)
    <3>1. PICK a \in Ids : \E row, entry, r : Patches(q, a, row, entry, r)
      BY <2>4
    <3>2. PICK row, entry, r : Patches(q, a, row, entry, r)
      BY <3>1
    <3>3. /\ req'[q] = r /\ r.at # "inserted" /\ \A p \in Requests \ {q} : req'[p] = req[p]
          /\ \A b \in Ids : account'[b] # None =>
               account[b] # None /\ account'[b].number = account[b].number
      BY <2>a, <3>2 DEF Patches
    <3>4. UniqueNumber'
      <4> SUFFICES ASSUME NEW b \in Ids, NEW c \in Ids, account'[b] # None, account'[c] # None,
                          account'[b].number = account'[c].number
                   PROVE  b = c
        BY DEF UniqueNumber
      <4>1. /\ account[b] # None /\ account[c] # None
            /\ account[b].number = account[c].number
        BY <3>3
      <4> QED
        BY <4>1 DEF Numbering, UniqueNumber
    <3>5. ASSUME NEW p \in Requests, req'[p].at = "inserted"
          PROVE  ~ Taken(req[p].number)' /\ ~ Inserting(p, req[p].number)'
      <4>1. req'[p] = req[p] /\ ~ Taken(req[p].number) /\ ~ Inserting(p, req[p].number)
        BY <3>3, <3>5 DEF Numbering
      <4>2. ~ Taken(req[p].number)'
        BY <3>3, <4>1 DEF Taken
      <4>3. ~ Inserting(p, req[p].number)'
        BY <3>3, <4>1 DEF Inserting
      <4> QED
        BY <4>2, <4>3
    <3> QED
      BY <3>4, <3>5 DEF Numbering
  <2> QED
    BY <2>1, <2>2, <2>3, <2>4
<1>2. CASE UNCHANGED vars
  BY <1>2 DEF vars, Numbering, UniqueNumber, Taken, Inserting
<1> QED
  BY <1>1, <1>2

\* However many creations of a number run at once, and whatever fails, at
\* most one account has it (accounts_service.py:35 and the unique constraint).
THEOREM UniqueNumberCorrect == Spec => []UniqueNumber
<1>1. Numbering => UniqueNumber
  BY DEF Numbering
<1> QED
  BY <1>1, NumberingInit, NumberingStep, TypesKept, PTL DEF Spec

----------------------------------------------------------------------------
(* Every change has its row in the log.                                    *)

LEMMA UnbornInit == Init => Unborn
BY AccountsAssumption DEF Init, Unborn, Ids

LEMMA UnbornStep ==
  ASSUME TypeInv, Unborn, [Next]_vars
  PROVE  Unborn'
<1>1. CASE Next
  <2>1. PICK q \in Requests :
           \/ \E r : Becomes(q, r)
           \/ \E row, entry, r : Creates(q, row, entry, r)
           \/ \E a \in Ids : \E row, entry, r : Patches(q, a, row, entry, r)
    BY <1>1, NextCases
  <2>a. /\ req \in [Requests -> Request] /\ account \in [Ids -> Rows \cup {None}]
        /\ Requests \subseteq Ids /\ None \notin Rows
    BY NoneIsNoRow DEF TypeInv, TableOK, CallsOK, Ids
  <2>2. CASE \E r : Becomes(q, r)
    BY <2>a, <2>2 DEF Unborn, Becomes
  <2>3. CASE \E row, entry, r : Creates(q, row, entry, r)
    BY <2>a, <2>3 DEF Unborn, Creates
  <2>4. CASE \E a \in Ids : \E row, entry, r : Patches(q, a, row, entry, r)
    <3>1. PICK a \in Ids : \E row, entry, r : Patches(q, a, row, entry, r)
      BY <2>4
    <3>2. PICK row, entry, r : Patches(q, a, row, entry, r)
      BY <3>1
    <3>3. \A b \in Ids : account'[b] = None <=> account[b] = None
      BY <2>a, <3>2 DEF Patches
    <3>4. account[q] = None /\ \A p \in Requests \ {q} : req'[p] = req[p]
      BY <2>a, <3>2 DEF Patches, Unborn
    <3> QED
      BY <2>a, <3>3, <3>4 DEF Unborn
  <2> QED
    BY <2>1, <2>2, <2>3, <2>4
<1>2. CASE UNCHANGED vars
  BY <1>2 DEF vars, Unborn
<1> QED
  BY <1>1, <1>2

Trailed ==
  /\ SubSeq(audit', 1, Len(audit)) = audit
  /\ \A a \in Ids : account[a] # None => \A c \in DOMAIN account[a] :
       account'[a][c] # account[a][c] =>
         /\ Len(audit') = Len(audit) + 1
         /\ audit'[Len(audit')].account = a /\ c \in DOMAIN audit'[Len(audit')].new

LEMMA LogGrows ==
  ASSUME NEW log \in Seq(AuditRow), NEW entry \in AuditRow
  PROVE  /\ SubSeq(log, 1, Len(log)) = log
         /\ SubSeq(Append(log, entry), 1, Len(log)) = log
         /\ Len(Append(log, entry)) = Len(log) + 1
         /\ Append(log, entry)[Len(log) + 1] = entry
OBVIOUS

LEMMA StepTrailed ==
  ASSUME TypeInv, Unborn, [Next]_vars
  PROVE  Trailed
<1>a. audit \in Seq(AuditRow) /\ account \in [Ids -> Rows \cup {None}]
  BY DEF TypeInv, LogOK, TableOK
<1>1. CASE Next
  <2>1. PICK q \in Requests :
           \/ \E r : Becomes(q, r)
           \/ \E row, entry, r : Creates(q, row, entry, r)
           \/ \E a \in Ids : \E row, entry, r : Patches(q, a, row, entry, r)
    BY <1>1, NextCases
  <2>2. CASE \E r : Becomes(q, r)
    BY <1>a, <2>2, LogGrows DEF Trailed, Becomes
  <2>3. CASE \E row, entry, r : Creates(q, row, entry, r)
    <3>1. PICK row, entry, r : Creates(q, row, entry, r)
      BY <2>3
    <3>2. account[q] = None /\ \A a \in Ids \ {q} : account'[a] = account[a]
      BY <1>a, <3>1 DEF Unborn, Creates
    <3>3. SubSeq(audit', 1, Len(audit)) = audit
      BY <1>a, <3>1, LogGrows DEF Creates
    <3> QED
      BY <3>2, <3>3 DEF Trailed
  <2>4. CASE \E a \in Ids : \E row, entry, r : Patches(q, a, row, entry, r)
    <3>1. PICK a \in Ids : \E row, entry, r : Patches(q, a, row, entry, r)
      BY <2>4
    <3>2. PICK row, entry, r : Patches(q, a, row, entry, r)
      BY <3>1
    <3>3. /\ SubSeq(audit', 1, Len(audit)) = audit /\ Len(audit') = Len(audit) + 1
          /\ audit'[Len(audit')] = entry
      BY <1>a, <3>2, LogGrows DEF Patches
    <3>4. \A b \in Ids : account'[b] = IF b = a THEN row ELSE account[b]
      BY <1>a, <3>2 DEF Patches
    <3>5. \A c \in DOMAIN account[a] : account'[a][c] # account[a][c] => c \in DOMAIN entry.new
      BY <3>2, <3>4 DEF Patches
    <3> QED
      BY <3>2, <3>3, <3>4, <3>5 DEF Trailed, Patches
  <2> QED
    BY <2>1, <2>2, <2>3, <2>4
<1>2. CASE UNCHANGED vars
  BY <1>a, <1>2, LogGrows DEF Trailed, vars
<1> QED
  BY <1>1, <1>2

\* No PATCH undoes another silently: a column changes only with the row of
\* the log that names it, and the log only grows (accounts_service.py:63-129,
\* trigger trg_audit_log_append_only).
THEOREM ChangesAreTrailedCorrect == Spec => ChangesAreTrailed
<1>1. TypeInv /\ Unborn /\ [Next]_vars => [Trailed]_vars
  BY StepTrailed
<1> QED
  BY <1>1, UnbornInit, UnbornStep, TypesKept, PTL DEF Spec, ChangesAreTrailed, Trailed
----------------------------------------------------------------------------
(* The log explains the table.                                             *)

\* The rows of a log that name a column of an account, and the value the last
\* of them gives, if the account was created with b.
Naming(a, c, log) == {i \in DOMAIN log : log[i].account = a /\ c \in DOMAIN log[i].new}
ValueFrom(b, a, c, log) ==
  IF Naming(a, c, log) = {} THEN b ELSE log[Max(Naming(a, c, log))].new[c]

\* What every account is created with does not depend on the state.
Born(a, c) == IF a \in DOMAIN Seed THEN Seed[a][c] ELSE NewRow(None, None)[c]

LEMMA BirthIsBorn ==
  ASSUME NEW a \in Ids, NEW c \in Columns
  PROVE  Birth(a)[c] = Born(a, c)
BY DEF Birth, Born, NewRow, Columns

LEMMA TrailValueIs ==
  ASSUME NEW a \in Ids, NEW c \in Columns, NEW log
  PROVE  TrailValue(a, c, log) = ValueFrom(Born(a, c), a, c, log)
BY BirthIsBorn DEF TrailValue, ValueFrom, Naming

\* One of the rows that name a column is the last.
Ends(log) == \A a \in Ids, c \in Columns :
  Naming(a, c, log) # {} =>
    \E m \in Naming(a, c, log) : \A i \in Naming(a, c, log) : m >= i

Replayed == \A a \in Ids, c \in Columns :
  account[a] # None /\ (c = "status" => a \notin stale) =>
    account[a][c] = ValueFrom(Born(a, c), a, c, audit)

TruthfulOld == \A i \in DOMAIN audit : audit[i].account \notin stale =>
  \A c \in DOMAIN audit[i].old :
    /\ c \in Columns
    /\ audit[i].old[c] = ValueFrom(Born(audit[i].account, c), audit[i].account, c,
                                   SubSeq(audit, 1, i - 1))

TrailInv == Ends(audit) /\ Replayed /\ TruthfulOld

LEMMA NamingAppend ==
  ASSUME NEW log \in Seq(AuditRow), NEW e \in AuditRow, NEW a, NEW c
  PROVE  Naming(a, c, Append(log, e)) =
           IF e.account = a /\ c \in DOMAIN e.new
           THEN Naming(a, c, log) \cup {Len(log) + 1} ELSE Naming(a, c, log)
<1> DEFINE n == Len(log)
           new == Append(log, e)
<1>1. /\ n \in Nat /\ DOMAIN log = 1..n /\ DOMAIN new = 1..(n + 1)
      /\ new[n + 1] = e /\ \A i \in 1..n : new[i] = log[i]
  OBVIOUS
<1> HIDE DEF n, new
<1>2. DOMAIN new = DOMAIN log \cup {n + 1} /\ n + 1 \notin DOMAIN log
  BY <1>1
<1>3. \A i \in DOMAIN log : new[i] = log[i]
  BY <1>1
<1> QED
  BY <1>1, <1>2, <1>3 DEF Naming, n, new

LEMMA ValueAppend ==
  ASSUME NEW log \in Seq(AuditRow), NEW e \in AuditRow, Ends(log),
         NEW a \in Ids, NEW c \in Columns, NEW b
  PROVE  ValueFrom(b, a, c, Append(log, e)) =
           IF e.account = a /\ c \in DOMAIN e.new THEN e.new[c] ELSE ValueFrom(b, a, c, log)
<1> DEFINE n == Len(log)
           new == Append(log, e)
           S == Naming(a, c, log)
           T == Naming(a, c, new)
<1>1. /\ n \in Nat /\ S \subseteq 1..n /\ new[n + 1] = e /\ \A i \in 1..n : new[i] = log[i]
  BY DEF Naming
<1>2. T = IF e.account = a /\ c \in DOMAIN e.new THEN S \cup {n + 1} ELSE S
  BY NamingAppend
<1>3. S # {} => \E m \in S : \A i \in S : m >= i
  BY DEF Ends
<1> HIDE DEF n, new, S, T
<1>4. CASE e.account = a /\ c \in DOMAIN e.new
  <2>1. n + 1 \in T /\ \A i \in T : n + 1 >= i
    BY <1>1, <1>2, <1>4
  <2>2. Max(T) = n + 1
    <3>1. \A m \in T : (\A i \in T : m >= i) => m = n + 1
      BY <1>1, <1>2, <2>1
    <3> QED
      BY <2>1, <3>1 DEF Max
  <2> QED
    BY <1>1, <1>4, <2>1, <2>2 DEF ValueFrom, T, new
<1>5. CASE ~ (e.account = a /\ c \in DOMAIN e.new)
  <2>1. T = S
    BY <1>2, <1>5
  <2>2. CASE S = {}
    BY <1>5, <2>1, <2>2 DEF ValueFrom, S, T, new
  <2>3. CASE S # {}
    <3>1. Max(S) \in S
      BY <1>3, <2>3 DEF Max
    <3>2. new[Max(S)] = log[Max(S)]
      BY <1>1, <3>1
    <3> QED
      BY <1>5, <2>1, <2>3, <3>2 DEF ValueFrom, S, T, new
  <2> QED
    BY <2>2, <2>3
<1> QED
  BY <1>4, <1>5

LEMMA EndsAppend ==
  ASSUME NEW log \in Seq(AuditRow), NEW e \in AuditRow, Ends(log)
  PROVE  Ends(Append(log, e))
<1> SUFFICES ASSUME NEW a \in Ids, NEW c \in Columns, Naming(a, c, Append(log, e)) # {}
             PROVE  \E m \in Naming(a, c, Append(log, e)) :
                      \A i \in Naming(a, c, Append(log, e)) : m >= i
  BY DEF Ends
<1>1. Len(log) \in Nat /\ Naming(a, c, log) \subseteq 1..Len(log)
  BY DEF Naming
<1>2. CASE e.account = a /\ c \in DOMAIN e.new
  <2>1. \A i \in Naming(a, c, log) \cup {Len(log) + 1} : Len(log) + 1 >= i
    BY <1>1
  <2> QED
    BY <1>2, <2>1, NamingAppend
<1>3. CASE ~ (e.account = a /\ c \in DOMAIN e.new)
  BY <1>3, NamingAppend DEF Ends
<1> QED
  BY <1>2, <1>3

\* What was read off a part of the log is still read off it.
LEMMA Prefixes ==
  ASSUME NEW log \in Seq(AuditRow), NEW e \in AuditRow
  PROVE  /\ DOMAIN Append(log, e) = DOMAIN log \cup {Len(log) + 1}
         /\ \A i \in DOMAIN log : /\ Append(log, e)[i] = log[i]
                                  /\ SubSeq(Append(log, e), 1, i - 1) = SubSeq(log, 1, i - 1)
         /\ Append(log, e)[Len(log) + 1] = e
         /\ SubSeq(Append(log, e), 1, (Len(log) + 1) - 1) = log
<1> DEFINE n == Len(log)
           new == Append(log, e)
<1>1. /\ n \in Nat /\ DOMAIN log = 1..n /\ DOMAIN new = 1..(n + 1)
      /\ new[n + 1] = e /\ \A i \in 1..n : new[i] = log[i]
  OBVIOUS
<1>2. DOMAIN new = DOMAIN log \cup {n + 1}
  BY <1>1
<1>3. ASSUME NEW i \in DOMAIN log
      PROVE  SubSeq(new, 1, i - 1) = SubSeq(log, 1, i - 1)
  <2>1. \A j \in 1..(i - 1) : new[j] = log[j]
    BY <1>1
  <2> QED
    BY <1>1, <2>1
<1>4. SubSeq(new, 1, (n + 1) - 1) = log
  <2>1. (n + 1) - 1 = n
    BY <1>1
  <2> QED
    BY <2>1, LogGrows
<1> QED
  BY <1>1, <1>2, <1>3, <1>4
\* A commit with a faithful row of the log keeps the log and the table in step.
LEMMA CommitExplained ==
  ASSUME TypeInv, TrailInv, NEW a \in Ids, NEW row \in Rows, NEW entry \in AuditRow,
         entry.account = a, account[a] \in Rows, Faithful(a, row, entry),
         account' = [account EXCEPT ![a] = row], audit' = Append(audit, entry),
         stale \subseteq stale'
  PROVE  TrailInv'
<1>1. audit \in Seq(AuditRow) /\ Ends(audit) /\ account \in [Ids -> Rows \cup {None}]
  BY DEF TypeInv, LogOK, TableOK, TrailInv
<1>2. \A b \in Ids : account'[b] = IF b = a THEN row ELSE account[b]
  BY <1>1
<1>3. Ends(audit)'
  BY <1>1, EndsAppend DEF Ends
<1>4. Replayed'
  <2> SUFFICES ASSUME NEW b \in Ids, NEW c \in Columns, account'[b] # None,
                      c = "status" => b \notin stale'
               PROVE  account'[b][c] = ValueFrom(Born(b, c), b, c, audit')
    BY DEF Replayed
  <2>1. ValueFrom(Born(b, c), b, c, audit') =
          IF entry.account = b /\ c \in DOMAIN entry.new
          THEN entry.new[c] ELSE ValueFrom(Born(b, c), b, c, audit)
    BY <1>1, ValueAppend
  <2>2. account[b] # None => account[b][c] = ValueFrom(Born(b, c), b, c, audit)
    BY DEF TrailInv, Replayed
  <2>3. CASE b = a /\ c \in DOMAIN entry.new
    BY <1>2, <2>1, <2>3 DEF Faithful
  <2>4. CASE b = a /\ c \notin DOMAIN entry.new
    BY <1>2, <2>1, <2>2, <2>4, NoneIsNoRow DEF Faithful
  <2>5. CASE b # a
    BY <1>2, <2>1, <2>2, <2>5
  <2> QED
    BY <2>3, <2>4, <2>5
<1>5. TruthfulOld'
  <2> SUFFICES ASSUME NEW i \in DOMAIN audit', audit'[i].account \notin stale',
                      NEW c \in DOMAIN audit'[i].old
               PROVE  /\ c \in Columns
                      /\ audit'[i].old[c] = ValueFrom(Born(audit'[i].account, c),
                           audit'[i].account, c, SubSeq(audit', 1, i - 1))
    BY DEF TruthfulOld
  <2>1. CASE i \in DOMAIN audit
    <3>1. audit'[i] = audit[i] /\ SubSeq(audit', 1, i - 1) = SubSeq(audit, 1, i - 1)
      BY <1>1, <2>1, Prefixes
    <3>2. audit[i].account \notin stale /\ c \in DOMAIN audit[i].old
      BY <3>1
    <3>3. /\ c \in Columns
          /\ audit[i].old[c] = ValueFrom(Born(audit[i].account, c), audit[i].account, c,
                                         SubSeq(audit, 1, i - 1))
      BY <2>1, <3>2 DEF TrailInv, TruthfulOld
    <3> QED
      BY <3>1, <3>3
  <2>2. CASE i = Len(audit) + 1
    <3>1. audit'[i] = entry /\ SubSeq(audit', 1, i - 1) = audit
      BY <1>1, <2>2, Prefixes
    <3>2. c \in Columns \ {"status"} /\ entry.old[c] = account[a][c]
      BY <3>1 DEF Faithful
    <3>3. account[a][c] = ValueFrom(Born(a, c), a, c, audit)
      BY <3>2, NoneIsNoRow DEF TrailInv, Replayed
    <3> QED
      BY <3>1, <3>2, <3>3
  <2> QED
    BY <1>1, <2>1, <2>2, Prefixes
<1> QED
  BY <1>3, <1>4, <1>5 DEF TrailInv

\* The log says nothing of an account that does not exist yet.
LEMMA CreationExplained ==
  ASSUME TypeInv, TrailInv, NEW q \in Requests, NEW row, NEW entry, NEW r,
         account[q] = None, Creates(q, row, entry, r)
  PROVE  TrailInv'
<1>1. /\ audit \in Seq(AuditRow) /\ Ends(audit) /\ account \in [Ids -> Rows \cup {None}]
      /\ q \in Ids /\ q \notin DOMAIN Seed
  BY AccountsAssumption DEF TypeInv, LogOK, TableOK, TrailInv, Ids
<1>2. \A b \in Ids : account'[b] = IF b = q THEN row ELSE account[b]
  BY <1>1 DEF Creates
<1>3. /\ entry \in AuditRow /\ DOMAIN entry.new = {} /\ DOMAIN entry.old = {}
      /\ audit' = audit \/ audit' = Append(audit, entry)
      /\ stale' = stale
  BY DEF Creates
<1>4. Ends(audit)'
  <2>1. CASE audit' = audit
    BY <1>1, <2>1
  <2>2. CASE audit' = Append(audit, entry)
    BY <1>1, <1>3, <2>2, EndsAppend
  <2> QED
    BY <1>3, <2>1, <2>2
<1>5. ASSUME NEW b \in Ids, NEW c \in Columns
      PROVE  ValueFrom(Born(b, c), b, c, audit') = ValueFrom(Born(b, c), b, c, audit)
  <2>1. CASE audit' = audit
    BY <2>1
  <2>2. CASE audit' = Append(audit, entry)
    BY <1>1, <1>3, <2>2, ValueAppend
  <2> QED
    BY <1>3, <2>1, <2>2
<1>6. Replayed'
  <2> SUFFICES ASSUME NEW b \in Ids, NEW c \in Columns, account'[b] # None,
                      c = "status" => b \notin stale'
               PROVE  account'[b][c] = ValueFrom(Born(b, c), b, c, audit')
    BY DEF Replayed
  <2>1. CASE b = q
    <3>1. Naming(q, c, audit) = {}
      BY NoneIsNoRow DEF TypeInv, LogOK, Naming
    <3>2. row[c] = Born(q, c)
      BY <1>1 DEF Creates, Born, NewRow, Columns
    <3> QED
      BY <1>2, <1>5, <2>1, <3>1, <3>2 DEF ValueFrom
  <2>2. CASE b # q
    BY <1>2, <1>3, <1>5, <2>2 DEF TrailInv, Replayed
  <2> QED
    BY <2>1, <2>2
<1>7. TruthfulOld'
  <2>1. CASE audit' = audit
    BY <1>3, <2>1 DEF TrailInv, TruthfulOld
  <2>2. CASE audit' = Append(audit, entry)
    <3> SUFFICES ASSUME NEW i \in DOMAIN audit', audit'[i].account \notin stale',
                        NEW c \in DOMAIN audit'[i].old
                 PROVE  /\ c \in Columns
                        /\ audit'[i].old[c] = ValueFrom(Born(audit'[i].account, c),
                             audit'[i].account, c, SubSeq(audit', 1, i - 1))
      BY DEF TruthfulOld
    <3>1. i \in DOMAIN audit
      BY <1>1, <1>3, <2>2, Prefixes
    <3>2. audit'[i] = audit[i] /\ SubSeq(audit', 1, i - 1) = SubSeq(audit, 1, i - 1)
      BY <1>1, <1>3, <2>2, <3>1, Prefixes
    <3>3. audit[i].account \notin stale /\ c \in DOMAIN audit[i].old
      BY <1>3, <3>2
    <3>4. /\ c \in Columns
          /\ audit[i].old[c] = ValueFrom(Born(audit[i].account, c), audit[i].account, c,
                                         SubSeq(audit, 1, i - 1))
      BY <3>1, <3>3 DEF TrailInv, TruthfulOld
    <3> QED
      BY <3>2, <3>4
  <2> QED
    BY <1>3, <2>1, <2>2
<1> QED
  BY <1>4, <1>6, <1>7 DEF TrailInv

LEMMA TrailInit == Init => TrailInv
<1> SUFFICES ASSUME Init PROVE TrailInv
  OBVIOUS
<1>1. DOMAIN audit = {}
  BY DEF Init
<1>2. \A a, c : Naming(a, c, audit) = {}
  BY <1>1 DEF Naming
<1>3. \A a \in Ids, c \in Columns : account[a] # None => account[a][c] = Born(a, c)
  BY DEF Init, Born
<1> QED
  BY <1>1, <1>2, <1>3 DEF TrailInv, Ends, Replayed, TruthfulOld, ValueFrom

LEMMA TrailStep ==
  ASSUME TypeInv, Unborn, TrailInv, [Next]_vars
  PROVE  TrailInv'
<1>1. CASE Next
  <2>1. PICK q \in Requests :
           \/ \E r : Becomes(q, r)
           \/ \E row, entry, r : Creates(q, row, entry, r)
           \/ \E a \in Ids : \E row, entry, r : Patches(q, a, row, entry, r)
    BY <1>1, NextCases
  <2>2. CASE \E r : Becomes(q, r)
    <3>1. UNCHANGED <<account, audit, stale>>
      BY <2>2 DEF Becomes
    <3> QED
      BY <3>1 DEF TrailInv, Ends, Replayed, TruthfulOld
  <2>3. CASE \E row, entry, r : Creates(q, row, entry, r)
    <3>1. PICK row, entry, r : Creates(q, row, entry, r)
      BY <2>3
    <3>2. account[q] = None
      BY <3>1 DEF Creates, Unborn
    <3> QED
      BY <3>1, <3>2, CreationExplained
  <2>4. CASE \E a \in Ids : \E row, entry, r : Patches(q, a, row, entry, r)
    <3>1. PICK a \in Ids : \E row, entry, r : Patches(q, a, row, entry, r)
      BY <2>4
    <3>2. PICK row, entry, r : Patches(q, a, row, entry, r)
      BY <3>1
    <3> QED
      BY <3>2, CommitExplained DEF Patches
  <2> QED
    BY <2>1, <2>2, <2>3, <2>4
<1>2. CASE UNCHANGED vars
  <2>1. UNCHANGED <<account, audit, stale>>
    BY <1>2 DEF vars
  <2> QED
    BY <2>1 DEF TrailInv, Ends, Replayed, TruthfulOld
<1> QED
  BY <1>1, <1>2

\* The log replayed gives the table, and tells the truth about what it names
\* as old, for any calls and any overlap, except for what a PATCH wrote from a
\* copy another call had made out of date (accounts_service.py:63-129).
THEOREM TrailReplaysCorrect == Spec => []TrailReplays
<1>1. TypeInv /\ TrailInv => TrailReplays
  <2> SUFFICES ASSUME TypeInv, TrailInv PROVE TrailReplays
    OBVIOUS
  <2>1. ASSUME NEW a \in Ids, NEW c \in Columns, account[a] # None,
               c = "status" => a \notin stale
        PROVE  account[a][c] = TrailValue(a, c, audit)
    BY <2>1, TrailValueIs DEF TrailInv, Replayed
  <2>2. ASSUME NEW i \in DOMAIN audit, audit[i].account \notin stale,
               NEW c \in DOMAIN audit[i].old
        PROVE  audit[i].old[c] = TrailValue(audit[i].account, c, SubSeq(audit, 1, i - 1))
    <3>1. audit[i].account \in Ids
      <4>1. audit \in Seq(AuditRow)
        BY DEF TypeInv, LogOK
      <4>2. audit[i] \in AuditRow
        BY <2>2, <4>1
      <4> QED
        BY <4>2 DEF AuditRow
    <3>2. /\ c \in Columns
          /\ audit[i].old[c] = ValueFrom(Born(audit[i].account, c), audit[i].account, c,
                                         SubSeq(audit, 1, i - 1))
      BY <2>2 DEF TrailInv, TruthfulOld
    <3> QED
      BY <3>1, <3>2, TrailValueIs
  <2> QED
    BY <2>1, <2>2 DEF TrailReplays
<1> QED
  BY <1>1, TrailInit, TrailStep, UnbornInit, UnbornStep, TypesKept, PTL DEF Spec
----------------------------------------------------------------------------
(* What the caller is told.                                                *)

\* What a call has done, by where it is: whether it has created an account,
\* and its rows of the log that tell of a creation, an update and a status.
Told(r, created, updates, statuses) ==
  /\ r.code \in {401, 403, 404, 409, 422} => ~ created /\ updates = 0 /\ statuses = 0
  /\ r.code = 201 => created
  /\ r.code = 200 /\ "status" \in DOMAIN r.payload => statuses = 1
  /\ r.code = 200 /\ "status" \notin DOMAIN r.payload =>
       /\ statuses = 0
       /\ updates = IF Changed(r.copy, r.payload) = {} THEN 0 ELSE 1

Fits(r, created, creations, updates, statuses) ==
  /\ creations = IF created /\ r.kind # "script" THEN 1 ELSE 0
  /\ r.at \notin {"finished", "done"} => ~ created
  /\ r.at \in {"idle", "authorised", "free", "inserted", "loaded"} => updates = 0
  /\ r.at \notin {"finished", "done"} => statuses = 0
  /\ r.at \in {"free", "inserted"} => r.kind \in {"create", "script"}
  /\ r.at = "committed" => updates = 1 /\ Changed(r.copy, r.payload) # {}
  /\ r.at = "finished" =>
       IF r.kind = "patch" THEN statuses = 1 /\ "status" \in DOMAIN r.payload ELSE created
  /\ r.at = "done" => Told(r, created, updates, statuses)

AnswersOf(q) == Fits(req[q], account[q] # None, RowsBy(q, "create"), RowsBy(q, "update"),
                     RowsBy(q, "status_change"))
AnswersInv == \A q \in Requests : AnswersOf(q)

LEMMA LightFits ==
  ASSUME TypeInv, NEW q \in Requests, Light(q), NEW created \in BOOLEAN,
         NEW creations, NEW updates, NEW statuses,
         Fits(req[q], created, creations, updates, statuses)
  PROVE  Fits(req'[q], created, creations, updates, statuses)
<1> DEFINE now == req[q]
<1>0. now \in Request /\ Doing(now) /\ req \in [Requests -> Request]
  BY DEF TypeInv, CallsOK
<1>a. \A code \in {200, 201, 401, 403, 404, 409, 422, 500} : code \in Codes
  BY DEF Codes
<1>1. ASSUME NEW code \in {200, 201, 401, 403, 404, 409, 422, 500}, Answer(q, code),
             Told(Ended(now, code), created, updates, statuses)
      PROVE  Fits(req'[q], created, creations, updates, statuses)
  <2>1. req'[q] = Ended(now, code)
    BY <1>0, <1>1, AnswerEnds
  <2>2. Ended(now, code).at = "done" /\ Ended(now, code).kind = now.kind
    <3>1. code \in Codes
      BY <1>a
    <3> QED
      BY <1>0, <3>1, EndedTyped
  <2> QED
    BY <1>1, <2>1, <2>2 DEF Fits
<1>2. ASSUME NEW code \in {200, 201, 401, 403, 404, 409, 422, 500},
             code \in {401, 403, 404, 409, 422} => ~ created /\ updates = 0 /\ statuses = 0,
             code = 201 => created,
             code = 200 /\ "status" \in DOMAIN now.payload => statuses = 1,
             code = 200 /\ "status" \notin DOMAIN now.payload =>
               statuses = 0 /\ updates = IF Changed(now.copy, now.payload) = {} THEN 0 ELSE 1
      PROVE  Told(Ended(now, code), created, updates, statuses)
  <2>1. /\ Ended(now, code).code = code /\ Ended(now, code).payload = now.payload
        /\ Ended(now, code).copy = now.copy
    <3>1. code \in Codes
      BY <1>a
    <3> QED
      BY <1>0, <3>1, EndedTyped
  <2> QED
    BY <1>2, <2>1 DEF Told
<1>3. CASE Arrives(q)
  <2>1. /\ now = Idle /\ ~ created /\ updates = 0 /\ statuses = 0 /\ creations = 0
    <3>1. now = Idle
      BY <1>3 DEF Arrives, CallCreate, CallPatch, RunScript, Authenticate
    <3>2. now.at = "idle"
      BY <3>1 DEF Idle
    <3> QED
      BY <3>1, <3>2 DEF Fits
  <2>2. ASSUME NEW r, req'[q] = r, r.at = "authorised"
        PROVE  Fits(r, created, creations, updates, statuses)
    BY <2>1, <2>2 DEF Fits
  <2>3. ASSUME NEW call \in Request, NEW actor, Authenticate(q, actor, call), call.at = "authorised"
        PROVE  Fits(req'[q], created, creations, updates, statuses)
    <3>1. req'[q] \in {call, Ended(call, 401), Ended(call, 403)}
      BY <1>0, <2>3, AuthStep
    <3>2. ASSUME NEW code \in {401, 403}
          PROVE  Fits(Ended(call, code), created, creations, updates, statuses)
      <4>1. Ended(call, code).at = "done" /\ Ended(call, code).code = code
        <5>1. code \in Codes
          BY DEF Codes
        <5> QED
          BY <2>3, <5>1, EndedTyped
      <4> QED
        BY <2>1, <4>1 DEF Fits, Told
    <3>3. Fits(call, created, creations, updates, statuses)
      BY <2>1, <2>3 DEF Fits
    <3> QED
      BY <3>1, <3>2, <3>3
  <2>4. ASSUME NEW actor \in Ids, NEW n \in Numbers \cup {BadNumber}, NEW role \in Roles,
               CallCreate(q, actor, n, role)
        PROVE  Fits(req'[q], created, creations, updates, statuses)
    <3>1. Authenticate(q, actor, Asked("create", n, role))
      BY <2>4 DEF CallCreate, Asked
    <3> QED
      BY <2>3, <3>1, AskedTyped
  <2>5. ASSUME NEW actor \in Ids, NEW a \in Ids, NEW p \in Payloads, CallPatch(q, actor, a, p)
        PROVE  Fits(req'[q], created, creations, updates, statuses)
    <3>1. Authenticate(q, actor, Patching(a, p, Held(a, actor)))
      BY <2>5 DEF CallPatch, Patching
    <3>2. Held(a, actor) \in Rows \cup {None}
      BY DEF Held, TypeInv, TableOK
    <3> QED
      BY <2>3, <3>1, <3>2, PatchingTyped
  <2>6. ASSUME NEW n \in Numbers, RunScript(q, n)
        PROVE  Fits(req'[q], created, creations, updates, statuses)
    <3>1. req'[q] = Asked("script", n, "SUPER_ADMIN")
      BY <1>0, <2>6 DEF RunScript, Asked
    <3>2. req'[q].at = "authorised"
      BY <3>1, AskedTyped
    <3> QED
      BY <2>2, <3>2
  <2> QED
    BY <1>3, <2>4, <2>5, <2>6 DEF Arrives
<1>4. CASE LookUp(q)
  <2>1. /\ now.at = "authorised" /\ now.kind \in {"create", "script"}
        /\ ~ created /\ updates = 0 /\ statuses = 0
    BY <1>4 DEF LookUp, Fits
  <2>2. CASE Answer(q, 422) \/ Answer(q, 409)
    BY <1>1, <1>2, <2>1, <2>2
  <2>3. CASE req' = [req EXCEPT ![q].at = "free"]
    <3>1. req'[q].at = "free" /\ req'[q].kind = now.kind
      BY <1>0, <2>3 DEF Request
    <3> QED
      BY <2>1, <3>1 DEF Fits
  <2> QED
    BY <1>4, <2>2, <2>3 DEF LookUp
<1>5. CASE Insert(q)
  <2>1. now.at = "free"
    BY <1>5 DEF Insert
  <2>2. CASE Answer(q, 500)
    BY <1>1, <1>2, <2>2
  <2>3. CASE req' = [req EXCEPT ![q].at = "inserted"]
    <3>1. req'[q].at = "inserted" /\ req'[q].kind = now.kind
      BY <1>0, <2>3 DEF Request
    <3> QED
      BY <2>1, <3>1 DEF Fits
  <2> QED
    BY <1>5, <2>2, <2>3 DEF Insert
<1>6. CASE Load(q)
  <2>1. now.at = "authorised" /\ now.kind = "patch" /\ ~ created /\ updates = 0 /\ statuses = 0
    BY <1>6 DEF Load, Fits
  <2>2. CASE Answer(q, 404)
    BY <1>1, <1>2, <2>1, <2>2
  <2>3. CASE \E copy : req' = [req EXCEPT ![q].at = "loaded", ![q].copy = copy]
    <3>1. req'[q].at = "loaded" /\ req'[q].kind = now.kind
      BY <1>0, <2>3 DEF Request
    <3> QED
      BY <2>1, <3>1 DEF Fits
  <2> QED
    BY <1>6, <2>2, <2>3 DEF Load
<1>7. CASE NothingToUpdate(q)
  <2>1. /\ now.at = "loaded" /\ updates = 0 /\ statuses = 0
        /\ Changed(now.copy, now.payload) = {}
    BY <1>7 DEF NothingToUpdate, Fits
  <2>2. CASE Answer(q, 200) /\ "status" \notin DOMAIN now.payload
    BY <1>1, <1>2, <2>1, <2>2
  <2>3. CASE req' = [req EXCEPT ![q].at = "updated"]
    <3>1. req'[q].at = "updated" /\ req'[q].kind = now.kind
      BY <1>0, <2>3 DEF Request
    <3> QED
      BY <2>1, <3>1 DEF Fits
  <2> QED
    BY <1>7, <2>2, <2>3 DEF NothingToUpdate
<1>8. CASE RefreshCopy(q)
  <2>1. /\ now.at = "committed" /\ updates = 1 /\ statuses = 0
        /\ Changed(now.copy, now.payload) # {}
    BY <1>8 DEF RefreshCopy, Fits
  <2>2. CASE Answer(q, 200) /\ "status" \notin DOMAIN now.payload
    BY <1>1, <1>2, <2>1, <2>2
  <2>3. CASE req' = [req EXCEPT ![q].at = "updated", ![q].copy = account[req[q].target]]
    <3>1. req'[q].at = "updated" /\ req'[q].kind = now.kind
      BY <1>0, <2>3 DEF Request
    <3> QED
      BY <2>1, <3>1 DEF Fits
  <2> QED
    BY <1>8, <2>2, <2>3 DEF RefreshCopy
<1>9. CASE Finish(q)
  <2>1. /\ now.at = "finished"
        /\ IF now.kind = "patch" THEN statuses = 1 /\ "status" \in DOMAIN now.payload ELSE created
    BY <1>9 DEF Finish, Fits
  <2>2. CASE now.kind = "patch"
    BY <1>1, <1>2, <1>9, <2>1, <2>2 DEF Finish
  <2>3. CASE now.kind # "patch"
    <3>1. Answer(q, 201)
      BY <1>9, <2>3 DEF Finish
    <3>2. created
      BY <2>1, <2>3
    <3>3. Told(Ended(now, 201), created, updates, statuses)
      <4>1. Ended(now, 201).code = 201
        BY <1>0, <1>a, EndedTyped
      <4> QED
        BY <3>2, <4>1 DEF Told
    <3> QED
      BY <1>1, <3>1, <3>3
  <2> QED
    BY <2>2, <2>3
<1>10. CASE Fail(q)
  BY <1>1, <1>2, <1>10 DEF Fail
<1> QED
  BY <1>3, <1>4, <1>5, <1>6, <1>7, <1>8, <1>9, <1>10 DEF Light
LEMMA RowsByAppend ==
  ASSUME TypeInv, NEW e \in AuditRow, audit' = Append(audit, e), NEW q, NEW action
  PROVE  /\ RowsBy(q, action) \in Nat
         /\ RowsBy(q, action)' = IF e.by = q /\ e.action = action
                                 THEN RowsBy(q, action) + 1 ELSE RowsBy(q, action)
<1> DEFINE Of(log) == {i \in DOMAIN log : log[i].by = q /\ log[i].action = action}
<1>1. audit \in Seq(AuditRow) /\ Len(audit) \in Nat /\ DOMAIN audit = 1..Len(audit)
  BY DEF TypeInv, LogOK
<1>2. IsFiniteSet(Of(audit)) /\ Cardinality(Of(audit)) \in Nat
  <2>1. IsFiniteSet(1..Len(audit))
    BY <1>1, FS_Interval
  <2>2. Of(audit) \subseteq 1..Len(audit)
    BY <1>1
  <2> HIDE DEF Of
  <2> QED
    BY <2>1, <2>2, FS_Subset, FS_CardinalityType
<1>3. /\ DOMAIN audit' = DOMAIN audit \cup {Len(audit) + 1}
      /\ \A i \in DOMAIN audit : audit'[i] = audit[i]
      /\ audit'[Len(audit) + 1] = e /\ Len(audit) + 1 \notin DOMAIN audit
  BY <1>1, Prefixes
<1>4. Of(audit') = IF e.by = q /\ e.action = action
                   THEN Of(audit) \cup {Len(audit) + 1} ELSE Of(audit)
  BY <1>3
<1>5. Len(audit) + 1 \notin Of(audit)
  BY <1>3
<1>6. RowsBy(q, action) = Cardinality(Of(audit)) /\ RowsBy(q, action)' = Cardinality(Of(audit'))
  BY DEF RowsBy
<1> HIDE DEF Of
<1>7. Cardinality(Of(audit) \cup {Len(audit) + 1}) = Cardinality(Of(audit)) + 1
  BY <1>2, <1>5, FS_AddElement
<1> QED
  BY <1>2, <1>4, <1>6, <1>7

\* A commit of another call changes nothing a call's answer depends on.
LEMMA OtherFits ==
  ASSUME NEW p, AnswersOf(p), req'[p] = req[p], account'[p] # None <=> account[p] # None,
         RowsBy(p, "create")' = RowsBy(p, "create"), RowsBy(p, "update")' = RowsBy(p, "update"),
         RowsBy(p, "status_change")' = RowsBy(p, "status_change")
  PROVE  AnswersOf(p)'
BY DEF AnswersOf, Fits, Told

\* A commit adds its own row to the log.
LEMMA CommitFits ==
  ASSUME TypeInv, Unborn, AnswersInv, NEW q \in Requests,
         \/ \E row, entry, r : Creates(q, row, entry, r)
         \/ \E a \in Ids : \E row, entry, r : Patches(q, a, row, entry, r)
  PROVE  AnswersInv'
<1>a. /\ req \in [Requests -> Request] /\ account \in [Ids -> Rows \cup {None}]
      /\ Requests \subseteq Ids
  BY DEF TypeInv, TableOK, CallsOK, Ids
<1>b. \A p \in Requests : AnswersOf(p)
  BY DEF AnswersInv, AnswersOf
<1> SUFFICES \A p \in Requests : AnswersOf(p)'
  BY DEF AnswersInv, AnswersOf
<1>1. CASE \E row, entry, r : Creates(q, row, entry, r)
  <2> PICK row, entry, r : Creates(q, row, entry, r)
    BY <1>1
  <2>1. /\ req'[q] = r /\ \A p \in Requests \ {q} : req'[p] = req[p]
        /\ account'[q] # None /\ \A p \in Requests \ {q} : account'[p] = account[p]
        /\ account[q] = None /\ r.at = "finished" /\ r.kind = req[q].kind
        /\ req[q].at = "inserted"
        /\ entry \in AuditRow /\ entry.by = q /\ entry.action = "create"
        /\ audit' = IF r.kind = "script" THEN audit ELSE Append(audit, entry)
    BY <1>a, NoneIsNoRow DEF Creates, Unborn
  <2>2. RowsBy(q, "create") = 0 /\ r.kind \in {"create", "script"}
    BY <1>b, <2>1 DEF AnswersOf, Fits
  <2>3. CASE r.kind = "script"
    <3>1. \A p, action : RowsBy(p, action)' = RowsBy(p, action)
      BY <2>1, <2>3 DEF RowsBy
    <3>2. AnswersOf(q)'
      BY <2>1, <2>2, <2>3, <3>1 DEF AnswersOf, Fits
    <3> QED
      BY <1>b, <2>1, <3>1, <3>2, OtherFits
  <2>4. CASE r.kind # "script"
    <3>1. /\ \A p \in Requests \ {q} : \A action : RowsBy(p, action)' = RowsBy(p, action)
          /\ RowsBy(q, "create")' = 1 /\ RowsBy(q, "update")' = RowsBy(q, "update")
          /\ RowsBy(q, "status_change")' = RowsBy(q, "status_change")
      BY <2>1, <2>2, <2>4, RowsByAppend
    <3>2. AnswersOf(q)'
      BY <2>1, <2>2, <2>4, <3>1 DEF AnswersOf, Fits
    <3> QED
      BY <1>b, <2>1, <3>1, <3>2, OtherFits
  <2> QED
    BY <2>3, <2>4
<1>2. CASE \E a \in Ids : \E row, entry, r : Patches(q, a, row, entry, r)
  <2> PICK a \in Ids : \E row, entry, r : Patches(q, a, row, entry, r)
    BY <1>2
  <2> PICK row, entry, r : Patches(q, a, row, entry, r)
    OBVIOUS
  <2>1. /\ req'[q] = r /\ \A p \in Requests \ {q} : req'[p] = req[p]
        /\ \A p \in Requests : account'[p] # None <=> account[p] # None
        /\ account[q] = None /\ r.kind = "patch"
        /\ entry \in AuditRow /\ entry.by = q /\ audit' = Append(audit, entry)
        /\ Half(req[q].at, r.at, entry.action, r.copy, r.payload)
    BY <1>a, NoneIsNoRow DEF Patches, Unborn
  <2>2. \A p \in Requests \ {q} : \A action : RowsBy(p, action)' = RowsBy(p, action)
    BY <2>1, RowsByAppend
  <2>3. RowsBy(q, "create") = 0 /\ RowsBy(q, "status_change") = 0
    BY <1>b, <2>1 DEF AnswersOf, Fits, Half
  <2>4. CASE req[q].at = "loaded"
    <3>1. /\ r.at = "committed" /\ entry.action = "update" /\ Changed(r.copy, r.payload) # {}
          /\ RowsBy(q, "update") = 0
      BY <1>b, <2>1, <2>4 DEF Half, AnswersOf, Fits
    <3>2. /\ RowsBy(q, "create")' = 0 /\ RowsBy(q, "update")' = 1
          /\ RowsBy(q, "status_change")' = 0
      BY <2>1, <2>3, <3>1, RowsByAppend
    <3>3. AnswersOf(q)'
      BY <2>1, <3>1, <3>2 DEF AnswersOf, Fits
    <3> QED
      BY <1>b, <2>1, <2>2, <3>3, OtherFits
  <2>5. CASE req[q].at = "updated"
    <3>1. /\ r.at = "finished" /\ entry.action = "status_change"
          /\ "status" \in DOMAIN r.payload
      BY <2>1, <2>5 DEF Half
    <3>2. /\ RowsBy(q, "create")' = 0 /\ RowsBy(q, "update")' = RowsBy(q, "update")
          /\ RowsBy(q, "status_change")' = 1
      BY <2>1, <2>3, <3>1, RowsByAppend
    <3>3. AnswersOf(q)'
      BY <2>1, <3>1, <3>2 DEF AnswersOf, Fits
    <3> QED
      BY <1>b, <2>1, <2>2, <3>3, OtherFits
  <2> QED
    BY <2>1, <2>4, <2>5 DEF Half
<1> QED
  BY <1>1, <1>2

LEMMA AnswersInit == Init => AnswersInv
<1> SUFFICES ASSUME Init, NEW q \in Requests
             PROVE  Fits(req[q], account[q] # None, RowsBy(q, "create"), RowsBy(q, "update"),
                         RowsBy(q, "status_change"))
  BY DEF AnswersInv, AnswersOf
<1>1. account[q] = None /\ req[q] = Idle
  BY AccountsAssumption DEF Init, Ids
<1>2. \A action : RowsBy(q, action) = 0
  <2>1. DOMAIN audit = {}
    BY DEF Init
  <2> QED
    BY <2>1, FS_EmptySet DEF RowsBy
<1>3. Idle.at = "idle"
  BY DEF Idle
<1> QED
  BY <1>1, <1>2, <1>3 DEF Fits

LEMMA AnswersStep ==
  ASSUME TypeInv, Unborn, AnswersInv, [Next]_vars
  PROVE  AnswersInv'
<1>1. CASE Next
  <2>1. PICK q \in Requests : Step(q) \/ Fail(q) \/ Arrives(q)
    BY <1>1 DEF Next, Arrives
  <2>2. CASE Light(q)
    <3>1. PICK r : Becomes(q, r)
      BY <2>2, LightStep
    <3>2. /\ req \in [Requests -> Request] /\ req' = [req EXCEPT ![q] = r]
          /\ UNCHANGED <<account, audit>>
      BY <3>1 DEF Becomes, TypeInv, CallsOK
    <3>3. Fits(req'[q], account[q] # None, RowsBy(q, "create"), RowsBy(q, "update"),
               RowsBy(q, "status_change"))
      BY <2>2, LightFits DEF AnswersInv, AnswersOf
    <3>4. \A p, action : RowsBy(p, action)' = RowsBy(p, action)
      BY <3>2 DEF RowsBy
    <3> QED
      BY <3>2, <3>3, <3>4 DEF AnswersInv, AnswersOf
  <2>3. CASE CommitInsert(q) \/ CommitUpdate(q) \/ CommitStatus(q)
    BY <2>3, CreateStep, PatchStep, CommitFits
  <2> QED
    BY <2>1, <2>2, <2>3, StepCases
<1>2. CASE UNCHANGED vars
  BY <1>2 DEF vars, AnswersInv, AnswersOf, RowsBy
<1> QED
  BY <1>1, <1>2

\* What a caller is told is what was done and traced, for any calls, payloads
\* and failures (accounts_routes.py:22-63, accounts_service.py:28-129): the
\* answer is given after the commits it reports, each in the transaction of its
\* row of the log.
THEOREM AnswerMatchesTrailCorrect == Spec => []AnswerMatchesTrail
<1>1. TypeInv /\ AnswersInv => AnswerMatchesTrail
  <2> SUFFICES ASSUME TypeInv, AnswersInv PROVE AnswerMatchesTrail
    OBVIOUS
  <2>1. ASSUME NEW q \in Requests
        PROVE  Fits(req[q], account[q] # None, RowsBy(q, "create"), RowsBy(q, "update"),
                    RowsBy(q, "status_change"))
    BY DEF AnswersInv, AnswersOf
  <2> QED
    BY <2>1 DEF AnswerMatchesTrail, Fits, Told
<1> QED
  BY <1>1, AnswersInit, AnswersStep, UnbornInit, UnbornStep, TypesKept, PTL DEF Spec
=============================================================================

---------------------------- MODULE LoginLockout ----------------------------
(***************************************************************************)
(* AuthService.authenticate: password checks and the lockout of one        *)
(* account, whose row several requests load, change and commit without     *)
(* locking it.  SQLAlchemy writes only the columns whose value differs     *)
(* from the loaded one.                                                    *)
(***************************************************************************)
EXTENDS Integers, FiniteSets

CONSTANTS
  Requests,        \* concurrent POST /auth/login for the account's number
  MaxAttempts,     \* max_login_attempts (5)
  LockTime,        \* account_lock_minutes (15), in ticks
  MaxStatusEdits,  \* bound: suspensions and reactivations
  MaxClock         \* bound: the clock stops there

ASSUME ConstantsAssumption ==
  /\ MaxAttempts \in Nat \ {0} /\ LockTime \in Nat \ {0}
  /\ MaxStatusEdits \in Nat /\ MaxClock \in Nat

VARIABLES
  clock,
  account,      \* the row: status, failed_login_attempts, locked_until
  requests,     \* per request: the row it loaded, and what it will write
  wrong,        \* history: wrong passwords committed since the last lock or login
  lock,         \* history: last lock set, and since when
  early,        \* history: what each login that removed a running lock knew
  overlapped,   \* history: two requests have been in progress at once
  statusEdits

vars == <<clock, account, requests, wrong, lock, early, overlapped, statusEdits>>

----------------------------------------------------------------------------
NotLocked == 0     \* locked_until = NULL
Idle == [pc |-> "idle", at |-> 0, status |-> "ACTIVE", failed |-> 0, until |-> 0,
         newFailed |-> 0, newUntil |-> 0]
InLock(until) == until > clock

Answered(r) == requests' = [requests EXCEPT ![r] = Idle]

\* SELECT: the request goes on with a copy of the row.
Load(r) ==
  /\ requests[r] = Idle
  /\ requests' = [requests EXCEPT ![r] =
       [pc |-> "loaded", at |-> clock, status |-> account.status,
        failed |-> account.failed, until |-> account.until,
        newFailed |-> account.failed, newUntil |-> account.until]]
  /\ overlapped' = (overlapped \/ \E o \in Requests : requests[o] # Idle)
  /\ UNCHANGED <<clock, account, wrong, lock, early, statusEdits>>

\* The clock is read when the row has arrived; lock and status are the copy's.
Admitted(q) == ~ InLock(q.until) /\ q.status = "ACTIVE"

Refused(r) ==
  /\ requests[r].pc = "loaded" /\ ~ Admitted(requests[r])
  /\ Answered(r)
  /\ UNCHANGED <<clock, account, wrong, lock, early, overlapped, statusEdits>>

Prepare(r, pc, failed, until) ==
  /\ requests[r].pc = "loaded" /\ Admitted(requests[r])
  /\ requests' = [requests EXCEPT ![r].pc = pc, ![r].newFailed = failed,
                                  ![r].newUntil = until]
  /\ UNCHANGED <<clock, account, wrong, lock, early, overlapped, statusEdits>>

WrongPassword_NoReset(r) ==
  LET failed == requests[r].failed + 1 IN
  IF failed >= MaxAttempts
    THEN Prepare(r, "wrong", failed, clock + LockTime)
    ELSE Prepare(r, "wrong", failed, requests[r].until)
\* The password does not verify: one more failure, or a lock.
WrongPassword(r) ==
  LET failed == requests[r].failed + 1 IN
  IF failed >= MaxAttempts
    THEN Prepare(r, "wrong", 0, clock + LockTime)
    ELSE Prepare(r, "wrong", failed, requests[r].until)

\* The password verifies: the count and the lock are cleared.
RightPassword(r) == Prepare(r, "right", 0, NotLocked)

\* UPDATE of the changed columns; COMMIT.
Written_AllColumns(q) == [account EXCEPT !.failed = q.newFailed, !.until = q.newUntil]
Written(q) ==
  [account EXCEPT !.failed = IF q.newFailed # q.failed THEN q.newFailed ELSE @,
                  !.until = IF q.newUntil # q.until THEN q.newUntil ELSE @]

CommitFailure(r) ==
  LET q == requests[r]
      locks == q.newUntil # q.until
  IN
  /\ q.pc = "wrong"
  /\ account' = Written(q)
  /\ wrong' = IF locks THEN 0 ELSE wrong + 1
  /\ lock' = IF locks THEN [since |-> clock, until |-> q.newUntil] ELSE lock
  /\ Answered(r)
  /\ UNCHANGED <<clock, early, overlapped, statusEdits>>

\* COMMIT, then the row is read again and the tokens are issued.
CommitLogin(r) ==
  LET q == requests[r] IN
  /\ q.pc = "right"
  /\ account' = Written(q)
  /\ wrong' = 0
  /\ early' = early \cup {e \in {[start |-> q.at, loaded |-> q.until,
                                 since |-> lock.since]} :
                            InLock(account.until) /\ account'.until = NotLocked}
  /\ Answered(r)
  /\ UNCHANGED <<clock, lock, overlapped, statusEdits>>

\* PostgreSQL raises or the worker dies: nothing is written.
Fail(r) ==
  /\ requests[r] # Idle /\ Answered(r)
  /\ UNCHANGED <<clock, account, wrong, lock, early, overlapped, statusEdits>>

\* PATCH /accounts/{id}: the lockout columns are not part of it.
SetStatus(s) ==
  /\ s # account.status /\ statusEdits < MaxStatusEdits
  /\ account' = [account EXCEPT !.status = s]
  /\ statusEdits' = statusEdits + 1
  /\ UNCHANGED <<clock, requests, wrong, lock, early, overlapped>>

Tick == /\ clock < MaxClock /\ clock' = clock + 1
        /\ UNCHANGED <<account, requests, wrong, lock, early, overlapped, statusEdits>>

----------------------------------------------------------------------------
Init ==
  /\ clock = 1
  /\ account = [status |-> "ACTIVE", failed |-> 0, until |-> NotLocked]
  /\ requests = [r \in Requests |-> Idle]
  /\ wrong = 0 /\ lock = [since |-> 0, until |-> NotLocked] /\ early = {}
  /\ overlapped = FALSE /\ statusEdits = 0

Next ==
  \/ \E r \in Requests : \/ Load(r) \/ Refused(r)
                         \/ WrongPassword(r) \/ RightPassword(r)
                         \/ CommitFailure(r) \/ CommitLogin(r) \/ Fail(r)
  \/ \E s \in {"ACTIVE", "SUSPENDED"} : SetStatus(s)
  \/ Tick

Spec == Init /\ [][Next]_vars

----------------------------------------------------------------------------
Count == 0 .. (MaxAttempts - 1)

TypeOK ==
  /\ clock \in Nat
  /\ account \in [status: {"ACTIVE", "SUSPENDED"}, failed: Count, until: Nat]
  /\ requests \in [Requests -> [pc: {"idle", "loaded", "wrong", "right"}, at: Nat,
                                status: {"ACTIVE", "SUSPENDED"},
                                failed: Count, until: Nat,
                                newFailed: Count, newUntil: Nat]]
  /\ wrong \in Nat /\ lock \in [since: Nat, until: Nat]
  /\ early \subseteq [start: Nat, loaded: Nat, since: Nat]
  /\ overlapped \in BOOLEAN /\ statusEdits \in Nat

\* While requests do not overlap, the column counts exactly the wrong
\* passwords since the last lock or login, so that the MaxAttempts-th locks
\* the account, whatever fails, expires or is suspended in between.
SerialCount == ~ overlapped => account.failed = wrong

\* A lock that still runs is only ever removed by a right password whose row
\* was read before the lock was set, and only when an earlier, expired lock
\* was still in it: a login that loaded no lock writes no lock column.
LockOutlivesLogins ==
  \A e \in early : e.start <= e.since /\ e.loaded # NotLocked
=============================================================================

---------------------------- MODULE LoginProofs ----------------------------
(***************************************************************************)
(* Proofs about the two guards of POST /auth/login: LoginLockout, for any  *)
(* number of requests and any lock, and RateLimit, for every Limit, Window *)
(* and MaxDelay.                                                           *)
(***************************************************************************)
EXTENDS LoginLockout, RateLimit, FiniteSetTheorems, TLAPS

----------------------------------------------------------------------------
(* The lockout of an account.                                              *)

Request == [pc: {"idle", "loaded", "wrong", "right"}, at: Nat,
            status: {"ACTIVE", "SUSPENDED"}, failed: Count, until: Nat,
            newFailed: Count, newUntil: Nat]

\* A step of a request replaces one entry of `requests`.
LEMMA OneRequest ==
  ASSUME NEW r \in Requests, NEW f \in [Requests -> Request], NEW q \in Request
  PROVE  /\ [f EXCEPT ![r] = q] \in [Requests -> Request]
         /\ [f EXCEPT ![r] = q][r] = q
         /\ \A o \in Requests : o # r => [f EXCEPT ![r] = q][o] = f[o]
  OBVIOUS

\* Count holds 0, the next count and nothing else is stored.
LEMMA CountFacts ==
  /\ 0 \in Count /\ Count \subseteq Nat
  /\ \A n \in Count : n + 1 < MaxAttempts => n + 1 \in Count
  BY ConstantsAssumption DEF Count

\* What a SELECT leaves for the checks: a copy of the row.
LEMMA LoadEffect ==
  ASSUME TypeOK, NEW r \in Requests, Load(r)
  PROVE  /\ requests' \in [Requests -> Request]
         /\ \A o \in Requests : o # r => requests'[o] = requests[o]
         /\ requests'[r].pc = "loaded" /\ requests'[r].at = clock
         /\ requests'[r].failed = account.failed
         /\ requests'[r].until = account.until
<1> DEFINE q == [pc |-> "loaded", at |-> clock, status |-> account.status,
                 failed |-> account.failed, until |-> account.until,
                 newFailed |-> account.failed, newUntil |-> account.until]
<1>1. q \in Request
  BY DEF TypeOK, Request
<1>2. requests \in [Requests -> Request]
  BY DEF TypeOK, Request
<1>3. requests' = [requests EXCEPT ![r] = q]
  BY DEF Load
<1>4. /\ q.pc = "loaded" /\ q.at = clock /\ q.failed = account.failed
      /\ q.until = account.until
  OBVIOUS
<1> HIDE DEF q
<1>5. /\ requests' \in [Requests -> Request] /\ requests'[r] = q
      /\ \A o \in Requests : o # r => requests'[o] = requests[o]
  BY <1>1, <1>2, <1>3, OneRequest
<1> QED
  BY <1>4, <1>5

\* What the checks leave for the COMMIT.
LEMMA PrepareEffect ==
  ASSUME TypeOK, NEW r \in Requests, NEW pc \in {"wrong", "right"},
         NEW failed \in Count, NEW until \in Nat, Prepare(r, pc, failed, until)
  PROVE  /\ requests' \in [Requests -> Request]
         /\ \A o \in Requests : o # r => requests'[o] = requests[o]
         /\ requests'[r].pc = pc /\ requests'[r].at = requests[r].at
         /\ requests'[r].failed = requests[r].failed
         /\ requests'[r].until = requests[r].until
         /\ requests'[r].newFailed = failed /\ requests'[r].newUntil = until
<1> DEFINE q == [requests[r] EXCEPT !.pc = pc, !.newFailed = failed,
                                    !.newUntil = until]
<1>1. requests \in [Requests -> Request] /\ requests[r] \in Request
  BY DEF TypeOK, Request
<1>2. q \in Request
  BY <1>1 DEF Request
<1>3. requests' = [requests EXCEPT ![r] = q]
  BY <1>1 DEF Prepare, Request
<1>4. /\ q.pc = pc /\ q.at = requests[r].at /\ q.failed = requests[r].failed
      /\ q.until = requests[r].until /\ q.newFailed = failed /\ q.newUntil = until
  BY <1>1 DEF Request
<1> HIDE DEF q
<1>5. /\ requests' \in [Requests -> Request] /\ requests'[r] = q
      /\ \A o \in Requests : o # r => requests'[o] = requests[o]
  BY <1>1, <1>2, <1>3, OneRequest
<1> QED
  BY <1>4, <1>5

\* An answered request holds nothing.
LEMMA AnsweredEffect ==
  ASSUME TypeOK, NEW r \in Requests, Answered(r)
  PROVE  /\ requests' \in [Requests -> Request] /\ requests'[r] = Idle
         /\ \A o \in Requests : o # r => requests'[o] = requests[o]
<1>1. Idle \in Request
  BY CountFacts DEF Idle, Request
<1>2. requests \in [Requests -> Request]
  BY DEF TypeOK, Request
<1> QED
  BY <1>1, <1>2, OneRequest DEF Answered

\* The row a COMMIT leaves has the loaded types.
LEMMA WrittenType ==
  ASSUME TypeOK, NEW q \in Request
  PROVE  /\ Written(q) \in [status: {"ACTIVE", "SUSPENDED"}, failed: Count, until: Nat]
         /\ Written(q).failed = IF q.newFailed # q.failed THEN q.newFailed
                                ELSE account.failed
         /\ Written(q).until = IF q.newUntil # q.until THEN q.newUntil
                               ELSE account.until
  BY DEF TypeOK, Request, Written

\* A request the checks let on prepares one more failure, a lock, or a cleared
\* count.
LEMMA CheckChoice ==
  ASSUME TypeOK, NEW r \in Requests, WrongPassword(r) \/ RightPassword(r)
  PROVE  \E pc \in {"wrong", "right"}, failed \in Count, until \in Nat :
           /\ Prepare(r, pc, failed, until)
           /\ requests[r].until <= clock
           /\ pc = "right" => failed = 0 /\ until = NotLocked
           /\ pc = "wrong" =>
                \/ failed = requests[r].failed + 1 /\ until = requests[r].until
                \/ failed = 0 /\ until # requests[r].until /\ until # NotLocked
<1> DEFINE q == requests[r]
<1>1. /\ q.failed \in Count /\ q.until \in Nat /\ clock \in Nat
      /\ clock + LockTime \in Nat /\ clock + LockTime > clock /\ 0 \in Count
  BY CountFacts, ConstantsAssumption DEF TypeOK
<1>2. q.until <= clock
  BY <1>1 DEF WrongPassword, RightPassword, Prepare, Admitted, InLock
<1>3. CASE RightPassword(r)
  BY <1>1, <1>2, <1>3 DEF RightPassword, NotLocked
<1>4. CASE WrongPassword(r) /\ q.failed + 1 >= MaxAttempts
  <2>1. Prepare(r, "wrong", 0, clock + LockTime)
    BY <1>4 DEF WrongPassword
  <2>2. clock + LockTime # q.until /\ clock + LockTime # NotLocked
    BY <1>1, <1>2 DEF NotLocked
  <2> QED
    BY <1>1, <1>2, <2>1, <2>2
<1>5. CASE WrongPassword(r) /\ ~ (q.failed + 1 >= MaxAttempts)
  <2>1. q.failed + 1 \in Count
    BY <1>1, <1>5, ConstantsAssumption DEF Count
  <2>2. Prepare(r, "wrong", q.failed + 1, q.until)
    BY <1>5 DEF WrongPassword
  <2> QED
    BY <1>1, <1>2, <2>1, <2>2
<1> QED
  BY <1>3, <1>4, <1>5

\* Every action keeps the types; in particular the count stays below the limit.
LEMMA TypeStep == TypeOK /\ [Next]_vars => TypeOK'
<1> SUFFICES ASSUME TypeOK, [Next]_vars PROVE TypeOK'
  OBVIOUS
<1>0. /\ clock \in Nat /\ account.until \in Nat /\ account.failed \in Count
      /\ clock + LockTime \in Nat /\ 0 \in Count /\ NotLocked \in Nat
  BY CountFacts, ConstantsAssumption DEF TypeOK, NotLocked
<1>1. ASSUME NEW r \in Requests, WrongPassword(r) \/ RightPassword(r) PROVE TypeOK'
  <2>1. PICK pc \in {"wrong", "right"}, failed \in Count, until \in Nat :
          Prepare(r, pc, failed, until)
    BY <1>1, CheckChoice
  <2>2. requests' \in [Requests -> Request]
    BY <2>1, PrepareEffect
  <2> QED
    BY <2>1, <2>2 DEF Prepare, TypeOK, Request
<1>2. ASSUME NEW r \in Requests, Load(r) PROVE TypeOK'
  <2>1. requests' \in [Requests -> Request]
    BY <1>2, LoadEffect
  <2> QED
    BY <1>2, <2>1 DEF Load, TypeOK, Request
<1>3. ASSUME NEW r \in Requests, Refused(r) PROVE TypeOK'
  BY <1>3, AnsweredEffect DEF Refused, TypeOK, Request
<1>4. ASSUME NEW r \in Requests, CommitFailure(r) PROVE TypeOK'
  <2>1. requests[r] \in Request
    BY DEF TypeOK, Request
  <2>2. requests' \in [Requests -> Request]
    BY <1>4, AnsweredEffect DEF CommitFailure
  <2>3. account' \in [status: {"ACTIVE", "SUSPENDED"}, failed: Count, until: Nat]
    BY <1>4, <2>1, WrittenType DEF CommitFailure
  <2> QED
    BY <1>4, <2>1, <2>2, <2>3 DEF CommitFailure, TypeOK, Request
<1>5. ASSUME NEW r \in Requests, CommitLogin(r) PROVE TypeOK'
  <2>1. requests[r] \in Request
    BY DEF TypeOK, Request
  <2>2. requests' \in [Requests -> Request]
    BY <1>5, AnsweredEffect DEF CommitLogin
  <2>3. account' \in [status: {"ACTIVE", "SUSPENDED"}, failed: Count, until: Nat]
    BY <1>5, <2>1, WrittenType DEF CommitLogin
  <2> QED
    BY <1>5, <2>1, <2>2, <2>3 DEF CommitLogin, TypeOK, Request
<1>6. ASSUME NEW r \in Requests, Fail(r) PROVE TypeOK'
  BY <1>6, AnsweredEffect DEF Fail, TypeOK, Request
<1>7. ASSUME NEW s \in {"ACTIVE", "SUSPENDED"}, SetStatus(s) PROVE TypeOK'
  BY <1>7 DEF SetStatus, TypeOK
<1>8. CASE Tick
  BY <1>8 DEF Tick, TypeOK
<1>9. CASE UNCHANGED vars
  BY <1>9 DEF vars, TypeOK
<1> QED
  BY <1>1, <1>2, <1>3, <1>4, <1>5, <1>6, <1>7, <1>8, <1>9 DEF Next

\* TypeOK holds initially: nothing is loaded, nothing is counted.
LEMMA TypeInit == Init => TypeOK
<1> SUFFICES ASSUME Init PROVE TypeOK
  OBVIOUS
<1>1. Idle \in Request
  BY CountFacts DEF Idle, Request
<1>2. requests \in [Requests -> Request]
  BY <1>1 DEF Init
<1> QED
  BY <1>2, CountFacts DEF Init, TypeOK, NotLocked, Request

\* failed_login_attempts stays below max_login_attempts, however the requests
\* interleave.
THEOREM TypeCorrect == Spec => []TypeOK
  BY TypeInit, TypeStep, PTL DEF Spec

----------------------------------------------------------------------------
(* The inductive invariants behind SerialCount and LockOutlivesLogins.     *)

Busy(r) == requests[r].pc # "idle"

\* As long as requests have not overlapped, the request in progress is alone
\* and the row is still the one it loaded.
SerialSnapshot ==
  ~ overlapped =>
    \A r \in Requests : Busy(r) =>
      /\ \A o \in Requests : Busy(o) => o = r
      /\ requests[r].failed = account.failed /\ requests[r].until = account.until

\* What COMMIT writes: one more failure, a lock, or a cleared count.
OneMore(q) == q.newFailed = q.failed + 1 /\ q.newUntil = q.until
Locks(q) == q.newFailed = 0 /\ q.newUntil # q.until /\ q.newUntil # NotLocked
Clears(q) == q.newFailed = 0 /\ q.newUntil = NotLocked
Outcome ==
  \A r \in Requests :
    /\ requests[r].pc = "wrong" => OneMore(requests[r]) \/ Locks(requests[r])
    /\ requests[r].pc = "right" => Clears(requests[r])

SerialInv == TypeOK /\ SerialSnapshot /\ Outcome /\ SerialCount

\* A lock a request has not read was set after its SELECT, and the one it has
\* read no longer runs once it is past the checks.
LockAfterLoad ==
  \A r \in Requests : Busy(r) =>
    /\ requests[r].at <= clock
    /\ \/ account.until = requests[r].until \/ account.until = NotLocked
       \/ requests[r].at <= lock.since
    /\ requests[r].pc # "loaded" => requests[r].until <= clock

LockInv == TypeOK /\ Outcome /\ LockAfterLoad /\ LockOutlivesLogins

\* A step that ends a request without a COMMIT: refused, failed.
Ends(r) == /\ Answered(r)
           /\ UNCHANGED <<clock, account, wrong, lock, early, overlapped>>

\* Every step is one of: a SELECT, the checks, a COMMIT, an end without one, or
\* one that leaves the requests alone and the lockout columns with them.
LEMMA Steps ==
  ASSUME TypeOK, [Next]_vars
  PROVE  \/ \E r \in Requests : Load(r)
         \/ \E r \in Requests : WrongPassword(r) \/ RightPassword(r)
         \/ \E r \in Requests : CommitFailure(r)
         \/ \E r \in Requests : CommitLogin(r)
         \/ \E r \in Requests : Ends(r)
         \/ /\ requests' = requests /\ wrong' = wrong /\ lock' = lock
            /\ early' = early /\ overlapped' = overlapped
            /\ account'.failed = account.failed /\ account'.until = account.until
            /\ clock' \in Nat /\ clock <= clock'
<1> USE DEF TypeOK
<1>1. CASE \E s \in {"ACTIVE", "SUSPENDED"} : SetStatus(s)
  BY <1>1 DEF SetStatus
<1>2. CASE Tick
  BY <1>2 DEF Tick
<1>3. CASE UNCHANGED vars
  BY <1>3 DEF vars
<1>4. ASSUME NEW r \in Requests, Refused(r) \/ Fail(r) PROVE Ends(r)
  BY <1>4 DEF Refused, Fail, Ends
<1> QED
  BY <1>1, <1>2, <1>3, <1>4 DEF Next

\* The checks turn a loaded request into one that will write.
LEMMA CheckEffect ==
  ASSUME TypeOK, NEW r \in Requests, WrongPassword(r) \/ RightPassword(r)
  PROVE  /\ requests' \in [Requests -> Request]
         /\ \A o \in Requests : o # r => requests'[o] = requests[o]
         /\ requests[r].pc = "loaded" /\ requests'[r].at = requests[r].at
         /\ requests'[r].failed = requests[r].failed
         /\ requests'[r].until = requests[r].until
         /\ requests[r].until <= clock
         /\ \/ requests'[r].pc = "wrong" /\ (OneMore(requests'[r]) \/ Locks(requests'[r]))
            \/ requests'[r].pc = "right" /\ Clears(requests'[r])
         /\ UNCHANGED <<clock, account, wrong, lock, early, overlapped>>
<1>1. PICK pc \in {"wrong", "right"}, failed \in Count, until \in Nat :
        /\ Prepare(r, pc, failed, until)
        /\ requests[r].until <= clock
        /\ pc = "right" => failed = 0 /\ until = NotLocked
        /\ pc = "wrong" =>
             \/ failed = requests[r].failed + 1 /\ until = requests[r].until
             \/ failed = 0 /\ until # requests[r].until /\ until # NotLocked
  BY CheckChoice
<1>2. /\ requests' \in [Requests -> Request]
      /\ \A o \in Requests : o # r => requests'[o] = requests[o]
      /\ requests'[r].pc = pc /\ requests'[r].at = requests[r].at
      /\ requests'[r].failed = requests[r].failed
      /\ requests'[r].until = requests[r].until
      /\ requests'[r].newFailed = failed /\ requests'[r].newUntil = until
  BY <1>1, PrepareEffect
<1>5. /\ requests[r].pc = "loaded"
      /\ UNCHANGED <<clock, account, wrong, lock, early, overlapped>>
  BY <1>1 DEF Prepare
<1>6. \/ requests'[r].pc = "wrong" /\ (OneMore(requests'[r]) \/ Locks(requests'[r]))
      \/ requests'[r].pc = "right" /\ Clears(requests'[r])
  BY <1>1, <1>2 DEF OneMore, Locks, Clears
<1> QED
  BY <1>1, <1>2, <1>5, <1>6

\* The outcome of a request is fixed by its checks.
LEMMA OutcomeStep == TypeOK /\ Outcome /\ [Next]_vars => Outcome'
<1> SUFFICES ASSUME TypeOK, Outcome, [Next]_vars PROVE Outcome'
  OBVIOUS
<1> USE DEF Outcome, OneMore, Locks, Clears
<1>1. ASSUME NEW r \in Requests, WrongPassword(r) \/ RightPassword(r) PROVE Outcome'
  BY <1>1, CheckEffect
<1>2. ASSUME NEW r \in Requests, Answered(r) PROVE Outcome'
  BY <1>2, AnsweredEffect DEF Idle
<1>3. CASE requests' = requests
  BY <1>3
<1>4. ASSUME NEW r \in Requests, Load(r) PROVE Outcome'
  BY <1>4, LoadEffect
<1> QED
  BY <1>1, <1>2, <1>3, <1>4, Steps DEF CommitFailure, CommitLogin, Ends

\* While requests do not overlap, the request in progress counts on top of the
\* wrong passwords committed so far, and no other COMMIT comes in between.
LEMMA SerialStep == SerialInv /\ [Next]_vars => SerialSnapshot' /\ SerialCount'
<1> SUFFICES ASSUME SerialInv, [Next]_vars PROVE SerialSnapshot' /\ SerialCount'
  OBVIOUS
<1>0. TypeOK
  BY DEF SerialInv
<1>1. CASE overlapped'
  BY <1>1 DEF SerialSnapshot, SerialCount
<1>2. ASSUME ~ overlapped', NEW r \in Requests, Load(r)
      PROVE  SerialSnapshot' /\ SerialCount'
  <2>1. /\ ~ overlapped /\ \A o \in Requests : requests[o] = Idle
        /\ account' = account /\ wrong' = wrong
    BY <1>2 DEF Load
  <2>2. /\ \A o \in Requests : o # r => requests'[o] = requests[o]
        /\ requests'[r].failed = account.failed /\ requests'[r].until = account.until
    BY <1>0, <1>2, LoadEffect
  <2> QED
    BY <2>1, <2>2 DEF SerialInv, SerialSnapshot, SerialCount, Busy, Idle
<1>8. ASSUME ~ overlapped', NEW r \in Requests, WrongPassword(r) \/ RightPassword(r)
      PROVE  SerialSnapshot' /\ SerialCount'
  <2>1. /\ \A o \in Requests : o # r => requests'[o] = requests[o]
        /\ requests[r].pc = "loaded" /\ requests'[r].failed = requests[r].failed
        /\ requests'[r].until = requests[r].until
        /\ account' = account /\ wrong' = wrong /\ overlapped' = overlapped
    BY <1>0, <1>8, CheckEffect
  <2>2. Busy(r) /\ \A o \in Requests : Busy(o)' => Busy(o)
    BY <2>1 DEF Busy
  <2> QED
    BY <1>8, <2>1, <2>2 DEF SerialInv, SerialSnapshot, SerialCount
<1>3. ASSUME ~ overlapped', NEW r \in Requests, Answered(r), Busy(r),
             overlapped' = overlapped
      PROVE  SerialSnapshot'
  <2>1. \A o \in Requests : ~ Busy(o)'
    <3>1. \A o \in Requests : o # r => requests'[o] = requests[o] /\ ~ Busy(o)
      BY <1>0, <1>3, AnsweredEffect DEF SerialInv, SerialSnapshot
    <3>2. requests'[r] = Idle
      BY <1>0, <1>3, AnsweredEffect
    <3> QED
      BY <3>1, <3>2 DEF Busy, Idle
  <2> QED
    BY <2>1 DEF SerialSnapshot
<1>4. ASSUME ~ overlapped', NEW r \in Requests, CommitFailure(r)
      PROVE  SerialSnapshot' /\ SerialCount'
  <2> DEFINE q == requests[r]
  <2>1. /\ q \in Request /\ q.pc = "wrong" /\ Answered(r) /\ overlapped' = overlapped
        /\ account' = Written(q)
        /\ wrong' = IF q.newUntil # q.until THEN 0 ELSE wrong + 1
    BY <1>0, <1>4 DEF CommitFailure, TypeOK, Request
  <2>2. /\ q.failed = account.failed /\ q.until = account.until
        /\ account.failed = wrong /\ account.failed \in Nat
    BY <1>0, <1>4, <2>1, CountFacts DEF SerialInv, SerialSnapshot, SerialCount,
                                        Busy, TypeOK
  <2>3. OneMore(q) \/ Locks(q)
    BY <2>1 DEF SerialInv, Outcome
  <2>4. account'.failed = IF q.newFailed # q.failed THEN q.newFailed ELSE account.failed
    BY <1>0, <2>1, WrittenType
  <2>5. SerialCount'
    BY <2>1, <2>2, <2>3, <2>4 DEF SerialCount, OneMore, Locks
  <2> QED
    BY <1>3, <1>4, <2>1, <2>5 DEF Busy
<1>5. ASSUME ~ overlapped', NEW r \in Requests, CommitLogin(r)
      PROVE  SerialSnapshot' /\ SerialCount'
  <2> DEFINE q == requests[r]
  <2>1. /\ q \in Request /\ q.pc = "right" /\ Answered(r) /\ overlapped' = overlapped
        /\ account' = Written(q) /\ wrong' = 0
    BY <1>0, <1>5 DEF CommitLogin, TypeOK, Request
  <2>2. q.failed = account.failed
    BY <1>5, <2>1 DEF SerialInv, SerialSnapshot, Busy
  <2>3. Clears(q)
    BY <2>1 DEF SerialInv, Outcome
  <2>4. account'.failed = IF q.newFailed # q.failed THEN q.newFailed ELSE account.failed
    BY <1>0, <2>1, WrittenType
  <2>5. SerialCount'
    BY <2>1, <2>2, <2>3, <2>4 DEF SerialCount, Clears
  <2> QED
    BY <1>3, <1>5, <2>1, <2>5 DEF Busy
<1>6. ASSUME ~ overlapped', NEW r \in Requests, Ends(r)
      PROVE  SerialSnapshot' /\ SerialCount'
  <2>1. Answered(r) /\ UNCHANGED <<account, wrong, overlapped>>
    BY <1>6 DEF Ends
  <2>2. CASE Busy(r)
    BY <1>3, <1>6, <2>1, <2>2 DEF SerialInv, SerialCount
  <2>3. CASE ~ Busy(r)
    <3>1. \A o \in Requests : Busy(o)' => Busy(o) /\ requests'[o] = requests[o]
      BY <1>0, <2>1, AnsweredEffect DEF Busy, Idle
    <3> QED
      BY <1>6, <2>1, <3>1 DEF SerialInv, SerialSnapshot, SerialCount, Busy
  <2> QED
    BY <2>2, <2>3
<1>7. CASE /\ requests' = requests /\ wrong' = wrong /\ overlapped' = overlapped
           /\ account'.failed = account.failed /\ account'.until = account.until
  BY <1>7 DEF SerialInv, SerialSnapshot, SerialCount, Busy
<1> QED
  BY <1>0, <1>1, <1>2, <1>4, <1>5, <1>6, <1>7, <1>8, Steps

\* Requests that do not overlap lock the account at the MaxAttempts-th wrong
\* password: the column is the number of wrong passwords.
THEOREM SerialCountCorrect == Spec => []SerialCount
<1>1. Init => SerialInv
  <2>1. Init => SerialSnapshot /\ Outcome /\ SerialCount
    BY DEF Init, SerialSnapshot, Outcome, SerialCount, Busy, Idle
  <2> QED
    BY <2>1, TypeInit DEF SerialInv
<1>2. SerialInv /\ [Next]_vars => SerialInv'
  BY TypeStep, OutcomeStep, SerialStep DEF SerialInv
<1>3. SerialInv => SerialCount
  BY DEF SerialInv
<1> QED
  BY <1>1, <1>2, <1>3, PTL DEF Spec

\* The lock a request has not read was set after its SELECT, at every step.
LEMMA LockStep == LockInv /\ [Next]_vars => LockAfterLoad' /\ LockOutlivesLogins'
<1> SUFFICES ASSUME LockInv, [Next]_vars PROVE LockAfterLoad' /\ LockOutlivesLogins'
  OBVIOUS
<1>0. TypeOK /\ clock \in Nat /\ account.until \in Nat /\ lock.since \in Nat
      /\ \A o \in Requests : requests[o] \in Request
  BY DEF LockInv, TypeOK, Request
<1>1. ASSUME NEW r \in Requests, WrongPassword(r) \/ RightPassword(r)
      PROVE  LockAfterLoad' /\ LockOutlivesLogins'
  <2>1. /\ \A o \in Requests : o # r => requests'[o] = requests[o]
        /\ requests[r].pc = "loaded" /\ requests'[r].at = requests[r].at
        /\ requests'[r].until = requests[r].until /\ requests[r].until <= clock
        /\ UNCHANGED <<clock, account, lock, early>>
    BY <1>0, <1>1, CheckEffect
  <2>2. LockAfterLoad'
    BY <1>0, <2>1 DEF LockInv, LockAfterLoad, Busy
  <2> QED
    BY <2>1, <2>2 DEF LockInv, LockOutlivesLogins
<1>7. ASSUME NEW r \in Requests, Load(r)
      PROVE  LockAfterLoad' /\ LockOutlivesLogins'
  <2>1. /\ \A o \in Requests : o # r => requests'[o] = requests[o]
        /\ requests'[r].pc = "loaded" /\ requests'[r].at = clock
        /\ requests'[r].until = account.until
    BY <1>0, <1>7, LoadEffect
  <2>2. UNCHANGED <<clock, account, lock, early>>
    BY <1>7 DEF Load
  <2>3. LockAfterLoad'
    BY <1>0, <2>1, <2>2 DEF LockInv, LockAfterLoad, Busy
  <2> QED
    BY <2>2, <2>3 DEF LockInv, LockOutlivesLogins
<1>2. ASSUME NEW r \in Requests, Answered(r), clock' = clock,
             \/ lock' = lock /\ account'.until \in {account.until, NotLocked}
             \/ lock'.since = clock
      PROVE  LockAfterLoad'
  <2> SUFFICES ASSUME NEW o \in Requests, Busy(o)'
               PROVE  /\ requests'[o].at <= clock'
                      /\ \/ account'.until = requests'[o].until
                         \/ account'.until = NotLocked
                         \/ requests'[o].at <= lock'.since
                      /\ requests'[o].pc # "loaded" => requests'[o].until <= clock'
    BY DEF LockAfterLoad
  <2>1. requests'[o] = requests[o] /\ Busy(o)
    BY <1>0, <1>2, AnsweredEffect DEF Busy, Idle
  <2>2. /\ requests[o].at <= clock
        /\ \/ account.until = requests[o].until \/ account.until = NotLocked
           \/ requests[o].at <= lock.since
        /\ requests[o].pc # "loaded" => requests[o].until <= clock
    BY <2>1 DEF LockInv, LockAfterLoad
  <2> QED
    BY <1>2, <2>1, <2>2
<1>3. ASSUME NEW r \in Requests, CommitFailure(r)
      PROVE  LockAfterLoad' /\ LockOutlivesLogins'
  <2> DEFINE q == requests[r]
  <2>1. /\ Answered(r) /\ account' = Written(q) /\ clock' = clock /\ early' = early
        /\ lock' = IF q.newUntil # q.until THEN [since |-> clock, until |-> q.newUntil]
                   ELSE lock
    BY <1>3 DEF CommitFailure
  <2>2. account'.until = IF q.newUntil # q.until THEN q.newUntil ELSE account.until
    BY <1>0, <2>1, WrittenType
  <2>3. LockAfterLoad'
    BY <1>2, <2>1, <2>2
  <2> QED
    BY <2>1, <2>3 DEF LockInv, LockOutlivesLogins
<1>4. ASSUME NEW r \in Requests, CommitLogin(r)
      PROVE  LockAfterLoad' /\ LockOutlivesLogins'
  <2> DEFINE q == requests[r]
             new == [start |-> q.at, loaded |-> q.until, since |-> lock.since]
  <2>1. /\ q.pc = "right" /\ Answered(r) /\ account' = Written(q)
        /\ clock' = clock /\ lock' = lock
        /\ early' = early \cup {e \in {new} : InLock(account.until)
                                               /\ account'.until = NotLocked}
    BY <1>4 DEF CommitLogin
  <2>2. /\ account'.until = IF q.newUntil # q.until THEN q.newUntil ELSE account.until
        /\ q.newUntil = NotLocked
    BY <1>0, <2>1, WrittenType DEF LockInv, Outcome, Clears
  <2>3. LockAfterLoad'
    BY <1>2, <2>1, <2>2
  <2>4. ASSUME InLock(account.until), account'.until = NotLocked
        PROVE  q.at <= lock.since /\ q.until # NotLocked
    <3>1. /\ account.until = q.until \/ account.until = NotLocked \/ q.at <= lock.since
          /\ q.until <= clock
      BY <2>1 DEF LockInv, LockAfterLoad, Busy
    <3>2. account.until > clock
      BY <2>4 DEF InLock
    <3>3. q.until \in Nat
      BY <1>0 DEF Request
    <3> QED
      BY <1>0, <2>2, <2>4, <3>1, <3>2, <3>3 DEF NotLocked
  <2>5. \A e \in early' : e \in early \/ (e = new /\ InLock(account.until)
                                          /\ account'.until = NotLocked)
    BY <2>1
  <2>6. LockOutlivesLogins'
    BY <2>4, <2>5 DEF LockInv, LockOutlivesLogins
  <2> QED
    BY <2>3, <2>6
<1>5. ASSUME NEW r \in Requests, Ends(r)
      PROVE  LockAfterLoad' /\ LockOutlivesLogins'
  <2>1. Answered(r) /\ UNCHANGED <<clock, account, lock, early>>
    BY <1>5 DEF Ends
  <2>2. LockAfterLoad'
    BY <1>2, <2>1
  <2> QED
    BY <2>1, <2>2 DEF LockInv, LockOutlivesLogins
<1>6. CASE /\ requests' = requests /\ lock' = lock /\ early' = early
           /\ account'.until = account.until /\ clock' \in Nat /\ clock <= clock'
  <2>1. \A o \in Requests : requests[o].at \in Nat /\ requests[o].until \in Nat
    BY <1>0 DEF Request
  <2> QED
    BY <1>0, <1>6, <2>1 DEF LockInv, LockAfterLoad, LockOutlivesLogins, Busy
<1> QED
  BY <1>0, <1>1, <1>3, <1>4, <1>5, <1>6, <1>7, Steps

\* A running lock is only ever removed by a login that had read its row before
\* the lock was set, with an earlier lock in it.
THEOREM LockOutlivesLoginsCorrect == Spec => []LockOutlivesLogins
<1>1. Init => LockInv
  <2>1. Init => Outcome /\ LockAfterLoad /\ LockOutlivesLogins
    BY DEF Init, Outcome, LockAfterLoad, LockOutlivesLogins, Busy, Idle
  <2> QED
    BY <2>1, TypeInit DEF LockInv
<1>2. LockInv /\ [Next]_vars => LockInv'
  BY TypeStep, OutcomeStep, LockStep DEF LockInv
<1>3. LockInv => LockOutlivesLogins
  BY DEF LockInv
<1> QED
  BY <1>1, <1>2, <1>3, PTL DEF Spec

----------------------------------------------------------------------------
(* The sliding window of an address.                                       *)
(*                                                                         *)
(* RateBounded counts calls let through in the past, which the sorted set  *)
(* no longer shows.  The invariant relates the two: a call executed in the *)
(* last Window - MaxDelay seconds is still a member of the set, and its    *)
(* key has not expired.  So the calls a new one competes with are among    *)
(* those ZCARD counts.                                                     *)

\* A call is executed at most MaxDelay seconds after its stamp, and the key
\* lives for Window seconds more.
Timely ==
  /\ \A i \in Calls : Waiting(i) =>
       /\ ~ attempts[i].allowed
       /\ attempts[i].now <= time /\ time <= attempts[i].now + MaxDelay
  /\ \A i \in Calls : ~ Waiting(i) =>
       /\ attempts[i].at <= time /\ attempts[i].at <= attempts[i].now + MaxDelay
       /\ attempts[i].at + Window <= expires

\* A recent call is still in the sorted set.
Remembered ==
  \A i \in Calls : ~ Waiting(i) /\ time - attempts[i].at < Window - MaxDelay =>
    i \in members

RateInv == LimiterTypeOK /\ Timely /\ Remembered /\ RateBounded

\* Any window of RateBounded is a finite set of calls.
LEMMA AllowedFinite ==
  ASSUME LimiterTypeOK, NEW t, NEW length
  PROVE  IsFiniteSet(Allowed(t, length))
<1>1. Len(attempts) \in Nat /\ Calls = 1 .. Len(attempts)
  BY DEF LimiterTypeOK, Calls
<1>2. IsFiniteSet(Calls)
  BY <1>1, FS_Interval
<1> QED
  BY <1>2, FS_Subset DEF Allowed

\* What executing the transaction of call i changes and what it leaves alone.
LEMMA ExecuteEffect ==
  ASSUME LimiterTypeOK, NEW i \in Calls, Execute(i)
  PROVE  /\ Waiting(i) /\ time' = time /\ expires' = time + Window
         /\ attempts' \in Seq(Call) /\ Calls' = Calls
         /\ \A j \in Calls : j # i => attempts'[j] = attempts[j]
         /\ attempts'[i].now = attempts[i].now /\ attempts'[i].at = time
         /\ attempts'[i].allowed => Cardinality(members') <= Limit
         /\ i \in members' /\ members' \subseteq members \cup {i}
         /\ time < expires =>
              \A j \in members : attempts[j].now > attempts[i].now - Window
                                   => j \in members'
<1> DEFINE stored == IF time < expires THEN members ELSE {}
           kept == Purged(stored, attempts[i].now - Window) \cup {i}
<1>1. /\ Waiting(i) /\ time' = time /\ expires' = time + Window
      /\ members' = kept
      /\ attempts' = [attempts EXCEPT ![i] =
           [now |-> attempts[i].now, at |-> time,
            allowed |-> Cardinality(kept) <= Limit]]
  BY DEF Execute
<1>2. /\ i \in kept /\ kept \subseteq members \cup {i}
      /\ time < expires =>
           \A j \in members : attempts[j].now > attempts[i].now - Window => j \in kept
  BY DEF Purged
<1> HIDE DEF kept
<1>3. PICK ok \in BOOLEAN :
        /\ ok <=> Cardinality(kept) <= Limit
        /\ attempts' = [attempts EXCEPT ![i] =
             [now |-> attempts[i].now, at |-> time, allowed |-> ok]]
  <2>1. (Cardinality(kept) <= Limit) \in BOOLEAN
    OBVIOUS
  <2> QED
    BY <1>1, <2>1, Zenon
<1>4. /\ attempts' \in Seq(Call) /\ Calls' = Calls
      /\ \A j \in Calls : j # i => attempts'[j] = attempts[j]
      /\ attempts'[i] = [now |-> attempts[i].now, at |-> time, allowed |-> ok]
  <2> DEFINE record == [now |-> attempts[i].now, at |-> time, allowed |-> ok]
  <2>1. record \in Call
    <3>1. attempts[i] \in Call /\ time \in Nat
      BY DEF LimiterTypeOK, Calls
    <3> QED
      BY <3>1 DEF Call
  <2>2. attempts' = [attempts EXCEPT ![i] = record]
    BY <1>3
  <2>3. attempts \in Seq(Call) /\ i \in DOMAIN attempts
    BY DEF LimiterTypeOK, Calls
  <2> HIDE DEF record
  <2>4. /\ attempts' \in Seq(Call) /\ DOMAIN attempts' = DOMAIN attempts
        /\ \A j \in DOMAIN attempts : j # i => attempts'[j] = attempts[j]
        /\ attempts'[i] = record
    BY <2>1, <2>2, <2>3
  <2> QED
    BY <2>4 DEF record, Calls
<1>5. attempts'[i].allowed => Cardinality(members') <= Limit
  BY <1>1, <1>3, <1>4
<1> QED
  BY <1>1, <1>2, <1>4, <1>5

\* Stamp, Execute and TimePasses keep the types.
LEMMA LimiterTypeStep == LimiterTypeOK /\ [LimiterNext]_limiterVars => LimiterTypeOK'
<1> SUFFICES ASSUME LimiterTypeOK, [LimiterNext]_limiterVars PROVE LimiterTypeOK'
  OBVIOUS
<1> USE DEF LimiterTypeOK, Calls, Waiting
<1>1. CASE Stamp
  BY <1>1 DEF Stamp, Call
<1>2. CASE \E i \in Calls : Execute(i)
  <2> PICK i \in Calls : Execute(i)
    BY <1>2
  <2>1. expires' \in Nat /\ time' \in Nat \ {0} /\ attempts' \in Seq(Call)
    BY ExecuteEffect, LimiterAssumption
  <2>2. members' \subseteq {j \in Calls' : ~ (attempts'[j].at = 0)}
    <3>1. \A j \in members : j # i => j \in Calls' /\ attempts'[j].at # 0
      BY ExecuteEffect
    <3>2. i \in Calls' /\ attempts'[i].at # 0
      BY ExecuteEffect
    <3> QED
      BY <3>1, <3>2, ExecuteEffect
  <2> QED
    BY <2>1, <2>2
<1>3. CASE TimePasses
  BY <1>3 DEF TimePasses
<1>4. CASE UNCHANGED limiterVars
  BY <1>4 DEF limiterVars
<1> QED
  BY <1>1, <1>2, <1>3, <1>4 DEF LimiterNext

\* LimiterTypeOK holds in every reachable state.
THEOREM LimiterTypeCorrect == LimiterSpec => []LimiterTypeOK
<1>1. LimiterInit => LimiterTypeOK
  BY DEF LimiterInit, LimiterTypeOK, Calls
<1> QED
  BY <1>1, LimiterTypeStep, PTL DEF LimiterSpec

\* Executing a call keeps the bound: the calls let through that a window
\* ending now can hold are among those ZCARD counted.
LEMMA ExecuteBounded ==
  ASSUME RateInv, LimiterTypeOK', NEW i \in Calls, Execute(i)
  PROVE  RateBounded'
<1> DEFINE length == Window - MaxDelay
<1>0. length \in Int /\ Limit \in Nat
  BY LimiterAssumption
<1>1. SUFFICES ASSUME NEW t \in 1 .. time'
               PROVE  Cardinality(Allowed(t, length)') <= Limit
  BY DEF RateBounded, Allowed
<1>2. CASE i \notin Allowed(t, length)'
  <2>1. Allowed(t, length)' \subseteq Allowed(t, length)
    BY <1>2, ExecuteEffect DEF RateInv, Allowed
  <2>2. Cardinality(Allowed(t, length)) <= Limit
    BY ExecuteEffect DEF RateInv, RateBounded
  <2>3. IsFiniteSet(Allowed(t, length))
    BY AllowedFinite DEF RateInv
  <2>4. Cardinality(Allowed(t, length)') <= Cardinality(Allowed(t, length))
    BY <2>1, <2>3, FS_Subset
  <2>5. IsFiniteSet(Allowed(t, length)')
    BY <2>1, <2>3, FS_Subset
  <2> QED
    BY <1>0, <2>2, <2>3, <2>4, <2>5, FS_CardinalityType
<1>3. CASE i \in Allowed(t, length)'
  <2>1. t = time /\ Cardinality(members') <= Limit
    BY <1>3, ExecuteEffect DEF RateInv, LimiterTypeOK, Allowed
  <2>2. ASSUME NEW j \in Allowed(t, length)' PROVE j \in members'
    <3>1. CASE j = i
      BY <3>1, ExecuteEffect DEF RateInv
    <3>2. CASE j # i
      <4>0. attempts'[j] = attempts[j] /\ j \in Calls
        BY <2>2, <3>2, ExecuteEffect DEF RateInv, Allowed
      <4>1. /\ j \in Calls /\ attempts[j].allowed
            /\ attempts[j] \in Call /\ attempts[i] \in Call
            /\ time - attempts[j].at < length /\ time \in Nat
        <5>1. attempts[j] \in Call /\ attempts[i] \in Call /\ time \in Nat
          BY <4>0 DEF RateInv, LimiterTypeOK, Calls
        <5>2. attempts[j].allowed /\ t - length < attempts[j].at
          BY <2>2, <4>0 DEF Allowed
        <5> QED
          BY <1>0, <2>1, <4>0, <5>1, <5>2 DEF Call
      <4>2. ~ Waiting(j) /\ Waiting(i)
        BY <4>1, ExecuteEffect DEF RateInv, Timely
      <4>3. j \in members
        BY <4>1, <4>2 DEF RateInv, Remembered
      <4>4. /\ attempts[j].at <= attempts[j].now + MaxDelay
            /\ attempts[i].now <= time /\ attempts[j].at + Window <= expires
        BY <4>1, <4>2 DEF RateInv, Timely
      <4>6. expires \in Nat
        BY DEF RateInv, LimiterTypeOK
      <4>7. time < expires
        BY <4>1, <4>4, <4>6, LimiterAssumption DEF Call
      <4>5. attempts[j].now > attempts[i].now - Window
        BY <4>1, <4>4, LimiterAssumption DEF Call
      <4> QED
        BY <4>3, <4>5, <4>7, ExecuteEffect DEF RateInv
    <3> QED
      BY <3>1, <3>2
  <2>3. IsFiniteSet(members')
    <3>1. Len(attempts') \in Nat /\ Calls' = 1 .. Len(attempts')
      BY DEF LimiterTypeOK, Calls
    <3>2. members' \subseteq Calls'
      BY DEF LimiterTypeOK
    <3> QED
      <4>1. IsFiniteSet(Calls')
        BY <3>1, FS_Interval
      <4> QED
        BY <3>2, <4>1, FS_Subset
  <2>4. /\ IsFiniteSet(Allowed(t, length)')
        /\ Cardinality(Allowed(t, length)') <= Cardinality(members')
    BY <2>2, <2>3, FS_Subset
  <2> QED
    BY <1>0, <2>1, <2>3, <2>4, FS_CardinalityType
<1> QED
  BY <1>2, <1>3

\* Executing a call keeps every recent call in the set: what it purges is
\* Window seconds older than its stamp.
LEMMA ExecuteRemembers ==
  ASSUME RateInv, LimiterTypeOK', NEW i \in Calls, Execute(i)
  PROVE  Timely' /\ Remembered'
<1>1. /\ time \in Nat \ {0} /\ expires \in Nat
      /\ \A j \in Calls : attempts[j] \in Call /\ attempts'[j] \in Call
  BY ExecuteEffect DEF RateInv, LimiterTypeOK, Calls
<1>2. Timely'
  <2>1. ASSUME NEW j \in Calls', Waiting(j)'
        PROVE  /\ ~ attempts'[j].allowed
               /\ attempts'[j].now <= time' /\ time' <= attempts'[j].now + MaxDelay
    BY <1>1, <2>1, ExecuteEffect DEF RateInv, Timely, Waiting
  <2>2. ASSUME NEW j \in Calls', ~ Waiting(j)'
        PROVE  /\ attempts'[j].at <= time'
               /\ attempts'[j].at <= attempts'[j].now + MaxDelay
               /\ attempts'[j].at + Window <= expires'
    <3>1. CASE j = i
      <4>1. /\ time' = time /\ expires' = time + Window /\ Waiting(i)
            /\ attempts'[i].at = time /\ attempts'[i].now = attempts[i].now
        BY ExecuteEffect DEF RateInv
      <4>2. time <= attempts[i].now + MaxDelay
        BY <4>1 DEF RateInv, Timely
      <4> QED
        BY <1>1, <3>1, <4>1, <4>2, LimiterAssumption DEF Call
    <3>2. CASE j # i
      <4>1. /\ j \in Calls /\ attempts'[j] = attempts[j] /\ ~ Waiting(j)
            /\ time' = time /\ expires' = time + Window
        BY <2>2, <3>2, ExecuteEffect DEF RateInv, Waiting
      <4>2. /\ attempts[j].at <= time
            /\ attempts[j].at <= attempts[j].now + MaxDelay
        BY <4>1 DEF RateInv, Timely
      <4> QED
        BY <1>1, <4>1, <4>2, LimiterAssumption DEF Call
    <3> QED
      BY <3>1, <3>2
  <2> QED
    BY <2>1, <2>2 DEF Timely
<1>3. Remembered'
  <2> SUFFICES ASSUME NEW j \in Calls', ~ Waiting(j)',
                      time' - attempts'[j].at < Window - MaxDelay
               PROVE  j \in members'
    BY DEF Remembered
  <2>2. CASE j # i
    <3>1. /\ j \in Calls /\ ~ Waiting(j) /\ Waiting(i)
          /\ time - attempts[j].at < Window - MaxDelay
      BY <2>2, ExecuteEffect DEF RateInv, Waiting
    <3>2. j \in members
      BY <3>1 DEF RateInv, Remembered
    <3>3. /\ attempts[j].at <= attempts[j].now + MaxDelay
          /\ attempts[i].now <= time /\ time < expires
      <4>1. /\ attempts[j].at <= attempts[j].now + MaxDelay
            /\ attempts[i].now <= time /\ attempts[j].at + Window <= expires
        BY <3>1 DEF RateInv, Timely
      <4> QED
        BY <1>1, <3>1, <4>1, LimiterAssumption DEF Call
    <3>4. attempts[j].now > attempts[i].now - Window
      BY <1>1, <3>1, <3>3, LimiterAssumption DEF Call
    <3> QED
      BY <3>2, <3>3, <3>4, ExecuteEffect DEF RateInv
  <2> QED
    BY <2>2, ExecuteEffect DEF RateInv
<1> QED
  BY <1>2, <1>3

\* A new call waits: it is not counted yet.
LEMMA StampStep == RateInv /\ LimiterTypeOK' /\ Stamp => RateInv'
<1> SUFFICES ASSUME RateInv, LimiterTypeOK', Stamp PROVE RateInv'
  OBVIOUS
<1> DEFINE new == Len(attempts) + 1
<1>1. /\ Calls' = Calls \cup {new} /\ new \notin Calls
      /\ \A j \in Calls : attempts'[j] = attempts[j]
      /\ attempts'[new] = [now |-> time, at |-> 0, allowed |-> FALSE]
      /\ time' = time /\ members' = members /\ expires' = expires
      /\ time \in Nat
  BY DEF Stamp, RateInv, LimiterTypeOK, Calls
<1>2. Timely'
  BY <1>1, LimiterAssumption DEF RateInv, Timely, Waiting
<1>3. Remembered'
  BY <1>1 DEF RateInv, Remembered, Waiting
<1>4. ASSUME NEW t, NEW length PROVE Allowed(t, length)' = Allowed(t, length)
  BY <1>1 DEF Allowed
<1>5. RateBounded'
  BY <1>1, <1>4 DEF RateInv, RateBounded
<1> QED
  BY <1>2, <1>3, <1>5 DEF RateInv

\* A window that ends at the new second holds no more than the one before.
LEMMA TimePassesStep == RateInv /\ LimiterTypeOK' /\ TimePasses => RateInv'
<1> SUFFICES ASSUME RateInv, LimiterTypeOK', TimePasses PROVE RateInv'
  OBVIOUS
<1> USE DEF RateInv
<1>1. /\ time' = time + 1 /\ time \in Nat \ {0} /\ Calls' = Calls
      /\ attempts' = attempts /\ members' = members /\ expires' = expires
      /\ expires \in Nat
      /\ \A j \in Calls : attempts[j] \in Call
      /\ \A j \in Calls : Waiting(j) => time < attempts[j].now + MaxDelay
  BY DEF TimePasses, LimiterTypeOK, Calls
<1>2. Timely'
  BY <1>1, LimiterAssumption DEF Timely, Waiting, Call
<1>3. Remembered'
  <2>1. ASSUME NEW j \in Calls', ~ Waiting(j)',
               time' - attempts'[j].at < Window - MaxDelay
        PROVE  j \in members'
    <3>1. j \in Calls /\ ~ Waiting(j) /\ time + 1 - attempts[j].at < Window - MaxDelay
      <4>1. /\ attempts' = attempts /\ Calls' = Calls /\ time' = time + 1
        BY <1>1
      <4>2. j \in Calls /\ attempts[j].at # 0
        BY <2>1, <4>1 DEF Waiting
      <4>3. time + 1 - attempts[j].at < Window - MaxDelay
        BY <1>1, <2>1, <4>1, <4>2 DEF Call
      <4> QED
        BY <4>2, <4>3 DEF Waiting
    <3>2. time - attempts[j].at < Window - MaxDelay
      BY <1>1, <3>1, LimiterAssumption DEF Call
    <3> QED
      BY <1>1, <3>1, <3>2 DEF Remembered
  <2> QED
    BY <2>1 DEF Remembered
<1>4. RateBounded'
  <2> DEFINE length == Window - MaxDelay
  <2>0. length \in Int /\ Limit \in Nat
    BY LimiterAssumption
  <2> SUFFICES ASSUME NEW t \in 1 .. time'
               PROVE  Cardinality(Allowed(t, length)') <= Limit
    BY DEF RateBounded, Allowed
  <2>1. CASE t \in 1 .. time
    <3>1. Allowed(t, length)' = Allowed(t, length)
      BY <1>1 DEF Allowed
    <3> QED
      BY <2>1, <3>1 DEF RateBounded
  <2>2. CASE t = time + 1
    <3>1. ASSUME NEW i \in Allowed(t, length)' PROVE i \in Allowed(time, length)
      <4>1. i \in Calls /\ attempts[i].allowed /\ t - length < attempts[i].at
        BY <1>1, <3>1 DEF Allowed
      <4>2. attempts[i].at <= time
        BY <1>1, <4>1 DEF Timely
      <4> QED
        BY <1>1, <2>0, <2>2, <4>1, <4>2 DEF Allowed, Call
    <3>2. IsFiniteSet(Allowed(time, length))
      BY AllowedFinite
    <3>3. /\ IsFiniteSet(Allowed(t, length)')
          /\ Cardinality(Allowed(t, length)') <= Cardinality(Allowed(time, length))
      BY <3>1, <3>2, FS_Subset
    <3>4. Cardinality(Allowed(time, length)) <= Limit
      BY <1>1 DEF RateBounded
    <3> HIDE DEF length
    <3> QED
      BY <2>0, <3>2, <3>3, <3>4, FS_CardinalityType
  <2> QED
    BY <1>1, <2>1, <2>2
<1> QED
  BY <1>2, <1>3, <1>4

\* Between two executions of the same key, no interleaving of the workers
\* lets more than Limit calls through in Window - MaxDelay seconds.
THEOREM RateBoundedCorrect == LimiterSpec => []RateBounded
<1>1. LimiterInit => RateInv
  <2> SUFFICES ASSUME LimiterInit PROVE RateInv
    OBVIOUS
  <2>1. LimiterTypeOK /\ Calls = {}
    BY DEF LimiterInit, LimiterTypeOK, Calls
  <2>2. Timely /\ Remembered
    BY <2>1 DEF Timely, Remembered
  <2>3. RateBounded
    <3>1. \A t, length : Allowed(t, length) = {}
      BY <2>1 DEF Allowed
    <3> QED
      BY <3>1, FS_EmptySet, LimiterAssumption DEF RateBounded
  <2> QED
    BY <2>1, <2>2, <2>3 DEF RateInv
<1>2. RateInv /\ [LimiterNext]_limiterVars => RateInv'
  <2> SUFFICES ASSUME RateInv, [LimiterNext]_limiterVars PROVE RateInv'
    OBVIOUS
  <2>1. LimiterTypeOK'
    BY LimiterTypeStep DEF RateInv
  <2>2. CASE Stamp
    BY <2>1, <2>2, StampStep
  <2>3. CASE \E i \in Calls : Execute(i)
    BY <2>1, <2>3, ExecuteBounded, ExecuteRemembers DEF RateInv
  <2>4. CASE TimePasses
    BY <2>1, <2>4, TimePassesStep
  <2>5. CASE UNCHANGED limiterVars
    BY <2>5 DEF limiterVars, RateInv, LimiterTypeOK, Timely, Remembered, RateBounded, Allowed,
                Calls, Waiting
  <2> QED
    BY <2>2, <2>3, <2>4, <2>5 DEF LimiterNext
<1>3. RateInv => RateBounded
  BY DEF RateInv
<1> QED
  BY <1>1, <1>2, <1>3, PTL DEF LimiterSpec
=============================================================================

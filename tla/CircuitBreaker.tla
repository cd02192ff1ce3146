--------------------------- MODULE CircuitBreaker ---------------------------
(***************************************************************************)
(* persist/circuit_breaker.py: the breaker in front of a backend, called   *)
(* by several threads at once, since no lock guards its two fields.        *)
(*                                                                         *)
(* A step is what one thread does between two calls: a thread switch       *)
(* happens at a call (of the clock, of the backend), not in the middle of  *)
(* a line that only reads and writes the fields.                           *)
(*                                                                         *)
(* Init and the like have a name of their own here, so that the proofs can *)
(* extend this module together with FileBackend, whose runner calls it.    *)
(*                                                                         *)
(* ExpiredAtOnce, TriageDiskOnly and ReachedLate are faults that the       *)
(* properties find.                                                        *)
(***************************************************************************)
EXTENDS Integers, FiniteSets

CONSTANTS
    Callers,          \* the threads that call the breaker
    Threshold,        \* config.threshold
    RecoveryTimeout,  \* config.recovery_timeout, in ticks of the clock
    RetryOnQueueFull, \* config.retry_on_queue_full
    Kinds,            \* the kinds of error the backend raises
    MaxTime,          \* bound: the clock stops here
    MaxFailures       \* bound: on the count of failures

Unset == -1

Transient == {"rate_limited", "unavailable", "timeout", "unknown"}
Permanent == {"bad_request", "unauthorized", "os_error", "thread_died"}

ASSUME BreakerAssumption ==
    /\ Threshold \in Nat \ {0}
    /\ RecoveryTimeout \in Nat
    /\ RetryOnQueueFull \in BOOLEAN
    /\ Kinds \subseteq Transient \cup Permanent \cup {"queue_full"}
    /\ MaxTime \in Nat /\ MaxFailures \in Nat

VARIABLES
    now,       \* time.monotonic()
    failures,  \* _failures
    openSince, \* _open_since
    at,        \* at[c]: where call() stands in thread c
    seen,      \* seen[c]: the clock as c has last read it
    error,     \* error[c]: what the backend answered c: a kind, or "none"
    result,    \* result[c]: how c's last call ended
    streak,    \* history: calls that ended in an error since the last success
    opened     \* history: _open_since has been set since then

history == <<streak, opened>>
breakerVars == <<now, failures, openSince, at, seen, error, result, history>>

Results == {"none", "ok", "refused", "type_error", "transient", "fatal", "other"}

BreakerTypeOK ==
    /\ now \in Nat
    /\ failures \in Nat
    /\ openSince \in Nat \cup {Unset}
    /\ at \in [Callers -> {"idle", "clock", "judge", "fn", "won", "lost", "stamp"}]
    /\ seen \in [Callers -> Nat]
    /\ error \in [Callers -> Kinds \cup {"none"}]
    /\ result \in [Callers -> Results]
    /\ streak \in Nat
    /\ opened \in BOOLEAN

BreakerInit ==
    /\ now = 0 /\ failures = 0 /\ openSince = Unset
    /\ at = [c \in Callers |-> "idle"]
    /\ seen = [c \in Callers |-> 0]
    /\ error = [c \in Callers |-> "none"]
    /\ result = [c \in Callers |-> "none"]
    /\ streak = 0 /\ opened = FALSE

Proceed(c, place) == at' = [at EXCEPT ![c] = place]

End(c, how) == Proceed(c, "idle") /\ result' = [result EXCEPT ![c] = how]

-----------------------------------------------------------------------------
(***************************************************************************)
(* _is_open.                                                               *)
(***************************************************************************)
Enter(c) ==
    /\ at[c] = "idle"
    /\ Proceed(c, IF openSince = Unset THEN "fn" ELSE "clock")
    /\ result' = [result EXCEPT ![c] = "none"]
    /\ UNCHANGED <<now, failures, openSince, seen, error, history>>

ReadClock(c) ==
    /\ at[c] = "clock"
    /\ seen' = [seen EXCEPT ![c] = now]
    /\ Proceed(c, "judge")
    /\ UNCHANGED <<now, failures, openSince, error, result, history>>

ExpiredAtOnce(c) == seen[c] - openSince >= RecoveryTimeout
Expired(c) == seen[c] - openSince > RecoveryTimeout

\* The field is read again after the clock: the subtraction raises TypeError
\* when another thread has closed the breaker in between.
Judge(c) ==
    /\ at[c] = "judge"
    /\ \/ /\ openSince = Unset
          /\ End(c, "type_error")
          /\ UNCHANGED openSince
       \/ /\ openSince # Unset /\ Expired(c)
          /\ openSince' = Unset
          /\ Proceed(c, "fn")
          /\ UNCHANGED result
       \/ /\ openSince # Unset /\ ~Expired(c)
          /\ End(c, "refused")
          /\ UNCHANGED openSince
    /\ UNCHANGED <<now, failures, seen, error, history>>

-----------------------------------------------------------------------------
(***************************************************************************)
(* call.                                                                   *)
(***************************************************************************)

\* The backend answers: with success, with one of its own errors, or with an
\* exception that is none of them, which passes through.
Answer(c) ==
    /\ at[c] = "fn"
    /\ \/ /\ error' = [error EXCEPT ![c] = "none"]
          /\ Proceed(c, "won")
          /\ UNCHANGED result
       \/ /\ failures + Cardinality({d \in Callers : at[d] = "lost"}) < MaxFailures
          /\ \E k \in Kinds : error' = [error EXCEPT ![c] = k]
          /\ Proceed(c, "lost")
          /\ UNCHANGED result
       \/ /\ End(c, "other")
          /\ UNCHANGED error
    /\ UNCHANGED <<now, failures, openSince, seen, history>>

Succeed(c) ==
    /\ at[c] = "won"
    /\ failures' = 0
    /\ End(c, "ok")
    /\ streak' = 0 /\ opened' = FALSE
    /\ UNCHANGED <<now, openSince, seen, error>>

TriageDiskOnly(kind) ==
    IF kind \in Transient \/ (kind = "queue_full" /\ RetryOnQueueFull) THEN "transient"
    ELSE IF kind \in (Permanent \ {"thread_died"}) \cup {"queue_full"} THEN "fatal"
    ELSE "ok"

\* What call() raises for a kind of error; for a kind it does not list it
\* returns as if nothing had happened.
Triage(kind) ==
    IF kind \in Transient \/ (kind = "queue_full" /\ RetryOnQueueFull) THEN "transient"
    ELSE IF kind \in Permanent \cup {"queue_full"} THEN "fatal"
    ELSE "ok"

ReachedLate(n) == n > Threshold
Reached(n) == n >= Threshold

\* The failure is counted; at the threshold the clock is read.
Count(c) ==
    /\ at[c] = "lost"
    /\ failures' = failures + 1
    /\ IF Reached(failures + 1)
       THEN /\ seen' = [seen EXCEPT ![c] = now]
            /\ Proceed(c, "stamp")
            /\ UNCHANGED <<result, history>>
       ELSE /\ End(c, Triage(error[c]))
            /\ streak' = streak + 1
            /\ UNCHANGED <<seen, opened>>
    /\ UNCHANGED <<now, openSince, error>>

Stamp(c) ==
    /\ at[c] = "stamp"
    /\ openSince' = seen[c]
    /\ End(c, Triage(error[c]))
    /\ streak' = streak + 1 /\ opened' = TRUE
    /\ UNCHANGED <<now, failures, seen, error>>

Tick ==
    /\ now < MaxTime
    /\ now' = now + 1
    /\ UNCHANGED <<failures, openSince, at, seen, error, result, history>>

-----------------------------------------------------------------------------
Call(c) ==
    \/ Enter(c) \/ ReadClock(c) \/ Judge(c)
    \/ Answer(c) \/ Succeed(c) \/ Count(c) \/ Stamp(c)

BreakerNext == Tick \/ \E c \in Callers : Call(c)

BreakerSpec == BreakerInit /\ [][BreakerNext]_breakerVars

-----------------------------------------------------------------------------
\* After Threshold failures in a row, counted over all threads, the breaker has
\* been opened, whatever order the threads count, stamp and reset in.
OpensAtThreshold == streak >= Threshold => opened

\* call() returns normally only when the backend did its work: no kind of error
\* that a backend raises falls through the triage.
ReturnMeansDone == \A c \in Callers : result[c] = "ok" => error[c] = "none"

\* The breaker closes only when the timeout has passed since the stamp it
\* carries at that moment, which another thread may have renewed.
ClosesAfterTimeout ==
    [][openSince # Unset /\ openSince' = Unset => now - openSince > RecoveryTimeout]_breakerVars

=============================================================================

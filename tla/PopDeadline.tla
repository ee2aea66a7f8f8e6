---------------------------- MODULE PopDeadline ----------------------------
(***************************************************************************)
(* cf_async_queue_pop: the deadline it computes from the time of day, in   *)
(* microseconds, and the timeout, in milliseconds, and what a timed wait   *)
(* answers to it on an empty queue.  The sum of the nanoseconds is brought *)
(* back under a second by a comparison and a subtraction.                  *)
(***************************************************************************)
EXTENDS Integers

CONSTANTS
    Secs,           \* the values of now.tv_sec
    Usecs,          \* the values of now.tv_usec
    Timeouts,       \* the values of m_timeout
    Microsecond, Millisecond, Second    \* in nanoseconds

ASSUME UnitsAssumption ==
    /\ Microsecond \in Nat /\ Millisecond \in Nat /\ Second \in Nat
    /\ Millisecond = 1000 * Microsecond /\ Second = 1000 * Millisecond
ASSUME ClockAssumption ==
    Secs \subseteq Nat /\ Usecs \subseteq {u \in Nat : u * Microsecond < Second}
ASSUME TimeoutAssumption == Timeouts \subseteq Nat

VARIABLES
    now,            \* what gettimeofday returned
    timeout,        \* m_timeout
    time,           \* the deadline
    ret             \* what pthread_cond_timedwait returned

vars == <<now, timeout, time, ret>>

Init ==
    /\ now \in [tv_sec : Secs, tv_usec : Usecs]
    /\ timeout \in Timeouts
    /\ time = [tv_sec |-> 0, tv_nsec |-> 0]
    /\ ret = "none"

\* Mutants: the second is not carried; the nanoseconds are not brought back.
NormaliseWithoutCarry(sec, nsec) ==
    [tv_sec |-> sec, tv_nsec |-> IF nsec > Second THEN nsec - Second ELSE nsec]
NormaliseNever(sec, nsec) == [tv_sec |-> sec, tv_nsec |-> nsec]

\* The carry into the seconds.
Normalise(sec, nsec) ==
    IF nsec > Second THEN [tv_sec |-> sec + 1, tv_nsec |-> nsec - Second]
                     ELSE [tv_sec |-> sec, tv_nsec |-> nsec]

Compute ==
    /\ ret = "none"
    /\ time' = Normalise(now.tv_sec + timeout \div 1000,
                         now.tv_usec * Microsecond + (timeout % 1000) * Millisecond)
    /\ ret' = "computed"
    /\ UNCHANGED <<now, timeout>>

\* POSIX: a timespec whose nanoseconds do not fit in a second is refused at
\* once; otherwise the wait of an empty queue ends at the deadline.
TimedWait ==
    /\ ret = "computed"
    /\ ret' = IF time.tv_nsec < Second THEN "ETIMEDOUT" ELSE "EINVAL"
    /\ UNCHANGED <<now, timeout, time>>

Next == Compute \/ TimedWait

Spec == Init /\ [][Next]_vars

Computed == ret # "none"

\* The deadline is exactly the timeout away from now, the carry included.  The
\* difference is taken second by second, so that it stays small.
DeadlineExact ==
    Computed => time.tv_nsec - now.tv_usec * Microsecond
                  = (timeout - 1000 * (time.tv_sec - now.tv_sec)) * Millisecond

\* The nanoseconds never exceed a second, and the only deadline that the timed
\* wait refuses is the one that lies exactly on a second.
RefusedOnTheSecond ==
    Computed => /\ time.tv_nsec \in 0 .. Second
                /\ ret = "EINVAL" => time.tv_nsec = Second

\* The comment in the code: comparison, addition and subtraction take the place
\* of division and remainder.  They do except when the sum is one second.
NormalisedAsByDivision ==
    Computed =>
      LET nsec == now.tv_usec * Microsecond + (timeout % 1000) * Millisecond
      IN  time = [tv_sec |-> now.tv_sec + timeout \div 1000 + nsec \div Second,
                  tv_nsec |-> nsec % Second]
=============================================================================

------------------------------ MODULE Backoff ------------------------------
(***************************************************************************)
(* The delays of the retries of one message (kojin-core/src/backoff.rs).   *)
(* Seconds are unsigned words of Width bits, 64 in the code.               *)
(***************************************************************************)
EXTENDS Naturals

CONSTANTS Width, MaxRetry   \* MaxRetry: bound on the retries looked at

VARIABLES
    strategy,   \* [kind: fixed or exponential, base, max]
    retry,      \* message.retries - 1
    delay       \* the sleep of handle_failure

vars == <<strategy, retry, delay>>

\* Two to the n.
TwoTo[n \in Nat] == IF n = 0 THEN 1 ELSE 2 * TwoTo[n - 1]

MaxWord == TwoTo[Width] - 1
Word == 0..MaxWord

Strategies == [kind : {"fixed", "exponential"}, base : Word, max : Word]

Lesser(x, y) == IF x < y THEN x ELSE y

\* Mutant of CheckedShl: a shift by the width wraps around to no shift.
WrappingShl(n) == TwoTo[n % Width]

\* 1u64.checked_shl(retry).unwrap_or(u64::MAX)
CheckedShl(n) == IF n < Width THEN TwoTo[n] ELSE MaxWord

SaturatingMul(x, y) == Lesser(x * y, MaxWord)

DelayFor(s, n) ==
    IF s.kind = "fixed" THEN s.base ELSE Lesser(SaturatingMul(s.base, CheckedShl(n)), s.max)

Init ==
    /\ strategy \in Strategies
    /\ retry = 0
    /\ delay = DelayFor(strategy, 0)

Next ==
    /\ retry < MaxRetry
    /\ retry' = retry + 1
    /\ delay' = DelayFor(strategy, retry')
    /\ UNCHANGED strategy

Spec == Init /\ [][Next]_vars

DelayConstants == Width \in Nat \ {0} /\ MaxRetry \in Nat

-----------------------------------------------------------------------------
\* For every retry, beyond the width of a word too, the delay is what the
\* documentation of Exponential says without a limit on numbers: base_secs times
\* two to the retry, capped at max_secs.
DelayIsExact ==
    delay = IF strategy.kind = "fixed" THEN strategy.base
            ELSE Lesser(strategy.base * TwoTo[retry], strategy.max)
=============================================================================

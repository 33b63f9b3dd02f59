------------------------------- MODULE Backoff ------------------------------
(***************************************************************************)
(* calcRetryInterval (internal/engine/engine.go): the wait before a retry, *)
(* in seconds.  Go's int is a two's complement integer of IntBits bits;    *)
(* the shift and the product wrap around.                                  *)
(***************************************************************************)
EXTENDS Integers

CONSTANT IntBits    \* 64 on the supported platforms, less for model checking

ASSUME IntBitsAssumption == IntBits \in Nat \ {0}

MaxWait == 300      \* "5 minutes"

(* The integer of IntBits bits that the low bits of x stand for. *)
Wrapped(x) == ((x + 2^(IntBits - 1)) % 2^IntBits) - 2^(IntBits - 1)

(* 1 << (attempt - 1): zero once the one is shifted out. *)
Multiplier(attempt) ==
    IF attempt - 1 < IntBits THEN Wrapped(2^(attempt - 1)) ELSE 0

(* interval * 2^(attempt-1), and the cap. *)
Capped(interval) == IF interval > MaxWait THEN MaxWait ELSE interval

(* Mutant of Interval: the cap is put on the base. *)
IntervalBaseCapped(attempt, base) == Wrapped(Capped(base) * Multiplier(attempt))

Interval(attempt, base) == Capped(Wrapped(base * Multiplier(attempt)))

(* A jitter of 75 % to 125 % (0.75 + 0.5 * rand may round to 1.25), rounded *)
(* down to whole seconds.                                                   *)
Jittered(interval) == (3 * interval) \div 4 .. (5 * interval) \div 4

(* The waits calcRetryInterval may return; executeActions sleeps only for *)
(* a positive one, so a negative interval is no wait.                      *)
RetryWaits(attempt, base) ==
    IF base <= 0 \/ Interval(attempt, base) < 0
    THEN {0}
    ELSE Jittered(Interval(attempt, base))

=============================================================================

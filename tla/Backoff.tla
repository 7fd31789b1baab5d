------------------------------ MODULE Backoff ------------------------------
(***************************************************************************)
(* How long the two background workers wait after failures: bounded_backoff *)
(* of initiative/worker.rs and of sleep_worker.rs.  Durations are numbers  *)
(* up to DurationMax, the largest one the type Duration holds.             *)
(***************************************************************************)
EXTENDS Naturals

CONSTANTS
    DurationMax,  \* Duration::MAX
    MaxFailures   \* u32::MAX, where the count of failures stays

ASSUME DurationAssumption == DurationMax \in Nat \ {0}
ASSUME FailuresAssumption == MaxFailures \in Nat \ {0}

(* A Duration has far fewer bits than a u32 counts failures: however short the initial
   delay, it is past every maximum before the count stays where it is. *)
ASSUME EnoughFailures == 2 ^ MaxFailures >= DurationMax

Smaller(a, b) == IF a < b THEN a ELSE b

(* checked_add(..).unwrap_or(maximum).min(maximum). *)
Doubled(delay, maximum) ==
    IF delay + delay > DurationMax THEN maximum ELSE Smaller(delay + delay, maximum)

(* Mutant of BoundedBackoff: the addition wraps around. *)
BoundedBackoffWrapping(initial, maximum, exponent) ==
    LET delay[n \in 0..exponent] ==
            IF n = 0 THEN initial
            ELSE Smaller((delay[n - 1] + delay[n - 1]) % (DurationMax + 1), maximum)
    IN delay[exponent]

(* The initiative worker doubles before it looks whether to stop. *)
BoundedBackoff(initial, maximum, exponent) ==
    LET delay[n \in 0..exponent] ==
            IF n = 0 THEN initial ELSE Doubled(delay[n - 1], maximum)
    IN delay[exponent]

(* The Sleep worker looks first. *)
SleepBackoff(initial, maximum, exponent) ==
    LET delay[n \in 0..exponent] ==
            IF n = 0 THEN initial
            ELSE IF delay[n - 1] < maximum THEN Doubled(delay[n - 1], maximum)
                                           ELSE delay[n - 1]
    IN delay[exponent]

(* InitiativeWorkerConfig::validate, and SleepWorkerConfig::validate alike. *)
ValidConfig(initial, maximum) == initial > 0 /\ maximum >= initial

(* saturating_add. *)
OneMore(failures) == Smaller(failures + 1, MaxFailures)
=============================================================================

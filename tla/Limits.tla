------------------------------- MODULE Limits -------------------------------
(***************************************************************************)
(* How long a token or a code may live: the ceilings of                    *)
(* internal/token/limits.go and internal/otp/otp.go, and the conversion of *)
(* "a number and a unit" in internal/ttl/ttl.go.  A Go duration is an      *)
(* int64 of ticks, time.Second of them to the second; every product here   *)
(* wraps around as int64 does, in a word whose size is a parameter.        *)
(* Null stands for the error a validator returns.                          *)
(***************************************************************************)
EXTENDS Integers

CONSTANTS
    Null,
    Second,          \* time.Second
    MaxInt,          \* the largest int64
    AbsoluteMaxTTL,  \* the ceiling no configuration can raise
    DefaultMaxTTL,   \* the ceiling where none is configured
    Units            \* ttl.Units: the seconds of each

ASSUME LimitsAssumption ==
    /\ Null \notin Int
    /\ Second \in Nat \ {0}
    /\ MaxInt \in Nat
    /\ AbsoluteMaxTTL \in 1 .. MaxInt
    /\ DefaultMaxTTL \in 1 .. AbsoluteMaxTTL
    /\ Units \subseteq 1 .. MaxInt

Int64 == -MaxInt - 1 .. MaxInt

(* The int64 a result is stored as. *)
Wrap(x) == ((x + MaxInt + 1) % (2 * (MaxInt + 1))) - (MaxInt + 1)

(* NewLimits: what the process makes of the configured ceiling. *)
NewLimits(maxTTL) ==
    IF maxTTL <= 0 THEN DefaultMaxTTL
    ELSE IF maxTTL > AbsoluteMaxTTL THEN AbsoluteMaxTTL
    ELSE maxTTL

(* Limits.Ceiling, of limits made by hand as well as by NewLimits. *)
Ceiling(maxTTL) ==
    IF maxTTL > AbsoluteMaxTTL \/ maxTTL <= 0 THEN AbsoluteMaxTTL ELSE maxTTL

(* ValidateTTL: the lifetime a machine asks for, in seconds. *)
ValidateTTL(seconds, ceiling) ==
    IF seconds > 0 /\ seconds <= ceiling \div Second THEN Wrap(seconds * Second) ELSE Null

(* A slip: the product of number and unit is compared, not the number. *)
Parse_Built(n, unit, ceiling) ==
    IF n >= 1 /\ unit \in Units /\ Wrap(n * unit) <= ceiling \div Second
    THEN Wrap(Wrap(n * unit) * Second) ELSE Null

(* ttl.Parse: the lifetime an operator types, once it is a whole number.   *)
Parse(n, unit, ceiling) ==
    IF n >= 1 /\ unit \in Units /\ n <= (ceiling \div Second) \div unit
    THEN Wrap(Wrap(n * unit) * Second) ELSE Null
=============================================================================

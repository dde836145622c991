-------------------------- MODULE WrappingIntegers --------------------------
(***************************************************************************)
(* Sequence numbers (libsponge/wrapping_integers.hh, wrapping_integers.cc).*)
(* TCP numbers the bytes of a stream with 32-bit integers that wrap around *)
(* and start at an arbitrary isn; the program counts them with 64-bit      *)
(* "absolute" numbers that start at zero.  The widths are parameters, so   *)
(* that a small instance wraps around several times.                       *)
(***************************************************************************)
EXTENDS Integers

CONSTANTS
    Mod32,   \* 2^32: the number of values of a uint32_t
    Mod64    \* 2^64: the number of values of a uint64_t

\* The int of the same width as an unsigned one with mod values.
AsSigned(x, mod) == IF x % mod >= mod \div 2 THEN (x % mod) - mod ELSE x % mod

wrap(n, isn) == ((n % Mod32) + isn) % Mod32

\* operator-(WrappingInt32, WrappingInt32): how far b has to go to reach a.
difference(a, b) == AsSigned(a - b, Mod32)

\* Mutant: unwrap without the repair of a negative result.
UnwrapNoRepair(n, isn, checkpoint) ==
    (checkpoint + difference(n, wrap(checkpoint, isn))) % Mod64
unwrap(n, isn, checkpoint) ==
    LET res == AsSigned(checkpoint + difference(n, wrap(checkpoint, isn)), Mod64)
    IN  (IF res < 0 THEN res + Mod32 ELSE res) % Mod64
=============================================================================

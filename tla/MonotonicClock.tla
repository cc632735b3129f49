--------------------------- MODULE MonotonicClock ---------------------------
(***************************************************************************)
(* monotonic_clock::time_point (src/include/monotonic_clock.hpp): a       *)
(* seconds part and a nanoseconds part, kept normalized so that both have *)
(* the same sign and the nanoseconds part is below one second.            *)
(*                                                                         *)
(* Durations and the nanoseconds part are counted in ticks of the model's *)
(* clock; nanoseconds_per_second is the number of ticks in a second,      *)
(* scaled down so that carries and borrows between the two parts happen  *)
(* within a few ticks.  The operators are pure; TimerLoop uses them for    *)
(* every deadline and clock reading of the timer subsystem.               *)
(***************************************************************************)
EXTENDS Integers

CONSTANT nanoseconds_per_second

ASSUME nanoseconds_per_second \in Nat \ {0}

\* C++ integer division of signed values truncates toward zero.
trunc_div(a, b) == IF a >= 0 THEN a \div b ELSE -((-a) \div b)

TimePointOf(s, n) == [seconds |-> s, nanoseconds |-> n]

\* time_point(): both parts zero.
epoch == TimePointOf(0, 0)

\* normalize(): carry the whole seconds out of the nanoseconds part, then
\* borrow one second so that the two parts do not have opposite signs.
normalize(s, n) ==
  LET extra == trunc_div(n, nanoseconds_per_second)
      s1    == s + extra
      n1    == n - extra * nanoseconds_per_second
  IN CASE s1 < 0 /\ n1 > 0 -> TimePointOf(s1 + 1, n1 - nanoseconds_per_second)
       [] s1 > 0 /\ n1 < 0 -> TimePointOf(s1 - 1, n1 + nanoseconds_per_second)
       [] OTHER            -> TimePointOf(s1, n1)

from_seconds_and_nanoseconds(s, n) == normalize(s, n)

\* duration_cast<seconds>(d) and duration_cast<nanoseconds>(d - whole).
whole_seconds(d) == trunc_div(d, nanoseconds_per_second)
remainder_nanoseconds(d) == d - whole_seconds(d) * nanoseconds_per_second

\* operator+(tp, d) through operator+=.
plus(tp, d) ==
  normalize(tp.seconds + whole_seconds(d), tp.nanoseconds + remainder_nanoseconds(d))

\* operator-(tp, d) through operator-=.
minus(tp, d) ==
  normalize(tp.seconds - whole_seconds(d), tp.nanoseconds - remainder_nanoseconds(d))

\* Mutant: the parts are compared nanoseconds first.
less_nanos_first(a, b) ==
  IF a.nanoseconds = b.nanoseconds THEN a.seconds < b.seconds
  ELSE a.nanoseconds < b.nanoseconds

\* operator<: seconds first, the nanoseconds part breaking a tie.
less(a, b) ==
  IF a.seconds = b.seconds THEN a.nanoseconds < b.nanoseconds
  ELSE a.seconds < b.seconds

\* operator<= is !(b < a).
less_eq(a, b) == ~less(b, a)

\* monotonic_clock::now(): clock_gettime(CLOCK_MONOTONIC) read as a
\* timespec of k ticks, turned into a time_point.
clock_now(k) ==
  from_seconds_and_nanoseconds(k \div nanoseconds_per_second, k % nanoseconds_per_second)
=============================================================================

----------------------------- MODULE Timestamps -----------------------------
(***************************************************************************)
(* RFC 3339 instants and the ticks of a DateTime64(9) column, in both      *)
(* directions (_timestamps.py).  A text is a count of civil seconds, an    *)
(* offset in seconds and the digits of the fraction, which may be missing. *)
(***************************************************************************)
EXTENDS Integers, Sequences

CONSTANTS
  Base,         \* 10
  Digits,       \* digits of a tick, 9
  MicroDigits,  \* digits of a microsecond, 6
  TickLimit     \* ticks are signed 64-bit integers, 2^63

ASSUME TimestampsAssumption ==
  /\ Base \in Nat \ {0, 1} /\ TickLimit \in Nat \ {0}
  /\ MicroDigits \in Nat \ {0} /\ Digits \in Nat /\ MicroDigits < Digits

\* Base to the power of n
Power[n \in Nat] == IF n = 0 THEN 1 ELSE Base * Power[n - 1]

TicksPerSecond == Power[Digits]
TicksPerMicro == Power[Digits - MicroDigits]

Ticks == -TickLimit..(TickLimit - 1)

Text(civil, offset, fraction) == [civil |-> civil, offset |-> offset, fraction |-> fraction]

-----------------------------------------------------------------------------
Fractions == {digits \in Seq(0..(Base - 1)) : Len(digits) <= Digits}

\* The number a string of digits spells.
Number(digits) ==
  LET spelled[n \in 0..Len(digits)] == IF n = 0 THEN 0 ELSE spelled[n - 1] * Base + digits[n]
  IN  spelled[Len(digits)]

Zeros(n) == [i \in 1..n |-> 0]

\* Plausible mistake: the fraction is read as a number of ticks.
PaddedLeft(digits) == Zeros(Digits - Len(digits)) \o digits

\* ljust
Padded(digits) == digits \o Zeros(Digits - Len(digits))

\* timestamp_nanoseconds, before its range check
TicksOf(text) == (text.civil - text.offset) * TicksPerSecond + Number(Padded(text.fraction))

DigitsOf(n, count) == [i \in 1..count |-> (n \div Power[count - i]) % Base]

\* divmod rounds down, also before 1970
Seconds(ticks) == ticks \div TicksPerSecond

Nanos(ticks) == ticks % TicksPerSecond

\* timestamp_text with parameter=True
ParameterText(ticks) == Text(Seconds(ticks), 0, DigitsOf(Nanos(ticks), Digits))

\* timestamp_text for results: whole microseconds keep their old spelling
ResultText(ticks) ==
  LET nanos == Nanos(ticks) IN
  CASE nanos = 0 -> Text(Seconds(ticks), 0, << >>)
    [] nanos # 0 /\ nanos % TicksPerMicro = 0 ->
         Text(Seconds(ticks), 0, DigitsOf(nanos \div TicksPerMicro, MicroDigits))
    [] OTHER -> ParameterText(ticks)

-----------------------------------------------------------------------------
\* The ticks that a fraction is, digit by digit.
Part(fraction) ==
  LET sum[n \in 0..Len(fraction)] ==
        IF n = 0 THEN 0 ELSE sum[n - 1] + fraction[n] * Power[Digits - n]
  IN  sum[Len(fraction)]

\* The instant a text denotes.
Denoted(text) == (text.civil - text.offset) * TicksPerSecond + Part(text.fraction)

=============================================================================

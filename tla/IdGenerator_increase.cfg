\* A 7-bit counter (the int64_t at a width TLC can exhaust), called
\* 2^7 - 1 times: past the signed overflow at call 2^6 and up to the
\* last call before the unsigned wrap.
CONSTANTS
  CounterBits = 7
  MaxCalls = 127

SPECIFICATION Spec

INVARIANT IdsIncrease

\* The callers stop after MaxCalls ids.
CHECK_DEADLOCK FALSE

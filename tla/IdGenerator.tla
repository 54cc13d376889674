------------------------------ MODULE IdGenerator ------------------------------
(***************************************************************************)
(* id_generate(), src/metrics.c: a process-wide static int64_t counter,    *)
(* starting at 0, advanced by __sync_add_and_fetch(&an_id, 1) and returned *)
(* cast to uint64_t.  The builtin is one atomic read-modify-write, so      *)
(* concurrent callers are serialised and each call is one step.  The width *)
(* is a parameter (the code has CounterBits = 64); TLC runs the same       *)
(* arithmetic at a small width, where the signed overflow is reachable.    *)
(***************************************************************************)
EXTENDS Integers, Sequences

CONSTANTS
  CounterBits,   \* width of an_id (int64_t: 64)
  MaxCalls       \* bound: number of calls to id_generate

ASSUME CounterBits \in Nat \ {0} /\ MaxCalls \in Nat

\* Two's-complement wrap of x to a signed integer of the given width.
Signed(bits, x) == ((x + 2^(bits - 1)) % 2^bits) - 2^(bits - 1)

\* Conversion of an integer to an unsigned one of the given width.
Unsigned(bits, x) == x % 2^bits

VARIABLES
  an_id,    \* the static counter
  issued    \* history: the ids returned, in the order the calls took effect

vars == <<an_id, issued>>

\* Mutant: the counter is declared int32_t (half the width); the cast to
\* uint64_t sign-extends it.
add_and_fetch_Narrow(x) == Signed(CounterBits \div 2, x + 1)

\* __sync_add_and_fetch(&an_id, 1) on an int64_t: the new value, wrapped.
add_and_fetch(x) == Signed(CounterBits, x + 1)

\* One call of id_generate: the atomic increment and the cast of its result.
id_generate ==
  /\ Len(issued) < MaxCalls
  /\ an_id' = add_and_fetch(an_id)
  /\ issued' = Append(issued, Unsigned(CounterBits, an_id'))

Init == an_id = 0 /\ issued = <<>>

Next == id_generate

Spec == Init /\ [][Next]_vars

-----------------------------------------------------------------------------

\* The ids id_generate returns grow strictly, so no id repeats, across the
\* signed overflow of an_id (INT64_MAX + 1 wraps to INT64_MIN, which the
\* uint64_t cast turns into 2^63), for all but the last of the 2^64 calls.
IdsIncrease ==
  \A i \in 1 .. Len(issued) - 1 : issued[i] < issued[i + 1]

=============================================================================

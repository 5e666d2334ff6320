--------------------------- MODULE OvisTimeProofs ---------------------------
(***************************************************************************)
(* For every time, period and phase the code accepts, the next wake-up is  *)
(* in the future, at most one period away, and on the grid that the phase  *)
(* fixes.  The scheduler refuses no phase; ldmsd bounds the offset of a    *)
(* sampler by half its interval (ldmsd.c, lines 1076-1077).                *)
(***************************************************************************)
EXTENDS OvisTime, TLAPS

\* Division with remainder, for a positive divisor.
LEMMA DivMod ==
  ASSUME NEW x \in Int, NEW p \in Nat \ {0}
  PROVE  /\ x \div p \in Int
         /\ x % p \in 0..(p - 1)
         /\ x = p * (x \div p) + (x % p)
  BY SMT

\* A multiple of the period leaves no remainder.
LEMMA MultipleOnGrid ==
  ASSUME NEW k \in Int, NEW p \in Nat \ {0}
  PROVE  k * p \in Int /\ (k * p) % p = 0
  BY SMT

\* Between one and two periods, the remainder is what exceeds one period: the
\* case diff > period of set_next_periodic_time().
LEMMA ModJustAbove ==
  ASSUME NEW x \in Int, NEW p \in Nat \ {0}, x - p \in 1..(p - 1)
  PROVE  x % p = x - p
<1> DEFINE q == x \div p
<1>1. q \in Int /\ x % p \in 0..(p - 1) /\ x = p * q + (x % p)
  BY DivMod
<1>2. q <= 0 => p * q <= 0
  BY <1>1
<1>3. q >= 2 => p * q >= p * 2
  BY <1>1
<1> HIDE DEF q
<1>4. q = 1
  BY <1>1, <1>2, <1>3
<1> QED
  BY <1>1, <1>4

\* ROUND() yields a multiple of the period that is not before x and less than
\* a period after it.
LEMMA RoundUpMultiple ==
  ASSUME NEW x \in Nat, NEW p \in Nat \ {0}
  PROVE  \E k \in Int : /\ RoundUp(x, p) = k * p
                        /\ k * p \in x..(x + p - 1)
<1> DEFINE y == x + (p - 1)
           k == y \div p
<1>1. y \in Int
  OBVIOUS
<1>2. k \in Int /\ y % p \in 0..(p - 1) /\ y = p * k + (y % p)
  BY <1>1, DivMod
<1>3. p * k = k * p /\ k * p \in Int
  BY <1>2
<1>4. RoundUp(x, p) = k * p
  BY DEF RoundUp
<1> HIDE DEF k
<1>5. k * p \in x..(x + p - 1)
  BY <1>2, <1>3
<1> QED
  BY <1>2, <1>4, <1>5

\* set_next_periodic_time(): a periodic event is due again strictly after now, at
\* most one period later, and at an instant phase + k * period, so that it never
\* drifts however late it was called.
THEOREM PeriodicNextTime ==
  ASSUME NEW now \in Nat, NEW period \in Nat \ {0},
         NEW phase \in Int, -period < phase, phase <= period
  PROVE  LET t == NextPeriodicTime(now, period, phase)
         IN  /\ t \in (now + 1)..(now + period)
             /\ OnGrid(t, period, phase)
<1> DEFINE t == NextPeriodicTime(now, period, phase)
<1>1. PICK k \in Int : RoundUp(now, period) = k * period /\ k * period \in now..(now + period - 1)
  BY RoundUpMultiple
<1> DEFINE r == k * period
<1>2. r \in Int /\ r \in now..(now + period - 1) /\ RoundUp(now, period) = r
  BY <1>1
<1>a. (k + 1) * period = r + period /\ (k - 1) * period = r - period
  BY <1>1
<1>b. /\ r % period = 0 /\ (r + period) % period = 0 /\ (r - period) % period = 0
  BY <1>1, <1>a, MultipleOnGrid, k + 1 \in Int, k - 1 \in Int
<1> HIDE DEF r
<1>3. CASE r + phase - now <= 0
  <2>1. t = r + period + phase
    BY <1>2, <1>3 DEF NextPeriodicTime
  <2> QED
    BY <2>1, <1>2, <1>3, <1>b DEF OnGrid
<1>4. CASE r + phase - now \in 1..period
  <2>1. t = r + phase
    BY <1>2, <1>4 DEF NextPeriodicTime
  <2> QED
    BY <2>1, <1>2, <1>4, <1>b DEF OnGrid
<1>5. CASE r + phase - now > period
  <2> DEFINE d == r + phase - now
  <2>1. d - period \in 1..(period - 1)
    BY <1>2, <1>5
  <2>2. d % period = d - period
    <3>1. d \in Int
      BY <1>2
    <3> HIDE DEF d
    <3> QED
      BY <3>1, <2>1, ModJustAbove
  <2>3. t = r - period + phase
    BY <1>2, <1>5, <2>2 DEF NextPeriodicTime
  <2> QED
    BY <2>3, <2>1, <1>2, <1>b DEF OnGrid
<1> QED
  BY <1>2, <1>3, <1>4, <1>5

\* resched_task(): a synchronous task waits a positive time that ends at an instant
\* offset + k * period; with an offset that is not positive it waits at most one
\* period.
THEOREM SynchronousTask ==
  ASSUME NEW now \in Nat, NEW period \in Nat \ {0},
         NEW offset \in Int, -period <= offset
  PROVE  LET w == SynchronousWait(now, period, offset)
         IN  /\ w \in Nat \ {0}
             /\ OnGrid(now + w, period, offset)
             /\ offset <= 0 => w <= period
<1> DEFINE w == SynchronousWait(now, period, offset)
           q == now \div period
           m == now % period
<1>1. q \in Int /\ m \in 0..(period - 1) /\ now = period * q + m
  BY DivMod
<1>2. period * q = q * period /\ (q + 1) * period = q * period + period
      /\ (q + 2) * period = q * period + period + period
  BY <1>1
<1>3. /\ q * period \in Int
      /\ (q * period + period) % period = 0
      /\ (q * period + period + period) % period = 0
  BY <1>1, <1>2, MultipleOnGrid, q + 1 \in Int, q + 2 \in Int
<1> DEFINE s == q * period
<1>4. s \in Int /\ now = s + m /\ (s + period) % period = 0 /\ (s + period + period) % period = 0
  BY <1>1, <1>2, <1>3
<1>5. w = IF period - m + offset <= 0 THEN period - m + offset + period ELSE period - m + offset
  BY DEF SynchronousWait
<1> HIDE DEF m, q, s, w
<1>6. CASE period - m + offset <= 0
  <2>1. w = period - m + offset + period
    BY <1>5, <1>6
  <2>2. now + w - offset = s + period + period
    BY <2>1, <1>4, <1>1
  <2> QED
    BY <2>1, <2>2, <1>1, <1>4, <1>6 DEF OnGrid, w
<1>7. CASE period - m + offset > 0
  <2>1. w = period - m + offset
    BY <1>5, <1>7, <1>1
  <2>2. now + w - offset = s + period
    BY <2>1, <1>4, <1>1
  <2> QED
    BY <2>1, <2>2, <1>1, <1>4, <1>7 DEF OnGrid, w
<1> QED
  BY <1>1, <1>6, <1>7
=============================================================================

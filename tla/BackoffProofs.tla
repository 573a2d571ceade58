---------------------------- MODULE BackoffProofs ----------------------------
(***************************************************************************)
(* Proofs about the backoff, for every base delay, every cap and every     *)
(* count of errors: the loop that doubles until it reaches the cap         *)
(* computes the capped power of two, and a resource that keeps failing is  *)
(* backed off at least that long.                                          *)
(*                                                                         *)
(* What a recursive function returns is proved by induction.  The          *)
(* induction is on sets of naturals, from the least element of the         *)
(* complement, so that every step is first-order.                          *)
(***************************************************************************)
EXTENDS Backoff, WellFoundedInduction, TLAPS

-----------------------------------------------------------------------------
(* Induction and recursion *)

\* A set that holds 0 and with every number the next one holds every number.
LEMMA SetInduction ==
  ASSUME NEW S, 0 \in S, \A n \in Nat : n \in S => n + 1 \in S
  PROVE  \A n \in Nat : n \in S
<1> DEFINE T == Nat \ S
           Less == OpToRel(<, Nat)
<1>1. SUFFICES ASSUME T # {} PROVE FALSE
  OBVIOUS
<1>2. PICK x \in T : \A y \in T : <<y, x>> \notin Less
  <2> HIDE DEF T, Less
  <2>1. T \subseteq Nat
    BY DEF T
  <2>2. IsWellFoundedOn(Less, Nat)
    BY NatLessThanWellFounded DEF Less
  <2>. QED  BY <1>1, <2>1, <2>2, WFMin
<1>3. x - 1 \in Nat /\ x - 1 < x /\ (x - 1) + 1 = x
  OBVIOUS
<1>4. x - 1 \notin T
  <2>1. <<x - 1, x>> \in Less
    BY <1>3 DEF OpToRel
  <2>. QED  BY <1>2, <2>1
<1>. QED  BY <1>3, <1>4

Iterates(f, a, step) == f[0] = a /\ \A n \in Nat : f[n + 1] = step[f[n]]

\* A first value and a step define a function on the naturals.
LEMMA Recursion ==
  ASSUME NEW T, NEW a \in T, NEW step \in [T -> T]
  PROVE  \E f \in [Nat -> T] : Iterates(f, a, step)
<1> DEFINE Prefix(n) == {h \in [0 .. n -> T] :
                           h[0] = a /\ \A i \in 0 .. n - 1 : h[i + 1] = step[h[i]]}
<1>1. \A n \in Nat : Prefix(n) # {}
  <2> DEFINE S == {n \in Nat : Prefix(n) # {}}
  <2>1. 0 \in S
    <3>1. [i \in 0 .. 0 |-> a] \in Prefix(0)
      OBVIOUS
    <3>. QED  BY <3>1
  <2>2. ASSUME NEW n \in Nat, n \in S
        PROVE  n + 1 \in S
    <3>1. PICK h \in [0 .. n -> T] :
            h[0] = a /\ \A i \in 0 .. n - 1 : h[i + 1] = step[h[i]]
      BY <2>2
    <3> DEFINE k == [i \in 0 .. n + 1 |-> IF i = n + 1 THEN step[h[n]] ELSE h[i]]
    <3>2. k \in [0 .. n + 1 -> T] /\ k[0] = a
      BY <3>1
    <3>3. ASSUME NEW i \in 0 .. (n + 1) - 1
          PROVE  k[i + 1] = step[k[i]]
      <4>1. CASE i = n
        BY <4>1
      <4>2. CASE i # n
        BY <3>1, <4>2
      <4>. QED  BY <4>1, <4>2
    <3>4. k \in Prefix(n + 1)
      BY <3>2, <3>3
    <3>. QED  BY <3>4
  <2> HIDE DEF S
  <2>3. \A n \in Nat : n \in S
    BY <2>1, <2>2, SetInduction
  <2>. QED  BY <2>3 DEF S
<1> DEFINE h == [n \in Nat |-> CHOOSE g : g \in Prefix(n)]
           f == [n \in Nat |-> h[n][n]]
<1>2. \A n \in Nat : h[n] \in Prefix(n)
  BY <1>1
<1>3. \A m \in Nat : /\ h[m] \in [0 .. m -> T] /\ h[m][0] = a
                     /\ \A i \in 0 .. m - 1 : h[m][i + 1] = step[h[m][i]]
  BY <1>2
<1>4. \A i \in Nat : \A m \in Nat : i <= m => h[m][i] = h[i][i]
  <2> DEFINE S == {i \in Nat : \A m \in Nat : i <= m => h[m][i] = h[i][i]}
  <2> HIDE DEF h
  <2>1. 0 \in S
    BY <1>3
  <2>2. ASSUME NEW i \in Nat, i \in S
        PROVE  i + 1 \in S
    <3>1. ASSUME NEW m \in Nat, i + 1 <= m
          PROVE  h[m][i + 1] = step[h[i][i]]
      <4>1. h[m][i + 1] = step[h[m][i]]
        BY <1>3, <3>1
      <4>2. h[m][i] = h[i][i]
        BY <2>2, <3>1
      <4>. QED  BY <4>1, <4>2
    <3>2. h[i + 1][i + 1] = step[h[i][i]]
      BY <3>1
    <3>. QED  BY <3>1, <3>2
  <2>3. \A i \in Nat : i \in S
    <3> HIDE DEF S
    <3>. QED  BY <2>1, <2>2, SetInduction
  <2>. QED  BY <2>3
<1>5. f \in [Nat -> T] /\ f[0] = a
  <2> HIDE DEF h
  <2>. QED  BY <1>3
<1>6. ASSUME NEW n \in Nat
      PROVE  f[n + 1] = step[f[n]]
  <2> HIDE DEF h
  <2>1. h[n + 1][n + 1] = step[h[n + 1][n]]
    BY <1>3
  <2>2. h[n + 1][n] = h[n][n]
    BY <1>4
  <2>. QED  BY <2>1, <2>2
<1>. QED
  <2> HIDE DEF f
  <2>. QED  BY <1>5, <1>6 DEF Iterates

-----------------------------------------------------------------------------
(* The loop and the power of two *)

\* The recursion equation of the loop, and its type.
LEMMA DoubledDef ==
  ASSUME NEW base \in Nat
  PROVE  /\ Doubled(base) \in [Nat -> Nat] /\ Doubled(base)[0] = base
         /\ \A n \in Nat :
              Doubled(base)[n + 1] = IF Doubled(base)[n] < maxBackoffDelay
                                     THEN 2 * Doubled(base)[n] ELSE Doubled(base)[n]
<1> DEFINE step == [x \in Nat |-> IF x < maxBackoffDelay THEN 2 * x ELSE x]
           Loop(d) == d = [i \in Nat |->
             IF i = 0 THEN base
             ELSE IF d[i - 1] < maxBackoffDelay THEN 2 * d[i - 1] ELSE d[i - 1]]
<1>1. PICK f \in [Nat -> Nat] : f[0] = base /\ \A n \in Nat : f[n + 1] = step[f[n]]
  <2>1. step \in [Nat -> Nat] /\ base \in Nat
    OBVIOUS
  <2> HIDE DEF step
  <2>2. \E f \in [Nat -> Nat] : Iterates(f, base, step)
    BY <2>1, Recursion
  <2>. QED  BY <2>2 DEF Iterates
<1>2. Loop(f)
  <2> DEFINE body == [i \in Nat |->
               IF i = 0 THEN base
               ELSE IF f[i - 1] < maxBackoffDelay THEN 2 * f[i - 1] ELSE f[i - 1]]
  <2>1. ASSUME NEW i \in Nat PROVE f[i] = body[i]
    <3>1. CASE i = 0
      BY <1>1, <3>1
    <3>2. CASE i # 0
      <4>1. i - 1 \in Nat /\ (i - 1) + 1 = i
        BY <3>2
      <4>2. f[i] = step[f[i - 1]] /\ f[i - 1] \in Nat
        BY <1>1, <4>1
      <4>. QED  BY <3>2, <4>2
    <3>. QED  BY <3>1, <3>2
  <2>. QED  BY <1>1, <2>1
<1>3. Doubled(base) = CHOOSE d : Loop(d)
  BY DEF Doubled
<1>4. Loop(Doubled(base))
  <2> HIDE DEF Loop
  <2>. QED  BY <1>2, <1>3
<1> DEFINE d == Doubled(base)
<1>5. /\ d[0] = base
      /\ \A n \in Nat : d[n + 1] = IF d[n] < maxBackoffDelay THEN 2 * d[n] ELSE d[n]
  <2> HIDE DEF d
  <2>1. Loop(d)
    BY <1>4 DEF d
  <2>. QED  BY <2>1
<1>6. \A n \in Nat : d[n] \in Nat
  <2> DEFINE S == {n \in Nat : d[n] \in Nat}
  <2>1. 0 \in S
    BY <1>5
  <2>2. \A n \in Nat : n \in S => n + 1 \in S
    BY <1>5, Delays
  <2>3. \A n \in Nat : n \in S
    <3> HIDE DEF S
    <3>. QED  BY <2>1, <2>2, SetInduction
  <2>. QED  BY <2>3
<1>7. d \in [Nat -> Nat]
  <2> HIDE DEF d
  <2>1. Loop(d)
    BY <1>4 DEF d
  <2>. QED  BY <1>6, <2>1
<1>. QED  BY <1>5, <1>7

\* The recursion equation of the power of two.
LEMMA PowerDef ==
  /\ PowerOfTwo \in [Nat -> Nat \ {0}] /\ PowerOfTwo[0] = 1
  /\ \A n \in Nat : PowerOfTwo[n + 1] = 2 * PowerOfTwo[n]
<1> DEFINE step == [x \in Nat |-> 2 * x]
           Power(d) == d = [n \in Nat |-> IF n = 0 THEN 1 ELSE 2 * d[n - 1]]
           p == PowerOfTwo
<1>1. PICK f \in [Nat -> Nat] : f[0] = 1 /\ \A n \in Nat : f[n + 1] = step[f[n]]
  <2>1. step \in [Nat -> Nat] /\ 1 \in Nat
    OBVIOUS
  <2> HIDE DEF step
  <2>2. \E f \in [Nat -> Nat] : Iterates(f, 1, step)
    BY <2>1, Recursion
  <2>. QED  BY <2>2 DEF Iterates
<1>2. Power(f)
  <2>1. ASSUME NEW i \in Nat PROVE f[i] = IF i = 0 THEN 1 ELSE 2 * f[i - 1]
    <3>1. CASE i = 0
      BY <1>1, <3>1
    <3>2. CASE i # 0
      <4>1. i - 1 \in Nat /\ (i - 1) + 1 = i
        BY <3>2
      <4>2. f[i] = step[f[i - 1]] /\ f[i - 1] \in Nat
        BY <1>1, <4>1
      <4>. QED  BY <3>2, <4>2
    <3>. QED  BY <3>1, <3>2
  <2>. QED  BY <1>1, <2>1
<1>3. Power(p)
  <2>1. p = CHOOSE d : Power(d)
    BY DEF PowerOfTwo
  <2> HIDE DEF Power, p
  <2>. QED  BY <1>2, <2>1
<1>4. p[0] = 1 /\ \A n \in Nat : p[n + 1] = 2 * p[n]
  <2> HIDE DEF p
  <2>. QED  BY <1>3
<1>5. \A n \in Nat : p[n] \in Nat \ {0}
  <2> DEFINE S == {n \in Nat : p[n] \in Nat \ {0}}
  <2> HIDE DEF p
  <2>1. 0 \in S
    BY <1>4
  <2>2. \A n \in Nat : n \in S => n + 1 \in S
    BY <1>4
  <2>3. \A n \in Nat : n \in S
    <3> HIDE DEF S
    <3>. QED  BY <2>1, <2>2, SetInduction
  <2>. QED  BY <2>3
<1>6. p \in [Nat -> Nat \ {0}]
  <2> HIDE DEF p
  <2>. QED  BY <1>3, <1>5
<1>. QED  BY <1>4, <1>6

\* Every power is as large as those before it.
LEMMA PowersGrow ==
  ASSUME NEW m \in Nat
  PROVE  \A n \in Nat : n >= m => PowerOfTwo[n] >= PowerOfTwo[m]
<1> DEFINE S == {n \in Nat : n >= m => PowerOfTwo[n] >= PowerOfTwo[m]}
<1>1. 0 \in S
  BY PowerDef
<1>2. ASSUME NEW n \in Nat, n \in S
      PROVE  n + 1 \in S
  <2>1. /\ PowerOfTwo[n] \in Nat /\ PowerOfTwo[m] \in Nat
        /\ PowerOfTwo[n + 1] = 2 * PowerOfTwo[n]
    BY PowerDef
  <2>2. CASE n >= m
    BY <1>2, <2>1, <2>2
  <2>3. CASE n < m
    BY <2>1, <2>3
  <2>. QED  BY <2>2, <2>3
<1>3. \A n \in Nat : n \in S
  <2> HIDE DEF S
  <2>. QED  BY <1>1, <1>2, SetInduction
<1>. QED  BY <1>3

LEMMA MinOfTwo ==
  ASSUME NEW x \in Nat, NEW y \in Nat
  PROVE  Min({x, y}) = IF x <= y THEN x ELSE y
BY DEF Min

\* base times a power is a number, and doubles with the power.
LEMMA Multiples ==
  ASSUME NEW base \in Nat
  PROVE  \A n \in Nat : /\ base * PowerOfTwo[n] \in Nat
                        /\ base * PowerOfTwo[n + 1] = 2 * (base * PowerOfTwo[n])
                        /\ base * PowerOfTwo[n] >= base
<1> SUFFICES ASSUME NEW n \in Nat, NEW p \in Nat \ {0}, p = PowerOfTwo[n]
             PROVE  base * p \in Nat /\ base * (2 * p) = 2 * (base * p) /\ base * p >= base
  BY PowerDef
<1>1. base * p \in Nat /\ base * (2 * p) = 2 * (base * p)
  OBVIOUS
<1>2. base * p = base * (p - 1) + base /\ base * (p - 1) \in Nat
  <2>1. p - 1 \in Nat
    OBVIOUS
  <2>. QED  BY <2>1
<1>. QED  BY <1>1, <1>2

\* Until it reaches the cap the loop has the exact power, and when it stops the
\* power is beyond the cap too.
LEMMA LoopFollowsPower ==
  ASSUME NEW base \in Nat
  PROVE  \A n \in Nat :
           IF Doubled(base)[n] < maxBackoffDelay
           THEN Doubled(base)[n] = base * PowerOfTwo[n]
           ELSE base * PowerOfTwo[n] >= maxBackoffDelay
<1> DEFINE d == Doubled(base)
           q == [n \in Nat |-> base * PowerOfTwo[n]]
           S == {n \in Nat : IF d[n] < maxBackoffDelay
                             THEN d[n] = q[n] ELSE q[n] >= maxBackoffDelay}
<1>1. /\ d \in [Nat -> Nat] /\ d[0] = base
      /\ \A n \in Nat : d[n + 1] = IF d[n] < maxBackoffDelay THEN 2 * d[n] ELSE d[n]
  BY DoubledDef
<1>2. q \in [Nat -> Nat] /\ q[0] = base /\ \A n \in Nat : q[n + 1] = 2 * q[n]
  <2>1. PowerOfTwo[0] = 1 /\ base * 1 = base
    BY PowerDef
  <2>2. \A n \in Nat : /\ base * PowerOfTwo[n] \in Nat
                       /\ base * PowerOfTwo[n + 1] = 2 * (base * PowerOfTwo[n])
    BY Multiples
  <2>. QED  BY <2>1, <2>2
<1>3. \A n \in Nat : n \in S
  <2> HIDE DEF d, q
  <2>1. 0 \in S
    BY <1>1, <1>2, Delays
  <2>2. \A n \in Nat : n \in S => n + 1 \in S
    BY <1>1, <1>2, Delays
  <2>. HIDE DEF S
  <2>. QED  BY <2>1, <2>2, SetInduction
<1>. QED  BY <1>3

\* From the second error on the delay is the capped power of two.
LEMMA CappedDelay ==
  ASSUME NEW errors \in Nat, errors > 1
  PROVE  backoffDelay(RequeueDelay, errors) = Stated(errors)
<1> DEFINE d == Doubled(RequeueDelay)[errors - 1]
           q == RequeueDelay * PowerOfTwo[errors - 1]
<1>1. errors - 1 \in Nat
  OBVIOUS
<1>2. d \in Nat /\ q \in Nat /\ maxBackoffDelay \in Nat
  BY <1>1, Delays, DoubledDef, Multiples
<1>3. IF d < maxBackoffDelay THEN d = q ELSE q >= maxBackoffDelay
  BY <1>1, Delays, LoopFollowsPower
<1>4. backoffDelay(RequeueDelay, errors) = Min({d, maxBackoffDelay})
  BY DEF backoffDelay
<1>5. Stated(errors) = Min({q, maxBackoffDelay})
  BY DEF Stated
<1> HIDE DEF d, q
<1>. QED  BY <1>2, <1>3, <1>4, <1>5, MinOfTwo

\* More errors are never backed off less than fewer, and the first not at all
\* below what is stated.
LEMMA EnoughDelay ==
  ASSUME NEW errors \in Nat, NEW fewer \in Nat, fewer > 0, fewer <= errors
  PROVE  backoffDelay(RequeueDelay, errors) >= Stated(fewer)
<1> DEFINE p == PowerOfTwo[fewer - 1]
           q == PowerOfTwo[errors - 1]
           base == RequeueDelay
<1>1. /\ fewer - 1 \in Nat /\ errors - 1 \in Nat /\ errors - 1 >= fewer - 1
  OBVIOUS
<1>2. base \in Nat /\ maxBackoffDelay \in Nat /\ p \in Nat /\ q \in Nat /\ p <= q
  BY <1>1, Delays, PowerDef, PowersGrow
<1>3. base * p \in Nat /\ base * q \in Nat /\ base * p <= base * q
  <2> HIDE DEF base, p, q
  <2>1. q - p \in Nat /\ q = p + (q - p)
    BY <1>2
  <2>2. \A r \in Nat : base * r \in Nat /\ base * (p + r) = base * p + base * r
    BY <1>2
  <2>. QED  BY <1>2, <2>1, <2>2
<1>4. Stated(fewer) = Min({base * p, maxBackoffDelay})
  BY DEF Stated
<1>5. CASE errors > 1
  <2>1. backoffDelay(base, errors) = Min({base * q, maxBackoffDelay})
    BY <1>5, CappedDelay DEF Stated
  <2> HIDE DEF base, p, q
  <2>. QED  BY <1>2, <1>3, <1>4, <2>1, MinOfTwo DEF base
<1>6. CASE errors <= 1
  <2>1. backoffDelay(base, errors) = base
    BY <1>6 DEF backoffDelay
  <2>2. base * p = base
    <3>1. fewer - 1 = 0
      BY <1>6
    <3>2. p = 1
      BY <3>1, PowerDef
    <3>. QED  BY <1>2, <3>2
  <2> HIDE DEF base, p, q
  <2>. QED  BY <1>2, <1>3, <1>4, <2>1, <2>2, MinOfTwo DEF base
<1>. QED  BY <1>5, <1>6

\* The delay is a number.
LEMMA DelayType ==
  ASSUME NEW errors \in Nat
  PROVE  backoffDelay(RequeueDelay, errors) \in Nat
<1>1. CASE errors <= 1
  BY <1>1, Delays DEF backoffDelay
<1>2. CASE errors > 1
  <2>1. errors - 1 \in Nat
    BY <1>2
  <2>2. Doubled(RequeueDelay)[errors - 1] \in Nat /\ maxBackoffDelay \in Nat
    BY <2>1, Delays, DoubledDef
  <2>3. backoffDelay(RequeueDelay, errors)
          = Min({Doubled(RequeueDelay)[errors - 1], maxBackoffDelay})
    BY <1>2 DEF backoffDelay
  <2>. QED  BY <2>2, <2>3, MinOfTwo
<1>. QED  BY <1>1, <1>2

-----------------------------------------------------------------------------
(* The tracker *)

\* The errors since a resource last succeeded are among those counted under its
\* key, and its last delay is the one for that count.
Streaks ==
  \A k \in Keys : /\ streak[k] <= counts[k]
                  /\ streak[k] > 0 => delay[k] = backoffDelay(RequeueDelay, counts[k])

BackoffInv == TypeOK /\ Streaks

\* What recordError of one key does to that key, and that it leaves the others.
LEMMA RecordError ==
  ASSUME BackoffInv, NEW k \in Keys, recordError(k)
  PROVE  /\ counts' \in [Keys -> 0 .. MaxErrors] /\ streak' \in [Keys -> 0 .. MaxErrors]
         /\ delay' \in [Keys -> Nat]
         /\ Streaks'
<1>1. counts[k] \in Nat /\ counts[k] < MaxErrors /\ counts[k] + 1 \in 0 .. MaxErrors
  BY Delays DEF BackoffInv, TypeOK, recordError
<1>2. streak[k] \in Nat /\ streak[k] + 1 <= counts[k] + 1 /\ streak[k] + 1 \in 0 .. MaxErrors
  BY <1>1, Delays DEF BackoffInv, TypeOK, Streaks
<1>3. counts' = [counts EXCEPT ![k] = counts[k] + 1]
      /\ streak' = [streak EXCEPT ![k] = streak[k] + 1]
  BY DEF recordError
<1>4. counts'[k] = counts[k] + 1 /\ streak'[k] = streak[k] + 1
  BY <1>3 DEF BackoffInv, TypeOK
<1> DEFINE new == backoffDelay(RequeueDelay, counts'[k])
<1>5. new \in Nat
  BY <1>1, <1>4, DelayType
<1>6. delay' = [delay EXCEPT ![k] = new]
  BY DEF recordError
<1> HIDE DEF new
<1>7. /\ counts' \in [Keys -> 0 .. MaxErrors] /\ streak' \in [Keys -> 0 .. MaxErrors]
      /\ delay' \in [Keys -> Nat]
  BY <1>1, <1>2, <1>3, <1>5, <1>6 DEF BackoffInv, TypeOK
<1>8. ASSUME NEW q \in Keys
      PROVE  /\ streak'[q] <= counts'[q]
             /\ streak'[q] > 0 => delay'[q] = backoffDelay(RequeueDelay, counts'[q])
  <2>1. CASE q = k
    BY <1>2, <1>4, <1>6, <2>1 DEF new, BackoffInv, TypeOK
  <2>2. CASE q # k
    <3>1. counts'[q] = counts[q] /\ streak'[q] = streak[q] /\ delay'[q] = delay[q]
      BY <1>3, <1>6, <2>2 DEF BackoffInv, TypeOK
    <3>. QED  BY <3>1 DEF BackoffInv, Streaks
  <2>. QED  BY <2>1, <2>2
<1>. QED  BY <1>7, <1>8 DEF Streaks

\* The streak and the count of a key may be set to zero, the streak alone too.
LEMMA Forgiven ==
  ASSUME BackoffInv, UNCHANGED delay,
         NEW k \in Keys, streak' = [streak EXCEPT ![k] = 0],
         counts' = counts \/ counts' = [counts EXCEPT ![k] = 0]
  PROVE  /\ counts' \in [Keys -> 0 .. MaxErrors] /\ streak' \in [Keys -> 0 .. MaxErrors]
         /\ delay' \in [Keys -> Nat]
         /\ Streaks'
<1>1. 0 \in 0 .. MaxErrors
  BY Delays
<1>2. /\ counts' \in [Keys -> 0 .. MaxErrors] /\ streak' \in [Keys -> 0 .. MaxErrors]
      /\ delay' \in [Keys -> Nat]
  BY <1>1 DEF BackoffInv, TypeOK
<1>3. ASSUME NEW q \in Keys
      PROVE  /\ streak'[q] <= counts'[q]
             /\ streak'[q] > 0 => delay'[q] = backoffDelay(RequeueDelay, counts'[q])
  <2>1. CASE q = k
    BY <1>2, <2>1 DEF BackoffInv, TypeOK
  <2>2. CASE q # k
    <3>1. counts'[q] = counts[q] /\ streak'[q] = streak[q] /\ delay'[q] = delay[q]
      BY <2>2 DEF BackoffInv, TypeOK
    <3>. QED  BY <3>1 DEF BackoffInv, Streaks
  <2>. QED  BY <2>1, <2>2
<1>. QED  BY <1>2, <1>3 DEF Streaks

LEMMA BackoffStep == BackoffInv /\ [Next]_vars => BackoffInv'
<1> SUFFICES ASSUME BackoffInv, [Next]_vars
             PROVE  BackoffInv'
  OBVIOUS
<1>1. ASSUME NEW k \in Keys, ReconcileFails(k)
      PROVE  BackoffInv'
  <2>1. CASE recordError(k)
    BY <1>1, <2>1, RecordError DEF ReconcileFails, BackoffInv, TypeOK
  <2>2. CASE UNCHANGED <<counts, delay, streak>>
    BY <1>1, <2>2 DEF ReconcileFails, BackoffInv, TypeOK, Streaks
  <2>. QED  BY <1>1, <2>1, <2>2 DEF ReconcileFails
<1>2. ASSUME NEW k \in Keys, ReconcileSucceeds(k)
      PROVE  BackoffInv'
  BY <1>2, Forgiven DEF ReconcileSucceeds, recordSuccess, BackoffInv, TypeOK
<1>3. ASSUME NEW k \in Keys, Finalize(k)
      PROVE  BackoffInv'
  BY <1>3, Forgiven DEF Finalize, BackoffInv, TypeOK
<1>4. ASSUME NEW k \in Keys, Create(k) \/ Delete(k)
      PROVE  BackoffInv'
  BY <1>4 DEF Create, Delete, BackoffInv, TypeOK, Streaks
<1>5. CASE Restart
  BY <1>5, Delays DEF Restart, BackoffInv, TypeOK, Streaks
<1>6. CASE UNCHANGED vars
  BY <1>6 DEF vars, BackoffInv, TypeOK, Streaks
<1>. QED  BY <1>1, <1>2, <1>3, <1>4, <1>5, <1>6 DEF Next

\* The counts and streaks go together in every reachable state.
LEMMA BackoffInvariant == Spec => []BackoffInv
<1>1. Init => BackoffInv
  BY Delays DEF Init, BackoffInv, TypeOK, Streaks
<1>. QED  BY <1>1, BackoffStep, PTL DEF Spec

\* The tracker's counts stay within their bound and every delay is a duration.
THEOREM BackoffTypes == Spec => []TypeOK
<1>1. BackoffInv => TypeOK
  BY DEF BackoffInv
<1>. QED  BY <1>1, BackoffInvariant, PTL

\* What recordError returns is at least what its comment states for the errors it has
\* recorded of this resource since its last success, whatever successes, deletions,
\* restarts and errors that are not recorded there are: the count of a deleted resource
\* that is left in the map only lengthens it.  The theorem does not say that anything
\* waits so long: controller-runtime ignores the value, see Backoff.
THEOREM EnoughIsReturned == Spec => []ReturnsEnough
<1>1. BackoffInv => ReturnsEnough
  <2> SUFFICES ASSUME BackoffInv, NEW k \in Keys, streak[k] > 0
               PROVE  delay[k] >= Stated(streak[k])
    BY DEF ReturnsEnough
  <2>1. /\ streak[k] \in Nat /\ counts[k] \in Nat /\ streak[k] <= counts[k]
        /\ delay[k] = backoffDelay(RequeueDelay, counts[k])
    BY Delays DEF BackoffInv, TypeOK, Streaks
  <2>. QED  BY <2>1, EnoughDelay
<1>. QED  BY <1>1, BackoffInvariant, PTL

\* The loop of backoffDelay, which stops doubling at the cap, computes the capped
\* power of two for every count of two and more that the tracker holds.
THEOREM LoopIsCappedPower == Spec => []CappedPower
<1>1. TypeOK => CappedPower
  <2> SUFFICES ASSUME TypeOK, NEW k \in Keys, counts[k] > 1
               PROVE  backoffDelay(RequeueDelay, counts[k]) = Stated(counts[k])
    BY DEF CappedPower
  <2>1. counts[k] \in Nat
    BY Delays DEF TypeOK
  <2>. QED  BY <2>1, CappedDelay
<1>. QED  BY <1>1, BackoffTypes, PTL
=============================================================================

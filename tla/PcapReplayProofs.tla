-------------------------- MODULE PcapReplayProofs --------------------------
(***************************************************************************)
(* Theorems about PcapReplay for every list of messages, every capture of  *)
(* them, every command line and every width of a byte and of a capture     *)
(* time.  The theorems about times have a hypothesis, ClockFits, that      *)
(* capture times lie too close together to wrap; TLC evaluates it on the   *)
(* instance.                                                               *)
(*                                                                         *)
(* The codec first.  What the encoder writes at a place reads as the value *)
(* written (ReadsBack), the two layouts agree type by type (LayoutsAgree), *)
(* and so a frame decodes to its message (DecodesWhole) and nothing        *)
(* shorter to anything (DecodesCut); what on_datagram makes of a captured  *)
(* datagram follows (ParsedIs).                                            *)
(*                                                                         *)
(* Then the loop.  A record is passed over, skipped or replayed, and which *)
(* of the three, what it does to the loop's locals, what it does to the    *)
(* cursors and the list of gaps and what it does to the book are separate  *)
(* questions (StepCases).  The locals are those of the records delivered   *)
(* (Started), so that a record lies in the window by the time of the first *)
(* one (Window); in a capture in order all records of the window come      *)
(* before the first one replayed, and from there on the time slept follows *)
(* the time of the last record (Paced).  A cursor stands behind a number   *)
(* that was used (Cursors), and the numbers from the one a stream was      *)
(* joined at to its cursor are used or listed (SkipRanges) or all used     *)
(* (StallRanges).  The book is the one that the messages of the records    *)
(* decoded give (Applied).                                                 *)
(***************************************************************************)
EXTENDS PcapReplay, SequenceTheorems, FiniteSetTheorems, WellFoundedInduction, TLAPS

-----------------------------------------------------------------------------
Fates == {"no payload", "skipped", "bad", "decoded", "stale", "stalled"}

Records == [sent : DOMAIN Sent, how : Hows, ts : Int, fate : Fates]

Locals ==
  [have_first_ts : BOOLEAN, first_ts_us : Int, prev_cap_us : Int, replayed : Nat,
   skipped : Nat, slept : Nat]

Locs == {Sent[i].loc : i \in DOMAIN Sent}

Gaps == [loc : Locs, first_missing : Nat, last_missing : Nat]

IsHandler(g) == g = [db |-> g.db, gap |-> g.gap]

IsCursors(gap) == gap \in [DOMAIN gap -> Nat \ {0}]

Typed ==
  /\ opt \in Options
  /\ running \in BOOLEAN
  /\ loop \in Locals
  /\ IsHandler(h) /\ IsCursors(h.gap)
  /\ gaps \in Seq(Gaps)
  /\ file \in Seq(Records)

NumberAt(k) == Sent[file[k].sent].seq

-----------------------------------------------------------------------------
(***************************************************************************)
(* Sets of numbers, sequences, products.                                   *)
(***************************************************************************)

LEMMA MinIs ==
  ASSUME NEW S \in SUBSET Int, NEW a \in S, \A x \in S : a <= x
  PROVE  Min(S) = a
<1>1. \E x \in S : \A y \in S : x =< y
  OBVIOUS
<1>2. Min(S) \in S /\ \A y \in S : Min(S) =< y
  BY <1>1, Zenon DEF Min
<1>3. Min(S) \in Int /\ Min(S) <= a /\ a <= Min(S)
  BY <1>2
<1> QED
  BY <1>3

LEMMA MaxIs ==
  ASSUME NEW S \in SUBSET Int, NEW a \in S, \A x \in S : x <= a
  PROVE  Max(S) = a
<1>1. \E x \in S : \A y \in S : x >= y
  OBVIOUS
<1>2. Max(S) \in S /\ \A y \in S : Max(S) >= y
  BY <1>1, Zenon DEF Max
<1>3. Max(S) \in Int /\ Max(S) <= a /\ a <= Max(S)
  BY <1>2
<1> QED
  BY <1>3

LEMMA MaxIsAdded ==
  ASSUME NEW S, NEW n \in Int, \A k \in S : k \in Int /\ k < n
  PROVE  Max(S \cup {n}) = n
<1> DEFINE U == S \cup {n}
<1>1. U \in SUBSET Int /\ n \in U /\ \A k \in U : k <= n
  OBVIOUS
<1> HIDE DEF U
<1>2. Max(U) = n
  BY <1>1, MaxIs
<1> QED
  BY <1>2 DEF U

LEMMA Interval ==
  ASSUME NEW a \in Int, NEW b \in Int, a..b # {}
  PROVE  Min(a..b) = a /\ Max(a..b) = b /\ a <= b
<1>1. a <= b
  OBVIOUS
<1>2. a \in a..b /\ b \in a..b /\ a..b \in SUBSET Int
  BY <1>1
<1>3. Min(a..b) = a
  <2>1. \A x \in a..b : a <= x
    OBVIOUS
  <2> QED
    BY <1>2, <2>1, MinIs
<1>4. Max(a..b) = b
  <2>1. \A x \in a..b : x <= b
    OBVIOUS
  <2> QED
    BY <1>2, <2>1, MaxIs
<1> QED
  BY <1>1, <1>3, <1>4

LEMMA Appended ==
  ASSUME NEW S, NEW s \in Seq(S), NEW x \in S
  PROVE  /\ Append(s, x) \in Seq(S) /\ Len(s) \in Nat /\ Len(Append(s, x)) = Len(s) + 1
         /\ DOMAIN s = 1..Len(s) /\ DOMAIN Append(s, x) = DOMAIN s \cup {Len(s) + 1}
         /\ Append(s, x)[Len(s) + 1] = x
         /\ \A k \in DOMAIN s : Append(s, x)[k] = s[k]
<1>1. /\ Append(s, x) \in Seq(S) /\ Len(s) \in Nat /\ Len(Append(s, x)) = Len(s) + 1
      /\ Append(s, x)[Len(s) + 1] = x /\ \A k \in 1..Len(s) : Append(s, x)[k] = s[k]
  OBVIOUS
<1>2. DOMAIN s = 1..Len(s) /\ DOMAIN Append(s, x) = 1..(Len(s) + 1)
  BY <1>1, LenProperties
<1> QED
  BY <1>1, <1>2

\* What is slept, times the speed-up, is less than a whole speed-up short of the time.
LEMMA Division ==
  ASSUME NEW a \in Nat, NEW b \in Nat \ {0}
  PROVE  /\ a \div b \in Nat
         /\ (a \div b) * b <= a /\ a < (a \div b) * b + b
  OBVIOUS

LEMMA Remainder ==
  ASSUME NEW a \in Int, NEW b \in Nat \ {0}
  PROVE  (a \div b) * b + (a % b) = a
  OBVIOUS

\* the unsigned difference of two times closer together than the width
LEMMA Unsigned ==
  ASSUME NEW d \in Int, NEW m \in Nat \ {0}, -m < d, d < m
  PROVE  d % m = IF 0 <= d THEN d ELSE d + m
  OBVIOUS

LEMMA Products ==
  ASSUME NEW a \in Int, NEW b \in Int, NEW n \in Int
  PROVE  a * n \in Int /\ (a + b) * n = a * n + b * n /\ (a - b) * n = a * n - b * n
  OBVIOUS

LEMMA LargerProduct ==
  ASSUME NEW a \in Nat, NEW b \in Nat, NEW n \in Nat, a <= b
  PROVE  a * n <= b * n
  OBVIOUS

\* A number of which it is all, less than one divisor short, is the quotient.
LEMMA Quotient ==
  ASSUME NEW a \in Nat, NEW b \in Nat \ {0}, NEW q \in Nat, q * b <= a, a < q * b + b
  PROVE  a \div b = q
<1> DEFINE e == a \div b
<1>1. e \in Nat /\ e * b <= a /\ a < e * b + b
  BY Division
<1> HIDE DEF e
<1>2. ~(e < q)
  <2>1. e < q => (e + 1) * b <= q * b
    BY <1>1, LargerProduct
  <2>2. (e + 1) * b = e * b + b
    BY <1>1
  <2> QED
    BY <1>1, <2>1, <2>2
<1>3. ~(q < e)
  <2>1. q < e => (q + 1) * b <= e * b
    BY <1>1, LargerProduct
  <2>2. (q + 1) * b = q * b + b
    OBVIOUS
  <2> QED
    BY <1>1, <2>1, <2>2
<1> QED
  BY <1>1, <1>2, <1>3 DEF e


-----------------------------------------------------------------------------
(***************************************************************************)
(* Induction, and the recursive functions of the codec: the weights of the *)
(* bytes, what is read of them, and the decoder's cursor.                  *)
(***************************************************************************)

\* A set that has 0, and the successor of each number it has, is Nat.
LEMMA Induction ==
  ASSUME NEW S \in SUBSET Nat, 0 \in S, \A n \in S : n + 1 \in S
  PROVE  S = Nat
<1> DEFINE R == {ss \in Nat \X Nat : ss[1] < ss[2]}
           others == Nat \ S
<1>1. R = OpToRel(<, Nat)
  BY DEF OpToRel
<1>2. IsWellFoundedOn(R, Nat)
  BY <1>1, NatLessThanWellFounded
<1>3. \A x, y \in Nat : <<y, x>> \in R <=> y < x
  OBVIOUS
<1> HIDE DEF R
<1> SUFFICES ASSUME others # {} PROVE FALSE
  OBVIOUS
<1>4. others \subseteq Nat
  OBVIOUS
<1>5. PICK x \in others : \A y \in others : ~(<<y, x>> \in R)
  <2> HIDE DEF others
  <2> QED
    BY <1>2, <1>4, WFMin
<1>6. x \in Nat /\ x # 0 /\ x - 1 \in Nat /\ x - 1 < x
  OBVIOUS
<1>7. x - 1 \in S
  BY <1>3, <1>5, <1>6
<1> QED
  BY <1>6, <1>7

\* A loop of n rounds over integers has a state after each of them.
Runs(f, n, a, g) == f = [i \in 0..n |-> IF i = 0 THEN a ELSE g[i][f[i - 1]]]

LEMMA LoopRuns ==
  ASSUME NEW N \in Nat, NEW a \in Nat, NEW g \in [1..N -> [Nat -> Nat]]
  PROVE  \E f \in [0..N -> Nat] : Runs(f, N, a, g)
<1> DEFINE P(n) == \E f \in [0..n -> Nat] : Runs(f, n, a, g)
           runs == {n \in Nat : n <= N => P(n)}
<1>1. 0 \in runs
  <2> DEFINE f == [i \in 0..0 |-> a]
  <2>1. f \in [0..0 -> Nat] /\ Runs(f, 0, a, g)
    BY DEF Runs
  <2>2. P(0)
    BY <2>1
  <2> QED
    BY <2>2
<1>2. ASSUME NEW n \in runs
      PROVE  n + 1 \in runs
  <2>0. ASSUME n + 1 <= N
        PROVE  P(n + 1)
    <3>1. PICK f \in [0..n -> Nat] : Runs(f, n, a, g)
      <4>1. P(n)
        <5> HIDE DEF P
        <5> QED
          BY <2>0
      <4> QED
        BY <4>1
    <3>2. n \in 0..n /\ n + 1 \in 1..N /\ f[n] \in Nat
      BY <2>0
    <3>3. g[n + 1][f[n]] \in Nat
      BY <3>2
    <3> DEFINE e == [i \in 0..(n + 1) |-> IF i = n + 1 THEN g[n + 1][f[n]] ELSE f[i]]
    <3>4. e \in [0..(n + 1) -> Nat]
      <4>1. ASSUME NEW i \in 0..(n + 1)
            PROVE  (IF i = n + 1 THEN g[n + 1][f[n]] ELSE f[i]) \in Nat
        <5>1. i # n + 1 => i \in 0..n
          OBVIOUS
        <5> QED
          BY <3>3, <5>1
      <4> QED
        BY <4>1
    <3>5. ASSUME NEW i \in 0..(n + 1)
          PROVE  e[i] = IF i = 0 THEN a ELSE g[i][e[i - 1]]
      <4>1. CASE i = n + 1
        <5>1. e[n] = f[n]
          BY <3>2
        <5> QED
          BY <3>2, <4>1, <5>1
      <4>2. CASE i # n + 1
        <5>1. /\ i \in 0..n
              /\ i # 0 => i - 1 \in 0..n /\ i - 1 \in 0..(n + 1) /\ i - 1 # n + 1
          BY <4>2
        <5>2. f[i] = IF i = 0 THEN a ELSE g[i][f[i - 1]]
          BY <3>1, <5>1 DEF Runs
        <5> QED
          BY <4>2, <5>1, <5>2
      <4> QED
        BY <4>1, <4>2
    <3>6. Runs(e, n + 1, a, g)
      BY <3>5 DEF Runs
    <3> HIDE DEF e
    <3> QED
      BY <3>4, <3>6
  <2> HIDE DEF P
  <2> QED
    BY <2>0
<1>3. runs = Nat
  <2> HIDE DEF runs
  <2>1. runs \in SUBSET Nat
    BY DEF runs
  <2> QED
    BY <1>1, <1>2, <2>1, Induction
<1>4. P(N)
  <2> HIDE DEF P
  <2>1. N \in runs
    BY <1>3
  <2>2. N <= N
    OBVIOUS
  <2> QED
    BY <2>1, <2>2
<1> QED
  BY <1>4

\* The weights are the powers of the base.
LEMMA WeightIs ==
  /\ Weight \in [0..8 -> Nat \ {0}]
  /\ Weight[0] = 1
  /\ \A n \in 1..8 : Weight[n] = Weight[n - 1] * ByteBase
<1> DEFINE g == [i \in 1..8 |-> [x \in Nat |-> x * ByteBase]]
           W(f) == f = [n \in 0..8 |-> IF n = 0 THEN 1 ELSE f[n - 1] * ByteBase]
<1>1. g \in [1..8 -> [Nat -> Nat]]
  <2>1. \A x \in Nat : x * ByteBase \in Nat
    BY ByteBaseAssumption
  <2> QED
    BY <2>1
<1>2. PICK f \in [0..8 -> Nat] : Runs(f, 8, 1, g)
  <2> HIDE DEF g
  <2> QED
    BY <1>1, LoopRuns
<1>3. W(f)
  <2>1. ASSUME NEW n \in 0..8
        PROVE  f[n] = IF n = 0 THEN 1 ELSE f[n - 1] * ByteBase
    <3>1. n # 0 => n - 1 \in 0..8 /\ n \in 1..8
      OBVIOUS
    <3>2. f[n] = IF n = 0 THEN 1 ELSE g[n][f[n - 1]]
      BY <1>2 DEF Runs
    <3> QED
      BY <3>1, <3>2
  <2> QED
    BY <2>1
<1>4. W(Weight)
  <2>1. Weight = CHOOSE w : W(w)
    BY DEF Weight
  <2> HIDE DEF W
  <2> QED
    BY <1>3, <2>1
<1>5. /\ Weight[0] = 1 /\ DOMAIN Weight = 0..8 /\ Weight = [n \in DOMAIN Weight |-> Weight[n]]
      /\ \A n \in 1..8 : Weight[n] = Weight[n - 1] * ByteBase
  BY <1>4
<1>6. ASSUME NEW x \in Nat \ {0}
      PROVE  x * ByteBase \in Nat \ {0}
  BY ByteBaseAssumption
<1>7. /\ Weight[1] \in Nat \ {0} /\ Weight[2] \in Nat \ {0} /\ Weight[3] \in Nat \ {0}
      /\ Weight[4] \in Nat \ {0} /\ Weight[5] \in Nat \ {0} /\ Weight[6] \in Nat \ {0}
      /\ Weight[7] \in Nat \ {0} /\ Weight[8] \in Nat \ {0}
  <2>1. /\ Weight[1] = Weight[0] * ByteBase /\ Weight[2] = Weight[1] * ByteBase
        /\ Weight[3] = Weight[2] * ByteBase /\ Weight[4] = Weight[3] * ByteBase
        /\ Weight[5] = Weight[4] * ByteBase /\ Weight[6] = Weight[5] * ByteBase
        /\ Weight[7] = Weight[6] * ByteBase /\ Weight[8] = Weight[7] * ByteBase
    BY <1>5
  <2>2. Weight[0] \in Nat \ {0}
    BY <1>5
  <2>3. Weight[1] \in Nat \ {0}
    BY <1>6, <2>1, <2>2
  <2>4. Weight[2] \in Nat \ {0}
    BY <1>6, <2>1, <2>3
  <2>5. Weight[3] \in Nat \ {0}
    BY <1>6, <2>1, <2>4
  <2>6. Weight[4] \in Nat \ {0}
    BY <1>6, <2>1, <2>5
  <2>7. Weight[5] \in Nat \ {0}
    BY <1>6, <2>1, <2>6
  <2>8. Weight[6] \in Nat \ {0}
    BY <1>6, <2>1, <2>7
  <2>9. Weight[7] \in Nat \ {0}
    BY <1>6, <2>1, <2>8
  <2>10. Weight[8] \in Nat \ {0}
    BY <1>6, <2>1, <2>9
  <2> QED
    BY <2>3, <2>4, <2>5, <2>6, <2>7, <2>8, <2>9, <2>10
<1>8. \A n \in 0..8 : Weight[n] \in Nat \ {0}
  BY <1>5, <1>7
<1> QED
  BY <1>5, <1>8

\* Dividing by a product is dividing twice.
LEMMA DividedTwice ==
  ASSUME NEW v \in Nat, NEW w \in Nat \ {0}, NEW b \in Nat \ {0}
  PROVE  /\ w * b \in Nat \ {0}
         /\ (v \div w) \div b = v \div (w * b)
<1> DEFINE q == v \div w
           p == q \div b
           m == w * b
<1>1. m \in Nat \ {0}
  OBVIOUS
<1>2. q \in Nat /\ q * w <= v /\ v < q * w + w
  BY Division
<1>3. p \in Nat /\ p * b <= q /\ q < p * b + b
  BY <1>2, Division
<1> HIDE DEF q, p
<1>4. p * m = (p * b) * w /\ b * w = m
  BY <1>2, <1>3
<1> DEFINE pb == p * b
           pbw == pb * w
           qw == q * w
<1>5. pb \in Nat /\ pbw \in Nat /\ qw \in Nat /\ pb <= q /\ q < pb + b /\ p * m = pbw
  BY <1>2, <1>3, <1>4
<1> HIDE DEF m
<1>6. p * m <= v
  <2>1. pbw <= qw
    <3> HIDE DEF pb
    <3> QED
      BY <1>2, <1>5, LargerProduct
  <2> HIDE DEF pb, pbw, qw
  <2> QED
    BY <1>2, <1>5, <2>1 DEF qw
<1>8. v < p * m + m
  <2> DEFINE qw1 == (q + 1) * w
             pbb == (pb + b) * w
  <2>1. qw1 \in Nat /\ pbb \in Nat /\ qw1 = qw + w /\ pbb = pbw + m
    <3> HIDE DEF pb
    <3> QED
      BY <1>1, <1>2, <1>4, <1>5
  <2>2. qw1 <= pbb
    <3> HIDE DEF pb
    <3> QED
      BY <1>2, <1>5, LargerProduct
  <2>3. v < qw + w
    BY <1>2
  <2> HIDE DEF qw1, pbb, pb, pbw, qw
  <2> QED
    BY <1>1, <1>5, <2>1, <2>2, <2>3
<1>7. v \div m = p
  <2> HIDE DEF m
  <2> QED
    BY <1>1, <1>3, <1>6, <1>8, Quotient
<1> QED
  BY <1>1, <1>7 DEF q, p

\* read inverts write: bytes written big-endian read as the number written.
LEMMA ReadsBack ==
  ASSUME NEW bytes, NEW at \in Nat, NEW w \in 1..8, NEW v \in Nat, v < Weight[w],
         \A i \in 1..w : bytes[at + i] = byte_of(v, w, i)
  PROVE  read(bytes, at, w) = v
<1> DEFINE g == [i \in 1..w |-> [x \in Nat |-> x * ByteBase + bytes[at + i]]]
           V(f) == f = [n \in 0..w |-> IF n = 0 THEN 0 ELSE f[n - 1] * ByteBase + bytes[at + n]]
           left(n) == v \div Weight[w - n]
<1>1. \A n \in 0..w : w - n \in 0..8 /\ Weight[w - n] \in Nat \ {0} /\ left(n) \in Nat
  <2>1. \A n \in 0..w : w - n \in 0..8 /\ Weight[w - n] \in Nat \ {0}
    BY WeightIs
  <2> QED
    BY <2>1, Division
<1>2. \A i \in 1..w : bytes[at + i] = left(i) % ByteBase
  BY DEF byte_of
<1>3. \A n \in 0..(w - 1) : left(n + 1) \div ByteBase = left(n)
  <2> TAKE n \in 0..(w - 1)
  <2>1. n + 1 \in 0..w /\ n \in 0..w /\ w - n \in 1..8 /\ (w - n) - 1 = w - (n + 1)
    OBVIOUS
  <2>2. Weight[w - n] = Weight[w - (n + 1)] * ByteBase
    BY <2>1, WeightIs
  <2>3. Weight[w - (n + 1)] \in Nat \ {0} /\ ByteBase \in Nat \ {0}
    BY <2>1, WeightIs, ByteBaseAssumption
  <2> QED
    BY <2>2, <2>3, DividedTwice
<1>4. \A n \in 1..w : left(n) % ByteBase \in Nat
  <2> HIDE DEF left
  <2> QED
    BY <1>1, ByteBaseAssumption
<1> HIDE DEF left
<1>5. g \in [1..w -> [Nat -> Nat]]
  <2>1. ASSUME NEW i \in 1..w, NEW x \in Nat
        PROVE  x * ByteBase + bytes[at + i] \in Nat
    <3>1. x * ByteBase \in Nat /\ bytes[at + i] \in Nat
      BY <1>2, <1>4, ByteBaseAssumption
    <3> QED
      BY <3>1
  <2> QED
    BY <2>1
<1>6. PICK f \in [0..w -> Nat] : Runs(f, w, 0, g)
  <2>1. w \in Nat
    OBVIOUS
  <2> HIDE DEF g
  <2> QED
    BY <1>5, <2>1, LoopRuns
<1>7. V(f)
  <2>1. ASSUME NEW n \in 0..w
        PROVE  f[n] = IF n = 0 THEN 0 ELSE f[n - 1] * ByteBase + bytes[at + n]
    <3>1. n # 0 => n - 1 \in 0..w /\ n \in 1..w
      OBVIOUS
    <3>2. f[n] = IF n = 0 THEN 0 ELSE g[n][f[n - 1]]
      BY <1>6 DEF Runs
    <3> QED
      BY <3>1, <3>2
  <2> QED
    BY <2>1
<1> DEFINE value == CHOOSE x : V(x)
<1>8. V(value) /\ read(bytes, at, w) = value[w]
  <2>1. read(bytes, at, w) = value[w]
    BY DEF read
  <2> HIDE DEF V
  <2> QED
    BY <1>7, <2>1
<1>9. value[0] = 0 /\ \A n \in 1..w : value[n] = value[n - 1] * ByteBase + (left(n) % ByteBase)
  <2> HIDE DEF value
  <2>1. ASSUME NEW n \in 0..w
        PROVE  value[n] = IF n = 0 THEN 0 ELSE value[n - 1] * ByteBase + bytes[at + n]
    BY <1>8
  <2>2. 0 \in 0..w /\ \A n \in 1..w : n \in 0..w /\ n # 0
    OBVIOUS
  <2> HIDE DEF V
  <2> QED
    BY <1>2, <2>1, <2>2
<1> HIDE DEF value, V
<1> DEFINE S == {n \in Nat : n <= w => value[n] = left(n)}
<1>10. 0 \in S
  <2>1. left(0) = 0
    <3>1. w - 0 = w /\ w \in 0..8
      OBVIOUS
    <3>2. Weight[w] \in Nat \ {0}
      BY <3>1, WeightIs
    <3>3. v \div Weight[w] = 0
      BY <3>2, Quotient
    <3> QED
      BY <3>1, <3>3 DEF left
  <2> QED
    BY <1>9, <2>1
<1>11. ASSUME NEW n \in S
       PROVE  n + 1 \in S
  <2>1. ASSUME n + 1 <= w
        PROVE  value[n + 1] = left(n + 1)
    <3>1. n \in 0..(w - 1) /\ n + 1 \in 1..w /\ (n + 1) - 1 = n /\ value[n] = left(n)
      BY <2>1
    <3>2. value[n + 1] = left(n) * ByteBase + (left(n + 1) % ByteBase)
      BY <1>9, <3>1
    <3>3. left(n + 1) \div ByteBase = left(n) /\ left(n + 1) \in Int
      BY <1>1, <1>3, <3>1
    <3>4. (left(n + 1) \div ByteBase) * ByteBase + (left(n + 1) % ByteBase) = left(n + 1)
      <4>1. ByteBase \in Nat \ {0}
        BY ByteBaseAssumption
      <4> QED
        BY <3>3, <4>1, Remainder
    <3> QED
      BY <3>2, <3>3, <3>4
  <2> QED
    BY <2>1
<1>12. S = Nat
  <2>1. S \in SUBSET Nat
    OBVIOUS
  <2> HIDE DEF S
  <2> QED
    BY <1>10, <1>11, <2>1, Induction
<1>13. value[w] = left(w)
  <2>1. w \in Nat /\ w <= w
    OBVIOUS
  <2>2. w \in S
    <3> HIDE DEF S
    <3> QED
      BY <1>12, <2>1
  <2> QED
    BY <2>1, <2>2
<1>14. left(w) = v
  <2>1. Weight[w - w] = 1
    BY WeightIs
  <2> QED
    BY <2>1 DEF left
<1> QED
  BY <1>8, <1>13, <1>14

-----------------------------------------------------------------------------
(***************************************************************************)
(* The two layouts of the codec, the encoder's places and the decoder's    *)
(* cursor, agree: a finite matter, settled type by type.                   *)
(***************************************************************************)

\* the states of the decoder's cursor: c[n] is where it is after n fields
Cursor(layout, c) ==
  c = [n \in 0..Len(layout) |-> IF n = 0 THEN 3 ELSE c[n - 1] + layout[n][2]]

AllPlaces(t) == HeaderPlaces \cup Places[t]

\* The decoder reads each field where the encoder writes it.
Agrees(t) ==
  \A c : Cursor(Layout[t], c) =>
    \A i \in DOMAIN Layout[t] : <<Layout[t][i][1], c[i - 1], Layout[t][i][2]>> \in AllPlaces(t)

\* A field is read once, and is none of those the encoder adds.
Distinct(t) ==
  /\ Len(Layout[t]) \in Nat /\ DOMAIN Layout[t] = 1..Len(Layout[t])
  /\ \A i \in DOMAIN Layout[t] :
       /\ Layout[t][i][1] \notin {"length", "type"} /\ Layout[t][i][2] \in 1..8
       /\ \A j \in DOMAIN Layout[t] : Layout[t][i][1] = Layout[t][j][1] => i = j

\* The places do not overlap and lie within the frame.
Disjoint(t) ==
  /\ \A p, q \in AllPlaces(t) : p = q \/ p[2] + p[3] <= q[2] \/ q[2] + q[3] <= p[2]
  /\ \A p \in AllPlaces(t) : p[2] \in Nat /\ p[3] \in 1..8 /\ p[2] + p[3] <= 2 + WireSize[t]
  /\ WireSize[t] \in 12..44

Fitting(t) == Agrees(t) /\ Distinct(t) /\ Disjoint(t)

LEMMA LayoutsAgree ==
  ASSUME NEW t \in Types
  PROVE  Fitting(t)
<1> USE DEF AllPlaces, Places, HeaderPlaces, Layout, Common
<1>1. Fitting("S")
  <2>1. DOMAIN SystemEvent = 1..4 /\ Len(SystemEvent) = 4
    BY DEF SystemEvent
  <2>2. Agrees("S")
    <3> SUFFICES ASSUME NEW c, Cursor(SystemEvent, c), NEW i \in 1..4
                 PROVE  <<SystemEvent[i][1], c[i - 1], SystemEvent[i][2]>> \in AllPlaces("S")
      BY <2>1 DEF Agrees
    <3>1. c[0] = 3 /\ c[1] = 5 /\ c[2] = 7 /\ c[3] = 13
      BY <2>1 DEF Cursor, SystemEvent
    <3> QED
      BY <3>1 DEF SystemEvent
  <2>3. Distinct("S")
    BY <2>1 DEF Distinct, SystemEvent
  <2>4. Disjoint("S")
    BY DEF Disjoint, WireSize
  <2> QED
    BY <2>2, <2>3, <2>4 DEF Fitting
<1>2. Fitting("R")
  <2>1. DOMAIN StockDirectory = 1..7 /\ Len(StockDirectory) = 7
    BY DEF StockDirectory
  <2>2. Agrees("R")
    <3> SUFFICES ASSUME NEW c, Cursor(StockDirectory, c), NEW i \in 1..7
                 PROVE  <<StockDirectory[i][1], c[i - 1],
                          StockDirectory[i][2]>> \in AllPlaces("R")
      BY <2>1 DEF Agrees
    <3>1. /\ c[0] = 3 /\ c[1] = 5 /\ c[2] = 7 /\ c[3] = 13
          /\ c[4] = 21 /\ c[5] = 22 /\ c[6] = 23
      BY <2>1 DEF Cursor, StockDirectory
    <3> QED
      BY <3>1 DEF StockDirectory
  <2>3. Distinct("R")
    BY <2>1 DEF Distinct, StockDirectory
  <2>4. Disjoint("R")
    BY DEF Disjoint, WireSize
  <2> QED
    BY <2>2, <2>3, <2>4 DEF Fitting
<1>3. Fitting("A")
  <2>1. DOMAIN AddOrder = 1..8 /\ Len(AddOrder) = 8
    BY DEF AddOrder
  <2>2. Agrees("A")
    <3> SUFFICES ASSUME NEW c, Cursor(AddOrder, c), NEW i \in 1..8
                 PROVE  <<AddOrder[i][1], c[i - 1], AddOrder[i][2]>> \in AllPlaces("A")
      BY <2>1 DEF Agrees
    <3>1. /\ c[0] = 3 /\ c[1] = 5 /\ c[2] = 7 /\ c[3] = 13
          /\ c[4] = 21 /\ c[5] = 22 /\ c[6] = 26 /\ c[7] = 34
      BY <2>1 DEF Cursor, AddOrder
    <3> QED
      BY <3>1 DEF AddOrder, OrderPlaces
  <2>3. Distinct("A")
    BY <2>1 DEF Distinct, AddOrder
  <2>4. Disjoint("A")
    BY DEF Disjoint, WireSize, OrderPlaces
  <2> QED
    BY <2>2, <2>3, <2>4 DEF Fitting
<1>4. Fitting("F")
  <2>1. DOMAIN AddOrderMPID = 1..9 /\ Len(AddOrderMPID) = 9
    BY DEF AddOrderMPID, AddOrder
  <2>2. Agrees("F")
    <3> SUFFICES ASSUME NEW c, Cursor(AddOrderMPID, c), NEW i \in 1..9
                 PROVE  <<AddOrderMPID[i][1], c[i - 1], AddOrderMPID[i][2]>> \in AllPlaces("F")
      BY <2>1 DEF Agrees
    <3>1. /\ c[0] = 3 /\ c[1] = 5 /\ c[2] = 7 /\ c[3] = 13 /\ c[4] = 21
          /\ c[5] = 22 /\ c[6] = 26 /\ c[7] = 34 /\ c[8] = 38
      BY <2>1 DEF Cursor, AddOrderMPID, AddOrder
    <3> QED
      BY <3>1 DEF AddOrderMPID, AddOrder, OrderPlaces
  <2>3. Distinct("F")
    BY <2>1 DEF Distinct, AddOrderMPID, AddOrder
  <2>4. Disjoint("F")
    BY DEF Disjoint, WireSize, OrderPlaces
  <2> QED
    BY <2>2, <2>3, <2>4 DEF Fitting
<1>5. Fitting("E")
  <2>1. DOMAIN OrderExecuted = 1..6 /\ Len(OrderExecuted) = 6
    BY DEF OrderExecuted
  <2>2. Agrees("E")
    <3> SUFFICES ASSUME NEW c, Cursor(OrderExecuted, c), NEW i \in 1..6
                 PROVE  <<OrderExecuted[i][1], c[i - 1],
                          OrderExecuted[i][2]>> \in AllPlaces("E")
      BY <2>1 DEF Agrees
    <3>1. c[0] = 3 /\ c[1] = 5 /\ c[2] = 7 /\ c[3] = 13 /\ c[4] = 21 /\ c[5] = 25
      BY <2>1 DEF Cursor, OrderExecuted
    <3> QED
      BY <3>1 DEF OrderExecuted, ExecutionPlaces
  <2>3. Distinct("E")
    BY <2>1 DEF Distinct, OrderExecuted
  <2>4. Disjoint("E")
    BY DEF Disjoint, WireSize, ExecutionPlaces
  <2> QED
    BY <2>2, <2>3, <2>4 DEF Fitting
<1>6. Fitting("C")
  <2>1. DOMAIN OrderExecutedWithPrice = 1..8 /\ Len(OrderExecutedWithPrice) = 8
    BY DEF OrderExecutedWithPrice, OrderExecuted
  <2>2. Agrees("C")
    <3> SUFFICES ASSUME NEW c, Cursor(OrderExecutedWithPrice, c), NEW i \in 1..8
                 PROVE  <<OrderExecutedWithPrice[i][1], c[i - 1],
                          OrderExecutedWithPrice[i][2]>> \in AllPlaces("C")
      BY <2>1 DEF Agrees
    <3>1. /\ c[0] = 3 /\ c[1] = 5 /\ c[2] = 7 /\ c[3] = 13
          /\ c[4] = 21 /\ c[5] = 25 /\ c[6] = 33 /\ c[7] = 34
      BY <2>1 DEF Cursor, OrderExecutedWithPrice, OrderExecuted
    <3> QED
      BY <3>1 DEF OrderExecutedWithPrice, OrderExecuted, ExecutionPlaces
  <2>3. Distinct("C")
    BY <2>1 DEF Distinct, OrderExecutedWithPrice, OrderExecuted
  <2>4. Disjoint("C")
    BY DEF Disjoint, WireSize, ExecutionPlaces
  <2> QED
    BY <2>2, <2>3, <2>4 DEF Fitting
<1>7. Fitting("X")
  <2>1. DOMAIN OrderCancel = 1..5 /\ Len(OrderCancel) = 5
    BY DEF OrderCancel
  <2>2. Agrees("X")
    <3> SUFFICES ASSUME NEW c, Cursor(OrderCancel, c), NEW i \in 1..5
                 PROVE  <<OrderCancel[i][1], c[i - 1], OrderCancel[i][2]>> \in AllPlaces("X")
      BY <2>1 DEF Agrees
    <3>1. c[0] = 3 /\ c[1] = 5 /\ c[2] = 7 /\ c[3] = 13 /\ c[4] = 21
      BY <2>1 DEF Cursor, OrderCancel
    <3> QED
      BY <3>1 DEF OrderCancel
  <2>3. Distinct("X")
    BY <2>1 DEF Distinct, OrderCancel
  <2>4. Disjoint("X")
    BY DEF Disjoint, WireSize
  <2> QED
    BY <2>2, <2>3, <2>4 DEF Fitting
<1>8. Fitting("D")
  <2>1. DOMAIN OrderDelete = 1..4 /\ Len(OrderDelete) = 4
    BY DEF OrderDelete
  <2>2. Agrees("D")
    <3> SUFFICES ASSUME NEW c, Cursor(OrderDelete, c), NEW i \in 1..4
                 PROVE  <<OrderDelete[i][1], c[i - 1], OrderDelete[i][2]>> \in AllPlaces("D")
      BY <2>1 DEF Agrees
    <3>1. c[0] = 3 /\ c[1] = 5 /\ c[2] = 7 /\ c[3] = 13
      BY <2>1 DEF Cursor, OrderDelete
    <3> QED
      BY <3>1 DEF OrderDelete
  <2>3. Distinct("D")
    BY <2>1 DEF Distinct, OrderDelete
  <2>4. Disjoint("D")
    BY DEF Disjoint, WireSize
  <2> QED
    BY <2>2, <2>3, <2>4 DEF Fitting
<1>9. Fitting("U")
  <2>1. DOMAIN OrderReplace = 1..7 /\ Len(OrderReplace) = 7
    BY DEF OrderReplace
  <2>2. Agrees("U")
    <3> SUFFICES ASSUME NEW c, Cursor(OrderReplace, c), NEW i \in 1..7
                 PROVE  <<OrderReplace[i][1], c[i - 1], OrderReplace[i][2]>> \in AllPlaces("U")
      BY <2>1 DEF Agrees
    <3>1. /\ c[0] = 3 /\ c[1] = 5 /\ c[2] = 7 /\ c[3] = 13
          /\ c[4] = 21 /\ c[5] = 29 /\ c[6] = 33
      BY <2>1 DEF Cursor, OrderReplace
    <3> QED
      BY <3>1 DEF OrderReplace
  <2>3. Distinct("U")
    BY <2>1 DEF Distinct, OrderReplace
  <2>4. Disjoint("U")
    BY DEF Disjoint, WireSize
  <2> QED
    BY <2>2, <2>3, <2>4 DEF Fitting
<1>10. Fitting("P")
  <2>1. DOMAIN Trade = 1..9 /\ Len(Trade) = 9
    BY DEF Trade, AddOrder
  <2>2. Agrees("P")
    <3> SUFFICES ASSUME NEW c, Cursor(Trade, c), NEW i \in 1..9
                 PROVE  <<Trade[i][1], c[i - 1], Trade[i][2]>> \in AllPlaces("P")
      BY <2>1 DEF Agrees
    <3>1. /\ c[0] = 3 /\ c[1] = 5 /\ c[2] = 7 /\ c[3] = 13 /\ c[4] = 21
          /\ c[5] = 22 /\ c[6] = 26 /\ c[7] = 34 /\ c[8] = 38
      BY <2>1 DEF Cursor, Trade, AddOrder
    <3> QED
      BY <3>1 DEF Trade, AddOrder, OrderPlaces
  <2>3. Distinct("P")
    BY <2>1 DEF Distinct, Trade, AddOrder
  <2>4. Disjoint("P")
    BY DEF Disjoint, WireSize, OrderPlaces
  <2> QED
    BY <2>2, <2>3, <2>4 DEF Fitting
<1>11. t \in {"S", "R", "A", "F", "E", "C", "X", "D", "U", "P"}
  BY DEF Types
<1> QED
  BY <1>1, <1>2, <1>3, <1>4, <1>5, <1>6, <1>7, <1>8, <1>9, <1>10, <1>11

\* Each type has a byte of its own.
LEMMA CodesDiffer ==
  ASSUME NEW t \in Types
  PROVE  /\ Code[t] \in 1..10
         /\ \A u \in Types : Code[u] = Code[t] => u = t
  BY DEF Types, Layout, Code

-----------------------------------------------------------------------------
(***************************************************************************)
(* Encoding and decoding.                                                  *)
(***************************************************************************)

\* what encode_frame writes at a place
Value(m, f) ==
  CASE f = "length" -> WireSize[m.type]
    [] f = "type"   -> Code[m.type]
    [] OTHER        -> m[f]

Frame(m) == encode_frame(m, Zeros(framed_size(m))).bytes

\* a type byte, a body and the two bytes of the length
LEMMA SizeIs ==
  ASSUME NEW m, IsMessage(m)
  PROVE  /\ framed_size(m) = 2 + WireSize[m.type] /\ framed_size(m) \in 14..46
         /\ framed_size(m) \in Nat
<1>1. framed_size(m) = 2 + WireSize[m.type] /\ WireSize[m.type] \in 12..44
  BY LayoutsAgree DEF IsMessage, framed_size, Fitting, Disjoint
<1> QED
  BY <1>1

\* The frame is as long as it should be, and each place holds its value.
LEMMA FrameIs ==
  ASSUME NEW m, IsMessage(m)
  PROVE  /\ DOMAIN Frame(m) = 1..framed_size(m) /\ Len(Frame(m)) = framed_size(m)
         /\ Frame(m) \in Seq({Frame(m)[i] : i \in 1..framed_size(m)})
         /\ \A p \in AllPlaces(m.type), j \in 1..8 :
              j <= p[3] => Frame(m)[p[2] + j] = byte_of(Value(m, p[1]), p[3], j)
<1> DEFINE size   == framed_size(m)
           places == AllPlaces(m.type)
           covers(p, i) == i \in (p[2] + 1)..(p[2] + p[3])
           byte(i) == IF \E p \in places : covers(p, i)
                      THEN LET p == CHOOSE p \in places : covers(p, i)
                           IN  byte_of(Value(m, p[1]), p[3], i - p[2])
                      ELSE Zeros(size)[i]
<1>1. m.type \in Types /\ Fitting(m.type)
  BY LayoutsAgree DEF IsMessage
<1>2. size = 2 + WireSize[m.type] /\ size \in 14..46
  BY SizeIs
<1> HIDE DEF size
<1>3. /\ Zeros(size) = [i \in 1..size |-> 0] /\ DOMAIN Zeros(size) = 1..size
      /\ Len(Zeros(size)) = size
  BY <1>2 DEF Zeros
<1>4. Frame(m) = [i \in 1..size |-> byte(i)]
  <2>1. ~(Len(Zeros(size)) < size)
    BY <1>2, <1>3
  <2> QED
    BY <1>3, <2>1 DEF encode_frame, AllPlaces, Value, Frame, size
<1>5. ASSUME NEW p \in places, NEW j \in 1..8, j <= p[3]
      PROVE  p[2] + j \in 1..size /\ byte(p[2] + j) = byte_of(Value(m, p[1]), p[3], j)
  <2>1. /\ p[2] \in Nat /\ p[3] \in 1..8 /\ p[2] + p[3] <= size
        /\ \A q \in places : /\ q[2] \in Nat /\ q[3] \in 1..8
                             /\ p = q \/ p[2] + p[3] <= q[2] \/ q[2] + q[3] <= p[2]
    BY <1>1, <1>2 DEF Fitting, Disjoint
  <2>2. covers(p, p[2] + j) /\ (p[2] + j) - p[2] = j /\ p[2] + j \in 1..size
    <3> HIDE DEF places
    <3>1. p[2] \in Nat /\ p[3] \in 1..8 /\ p[2] + p[3] <= size
      BY <2>1
    <3> QED
      BY <1>2, <1>5, <3>1
  <2>3. ASSUME NEW q \in places, covers(q, p[2] + j)
        PROVE  q = p
    <3> HIDE DEF places
    <3>1. /\ p[2] \in Nat /\ p[3] \in 1..8 /\ q[2] \in Nat /\ q[3] \in 1..8
          /\ p = q \/ p[2] + p[3] <= q[2] \/ q[2] + q[3] <= p[2]
      BY <2>1
    <3> QED
      BY <1>5, <2>3, <3>1
  <2> HIDE DEF covers
  <2>4. (CHOOSE q \in places : covers(q, p[2] + j)) = p
    BY <2>2, <2>3
  <2> QED
    BY <2>2, <2>4
<1> HIDE DEF byte
<1>6. DOMAIN Frame(m) = 1..size
  BY <1>4
<1>7. Frame(m) \in Seq({Frame(m)[i] : i \in 1..size}) /\ Len(Frame(m)) = size
  <2>1. size \in Nat
    BY <1>2
  <2> QED
    BY <1>4, <2>1
<1>8. \A p \in places, j \in 1..8 :
        j <= p[3] => Frame(m)[p[2] + j] = byte_of(Value(m, p[1]), p[3], j)
  BY <1>4, <1>5
<1> QED
  BY <1>6, <1>7, <1>8 DEF size

\* A place is read from any bytes that are the frame's there.
LEMMA ReadsPlace ==
  ASSUME NEW m, IsMessage(m), NEW bytes, NEW p \in AllPlaces(m.type),
         Value(m, p[1]) \in Nat, Value(m, p[1]) < Weight[p[3]],
         \A j \in 1..p[3] : bytes[p[2] + j] = Frame(m)[p[2] + j]
  PROVE  read(bytes, p[2], p[3]) = Value(m, p[1])
<1>1. p[2] \in Nat /\ p[3] \in 1..8
  BY LayoutsAgree DEF IsMessage, Fitting, Disjoint
<1>2. ASSUME NEW j \in 1..p[3]
      PROVE  bytes[p[2] + j] = byte_of(Value(m, p[1]), p[3], j)
  <2>1. j \in 1..8 /\ j <= p[3]
    BY <1>1
  <2> QED
    BY <2>1, FrameIs
<1> QED
  BY <1>1, <1>2, ReadsBack

\* The length and the type, which the decoder reads before it knows a layout.
LEMMA ReadsHeader ==
  ASSUME NEW m, IsMessage(m)
  PROVE  /\ WireSize[m.type] \in 12..44
         /\ \A bytes : bytes[1] = Frame(m)[1] /\ bytes[2] = Frame(m)[2]
                         => read(bytes, 0, 2) = WireSize[m.type]
         /\ Frame(m)[3] = Code[m.type]
<1>1. m.type \in Types /\ WireSize[m.type] \in 12..44 /\ Code[m.type] \in 1..10
  BY LayoutsAgree, CodesDiffer DEF IsMessage, Fitting, Disjoint
<1>2. /\ Value(m, "length") = WireSize[m.type] /\ Value(m, "type") = Code[m.type]
      /\ <<"length", 0, 2>> \in AllPlaces(m.type) /\ <<"type", 2, 1>> \in AllPlaces(m.type)
  BY DEF Value, AllPlaces, HeaderPlaces
<1>3. Weight[0] = 1 /\ Weight[1] = ByteBase /\ Weight[2] = ByteBase * ByteBase
  BY WeightIs, ByteBaseAssumption
<1>4. WireSize[m.type] < Weight[2]
  <2>1. 12 * ByteBase <= ByteBase * ByteBase
    BY ByteBaseAssumption, LargerProduct
  <2> QED
    BY <1>1, <1>3, <2>1, ByteBaseAssumption
<1>5. ASSUME NEW bytes, bytes[1] = Frame(m)[1], bytes[2] = Frame(m)[2]
      PROVE  read(bytes, 0, 2) = WireSize[m.type]
  <2>1. PICK p \in AllPlaces(m.type) : p = <<"length", 0, 2>>
    BY <1>2
  <2>2. \A j \in 1..p[3] : bytes[p[2] + j] = Frame(m)[p[2] + j]
    <3>1. \A j \in 1..2 : 0 + j = j /\ (j = 1 \/ j = 2)
      OBVIOUS
    <3> QED
      BY <1>5, <2>1, <3>1
  <2>3. Value(m, p[1]) = WireSize[m.type] /\ Value(m, p[1]) \in Nat /\ Value(m, p[1]) < Weight[p[3]]
    BY <1>1, <1>2, <1>4, <2>1
  <2>4. read(bytes, p[2], p[3]) = Value(m, p[1])
    BY <2>2, <2>3, ReadsPlace
  <2> QED
    BY <2>1, <2>3, <2>4
<1>6. Frame(m)[3] = byte_of(Code[m.type], 1, 1)
  <2>1. PICK p \in AllPlaces(m.type) : p = <<"type", 2, 1>>
    BY <1>2
  <2>2. 1 \in 1..8 /\ 1 <= p[3]
    BY <2>1
  <2>3. Frame(m)[p[2] + 1] = byte_of(Value(m, p[1]), p[3], 1)
    BY <2>2, FrameIs
  <2> QED
    BY <1>2, <2>1, <2>3
<1>7. byte_of(Code[m.type], 1, 1) = Code[m.type]
  BY <1>1, <1>3, ByteBaseAssumption DEF byte_of
<1> QED
  BY <1>1, <1>5, <1>6, <1>7

\* The cursor has its states.
LEMMA CursorRuns ==
  ASSUME NEW t \in Types
  PROVE  \E c : Cursor(Layout[t], c)
<1> DEFINE layout == Layout[t]
           N == Len(layout)
           g == [i \in 1..N |-> [x \in Nat |-> x + layout[i][2]]]
<1>1. N \in Nat /\ DOMAIN layout = 1..N
  BY LayoutsAgree DEF Fitting, Distinct
<1>2. \A i \in 1..N : layout[i][2] \in Nat
  BY <1>1, LayoutsAgree DEF Fitting, Distinct
<1> HIDE DEF N, layout
<1>3. g \in [1..N -> [Nat -> Nat]]
  BY <1>2
<1>4. PICK f \in [0..N -> Nat] : Runs(f, N, 3, g)
  <2> HIDE DEF g
  <2> QED
    BY <1>1, <1>3, LoopRuns
<1>5. ASSUME NEW n \in 0..N
      PROVE  f[n] = IF n = 0 THEN 3 ELSE f[n - 1] + layout[n][2]
  <2>1. n # 0 => n - 1 \in 0..N /\ n \in 1..N
    BY <1>1
  <2>2. f[n] = IF n = 0 THEN 3 ELSE g[n][f[n - 1]]
    BY <1>4 DEF Runs
  <2> QED
    BY <2>1, <2>2
<1>6. Cursor(layout, f)
  BY <1>4, <1>5 DEF Cursor, Runs, N
<1> QED
  BY <1>6 DEF layout

\* The bytes go at least as far as the frame of m, and begin with it.
Begins(bytes, m) ==
  /\ Len(bytes) \in Nat /\ Len(bytes) >= framed_size(m)
  /\ \A i \in 1..framed_size(m) : bytes[i] = Frame(m)[i]

\* The decoder's message is the encoder's.
LEMMA ReadsMessage ==
  ASSUME NEW m, IsMessage(m), NEW bytes, Begins(bytes, m)
  PROVE  ReadMessage(bytes, m.type) = m
<1> DEFINE t == m.type
           layout == Layout[t]
           cursor == CHOOSE c : Cursor(layout, c)
           field(name) == CHOOSE i \in DOMAIN layout : layout[i][1] = name
<1>1. t \in Types /\ Fitting(t)
  BY LayoutsAgree DEF IsMessage
<1>2. Cursor(layout, cursor)
  BY <1>1, CursorRuns
<1> HIDE DEF cursor
<1>3. ReadMessage(bytes, t) = [name \in {"type"} \cup FieldNames(t) |->
        IF name = "type" THEN t
        ELSE read(bytes, cursor[field(name) - 1], layout[field(name)][2])]
  BY DEF ReadMessage, Cursor, cursor
<1>4. ASSUME NEW name \in FieldNames(t)
      PROVE  /\ name # "type"
             /\ read(bytes, cursor[field(name) - 1], layout[field(name)][2]) = m[name]
  <2>1. PICK i \in DOMAIN layout : layout[i][1] = name
    BY DEF FieldNames
  <2>2. name \notin {"length", "type"} /\ field(name) = i
    BY <1>1, <2>1 DEF Fitting, Distinct
  <2>3. <<name, cursor[i - 1], layout[i][2]>> \in AllPlaces(t)
    BY <1>1, <1>2, <2>1 DEF Fitting, Agrees
  <2>4. m[name] \in Nat /\ m[name] < Weight[layout[i][2]]
    <3>1. m[name] \in 0..(Weight[layout[i][2]] - 1)
      BY <2>1 DEF IsMessage
    <3>2. layout[i][2] \in 1..8
      BY <1>1, <2>3 DEF Fitting, Disjoint
    <3>3. Weight[layout[i][2]] \in Nat
      BY <3>2, WeightIs
    <3> QED
      BY <3>1, <3>3
  <2>5. Value(m, name) = m[name]
    BY <2>2 DEF Value
  <2>6. read(bytes, cursor[i - 1], layout[i][2]) = m[name]
    <3>1. PICK p \in AllPlaces(t) : p = <<name, cursor[i - 1], layout[i][2]>>
      BY <2>3
    <3>2. p[2] \in Nat /\ p[3] \in 1..8 /\ p[2] + p[3] <= framed_size(m)
      BY <1>1, SizeIs DEF Fitting, Disjoint
    <3>3. \A j \in 1..p[3] : p[2] + j \in 1..framed_size(m)
      <4>1. framed_size(m) \in Nat
        BY SizeIs
      <4> QED
        BY <3>2, <4>1
    <3>4. \A j \in 1..p[3] : bytes[p[2] + j] = Frame(m)[p[2] + j]
      BY <3>3 DEF Begins
    <3>5. p[1] = name /\ p[2] = cursor[i - 1] /\ p[3] = layout[i][2]
      BY <3>1
    <3> QED
      BY <2>4, <2>5, <3>4, <3>5, ReadsPlace
  <2> QED
    BY <2>2, <2>6
<1>5. m = [name \in {"type"} \cup FieldNames(t) |-> m[name]]
  BY DEF IsMessage
<1> HIDE DEF field, layout
<1>6. ReadMessage(bytes, t) = [name \in {"type"} \cup FieldNames(t) |-> m[name]]
  BY <1>3, <1>4
<1> QED
  BY <1>5, <1>6

\* A frame, whatever follows it, decodes to the message it was made of.
LEMMA DecodesWhole ==
  ASSUME NEW m, IsMessage(m), NEW bytes, Begins(bytes, m)
  PROVE  decode_frame(bytes) = [status |-> "Ok", consumed |-> framed_size(m), message |-> m]
<1> DEFINE t == m.type
           length == read(bytes, 0, 2)
           whole == Len(bytes) >= 2 /\ Len(bytes) >= 2 + length
           types == {u \in Types : Code[u] = bytes[3]}
<1>1. t \in Types /\ framed_size(m) = 2 + WireSize[t] /\ WireSize[t] \in 12..44
  BY SizeIs, ReadsHeader DEF IsMessage
<1>2. bytes[1] = Frame(m)[1] /\ bytes[2] = Frame(m)[2] /\ bytes[3] = Frame(m)[3]
  <2>1. framed_size(m) \in 14..46
    BY SizeIs
  <2>2. 1 \in 1..framed_size(m) /\ 2 \in 1..framed_size(m) /\ 3 \in 1..framed_size(m)
    BY <2>1
  <2> QED
    BY <2>2 DEF Begins
<1>3. length = WireSize[t] /\ bytes[3] = Code[t]
  BY <1>2, ReadsHeader
<1>4. whole /\ length # 0 /\ 2 + length = framed_size(m)
  <2> HIDE DEF length
  <2>1. Len(bytes) \in Nat /\ Len(bytes) >= framed_size(m)
    BY DEF Begins
  <2>2. length \in 12..44 /\ 2 + length = framed_size(m)
    BY <1>1, <1>3
  <2> QED
    BY <2>1, <2>2
<1>5. types = {t}
  BY <1>1, <1>3, CodesDiffer
<1>6. ReadMessage(bytes, t) = m
  BY ReadsMessage
<1>7. types # {} /\ (CHOOSE u \in types : TRUE) = t
  BY <1>5
<1>8. decode_frame(bytes) =
        CASE ~whole               -> Rejected("ShortBuffer", 0)
          [] whole /\ length = 0  -> Rejected("LengthMismatch", 2)
          [] whole /\ length # 0  ->
               IF types = {} THEN Rejected("UnknownType", 2 + length)
               ELSE LET type == CHOOSE u \in types : TRUE
                    IN  IF length # WireSize[type] THEN Rejected("LengthMismatch", 2 + length)
                        ELSE [status |-> "Ok", consumed |-> 2 + length,
                              message |-> ReadMessage(bytes, type)]
  BY DEF decode_frame
<1> HIDE DEF types, whole, length
<1> QED
  BY <1>3, <1>4, <1>6, <1>7, <1>8

\* Less than a frame decodes to nothing.
LEMMA DecodesCut ==
  ASSUME NEW m, IsMessage(m), NEW bytes, Len(bytes) \in Nat, Len(bytes) < framed_size(m),
         \A i \in 1..Len(bytes) : bytes[i] = Frame(m)[i]
  PROVE  decode_frame(bytes) = Rejected("ShortBuffer", 0)
<1> DEFINE length == read(bytes, 0, 2)
           whole == Len(bytes) >= 2 /\ Len(bytes) >= 2 + length
<1>1. framed_size(m) = 2 + WireSize[m.type] /\ WireSize[m.type] \in 12..44
  BY SizeIs, ReadsHeader
<1>2. Len(bytes) >= 2 => length = WireSize[m.type]
  <2>1. Len(bytes) >= 2 => bytes[1] = Frame(m)[1] /\ bytes[2] = Frame(m)[2]
    OBVIOUS
  <2> QED
    BY <2>1, ReadsHeader
<1>3. ~whole
  <2>1. Len(bytes) >= 2 => 2 + length = framed_size(m)
    BY <1>1, <1>2
  <2>2. framed_size(m) \in Nat
    BY SizeIs
  <2> HIDE DEF length
  <2> QED
    BY <2>1, <2>2
<1>4. decode_frame(bytes) =
        CASE ~whole               -> Rejected("ShortBuffer", 0)
          [] whole /\ length = 0  -> Rejected("LengthMismatch", 2)
          [] whole /\ length # 0  ->
               LET types == {u \in Types : Code[u] = bytes[3]}
               IN  IF types = {} THEN Rejected("UnknownType", 2 + length)
                   ELSE LET type == CHOOSE u \in types : TRUE
                        IN  IF length # WireSize[type]
                            THEN Rejected("LengthMismatch", 2 + length)
                            ELSE [status |-> "Ok", consumed |-> 2 + length,
                                  message |-> ReadMessage(bytes, type)]
  BY DEF decode_frame
<1> HIDE DEF whole
<1> QED
  BY <1>3, <1>4

\* Any message, not only those sent: a frame decodes to the message it was made
\* of, and no beginning of it decodes to anything.
THEOREM CodecRoundTrips ==
  ASSUME NEW m, IsMessage(m)
  PROVE  LET frame == encode_frame(m, Zeros(framed_size(m))).bytes
         IN  /\ decode_frame(frame) = [status |-> "Ok", consumed |-> Len(frame), message |-> m]
             /\ \A n \in 0..(Len(frame) - 1) :
                  decode_frame(SubSeq(frame, 1, n)).status = "ShortBuffer"
<1> DEFINE F == framed_size(m)
<1>1. F \in Nat /\ Len(Frame(m)) = F /\ DOMAIN Frame(m) = 1..F
  BY SizeIs, FrameIs
<1>2. decode_frame(Frame(m)) = [status |-> "Ok", consumed |-> F, message |-> m]
  <2>1. Begins(Frame(m), m)
    BY <1>1 DEF Begins
  <2> QED
    BY <2>1, DecodesWhole
<1>3. ASSUME NEW n \in 0..(F - 1)
      PROVE  decode_frame(SubSeq(Frame(m), 1, n)).status = "ShortBuffer"
  <2> DEFINE cut == SubSeq(Frame(m), 1, n)
  <2> HIDE DEF F
  <2>1. n \in Nat /\ n < F /\ \A j \in 1..n : Frame(m)[j] \in {Frame(m)[k] : k \in 1..n}
    BY <1>1
  <2>2. Len(cut) = n /\ \A j \in 1..n : cut[j] = Frame(m)[j]
    <3>1. /\ Len(cut) = IF 1 <= n THEN (n - 1) + 1 ELSE 0
          /\ \A j \in 1..((n - 1) + 1) : cut[j] = Frame(m)[(1 + j) - 1]
      BY <2>1, SubSeqProperties
    <3> HIDE DEF cut
    <3> QED
      BY <2>1, <3>1
  <2> HIDE DEF cut
  <2>3. decode_frame(cut) = Rejected("ShortBuffer", 0)
    BY <2>1, <2>2, DecodesCut DEF F
  <2> QED
    BY <2>3 DEF Rejected, cut
<1> QED
  BY <1>1, <1>2, <1>3 DEF Frame

-----------------------------------------------------------------------------
(***************************************************************************)
(* What is left of a captured datagram, and what on_datagram makes of it.  *)
(***************************************************************************)

\* A datagram is the number of its stream, its own number and the frame.
LEMMA DatagramIs ==
  ASSUME NEW i \in DOMAIN Sent
  PROVE  LET x == Datagram[i]
             m == Sent[i].msg
         IN  /\ IsMessage(m) /\ Len(x) = 10 + framed_size(m)
             /\ x \in Seq({x[j] : j \in DOMAIN x}) /\ DOMAIN x = 1..Len(x)
             /\ \A j \in 1..2 : x[0 + j] = byte_of(Sent[i].loc, 2, j)
             /\ \A j \in 1..8 : x[2 + j] = byte_of(Sent[i].seq, 8, j)
             /\ \A j \in 1..framed_size(m) : x[10 + j] = Frame(m)[j]
<1> DEFINE m == Sent[i].msg
           F == framed_size(m)
           a == [j \in 1..2 |-> byte_of(Sent[i].loc, 2, j)]
           b == [j \in 1..8 |-> byte_of(Sent[i].seq, 8, j)]
           c == Frame(m)
           S == {a[j] : j \in 1..2} \cup {b[j] : j \in 1..8} \cup {c[j] : j \in 1..F}
           x == (a \o b) \o c
<1>1. IsMessage(m) /\ F \in Nat
  BY PcapAssumption, SizeIs
<1>2. c = [j \in 1..F |-> c[j]] /\ Len(c) = F
  <2> HIDE DEF F, m
  <2>1. DOMAIN c = 1..F /\ Len(c) = F /\ c \in Seq({c[j] : j \in 1..F})
    BY <1>1, FrameIs DEF F
  <2> HIDE DEF c
  <2> QED
    BY <2>1
<1>3. Datagram[i] = x
  BY DEF Datagram, transport_frame, Frame
<1> HIDE DEF c, F, m
<1>4. a \in Seq(S) /\ b \in Seq(S) /\ Len(a) = 2 /\ Len(b) = 8
  <2>1. \A j \in 1..2 : a[j] \in S
    <3> HIDE DEF a
    <3> QED
      OBVIOUS
  <2>2. \A j \in 1..8 : b[j] \in S
    <3> HIDE DEF b
    <3> QED
      OBVIOUS
  <2> HIDE DEF S
  <2> QED
    BY <2>1, <2>2
<1>5. c \in Seq(S)
  <2>1. \A j \in 1..F : c[j] \in S
    OBVIOUS
  <2> HIDE DEF S
  <2>2. c \in [1..F -> S]
    BY <1>2, <2>1
  <2> QED
    BY <1>1, <2>2
<1> DEFINE ab == a \o b
<1> HIDE DEF S, a, b
<1>6. /\ ab \in Seq(S) /\ Len(ab) = 10
      /\ \A j \in 1..10 : ab[j] = IF j <= 2 THEN a[j] ELSE b[j - 2]
  <2>1. /\ ab \in Seq(S) /\ Len(ab) = Len(a) + Len(b)
        /\ \A j \in 1..(Len(a) + Len(b)) : ab[j] = IF j <= Len(a) THEN a[j] ELSE b[j - Len(a)]
    BY <1>4, ConcatProperties
  <2> HIDE DEF ab
  <2>2. Len(a) + Len(b) = 10
    BY <1>4
  <2> QED
    BY <1>4, <2>1, <2>2
<1> HIDE DEF ab
<1>11. /\ x \in Seq(S) /\ Len(x) = 10 + F
      /\ \A j \in 1..(10 + F) : x[j] = IF j <= 10 THEN ab[j] ELSE c[j - 10]
  <2>1. /\ x \in Seq(S) /\ Len(x) = Len(ab) + Len(c)
        /\ \A j \in 1..(Len(ab) + Len(c)) : x[j] = IF j <= Len(ab) THEN ab[j] ELSE c[j - Len(ab)]
    BY <1>5, <1>6, ConcatProperties DEF ab
  <2> HIDE DEF x
  <2> QED
    BY <1>2, <1>6, <2>1
<1> HIDE DEF x
<1>7. \A j \in 1..2 : x[0 + j] = byte_of(Sent[i].loc, 2, j)
  BY <1>1, <1>6, <1>11 DEF a, b
<1>8. \A j \in 1..8 : x[2 + j] = byte_of(Sent[i].seq, 8, j)
  BY <1>1, <1>6, <1>11 DEF a, b
<1>9. \A j \in 1..F : x[10 + j] = c[j]
  BY <1>1, <1>11
<1>10. x \in Seq({x[j] : j \in DOMAIN x}) /\ DOMAIN x = 1..Len(x)
  BY <1>11
<1> QED
  BY <1>1, <1>3, <1>11, <1>7, <1>8, <1>9, <1>10 DEF F, m, c

\* What is left of a captured datagram.
Kept(x, how) ==
  CASE how = "whole" -> Len(x) [] how = "headers" -> 0 [] how = "stub" -> 11
    [] how = "cut" -> Len(x) - 1 [] how = "padded" -> Len(x) + 2

\* It is a beginning of the datagram, padded or not.
LEMMA PayloadIs ==
  ASSUME NEW i \in DOMAIN Sent, NEW how \in Hows
  PROVE  LET x == Datagram[i]
             y == next(Captured(write_datagram(x, 0), how)).payload
         IN  /\ Len(x) \in Nat /\ Len(x) >= 24
             /\ Len(y) = Kept(x, how)
             /\ \A j \in 1..Kept(x, how) : j <= Len(x) => y[j] = x[j]
<1> DEFINE x == Datagram[i]
           n == Kept(x, how)
           y == next(Captured(write_datagram(x, 0), how)).payload
           z == IF how = "padded" THEN x \o Zeros(2) ELSE x
<1>1. Len(x) \in Nat /\ Len(x) >= 24 /\ x \in Seq({x[j] : j \in DOMAIN x})
  <2> DEFINE F == framed_size(Sent[i].msg)
  <2>1. IsMessage(Sent[i].msg) /\ Len(x) = 10 + F /\ x \in Seq({x[j] : j \in DOMAIN x})
    BY DatagramIs
  <2>2. F \in 14..46
    BY <2>1, SizeIs
  <2> HIDE DEF F
  <2> QED
    BY <2>1, <2>2
<1>2. how \in {"whole", "headers", "stub", "cut", "padded"}
  BY DEF Hows
<1> HIDE DEF x
<1>3. n \in Nat
  BY <1>1, <1>2 DEF Kept
<1>4. y = SubSeq(z, 1, n)
  <2> DEFINE w == write_datagram(x, 0)
             rec == Captured(w, how)
  <2>1. rec.caplen - kHeadersLen = n /\ rec.payload = z
    BY <1>1, <1>2 DEF Captured, write_datagram, kHeadersLen, kTransportHeaderSize, Kept
  <2> HIDE DEF rec
  <2> QED
    BY <2>1 DEF next, rec
<1>5. Len(y) = n /\ \A j \in 1..n : y[j] = z[j]
  <2> HIDE DEF y, z, n
  <2>1. \A j \in 1..n : z[j] \in {z[k] : k \in 1..n}
    OBVIOUS
  <2>2. /\ Len(SubSeq(z, 1, n)) = IF 1 <= n THEN (n - 1) + 1 ELSE 0
        /\ \A j \in 1..((n - 1) + 1) : SubSeq(z, 1, n)[j] = z[(1 + j) - 1]
    BY <1>3, <2>1, SubSeqProperties
  <2> QED
    BY <1>3, <1>4, <2>2
<1>6. \A j \in 1..Len(x) : z[j] = x[j]
  <2>1. CASE how = "padded"
    <3> DEFINE S == {x[j] : j \in DOMAIN x} \cup {0}
    <3>1. x \in Seq(S) /\ Zeros(2) \in Seq(S) /\ Len(Zeros(2)) = 2
      BY <1>1 DEF Zeros
    <3>2. \A j \in 1..(Len(x) + Len(Zeros(2))) :
            (x \o Zeros(2))[j] = IF j <= Len(x) THEN x[j] ELSE Zeros(2)[j - Len(x)]
      <4> HIDE DEF S
      <4> QED
        BY <3>1, ConcatProperties
    <3> QED
      BY <1>1, <2>1, <3>1, <3>2
  <2> QED
    BY <2>1
<1> HIDE DEF n, y, z
<1> QED
  BY <1>1, <1>3, <1>5, <1>6 DEF n, y, x

\* No message the book takes is one of the two the handler gets for a payload
\* it cannot decode.
LEMMA BookMessageIs ==
  ASSUME NEW m, IsMessage(m)
  PROVE  book_message(m).type = m.type /\ m.type \notin {"bad", "short"}
<1>1. m.type \in {"S", "R", "A", "F", "E", "C", "X", "D", "U", "P"}
  BY DEF IsMessage, Types, Layout
<1> QED
  BY <1>1 DEF book_message, AddMsg, ReduceMsg, DeleteMsg, ReplaceMsg, OtherMsg

\* What on_datagram makes of each captured datagram.
LEMMA ParsedIs ==
  ASSUME NEW i \in DOMAIN Sent, NEW how \in Hows
  PROVE  /\ how = "stub" => Parsed[i][how].frame = ShortFrame
         /\ how \in {"whole", "cut", "padded"} =>
              /\ Parsed[i][how].loc = Sent[i].loc /\ Parsed[i][how].seq = Sent[i].seq
              /\ Parsed[i][how].frame = IF how = "cut" THEN BadFrame ELSE book_message(Sent[i].msg)
<1> DEFINE m == Sent[i].msg
           F == framed_size(m)
           x == Datagram[i]
           n == Kept(x, how)
           y == next(Captured(write_datagram(x, 0), how)).payload
           z == SubSeq(y, kTransportHeaderSize + 1, Len(y))
<1>1. /\ IsMessage(m) /\ F \in 14..46 /\ Len(x) = 10 + F
      /\ \A j \in 1..2 : x[0 + j] = byte_of(Sent[i].loc, 2, j)
      /\ \A j \in 1..8 : x[2 + j] = byte_of(Sent[i].seq, 8, j)
      /\ \A j \in 1..F : x[10 + j] = Frame(m)[j]
  <2>1. IsMessage(m) /\ F \in 14..46
    BY PcapAssumption, SizeIs
  <2> QED
    BY <2>1, DatagramIs
<1>2. Len(y) = n /\ \A j \in 1..n : j <= Len(x) => y[j] = x[j]
  BY PayloadIs
<1>3. Parsed[i][how] = parse(y)
  BY DEF Parsed
<1> HIDE DEF m, F, x, y
<1>4. CASE how = "stub"
  <2>1. Len(y) < kTransportHeaderSize + 2
    BY <1>2, <1>4 DEF Kept, kTransportHeaderSize
  <2> HIDE DEF z
  <2> QED
    BY <1>3, <1>4, <2>1 DEF parse
<1>5. CASE how \in {"whole", "cut", "padded"}
  <2>1. /\ n \in Nat /\ n >= 23 /\ n - 10 = IF how = "whole" THEN F ELSE
                                            IF how = "cut" THEN F - 1 ELSE F + 2
    <3>1. Len(x) = 10 + F /\ F \in 14..46
      BY <1>1
    <3>2. n = IF how = "whole" THEN Len(x) ELSE IF how = "cut" THEN Len(x) - 1 ELSE Len(x) + 2
      BY <1>5 DEF Kept
    <3> HIDE DEF n
    <3> QED
      BY <3>1, <3>2
  <2> HIDE DEF n
  <2>2. /\ \A j \in 1..2 : y[0 + j] = byte_of(Sent[i].loc, 2, j)
        /\ \A j \in 1..8 : y[2 + j] = byte_of(Sent[i].seq, 8, j)
    <3>1. \A j \in 1..10 : y[j] = x[j]
      BY <1>1, <1>2, <2>1
    <3>2. /\ \A j \in 1..2 : 0 + j \in 1..10
          /\ \A j \in 1..8 : 2 + j \in 1..10
      OBVIOUS
    <3> QED
      BY <1>1, <3>1, <3>2
  <2>3. /\ Len(z) = n - 10
        /\ \A j \in 1..(n - 10) : j <= F => z[j] = Frame(m)[j]
    <3>1. \A j \in 11..n : y[j] \in {y[k] : k \in 11..n}
      OBVIOUS
    <3>2. z = SubSeq(y, 11, n)
      BY <1>2 DEF kTransportHeaderSize, z
    <3>3. /\ Len(SubSeq(y, 11, n)) = IF 11 <= n THEN (n - 11) + 1 ELSE 0
          /\ \A j \in 1..((n - 11) + 1) : SubSeq(y, 11, n)[j] = y[(11 + j) - 1]
      BY <2>1, <3>1, SubSeqProperties
    <3>4. \A j \in 1..(n - 10) : j <= F => /\ j \in 1..F /\ (11 + j) - 1 = 10 + j
                                           /\ 10 + j \in 1..n /\ 10 + j <= Len(x)
      BY <1>1, <2>1
    <3>5. \A j \in 1..(n - 10) : j <= F => SubSeq(y, 11, n)[j] = Frame(m)[j]
      BY <1>1, <1>2, <2>1, <3>3, <3>4
    <3> HIDE DEF z
    <3> QED
      BY <2>1, <3>2, <3>3, <3>5
  <2> HIDE DEF z
  <2>4. read(y, 0, 2) = Sent[i].loc /\ read(y, 2, 8) = Sent[i].seq
    <3>1. /\ Sent[i].loc \in Nat /\ Sent[i].loc < Weight[2]
          /\ Sent[i].seq \in Nat /\ Sent[i].seq < Weight[8]
      <4>1. Weight[2] \in Nat /\ Weight[8] \in Nat
        BY WeightIs
      <4> QED
        BY <4>1, PcapAssumption
    <3> QED
      BY <2>2, <3>1, ReadsBack
  <2>5. ~(Len(y) < kTransportHeaderSize + 2)
    BY <1>2, <2>1 DEF kTransportHeaderSize
  <2> DEFINE pr == decode_frame(z)
  <2>6. parse(y) = [loc |-> Sent[i].loc, seq |-> Sent[i].seq,
                    frame |-> IF pr.status = "Ok" THEN book_message(pr.message) ELSE BadFrame]
    BY <2>4, <2>5 DEF parse, z
  <2>7. CASE how = "cut"
    <3>0. n - 10 \in Nat /\ n - 10 < F /\ F \in Nat
      BY <1>1, <2>1, <2>7
    <3>1. Len(z) \in Nat /\ Len(z) < F /\ \A j \in 1..Len(z) : z[j] = Frame(m)[j]
      <4>1. \A j \in 1..(n - 10) : j <= F
        BY <3>0
      <4> QED
        BY <2>3, <3>0, <4>1
    <3>2. pr = Rejected("ShortBuffer", 0)
      BY <1>1, <3>1, DecodesCut DEF F
    <3> QED
      BY <1>3, <2>6, <2>7, <3>2 DEF Rejected
  <2>8. CASE how # "cut"
    <3>0. n - 10 \in Nat /\ n - 10 >= F /\ F \in Nat
      BY <1>1, <2>1, <2>8
    <3>1. Len(z) \in Nat /\ Len(z) >= F /\ \A j \in 1..F : z[j] = Frame(m)[j]
      <4>1. \A j \in 1..F : j \in 1..(n - 10) /\ j <= F
        BY <3>0
      <4> QED
        BY <2>3, <3>0, <4>1
    <3>2. pr.status = "Ok" /\ pr.message = m
      BY <1>1, <3>1, DecodesWhole DEF F, Begins
    <3>3. Parsed[i][how] = [loc |-> Sent[i].loc, seq |-> Sent[i].seq, frame |-> book_message(m)]
      <4> HIDE DEF pr
      <4> QED
        BY <1>3, <2>6, <3>2
    <3> QED
      BY <1>5, <2>8, <3>3 DEF m
  <2> QED
    BY <1>5, <2>7, <2>8
<1> QED
  BY <1>4, <1>5

\* The transport header survives the capture, unless it is cut short with it.
LEMMA HeadersReadBack ==
  ASSUME NEW i \in DOMAIN Sent
  PROVE  /\ Parsed[i]["stub"].frame = ShortFrame
         /\ \A how \in {"whole", "cut", "padded"} :
              /\ Parsed[i][how].frame # ShortFrame
              /\ Parsed[i][how].loc = Sent[i].loc /\ Parsed[i][how].seq = Sent[i].seq
<1>1. IsMessage(Sent[i].msg)
  BY PcapAssumption
<1>2. book_message(Sent[i].msg) # ShortFrame
  BY <1>1, BookMessageIs DEF ShortFrame
<1>3. BadFrame # ShortFrame
  BY DEF BadFrame, ShortFrame
<1> QED
  BY <1>2, <1>3, ParsedIs DEF Hows

-----------------------------------------------------------------------------
(***************************************************************************)
(* What a step does.                                                       *)
(***************************************************************************)

\* A record's time is the one it was captured with, and a payload is what is
\* left of the datagram.
LEMMA ReadBack ==
  ASSUME NEW i \in DOMAIN Sent, NEW how \in Hows, NEW ts \in Int
  PROVE  LET rec == Captured(write_datagram(Datagram[i], ts), how)
         IN  next(rec).ts_us = ts /\ (Delivers(rec) => how # "headers")
<1> DEFINE w == write_datagram(Datagram[i], ts)
<1>1. (ts \div Second) * Second + (ts % Second) = ts
  BY PcapAssumption, Remainder
<1>2. w.sec = ts \div Second /\ w.usec = ts % Second
  BY DEF write_datagram
<1>3. Captured(w, how).sec = w.sec /\ Captured(w, how).usec = w.usec
  BY DEF Captured, write_datagram, Hows
<1>4. how = "headers" => Captured(w, how).caplen = kHeadersLen
  BY DEF Captured, write_datagram
<1> QED
  BY <1>1, <1>2, <1>3, <1>4 DEF next, Delivers, kHeadersLen

\* the three things that can become of a record
PassedOver(fate) == fate = "no payload" /\ UNCHANGED <<running, loop, h, gaps>>

SkippedOver(ts, fate) ==
  /\ fate = "skipped" /\ InsideWindow(Begun(ts), ts)
  /\ loop' = [Begun(ts) EXCEPT !.skipped = @ + 1, !.prev_cap_us = ts]
  /\ UNCHANGED <<running, h, gaps>>

ReplayedOne(i, how, ts, fate) ==
  LET d == Parsed[i][how]
      r == on_datagram(h, d, IF opt.skip_gaps THEN SkipGaps ELSE Stall)
  IN  /\ how # "headers" /\ ~InsideWindow(Begun(ts), ts)
      /\ loop' = [Begun(ts) EXCEPT !.slept = @ + sleep(Begun(ts), ts), !.prev_cap_us = ts,
                                   !.replayed = @ + 1]
      /\ running' = GoesOn(Begun(ts).replayed + 1)
      /\ h' = r.h /\ fate = r.fate
      /\ gaps' = IF r.missing = {} THEN gaps
                 ELSE Append(gaps, [loc |-> d.loc, first_missing |-> Min(r.missing),
                                    last_missing |-> Max(r.missing)])

StepOf(i, how, ts, fate) ==
  /\ running /\ Len(file) < MaxRecords /\ opt' = opt
  /\ IF file = << >> THEN ts = FirstTime ELSE ts - file[Len(file)].ts \in TimeSteps
  /\ file' = Append(file, [sent |-> i, how |-> how, ts |-> ts, fate |-> fate])
  /\ \/ PassedOver(fate)
     \/ SkippedOver(ts, fate)
     \/ ReplayedOne(i, how, ts, fate)

LEMMA StepCases ==
  ASSUME Typed, Next
  PROVE  \E i \in DOMAIN Sent, how \in Hows, ts \in Int : \E fate : StepOf(i, how, ts, fate)
<1>1. PICK how \in Hows, step \in TimeSteps, i \in DOMAIN Sent :
        \/ PassOver(i, how, StampedAfter(step))
        \/ Skip(i, how, StampedAfter(step))
        \/ Replay(i, how, StampedAfter(step))
  BY DEF Next
<1> DEFINE ts == StampedAfter(step)
<1>2. running /\ Len(file) < MaxRecords
  BY DEF Next
<1>3. ts \in Int /\ IF file = << >> THEN ts = FirstTime ELSE ts - file[Len(file)].ts \in TimeSteps
  <2>1. step \in Int
    BY PcapAssumption
  <2>2. CASE file = << >>
    BY <2>2, PcapAssumption DEF StampedAfter, FirstTime
  <2>3. CASE file # << >>
    <3>1. Len(file) \in 1..Len(file)
      BY <2>3, EmptySeq DEF Typed
    <3>2. file[Len(file)] \in Records
      BY <3>1, ElementOfSeq DEF Typed
    <3>3. ts = file[Len(file)].ts + step /\ file[Len(file)].ts \in Int
      BY <2>3, <3>2 DEF StampedAfter, Last, Records
    <3> QED
      BY <2>1, <2>3, <3>3
  <2> QED
    BY <2>2, <2>3
<1> DEFINE rec == Captured(write_datagram(Datagram[i], ts), how)
<1>4. next(rec).ts_us = ts /\ (Delivers(rec) => how # "headers")
  BY <1>3, ReadBack
<1> HIDE DEF ts
<1>5. CASE PassOver(i, how, ts)
  <2>1. StepOf(i, how, ts, "no payload")
    BY <1>2, <1>3, <1>5 DEF PassOver, StepOf, PassedOver, Note
  <2> QED
    BY <1>3, <2>1
<1>6. CASE Skip(i, how, ts)
  <2>1. SkippedOver(ts, "skipped")
    BY <1>4, <1>6 DEF Skip, SkippedOver
  <2>2. StepOf(i, how, ts, "skipped")
    BY <1>2, <1>3, <1>6, <2>1 DEF Skip, StepOf, Note
  <2> QED
    BY <1>3, <2>2
<1>7. CASE Replay(i, how, ts)
  <2> DEFINE fate == on_datagram(h, Parsed[i][how], IF opt.skip_gaps THEN SkipGaps ELSE Stall).fate
  <2>1. ReplayedOne(i, how, ts, fate)
    BY <1>4, <1>7 DEF Replay, ReplayedOne
  <2>2. StepOf(i, how, ts, fate)
    BY <1>2, <1>3, <1>7, <2>1 DEF Replay, StepOf, Note
  <2> QED
    BY <1>3, <2>2
<1> QED
  BY <1>1, <1>5, <1>6, <1>7 DEF ts

-----------------------------------------------------------------------------
(***************************************************************************)
(* What on_datagram does to the cursors when nothing recovers from a gap:  *)
(* it leaves them, takes the datagram, or stalls.                          *)
(***************************************************************************)

Left(gap, d, r) ==
  /\ r.h.gap = gap /\ r.missing = {} /\ r.fate \in {"bad", "decoded", "stale"}
  /\ r.fate # "stale" => d.frame = ShortFrame \/ d.seq = 0

Taken(gap, d, r) ==
  /\ d.frame # ShortFrame /\ d.seq # 0 /\ r.fate \in {"bad", "decoded"}
  /\ r.h.gap = Assign(gap, d.loc, d.seq + 1)
  /\ IF d.loc \in DOMAIN gap THEN gap[d.loc] <= d.seq /\ r.missing = gap[d.loc]..(d.seq - 1)
     ELSE r.missing = {}

Stalled(gap, d, r) ==
  /\ d.frame # ShortFrame /\ r.h.gap = gap /\ r.fate = "stalled"
  /\ d.loc \in DOMAIN gap /\ gap[d.loc] < d.seq /\ r.missing = gap[d.loc]..(d.seq - 1)

Decoded(r, gap, missing) ==
  /\ IsHandler(r.h) /\ r.h.gap = gap /\ r.missing = missing
  /\ r.fate \in {"bad", "decoded"}

\* The book takes what is decoded, and only that.
Applies(db, d, r) ==
  /\ r.h.db = IF r.fate = "decoded" THEN apply(db, d.frame).db ELSE db
  /\ r.fate = "decoded" => d.frame \notin {BadFrame, ShortFrame}
  /\ r.fate = "bad" => d.frame \in {BadFrame, ShortFrame}

LEMMA DecodeKeepsCursors ==
  ASSUME NEW g, IsHandler(g), NEW d, d.frame # ShortFrame, NEW missing
  PROVE  LET r == decode_and_apply(g, d, missing, FALSE)
         IN  Decoded(r, g.gap, missing) /\ Applies(g.db, d, r)
<1> DEFINE r == decode_and_apply(g, d, missing, FALSE)
<1>1. [g EXCEPT !.db = apply(@, d.frame).db] = [db |-> apply(g.db, d.frame).db, gap |-> g.gap]
  BY DEF IsHandler
<1>2. Decoded(r, g.gap, missing)
  BY <1>1 DEF decode_and_apply, Result, IsHandler, Decoded
<1>3. /\ d.frame = BadFrame => r = Result(g, "bad", missing, FALSE)
      /\ d.frame # BadFrame => r = Result([db |-> apply(g.db, d.frame).db, gap |-> g.gap],
                                          "decoded", missing, FALSE)
  BY <1>1 DEF decode_and_apply
<1> HIDE DEF r
<1>4. /\ d.frame = BadFrame => r.h.db = g.db /\ r.fate = "bad"
      /\ d.frame # BadFrame => r.h.db = apply(g.db, d.frame).db /\ r.fate = "decoded"
  BY <1>3 DEF Result
<1>5. Applies(g.db, d, r)
  BY <1>4 DEF Applies
<1> QED
  BY <1>2, <1>5 DEF r

LEMMA WithoutRecovery ==
  ASSUME NEW g, IsHandler(g), IsCursors(g.gap), NEW d, d.frame # ShortFrame => d.seq \in Nat,
         NEW answer \in {SkipGaps, Stall}
  PROVE  LET r == on_datagram(g, d, answer)
         IN  /\ IsHandler(r.h) /\ Applies(g.db, d, r)
             /\ \/ Left(g.gap, d, r)
                \/ Taken(g.gap, d, r) /\ (r.missing # {} => answer = SkipGaps)
                \/ Stalled(g.gap, d, r) /\ answer = Stall
<1> DEFINE gap == g.gap
           r == on_datagram(g, d, answer)
           obs == observe(gap, d.loc, d.seq)
           taken == Assign(gap, d.loc, d.seq + 1)
           now == [db |-> g.db, gap |-> taken]
<1> HIDE DEF r, taken
<1>1. d.loc \in DOMAIN gap => gap[d.loc] \in Nat
  BY DEF IsCursors
<1>2. CASE d.frame = ShortFrame
  <2>1. r = Result(g, "bad", {}, FALSE)
    BY <1>2 DEF on_datagram, r
  <2> QED
    BY <1>2, <2>1 DEF Left, Result, Applies, r
<1>3. CASE d.frame # ShortFrame /\ d.seq = 0
  <2>1. r = decode_and_apply(g, d, {}, FALSE)
    BY <1>3 DEF on_datagram, r
  <2>2. Decoded(r, gap, {}) /\ Applies(g.db, d, r)
    BY <1>3, <2>1, DecodeKeepsCursors
  <2> QED
    BY <1>3, <2>2 DEF Left, Decoded, r
<1>4. CASE d.frame # ShortFrame /\ d.seq # 0 /\ d.loc \in DOMAIN gap /\ d.seq < gap[d.loc]
  <2>1. obs.verdict = "stale"
    BY <1>1, <1>4 DEF observe
  <2>2. r = Result(g, "stale", {}, FALSE)
    BY <1>4, <2>1 DEF on_datagram, r
  <2> QED
    BY <2>2 DEF Left, Result, Applies, r
<1>5. CASE /\ d.frame # ShortFrame /\ d.seq # 0
           /\ d.loc \in DOMAIN gap => d.seq = gap[d.loc]
  <2>1. obs.verdict = "ok" /\ obs.expected = taken
    BY <1>1, <1>5 DEF observe, taken
  <2>2. r = decode_and_apply(advance([g EXCEPT !.gap = obs.expected], d.loc, d.seq), d, {}, FALSE)
    BY <1>5, <2>1 DEF on_datagram, r
  <2>3. [g EXCEPT !.gap = obs.expected] = now /\ IsHandler(now)
    BY <2>1 DEF IsHandler
  <2>4. expected(taken, d.loc) = d.seq + 1
    BY DEF Assign, expected, taken
  <2>5. advance(now, d.loc, d.seq) = now
    BY <1>5, <2>4 DEF advance
  <2>6. r = decode_and_apply(now, d, {}, FALSE)
    BY <2>2, <2>3, <2>5
  <2>7. Decoded(r, taken, {}) /\ Applies(g.db, d, r)
    BY <1>5, <2>3, <2>6, DecodeKeepsCursors
  <2>8. d.loc \in DOMAIN gap => gap[d.loc] <= d.seq /\ gap[d.loc]..(d.seq - 1) = {}
    BY <1>1, <1>5
  <2>9. Taken(gap, d, r)
    BY <1>5, <2>7, <2>8 DEF Taken, Decoded, taken
  <2> QED
    BY <2>7, <2>9 DEF Decoded, r
<1>6. CASE d.frame # ShortFrame /\ d.seq # 0 /\ d.loc \in DOMAIN gap /\ gap[d.loc] < d.seq
  <2> DEFINE missing == gap[d.loc]..(d.seq - 1)
  <2>1. obs.verdict = "gap"
    BY <1>1, <1>6 DEF observe
  <2>2. r = on_gap(g, d, answer)
    BY <1>6, <2>1 DEF on_datagram, r
  <2>3. expected(gap, d.loc) = gap[d.loc]
    BY <1>6 DEF expected
  <2>4. CASE answer = Stall
    <3>1. r = Result(g, "stalled", missing, FALSE)
      BY <2>2, <2>3, <2>4 DEF on_gap, Stall
    <3> QED
      BY <1>6, <2>4, <3>1 DEF Stalled, Result, Applies, r
  <2>5. CASE answer = SkipGaps
    <3>1. r = decode_and_apply(advance(g, d.loc, d.seq), d, missing, FALSE)
      BY <2>2, <2>3, <2>5 DEF on_gap, SkipGaps
    <3>2. advance(g, d.loc, d.seq) = now /\ IsHandler(now)
      BY <1>1, <1>6, <2>3 DEF advance, set_expected, IsHandler, taken
    <3>3. Decoded(r, taken, missing) /\ Applies(g.db, d, r)
      <4>1. /\ r = decode_and_apply(now, d, missing, FALSE)
            /\ now.gap = taken /\ now.db = g.db
        BY <3>1, <3>2
      <4> HIDE DEF missing, now
      <4> QED
        BY <1>6, <3>2, <4>1, DecodeKeepsCursors
    <3>4. Taken(gap, d, r)
      BY <1>1, <1>6, <3>3 DEF Taken, Decoded, taken
    <3> QED
      BY <2>5, <3>3, <3>4 DEF Decoded, r
  <2> QED
    BY <2>4, <2>5
<1> QED
  BY <1>1, <1>2, <1>3, <1>4, <1>5, <1>6

-----------------------------------------------------------------------------
(***************************************************************************)
(* Types, and the sets of records after one more is read.                  *)
(***************************************************************************)

Counts(l, x) ==
  /\ x.fate \in {"decoded", "bad"} /\ x.how # "stub"
  /\ Sent[x.sent].loc = l /\ Sent[x.sent].seq # 0

LEMMA Recorded ==
  ASSUME Typed, NEW x \in Records, file' = Append(file, x)
  PROVE  LET n == Len(file) + 1
         IN  /\ Len(file) \in Nat /\ DOMAIN file = 1..Len(file)
             /\ file' \in Seq(Records) /\ Len(file') = n /\ DOMAIN file' = DOMAIN file \cup {n}
             /\ file'[n] = x /\ \A k \in DOMAIN file : file'[k] = file[k] /\ file[k] \in Records
             /\ Delivered' = IF x.fate # "no payload" THEN Delivered \cup {n} ELSE Delivered
             /\ Skipped' = IF x.fate = "skipped" THEN Skipped \cup {n} ELSE Skipped
             /\ Replayed' = IF x.fate \notin {"no payload", "skipped"} THEN Replayed \cup {n}
                            ELSE Replayed
             /\ \A l : UsedAt(l)' = IF Counts(l, x) THEN UsedAt(l) \cup {n} ELSE UsedAt(l)
<1> DEFINE n == Len(file) + 1
<1>1. /\ file' \in Seq(Records) /\ Len(file) \in Nat /\ Len(file') = n
      /\ DOMAIN file = 1..Len(file) /\ DOMAIN file' = DOMAIN file \cup {n}
      /\ file'[n] = x /\ \A k \in DOMAIN file : file'[k] = file[k]
  BY Appended DEF Typed
<1>2. \A k \in DOMAIN file : file[k] \in Records
  BY <1>1, ElementOfSeq DEF Typed
<1>3. n \notin DOMAIN file
  BY <1>1
<1>4. Delivered' = IF x.fate # "no payload" THEN Delivered \cup {n} ELSE Delivered
  BY <1>1, <1>3 DEF Delivered
<1>5. Skipped' = IF x.fate = "skipped" THEN Skipped \cup {n} ELSE Skipped
  BY <1>1, <1>3 DEF Skipped
<1>6. Replayed' = IF x.fate \notin {"no payload", "skipped"} THEN Replayed \cup {n} ELSE Replayed
  <2>1. Replayed = {k \in DOMAIN file : file[k].fate \notin {"no payload", "skipped"}}
    BY DEF Replayed, Delivered, Skipped
  <2>2. Replayed' = {k \in DOMAIN file' : file'[k].fate \notin {"no payload", "skipped"}}
    BY DEF Replayed, Delivered, Skipped
  <2> QED
    BY <1>1, <1>3, <2>1, <2>2
<1>7. ASSUME NEW l
      PROVE  UsedAt(l)' = IF Counts(l, x) THEN UsedAt(l) \cup {n} ELSE UsedAt(l)
  BY <1>1, <1>3 DEF UsedAt, Counts
<1> QED
  BY <1>1, <1>2, <1>4, <1>5, <1>6, <1>7

-----------------------------------------------------------------------------
(***************************************************************************)
(* What a record replayed does to the cursors and the list, in terms of    *)
(* the message that was sent.                                              *)
(***************************************************************************)

Listing(l, s) == Append(gaps, [loc |-> l, first_missing |-> h.gap[l], last_missing |-> s - 1])

LeavesCursors(i, how, fate) ==
  /\ h'.gap = h.gap /\ gaps' = gaps /\ fate \in {"bad", "decoded", "stale"}
  /\ fate # "stale" => how = "stub" \/ Sent[i].seq = 0

TakesNumber(i, how, fate) ==
  LET l == Sent[i].loc
      s == Sent[i].seq
  IN  /\ how # "stub" /\ s # 0 /\ fate \in {"bad", "decoded"}
      /\ h'.gap = Assign(h.gap, l, s + 1)
      /\ \/ l \notin DOMAIN h.gap /\ gaps' = gaps
         \/ l \in DOMAIN h.gap /\ h.gap[l] = s /\ gaps' = gaps
         \/ l \in DOMAIN h.gap /\ h.gap[l] < s /\ gaps' = Listing(l, s) /\ opt.skip_gaps

Stalls(i, fate) ==
  LET l == Sent[i].loc
      s == Sent[i].seq
  IN  /\ fate = "stalled" /\ h'.gap = h.gap /\ ~opt.skip_gaps
      /\ l \in DOMAIN h.gap /\ h.gap[l] < s /\ gaps' = Listing(l, s)

LEMMA ReplayedHandler ==
  ASSUME Typed, NEW i \in DOMAIN Sent, NEW how \in Hows, NEW ts, NEW fate,
         ReplayedOne(i, how, ts, fate)
  PROVE  /\ IsHandler(h')
         /\ \/ LeavesCursors(i, how, fate)
            \/ TakesNumber(i, how, fate)
            \/ Stalls(i, fate)
<1> DEFINE l == Sent[i].loc
           s == Sent[i].seq
           d == Parsed[i][how]
           answer == IF opt.skip_gaps THEN SkipGaps ELSE Stall
           r == on_datagram(h, d, answer)
<1>1. /\ how = "stub" => d.frame = ShortFrame
      /\ how # "stub" => d.frame # ShortFrame /\ d.loc = l /\ d.seq = s
  BY HeadersReadBack DEF Hows, ReplayedOne
<1>2. s \in Nat /\ (d.frame # ShortFrame => d.seq \in Nat)
  BY <1>1, PcapAssumption
<1>3. /\ h' = r.h /\ fate = r.fate
      /\ gaps' = IF r.missing = {} THEN gaps
                 ELSE Append(gaps, [loc |-> d.loc, first_missing |-> Min(r.missing),
                                    last_missing |-> Max(r.missing)])
  BY DEF ReplayedOne
<1>4. /\ answer \in {SkipGaps, Stall} /\ IsHandler(h) /\ IsCursors(h.gap)
      /\ answer = SkipGaps <=> opt.skip_gaps
  <2>1. SkipGaps # Stall
    BY DEF SkipGaps, Stall
  <2> QED
    BY <2>1 DEF Typed
<1> HIDE DEF d, answer
<1>5. /\ IsHandler(r.h)
      /\ \/ Left(h.gap, d, r)
         \/ Taken(h.gap, d, r) /\ (r.missing # {} => answer = SkipGaps)
         \/ Stalled(h.gap, d, r) /\ answer = Stall
  BY <1>2, <1>4, WithoutRecovery
<1> HIDE DEF r
<1>6. \A m \in Nat : m..(s - 1) # {} => /\ m < s
                                        /\ Min(m..(s - 1)) = m /\ Max(m..(s - 1)) = s - 1
  BY <1>2, Interval
<1>7. CASE Left(h.gap, d, r)
  BY <1>1, <1>3, <1>5, <1>7 DEF Left, LeavesCursors
<1>8. CASE Taken(h.gap, d, r) /\ (r.missing # {} => answer = SkipGaps)
  <2>1. /\ how # "stub" /\ d.loc = l /\ d.seq = s /\ s # 0 /\ fate \in {"bad", "decoded"}
        /\ h'.gap = Assign(h.gap, l, s + 1)
    BY <1>1, <1>3, <1>8 DEF Taken
  <2>2. CASE l \notin DOMAIN h.gap
    BY <1>3, <1>5, <1>8, <2>1, <2>2 DEF Taken, TakesNumber
  <2>3. CASE l \in DOMAIN h.gap
    <3>1. h.gap[l] \in Nat /\ h.gap[l] <= s /\ r.missing = h.gap[l]..(s - 1)
      BY <1>4, <1>8, <2>1, <2>3 DEF Taken, IsCursors
    <3>2. CASE h.gap[l] = s
      <4>1. r.missing = {}
        BY <1>2, <3>1, <3>2
      <4> QED
        BY <1>3, <1>5, <2>1, <2>3, <3>2, <4>1 DEF TakesNumber
    <3>3. CASE h.gap[l] < s
      <4>1. r.missing # {} /\ Min(r.missing) = h.gap[l] /\ Max(r.missing) = s - 1
        <5>1. h.gap[l] \in h.gap[l]..(s - 1)
          BY <1>2, <3>1, <3>3
        <5> QED
          BY <1>6, <3>1, <5>1
      <4>2. gaps' = Listing(l, s) /\ opt.skip_gaps
        BY <1>3, <1>4, <1>8, <2>1, <4>1 DEF Listing
      <4> QED
        BY <1>3, <1>5, <2>1, <2>3, <3>3, <4>2 DEF TakesNumber
    <3> QED
      BY <1>2, <3>1, <3>2, <3>3
  <2> QED
    BY <2>2, <2>3
<1>9. CASE Stalled(h.gap, d, r) /\ answer = Stall
  <2>1. /\ d.loc = l /\ d.seq = s /\ fate = "stalled" /\ h'.gap = h.gap /\ ~opt.skip_gaps
        /\ l \in DOMAIN h.gap /\ h.gap[l] < s /\ r.missing = h.gap[l]..(s - 1)
    BY <1>1, <1>3, <1>4, <1>9 DEF Stalled, SkipGaps, Stall
  <2>2. h.gap[l] \in Nat /\ h.gap[l] \in h.gap[l]..(s - 1)
    BY <1>2, <1>4, <2>1 DEF IsCursors
  <2>3. r.missing # {} /\ Min(r.missing) = h.gap[l] /\ Max(r.missing) = s - 1
    BY <1>6, <2>1, <2>2
  <2>4. gaps' = Listing(l, s)
    BY <1>3, <2>1, <2>3 DEF Listing
  <2> QED
    BY <1>3, <1>5, <2>1, <2>4 DEF Stalls
<1> QED
  BY <1>5, <1>7, <1>8, <1>9

-----------------------------------------------------------------------------
LEMMA OptionIsTyped ==
  ASSUME Typed
  PROVE  /\ opt.speedup[1] \in Nat /\ opt.speedup[2] \in Nat \ {0}
         /\ opt.start_offset \in Nat /\ opt.stop_after \in Nat /\ opt.skip_gaps \in BOOLEAN
<1>1. opt \in CommandLines
  BY PcapAssumption DEF Typed
<1>2. opt.speedup \in Nat \X (Nat \ {0})
  BY <1>1 DEF CommandLines
<1> QED
  BY <1>1, <1>2 DEF CommandLines

\* The first record delivered sets the two times, and no other local.
LEMMA BegunIs ==
  ASSUME Typed, NEW ts \in Int
  PROVE  LET l == Begun(ts)
         IN  /\ l \in Locals /\ l.have_first_ts
             /\ l.first_ts_us = IF loop.have_first_ts THEN loop.first_ts_us ELSE ts
             /\ l.prev_cap_us = IF loop.have_first_ts THEN loop.prev_cap_us ELSE ts
             /\ l.replayed = loop.replayed /\ l.skipped = loop.skipped /\ l.slept = loop.slept
<1>1. loop \in Locals
  BY DEF Typed
<1>2. CASE loop.have_first_ts
  BY <1>1, <1>2 DEF Begun, Locals
<1>3. CASE ~loop.have_first_ts
  <2> DEFINE l == [loop EXCEPT !.have_first_ts = TRUE, !.first_ts_us = ts, !.prev_cap_us = ts]
  <2>1. Begun(ts) = l
    BY <1>3 DEF Begun
  <2>2. /\ l \in Locals /\ l.have_first_ts = TRUE /\ l.first_ts_us = ts /\ l.prev_cap_us = ts
        /\ l.replayed = loop.replayed /\ l.skipped = loop.skipped /\ l.slept = loop.slept
    BY <1>1 DEF Locals
  <2> HIDE DEF l
  <2> QED
    BY <1>3, <2>1, <2>2
<1> QED
  BY <1>2, <1>3

\* The time slept before a record, times the speed-up, is the time since the
\* one before, less than a whole speed-up apart.
LEMMA SleepIs ==
  ASSUME Typed, NEW l \in Locals, NEW ts \in Int
  PROVE  /\ sleep(l, ts) \in Nat
         /\ opt.speedup[1] = 0 => sleep(l, ts) = 0
         /\ (opt.speedup[1] # 0 /\ l.prev_cap_us <= ts) =>
              LET due == (ts - l.prev_cap_us) * opt.speedup[2]
              IN  /\ sleep(l, ts) * opt.speedup[1] <= due
                  /\ due < sleep(l, ts) * opt.speedup[1] + opt.speedup[1]
<1> DEFINE num == opt.speedup[1]
           den == opt.speedup[2]
           delta == IF ts > l.prev_cap_us THEN ts - l.prev_cap_us ELSE 0
<1>1. num \in Nat /\ den \in Nat /\ l.prev_cap_us \in Int
  BY OptionIsTyped DEF Locals
<1>2. delta \in Nat /\ (l.prev_cap_us <= ts => delta = ts - l.prev_cap_us)
  BY <1>1
<1>3. sleep(l, ts) = IF num = 0 THEN 0 ELSE (delta * den) \div num
  BY DEF sleep
<1> HIDE DEF num, den, delta
<1>4. delta * den \in Nat
  BY <1>1, <1>2
<1>5. CASE num = 0
  BY <1>3, <1>5 DEF num
<1>6. CASE num # 0
  <2> DEFINE a == delta * den
  <2>1. a \in Nat /\ num \in Nat \ {0} /\ sleep(l, ts) = a \div num
    BY <1>1, <1>3, <1>4, <1>6
  <2> HIDE DEF a
  <2>2. sleep(l, ts) \in Nat /\ sleep(l, ts) * num <= a /\ a < sleep(l, ts) * num + num
    BY <2>1, Division
  <2>3. l.prev_cap_us <= ts => a = (ts - l.prev_cap_us) * den
    BY <1>2 DEF a
  <2> QED
    BY <1>6, <2>2, <2>3 DEF num, den
<1> QED
  BY <1>5, <1>6

Local(have, first, prev, replayed, skipped, slept) ==
  [have_first_ts |-> have, first_ts_us |-> first, prev_cap_us |-> prev,
   replayed |-> replayed, skipped |-> skipped, slept |-> slept]

LEMMA LocalsAfterSkip ==
  ASSUME NEW l \in Locals, NEW ts
  PROVE  [l EXCEPT !.skipped = @ + 1, !.prev_cap_us = ts] =
           Local(l.have_first_ts, l.first_ts_us, ts, l.replayed, l.skipped + 1, l.slept)
<1> DEFINE a == [l EXCEPT !.skipped = @ + 1]
           m == [a EXCEPT !.prev_cap_us = ts]
<1>1. l = Local(l.have_first_ts, l.first_ts_us, l.prev_cap_us, l.replayed, l.skipped, l.slept)
  BY DEF Locals, Local
<1>2. a = Local(l.have_first_ts, l.first_ts_us, l.prev_cap_us, l.replayed, l.skipped + 1, l.slept)
  BY <1>1 DEF Local
<1> HIDE DEF a
<1>3. m = Local(l.have_first_ts, l.first_ts_us, ts, l.replayed, l.skipped + 1, l.slept)
  BY <1>2 DEF Local
<1>4. [l EXCEPT !.skipped = @ + 1, !.prev_cap_us = ts] = m
  BY DEF a
<1> QED
  BY <1>3, <1>4

LEMMA LocalsAfterReplay ==
  ASSUME NEW l \in Locals, NEW ts, NEW n
  PROVE  [l EXCEPT !.slept = @ + n, !.prev_cap_us = ts, !.replayed = @ + 1] =
           Local(l.have_first_ts, l.first_ts_us, ts, l.replayed + 1, l.skipped, l.slept + n)
<1> DEFINE a == [l EXCEPT !.slept = @ + n]
           b == [a EXCEPT !.prev_cap_us = ts]
           m == [b EXCEPT !.replayed = @ + 1]
<1>1. l = Local(l.have_first_ts, l.first_ts_us, l.prev_cap_us, l.replayed, l.skipped, l.slept)
  BY DEF Locals, Local
<1>2. a = Local(l.have_first_ts, l.first_ts_us, l.prev_cap_us, l.replayed, l.skipped, l.slept + n)
  BY <1>1 DEF Local
<1> HIDE DEF a
<1>3. b = Local(l.have_first_ts, l.first_ts_us, ts, l.replayed, l.skipped, l.slept + n)
  BY <1>2 DEF Local
<1>4. b.replayed = l.replayed
  BY <1>3 DEF Local
<1> HIDE DEF b
<1>5. m = Local(l.have_first_ts, l.first_ts_us, ts, l.replayed + 1, l.skipped, l.slept + n)
  BY <1>3, <1>4 DEF Local
<1>6. [l EXCEPT !.slept = @ + n, !.prev_cap_us = ts, !.replayed = l.replayed + 1] =
        [b EXCEPT !.replayed = l.replayed + 1]
  BY DEF a, b
<1> QED
  BY <1>4, <1>5, <1>6

\* the locals after a record that is delivered
LEMMA LoopMoves ==
  ASSUME Typed, NEW ts \in Int, NEW i \in DOMAIN Sent, NEW how \in Hows, NEW fate,
         SkippedOver(ts, fate) \/ ReplayedOne(i, how, ts, fate)
  PROVE  /\ loop' \in Locals /\ loop'.have_first_ts /\ loop'.prev_cap_us = ts
         /\ loop'.first_ts_us = Begun(ts).first_ts_us
         /\ SkippedOver(ts, fate) =>
              /\ loop'.skipped = loop.skipped + 1
              /\ loop'.replayed = loop.replayed /\ loop'.slept = loop.slept
         /\ ReplayedOne(i, how, ts, fate) =>
              /\ loop'.skipped = loop.skipped /\ loop'.replayed = loop.replayed + 1
              /\ loop'.slept = loop.slept + sleep(Begun(ts), ts)
<1> DEFINE l == Begun(ts)
<1>1. /\ l \in Locals /\ l.have_first_ts
      /\ l.replayed = loop.replayed /\ l.skipped = loop.skipped /\ l.slept = loop.slept
  BY BegunIs
<1>2. sleep(l, ts) \in Nat
  BY <1>1, SleepIs
<1> HIDE DEF l
<1>3. ASSUME SkippedOver(ts, fate)
      PROVE  /\ loop' \in Locals /\ loop'.have_first_ts /\ loop'.prev_cap_us = ts
             /\ loop'.first_ts_us = l.first_ts_us /\ loop'.skipped = loop.skipped + 1
             /\ loop'.replayed = loop.replayed /\ loop'.slept = loop.slept
  <2>1. loop' = [l EXCEPT !.skipped = @ + 1, !.prev_cap_us = ts]
    BY <1>3 DEF SkippedOver, l
  <2> QED
    <3>1. loop' = Local(l.have_first_ts, l.first_ts_us, ts, l.replayed, l.skipped + 1, l.slept)
      BY <1>1, <2>1, LocalsAfterSkip
    <3> QED
      BY <1>1, <3>1 DEF Local, Locals
<1>4. ASSUME ReplayedOne(i, how, ts, fate)
      PROVE  /\ loop' \in Locals /\ loop'.have_first_ts /\ loop'.prev_cap_us = ts
             /\ loop'.first_ts_us = l.first_ts_us /\ loop'.skipped = loop.skipped
             /\ loop'.replayed = loop.replayed + 1 /\ loop'.slept = loop.slept + sleep(l, ts)
  <2>1. loop' = [l EXCEPT !.slept = @ + sleep(l, ts), !.prev_cap_us = ts, !.replayed = @ + 1]
    BY <1>4 DEF ReplayedOne, l
  <2> QED
    <3> DEFINE n == sleep(l, ts)
    <3> HIDE DEF n
    <3>1. [l EXCEPT !.slept = @ + n, !.prev_cap_us = ts, !.replayed = @ + 1] =
            Local(l.have_first_ts, l.first_ts_us, ts, l.replayed + 1, l.skipped, l.slept + n)
      <4>1. l \in Locals
        BY <1>1
      <4> QED
        BY <4>1, LocalsAfterReplay, Zenon
    <3>2. loop' = Local(l.have_first_ts, l.first_ts_us, ts, l.replayed + 1, l.skipped, l.slept + n)
      BY <2>1, <3>1, Zenon DEF n
    <3>3. n \in Nat
      BY <1>2 DEF n
    <3> QED
      BY <1>1, <3>2, <3>3 DEF Local, Locals, n
<1> QED
  <2>1. ~(SkippedOver(ts, fate) /\ ReplayedOne(i, how, ts, fate))
    BY DEF SkippedOver, ReplayedOne
  <2> QED
    BY <1>3, <1>4, <2>1 DEF l

LEMMA StepIsTyped ==
  ASSUME Typed, NEW i \in DOMAIN Sent, NEW how \in Hows, NEW ts \in Int,
         NEW fate, StepOf(i, how, ts, fate)
  PROVE  /\ [sent |-> i, how |-> how, ts |-> ts, fate |-> fate] \in Records
         /\ Typed'
<1> DEFINE x == [sent |-> i, how |-> how, ts |-> ts, fate |-> fate]
           seq == Sent[i].seq
<1>1. seq \in Nat /\ opt' \in Options /\ file' = Append(file, x)
  BY PcapAssumption DEF Typed, StepOf
<1>2. ASSUME x \in Records
      PROVE  file' \in Seq(Records)
  BY <1>1, <1>2, Recorded
<1>3. CASE PassedOver(fate)
  <2>1. x \in Records /\ UNCHANGED <<running, loop, h, gaps>>
    BY <1>3 DEF PassedOver, Records, Fates
  <2> QED
    BY <1>1, <1>2, <2>1 DEF Typed
<1>4. CASE SkippedOver(ts, fate)
  <2>1. x \in Records /\ UNCHANGED <<running, h, gaps>> /\ loop' \in Locals
    BY <1>4, LoopMoves DEF SkippedOver, Records, Fates
  <2> QED
    BY <1>1, <1>2, <2>1 DEF Typed
<1>5. CASE ReplayedOne(i, how, ts, fate)
  <2>1. loop' \in Locals
    BY <1>5, LoopMoves
  <2>2. running' \in BOOLEAN
    BY <1>5 DEF ReplayedOne, GoesOn
  <2>3. /\ IsHandler(h')
        /\ \/ LeavesCursors(i, how, fate)
           \/ TakesNumber(i, how, fate)
           \/ Stalls(i, fate)
    BY <1>5, ReplayedHandler
  <2>4. x \in Records
    BY <2>3 DEF LeavesCursors, TakesNumber, Stalls, Records, Fates
  <2>5. IsCursors(h'.gap)
    BY <1>1, <2>3 DEF LeavesCursors, TakesNumber, Stalls, IsCursors, Assign, Typed
  <2>6. ASSUME Sent[i].loc \in DOMAIN h.gap, h.gap[Sent[i].loc] < seq
        PROVE  Listing(Sent[i].loc, seq) \in Seq(Gaps)
    <3>1. h.gap[Sent[i].loc] \in Nat /\ seq - 1 \in Nat
      BY <1>1, <2>6 DEF Typed, IsCursors
    <3>2. [loc |-> Sent[i].loc, first_missing |-> h.gap[Sent[i].loc],
           last_missing |-> seq - 1] \in Gaps
      BY <3>1 DEF Gaps, Locs
    <3> QED
      BY <3>2, Appended DEF Typed, Listing
  <2>7. gaps' \in Seq(Gaps)
    BY <2>3, <2>6 DEF LeavesCursors, TakesNumber, Stalls, Typed
  <2> QED
    BY <1>1, <1>2, <2>1, <2>2, <2>3, <2>4, <2>5, <2>7 DEF Typed, IsHandler
<1> QED
  BY <1>3, <1>4, <1>5 DEF StepOf

LEMMA FileGrows ==
  ASSUME Typed, NEW i \in DOMAIN Sent, NEW how \in Hows, NEW ts \in Int,
         NEW fate, StepOf(i, how, ts, fate)
  PROVE  LET n == Len(file) + 1
         IN  /\ Len(file) \in Nat /\ DOMAIN file = 1..Len(file) /\ n \notin DOMAIN file
             /\ DOMAIN file' = DOMAIN file \cup {n} /\ Len(file') = n
             /\ file'[n].sent = i /\ file'[n].how = how /\ file'[n].ts = ts
             /\ file'[n].fate = fate
             /\ \A k \in DOMAIN file : file'[k] = file[k] /\ file[k] \in Records
             /\ Delivered' = IF fate # "no payload" THEN Delivered \cup {n} ELSE Delivered
             /\ Skipped' = IF fate = "skipped" THEN Skipped \cup {n} ELSE Skipped
             /\ Replayed' = IF fate \notin {"no payload", "skipped"} THEN Replayed \cup {n}
                            ELSE Replayed
<1> DEFINE n == Len(file) + 1
           x == [sent |-> i, how |-> how, ts |-> ts, fate |-> fate]
<1>1. x.sent = i /\ x.how = how /\ x.ts = ts /\ x.fate = fate
  OBVIOUS
<1>2. x \in Records /\ file' = Append(file, x)
  BY StepIsTyped DEF StepOf
<1> HIDE DEF x
<1>3. /\ Len(file) \in Nat /\ DOMAIN file = 1..Len(file) /\ Len(file') = n
      /\ DOMAIN file' = DOMAIN file \cup {n}
      /\ file'[n] = x /\ \A k \in DOMAIN file : file'[k] = file[k] /\ file[k] \in Records
  BY <1>2, Recorded
<1>4. /\ Delivered' = IF x.fate # "no payload" THEN Delivered \cup {n} ELSE Delivered
      /\ Skipped' = IF x.fate = "skipped" THEN Skipped \cup {n} ELSE Skipped
      /\ Replayed' = IF x.fate \notin {"no payload", "skipped"} THEN Replayed \cup {n}
                     ELSE Replayed
  BY <1>2, Recorded
<1>5. n \notin DOMAIN file
  BY <1>3
<1> QED
  BY <1>1, <1>3, <1>4, <1>5

-----------------------------------------------------------------------------
(***************************************************************************)
(* The counters.                                                           *)
(***************************************************************************)

Counted ==
  /\ IsFiniteSet(Skipped) /\ Cardinality(Skipped) = loop.skipped
  /\ IsFiniteSet(Replayed) /\ Cardinality(Replayed) = loop.replayed
  /\ IsFiniteSet(Delivered) /\ Cardinality(Delivered) = loop.replayed + loop.skipped
  /\ opt.stop_after # 0 => /\ loop.replayed <= opt.stop_after
                           /\ running => loop.replayed < opt.stop_after

LEMMA StepIsCounted ==
  ASSUME Typed, Counted, NEW i \in DOMAIN Sent, NEW how \in Hows,
         NEW ts \in Int, NEW fate, StepOf(i, how, ts, fate)
  PROVE  Counted'
<1> DEFINE n == Len(file) + 1
<1>1. opt' = opt /\ running
  BY DEF StepOf
<1>2. /\ n \notin DOMAIN file
      /\ Delivered' = IF fate # "no payload" THEN Delivered \cup {n} ELSE Delivered
      /\ Skipped' = IF fate = "skipped" THEN Skipped \cup {n} ELSE Skipped
      /\ Replayed' = IF fate \notin {"no payload", "skipped"} THEN Replayed \cup {n} ELSE Replayed
  BY FileGrows
<1> HIDE DEF n
<1>3. n \notin Delivered /\ n \notin Skipped /\ n \notin Replayed
  BY <1>2 DEF Delivered, Skipped, Replayed
<1>4. /\ IsFiniteSet(Delivered') /\ IsFiniteSet(Skipped') /\ IsFiniteSet(Replayed')
      /\ Cardinality(Delivered') =
           IF fate # "no payload" THEN Cardinality(Delivered) + 1 ELSE Cardinality(Delivered)
      /\ Cardinality(Skipped') =
           IF fate = "skipped" THEN Cardinality(Skipped) + 1 ELSE Cardinality(Skipped)
      /\ Cardinality(Replayed') =
           IF fate \notin {"no payload", "skipped"} THEN Cardinality(Replayed) + 1
           ELSE Cardinality(Replayed)
  BY <1>2, <1>3, FS_AddElement DEF Counted
<1>5. loop.replayed \in Nat /\ loop.skipped \in Nat /\ opt.stop_after \in Nat
  BY OptionIsTyped DEF Typed, Locals
<1>6. CASE PassedOver(fate)
  BY <1>1, <1>4, <1>6 DEF PassedOver, Counted
<1>7. CASE SkippedOver(ts, fate)
  <2>1. /\ fate = "skipped" /\ running' = running
        /\ loop'.skipped = loop.skipped + 1 /\ loop'.replayed = loop.replayed
    BY <1>7, LoopMoves DEF SkippedOver
  <2> QED
    BY <1>1, <1>4, <1>5, <2>1 DEF Counted
<1>8. CASE ReplayedOne(i, how, ts, fate)
  <2>1. loop'.skipped = loop.skipped /\ loop'.replayed = loop.replayed + 1
    BY <1>8, LoopMoves
  <2>2. running' = GoesOn(loop.replayed + 1)
    BY <1>8, BegunIs DEF ReplayedOne
  <2>3. fate \notin {"no payload", "skipped"}
    BY <1>8, ReplayedHandler DEF LeavesCursors, TakesNumber, Stalls
  <2>4. running' \in BOOLEAN
    BY StepIsTyped DEF Typed
  <2>5. ASSUME opt.stop_after # 0
        PROVE  /\ loop'.replayed <= opt.stop_after
               /\ running' => loop'.replayed < opt.stop_after
    <3>1. loop.replayed < opt.stop_after
      BY <1>1, <2>5 DEF Counted
    <3>2. running' => loop.replayed + 1 < opt.stop_after
      BY <2>2, <2>5, Zenon DEF GoesOn
    <3> QED
      BY <1>5, <2>1, <3>1, <3>2
  <2>6. /\ Cardinality(Skipped') = loop'.skipped /\ Cardinality(Replayed') = loop'.replayed
        /\ Cardinality(Delivered') = loop'.replayed + loop'.skipped
    <3>1. /\ Cardinality(Skipped') = Cardinality(Skipped)
          /\ Cardinality(Replayed') = Cardinality(Replayed) + 1
          /\ Cardinality(Delivered') = Cardinality(Delivered) + 1
      BY <1>4, <2>3
    <3> QED
      BY <1>5, <2>1, <3>1 DEF Counted
  <2> QED
    BY <1>1, <1>4, <2>5, <2>6 DEF Counted
<1> QED
  BY <1>6, <1>7, <1>8 DEF StepOf

-----------------------------------------------------------------------------
(***************************************************************************)
(* The window: the loop's two times are those of the first and the last    *)
(* record delivered, and two records of a file are no further apart than   *)
(* all the steps of the file together, which is less than the width of a   *)
(* capture time.                                                           *)
(***************************************************************************)

Started ==
  /\ loop.have_first_ts <=> Delivered # {}
  /\ Delivered # {} =>
       \E a, b \in Delivered : /\ \A k \in Delivered : a <= k /\ k <= b
                               /\ loop.first_ts_us = file[a].ts
                               /\ loop.prev_cap_us = file[b].ts

Apart ==
  CHOOSE n \in 0..TimeMod : /\ TimeSteps \subseteq -n..n
                            /\ \A o \in Options : MaxRecords * n + o.start_offset < TimeMod

Spread ==
  /\ Len(file) <= MaxRecords
  /\ \A j, k \in DOMAIN file : file[k].ts - file[j].ts <= Len(file) * Apart

Inside(first, offset, ts) == first <= ts /\ ts < first + offset

Window ==
  \A k \in Delivered :
    k \in Skipped <=> Inside(loop.first_ts_us, opt.start_offset, file[k].ts)

LEMMA StepsAreClose ==
  ASSUME ClockFits
  PROVE  /\ Apart \in Nat /\ TimeSteps \subseteq -Apart..Apart
         /\ \A o \in Options : MaxRecords * Apart + o.start_offset < TimeMod
<1>1. /\ Apart \in 0..TimeMod /\ TimeSteps \subseteq -Apart..Apart
      /\ \A o \in Options : MaxRecords * Apart + o.start_offset < TimeMod
  BY Zenon DEF ClockFits, Apart
<1> QED
  BY <1>1, PcapAssumption

\* The unsigned difference of two times of a file tells whether the one is in
\* the window that opens with the other.
LEMMA InsideIs ==
  ASSUME ClockFits, Typed, NEW l \in Locals, NEW ts \in Int,
         ts - l.first_ts_us <= MaxRecords * Apart, l.first_ts_us - ts <= MaxRecords * Apart
  PROVE  InsideWindow(l, ts) <=> Inside(l.first_ts_us, opt.start_offset, ts)
<1> DEFINE d == ts - l.first_ts_us
           far == MaxRecords * Apart
<1>1. far \in Int /\ far + opt.start_offset < TimeMod
  BY StepsAreClose, PcapAssumption DEF Typed
<1>2. /\ d \in Int /\ l.first_ts_us \in Int /\ opt.start_offset \in Nat
      /\ TimeMod \in Nat \ {0}
  BY OptionIsTyped, PcapAssumption DEF Locals
<1>3. -far <= d /\ d <= far
  BY <1>1, <1>2
<1> HIDE DEF far
<1>4. d % TimeMod = IF 0 <= d THEN d ELSE d + TimeMod
  <2> HIDE DEF d
  <2>1. -TimeMod < d /\ d < TimeMod
    BY <1>1, <1>2, <1>3
  <2> QED
    BY <1>2, <2>1, Unsigned
<1>5. InsideWindow(l, ts) <=> d % TimeMod < opt.start_offset
  BY DEF InsideWindow
<1>6. d % TimeMod < opt.start_offset <=> 0 <= d /\ d < opt.start_offset
  <2> HIDE DEF d
  <2> QED
    BY <1>1, <1>2, <1>3, <1>4
<1> QED
  BY <1>2, <1>5, <1>6 DEF Inside

LEMMA StepIsSpread ==
  ASSUME ClockFits, Typed, Spread, NEW i \in DOMAIN Sent, NEW how \in Hows,
         NEW ts \in Int, NEW fate, StepOf(i, how, ts, fate)
  PROVE  Spread'
<1> DEFINE m == Len(file)
           n == m + 1
<1>1. /\ m \in Nat /\ DOMAIN file = 1..m /\ DOMAIN file' = DOMAIN file \cup {n}
      /\ Len(file') = n /\ file'[n].ts = ts
      /\ \A k \in DOMAIN file : file'[k] = file[k] /\ file[k] \in Records
  BY FileGrows
<1>2. Apart \in Nat /\ TimeSteps \subseteq -Apart..Apart
  BY StepsAreClose
<1>3. n <= MaxRecords
  BY <1>1, PcapAssumption DEF StepOf
<1>4. \A k \in DOMAIN file : file[k].ts \in Int
  BY <1>1 DEF Records
<1>5. m * Apart \in Nat /\ n * Apart = m * Apart + Apart
  BY <1>1, <1>2
<1>6. \A k \in DOMAIN file : /\ ts - file[k].ts <= n * Apart
                             /\ file[k].ts - ts <= n * Apart
  <2> SUFFICES ASSUME NEW k \in DOMAIN file
               PROVE  ts - file[k].ts <= n * Apart /\ file[k].ts - ts <= n * Apart
    OBVIOUS
  <2>1. m \in DOMAIN file /\ file # << >>
    BY <1>1
  <2>2. ts - file[m].ts \in -Apart..Apart
    BY <1>2, <2>1 DEF StepOf
  <2>3. file[m].ts - file[k].ts <= m * Apart /\ file[k].ts - file[m].ts <= m * Apart
    BY <2>1 DEF Spread
  <2>4. file[m].ts \in Int /\ file[k].ts \in Int
    BY <1>4, <2>1
  <2>5. ts - file[m].ts <= Apart /\ file[m].ts - ts <= Apart
    BY <1>2, <2>2, <2>4
  <2> DEFINE a == m * Apart
             b == n * Apart
             t == file[m].ts
             u == file[k].ts
  <2>6. /\ a \in Nat /\ b = a + Apart /\ t \in Int /\ u \in Int /\ Apart \in Nat
        /\ t - u <= a /\ u - t <= a /\ ts - t <= Apart /\ t - ts <= Apart
    BY <1>2, <1>5, <2>3, <2>4, <2>5
  <2>7. ts - u <= b /\ u - ts <= b
    <3> HIDE DEF a, b, t, u
    <3> QED
      BY <2>6
  <2> QED
    BY <2>7
<1>7. \A j, k \in DOMAIN file : file[k].ts - file[j].ts <= n * Apart
  BY <1>2, <1>4, <1>5 DEF Spread
<1>8. \A j, k \in DOMAIN file' : file'[k].ts - file'[j].ts <= n * Apart
  <2> SUFFICES ASSUME NEW j \in DOMAIN file', NEW k \in DOMAIN file'
               PROVE  file'[k].ts - file'[j].ts <= n * Apart
    OBVIOUS
  <2> HIDE DEF n
  <2>1. 0 <= n * Apart
    BY <1>2, <1>5
  <2> QED
    BY <1>1, <1>6, <1>7, <2>1
<1> QED
  BY <1>1, <1>3, <1>8 DEF Spread

\* what became of the record tells which of the three things happened
LEMMA FateTells ==
  ASSUME Typed, NEW i \in DOMAIN Sent, NEW how \in Hows, NEW ts \in Int,
         NEW fate, StepOf(i, how, ts, fate)
  PROVE  \/ fate = "no payload" /\ PassedOver(fate)
         \/ fate = "skipped" /\ SkippedOver(ts, fate)
         \/ /\ fate # "no payload" /\ fate # "skipped"
            /\ ReplayedOne(i, how, ts, fate)
<1>1. CASE ReplayedOne(i, how, ts, fate)
  BY <1>1, ReplayedHandler DEF LeavesCursors, TakesNumber, Stalls
<1> QED
  BY <1>1 DEF StepOf, PassedOver, SkippedOver

LEMMA DeliveredFate ==
  ASSUME Typed, NEW i \in DOMAIN Sent, NEW how \in Hows, NEW ts \in Int,
         NEW fate, SkippedOver(ts, fate) \/ ReplayedOne(i, how, ts, fate)
  PROVE  /\ fate # "no payload"
         /\ fate = "skipped" <=> InsideWindow(Begun(ts), ts)
<1>1. CASE ReplayedOne(i, how, ts, fate)
  <2>1. fate # "no payload" /\ fate # "skipped"
    BY <1>1, ReplayedHandler DEF LeavesCursors, TakesNumber, Stalls
  <2>2. ~InsideWindow(Begun(ts), ts)
    BY <1>1 DEF ReplayedOne
  <2> QED
    BY <2>1, <2>2
<1>2. CASE SkippedOver(ts, fate)
  BY <1>2 DEF SkippedOver
<1> QED
  BY <1>1, <1>2

LEMMA StepIsStarted ==
  ASSUME Typed, Started, NEW i \in DOMAIN Sent, NEW how \in Hows,
         NEW ts \in Int, NEW fate, StepOf(i, how, ts, fate)
  PROVE  Started'
<1> DEFINE n == Len(file) + 1
<1>1. /\ Len(file) \in Nat /\ DOMAIN file = 1..Len(file) /\ n \notin DOMAIN file
      /\ file'[n].ts = ts /\ \A k \in DOMAIN file : file'[k] = file[k]
      /\ Delivered' = IF fate # "no payload" THEN Delivered \cup {n} ELSE Delivered
  BY FileGrows
<1>2. Delivered \subseteq DOMAIN file
  BY DEF Delivered
<1>0. n \in Int /\ \A k \in Delivered : k \in Int /\ k < n
  <2>1. Len(file) \in Nat /\ Delivered \subseteq 1..Len(file)
    BY <1>1, <1>2
  <2> QED
    BY <2>1
<1> HIDE DEF n
<1>3. CASE fate = "no payload" /\ PassedOver(fate)
  <2>1. Delivered' = Delivered /\ loop' = loop
    BY <1>1, <1>3 DEF PassedOver
  <2>2. CASE Delivered = {}
    BY <2>1, <2>2 DEF Started
  <2>3. CASE Delivered # {}
    <3>1. PICK a, b \in Delivered : /\ \A k \in Delivered : a <= k /\ k <= b
                                    /\ loop.first_ts_us = file[a].ts
                                    /\ loop.prev_cap_us = file[b].ts
      BY <2>3 DEF Started
    <3>2. file'[a] = file[a] /\ file'[b] = file[b]
      BY <1>1, <1>2
    <3> QED
      BY <2>1, <2>3, <3>1, <3>2 DEF Started
  <2> QED
    BY <2>2, <2>3
<1>4. CASE SkippedOver(ts, fate) \/ ReplayedOne(i, how, ts, fate)
  <2>1. /\ loop'.have_first_ts /\ loop'.prev_cap_us = ts
        /\ loop'.first_ts_us = IF loop.have_first_ts THEN loop.first_ts_us ELSE ts
    BY <1>4, LoopMoves, BegunIs
  <2>2. Delivered' = Delivered \cup {n}
    BY <1>1, <1>4, DeliveredFate
  <2>4. CASE Delivered = {}
    <3>1. ~loop.have_first_ts /\ Delivered' = {n}
      BY <2>2, <2>4 DEF Started
    <3>2. n \in Int /\ loop'.first_ts_us = file'[n].ts /\ loop'.prev_cap_us = file'[n].ts
      BY <1>0, <1>1, <2>1, <3>1
    <3> QED
      BY <1>0, <2>1, <3>1, <3>2 DEF Started
  <2>5. CASE Delivered # {}
    <3>1. PICK a \in Delivered : /\ \A k \in Delivered : a <= k
                                 /\ loop.first_ts_us = file[a].ts
      BY <2>5 DEF Started
    <3>2. loop.have_first_ts
      BY <2>5 DEF Started
    <3>3. loop'.first_ts_us = file'[a].ts /\ loop'.prev_cap_us = file'[n].ts
      BY <1>1, <1>2, <2>1, <3>1, <3>2
    <3>4. a \in Delivered' /\ n \in Delivered' /\ \A k \in Delivered' : a <= k /\ k <= n
      BY <1>0, <2>2, <3>1
    <3> QED
      BY <2>1, <3>3, <3>4 DEF Started
  <2> QED
    BY <2>4, <2>5
<1> QED
  BY <1>3, <1>4, FateTells

LEMMA StepKeepsWindow ==
  ASSUME ClockFits, Typed, Started, Spread, Window,
         NEW i \in DOMAIN Sent, NEW how \in Hows, NEW ts \in Int, NEW fate,
         StepOf(i, how, ts, fate)
  PROVE  Window'
<1> DEFINE n == Len(file) + 1
<1>1. /\ n \notin DOMAIN file /\ DOMAIN file' = DOMAIN file \cup {n} /\ Len(file') = n
      /\ file'[n].ts = ts /\ \A k \in DOMAIN file : file'[k] = file[k]
      /\ Delivered' = IF fate # "no payload" THEN Delivered \cup {n} ELSE Delivered
      /\ Skipped' = IF fate = "skipped" THEN Skipped \cup {n} ELSE Skipped
  BY FileGrows
<1>0. Len(file') \in Nat /\ n \in DOMAIN file' /\ Delivered' \subseteq DOMAIN file'
  <2>1. Len(file) \in Nat
    BY FileGrows
  <2>2. n \in Nat /\ n \in DOMAIN file'
    <3>1. n \in Nat
      BY <2>1
    <3>2. DOMAIN file' = DOMAIN file \cup {n}
      BY <1>1
    <3> HIDE DEF n
    <3> QED
      BY <3>1, <3>2
  <2>3. Delivered' \subseteq DOMAIN file'
    BY DEF Delivered
  <2> QED
    BY <1>1, <2>2, <2>3
<1>2. /\ Delivered \subseteq DOMAIN file /\ Skipped \subseteq DOMAIN file
      /\ n \notin Delivered /\ n \notin Skipped /\ opt' = opt
  BY <1>1 DEF Delivered, Skipped, StepOf
<1> HIDE DEF n
<1>3. CASE fate = "no payload" /\ PassedOver(fate)
  <2>1. Delivered' = Delivered /\ Skipped' = Skipped /\ loop' = loop
    BY <1>1, <1>3 DEF PassedOver
  <2> QED
    BY <1>1, <1>2, <2>1 DEF Window
<1>4. CASE SkippedOver(ts, fate) \/ ReplayedOne(i, how, ts, fate)
  <2> DEFINE l == Begun(ts)
  <2>1. /\ l \in Locals /\ loop'.first_ts_us = l.first_ts_us
        /\ l.first_ts_us = IF loop.have_first_ts THEN loop.first_ts_us ELSE ts
    BY <1>4, LoopMoves, BegunIs
  <2>2. /\ Delivered' = Delivered \cup {n}
        /\ n \in Skipped' <=> InsideWindow(l, ts)
        /\ \A k \in Delivered : k \in Skipped' <=> k \in Skipped
    BY <1>1, <1>2, <1>4, DeliveredFate
  <2> HIDE DEF l
  <2>3. loop'.first_ts_us \in Int
    BY <2>1 DEF Locals
  <2>4. \A k \in Delivered : loop'.first_ts_us = loop.first_ts_us
    BY <2>1 DEF Started
  <2>5. ts - l.first_ts_us <= MaxRecords * Apart /\ l.first_ts_us - ts <= MaxRecords * Apart
    <3> DEFINE far == MaxRecords * Apart
    <3>1. Spread' /\ Started'
      BY StepIsSpread, StepIsStarted
    <3>2. PICK a \in Delivered' : loop'.first_ts_us = file'[a].ts
      BY <2>2, <3>1 DEF Started
    <3>3. a \in DOMAIN file' /\ n \in DOMAIN file' /\ Len(file') \in Nat
      BY <1>0, <3>2
    <3>4. Len(file') * Apart <= far /\ far \in Int /\ Len(file') * Apart \in Int
      <4>1. Apart \in Nat /\ MaxRecords \in Nat
        BY StepsAreClose, PcapAssumption
      <4>2. Len(file') \in Nat /\ Len(file') <= MaxRecords
        BY <3>1, <3>3 DEF Spread
      <4>3. Len(file') * Apart <= MaxRecords * Apart
        BY <4>1, <4>2, LargerProduct
      <4> QED
        BY <4>1, <4>2, <4>3
    <3>5. ts - l.first_ts_us <= Len(file') * Apart /\ l.first_ts_us - ts <= Len(file') * Apart
      BY <1>1, <2>1, <3>1, <3>2, <3>3 DEF Spread
    <3> HIDE DEF far
    <3> QED
      BY <2>1, <2>3, <3>4, <3>5 DEF far
  <2>6. InsideWindow(l, ts) <=> Inside(l.first_ts_us, opt.start_offset, ts)
    BY <2>1, <2>5, InsideIs
  <2>7. n \in Skipped' <=> Inside(loop'.first_ts_us, opt'.start_offset, file'[n].ts)
    BY <1>1, <1>2, <2>1, <2>2, <2>6
  <2>8. ASSUME NEW k \in Delivered
        PROVE  k \in Skipped' <=> Inside(loop'.first_ts_us, opt'.start_offset, file'[k].ts)
    BY <1>1, <1>2, <2>2, <2>4 DEF Window
  <2> QED
    BY <2>2, <2>7, <2>8 DEF Window
<1> QED
  BY <1>3, <1>4, FateTells

-----------------------------------------------------------------------------
(***************************************************************************)
(* The pacing: in a capture in order the records of the window come first, *)
(* and what is slept from the last of them on covers the time to the last  *)
(* record, less a speed-up for each record replayed.                       *)
(***************************************************************************)

Covers(slept, num, span, count) ==
  slept * num <= span /\ span < slept * num + num * count

StartTime == IF Skipped = {} THEN loop.first_ts_us ELSE file[Max(Skipped)].ts

Paced ==
  /\ Skipped # {} => Max(Skipped) \in Skipped
  /\ Replayed # {} => Max(Replayed) \in Replayed
  /\ opt.speedup[1] = 0 => loop.slept = 0
  /\ (opt.speedup[1] # 0 /\ InOrder) =>
       IF Replayed = {} THEN loop.slept = 0
       ELSE /\ loop.prev_cap_us = file[Max(Replayed)].ts
            /\ Covers(loop.slept, opt.speedup[1],
                      (loop.prev_cap_us - StartTime) * opt.speedup[2], loop.replayed)

LEMMA CoversMore ==
  ASSUME NEW a \in Nat, NEW q \in Nat, NEW num \in Nat, NEW r \in Nat,
         NEW span \in Int, NEW due \in Int,
         Covers(a, num, span, r), Covers(q, num, due, 1)
  PROVE  Covers(a + q, num, span + due, r + 1)
<1>1. (a + q) * num = a * num + q * num /\ num * (r + 1) = num * r + num /\ num * 1 = num
  OBVIOUS
<1>2. a * num \in Nat /\ q * num \in Nat /\ num * r \in Nat
  OBVIOUS
<1> DEFINE x == a * num
           y == q * num
           z == num * r
<1>3. x <= span /\ span < x + z /\ y <= due /\ due < y + num
  BY <1>1 DEF Covers
<1>4. x + y <= span + due /\ span + due < (x + y) + (z + num)
  <2>1. x \in Nat /\ y \in Nat /\ z \in Nat
    BY <1>2
  <2> HIDE DEF x, y, z
  <2> QED
    BY <1>3, <2>1
<1> QED
  BY <1>1, <1>4 DEF Covers

\* In a capture in order what is replayed comes after the window.
LEMMA ReplayedAfterWindow ==
  ASSUME Typed, Started, Window, InOrder, NEW r \in Replayed
  PROVE  /\ loop.first_ts_us \in Int /\ file[r].ts \in Int
         /\ loop.first_ts_us + opt.start_offset <= file[r].ts
<1> DEFINE first == loop.first_ts_us
           offset == opt.start_offset
<1>1. r \in Delivered /\ r \notin Skipped
  BY DEF Replayed
<1>2. PICK a \in Delivered : a <= r /\ first = file[a].ts
  BY <1>1 DEF Started
<1>3. \A k \in Delivered : k \in Int /\ file[k].ts \in Int
  <2> SUFFICES ASSUME NEW k \in Delivered
               PROVE  k \in Int /\ file[k].ts \in Int
    OBVIOUS
  <2>1. k \in 1..Len(file) /\ Len(file) \in Nat
    BY LenProperties DEF Delivered, Typed
  <2>2. file[k] \in Records
    BY <2>1, ElementOfSeq DEF Typed
  <2> QED
    BY <2>1, <2>2 DEF Records
<1>4. first <= file[r].ts
  BY <1>1, <1>2, <1>3 DEF InOrder
<1>5. ~Inside(first, offset, file[r].ts)
  BY <1>1 DEF Window
<1>6. first \in Int /\ offset \in Nat /\ file[r].ts \in Int
  BY <1>1, <1>2, <1>3, OptionIsTyped
<1> HIDE DEF first, offset
<1>7. first + offset <= file[r].ts
  BY <1>4, <1>5, <1>6 DEF Inside
<1> QED
  BY <1>6, <1>7 DEF first, offset

\* the sets of records, their last members and the order of their times after a step
LEMMA SetsGrow ==
  ASSUME Typed, Paced, NEW i \in DOMAIN Sent, NEW how \in Hows,
         NEW ts \in Int, NEW fate, StepOf(i, how, ts, fate)
  PROVE  LET n == Len(file) + 1
         IN  /\ file'[n].ts = ts /\ \A k \in DOMAIN file : file'[k] = file[k]
             /\ \A k \in Delivered : k \in DOMAIN file /\ k \in Int /\ k < n
             /\ Skipped \subseteq Delivered /\ Replayed = Delivered \ Skipped
             /\ fate = "no payload" =>
                  Delivered' = Delivered /\ Skipped' = Skipped /\ Replayed' = Replayed
             /\ fate = "skipped" =>
                  /\ Delivered' = Delivered \cup {n}
                  /\ Skipped' = Skipped \cup {n} /\ Replayed' = Replayed
             /\ (fate # "no payload" /\ fate # "skipped") =>
                  /\ Delivered' = Delivered \cup {n}
                  /\ Skipped' = Skipped /\ Replayed' = Replayed \cup {n}
             /\ Skipped' # {} => Max(Skipped') = IF fate = "skipped" THEN n ELSE Max(Skipped)
             /\ (fate # "no payload" /\ fate # "skipped") => Max(Replayed') = n
             /\ InOrder' => InOrder
<1> DEFINE n == Len(file) + 1
<1>1. /\ Len(file) \in Nat /\ DOMAIN file = 1..Len(file)
      /\ file'[n].ts = ts /\ \A k \in DOMAIN file : file'[k] = file[k]
  BY FileGrows
<1>2. /\ Delivered' = IF fate # "no payload" THEN Delivered \cup {n} ELSE Delivered
      /\ Skipped' = IF fate = "skipped" THEN Skipped \cup {n} ELSE Skipped
      /\ Replayed' = IF fate \notin {"no payload", "skipped"} THEN Replayed \cup {n} ELSE Replayed
  BY FileGrows
<1>3. Skipped \subseteq Delivered /\ Replayed = Delivered \ Skipped
      /\ Delivered \subseteq DOMAIN file
  BY DEF Skipped, Replayed, Delivered
<1>4. n \in Int /\ \A k \in Delivered : k \in DOMAIN file /\ k \in Int /\ k < n
  <2>1. Delivered \subseteq 1..Len(file) /\ Len(file) \in Nat
    BY <1>1, <1>3
  <2> QED
    BY <1>1, <1>3, <2>1
<1> HIDE DEF n
<1>5. fate = "skipped" => Max(Skipped') = n
  <2>1. n \in Int /\ \A k \in Skipped : k \in Int /\ k < n
    BY <1>3, <1>4
  <2>2. Max(Skipped \cup {n}) = n
    BY <2>1, MaxIsAdded
  <2> QED
    BY <1>2, <2>2
<1>6. (fate # "no payload" /\ fate # "skipped") => Max(Replayed') = n
  <2>1. n \in Int /\ \A k \in Replayed : k \in Int /\ k < n
    BY <1>3, <1>4
  <2>2. Max(Replayed \cup {n}) = n
    BY <2>1, MaxIsAdded
  <2>3. (fate # "no payload" /\ fate # "skipped") => Replayed' = Replayed \cup {n}
    BY <1>2
  <2> QED
    BY <2>2, <2>3
<1>7. InOrder' => InOrder
  <2>1. Delivered \subseteq Delivered' /\ \A k \in Delivered : file'[k] = file[k]
    BY <1>1, <1>2, <1>4
  <2> QED
    BY <2>1 DEF InOrder
<1>8. Max(Skipped') = IF fate = "skipped" THEN n ELSE Max(Skipped)
  BY <1>2, <1>5
<1> QED
  BY <1>1, <1>2, <1>3, <1>4, <1>6, <1>7, <1>8 DEF n

LEMMA StartTimeStays ==
  ASSUME Typed, Started, Paced, NEW i \in DOMAIN Sent, NEW how \in Hows,
         NEW ts \in Int, NEW fate, StepOf(i, how, ts, fate), fate # "skipped", Delivered # {}
  PROVE  StartTime' = StartTime
<1>1. /\ \A k \in DOMAIN file : file'[k] = file[k]
      /\ \A k \in Skipped : k \in DOMAIN file
      /\ Skipped' = Skipped
  BY SetsGrow
<1>2. loop'.first_ts_us = loop.first_ts_us
  <2>1. loop.have_first_ts
    BY DEF Started
  <2>2. CASE PassedOver(fate)
    BY <2>2 DEF PassedOver
  <2>3. CASE SkippedOver(ts, fate) \/ ReplayedOne(i, how, ts, fate)
    BY <2>1, <2>3, LoopMoves, BegunIs
  <2> QED
    BY <2>2, <2>3, FateTells
<1>3. Skipped # {} => file'[Max(Skipped)] = file[Max(Skipped)]
  BY <1>1 DEF Paced
<1> QED
  BY <1>1, <1>2, <1>3 DEF StartTime

LEMMA PassedOverIsPaced ==
  ASSUME Typed, Started, Paced, NEW i \in DOMAIN Sent, NEW how \in Hows,
         NEW ts \in Int, NEW fate, StepOf(i, how, ts, fate),
         fate = "no payload", PassedOver(fate)
  PROVE  Paced'
<1>1. /\ Skipped' = Skipped /\ Replayed' = Replayed /\ (InOrder' => InOrder)
      /\ \A k \in DOMAIN file : file'[k] = file[k]
      /\ \A k \in Replayed : k \in DOMAIN file /\ k \in Delivered
  BY SetsGrow
<1>2. loop' = loop /\ opt' = opt
  BY DEF StepOf, PassedOver
<1>3. Max(Skipped') = Max(Skipped) /\ Max(Replayed') = Max(Replayed)
  BY <1>1
<1>4. Replayed # {} => /\ file'[Max(Replayed)] = file[Max(Replayed)]
                       /\ StartTime' = StartTime
  BY <1>1, StartTimeStays DEF Paced
<1> QED
  BY <1>1, <1>2, <1>3, <1>4 DEF Paced

LEMMA SkippedIsPaced ==
  ASSUME ClockFits, Typed, Started, Spread, Window, Paced,
         NEW i \in DOMAIN Sent, NEW how \in Hows,
         NEW ts \in Int, NEW fate, StepOf(i, how, ts, fate),
         fate = "skipped", SkippedOver(ts, fate)
  PROVE  Paced'
<1> DEFINE n == Len(file) + 1
<1> HIDE DEF n
<1>1. /\ Skipped' = Skipped \cup {n} /\ Replayed' = Replayed
      /\ Delivered' = Delivered \cup {n}
  BY SetsGrow DEF n
<1>2. Max(Skipped') = n
  BY SetsGrow DEF n
<1>3. InOrder' => InOrder
  BY SetsGrow
<1>4. file'[n].ts = ts /\ \A k \in DOMAIN file : file'[k] = file[k]
  BY SetsGrow DEF n
<1>5. n \in Int /\ \A k \in Replayed : k \in DOMAIN file /\ k \in Delivered /\ k < n
  <2>1. Len(file) \in Nat
    BY FileGrows
  <2>2. \A k \in Replayed : k \in DOMAIN file /\ k \in Delivered /\ k < n
    BY SetsGrow DEF n
  <2> QED
    BY <2>1, <2>2 DEF n
<1>6. loop'.slept = loop.slept /\ opt' = opt
  BY LoopMoves DEF StepOf
<1>7. InOrder' => Replayed = {}
  <2> SUFFICES ASSUME InOrder', NEW r \in Replayed PROVE FALSE
    OBVIOUS
  <2>0. InOrder /\ r \in Delivered /\ r \in DOMAIN file /\ r < n
    BY <1>3, <1>5
  <2>1. /\ loop.first_ts_us \in Int /\ file[r].ts \in Int
        /\ loop.first_ts_us + opt.start_offset <= file[r].ts
    BY <2>0, ReplayedAfterWindow
  <2>2. file[r].ts <= ts
    <3>1. Delivered' = Delivered \cup {n} /\ file'[r] = file[r] /\ file'[n].ts = ts
      BY <1>1, <1>4, <2>0
    <3>2. r \in Delivered' /\ n \in Delivered'
      BY <2>0, <3>1
    <3> QED
      BY <2>0, <3>1, <3>2 DEF InOrder
  <2>3. loop'.first_ts_us = loop.first_ts_us
    <3>1. loop.have_first_ts
      BY <2>0 DEF Started
    <3> QED
      BY <3>1, LoopMoves, BegunIs
  <2>4. Inside(loop'.first_ts_us, opt'.start_offset, ts)
    <3>1. n \in Skipped' /\ n \in Delivered' /\ file'[n].ts = ts
      BY <1>1, <1>4
    <3>2. Window'
      BY StepKeepsWindow
    <3> QED
      BY <3>1, <3>2 DEF Window
  <2>5. ts < loop.first_ts_us + opt.start_offset
    BY <1>6, <2>3, <2>4 DEF Inside
  <2> QED
    BY <2>1, <2>2, <2>5, OptionIsTyped
<1>8. Replayed # {} => Max(Replayed') \in Replayed'
  BY <1>1 DEF Paced
<1>9. Skipped' # {} => Max(Skipped') \in Skipped'
  <2>1. Skipped' = Skipped \cup {n} /\ Max(Skipped') = n
    BY <1>1, <1>2
  <2> QED
    BY <2>1
<1>10. (opt'.speedup[1] = 0 => loop'.slept = 0)
  BY <1>6 DEF Paced
<1>11. (opt'.speedup[1] # 0 /\ InOrder') => Replayed' = {} /\ loop'.slept = 0
  BY <1>1, <1>6, <1>7, <1>3 DEF Paced
<1>12. Replayed' = Replayed
  BY <1>1
<1> QED
  BY <1>8, <1>9, <1>10, <1>11, <1>12 DEF Paced

LEMMA ReplayedIsPaced ==
  ASSUME ClockFits, Typed, Counted, Started, Spread, Window, Paced,
         NEW i \in DOMAIN Sent, NEW how \in Hows,
         NEW ts \in Int, NEW fate, StepOf(i, how, ts, fate),
         ReplayedOne(i, how, ts, fate)
  PROVE  Paced'
<1> DEFINE n == Len(file) + 1
           l == Begun(ts)
           num == opt.speedup[1]
           den == opt.speedup[2]
           q == sleep(l, ts)
<1> HIDE DEF n, l, num, den, q
<1>0. fate # "no payload" /\ fate # "skipped"
  BY ReplayedHandler DEF LeavesCursors, TakesNumber, Stalls
<1>1. /\ Skipped' = Skipped /\ Replayed' = Replayed \cup {n}
      /\ Delivered' = Delivered \cup {n}
  BY <1>0, SetsGrow DEF n
<1>2. Max(Replayed') = n /\ Max(Skipped') = Max(Skipped)
  BY <1>0, <1>1, SetsGrow DEF n
<1>3. InOrder' => InOrder
  BY SetsGrow
<1>4. file'[n].ts = ts /\ \A k \in DOMAIN file : file'[k] = file[k]
  BY SetsGrow DEF n
<1>5. \A k \in Delivered : k \in DOMAIN file /\ k < n
  BY SetsGrow DEF n
<1>6. Skipped \subseteq Delivered /\ Replayed = Delivered \ Skipped
  BY SetsGrow
<1>7. /\ loop'.prev_cap_us = ts /\ loop'.replayed = loop.replayed + 1
      /\ loop'.slept = loop.slept + q /\ loop'.first_ts_us = l.first_ts_us
  BY LoopMoves DEF l, q
<1>8. opt' = opt
  BY DEF StepOf
<1>9. /\ l \in Locals /\ q \in Nat
      /\ l.first_ts_us = IF loop.have_first_ts THEN loop.first_ts_us ELSE ts
      /\ l.prev_cap_us = IF loop.have_first_ts THEN loop.prev_cap_us ELSE ts
  BY BegunIs, SleepIs DEF l, q
<1>10. /\ num \in Nat /\ den \in Nat /\ l.prev_cap_us \in Int
       /\ loop.slept \in Nat /\ loop.replayed \in Nat
  BY <1>9, OptionIsTyped DEF Typed, Locals, num, den
<1>11. num = 0 => loop'.slept = 0
  <2> SUFFICES ASSUME num = 0 PROVE loop'.slept = 0
    OBVIOUS
  <2>1. q = 0
    BY <1>9, SleepIs DEF num, q
  <2>2. loop.slept = 0
    BY DEF Paced, num
  <2> QED
    BY <1>7, <2>1, <2>2
<1>12. ASSUME num # 0, InOrder'
       PROVE  /\ loop'.prev_cap_us = file'[Max(Replayed')].ts
              /\ Covers(loop'.slept, num, (loop'.prev_cap_us - StartTime') * den, loop'.replayed)
  <2> DEFINE due == (ts - l.prev_cap_us) * den
  <2>1. l.prev_cap_us <= ts
    <3>1. CASE Delivered = {}
      <4>1. ~loop.have_first_ts
        BY <3>1 DEF Started
      <4>2. l.prev_cap_us = ts
        BY <1>9, <4>1
      <4> QED
        BY <4>2
    <3>2. CASE Delivered # {}
      <4>1. PICK b \in Delivered : loop.prev_cap_us = file[b].ts
        BY <3>2 DEF Started
      <4>2. loop.have_first_ts
        BY <3>2 DEF Started
      <4>3. b \in Delivered' /\ n \in Delivered' /\ b < n
        BY <1>1, <1>5
      <4>4. file'[b] = file[b] /\ file'[n].ts = ts
        BY <1>4, <1>5
      <4>5. file'[b].ts <= file'[n].ts
        BY <1>12, <4>3 DEF InOrder
      <4> QED
        BY <1>9, <4>1, <4>2, <4>4, <4>5
    <3> QED
      BY <3>1, <3>2
  <2>2. Covers(q, num, due, 1) /\ due \in Int
    <3>1. q * num <= due /\ due < q * num + num
      BY <1>9, <1>12, <2>1, SleepIs DEF num, den, q
    <3>2. due \in Int
      <4> DEFINE y == ts - l.prev_cap_us
      <4>1. y \in Int /\ den \in Int
        BY <1>10
      <4> HIDE DEF y
      <4>2. y * den \in Int
        BY <4>1, Products
      <4> QED
        BY <4>2 DEF y
    <3> HIDE DEF due
    <3>3. num \in Int
      BY <1>10
    <3>4. num * 1 = num
      BY <3>3
    <3> QED
      BY <3>1, <3>2, <3>4 DEF Covers
  <2>3. loop'.prev_cap_us = file'[Max(Replayed')].ts
    BY <1>2, <1>4, <1>7
  <2>4. CASE Replayed = {}
    <3>1. loop.slept = 0 /\ loop.replayed = 0
      <4>1. loop.slept = 0
        BY <1>3, <1>12, <2>4 DEF Paced, num
      <4>2. loop.replayed = 0
        BY <2>4, FS_EmptySet DEF Counted
      <4> QED
        BY <4>1, <4>2
    <3>2. StartTime' = l.prev_cap_us
      <4>1. Skipped = Delivered
        BY <1>6, <2>4
      <4>2. CASE Delivered = {}
        <5>1. ~loop.have_first_ts /\ Skipped' = {}
          BY <1>1, <4>1, <4>2 DEF Started
        <5> QED
          BY <1>7, <1>9, <5>1 DEF StartTime
      <4>3. CASE Delivered # {}
        <5>1. PICK b \in Delivered : loop.prev_cap_us = file[b].ts /\ \A k \in Delivered : k <= b
          BY <4>3 DEF Started
        <5>2. loop.have_first_ts
          BY <4>3 DEF Started
        <5>3. Max(Skipped) = b
          <6>1. Delivered \in SUBSET Int
            BY SetsGrow
          <6>2. Max(Delivered) = b
            BY <5>1, <6>1, MaxIs
          <6> QED
            BY <4>1, <6>2
        <5>4. Skipped' # {} /\ file'[Max(Skipped')].ts = loop.prev_cap_us
          BY <1>1, <1>2, <1>4, <1>5, <4>1, <4>3, <5>1, <5>3
        <5> QED
          BY <1>9, <5>2, <5>4 DEF StartTime
      <4> QED
        BY <4>2, <4>3
    <3>3. loop'.slept = q /\ loop'.replayed = 1
      BY <1>7, <1>9, <3>1
    <3>4. (loop'.prev_cap_us - StartTime') * den = due
      BY <1>7, <3>2
    <3> HIDE DEF due
    <3> QED
      BY <2>2, <2>3, <3>3, <3>4
  <2>5. CASE Replayed # {}
    <3> DEFINE span == (loop.prev_cap_us - StartTime) * den
    <3>1. Covers(loop.slept, num, span, loop.replayed)
      BY <1>3, <1>12, <2>5 DEF Paced, num, den
    <3>2. Delivered # {} /\ loop.have_first_ts
      BY <1>6, <2>5 DEF Started
    <3>3. StartTime' = StartTime
      BY <1>0, <3>2, StartTimeStays
    <3>4. StartTime \in Int /\ loop.prev_cap_us \in Int
      <4>1. loop \in Locals
        BY DEF Typed
      <4>2. ASSUME NEW k \in Skipped
            PROVE  file[k].ts \in Int
        <5>1. k \in DOMAIN file
          BY <1>5, <1>6
        <5>2. file[k] \in Records
          BY <5>1, FileGrows
        <5> QED
          BY <5>2 DEF Records
      <4>3. Skipped # {} => file[Max(Skipped)].ts \in Int
        BY <4>2 DEF Paced
      <4> QED
        BY <4>1, <4>3 DEF StartTime, Locals
    <3>5. l.prev_cap_us = loop.prev_cap_us
      BY <1>9, <3>2
    <3>6. span \in Int /\ (ts - StartTime) * den = span + due
      <4> DEFINE x == loop.prev_cap_us - StartTime
                 y == ts - loop.prev_cap_us
      <4>1. x \in Int /\ y \in Int /\ x + y = ts - StartTime
        BY <3>4
      <4>2. (x + y) * den = x * den + y * den /\ x * den \in Int
        <5> HIDE DEF x, y
        <5>1. den \in Int
          BY <1>10
        <5> QED
          BY <4>1, <5>1, Products
      <4>3. span = x * den /\ due = y * den
        BY <3>5
      <4>4. (ts - StartTime) * den = (x + y) * den
        BY <4>1
      <4> HIDE DEF x, y, span, due
      <4> QED
        BY <4>2, <4>3, <4>4
    <3> HIDE DEF span, due
    <3>7. Covers(loop.slept + q, num, span + due, loop.replayed + 1)
      BY <1>9, <1>10, <2>2, <3>1, <3>6, CoversMore
    <3> QED
      BY <1>7, <2>3, <3>3, <3>6, <3>7
  <2> QED
    BY <2>4, <2>5
<1>13. Skipped' # {} => Max(Skipped') \in Skipped'
  BY <1>1, <1>2 DEF Paced
<1>14. Replayed' # {} /\ Max(Replayed') \in Replayed'
  BY <1>1, <1>2
<1> QED
  BY <1>8, <1>11, <1>12, <1>13, <1>14 DEF Paced, num, den
-----------------------------------------------------------------------------
(***************************************************************************)
(* The ranges listed for one stream, g being the list of all, N the        *)
(* numbers of the stream that were used, first the one it was joined at    *)
(* and c its cursor.                                                       *)
(***************************************************************************)

Of(g, l) == {k \in DOMAIN g : g[k].loc = l}

SkipRanges(g, l, N, first, c) ==
  /\ \A k \in Of(g, l) : first <= g[k].first_missing /\ g[k].last_missing < c
  /\ \A j, k \in Of(g, l) : j < k => g[j].last_missing < g[k].first_missing
  /\ \A t \in first..(c - 1) :
       t \in N <=> \A k \in Of(g, l) : ~(g[k].first_missing <= t /\ t <= g[k].last_missing)

StallRanges(g, l, N, first, c) ==
  /\ first..(c - 1) \subseteq N
  /\ \A k \in Of(g, l) : first <= g[k].first_missing /\ g[k].first_missing <= c
  /\ \A j, k \in Of(g, l) : j < k => g[j].first_missing <= g[k].first_missing

LEMMA ListGrows ==
  ASSUME NEW g \in Seq(Gaps), NEW e \in Gaps, NEW l
  PROVE  LET r == Append(g, e)
             m == Len(g) + 1
         IN  /\ Of(r, l) = IF e.loc = l THEN Of(g, l) \cup {m} ELSE Of(g, l)
             /\ r[m] = e /\ \A k \in Of(g, l) : r[k] = g[k] /\ k \in Int /\ k < m
             /\ \A k \in Of(g, l) : g[k].first_missing \in Nat /\ g[k].last_missing \in Nat
<1> DEFINE r == Append(g, e)
           m == Len(g) + 1
<1>1. /\ Len(g) \in Nat /\ DOMAIN g = 1..Len(g) /\ DOMAIN r = DOMAIN g \cup {m}
      /\ r[m] = e /\ \A k \in DOMAIN g : r[k] = g[k]
  BY Appended
<1>2. \A k \in DOMAIN g : g[k] \in Gaps
  BY <1>1, ElementOfSeq
<1>3. m \notin DOMAIN g /\ \A k \in DOMAIN g : k \in Int /\ k < m
  BY <1>1
<1> HIDE DEF r, m
<1>4. Of(r, l) = IF e.loc = l THEN Of(g, l) \cup {m} ELSE Of(g, l)
  BY <1>1, <1>3 DEF Of
<1>5. \A k \in Of(g, l) : g[k].first_missing \in Nat /\ g[k].last_missing \in Nat
  BY <1>2 DEF Of, Gaps
<1> QED
  BY <1>1, <1>3, <1>4, <1>5 DEF Of, r, m

LEMMA RangesOfOthers ==
  ASSUME NEW g \in Seq(Gaps), NEW e \in Gaps, NEW l, NEW N, NEW first, NEW c
  PROVE  e.loc # l =>
           /\ Of(Append(g, e), l) = Of(g, l)
           /\ SkipRanges(g, l, N, first, c) => SkipRanges(Append(g, e), l, N, first, c)
           /\ StallRanges(g, l, N, first, c) => StallRanges(Append(g, e), l, N, first, c)
<1> DEFINE r == Append(g, e)
<1>1. \A k \in Of(g, l) : r[k] = g[k]
  BY Appended DEF Of
<1>2. e.loc # l => Of(r, l) = Of(g, l)
  BY ListGrows
<1> HIDE DEF r
<1>3. ASSUME Of(r, l) = Of(g, l)
      PROVE  /\ SkipRanges(g, l, N, first, c) => SkipRanges(r, l, N, first, c)
             /\ StallRanges(g, l, N, first, c) => StallRanges(r, l, N, first, c)
  <2>1. SkipRanges(g, l, N, first, c) => SkipRanges(r, l, N, first, c)
    BY <1>1, <1>3 DEF SkipRanges
  <2>2. StallRanges(g, l, N, first, c) => StallRanges(r, l, N, first, c)
    BY <1>1, <1>3 DEF StallRanges
  <2> QED
    BY <2>1, <2>2
<1> QED
  BY <1>2, <1>3 DEF r

LEMMA NoRangesYet ==
  ASSUME NEW g, NEW l, Of(g, l) = {}, NEW s \in Nat
  PROVE  /\ SkipRanges(g, l, {s}, s, s + 1)
         /\ StallRanges(g, l, {s}, s, s + 1)
<1>1. s..(s + 1 - 1) = {s}
  OBVIOUS
<1> QED
  BY <1>1 DEF SkipRanges, StallRanges

\* the next number is used
LEMMA RangesAfterNext ==
  ASSUME NEW g \in Seq(Gaps), NEW l, NEW s \in Nat, NEW first \in Nat, first <= s,
         NEW N \in SUBSET (first..(s - 1))
  PROVE  /\ SkipRanges(g, l, N, first, s) => SkipRanges(g, l, N \cup {s}, first, s + 1)
         /\ StallRanges(g, l, N, first, s) => StallRanges(g, l, N \cup {s}, first, s + 1)
<1>0. \A k \in Of(g, l) : g[k].first_missing \in Nat /\ g[k].last_missing \in Nat
  <2>1. \A k \in DOMAIN g : g[k] \in Gaps
    BY LenProperties, ElementOfSeq
  <2> QED
    BY <2>1 DEF Of, Gaps
<1>1. s + 1 - 1 = s /\ first..s = (first..(s - 1)) \cup {s} /\ s \notin first..(s - 1)
  OBVIOUS
<1>2. ASSUME SkipRanges(g, l, N, first, s)
      PROVE  SkipRanges(g, l, N \cup {s}, first, s + 1)
  <2>1. \A k \in Of(g, l) : first <= g[k].first_missing /\ g[k].last_missing < s
    BY <1>2 DEF SkipRanges
  <2>2. \A j, k \in Of(g, l) : j < k => g[j].last_missing < g[k].first_missing
    BY <1>2 DEF SkipRanges
  <2>3. \A k \in Of(g, l) : g[k].last_missing < s + 1 /\ ~(s <= g[k].last_missing)
    BY <1>0, <2>1
  <2>4. ASSUME NEW t \in first..s
        PROVE  t \in N \cup {s} <=>
                 \A k \in Of(g, l) : ~(g[k].first_missing <= t /\ t <= g[k].last_missing)
    <3>1. CASE t = s
      BY <2>3, <3>1
    <3>2. CASE t \in first..(s - 1)
      <4>1. t # s
        BY <1>1, <3>2
      <4>2. t \in N <=>
              \A k \in Of(g, l) : ~(g[k].first_missing <= t /\ t <= g[k].last_missing)
        BY <1>2, <3>2 DEF SkipRanges
      <4> QED
        BY <4>1, <4>2
    <3> QED
      BY <1>1, <3>1, <3>2
  <2> QED
    BY <1>1, <2>1, <2>2, <2>3, <2>4 DEF SkipRanges
<1>3. ASSUME StallRanges(g, l, N, first, s)
      PROVE  StallRanges(g, l, N \cup {s}, first, s + 1)
  <2>1. \A k \in Of(g, l) : first <= g[k].first_missing /\ g[k].first_missing <= s
    BY <1>3 DEF StallRanges
  <2>2. \A k \in Of(g, l) : g[k].first_missing <= s + 1
    BY <1>0, <2>1
  <2> QED
    BY <1>1, <1>3, <2>1, <2>2 DEF StallRanges
<1> QED
  BY <1>2, <1>3

\* a number beyond the next is used, those between them are listed
LEMMA RangesAfterSkip ==
  ASSUME NEW g \in Seq(Gaps), NEW l \in Locs, NEW s \in Nat, NEW c \in Nat, c < s,
         NEW first \in Nat, first <= c, NEW N \in SUBSET (first..(c - 1)),
         SkipRanges(g, l, N, first, c)
  PROVE  SkipRanges(Append(g, [loc |-> l, first_missing |-> c, last_missing |-> s - 1]),
                    l, N \cup {s}, first, s + 1)
<1> DEFINE e == [loc |-> l, first_missing |-> c, last_missing |-> s - 1]
           r == Append(g, e)
           m == Len(g) + 1
           In(t, k) == r[k].first_missing <= t /\ t <= r[k].last_missing
<1>1. e \in Gaps /\ e.loc = l /\ e.first_missing = c /\ e.last_missing = s - 1
  BY DEF Gaps
<1> HIDE DEF e
<1>2. /\ Of(r, l) = Of(g, l) \cup {m} /\ r[m] = e
      /\ \A k \in Of(g, l) : r[k] = g[k] /\ k \in Int /\ k < m
      /\ \A k \in Of(g, l) : g[k].first_missing \in Nat /\ g[k].last_missing \in Nat
  <2>1. /\ Of(r, l) = Of(g, l) \cup {m} /\ r[m] = e
        /\ \A k \in Of(g, l) : r[k] = g[k] /\ k \in Int /\ k < m
    BY <1>1, ListGrows, ZenonT(30)
  <2>2. \A k \in Of(g, l) : g[k].first_missing \in Nat /\ g[k].last_missing \in Nat
    BY <1>1, ListGrows, ZenonT(30)
  <2> QED
    BY <2>1, <2>2, Zenon
<1>3. m \in Int
  BY LenProperties
<1> HIDE DEF r, m
<1>4. \A k \in Of(g, l) : /\ first <= r[k].first_missing /\ r[k].last_missing < c
                          /\ r[k].first_missing \in Nat /\ r[k].last_missing \in Nat
  BY <1>2 DEF SkipRanges
<1>5. r[m].first_missing = c /\ r[m].last_missing = s - 1
  BY <1>1, <1>2
<1>6. \A k \in Of(r, l) : first <= r[k].first_missing /\ r[k].last_missing < s + 1
  BY <1>2, <1>4, <1>5
<1>7. ASSUME NEW j \in Of(r, l), NEW k \in Of(r, l), j < k
      PROVE  r[j].last_missing < r[k].first_missing
  <2>1. CASE k = m
    <3>1. j \in Of(g, l)
      BY <1>2, <1>3, <1>7, <2>1
    <3> QED
      BY <1>4, <1>5, <2>1, <3>1
  <2>2. CASE k # m
    <3>1. k \in Of(g, l) /\ k < m /\ k \in Int
      BY <1>2, <2>2
    <3>2. j # m
      BY <1>3, <1>7, <3>1
    <3>3. j \in Of(g, l)
      BY <1>2, <3>2
    <3> QED
      BY <1>2, <1>7, <3>1, <3>3 DEF SkipRanges
  <2> QED
    BY <2>1, <2>2
<1>8. ASSUME NEW t \in first..s
      PROVE  t \in N \cup {s} <=> \A k \in Of(r, l) : ~In(t, k)
  <2>1. CASE t < c
    <3>1. t \in first..(c - 1) /\ t # s
      BY <2>1
    <3>2. t \in N <=> \A k \in Of(g, l) : ~In(t, k)
      BY <1>2, <3>1 DEF SkipRanges
    <3>3. ~In(t, m)
      BY <1>5, <2>1
    <3> HIDE DEF In
    <3> QED
      BY <1>2, <3>1, <3>2, <3>3
  <2>2. CASE c <= t /\ t < s
    <3>1. In(t, m)
      BY <1>5, <2>2
    <3>2. t \notin N /\ t # s
      BY <2>2
    <3> HIDE DEF In
    <3> QED
      BY <1>2, <3>1, <3>2
  <2>3. CASE t = s
    <3>1. ~In(t, m)
      BY <1>5, <2>3
    <3>2. \A k \in Of(g, l) : ~In(t, k)
      BY <1>4, <2>3
    <3> HIDE DEF In
    <3> QED
      BY <1>2, <2>3, <3>1, <3>2
  <2> QED
    BY <2>1, <2>2, <2>3
<1>9. SkipRanges(r, l, N \cup {s}, first, s + 1)
  <2>1. s + 1 - 1 = s
    OBVIOUS
  <2> QED
    BY <1>6, <1>7, <1>8, <2>1 DEF SkipRanges
<1> QED
  BY <1>9 DEF r, e

\* a number beyond the next is not used, those up to it are listed
LEMMA RangesAfterStall ==
  ASSUME NEW g \in Seq(Gaps), NEW l \in Locs, NEW s \in Nat, NEW c \in Nat, c < s,
         NEW first \in Nat, first <= c, NEW N, StallRanges(g, l, N, first, c)
  PROVE  StallRanges(Append(g, [loc |-> l, first_missing |-> c, last_missing |-> s - 1]),
                     l, N, first, c)
<1> DEFINE e == [loc |-> l, first_missing |-> c, last_missing |-> s - 1]
           r == Append(g, e)
           m == Len(g) + 1
<1>1. e \in Gaps /\ e.loc = l /\ e.first_missing = c
  BY DEF Gaps
<1> HIDE DEF e
<1>2. /\ Of(r, l) = Of(g, l) \cup {m} /\ r[m] = e
      /\ \A k \in Of(g, l) : r[k] = g[k] /\ k \in Int /\ k < m
  BY <1>1, ListGrows
<1>3. m \in Int
  BY LenProperties
<1> HIDE DEF r, m
<1>4. \A k \in Of(g, l) : first <= r[k].first_missing /\ r[k].first_missing <= c
  BY <1>2 DEF StallRanges
<1>5. r[m].first_missing = c
  BY <1>1, <1>2
<1>6. ASSUME NEW j \in Of(r, l), NEW k \in Of(r, l), j < k
      PROVE  r[j].first_missing <= r[k].first_missing
  <2>1. CASE k = m
    BY <1>2, <1>4, <1>5, <2>1
  <2>2. CASE k # m
    <3>1. k \in Of(g, l) /\ k < m /\ k \in Int
      BY <1>2, <2>2
    <3>2. j # m
      BY <1>3, <1>6, <3>1
    <3>3. j \in Of(g, l)
      BY <1>2, <3>2
    <3> QED
      BY <1>2, <1>6, <3>1, <3>3 DEF StallRanges
  <2> QED
    BY <2>1, <2>2
<1>7. StallRanges(r, l, N, first, c)
  BY <1>2, <1>4, <1>5, <1>6 DEF StallRanges
<1> QED
  BY <1>7 DEF r, e

-----------------------------------------------------------------------------
(***************************************************************************)
(* The cursors: one stands behind the last number that was used, and every *)
(* number from the one its stream was joined at, that of the record m, to  *)
(* the cursor is used or listed.                                           *)
(***************************************************************************)

Joined(l, m) ==
  /\ \A k \in UsedAt(l) : m <= k /\ NumberAt(m) <= NumberAt(k) /\ NumberAt(k) < h.gap[l]
  /\ \E k \in UsedAt(l) : h.gap[l] = NumberAt(k) + 1

Ranges(l, m) ==
  IF opt.skip_gaps THEN SkipRanges(gaps, l, Numbers(UsedAt(l)), NumberAt(m), h.gap[l])
  ELSE StallRanges(gaps, l, Numbers(UsedAt(l)), NumberAt(m), h.gap[l])

Stream(l) ==
  IF l \in DOMAIN h.gap THEN \E m \in UsedAt(l) : Joined(l, m) /\ Ranges(l, m)
  ELSE UsedAt(l) = {} /\ Of(gaps, l) = {}

Cursors == DOMAIN h.gap \subseteq Locs /\ \A l \in Locs : Stream(l)

\* the records used for a stream after a step, and their numbers
LEMMA UsedGrows ==
  ASSUME Typed, NEW i \in DOMAIN Sent, NEW how \in Hows, NEW ts \in Int,
         NEW fate, StepOf(i, how, ts, fate), NEW l, NEW n, n = Len(file) + 1
  PROVE  LET used == /\ fate \in {"decoded", "bad"} /\ how # "stub"
                     /\ Sent[i].loc = l /\ Sent[i].seq # 0
         IN  /\ n \in Nat /\ NumberAt(n)' = Sent[i].seq /\ Sent[i].seq \in Nat
             /\ \A k \in UsedAt(l) : /\ k \in Nat /\ k < n
                                     /\ NumberAt(k) \in Nat /\ NumberAt(k)' = NumberAt(k)
             /\ UsedAt(l)' = IF used THEN UsedAt(l) \cup {n} ELSE UsedAt(l)
             /\ Numbers(UsedAt(l))' =
                  IF used THEN Numbers(UsedAt(l)) \cup {Sent[i].seq} ELSE Numbers(UsedAt(l))
<1> DEFINE x == [sent |-> i, how |-> how, ts |-> ts, fate |-> fate]
           used == fate \in {"decoded", "bad"} /\ how # "stub" /\ Sent[i].loc = l /\ Sent[i].seq # 0
<1>1. /\ Len(file) \in Nat /\ DOMAIN file = 1..Len(file)
      /\ file'[n].sent = i /\ \A k \in DOMAIN file : file'[k] = file[k] /\ file[k] \in Records
  BY FileGrows
<1>2. x \in Records /\ file' = Append(file, x)
  BY StepIsTyped DEF StepOf
<1>3. Counts(l, x) <=> used
  BY Zenon DEF Counts
<1>4. UsedAt(l)' = IF used THEN UsedAt(l) \cup {n} ELSE UsedAt(l)
  <2> HIDE DEF x, used
  <2>1. UsedAt(l)' = IF Counts(l, x) THEN UsedAt(l) \cup {Len(file) + 1} ELSE UsedAt(l)
    BY <1>2, Recorded
  <2> QED
    BY <1>3, <2>1, Zenon
<1>5. \A k \in UsedAt(l) : /\ k \in DOMAIN file /\ k \in Nat /\ k < n
                           /\ NumberAt(k) \in Nat /\ file'[k] = file[k]
  <2> SUFFICES ASSUME NEW k \in UsedAt(l)
               PROVE  /\ k \in DOMAIN file /\ k \in Nat /\ k < n
                      /\ NumberAt(k) \in Nat /\ file'[k] = file[k]
    OBVIOUS
  <2>1. k \in DOMAIN file
    BY DEF UsedAt
  <2>2. file[k].sent \in DOMAIN Sent
    BY <1>1, <2>1 DEF Records
  <2> QED
    BY <1>1, <2>1, <2>2, PcapAssumption DEF NumberAt
<1>6. n \in Nat /\ NumberAt(n)' = Sent[i].seq /\ Sent[i].seq \in Nat
  <2>1. n \in Nat
    BY <1>1
  <2>2. Sent[i].seq \in Nat
    BY PcapAssumption
  <2>3. NumberAt(n)' = Sent[i].seq
    BY <1>1, Zenon DEF NumberAt
  <2> QED
    BY <2>1, <2>2, <2>3
<1> HIDE DEF used
<1>7. \A k \in UsedAt(l) : NumberAt(k)' = NumberAt(k)
  BY <1>5, Zenon DEF NumberAt
<1>8. Numbers(UsedAt(l))' =
        IF used THEN Numbers(UsedAt(l)) \cup {Sent[i].seq} ELSE Numbers(UsedAt(l))
  <2>1. \A k \in UsedAt(l) : Sent[file'[k].sent].seq = Sent[file[k].sent].seq
    BY <1>5
  <2>2. Sent[file'[n].sent].seq = Sent[i].seq
    BY <1>1
  <2>3. Numbers(UsedAt(l))' = {Sent[file'[k].sent].seq : k \in UsedAt(l)'}
    BY Zenon DEF Numbers
  <2>4. Numbers(UsedAt(l)) = {Sent[file[k].sent].seq : k \in UsedAt(l)}
    BY Zenon DEF Numbers
  <2> DEFINE V == UsedAt(l)'
  <2>5. V = IF used THEN UsedAt(l) \cup {n} ELSE UsedAt(l)
    BY <1>4
  <2>6. Numbers(UsedAt(l))' = {Sent[file'[k].sent].seq : k \in V}
    BY <2>3
  <2> HIDE DEF V
  <2> QED
    BY <2>1, <2>2, <2>4, <2>5, <2>6
<1> QED
  BY <1>4, <1>5, <1>6, <1>7, <1>8 DEF used

\* a step that concerns other streams, or none
Untouched(l) ==
  /\ UsedAt(l)' = UsedAt(l) /\ Numbers(UsedAt(l))' = Numbers(UsedAt(l))
  /\ \A k \in UsedAt(l) : NumberAt(k)' = NumberAt(k)
  /\ l \in DOMAIN h'.gap <=> l \in DOMAIN h.gap
  /\ l \in DOMAIN h.gap => h'.gap[l] = h.gap[l]
  /\ \/ gaps' = gaps
     \/ \E e \in Gaps : e.loc # l /\ gaps' = Append(gaps, e)

LEMMA UntouchedStays ==
  ASSUME Typed, NEW l, Untouched(l), opt' = opt, l \in DOMAIN h.gap,
         NEW m \in UsedAt(l), Joined(l, m), Ranges(l, m)
  PROVE  m \in UsedAt(l)' /\ Joined(l, m)' /\ Ranges(l, m)'
<1>1. /\ UsedAt(l)' = UsedAt(l) /\ Numbers(UsedAt(l))' = Numbers(UsedAt(l))
      /\ \A k \in UsedAt(l) : NumberAt(k)' = NumberAt(k)
      /\ h'.gap[l] = h.gap[l]
  BY DEF Untouched
<1>2. Joined(l, m)'
  BY <1>1 DEF Joined
<1>3. CASE gaps' = gaps
  BY <1>1, <1>2, <1>3 DEF Ranges
<1>4. CASE \E e \in Gaps : e.loc # l /\ gaps' = Append(gaps, e)
  <2>1. PICK e \in Gaps : e.loc # l /\ gaps' = Append(gaps, e)
    BY <1>4
  <2>2. gaps \in Seq(Gaps)
    BY DEF Typed
  <2> DEFINE N == Numbers(UsedAt(l))
             first == NumberAt(m)
             c == h.gap[l]
  <2> HIDE DEF N, first, c
  <2>3. /\ SkipRanges(gaps, l, N, first, c) => SkipRanges(gaps', l, N, first, c)
        /\ StallRanges(gaps, l, N, first, c) => StallRanges(gaps', l, N, first, c)
    BY <2>1, <2>2, RangesOfOthers, Zenon
  <2>4. Ranges(l, m)' <=> IF opt.skip_gaps THEN SkipRanges(gaps', l, N, first, c)
                          ELSE StallRanges(gaps', l, N, first, c)
    BY <1>1, Zenon DEF Ranges, N, first, c
  <2>5. IF opt.skip_gaps THEN SkipRanges(gaps, l, N, first, c)
        ELSE StallRanges(gaps, l, N, first, c)
    BY Zenon DEF Ranges, N, first, c
  <2> QED
    BY <1>1, <1>2, <2>3, <2>4, <2>5
<1> QED
  BY <1>3, <1>4 DEF Untouched

LEMMA UntouchedStream ==
  ASSUME Typed, NEW l, Untouched(l), opt' = opt, Stream(l)
  PROVE  Stream(l)'
<1>1. CASE l \in DOMAIN h.gap
  <2>1. PICK m \in UsedAt(l) : Joined(l, m) /\ Ranges(l, m)
    BY <1>1 DEF Stream
  <2>2. m \in UsedAt(l)' /\ Joined(l, m)' /\ Ranges(l, m)'
    BY <1>1, <2>1, UntouchedStays
  <2>3. l \in DOMAIN h'.gap
    BY <1>1 DEF Untouched
  <2> QED
    BY <2>2, <2>3, Zenon DEF Stream
<1>2. CASE l \notin DOMAIN h.gap
  <2>1. UsedAt(l)' = {} /\ l \notin DOMAIN h'.gap
    BY <1>2 DEF Stream, Untouched
  <2>2. Of(gaps, l) = {} /\ gaps \in Seq(Gaps)
    BY <1>2 DEF Stream, Typed
  <2>3. Of(gaps', l) = {}
    <3>1. CASE gaps' = gaps
      BY <2>2, <3>1
    <3>2. CASE \E e \in Gaps : e.loc # l /\ gaps' = Append(gaps, e)
      <4>1. PICK e \in Gaps : e.loc # l /\ gaps' = Append(gaps, e)
        BY <3>2
      <4>2. Of(Append(gaps, e), l) = Of(gaps, l)
        BY <2>2, <4>1, RangesOfOthers, Zenon
      <4> QED
        BY <2>2, <4>1, <4>2
    <3> QED
      BY <3>1, <3>2 DEF Untouched
  <2> QED
    BY <2>1, <2>3, Zenon DEF Stream
<1> QED
  BY <1>1, <1>2

\* the numbers used lie between the one the stream was joined at and its cursor
LEMMA UsedBehindCursor ==
  ASSUME Typed, NEW l \in DOMAIN h.gap, NEW m \in UsedAt(l), Joined(l, m)
  PROVE  /\ h.gap[l] \in Nat /\ NumberAt(m) \in Nat /\ NumberAt(m) < h.gap[l]
         /\ Numbers(UsedAt(l)) \in SUBSET (NumberAt(m)..(h.gap[l] - 1))
         /\ UsedAt(l) \in SUBSET Nat
<1>1. h.gap[l] \in Nat
  BY DEF Typed, IsCursors
<1>2. ASSUME NEW k \in UsedAt(l)
      PROVE  k \in Nat /\ NumberAt(k) \in Nat
  <2>1. k \in 1..Len(file) /\ Len(file) \in Nat
    BY LenProperties DEF UsedAt, Typed
  <2>2. file[k] \in Records
    BY <2>1, ElementOfSeq DEF Typed
  <2>3. Sent[file[k].sent].seq \in Nat
    BY <2>2, PcapAssumption DEF Records
  <2> QED
    BY <2>1, <2>3 DEF NumberAt
<1>3. \A k \in UsedAt(l) : NumberAt(m) <= NumberAt(k) /\ NumberAt(k) < h.gap[l]
  BY DEF Joined
<1>4. \A k \in UsedAt(l) : NumberAt(k) \in NumberAt(m)..(h.gap[l] - 1)
  BY <1>1, <1>2, <1>3
<1>5. Numbers(UsedAt(l)) \in SUBSET (NumberAt(m)..(h.gap[l] - 1))
  BY <1>4 DEF Numbers, NumberAt
<1> QED
  BY <1>1, <1>2, <1>3, <1>5

\* the cursor moves behind a number that is used
LEMMA JoinedStays ==
  ASSUME Typed, NEW l \in DOMAIN h.gap, NEW m \in UsedAt(l), Joined(l, m),
         NEW n \in Nat, NEW s \in Nat, h.gap[l] <= s, \A k \in UsedAt(l) : k < n,
         UsedAt(l)' = UsedAt(l) \cup {n}, NumberAt(n)' = s, h'.gap[l] = s + 1,
         \A k \in UsedAt(l) : NumberAt(k) \in Nat /\ NumberAt(k)' = NumberAt(k)
  PROVE  m \in UsedAt(l)' /\ Joined(l, m)' /\ NumberAt(m)' = NumberAt(m)
<1>1. h.gap[l] \in Nat /\ NumberAt(m) \in Nat /\ NumberAt(m) < h.gap[l] /\ UsedAt(l) \in SUBSET Nat
  BY UsedBehindCursor
<1>2. \A k \in UsedAt(l) : /\ m <= k /\ NumberAt(m) <= NumberAt(k) /\ NumberAt(k) < h.gap[l]
                           /\ NumberAt(k) \in Nat
  BY DEF Joined
<1>3. NumberAt(m)' = NumberAt(m)
  OBVIOUS
<1>4. m <= n /\ NumberAt(m) <= s /\ s < s + 1
  BY <1>1
<1>5. \A k \in UsedAt(l) : NumberAt(k) < s + 1
  BY <1>1, <1>2
<1>6. \A k \in UsedAt(l)' : m <= k /\ NumberAt(m) <= NumberAt(k)' /\ NumberAt(k)' < h'.gap[l]
  BY <1>2, <1>4, <1>5
<1>7. n \in UsedAt(l)' /\ h'.gap[l] = NumberAt(n)' + 1
  OBVIOUS
<1>8. Joined(l, m)'
  BY <1>3, <1>6, <1>7 DEF Joined
<1> QED
  BY <1>3, <1>8

LEMMA TakesKeepsStream ==
  ASSUME Typed, Cursors, NEW i \in DOMAIN Sent, NEW how \in Hows,
         NEW ts \in Int, NEW fate, StepOf(i, how, ts, fate), TakesNumber(i, how, fate)
  PROVE  Stream(Sent[i].loc)'
<1>0. PICK n, l, s : n = Len(file) + 1 /\ l = Sent[i].loc /\ s = Sent[i].seq
  OBVIOUS
<1> SUFFICES Stream(l)'
  BY <1>0, Zenon
<1> DEFINE c == h.gap[l]
           N == Numbers(UsedAt(l))
<1> HIDE DEF c, N
<1>1. /\ how # "stub" /\ s # 0 /\ fate \in {"bad", "decoded"}
      /\ h'.gap = Assign(h.gap, l, s + 1)
      /\ \/ l \notin DOMAIN h.gap /\ gaps' = gaps
         \/ l \in DOMAIN h.gap /\ c = s /\ gaps' = gaps
         \/ l \in DOMAIN h.gap /\ c < s /\ gaps' = Listing(l, s) /\ opt.skip_gaps
  BY <1>0, Zenon DEF TakesNumber, c
<1>2. /\ n \in Nat /\ NumberAt(n)' = s /\ s \in Nat
      /\ \A k \in UsedAt(l) : /\ k \in Nat /\ k < n
                              /\ NumberAt(k) \in Nat /\ NumberAt(k)' = NumberAt(k)
  BY <1>0, UsedGrows
<1>3. UsedAt(l)' = UsedAt(l) \cup {n}
  BY <1>0, <1>1, UsedGrows
<1>4. Numbers(UsedAt(l))' = N \cup {s}
  BY <1>0, <1>1, UsedGrows DEF N
<1>5. l \in Locs /\ Stream(l) /\ opt' = opt /\ gaps \in Seq(Gaps)
  BY <1>0 DEF Cursors, Locs, StepOf, Typed
<1>6. l \in DOMAIN h'.gap /\ h'.gap[l] = s + 1
  BY <1>1 DEF Assign
<1>7. CASE l \notin DOMAIN h.gap
  <2>1. UsedAt(l) = {} /\ Of(gaps, l) = {} /\ gaps' = gaps
    BY <1>1, <1>5, <1>7 DEF Stream
  <2>2. N = {}
    BY <2>1 DEF N, Numbers
  <2>3. UsedAt(l)' = {n} /\ Numbers(UsedAt(l))' = {s}
    BY <1>3, <1>4, <2>1, <2>2
  <2>4. Joined(l, n)'
    <3>1. n <= n /\ s <= s /\ s < s + 1
      BY <1>2
    <3> QED
      BY <1>2, <1>6, <2>3, <3>1 DEF Joined
  <2>5. SkipRanges(gaps, l, {s}, s, s + 1) /\ StallRanges(gaps, l, {s}, s, s + 1)
    BY <1>2, <2>1, NoRangesYet
  <2>6. Ranges(l, n)'
    BY <1>2, <1>6, <2>1, <2>3, <2>5, Zenon DEF Ranges
  <2>7. n \in UsedAt(l)'
    BY <2>3
  <2> QED
    BY <1>6, <2>4, <2>6, <2>7, Zenon DEF Stream
<1>8. CASE l \in DOMAIN h.gap
  <2>1. PICK m \in UsedAt(l) : Joined(l, m) /\ Ranges(l, m)
    BY <1>5, <1>8 DEF Stream
  <2> DEFINE first == NumberAt(m)
  <2> HIDE DEF first
  <2>2. /\ c \in Nat /\ first \in Nat /\ first < c
        /\ N \in SUBSET (first..(c - 1))
    BY <1>8, <2>1, UsedBehindCursor DEF c, N, first
  <2>3. c <= s
    BY <1>1, <1>2, <1>8, <2>2
  <2>4. m \in UsedAt(l)' /\ Joined(l, m)' /\ NumberAt(m)' = first
    BY <1>2, <1>3, <1>6, <1>8, <2>1, <2>3, JoinedStays DEF c, first
  <2>5. Ranges(l, m)' <=>
          IF opt.skip_gaps THEN SkipRanges(gaps', l, N \cup {s}, first, s + 1)
          ELSE StallRanges(gaps', l, N \cup {s}, first, s + 1)
    BY <1>4, <1>5, <1>6, <2>4, Zenon DEF Ranges
  <2>6. IF opt.skip_gaps THEN SkipRanges(gaps, l, N, first, c)
        ELSE StallRanges(gaps, l, N, first, c)
    BY <2>1, Zenon DEF Ranges, N, first, c
  <2>7. CASE c = s /\ gaps' = gaps
    <3>1. first <= s /\ N \in SUBSET (first..(s - 1))
      BY <2>2, <2>7
    <3>2. /\ SkipRanges(gaps, l, N, first, s) => SkipRanges(gaps, l, N \cup {s}, first, s + 1)
          /\ StallRanges(gaps, l, N, first, s) => StallRanges(gaps, l, N \cup {s}, first, s + 1)
      BY <1>2, <1>5, <2>2, <3>1, RangesAfterNext
    <3>3. Ranges(l, m)'
      BY <2>5, <2>6, <2>7, <3>2
    <3> QED
      BY <1>6, <2>4, <3>3, Zenon DEF Stream
  <2>8. CASE c < s /\ gaps' = Listing(l, s) /\ opt.skip_gaps
    <3>1. first <= c /\ SkipRanges(gaps, l, N, first, c)
      BY <2>2, <2>6, <2>8
    <3>2. SkipRanges(Append(gaps, [loc |-> l, first_missing |-> c, last_missing |-> s - 1]),
                     l, N \cup {s}, first, s + 1)
      BY <1>2, <1>5, <2>2, <2>8, <3>1, RangesAfterSkip
    <3>3. gaps' = Append(gaps, [loc |-> l, first_missing |-> c, last_missing |-> s - 1])
      BY <2>8 DEF Listing, c
    <3>4. Ranges(l, m)'
      BY <2>5, <2>8, <3>2, <3>3
    <3> QED
      BY <1>6, <2>4, <3>4, Zenon DEF Stream
  <2> QED
    BY <1>1, <1>8, <2>7, <2>8
<1> QED
  BY <1>7, <1>8

LEMMA StallsKeepsStream ==
  ASSUME Typed, Cursors, NEW i \in DOMAIN Sent, NEW how \in Hows,
         NEW ts \in Int, NEW fate, StepOf(i, how, ts, fate), Stalls(i, fate)
  PROVE  Stream(Sent[i].loc)'
<1>0. PICK n, l, s : n = Len(file) + 1 /\ l = Sent[i].loc /\ s = Sent[i].seq
  OBVIOUS
<1> SUFFICES Stream(l)'
  BY <1>0, Zenon
<1> DEFINE c == h.gap[l]
           N == Numbers(UsedAt(l))
<1> HIDE DEF c, N
<1>1. /\ fate = "stalled" /\ h'.gap = h.gap /\ ~opt.skip_gaps
      /\ l \in DOMAIN h.gap /\ c < s /\ gaps' = Listing(l, s)
  BY <1>0, Zenon DEF Stalls, c
<1>2. s \in Nat /\ \A k \in UsedAt(l) : NumberAt(k)' = NumberAt(k)
  BY <1>0, UsedGrows
<1>3. UsedAt(l)' = UsedAt(l) /\ Numbers(UsedAt(l))' = N
  BY <1>0, <1>1, UsedGrows DEF N
<1>4. l \in Locs /\ Stream(l) /\ opt' = opt /\ gaps \in Seq(Gaps)
  BY <1>0 DEF Cursors, Locs, StepOf, Typed
<1>5. PICK m \in UsedAt(l) : Joined(l, m) /\ Ranges(l, m)
  BY <1>1, <1>4 DEF Stream
<1> DEFINE first == NumberAt(m)
<1> HIDE DEF first
<1>6. c \in Nat /\ first \in Nat /\ first < c
  BY <1>1, <1>5, UsedBehindCursor DEF c, first
<1>7. Joined(l, m)' /\ NumberAt(m)' = first
  BY <1>1, <1>2, <1>3, <1>5 DEF Joined, first
<1>8. StallRanges(gaps, l, N, first, c)
  BY <1>1, <1>5, Zenon DEF Ranges, N, first, c
<1>8a. first <= c
  BY <1>6
<1>9. StallRanges(Append(gaps, [loc |-> l, first_missing |-> c, last_missing |-> s - 1]),
                  l, N, first, c)
  BY <1>1, <1>2, <1>4, <1>6, <1>8, <1>8a, RangesAfterStall
<1>10. gaps' = Append(gaps, [loc |-> l, first_missing |-> c, last_missing |-> s - 1])
  BY <1>1 DEF Listing, c
<1>11. Ranges(l, m)'
  BY <1>1, <1>3, <1>4, <1>7, <1>9, <1>10, Zenon DEF Ranges, c
<1>12. l \in DOMAIN h'.gap /\ m \in UsedAt(l)'
  BY <1>1, <1>3
<1> QED
  BY <1>7, <1>11, <1>12, Zenon DEF Stream

LEMMA StepKeepsCursors ==
  ASSUME Typed, Cursors, NEW i \in DOMAIN Sent, NEW how \in Hows,
         NEW ts \in Int, NEW fate, StepOf(i, how, ts, fate)
  PROVE  Cursors'
<1>0. PICK n : n = Len(file) + 1
  OBVIOUS
<1>1. opt' = opt /\ Sent[i].loc \in Locs
  BY DEF StepOf, Locs
<1>2. ASSUME NEW l \in Locs,
             \/ PassedOver(fate) \/ SkippedOver(ts, fate) \/ LeavesCursors(i, how, fate)
      PROVE  Untouched(l)
  <2>1. h'.gap = h.gap /\ gaps' = gaps
    BY <1>2 DEF PassedOver, SkippedOver, LeavesCursors
  <2>2. ~(fate \in {"decoded", "bad"} /\ how # "stub" /\ Sent[i].loc = l /\ Sent[i].seq # 0)
    BY <1>2 DEF PassedOver, SkippedOver, LeavesCursors
  <2>3. /\ UsedAt(l)' = UsedAt(l) /\ Numbers(UsedAt(l))' = Numbers(UsedAt(l))
        /\ \A k \in UsedAt(l) : NumberAt(k)' = NumberAt(k)
    BY <1>0, <2>2, UsedGrows
  <2> QED
    BY <2>1, <2>3 DEF Untouched
<1>3. ASSUME NEW l \in Locs, Sent[i].loc # l, TakesNumber(i, how, fate) \/ Stalls(i, fate)
      PROVE  Untouched(l)
  <2>1. /\ l \in DOMAIN h'.gap <=> l \in DOMAIN h.gap
        /\ l \in DOMAIN h.gap => h'.gap[l] = h.gap[l]
    BY <1>3 DEF TakesNumber, Stalls, Assign
  <2>2. /\ UsedAt(l)' = UsedAt(l) /\ Numbers(UsedAt(l))' = Numbers(UsedAt(l))
        /\ \A k \in UsedAt(l) : NumberAt(k)' = NumberAt(k)
    BY <1>0, <1>3, UsedGrows
  <2> DEFINE e == [loc |-> Sent[i].loc, first_missing |-> h.gap[Sent[i].loc],
                   last_missing |-> Sent[i].seq - 1]
  <2> HIDE DEF e
  <2>3. gaps' = gaps \/ (gaps' = Append(gaps, e) /\ e \in Gaps)
    <3>1. CASE gaps' = gaps
      BY <3>1, Zenon
    <3>2. CASE gaps' # gaps
      <4>1. /\ Sent[i].loc \in DOMAIN h.gap /\ h.gap[Sent[i].loc] < Sent[i].seq
            /\ gaps' = Append(gaps, e)
        BY <1>3, <3>2, Zenon DEF TakesNumber, Stalls, Listing, e
      <4>2. h.gap[Sent[i].loc] \in Nat /\ Sent[i].seq \in Nat
        BY <4>1, PcapAssumption DEF Typed, IsCursors
      <4>3. Sent[i].seq - 1 \in Nat
        BY <4>1, <4>2
      <4> QED
        BY <1>1, <4>1, <4>2, <4>3 DEF Gaps, e
    <3> QED
      BY <3>1, <3>2, Zenon
  <2>4. e.loc # l
    BY <1>3 DEF e
  <2>5. gaps' = gaps \/ \E g \in Gaps : g.loc # l /\ gaps' = Append(gaps, g)
    BY <2>3, <2>4, Zenon
  <2> QED
    BY <2>1, <2>2, <2>5, Zenon DEF Untouched
<1>4. CASE PassedOver(fate) \/ SkippedOver(ts, fate) \/ LeavesCursors(i, how, fate)
  <2>1. DOMAIN h'.gap \subseteq Locs
    BY <1>4 DEF PassedOver, SkippedOver, LeavesCursors, Cursors
  <2>2. \A l \in Locs : Stream(l)'
    BY <1>1, <1>2, <1>4, UntouchedStream DEF Cursors
  <2> QED
    BY <2>1, <2>2 DEF Cursors
<1>5. CASE TakesNumber(i, how, fate) \/ Stalls(i, fate)
  <2>1. DOMAIN h'.gap \subseteq Locs
    BY <1>1, <1>5 DEF TakesNumber, Stalls, Assign, Cursors
  <2>2. Stream(Sent[i].loc)'
    BY <1>5, TakesKeepsStream, StallsKeepsStream
  <2>3. ASSUME NEW l \in Locs
        PROVE  Stream(l)'
    <3>1. CASE Sent[i].loc = l
      BY <2>2, <3>1
    <3>2. CASE Sent[i].loc # l
      <4>1. Untouched(l) /\ Stream(l)
        BY <1>3, <1>5, <3>2, Zenon DEF Cursors
      <4> QED
        BY <1>1, <4>1, UntouchedStream
    <3> QED
      BY <3>1, <3>2
  <2> QED
    BY <2>1, <2>3 DEF Cursors
<1> QED
  BY <1>4, <1>5, ReplayedHandler, FateTells

-----------------------------------------------------------------------------
(***************************************************************************)
(* The inductive invariants: of the replay itself, and of its times.       *)
(***************************************************************************)

ReplayInv == Typed /\ Counted /\ Started /\ Cursors

TimeInv == ReplayInv /\ Spread /\ Window /\ Paced

LEMMA NothingReadYet ==
  ASSUME Init
  PROVE  /\ Len(file) = 0 /\ DOMAIN file = {}
         /\ Delivered = {} /\ Skipped = {} /\ Replayed = {} /\ \A l : UsedAt(l) = {}
         /\ \A l : Of(gaps, l) = {}
<1>1. file = << >> /\ gaps = << >>
  BY DEF Init
<1>2. DOMAIN file = {} /\ DOMAIN gaps = {} /\ Len(file) = 0
  BY <1>1
<1>3. Delivered = {} /\ Skipped = {} /\ \A l : UsedAt(l) = {}
  BY <1>2 DEF Delivered, Skipped, UsedAt
<1>4. \A l : Of(gaps, l) = {}
  BY <1>2 DEF Of
<1> QED
  BY <1>2, <1>3, <1>4 DEF Replayed

LEMMA InitIsTyped ==
  ASSUME Init
  PROVE  Typed
<1>1. opt \in Options /\ running \in BOOLEAN
  BY DEF Init
<1>2. loop \in Locals
  BY DEF Init, Locals
<1>3. IsHandler(h) /\ IsCursors(h.gap)
  BY DEF Init, NewHandler, NoStreams, IsHandler, IsCursors
<1>4. gaps \in Seq(Gaps) /\ file \in Seq(Records)
  BY EmptySeq DEF Init
<1> QED
  BY <1>1, <1>2, <1>3, <1>4 DEF Typed

LEMMA InitIsInvariant ==
  ASSUME Init
  PROVE  TimeInv
<1>1. Typed
  BY InitIsTyped
<1>2. /\ Len(file) = 0 /\ DOMAIN file = {}
      /\ Delivered = {} /\ Skipped = {} /\ Replayed = {} /\ \A l : UsedAt(l) = {}
      /\ \A l : Of(gaps, l) = {}
  BY NothingReadYet
<1>3. /\ loop.have_first_ts = FALSE /\ loop.replayed = 0 /\ loop.skipped = 0 /\ loop.slept = 0
      /\ DOMAIN h.gap = {}
  BY DEF Init, NewHandler, NoStreams
<1>4. Counted
  <2>1. IsFiniteSet({}) /\ Cardinality({}) = 0
    BY FS_EmptySet
  <2>2. opt.stop_after # 0 => 0 < opt.stop_after /\ 0 <= opt.stop_after
    BY <1>1, OptionIsTyped
  <2> QED
    BY <1>2, <1>3, <2>1, <2>2 DEF Counted
<1>5. Started /\ Spread /\ Window
  <2>1. Len(file) <= MaxRecords
    BY <1>2, PcapAssumption
  <2> QED
    BY <1>2, <1>3, <2>1 DEF Started, Spread, Window
<1>6. Paced
  BY <1>2, <1>3 DEF Paced
<1>7. Cursors
  BY <1>2, <1>3 DEF Cursors, Stream
<1> QED
  BY <1>1, <1>4, <1>5, <1>6, <1>7 DEF TimeInv, ReplayInv

LEMMA StutterKeepsInvariants ==
  ASSUME UNCHANGED vars
  PROVE  (ReplayInv => ReplayInv') /\ (TimeInv => TimeInv')
<1>1. /\ opt' = opt /\ running' = running /\ loop' = loop /\ h' = h
      /\ gaps' = gaps /\ file' = file
  BY DEF vars
<1>2. /\ Delivered' = Delivered /\ Skipped' = Skipped /\ Replayed' = Replayed
      /\ StartTime' = StartTime
  BY <1>1 DEF Delivered, Skipped, Replayed, StartTime
<1>3. \A l : /\ UsedAt(l)' = UsedAt(l) /\ Numbers(UsedAt(l))' = Numbers(UsedAt(l))
  BY <1>1 DEF UsedAt, Numbers
<1>4. \A k : NumberAt(k)' = NumberAt(k)
  BY <1>1, Zenon DEF NumberAt
<1>5. Typed => Typed'
  BY <1>1, Zenon DEF Typed
<1>6. Counted => Counted'
  BY <1>1, <1>2, Zenon DEF Counted
<1>7. Started => Started'
  BY <1>1, <1>2, Zenon DEF Started
<1>8. ASSUME NEW l, Typed, Stream(l)
      PROVE  Stream(l)'
  <2>1. Untouched(l)
    BY <1>1, <1>3, <1>4, Zenon DEF Untouched
  <2> QED
    BY <1>1, <1>8, <2>1, UntouchedStream
<1>9. Typed /\ Cursors => Cursors'
  BY <1>1, <1>8, Zenon DEF Cursors
<1>10. Spread => Spread'
  BY <1>1, Zenon DEF Spread
<1>11. Window => Window'
  BY <1>1, <1>2, Zenon DEF Window
<1>12. InOrder' <=> InOrder
  BY <1>1, <1>2, Zenon DEF InOrder
<1>13. Paced => Paced'
  BY <1>1, <1>2, <1>12, Zenon DEF Paced
<1> QED
  BY <1>5, <1>6, <1>7, <1>9, <1>10, <1>11, <1>13, Zenon DEF ReplayInv, TimeInv

LEMMA StepKeepsReplayInv ==
  ASSUME ReplayInv, [Next]_vars
  PROVE  ReplayInv'
<1>1. CASE UNCHANGED vars
  BY <1>1, StutterKeepsInvariants
<1>2. CASE Next
  <2>1. Typed /\ Counted /\ Started /\ Cursors
    BY DEF ReplayInv
  <2>2. PICK i \in DOMAIN Sent, how \in Hows, ts \in Int :
          \E fate : StepOf(i, how, ts, fate)
    BY <1>2, <2>1, StepCases
  <2>2a. PICK fate : StepOf(i, how, ts, fate)
    BY <2>2
  <2>3. Typed' /\ Counted' /\ Started' /\ Cursors'
    BY <2>1, <2>2a, StepIsTyped, StepIsCounted, StepIsStarted, StepKeepsCursors
  <2> QED
    BY <2>3 DEF ReplayInv
<1> QED
  BY <1>1, <1>2

LEMMA StepKeepsTimeInv ==
  ASSUME ClockFits, TimeInv, [Next]_vars
  PROVE  TimeInv'
<1>1. CASE UNCHANGED vars
  BY <1>1, StutterKeepsInvariants
<1>2. CASE Next
  <2>1. /\ ReplayInv /\ Typed /\ Counted /\ Started
        /\ Spread /\ Window /\ Paced
    BY DEF TimeInv, ReplayInv
  <2>2. ReplayInv'
    BY <2>1, StepKeepsReplayInv
  <2>3. PICK i \in DOMAIN Sent, how \in Hows, ts \in Int :
          \E fate : StepOf(i, how, ts, fate)
    BY <1>2, <2>1, StepCases
  <2>3a. PICK fate : StepOf(i, how, ts, fate)
    BY <2>3
  <2>4. Spread' /\ Window'
    BY <2>1, <2>3a, StepIsSpread, StepKeepsWindow
  <2>5. Paced'
    BY <2>1, <2>3a, FateTells, PassedOverIsPaced, SkippedIsPaced, ReplayedIsPaced
  <2> QED
    BY <2>2, <2>4, <2>5 DEF TimeInv
<1> QED
  BY <1>1, <1>2

\* The clock is what it is in every state.
LEMMA ReplayInvHolds ==
  Spec => []ReplayInv
<1>1. Init => ReplayInv
  BY InitIsInvariant DEF TimeInv
<1>2. ReplayInv /\ [Next]_vars => ReplayInv'
  BY StepKeepsReplayInv
<1> QED
  BY <1>1, <1>2, PTL DEF Spec

LEMMA TimeInvHolds ==
  ASSUME ClockFits
  PROVE  Spec => []TimeInv
<1>1. Init => TimeInv
  BY InitIsInvariant
<1>2. TimeInv /\ [Next]_vars => TimeInv'
  BY StepKeepsTimeInv
<1> QED
  BY <1>1, <1>2, PTL DEF Spec

-----------------------------------------------------------------------------
(***************************************************************************)
(* What the invariants say of the properties.                              *)
(***************************************************************************)

LEMMA FirstUsed ==
  ASSUME Typed, NEW l \in DOMAIN h.gap, NEW m \in UsedAt(l), Joined(l, m)
  PROVE  Behind(l, UsedAt(l)) = NumberAt(m)..(h.gap[l] - 1)
<1>1. UsedAt(l) \in SUBSET Int /\ \A k \in UsedAt(l) : m <= k
  BY UsedBehindCursor DEF Joined
<1>2. Min(UsedAt(l)) = m
  BY <1>1, MinIs
<1>3. expected(h.gap, l) = h.gap[l]
  BY DEF expected
<1> QED
  BY <1>2, <1>3, Zenon DEF Behind, NumberAt

LEMMA TypesFollow ==
  ASSUME ReplayInv
  PROVE  TypeOK
<1>1. Typed /\ Counted /\ Cursors
  BY DEF ReplayInv
<1>2. /\ loop.skipped = Cardinality(Skipped)
      /\ loop.replayed + loop.skipped = Cardinality(Delivered)
      /\ opt.stop_after # 0 => loop.replayed <= opt.stop_after
  BY <1>1 DEF Counted
<1>3. ASSUME NEW l \in DOMAIN h.gap
      PROVE  <<l, h.gap[l] - 1>> \in SentNumbers
  <2>1. PICK m \in UsedAt(l) : Joined(l, m)
    BY <1>1, <1>3 DEF Cursors, Stream
  <2>2. PICK k \in UsedAt(l) : h.gap[l] = NumberAt(k) + 1
    BY <2>1 DEF Joined
  <2> DEFINE i == file[k].sent
  <2>3. i \in DOMAIN Sent /\ Sent[i].loc = l
    <3>1. k \in 1..Len(file) /\ Len(file) \in Nat
      BY <1>1, LenProperties DEF UsedAt, Typed
    <3>2. file[k] \in Records
      BY <1>1, <3>1, ElementOfSeq DEF Typed
    <3> QED
      BY <3>2 DEF Records, UsedAt
  <2>4. Sent[i].seq \in Nat /\ h.gap[l] = Sent[i].seq + 1
    BY <2>2, <2>3, PcapAssumption DEF NumberAt
  <2>5. h.gap[l] - 1 = Sent[i].seq
    BY <2>4
  <2> QED
    BY <2>3, <2>5 DEF SentNumbers
<1> QED
  BY <1>2, <1>3 DEF TypeOK

LEMMA WindowFollows ==
  ASSUME TimeInv
  PROVE  OffsetSkipsWindow
<1>1. Typed /\ Started /\ Window
  BY DEF TimeInv, ReplayInv
<1>2. ASSUME NEW k \in Delivered
      PROVE  loop.first_ts_us = file[Min(Delivered)].ts
  <2>1. PICK a \in Delivered : /\ \A j \in Delivered : a <= j
                               /\ loop.first_ts_us = file[a].ts
    BY <1>1 DEF Started
  <2>2. Delivered \in SUBSET Int
    <3>1. DOMAIN file \in SUBSET Int
      BY <1>1, LenProperties DEF Typed
    <3> QED
      BY <3>1 DEF Delivered
  <2>3. Min(Delivered) = a
    BY <2>1, <2>2, MinIs
  <2> QED
    BY <2>1, <2>3
<1> QED
  BY <1>1, <1>2 DEF Window, Inside, OffsetSkipsWindow

LEMMA PacingFollows ==
  ASSUME TimeInv
  PROVE  PacingFollowsCapture
<1>1. Counted /\ Paced
  BY DEF TimeInv, ReplayInv
<1>2. opt.speedup[1] = 0 => loop.slept = 0
  BY <1>1 DEF Paced
<1>3. ASSUME opt.speedup[1] # 0, InOrder, Replayed # {}
      PROVE  Covers(loop.slept, opt.speedup[1],
                    (file[Max(Replayed)].ts - StartTime) * opt.speedup[2],
                    Cardinality(Replayed))
  BY <1>1, <1>3, Zenon DEF Paced, Counted
<1> QED
  BY <1>2, <1>3, Zenon DEF PacingFollowsCapture, Covers, StartTime

LEMMA SkipRangesFollow ==
  ASSUME ReplayInv
  PROVE  GapRangesAreExact
<1> SUFFICES ASSUME opt.skip_gaps, NEW l \in DOMAIN h.gap
             PROVE  /\ \A j, k \in Of(gaps, l) :
                         j < k => gaps[j].last_missing < gaps[k].first_missing
                    /\ UNION {Listed(k) : k \in Of(gaps, l)} =
                         Behind(l, UsedAt(l)) \ Numbers(UsedAt(l))
  BY Zenon DEF GapRangesAreExact, Of
<1>1. Typed /\ Cursors
  BY DEF ReplayInv
<1>2. PICK m \in UsedAt(l) : Joined(l, m) /\ Ranges(l, m)
  BY <1>1 DEF Cursors, Stream
<1> DEFINE N == Numbers(UsedAt(l))
           first == NumberAt(m)
           c == h.gap[l]
<1>3. Behind(l, UsedAt(l)) = first..(c - 1)
  BY <1>1, <1>2, FirstUsed
<1>4. first \in Nat /\ c \in Nat
  BY <1>1, <1>2, UsedBehindCursor
<1>5. SkipRanges(gaps, l, N, first, c)
  BY <1>2 DEF Ranges
<1> HIDE DEF N, first, c
<1>6. \A k \in Of(gaps, l) : /\ first <= gaps[k].first_missing /\ gaps[k].last_missing < c
                             /\ gaps[k].first_missing \in Nat /\ gaps[k].last_missing \in Nat
  <2>1. \A k \in DOMAIN gaps : gaps[k] \in Gaps
    BY <1>1, LenProperties, ElementOfSeq DEF Typed
  <2> QED
    BY <1>5, <2>1 DEF Of, Gaps, SkipRanges
<1>7. \A k \in Of(gaps, l) : \A t : t \in Listed(k) <=>
        /\ t \in first..(c - 1)
        /\ gaps[k].first_missing <= t /\ t <= gaps[k].last_missing
  BY <1>4, <1>6 DEF Listed
<1>8. \A t \in first..(c - 1) :
        t \in N <=> \A k \in Of(gaps, l) :
                      ~(gaps[k].first_missing <= t /\ t <= gaps[k].last_missing)
  BY <1>5 DEF SkipRanges
<1>9. UNION {Listed(k) : k \in Of(gaps, l)} = first..(c - 1) \ N
  BY <1>7, <1>8
<1> QED
  BY <1>3, <1>5, <1>9 DEF SkipRanges, N

LEMMA StallRangesFollow ==
  ASSUME ReplayInv
  PROVE  StallPassesOverNothing
<1> SUFFICES ASSUME ~opt.skip_gaps, NEW l \in DOMAIN h.gap
             PROVE  /\ Numbers(UsedAt(l)) = Behind(l, UsedAt(l))
                    /\ \A j, k \in DOMAIN gaps :
                         (j < k /\ gaps[j].loc = l /\ gaps[k].loc = l) =>
                           /\ gaps[j].first_missing <= gaps[k].first_missing
                           /\ (gaps[j].first_missing)..(gaps[k].first_missing - 1)
                                \subseteq Numbers(UsedAt(l))
  BY Zenon DEF StallPassesOverNothing
<1>1. Typed /\ Cursors
  BY DEF ReplayInv
<1>2. PICK m \in UsedAt(l) : Joined(l, m) /\ Ranges(l, m)
  BY <1>1 DEF Cursors, Stream
<1> DEFINE N == Numbers(UsedAt(l))
           first == NumberAt(m)
           c == h.gap[l]
<1>3. Behind(l, UsedAt(l)) = first..(c - 1)
  BY <1>1, <1>2, FirstUsed
<1>4. first \in Nat /\ c \in Nat /\ N \in SUBSET (first..(c - 1))
  BY <1>1, <1>2, UsedBehindCursor
<1>5. StallRanges(gaps, l, N, first, c)
  BY <1>2 DEF Ranges
<1> HIDE DEF N, first, c
<1>6. N = first..(c - 1)
  BY <1>4, <1>5 DEF StallRanges
<1>7. ASSUME NEW j \in DOMAIN gaps, NEW k \in DOMAIN gaps,
             j < k, gaps[j].loc = l, gaps[k].loc = l
      PROVE  /\ gaps[j].first_missing <= gaps[k].first_missing
             /\ (gaps[j].first_missing)..(gaps[k].first_missing - 1) \subseteq N
  <2>1. j \in Of(gaps, l) /\ k \in Of(gaps, l)
    BY <1>7 DEF Of
  <2>2. /\ gaps[j].first_missing <= gaps[k].first_missing
        /\ first <= gaps[j].first_missing /\ gaps[k].first_missing <= c
    BY <1>5, <1>7, <2>1 DEF StallRanges
  <2>3. gaps[j].first_missing \in Nat /\ gaps[k].first_missing \in Nat
    <3>1. gaps[j] \in Gaps /\ gaps[k] \in Gaps
      BY <1>1, LenProperties, ElementOfSeq DEF Typed
    <3> QED
      BY <3>1 DEF Gaps
  <2> QED
    BY <1>4, <1>6, <2>2, <2>3
<1> QED
  BY <1>3, <1>6, <1>7 DEF N

-----------------------------------------------------------------------------
(***************************************************************************)
(* The book: what is decoded is what was sent, and the book is the one     *)
(* that applying it gives.                                                 *)
(***************************************************************************)

FateFits(x) ==
  /\ x.fate = "decoded" => x.how \in {"whole", "padded"}
  /\ x.fate = "bad" => x.how \in {"stub", "cut"}

After(db, x) ==
  IF x.fate = "decoded" THEN apply(db, book_message(Sent[x.sent].msg)).db ELSE db

\* f holds the book after each record.
Books(f, recs) ==
  f = [n \in 0..Len(recs) |-> IF n = 0 THEN EmptyDepthBook(Depth) ELSE After(f[n - 1], recs[n])]

Applied ==
  /\ \A k \in DOMAIN file : FateFits(file[k])
  /\ \E f : Books(f, file) /\ h.db = f[Len(file)]

\* A record replayed changes the book if its datagram arrived whole.
LEMMA ReplayedBook ==
  ASSUME Typed, NEW i \in DOMAIN Sent, NEW how \in Hows, NEW ts, NEW fate,
         ReplayedOne(i, how, ts, fate)
  PROVE  LET x == [sent |-> i, how |-> how, ts |-> ts, fate |-> fate]
         IN  FateFits(x) /\ h'.db = After(h.db, x)
<1> DEFINE d == Parsed[i][how]
           msg == Sent[i].msg
           answer == IF opt.skip_gaps THEN SkipGaps ELSE Stall
           r == on_datagram(h, d, answer)
<1>1. /\ how = "stub" => d.frame = ShortFrame
      /\ how = "cut" => d.frame = BadFrame
      /\ how \in {"whole", "padded"} => d.frame = book_message(msg)
      /\ how \in {"whole", "cut", "padded"} => d.seq = Sent[i].seq
      /\ how \in {"whole", "cut", "padded", "stub"}
  BY ParsedIs DEF Hows, ReplayedOne
<1>2. book_message(msg) \notin {BadFrame, ShortFrame}
  <2>1. IsMessage(msg)
    BY PcapAssumption
  <2> QED
    BY <2>1, BookMessageIs DEF BadFrame, ShortFrame
<1>3. h' = r.h /\ fate = r.fate
  BY DEF ReplayedOne
<1>4. d.frame # ShortFrame => d.seq \in Nat
  BY <1>1, PcapAssumption
<1>5. answer \in {SkipGaps, Stall} /\ IsHandler(h) /\ IsCursors(h.gap)
  BY DEF Typed
<1> HIDE DEF d, msg, answer
<1>6. Applies(h.db, d, r)
  BY <1>4, <1>5, WithoutRecovery
<1> HIDE DEF r
<1>7. /\ fate = "decoded" => how \in {"whole", "padded"} /\ d.frame = book_message(msg)
      /\ fate = "bad" => how \in {"stub", "cut"}
  BY <1>1, <1>2, <1>3, <1>6 DEF Applies
<1>8. h'.db = IF fate = "decoded" THEN apply(h.db, book_message(msg)).db ELSE h.db
  BY <1>3, <1>6, <1>7 DEF Applies
<1> QED
  BY <1>7, <1>8 DEF FateFits, After, msg

LEMMA StepIsApplied ==
  ASSUME Typed, Applied, NEW i \in DOMAIN Sent, NEW how \in Hows, NEW ts \in Int, NEW fate,
         StepOf(i, how, ts, fate)
  PROVE  Applied'
<1> DEFINE x == [sent |-> i, how |-> how, ts |-> ts, fate |-> fate]
           L == Len(file)
<1>1. FateFits(x) /\ h'.db = After(h.db, x)
  <2>1. CASE PassedOver(fate) \/ SkippedOver(ts, fate)
    BY <2>1 DEF PassedOver, SkippedOver, FateFits, After
  <2>2. CASE ReplayedOne(i, how, ts, fate)
    BY <2>2, ReplayedBook
  <2> QED
    BY <2>1, <2>2 DEF StepOf
<1>2. x \in Records /\ file' = Append(file, x)
  BY StepIsTyped DEF StepOf
<1> HIDE DEF x
<1>3. /\ L \in Nat /\ DOMAIN file = 1..L
      /\ Len(file') = L + 1 /\ DOMAIN file' = DOMAIN file \cup {L + 1}
      /\ file'[L + 1] = x /\ \A k \in DOMAIN file : file'[k] = file[k]
  BY <1>2, Recorded
<1>4. PICK f : Books(f, file) /\ h.db = f[L]
  BY DEF Applied
<1> DEFINE e == [n \in 0..(L + 1) |-> IF n = L + 1 THEN After(f[L], x) ELSE f[n]]
<1>5. e = [n \in 0..(L + 1) |-> IF n = 0 THEN EmptyDepthBook(Depth) ELSE After(e[n - 1], file'[n])]
  <2>1. ASSUME NEW n \in 0..(L + 1)
        PROVE  e[n] = IF n = 0 THEN EmptyDepthBook(Depth) ELSE After(e[n - 1], file'[n])
    <3>1. CASE n = L + 1
      <4>1. L \in 0..(L + 1) /\ L # L + 1 /\ n - 1 = L /\ n # 0
        <5> HIDE DEF L
        <5>1. L \in Nat
          BY <1>3
        <5> QED
          BY <3>1, <5>1
      <4>2. e[n] = After(f[L], x) /\ e[L] = f[L] /\ file'[n] = x
        BY <1>3, <3>1, <4>1
      <4> HIDE DEF e
      <4> QED
        BY <4>1, <4>2
    <3>2. CASE n # L + 1
      <4>1. /\ n \in 0..L
            /\ n # 0 => n \in DOMAIN file /\ n - 1 \in 0..(L + 1) /\ n - 1 # L + 1
        BY <1>3, <3>2
      <4>2. f[n] = IF n = 0 THEN EmptyDepthBook(Depth) ELSE After(f[n - 1], file[n])
        BY <1>4, <4>1 DEF Books
      <4>3. e[n] = f[n] /\ (n # 0 => e[n - 1] = f[n - 1] /\ file'[n] = file[n])
        BY <1>3, <3>2, <4>1
      <4> HIDE DEF e
      <4> QED
        BY <4>2, <4>3
    <3> QED
      BY <3>1, <3>2
  <2> QED
    BY <2>1
<1>6. e[L + 1] = h'.db
  <2>1. L + 1 \in 0..(L + 1)
    BY <1>3
  <2> QED
    BY <1>1, <1>4, <2>1
<1> HIDE DEF e
<1>7. Books(e, file') /\ h'.db = e[Len(file')]
  BY <1>3, <1>5, <1>6 DEF Books
<1>8. \A k \in DOMAIN file' : FateFits(file'[k])
  BY <1>1, <1>3 DEF Applied
<1> HIDE DEF L
<1>9. \E g : Books(g, file') /\ h'.db = g[Len(file')]
  BY <1>7
<1> QED
  BY <1>8, <1>9 DEF Applied, Books, After, FateFits

AppliedInv == Typed /\ Applied

LEMMA AppliedInvHolds ==
  Spec => []AppliedInv
<1>1. Init => AppliedInv
  <2> SUFFICES ASSUME Init
               PROVE  Applied
    BY InitIsTyped DEF AppliedInv
  <2>1. Len(file) = 0 /\ DOMAIN file = {} /\ h.db = EmptyDepthBook(Depth)
    BY NothingReadYet DEF Init, NewHandler
  <2> DEFINE f == [n \in 0..0 |-> EmptyDepthBook(Depth)]
  <2>2. Books(f, file) /\ h.db = f[Len(file)]
    BY <2>1 DEF Books
  <2> HIDE DEF f
  <2> QED
    BY <2>1, <2>2 DEF Applied
<1>2. AppliedInv /\ [Next]_vars => AppliedInv'
  <2> SUFFICES ASSUME AppliedInv, [Next]_vars
               PROVE  AppliedInv'
    OBVIOUS
  <2>1. CASE UNCHANGED vars
    <3>1. /\ opt' = opt /\ running' = running /\ loop' = loop /\ h' = h
          /\ gaps' = gaps /\ file' = file
      BY <2>1 DEF vars
    <3>2. Typed'
      BY <3>1, Zenon DEF AppliedInv, Typed
    <3>3. Applied'
      BY <3>1 DEF AppliedInv, Applied, Books, After, FateFits
    <3> QED
      BY <3>2, <3>3 DEF AppliedInv
  <2>2. CASE Next
    <3>1. Typed /\ Applied
      BY DEF AppliedInv
    <3>2. PICK i \in DOMAIN Sent, how \in Hows, ts \in Int :
            \E fate : StepOf(i, how, ts, fate)
      BY <2>2, <3>1, StepCases
    <3>3. PICK fate : StepOf(i, how, ts, fate)
      BY <3>2
    <3> QED
      BY <3>1, <3>3, StepIsTyped, StepIsApplied DEF AppliedInv
  <2> QED
    BY <2>1, <2>2
<1> QED
  BY <1>1, <1>2, PTL DEF Spec

\* Two functions that start alike and take the same records are the same.
LEMMA BooksAreOne ==
  ASSUME NEW recs, Len(recs) \in Nat, NEW f, Books(f, recs), NEW g, Books(g, recs)
  PROVE  f[Len(recs)] = g[Len(recs)]
<1> DEFINE L == Len(recs)
           S == {n \in Nat : n <= L => f[n] = g[n]}
<1>1. ASSUME NEW n \in 0..L
      PROVE  /\ f[n] = IF n = 0 THEN EmptyDepthBook(Depth) ELSE After(f[n - 1], recs[n])
             /\ g[n] = IF n = 0 THEN EmptyDepthBook(Depth) ELSE After(g[n - 1], recs[n])
  BY DEF Books
<1>2. 0 \in S
  BY <1>1
<1>3. ASSUME NEW n \in S
      PROVE  n + 1 \in S
  <2>1. ASSUME n + 1 <= L
        PROVE  f[n + 1] = g[n + 1]
    <3>1. n + 1 \in 0..L /\ n + 1 # 0 /\ (n + 1) - 1 = n /\ f[n] = g[n]
      BY <2>1
    <3> QED
      BY <1>1, <3>1
  <2> QED
    BY <2>1
<1>4. S = Nat
  <2>1. S \in SUBSET Nat
    OBVIOUS
  <2> HIDE DEF S
  <2> QED
    BY <1>2, <1>3, <2>1, Induction
<1>5. L \in S
  <2> HIDE DEF S
  <2> QED
    BY <1>4
<1> QED
  BY <1>5

LEMMA AppliedFollows ==
  ASSUME AppliedInv
  PROVE  WhatIsAppliedWasSent
<1> DEFINE book == CHOOSE f : Books(f, file)
<1>1. Typed /\ Len(file) \in Nat /\ \A k \in DOMAIN file : FateFits(file[k])
  BY LenProperties DEF AppliedInv, Typed, Applied
<1>2. PICK f : Books(f, file) /\ h.db = f[Len(file)]
  BY DEF AppliedInv, Applied
<1>3. Books(book, file)
  BY <1>2
<1> HIDE DEF book
<1>4. h.db = book[Len(file)]
  BY <1>1, <1>2, <1>3, BooksAreOne
<1>5. \A k \in Replayed : FateFits(file[k])
  BY <1>1 DEF Replayed, Delivered
<1>6. WhatIsAppliedWasSent <=>
        /\ \A k \in Replayed : FateFits(file[k])
        /\ h.db = book[Len(file)]
  BY DEF WhatIsAppliedWasSent, Books, After, FateFits, book
<1> QED
  BY <1>4, <1>5, <1>6

LEMMA FramesFollow ==
  ASSUME Typed
  PROVE  FramesRoundTrip
<1> SUFFICES ASSUME Len(file) = 1
             PROVE  LET msg   == Sent[Head(file).sent].msg
                        frame == encode_frame(msg, Zeros(framed_size(msg))).bytes
                    IN  /\ decode_frame(frame) = [status |-> "Ok", consumed |-> Len(frame),
                                                  message |-> msg]
                        /\ \A n \in 0..(Len(frame) - 1) :
                             decode_frame(SubSeq(frame, 1, n)).status = "ShortBuffer"
  BY DEF FramesRoundTrip
<1>1. Head(file) \in Records
  <2>1. file \in Seq(Records)
    BY DEF Typed
  <2>2. file # << >>
    <3>1. Len(<< >>) = 0
      OBVIOUS
    <3> QED
      BY <3>1
  <2> QED
    BY <2>1, <2>2, HeadTailProperties
<1>2. IsMessage(Sent[Head(file).sent].msg)
  BY <1>1, PcapAssumption DEF Records
<1> QED
  BY <1>2, CodecRoundTrips

-----------------------------------------------------------------------------
(***************************************************************************)
(* The theorems.                                                           *)
(***************************************************************************)

\* The counters that pcap_replay prints are those of the records of the file,
\* --stop-after is kept to, and every cursor stands right behind a number that
\* was sent on its stream, whatever the capture did to the datagrams.
THEOREM TypeCorrect ==
  Spec => []TypeOK
<1>1. ReplayInv => TypeOK
  BY TypesFollow
<1> QED
  BY <1>1, ReplayInvHolds, PTL

\* --start-offset skips the records captured in the first seconds of the capture
\* and no others, although the loop compares an unsigned difference that wraps
\* for a record captured before the first one.
THEOREM WindowExact ==
  ASSUME ClockFits
  PROVE  Spec => []OffsetSkipsWindow
<1>1. TimeInv => OffsetSkipsWindow
  BY WindowFollows
<1> QED
  BY <1>1, TimeInvHolds, PTL

\* Of a capture in order, what the loop slept in all follows the time from the
\* last record skipped to the last one replayed, at the speed asked for, less
\* than a microsecond lost for each record: the divisions do not drift.
THEOREM PacingCorrect ==
  ASSUME ClockFits
  PROVE  Spec => []PacingFollowsCapture
<1>1. TimeInv => PacingFollowsCapture
  BY PacingFollows
<1> QED
  BY <1>1, TimeInvHolds, PTL

\* With --skip-gaps the ranges the gap observer lists are the numbers passed
\* over, each once, also when the messages turn up later or a record is cut.
THEOREM GapListExact ==
  Spec => []GapRangesAreExact
<1>1. ReplayInv => GapRangesAreExact
  BY SkipRangesFollow
<1> QED
  BY <1>1, ReplayInvHolds, PTL

\* Without --skip-gaps no number behind a cursor was passed over, and the list,
\* which repeats a gap at every datagram beyond it, moves only over numbers that
\* were replayed.
THEOREM StallExact ==
  Spec => []StallPassesOverNothing
<1>1. ReplayInv => StallPassesOverNothing
  BY StallRangesFollow
<1> QED
  BY <1>1, ReplayInvHolds, PTL

\* Every message framed in a capture decodes to itself, and cut anywhere to
\* nothing.
THEOREM FramesCorrect ==
  Spec => []FramesRoundTrip
<1>1. AppliedInv => FramesRoundTrip
  BY FramesFollow DEF AppliedInv
<1> QED
  BY <1>1, AppliedInvHolds, PTL

\* The book at any point of the replay is the one that applying the messages
\* sent gives, of those records only that arrived whole.
THEOREM BookCorrect ==
  Spec => []WhatIsAppliedWasSent
<1>1. AppliedInv => WhatIsAppliedWasSent
  BY AppliedFollows
<1> QED
  BY <1>1, AppliedInvHolds, PTL
=============================================================================

------------------------- MODULE HlvPictureProof -------------------------
(***************************************************************************)
(* The decoder of HlvPicture for every picture and whatever arrives of its *)
(* packet (ValidDecoded), and the round trip of every picture that arrives *)
(* as it was written (PictureRoundTrip).  In this order: arithmetic and    *)
(* recursive definitions; what a reader may return; the inductive          *)
(* invariant and ValidDecoded; a reader in front of a code, for every code *)
(* from bits up to a macroblock; the way of the encoder through a picture, *)
(* and the decoder on that way.                                            *)
(***************************************************************************)
EXTENDS HlvPicture, SequenceTheorems, WellFoundedInduction, TLAPS

-----------------------------------------------------------------------------
(* Recursive definitions.                                                  *)

LEMMA Induct ==
  ASSUME NEW T, 0 \in T, \A n \in Nat : n \in T => n + 1 \in T
  PROVE  Nat \subseteq T
<1> DEFINE R == {ss \in Nat \X Nat : ss[1] < ss[2]}
<1>1. IsWellFoundedOn(R, Nat)  BY NatLessThanWellFounded DEF OpToRel
<1> DEFINE M == Nat \ T
<1>2. SUFFICES ASSUME M # {} PROVE FALSE  OBVIOUS
<1>3. PICK x \in M : \A y \in M : ~ (<<y, x>> \in R)
  <2> HIDE DEF R
  <2>1. M \in SUBSET Nat  OBVIOUS
  <2> HIDE DEF M
  <2>2. QED  BY <1>1, <1>2, <2>1, WFMin
<1>4. x \in Nat /\ x # 0 /\ x \notin T /\ x - 1 \in Nat /\ x - 1 < x
  OBVIOUS
<1>5. <<x - 1, x>> \in R  BY <1>4
<1>6. x - 1 \in T  BY <1>3, <1>4, <1>5
<1>7. (x - 1) + 1 = x  BY <1>4
<1>8. QED  BY <1>4, <1>6, <1>7

\* What holds at 0 and passes from i - 1 to i holds up to n.
LEMMA UpTo ==
  ASSUME NEW n \in Nat, NEW T, 0 \in T,
         \A i \in 1..n : i - 1 \in T => i \in T
  PROVE  0..n \subseteq T
<1> DEFINE U == {k \in Nat : k <= n => k \in T}
<1>1. 0 \in U  OBVIOUS
<1>2. ASSUME NEW k \in Nat, k \in U PROVE k + 1 \in U
  <2>1. CASE k + 1 <= n
    <3>1. k \in T /\ k + 1 \in 1..n /\ (k + 1) - 1 = k  BY <1>2, <2>1
    <3>2. QED  BY <3>1
  <2>2. CASE k + 1 > n  BY <2>2
  <2>3. QED  BY <2>1, <2>2
<1> HIDE DEF U
<1>3. Nat \subseteq U  BY <1>1, <1>2, Induct
<1>4. QED  BY <1>3 DEF U

\* Steps from D[0] through D[1], D[2] ... to D[n], and a function on 0..n
\* that takes them.
Steps(step, n, D) == \A i \in 1..n : step[i] \in [D[i - 1] -> D[i]]
Takes(f, n, base, step) ==
  f = [i \in 0..n |-> IF i = 0 THEN base ELSE step[i][f[i - 1]]]
Within(f, n, D) == \A i \in 0..n : f[i] \in D[i]

LEMMA Recursion ==
  ASSUME NEW n \in Nat, NEW D, NEW base, NEW step, base \in D[0],
         Steps(step, n, D)
  PROVE  \E f : Takes(f, n, base, step) /\ Within(f, n, D)
<1>0. \A i \in 1..n : step[i] \in [D[i - 1] -> D[i]]
  BY DEF Steps
<1> DEFINE Good(f, k) ==
             /\ f = [i \in 0..k |-> IF i = 0 THEN base ELSE step[i][f[i - 1]]]
             /\ \A i \in 0..k : f[i] \in D[i]
           T == {k \in Nat : \E f : Good(f, k)}
<1>1. 0 \in T
  <2> DEFINE z == [i \in 0..0 |-> base]
  <2>1. Good(z, 0)  OBVIOUS
  <2>2. QED  BY <2>1
<1>2. ASSUME NEW k \in 1..n, k - 1 \in T PROVE k \in T
  <2>1. PICK f : Good(f, k - 1)  BY <1>2
  <2> DEFINE g == [i \in 0..k |-> IF i = k THEN step[k][f[k - 1]] ELSE f[i]]
  <2>2. ASSUME NEW i \in 0..k
        PROVE  /\ g[i] = IF i = 0 THEN base ELSE step[i][g[i - 1]]
               /\ g[i] \in D[i]
    <3>1. CASE i = k
      <4>1. g[i] = step[k][f[k - 1]] /\ g[i - 1] = f[k - 1] /\ i # 0
        BY <3>1
      <4>2. f[k - 1] \in D[k - 1] /\ step[k] \in [D[k - 1] -> D[k]]
        BY <1>0, <2>1
      <4>3. QED  BY <3>1, <4>1, <4>2
    <3>2. CASE i \in 0..(k - 1)
      <4>1. g[i] = f[i] /\ (i # 0 => g[i - 1] = f[i - 1])  BY <3>2
      <4>2. /\ f[i] = IF i = 0 THEN base ELSE step[i][f[i - 1]]
            /\ f[i] \in D[i]
        BY <2>1, <3>2
      <4>3. QED  BY <4>1, <4>2
    <3>3. i = k \/ i \in 0..(k - 1)  OBVIOUS
    <3>4. QED  BY <3>1, <3>2, <3>3
  <2>3. g = [i \in 0..k |-> g[i]]  OBVIOUS
  <2> HIDE DEF g
  <2>4. Good(g, k)
    <3>1. g = [i \in 0..k |-> IF i = 0 THEN base ELSE step[i][g[i - 1]]]
      BY <2>2, <2>3
    <3>2. QED  BY <2>2, <3>1
  <2>5. k \in Nat  OBVIOUS
  <2> HIDE DEF Good
  <2>6. QED  BY <2>4, <2>5
<1> HIDE DEF T
<1>3. 0..n \subseteq T  BY <1>1, <1>2, UpTo
<1>4. n \in T  BY <1>3
<1>5. QED  BY <1>4 DEF T, Takes, Within

\* Two functions that start alike and keep alike are alike.
Parallel(f, g, n) ==
  f[0] = g[0] /\ \A i \in 1..n : f[i - 1] = g[i - 1] => f[i] = g[i]

LEMMA Alike ==
  ASSUME NEW n \in Nat, NEW f, NEW g, Parallel(f, g, n)
  PROVE  f[n] = g[n]
<1> DEFINE T == {i \in 0..n : f[i] = g[i]}
<1>1. 0 \in T  BY DEF Parallel
<1>2. \A i \in 1..n : i - 1 \in T => i \in T  BY DEF Parallel
<1> HIDE DEF T
<1>3. 0..n \subseteq T  BY <1>1, <1>2, UpTo
<1>4. QED  BY <1>3 DEF T

\* hlv1_bw_put_se and hlv1_br_get_se: the map onto the naturals and the way
\* back, whatever the sign.
THEOREM SignedRoundTrip ==
  ASSUME NEW v \in Int
  PROVE  Mapped(v) \in Nat /\ Unmapped(Mapped(v)) = v
<1>1. CASE v <= 0
  BY <1>1 DEF Mapped, Unmapped
<1>2. CASE v > 0
  <2>1. Mapped(v) = 2 * v - 1 /\ Mapped(v) % 2 = 1
    BY <1>2 DEF Mapped
  <2>2. QED BY <1>2, <2>1 DEF Unmapped
<1>3. QED BY <1>1, <1>2

\* No two numbers share a code number.
THEOREM SignedOneToOne ==
  ASSUME NEW v \in Int, NEW w \in Int, Mapped(v) = Mapped(w)
  PROVE  v = w
BY SignedRoundTrip

LEMMA HalfOfEven ==
  ASSUME NEW v \in Int, v % 2 = 0
  PROVE  Half(v) \in Int /\ 2 * Half(v) = v
<1>1. CASE v >= 0
  BY <1>1 DEF Half
<1>2. CASE v < 0
  <2>1. (-v) % 2 = 0 /\ -v \in Nat
    BY <1>2
  <2>2. 2 * ((-v) \div 2) = -v
    BY <2>1
  <2>3. QED BY <1>2, <2>2 DEF Half
<1>3. QED BY <1>1, <1>2

\* put_motion_vector halves a vector only when both parts are even, so what
\* get_motion_vector doubles again is the same vector: for every vector and
\* every predictor it was coded against, negative ones included.
THEOREM VectorUnits ==
  ASSUME NEW mv \in Int \X Int, ~Fractional(mv)
  PROVE  <<2 * Half(mv[1]), 2 * Half(mv[2])>> = mv
<1>1. mv[1] \in Int /\ mv[2] \in Int /\ mv = <<mv[1], mv[2]>>
  OBVIOUS
<1>2. mv[1] % 2 = 0 /\ mv[2] % 2 = 0
  BY <1>1 DEF Fractional
<1>3. QED BY <1>1, <1>2, HalfOfEven

\* put_level_v9 splits a magnitude above one into a quotient and a remainder
\* of two bits; get_level_v9 adds them up to the same magnitude, and the
\* escape starts where the quotient would need a seventh one.
THEOREM LevelSplit ==
  ASSUME NEW v \in Int, Abs(v) > 1
  PROVE  /\ 2 + 4 * Quotient(v) + ((Abs(v) - 2) % 4) = Abs(v)
         /\ (Abs(v) - 2) % 4 \in 0..3
         /\ Quotient(v) >= 7 <=> Abs(v) >= 30
<1>1. Abs(v) \in Nat
  BY DEF Abs
<1>2. QED BY <1>1 DEF Quotient

-----------------------------------------------------------------------------
(* The readers of HlvBits, whatever the bits: a reader stays one, and what *)
(* it returns without an error is a number where one is expected.          *)

Bit == {0, 1}

Readers(S) ==
  {r \in [bits : Seq(Bit), at : Nat, v : S \cup Int, ok : BOOLEAN] :
     r.v \in IF r.ok THEN S ELSE Int}

LEMMA FailedReads ==
  ASSUME NEW S, NEW T, NEW r \in Readers(S)
  PROVE  Failed(r) \in Readers(T) /\ ~Failed(r).ok
BY DEF Readers, Failed

LEMMA ReturnReads ==
  ASSUME NEW S, NEW T, NEW r \in Readers(S), NEW v, v \in T,
         r.ok \/ v \in Int
  PROVE  /\ Returns(r, v) \in Readers(T)
         /\ Returns(r, v).v = v /\ Returns(r, v).ok = r.ok
BY DEF Readers, Returns

\* A reader that failed is one of what it should have read.
LEMMA NotRead ==
  ASSUME NEW S, NEW T, NEW r \in Readers(S), ~r.ok
  PROVE  r \in Readers(T)
BY DEF Readers

LEMMA WasRead ==
  ASSUME NEW S, NEW r \in Readers(S), r.ok
  PROVE  r.v \in S
BY DEF Readers

LEMMA ReadMore ==
  ASSUME NEW S, NEW T, NEW r \in Readers(S), S \subseteq T
  PROVE  r \in Readers(T)
BY DEF Readers

LEMMA ValueRead ==
  ASSUME NEW b \in Seq(Bit)
  PROVE  Value(b) \in Nat
<1> DEFINE n == Len(b)
           D == [i \in 0..n |-> Nat]
           step == [i \in 1..n |-> [x \in Nat |-> 2 * x + b[i]]]
           Is(f) == f = [i \in 0..n |-> IF i = 0 THEN 0
                                        ELSE 2 * f[i - 1] + b[i]]
           c == CHOOSE f : Is(f)
<1>0. n \in Nat  OBVIOUS
<1>1. \A i \in 1..n : b[i] \in Nat
  BY DEF Bit
<1>2. Steps(step, n, D)
  BY <1>0, <1>1 DEF Steps
<1>3. 0 \in D[0]  BY <1>0
<1> HIDE DEF n
<1>4. PICK f : Takes(f, n, 0, step) /\ Within(f, n, D)
  <2> HIDE DEF D, step
  <2>1. QED  BY <1>0, <1>2, <1>3, Recursion
<1>5. \A i \in 0..n : f[i] = IF i = 0 THEN 0 ELSE 2 * f[i - 1] + b[i]
  <2>1. ASSUME NEW i \in 1..n PROVE f[i] = 2 * f[i - 1] + b[i]
    <3>1. i - 1 \in 0..n /\ i \in 0..n /\ i # 0  BY <1>0
    <3>2. f[i] = step[i][f[i - 1]]  BY <1>4, <3>1 DEF Takes
    <3>3. f[i - 1] \in Nat  BY <1>4, <3>1 DEF Within
    <3>4. QED  BY <3>2, <3>3
  <2>2. f[0] = 0  BY <1>0, <1>4 DEF Takes
  <2>3. QED  BY <1>1, <2>1, <2>2
<1>6. f = [i \in 0..n |-> f[i]]  BY <1>4 DEF Takes
<1>7. Is(f)  BY <1>5, <1>6
<1>8. Is(c)  BY <1>7
<1>9. Parallel(c, f, n)
  <2> HIDE DEF c
  <2>1. /\ c = [i \in 0..n |-> IF i = 0 THEN 0 ELSE 2 * c[i - 1] + b[i]]
        /\ f = [i \in 0..n |-> IF i = 0 THEN 0 ELSE 2 * f[i - 1] + b[i]]
    BY <1>7, <1>8
  <2>2. QED  BY <1>0, <2>1 DEF Parallel
<1>10. Value(b) = c[n]  BY DEF Value, n
<1> HIDE DEF c
<1>11. c[n] = f[n] /\ f[n] \in Nat  BY <1>0, <1>4, <1>9, Alike DEF Within
<1>12. QED  BY <1>10, <1>11

LEMMA GetReads ==
  ASSUME NEW S, NEW r \in Readers(S), NEW n \in Nat
  PROVE  /\ Get(r, n) \in Readers(Nat)
         /\ Get(r, n).ok => r.ok
<1>1. CASE n > Left(r)
  BY <1>1, FailedReads DEF Get
<1>2. CASE ~(n > Left(r))
  <2> DEFINE s == SubSeq(r.bits, r.at + 1, r.at + n)
  <2>1. r.bits \in Seq(Bit) /\ r.at \in Nat /\ r.ok \in BOOLEAN
    BY DEF Readers
  <2>2. s \in Seq(Bit)
    BY <1>2, <2>1 DEF Left
  <2>3. Value(s) \in Nat
    BY <2>2, ValueRead
  <2> HIDE DEF s
  <2>4. Get(r, n) = [r EXCEPT !.at = @ + n, !.v = Value(s)]
    BY <1>2 DEF Get, s
  <2>5. r \in [bits : Seq(Bit), at : Nat, v : S \cup Int, ok : BOOLEAN]
    BY DEF Readers
  <2>6. Get(r, n) = [bits |-> r.bits, at |-> r.at + n, v |-> Value(s),
                     ok |-> r.ok]
    BY <2>4, <2>5
  <2>7. QED  BY <2>1, <2>3, <2>6 DEF Readers
<1>3. QED  BY <1>1, <1>2 DEF Left, Readers

\* Powers of two as wide as a number of a bit stream; the prover evaluates
\* them one by one.
LEMMA Powers ==
  ASSUME NEW n \in 0..32
  PROVE  2^n \in Nat \ {0} /\ 2^(n + 1) = 2 * 2^n
<1>0. CASE n = 0  BY <1>0
<1>1. CASE n = 1  BY <1>1
<1>2. CASE n = 2  BY <1>2
<1>3. CASE n = 3  BY <1>3
<1>4. CASE n = 4  BY <1>4
<1>5. CASE n = 5  BY <1>5
<1>6. CASE n = 6  BY <1>6
<1>7. CASE n = 7  BY <1>7
<1>8. CASE n = 8  BY <1>8
<1>9. CASE n = 9  BY <1>9
<1>10. CASE n = 10  BY <1>10
<1>11. CASE n = 11  BY <1>11
<1>12. CASE n = 12  BY <1>12
<1>13. CASE n = 13  BY <1>13
<1>14. CASE n = 14  BY <1>14
<1>15. CASE n = 15  BY <1>15
<1>16. CASE n = 16  BY <1>16
<1>17. CASE n = 17  BY <1>17
<1>18. CASE n = 18  BY <1>18
<1>19. CASE n = 19  BY <1>19
<1>20. CASE n = 20  BY <1>20
<1>21. CASE n = 21  BY <1>21
<1>22. CASE n = 22  BY <1>22
<1>23. CASE n = 23  BY <1>23
<1>24. CASE n = 24  BY <1>24
<1>25. CASE n = 25  BY <1>25
<1>26. CASE n = 26  BY <1>26
<1>27. CASE n = 27  BY <1>27
<1>28. CASE n = 28  BY <1>28
<1>29. CASE n = 29  BY <1>29
<1>30. CASE n = 30  BY <1>30
<1>31. CASE n = 31  BY <1>31
<1>32. CASE n = 32  BY <1>32
<1>33. \/ n = 0 \/ n = 1 \/ n = 2 \/ n = 3 \/ n = 4 \/ n = 5 \/ n = 6
       \/ n = 7 \/ n = 8 \/ n = 9 \/ n = 10 \/ n = 11 \/ n = 12 \/ n = 13
       \/ n = 14 \/ n = 15 \/ n = 16 \/ n = 17 \/ n = 18 \/ n = 19 \/ n = 20
       \/ n = 21 \/ n = 22 \/ n = 23 \/ n = 24 \/ n = 25 \/ n = 26 \/ n = 27
       \/ n = 28 \/ n = 29 \/ n = 30 \/ n = 31 \/ n = 32
  OBVIOUS
<1>34. QED
  BY <1>0, <1>1, <1>2, <1>3, <1>4, <1>5, <1>6, <1>7, <1>8,
     <1>9, <1>10, <1>11, <1>12, <1>13, <1>14, <1>15, <1>16, <1>17,
     <1>18, <1>19, <1>20, <1>21, <1>22, <1>23, <1>24, <1>25, <1>26,
     <1>27, <1>28, <1>29, <1>30, <1>31, <1>32, <1>33

LEMMA Smallest ==
  ASSUME NEW S, S \in SUBSET Nat, S # {}
  PROVE  \E x \in S : \A y \in S : x <= y
<1> DEFINE R == {ss \in Nat \X Nat : ss[1] < ss[2]}
<1>1. IsWellFoundedOn(R, Nat)  BY NatLessThanWellFounded DEF OpToRel
<1>2. PICK x \in S : \A y \in S : ~ (<<y, x>> \in R)
  <2> HIDE DEF R
  <2>1. QED  BY <1>1, WFMin
<1>3. ASSUME NEW y \in S PROVE x <= y
  <2>1. ~(<<y, x>> \in R) /\ x \in Nat /\ y \in Nat  BY <1>2
  <2>2. QED  BY <2>1
<1>4. QED  BY <1>3

LEMMA SuffixReads ==
  ASSUME NEW S, NEW r \in Readers(S), NEW n \in Nat
  PROVE  GetSuffix(r, n) \in Readers(Nat)
<1>1. CASE n > 31
  BY <1>1, FailedReads DEF GetSuffix
<1>2. CASE n <= 31
  <2> DEFINE s == Get(Get(r, n + 1), n)
             v == 2^n + s.v - 1
  <2>1. s \in Readers(Nat)
    BY GetReads
  <2>2. GetSuffix(r, n) = IF s.ok THEN Returns(s, v) ELSE s
    BY <1>2 DEF GetSuffix, Then
  <2>3. ASSUME s.ok PROVE v \in Nat
    <3>0. n \in 0..32  BY <1>2
    <3>1. 2^n \in Nat \ {0}  BY <3>0, Powers, Zenon
    <3>2. s.v \in Nat  BY <2>1, <2>3, WasRead
    <3> HIDE DEF s
    <3>3. QED  BY <3>1, <3>2
  <2> HIDE DEF s, v
  <2>4. QED  BY <2>1, <2>2, <2>3, ReturnReads, NotRead
<1>3. QED  BY <1>1, <1>2

LEMMA UEReads ==
  ASSUME NEW S, NEW r \in Readers(S)
  PROVE  GetUE(r) \in Readers(Nat)
<1> DEFINE ones == {k \in 0..(Left(r) - 1) : r.bits[r.at + k + 1] = 1}
<1>1. ones \in SUBSET Nat  OBVIOUS
<1>2. GetUE(r) = IF ones = {} THEN Failed(r) ELSE GetSuffix(r, Min(ones))
  BY DEF GetUE
<1> HIDE DEF ones
<1>3. CASE ones = {}
  BY <1>2, <1>3, FailedReads
<1>4. CASE ones # {}
  <2>1. Min(ones) \in ones
    BY <1>1, <1>4, Smallest DEF Min
  <2>2. QED  BY <1>1, <1>2, <1>4, <2>1, SuffixReads
<1>5. QED  BY <1>3, <1>4

LEMMA SEReads ==
  ASSUME NEW S, NEW r \in Readers(S)
  PROVE  GetSE(r) \in Readers(Int)
<1> DEFINE u == GetUE(r)
<1>1. u \in Readers(Nat)  BY UEReads
<1>2. GetSE(r) = IF u.ok THEN Returns(u, Unmapped(u.v)) ELSE u
  BY DEF GetSE, Then
<1> HIDE DEF u
<1>3. u.ok => Unmapped(u.v) \in Int
  BY <1>1, WasRead DEF Unmapped
<1>4. QED  BY <1>1, <1>2, <1>3, ReturnReads, NotRead

LEMMA SignedReads ==
  ASSUME NEW S, NEW r \in Readers(S), NEW m \in Int
  PROVE  Signed(r, m) \in Readers(Int)
<1> DEFINE s == Get(r, 1)
           v == IF s.v = 1 THEN -m ELSE m
<1>1. s \in Readers(Nat)  BY GetReads
<1>2. Signed(r, m) = IF s.ok THEN Returns(s, v) ELSE s
  BY DEF Signed, Then
<1>3. v \in Int  OBVIOUS
<1> HIDE DEF s, v
<1>4. QED  BY <1>1, <1>2, <1>3, ReturnReads, NotRead

LEMMA RemainderReads ==
  ASSUME NEW S, NEW r \in Readers(S), NEW q \in Int
  PROVE  GetRemainder(r, q) \in Readers(Int)
<1> DEFINE rr == Get(r, 2)
<1>1. rr \in Readers(Nat)  BY GetReads
<1>2. GetRemainder(r, q) = IF rr.ok THEN Signed(rr, 2 + 4 * q + rr.v) ELSE rr
  BY DEF GetRemainder, Then
<1> HIDE DEF rr
<1>3. rr.ok => 2 + 4 * q + rr.v \in Int
  BY <1>1, WasRead
<1>4. QED  BY <1>1, <1>2, <1>3, SignedReads, NotRead

LEMMA LookAheadReads ==
  ASSUME NEW S, NEW r \in Readers(S), NEW k \in Nat
  PROVE  LookAhead(r, k) \in Readers(Int)
<1>1. Get(r, 1) \in Readers(Nat) /\ Get(r, k + 1) \in Readers(Nat)
  BY GetReads
<1>2. k - 1 \in Int  OBVIOUS
<1>3. QED  BY <1>1, <1>2, SignedReads, RemainderReads DEF LookAhead

LEMMA OnesCounted ==
  ASSUME NEW b \in Seq(Bit)
  PROVE  Ones(b) \in 0..Len(b)
<1> DEFINE S == {k \in 0..Len(b) : k = Len(b) \/ b[k + 1] = 0}
<1>1. Len(b) \in S /\ S \in SUBSET Nat  OBVIOUS
<1>2. PICK k \in S : \A y \in S : k <= y
  <2> HIDE DEF S
  <2>1. QED  BY <1>1, Smallest
<1>3. k \in 0..Len(b) /\ (k < Len(b) => b[k + 1] = 0)
  BY <1>2
<1>4. ASSUME NEW i \in 1..k PROVE b[i] = 1
  <2>1. i - 1 \in 0..Len(b) /\ ~(k <= i - 1)  BY <1>3
  <2>2. i - 1 \notin S  BY <1>2, <2>1
  <2>3. b[(i - 1) + 1] # 0  BY <2>1, <2>2
  <2>4. (i - 1) + 1 = i /\ i \in 1..Len(b)  BY <1>3
  <2>5. b[i] \in Bit  BY <2>4
  <2>6. QED  BY <2>3, <2>4, <2>5 DEF Bit
<1> HIDE DEF S
<1>5. QED  BY <1>3, <1>4 DEF Ones

\* One bit more of the quotient, unless it has ended.
LEMMA QuotientReads ==
  ASSUME NEW S, NEW r \in Readers(S)
  PROVE  GetQuotient(r) \in Readers(Int)
<1> DEFINE State == [reader : Readers(Nat) \cup {r}, count : Int,
                     more : BOOLEAN]
           E(p) == LET b == Get(p.reader, 1)
                   IN  IF ~p.more THEN p
                       ELSE [reader |-> b, count |-> p.count + b.v,
                             more |-> b.v = 1 /\ b.ok]
           base == [reader |-> r, count |-> 0, more |-> TRUE]
           D == [i \in 0..7 |-> State]
           step == [i \in 1..7 |-> [p \in State |-> E(p)]]
           Is(f) == f = [i \in 0..7 |-> IF i = 0 THEN base ELSE E(f[i - 1])]
           c == CHOOSE f : Is(f)
<1>0. 7 \in Nat  OBVIOUS
<1>1. ASSUME NEW p \in State PROVE E(p) \in State
  <2> DEFINE b == Get(p.reader, 1)
  <2>1. b \in Readers(Nat)  BY GetReads
  <2>2. b.v \in Int  BY <2>1 DEF Readers
  <2>3. (b.v = 1 /\ b.ok) \in BOOLEAN  OBVIOUS
  <2>4. E(p) = IF ~p.more THEN p
               ELSE [reader |-> b, count |-> p.count + b.v,
                     more |-> b.v = 1 /\ b.ok]
    OBVIOUS
  <2> HIDE DEF b, E
  <2>5. QED  BY <2>1, <2>2, <2>3, <2>4
<1> HIDE DEF E
<1>2. base \in D[0]  OBVIOUS
<1> HIDE DEF State, base
<1>3. Steps(step, 7, D)
  <2>1. ASSUME NEW i \in 1..7 PROVE step[i] \in [D[i - 1] -> D[i]]
    <3>1. step[i] = [p \in State |-> E(p)]  OBVIOUS
    <3>2. D[i - 1] = State /\ D[i] = State  OBVIOUS
    <3> HIDE DEF step, D
    <3>3. QED  BY <1>1, <3>1, <3>2
  <2> HIDE DEF step, D
  <2>2. QED  BY <2>1 DEF Steps
<1>4. PICK f : Takes(f, 7, base, step) /\ Within(f, 7, D)
  <2> HIDE DEF D, step
  <2>1. QED  BY <1>0, <1>2, <1>3, Recursion
<1>5. ASSUME NEW i \in 0..7
      PROVE  f[i] = IF i = 0 THEN base ELSE E(f[i - 1])
  <2>1. CASE i \in 1..7
    <3>1. i - 1 \in 0..7 /\ i \in 0..7 /\ i # 0  BY <2>1
    <3>2. f[i] = step[i][f[i - 1]]  BY <1>4, <3>1 DEF Takes
    <3>3. f[i - 1] \in State  BY <1>4, <3>1 DEF Within
    <3>4. QED  BY <2>1, <3>1, <3>2, <3>3
  <2>2. CASE i = 0  BY <1>4, <2>2 DEF Takes
  <2>3. QED  BY <2>1, <2>2
<1>6. f = [i \in 0..7 |-> f[i]]  BY <1>4 DEF Takes
<1>7. Is(f)  BY <1>5, <1>6
<1>8. Is(c)  BY <1>7
<1>9. Parallel(c, f, 7)
  <2> HIDE DEF c
  <2>1. /\ c = [i \in 0..7 |-> IF i = 0 THEN base ELSE E(c[i - 1])]
        /\ f = [i \in 0..7 |-> IF i = 0 THEN base ELSE E(f[i - 1])]
    BY <1>7, <1>8
  <2>2. QED  BY <2>1 DEF Parallel
<1>10. GetQuotient(r) = Returns(c[7].reader, c[7].count)
  BY DEF GetQuotient, E, base
<1> HIDE DEF c
<1>11. c[7] = f[7] /\ f[7] \in State  BY <1>0, <1>4, <1>9, Alike DEF Within
<1>12. c[7].reader \in Readers(Nat) \cup {r} /\ c[7].count \in Int
  BY <1>11 DEF State
<1>13. QED  BY <1>10, <1>12, ReturnReads

LEMMA BitByBitReads ==
  ASSUME NEW S, NEW r \in Readers(S)
  PROVE  BitByBit(r) \in Readers(Int)
<1> DEFINE first == Get(r, 1)
           quotient == GetQuotient(first)
           escape == GetUE(quotient)
<1>1. /\ first \in Readers(Nat)
      /\ quotient \in Readers(Int)
      /\ escape \in Readers(Nat)
  <2>1. first \in Readers(Nat)  BY GetReads
  <2> HIDE DEF first
  <2>2. quotient \in Readers(Int)  BY <2>1, QuotientReads
  <2> HIDE DEF quotient
  <2>3. escape \in Readers(Nat)  BY <2>2, UEReads
  <2>4. QED  BY <2>1, <2>2, <2>3
<1>2. BitByBit(r) =
        IF ~first.ok THEN first
        ELSE IF first.v = 0 THEN Signed(first, 1)
        ELSE IF ~quotient.ok THEN quotient
        ELSE IF quotient.v # 7 THEN GetRemainder(quotient, quotient.v)
        ELSE IF ~escape.ok THEN escape ELSE Signed(escape, 30 + escape.v)
  BY DEF BitByBit, Then
<1> HIDE DEF first, quotient, escape
<1>3. quotient.ok => quotient.v \in Int  BY <1>1, WasRead
<1>4. escape.ok => 30 + escape.v \in Int  BY <1>1, WasRead
<1>5. CASE first.ok /\ first.v = 0
  BY <1>1, <1>2, <1>5, SignedReads
<1>6. CASE quotient.ok /\ quotient.v # 7 /\ first.ok /\ first.v # 0
  BY <1>1, <1>2, <1>3, <1>6, RemainderReads
<1>7. CASE escape.ok /\ quotient.ok /\ quotient.v = 7 /\ first.ok /\ first.v # 0
  BY <1>1, <1>2, <1>4, <1>7, SignedReads
<1>8. QED  BY <1>1, <1>2, <1>5, <1>6, <1>7, NotRead

LEMMA LevelReads ==
  ASSUME NEW S, NEW r \in Readers(S)
  PROVE  GetLevelV9(r) \in Readers(Int)
<1> DEFINE s == SubSeq(r.bits, r.at + 1, r.at + 8)
<1>1. GetLevelV9(r) = IF Left(r) >= 8 /\ Ones(s) < 5
                      THEN LookAhead(r, Ones(s)) ELSE BitByBit(r)
  BY DEF GetLevelV9
<1>2. CASE Left(r) >= 8
  <2>1. r.bits \in Seq(Bit) /\ r.at \in Nat  BY DEF Readers
  <2>2. s \in Seq(Bit)  BY <1>2, <2>1 DEF Left
  <2> HIDE DEF s
  <2>3. Ones(s) \in Nat  BY <2>2, OnesCounted
  <2>4. QED  BY <1>1, <2>3, LookAheadReads, BitByBitReads
<1>3. CASE ~(Left(r) >= 8)
  BY <1>1, <1>3, BitByBitReads
<1>4. QED  BY <1>2, <1>3

\* A vector is two numbers.
LEMMA VectorReads ==
  ASSUME NEW S, NEW r \in Readers(S)
  PROVE  GetVector(r) \in Readers(Int \X Int)
<1> DEFINE fractional == Get(r, 1)
           x == GetSE(fractional)
           y == GetSE(x)
           v == IF fractional.v = 1 THEN <<x.v, y.v>>
                ELSE <<2 * x.v, 2 * y.v>>
<1>1. fractional \in Readers(Nat) /\ x \in Readers(Int) /\ y \in Readers(Int)
  <2>1. fractional \in Readers(Nat)  BY GetReads
  <2> HIDE DEF fractional
  <2>2. x \in Readers(Int)  BY <2>1, SEReads
  <2> HIDE DEF x
  <2>3. y \in Readers(Int)  BY <2>2, SEReads
  <2>4. QED  BY <2>1, <2>2, <2>3
<1>2. GetVector(r) = IF ~fractional.ok THEN fractional
                     ELSE IF ~x.ok THEN x
                     ELSE IF ~y.ok THEN y ELSE Returns(y, v)
  BY DEF GetVector, Then
<1> HIDE DEF fractional, x, y
<1>3. x.ok /\ y.ok => v \in Int \X Int
  <2>1. x.ok => x.v \in Int  BY <1>1, WasRead
  <2>2. y.ok => y.v \in Int  BY <1>1, WasRead
  <2>3. QED  BY <2>1, <2>2
<1> HIDE DEF v
<1>4. CASE fractional.ok /\ x.ok /\ y.ok
  BY <1>1, <1>2, <1>3, <1>4, ReturnReads
<1>5. QED  BY <1>1, <1>2, <1>4, NotRead

LEMMA AlignedReads ==
  ASSUME NEW S, NEW r \in Readers(S)
  PROVE  GetAligned(r) \in Readers(Nat)
<1> DEFINE n == (8 - (r.at % 8)) % 8
           p == Get(r, n)
<1>1. n \in Nat  BY DEF Readers
<1> HIDE DEF n
<1>2. p \in Readers(Nat)  BY <1>1, GetReads
<1>3. GetAligned(r) = IF p.ok THEN IF p.v # 0 THEN Failed(p) ELSE p ELSE p
  BY DEF GetAligned, Then, n
<1> HIDE DEF p
<1>4. QED  BY <1>2, <1>3, FailedReads

-----------------------------------------------------------------------------
(* Numbers, blocks and residuals.                                          *)

Tuples(T, n) == {s \in Seq(T) : Len(s) = n}

LEMMA AppendReads ==
  ASSUME NEW T, NEW i \in Nat \ {0}, NEW p \in Readers(Tuples(T, i - 1)),
         NEW x, p.ok => x \in Readers(T)
  PROVE  (IF p.ok THEN IF x.ok THEN Returns(x, Append(p.v, x.v)) ELSE x
          ELSE p) \in Readers(Tuples(T, i))
<1>1. CASE p.ok /\ x.ok
  <2>1. p.v \in Seq(T) /\ Len(p.v) = i - 1 /\ x.v \in T
    BY <1>1, WasRead DEF Tuples
  <2>2. Append(p.v, x.v) \in Tuples(T, i)
    BY <2>1 DEF Tuples
  <2>3. QED  BY <1>1, <2>2, ReturnReads
<1>2. QED  BY <1>1, NotRead

LEMMA NothingRead ==
  ASSUME NEW S, NEW T, NEW r \in Readers(S), r.ok
  PROVE  Returns(r, <<>>) \in Readers(Tuples(T, 0))
<1>1. <<>> \in Tuples(T, 0)  BY DEF Tuples
<1>2. QED  BY <1>1, ReturnReads

LEMMA NumbersRead ==
  ASSUME NEW S, NEW r \in Readers(S), r.ok, NEW n \in Nat, NEW width \in Nat
  PROVE  GetNumbers(r, n, width) \in Readers(Tuples(Nat, n))
<1> DEFINE Item(a, i) == Get(a, width)
           E(p, i) == IF p.ok THEN IF Item(p, i).ok
                                   THEN Returns(Item(p, i),
                                          Append(p.v, Item(p, i).v))
                                   ELSE Item(p, i)
                      ELSE p
           base == Returns(r, <<>>)
           D == [i \in 0..n |-> Readers(Tuples(Nat, i))]
           step == [i \in 1..n |-> [p \in D[i - 1] |-> E(p, i)]]
           Is(f) == f = [i \in 0..n |-> IF i = 0 THEN base
                                        ELSE E(f[i - 1], i)]
           c == CHOOSE f : Is(f)
<1>1. ASSUME NEW i \in 1..n, NEW p \in D[i - 1]
      PROVE  E(p, i) \in D[i]
  <2>1. p \in Readers(Tuples(Nat, i - 1)) /\ i - 1 \in 0..n
    OBVIOUS
  <2> DEFINE x == Item(p, i)
  <2>2. p.ok => x \in Readers(Nat)
    BY <2>1, GetReads
  <2>3. E(p, i) = IF p.ok THEN IF x.ok THEN Returns(x, Append(p.v, x.v))
                               ELSE x
                  ELSE p
    OBVIOUS
  <2> HIDE DEF x, E
  <2>4. E(p, i) \in Readers(Tuples(Nat, i))
    BY <2>1, <2>2, <2>3, AppendReads
  <2>5. QED  BY <2>4
<1>2. base \in D[0]
  BY NothingRead
<1>3. GetNumbers(r, n, width) = c[n]
  BY DEF GetNumbers, GetEach, Then
<1> HIDE DEF E, base, Item
<1>4. Steps(step, n, D)
  BY <1>1 DEF Steps
<1>5. PICK f : Takes(f, n, base, step) /\ Within(f, n, D)
  <2> HIDE DEF D, step
  <2>1. QED  BY <1>2, <1>4, Recursion
<1>6. ASSUME NEW i \in 0..n
      PROVE  f[i] = IF i = 0 THEN base ELSE E(f[i - 1], i)
  <2>1. CASE i \in 1..n
    <3>1. i - 1 \in 0..n /\ i \in 0..n /\ i # 0  BY <2>1
    <3>2. f[i] = step[i][f[i - 1]]  BY <1>5, <3>1 DEF Takes
    <3>3. f[i - 1] \in D[i - 1]  BY <1>5, <3>1 DEF Within
    <3> HIDE DEF D
    <3>4. QED  BY <2>1, <3>1, <3>2, <3>3
  <2>2. CASE i = 0  BY <1>5, <2>2 DEF Takes
  <2>3. QED  BY <2>1, <2>2
<1>7. f = [i \in 0..n |-> f[i]]  BY <1>5 DEF Takes
<1>8. Is(f)  BY <1>6, <1>7
<1>9. Is(c)  BY <1>8
<1>10. Parallel(c, f, n)
  <2> HIDE DEF c
  <2>1. /\ c = [i \in 0..n |-> IF i = 0 THEN base ELSE E(c[i - 1], i)]
        /\ f = [i \in 0..n |-> IF i = 0 THEN base ELSE E(f[i - 1], i)]
    BY <1>8, <1>9
  <2>2. QED  BY <2>1 DEF Parallel
<1> HIDE DEF c
<1>11. c[n] = f[n] /\ f[n] \in D[n]  BY <1>5, <1>10, Alike DEF Within
<1>12. QED  BY <1>3, <1>11

LEMMA LevelKindReads ==
  ASSUME NEW S, NEW r \in Readers(S), NEW coeff_mode
  PROVE  GetLevel(r, coeff_mode) \in Readers(Int)
BY SEReads, LevelReads DEF GetLevel

Levels == [1..Scan -> Int]

LEMMA ZeroLevels == ZeroBlock \in Levels
BY DEF ZeroBlock, Levels

LEMMA RunLevelReads ==
  ASSUME NEW r \in Readers([pos : Nat, block : Levels]), r.ok, NEW coeff_mode
  PROVE  GetRunLevel(r, coeff_mode) \in Readers([pos : Nat, block : Levels])
<1> DEFINE T == [pos : Nat, block : Levels]
           run == GetUE(r)
           pos == r.v.pos + run.v + 1
           x == GetLevel(run, coeff_mode)
           v == [pos |-> pos, block |-> [r.v.block EXCEPT ![pos] = x.v]]
<1>0. SUFFICES GetRunLevel(r, coeff_mode) \in Readers(T)
  OBVIOUS
<1>1. run \in Readers(Nat)  BY UEReads
<1>2. r.v \in T  BY WasRead
<1>3. GetRunLevel(r, coeff_mode) =
        IF ~run.ok THEN run
        ELSE IF pos > Scan THEN Failed(run)
        ELSE IF x.ok THEN Returns(x, v) ELSE x
  BY DEF GetRunLevel, StoreLevel, Then
<1> HIDE DEF run
<1>4. x \in Readers(Int)  BY <1>1, LevelKindReads
<1> HIDE DEF x
<1>5. ASSUME run.ok, x.ok, ~(pos > Scan) PROVE v \in T
  <2>1. run.v \in Nat  BY <1>1, <1>5, WasRead
  <2>2. x.v \in Int  BY <1>4, <1>5, WasRead
  <2>3. Scan \in Nat  BY PictureAssumption
  <2>4. pos \in Nat /\ pos \in 1..Scan  BY <1>2, <1>5, <2>1, <2>3
  <2> HIDE DEF pos
  <2>5. [r.v.block EXCEPT ![pos] = x.v] \in Levels
    BY <1>2, <2>2, <2>4 DEF Levels
  <2>6. QED  BY <2>4, <2>5
<1> HIDE DEF v, pos, T
<1>6. CASE run.ok /\ ~(pos > Scan) /\ x.ok
  <2>1. v \in T  BY <1>5, <1>6
  <2>2. Returns(x, v) \in Readers(T)  BY <1>4, <1>6, <2>1, ReturnReads
  <2>3. QED  BY <1>3, <1>6, <2>2
<1>7. CASE run.ok /\ pos > Scan
  BY <1>1, <1>3, <1>7, FailedReads
<1>8. CASE ~run.ok
  BY <1>1, <1>3, <1>8, NotRead
<1>9. CASE run.ok /\ ~(pos > Scan) /\ ~x.ok
  BY <1>3, <1>4, <1>9, NotRead
<1>10. QED  BY <1>6, <1>7, <1>8, <1>9

LEMMA LevelsRead ==
  ASSUME NEW S, NEW r \in Readers(S), r.ok, NEW n \in Nat, NEW coeff_mode
  PROVE  GetLevels(r, n, coeff_mode) \in Readers(Levels)
<1> DEFINE T == [pos : Nat, block : Levels]
           E(p) == IF p.ok THEN GetRunLevel(p, coeff_mode) ELSE p
           base == Returns(r, [pos |-> 0, block |-> ZeroBlock])
           D == [i \in 0..n |-> Readers(T)]
           step == [i \in 1..n |-> [p \in D[i - 1] |-> E(p)]]
           Is(f) == f = [i \in 0..n |-> IF i = 0 THEN base ELSE E(f[i - 1])]
           c == CHOOSE f : Is(f)
<1>1. ASSUME NEW i \in 1..n, NEW p \in D[i - 1]
      PROVE  E(p) \in D[i]
  <2>1. p \in Readers(T)  OBVIOUS
  <2>2. E(p) \in Readers(T)  BY <2>1, RunLevelReads
  <2> HIDE DEF E, T
  <2>3. QED  BY <2>2
<1>2. base \in D[0]
  <2>1. [pos |-> 0, block |-> ZeroBlock] \in T  BY ZeroLevels
  <2> HIDE DEF T
  <2>2. base \in Readers(T)  BY <2>1, ReturnReads
  <2>3. QED  BY <2>2
<1>3. GetLevels(r, n, coeff_mode) =
        IF c[n].ok THEN Returns(c[n], c[n].v.block) ELSE c[n]
  BY DEF GetLevels, Then
<1> HIDE DEF E, base, T
<1>4. Steps(step, n, D)
  BY <1>1 DEF Steps
<1>5. PICK f : Takes(f, n, base, step) /\ Within(f, n, D)
  <2> HIDE DEF D, step
  <2>1. QED  BY <1>2, <1>4, Recursion
<1>6. ASSUME NEW i \in 0..n
      PROVE  f[i] = IF i = 0 THEN base ELSE E(f[i - 1])
  <2>1. CASE i \in 1..n
    <3>1. i - 1 \in 0..n /\ i \in 0..n /\ i # 0  BY <2>1
    <3>2. f[i] = step[i][f[i - 1]]  BY <1>5, <3>1 DEF Takes
    <3>3. f[i - 1] \in D[i - 1]  BY <1>5, <3>1 DEF Within
    <3> HIDE DEF D
    <3>4. QED  BY <2>1, <3>1, <3>2, <3>3
  <2>2. CASE i = 0  BY <1>5, <2>2 DEF Takes
  <2>3. QED  BY <2>1, <2>2
<1>7. f = [i \in 0..n |-> f[i]]  BY <1>5 DEF Takes
<1>8. Is(f)  BY <1>6, <1>7
<1>9. Is(c)  BY <1>8
<1>10. Parallel(c, f, n)
  <2> HIDE DEF c
  <2>1. /\ c = [i \in 0..n |-> IF i = 0 THEN base ELSE E(c[i - 1])]
        /\ f = [i \in 0..n |-> IF i = 0 THEN base ELSE E(f[i - 1])]
    BY <1>8, <1>9
  <2>2. QED  BY <2>1 DEF Parallel
<1> HIDE DEF c
<1>11. c[n] = f[n] /\ f[n] \in D[n]  BY <1>5, <1>10, Alike DEF Within
<1>12. c[n] \in Readers(T)  BY <1>11
<1>13. c[n].ok => c[n].v.block \in Levels  BY <1>12, WasRead DEF T
<1>14. QED  BY <1>3, <1>12, <1>13, ReturnReads, NotRead

LEMMA CountedReads ==
  ASSUME NEW S, NEW r \in Readers(S), NEW coeff_mode
  PROVE  GetCounted(r, coeff_mode) \in Readers(Levels)
<1> DEFINE count == GetUE(r)
<1>1. count \in Readers(Nat)  BY UEReads
<1>2. GetCounted(r, coeff_mode) =
        IF ~count.ok THEN count
        ELSE IF count.v + 1 > Scan THEN Failed(count)
        ELSE GetLevels(count, count.v + 1, coeff_mode)
  BY DEF GetCounted, Then
<1> HIDE DEF count
<1>3. count.ok => count.v + 1 \in Nat  BY <1>1, WasRead
<1>4. QED  BY <1>1, <1>2, <1>3, LevelsRead, FailedReads, NotRead

LEMMA BlockReads ==
  ASSUME NEW S, NEW r \in Readers(S), NEW coeff_mode
  PROVE  GetBlock(r, coeff_mode) \in Readers(Levels)
<1> DEFINE many == Get(r, 1)
           dc == GetLevelV9(many)
           block == [ZeroBlock EXCEPT ![1] = dc.v]
<1>1. many \in Readers(Nat)  BY GetReads
<1>2. GetBlock(r, coeff_mode) =
        IF coeff_mode = 0 THEN GetCounted(r, 0)
        ELSE IF ~many.ok THEN many
        ELSE IF many.v = 1 THEN GetCounted(many, 1)
        ELSE IF ~dc.ok THEN dc ELSE Returns(dc, block)
  BY DEF GetBlock, Then
<1> HIDE DEF many
<1>3. dc \in Readers(Int)  BY <1>1, LevelReads
<1> HIDE DEF dc
<1>4. dc.ok => block \in Levels
  <2>1. 1 \in 1..Scan  BY PictureAssumption
  <2>2. dc.ok => dc.v \in Int  BY <1>3, WasRead
  <2>3. QED  BY <2>1, <2>2, ZeroLevels DEF Levels
<1> HIDE DEF block
<1>5. dc.ok => Returns(dc, block) \in Readers(Levels)
  BY <1>3, <1>4, ReturnReads
<1>6. QED  BY <1>1, <1>2, <1>3, <1>5, CountedReads, NotRead

LEMMA OptionalReads ==
  ASSUME NEW S, NEW r \in Readers(S)
  PROVE  GetOptionalBlock(r) \in Readers(Levels)
<1> DEFINE flag == Get(r, 1)
<1>1. flag \in Readers(Nat)  BY GetReads
<1>2. GetOptionalBlock(r) =
        IF ~flag.ok THEN flag
        ELSE IF flag.v = 0 THEN Returns(flag, ZeroBlock)
        ELSE GetBlock(flag, 0)
  BY DEF GetOptionalBlock, Then
<1> HIDE DEF flag
<1>3. flag.ok => Returns(flag, ZeroBlock) \in Readers(Levels)
  BY <1>1, ZeroLevels, ReturnReads
<1>4. QED  BY <1>1, <1>2, <1>3, BlockReads, NotRead

\* One block after the other, each after its flag ...
OptionalBlocks(r, n) == GetEach(r, n, LAMBDA a, i : GetOptionalBlock(a))

LEMMA OptionalBlocksRead ==
  ASSUME NEW S, NEW r \in Readers(S), r.ok, NEW n \in Nat
  PROVE  OptionalBlocks(r, n) \in Readers(Tuples(Levels, n))
<1> DEFINE Item(a, i) == GetOptionalBlock(a)
           E(p, i) == IF p.ok THEN IF Item(p, i).ok
                                   THEN Returns(Item(p, i),
                                          Append(p.v, Item(p, i).v))
                                   ELSE Item(p, i)
                      ELSE p
           base == Returns(r, <<>>)
           D == [i \in 0..n |-> Readers(Tuples(Levels, i))]
           step == [i \in 1..n |-> [p \in D[i - 1] |-> E(p, i)]]
           Is(f) == f = [i \in 0..n |-> IF i = 0 THEN base
                                        ELSE E(f[i - 1], i)]
           c == CHOOSE f : Is(f)
<1>1. ASSUME NEW i \in 1..n, NEW p \in D[i - 1]
      PROVE  E(p, i) \in D[i]
  <2>1. p \in Readers(Tuples(Levels, i - 1)) /\ i - 1 \in 0..n
    OBVIOUS
  <2> DEFINE x == Item(p, i)
  <2>2. p.ok => x \in Readers(Levels)
    BY <2>1, OptionalReads
  <2>3. E(p, i) = IF p.ok THEN IF x.ok THEN Returns(x, Append(p.v, x.v))
                               ELSE x
                  ELSE p
    OBVIOUS
  <2> HIDE DEF x, E
  <2>4. E(p, i) \in Readers(Tuples(Levels, i))
    BY <2>1, <2>2, <2>3, AppendReads
  <2>5. QED  BY <2>4
<1>2. base \in D[0]
  BY NothingRead
<1>3. OptionalBlocks(r, n) = c[n]
  BY DEF OptionalBlocks, GetEach, Then
<1> HIDE DEF E, base, Item
<1>4. Steps(step, n, D)
  BY <1>1 DEF Steps
<1>5. PICK f : Takes(f, n, base, step) /\ Within(f, n, D)
  <2> HIDE DEF D, step
  <2>1. QED  BY <1>2, <1>4, Recursion
<1>6. ASSUME NEW i \in 0..n
      PROVE  f[i] = IF i = 0 THEN base ELSE E(f[i - 1], i)
  <2>1. CASE i \in 1..n
    <3>1. i - 1 \in 0..n /\ i \in 0..n /\ i # 0  BY <2>1
    <3>2. f[i] = step[i][f[i - 1]]  BY <1>5, <3>1 DEF Takes
    <3>3. f[i - 1] \in D[i - 1]  BY <1>5, <3>1 DEF Within
    <3> HIDE DEF D
    <3>4. QED  BY <2>1, <3>1, <3>2, <3>3
  <2>2. CASE i = 0  BY <1>5, <2>2 DEF Takes
  <2>3. QED  BY <2>1, <2>2
<1>7. f = [i \in 0..n |-> f[i]]  BY <1>5 DEF Takes
<1>8. Is(f)  BY <1>6, <1>7
<1>9. Is(c)  BY <1>8
<1>10. Parallel(c, f, n)
  <2> HIDE DEF c
  <2>1. /\ c = [i \in 0..n |-> IF i = 0 THEN base ELSE E(c[i - 1], i)]
        /\ f = [i \in 0..n |-> IF i = 0 THEN base ELSE E(f[i - 1], i)]
    BY <1>8, <1>9
  <2>2. QED  BY <2>1 DEF Parallel
<1> HIDE DEF c
<1>11. c[n] = f[n] /\ f[n] \in D[n]  BY <1>5, <1>10, Alike DEF Within
<1>12. QED  BY <1>3, <1>11

\* ... or those that a mask names.
MaskedBlock(a, i, mask, coeff_mode) ==
  IF (mask \div 2^(i - 1)) % 2 = 1 THEN GetBlock(a, coeff_mode)
  ELSE Returns(a, ZeroBlock)
MaskedBlocks(r, n, mask, coeff_mode) ==
  GetEach(r, n, LAMBDA a, i :
            IF (mask \div 2^(i - 1)) % 2 = 1 THEN GetBlock(a, coeff_mode)
            ELSE Returns(a, ZeroBlock))

LEMMA MaskedBlocksRead ==
  ASSUME NEW S, NEW r \in Readers(S), r.ok, NEW n \in Nat, NEW mask,
         NEW coeff_mode
  PROVE  MaskedBlocks(r, n, mask, coeff_mode)
           \in Readers(Tuples(Levels, n))
<1> DEFINE Item(a, i) == MaskedBlock(a, i, mask, coeff_mode)
           E(p, i) == IF p.ok THEN IF Item(p, i).ok
                                   THEN Returns(Item(p, i),
                                          Append(p.v, Item(p, i).v))
                                   ELSE Item(p, i)
                      ELSE p
           base == Returns(r, <<>>)
           D == [i \in 0..n |-> Readers(Tuples(Levels, i))]
           step == [i \in 1..n |-> [p \in D[i - 1] |-> E(p, i)]]
           Is(f) == f = [i \in 0..n |-> IF i = 0 THEN base
                                        ELSE E(f[i - 1], i)]
           c == CHOOSE f : Is(f)
<1>1. ASSUME NEW i \in 1..n, NEW p \in D[i - 1]
      PROVE  E(p, i) \in D[i]
  <2>1. p \in Readers(Tuples(Levels, i - 1)) /\ i - 1 \in 0..n
    OBVIOUS
  <2> DEFINE x == Item(p, i)
  <2>2. p.ok => x \in Readers(Levels)
    BY <2>1, BlockReads, ReturnReads, ZeroLevels DEF MaskedBlock
  <2>3. E(p, i) = IF p.ok THEN IF x.ok THEN Returns(x, Append(p.v, x.v))
                               ELSE x
                  ELSE p
    OBVIOUS
  <2> HIDE DEF x, E
  <2>4. E(p, i) \in Readers(Tuples(Levels, i))
    BY <2>1, <2>2, <2>3, AppendReads
  <2>5. QED  BY <2>4
<1>2. base \in D[0]
  BY NothingRead
<1>3. MaskedBlocks(r, n, mask, coeff_mode) = c[n]
  BY DEF MaskedBlocks, MaskedBlock, GetEach, Then
<1> HIDE DEF E, base, Item
<1>4. Steps(step, n, D)
  BY <1>1 DEF Steps
<1>5. PICK f : Takes(f, n, base, step) /\ Within(f, n, D)
  <2> HIDE DEF D, step
  <2>1. QED  BY <1>2, <1>4, Recursion
<1>6. ASSUME NEW i \in 0..n
      PROVE  f[i] = IF i = 0 THEN base ELSE E(f[i - 1], i)
  <2>1. CASE i \in 1..n
    <3>1. i - 1 \in 0..n /\ i \in 0..n /\ i # 0  BY <2>1
    <3>2. f[i] = step[i][f[i - 1]]  BY <1>5, <3>1 DEF Takes
    <3>3. f[i - 1] \in D[i - 1]  BY <1>5, <3>1 DEF Within
    <3> HIDE DEF D
    <3>4. QED  BY <2>1, <3>1, <3>2, <3>3
  <2>2. CASE i = 0  BY <1>5, <2>2 DEF Takes
  <2>3. QED  BY <2>1, <2>2
<1>7. f = [i \in 0..n |-> f[i]]  BY <1>5 DEF Takes
<1>8. Is(f)  BY <1>6, <1>7
<1>9. Is(c)  BY <1>8
<1>10. Parallel(c, f, n)
  <2> HIDE DEF c
  <2>1. /\ c = [i \in 0..n |-> IF i = 0 THEN base ELSE E(c[i - 1], i)]
        /\ f = [i \in 0..n |-> IF i = 0 THEN base ELSE E(f[i - 1], i)]
    BY <1>8, <1>9
  <2>2. QED  BY <2>1 DEF Parallel
<1> HIDE DEF c
<1>11. c[n] = f[n] /\ f[n] \in D[n]  BY <1>5, <1>10, Alike DEF Within
<1>12. QED  BY <1>3, <1>11

LEMMA MaskedReads ==
  ASSUME NEW S, NEW r \in Readers(S), NEW n \in Nat
  PROVE  GetMasked(r, n) \in Readers(Tuples(Levels, n))
<1> DEFINE coeff_mode == Get(r, 1)
           mask == Get(coeff_mode, n)
<1>1. coeff_mode \in Readers(Nat)  BY GetReads
<1>2. GetMasked(r, n) =
        IF ~coeff_mode.ok THEN coeff_mode
        ELSE IF ~mask.ok THEN mask
        ELSE IF mask.v = 0 THEN Failed(mask)
        ELSE MaskedBlocks(mask, n, mask.v, coeff_mode.v)
  BY DEF GetMasked, MaskedBlocks, Then
<1> HIDE DEF coeff_mode
<1>3. mask \in Readers(Nat)  BY <1>1, GetReads
<1> HIDE DEF mask
<1>4. QED
  BY <1>1, <1>2, <1>3, MaskedBlocksRead, FailedReads, NotRead

LEMMA ResidualReads ==
  ASSUME NEW S, NEW r \in Readers(S), NEW n \in Nat
  PROVE  GetResidual(r, n) \in Readers(Tuples(Levels, n))
<1> DEFINE has == Get(r, 1)
           none == [k \in 1..n |-> ZeroBlock]
<1>1. has \in Readers(Nat)  BY GetReads
<1>2. GetResidual(r, n) =
        IF ~has.ok THEN has
        ELSE IF has.v = 0 THEN Returns(has, none)
        ELSE IF picture.q >= 64 THEN GetMasked(has, n)
        ELSE OptionalBlocks(has, n)
  BY DEF GetResidual, OptionalBlocks, Then
<1> HIDE DEF has
<1>3. none \in Tuples(Levels, n)
  BY ZeroLevels DEF Tuples
<1> HIDE DEF none
<1>4. has.ok => Returns(has, none) \in Readers(Tuples(Levels, n))
  BY <1>1, <1>3, ReturnReads
<1>5. QED
  BY <1>1, <1>2, <1>4, MaskedReads, OptionalBlocksRead, NotRead

-----------------------------------------------------------------------------
(* Motion stays inside the reference.                                      *)

Places == [x : Nat, y : Nat, w : {8, 16}, h : {8, 16}]

Inside(at) ==
  {mv \in Int \X Int : MotionValid(at.x, at.y, at.w, at.h, mv)}

\* motion_valid looks at the first and the last sample, in half samples: all
\* that the interpolation reads is between them.
LEMMA MotionInside ==
  ASSUME NEW at \in Places, NEW mv \in Inside(at),
         picture.cols \in Nat, picture.rows \in Nat
  PROVE  ReadsInside(at, mv)
<1> DEFINE c == picture.cols
           d == picture.rows
<1>1. /\ at.x \in Nat /\ at.y \in Nat /\ at.w \in Nat \ {0}
      /\ at.h \in Nat \ {0} /\ mv[1] \in Int /\ mv[2] \in Int
      /\ c \in Nat /\ d \in Nat
  BY DEF Places, Inside
<1>2. /\ 2 * at.x + mv[1] >= 0
      /\ 2 * at.y + mv[2] >= 0
      /\ 2 * (at.x + at.w - 1) + mv[1] <= 2 * (16 * c - 1)
      /\ 2 * (at.y + at.h - 1) + mv[2] <= 2 * (16 * d - 1)
  BY DEF Inside, MotionValid, StaysInside
<1>3. ASSUME NEW from \in Nat, NEW size \in Nat \ {0}, NEW v \in Int,
             NEW n \in Nat, 2 * from + v >= 0,
             2 * (from + size - 1) + v <= 2 * (16 * n - 1)
      PROVE  Reads(from, size, v) \subseteq 0..(16 * n - 1)
  <2>1. ASSUME NEW i \in {0, size - 1}
        PROVE  /\ (2 * (from + i) + v) \div 2 \in 0..(16 * n - 1)
               /\ (2 * (from + i) + v + 1) \div 2 \in 0..(16 * n - 1)
    BY <1>3
  <2>2. QED  BY <2>1 DEF Reads
<1>4. Reads(at.x, at.w, mv[1]) \subseteq 0..(16 * c - 1)
  BY <1>1, <1>2, <1>3
<1>5. Reads(at.y, at.h, mv[2]) \subseteq 0..(16 * d - 1)
  BY <1>1, <1>2, <1>3
<1>6. QED  BY <1>4, <1>5 DEF ReadsInside

LEMMA CheckedReads ==
  ASSUME NEW S, NEW r \in Readers(S), r.ok, NEW at, NEW mv \in Int \X Int
  PROVE  Checked(r, at, mv) \in Readers(Inside(at))
<1>1. CASE MotionValid(at.x, at.y, at.w, at.h, mv)
  <2>1. mv \in Inside(at)  BY <1>1 DEF Inside
  <2>2. QED  BY <1>1, <2>1, ReturnReads DEF Checked
<1>2. CASE ~MotionValid(at.x, at.y, at.w, at.h, mv)
  BY <1>2, FailedReads DEF Checked
<1>3. QED  BY <1>1, <1>2

IsVector(mv) == mv[1] \in Int /\ mv[2] \in Int

LEMMA MotionReads ==
  ASSUME NEW S, NEW r \in Readers(S), NEW at, NEW base, IsVector(base)
  PROVE  GetMotion(r, at, base) \in Readers(Inside(at))
<1> DEFINE d == GetVector(r)
           mv == Sum2(d.v, base)
<1>1. d \in Readers(Int \X Int)  BY VectorReads
<1>2. GetMotion(r, at, base) = IF d.ok THEN Checked(d, at, mv) ELSE d
  BY DEF GetMotion, Then
<1> HIDE DEF d
<1>3. d.ok => mv \in Int \X Int
  BY <1>1, WasRead DEF Sum2, IsVector
<1> HIDE DEF mv
<1>4. QED  BY <1>1, <1>2, <1>3, CheckedReads, NotRead

\* The vectors of the decoder.
GlobalInv == decoder.global \in Int \X Int

MovedPart(at) == [inter : {TRUE}, mv : Inside(at)]
CodedPart(at) ==
  [inter : {TRUE}, mv : Inside(at), res : Tuples(Levels, SubBlocks)]
PartsAt(at) == [inter : {FALSE}] \cup MovedPart(at) \cup CodedPart(at)

LEMMA PartReads ==
  ASSUME GlobalInv, NEW S, NEW r \in Readers(S), NEW mode, NEW at
  PROVE  GetPart(r, mode, at) \in Readers(PartsAt(at))
<1> DEFINE inter == Get(r, 1)
           base == IF decoder.use_global THEN decoder.global ELSE Zero
           mv == GetMotion(inter, at, base)
           res == GetResidual(mv, SubBlocks)
           stay == [inter |-> FALSE]
           moved == [inter |-> TRUE, mv |-> mv.v]
           both == [inter |-> TRUE, mv |-> mv.v, res |-> res.v]
<1>1. inter \in Readers(Nat)  BY GetReads
<1>2. IsVector(base)  BY DEF GlobalInv, Zero, IsVector
<1>3. GetPart(r, mode, at) =
        IF ~inter.ok THEN inter
        ELSE IF inter.v = 0 THEN Returns(inter, stay)
        ELSE IF ~mv.ok THEN mv
        ELSE IF mode # "SPLIT_INTER" THEN Returns(mv, moved)
        ELSE IF ~res.ok THEN res ELSE Returns(res, both)
  BY DEF GetPart, Then
<1> HIDE DEF inter, base
<1>4. mv \in Readers(Inside(at))  BY <1>1, <1>2, MotionReads
<1> HIDE DEF mv
<1>5. res \in Readers(Tuples(Levels, SubBlocks))
  BY <1>4, ResidualReads DEF SubBlocks
<1> HIDE DEF res
<1>6. stay \in PartsAt(at)  BY DEF PartsAt
<1>7. mv.ok => moved \in PartsAt(at)
  <2>1. mv.ok => mv.v \in Inside(at)  BY <1>4, WasRead
  <2>2. QED  BY <2>1 DEF PartsAt, MovedPart
<1>8. mv.ok /\ res.ok => both \in PartsAt(at)
  <2>1. mv.ok => mv.v \in Inside(at)  BY <1>4, WasRead
  <2>2. res.ok => res.v \in Tuples(Levels, SubBlocks)  BY <1>5, WasRead
  <2>3. QED  BY <2>1, <2>2 DEF PartsAt, CodedPart
<1> HIDE DEF stay, moved, both
<1>9. inter.ok => Returns(inter, stay) \in Readers(PartsAt(at))
  BY <1>1, <1>6, ReturnReads
<1>10. mv.ok => Returns(mv, moved) \in Readers(PartsAt(at))
  BY <1>4, <1>7, ReturnReads
<1>11. mv.ok /\ res.ok => Returns(res, both) \in Readers(PartsAt(at))
  BY <1>5, <1>8, ReturnReads
<1>12. QED
  BY <1>1, <1>3, <1>4, <1>5, <1>9, <1>10, <1>11, NotRead

\* The modes that split a macroblock.
Splits == {"SPLIT_INTER", "SPLIT_JOINT", "RECT_SPLIT"}

LEMMA PartAtTyped ==
  ASSUME NEW m, m.mode \in Splits,
         m.mode = "RECT_SPLIT" => m.vertical \in BOOLEAN,
         NEW k \in Nat \ {0}, NEW x \in Nat, NEW y \in Nat
  PROVE  PartAt(m, k, x, y) \in Places
BY DEF PartAt, Places, Splits

\* The first i parts of macroblock m at x, y.
AnyPart ==
  [inter : {FALSE}] \cup [inter : {TRUE}, mv : Int \X Int]
  \cup [inter : {TRUE}, mv : Int \X Int, res : Tuples(Levels, SubBlocks)]
Placed(m, i, x, y) ==
  {s \in Seq(AnyPart) :
     /\ Len(s) = i
     /\ \A k \in 1..i : s[k] \in PartsAt(PartAt(m, k, x, y))}

LEMMA AppendPart ==
  ASSUME NEW m, NEW x, NEW y, NEW i \in Nat \ {0},
         NEW p \in Readers(Placed(m, i - 1, x, y)),
         NEW q, p.ok => q \in Readers(PartsAt(PartAt(m, i, x, y)))
  PROVE  (IF p.ok THEN IF q.ok THEN Returns(q, Append(p.v, q.v)) ELSE q
          ELSE p) \in Readers(Placed(m, i, x, y))
<1>1. CASE p.ok /\ q.ok
  <2> DEFINE at == PartAt(m, i, x, y)
             s == p.v
  <2>1. s \in Placed(m, i - 1, x, y) /\ q.v \in PartsAt(at)
    BY <1>1, WasRead
  <2> HIDE DEF at, s
  <2>2. q.v \in AnyPart
    BY <2>1 DEF PartsAt, MovedPart, CodedPart, AnyPart, Inside
  <2>3. s \in Seq(AnyPart) /\ Len(s) = i - 1
    BY <2>1 DEF Placed
  <2>4. /\ Append(s, q.v) \in Seq(AnyPart) /\ Len(Append(s, q.v)) = i
        /\ Append(s, q.v)[i] = q.v
        /\ \A k \in 1..(i - 1) : Append(s, q.v)[k] = s[k]
    BY <2>2, <2>3
  <2>5. ASSUME NEW k \in 1..i
        PROVE  Append(s, q.v)[k] \in PartsAt(PartAt(m, k, x, y))
    <3>1. CASE k = i  BY <2>1, <2>4, <3>1 DEF at
    <3>2. CASE k \in 1..(i - 1)  BY <2>1, <2>4, <3>2 DEF Placed
    <3>3. k = i \/ k \in 1..(i - 1)  OBVIOUS
    <3>4. QED  BY <3>1, <3>2, <3>3
  <2>6. Append(s, q.v) \in Placed(m, i, x, y)
    BY <2>4, <2>5 DEF Placed
  <2>7. QED  BY <1>1, <2>1, <2>6, ReturnReads DEF s
<1>2. QED  BY <1>1, NotRead

EachPart(r, m, n, x, y) ==
  GetEach(r, n, LAMBDA a, k : GetPart(a, m.mode, PartAt(m, k, x, y)))

LEMMA EachPartReads ==
  ASSUME GlobalInv, NEW S, NEW r \in Readers(S), r.ok, NEW n \in Nat,
         NEW m, m.mode \in Splits,
         m.mode = "RECT_SPLIT" => m.vertical \in BOOLEAN,
         NEW x \in Nat, NEW y \in Nat
  PROVE  EachPart(r, m, n, x, y) \in Readers(Placed(m, n, x, y))
<1> DEFINE Item(a, i) == GetPart(a, m.mode, PartAt(m, i, x, y))
           E(p, i) == IF p.ok THEN IF Item(p, i).ok
                                   THEN Returns(Item(p, i),
                                          Append(p.v, Item(p, i).v))
                                   ELSE Item(p, i)
                      ELSE p
           base == Returns(r, <<>>)
           D == [i \in 0..n |-> Readers(Placed(m, i, x, y))]
           step == [i \in 1..n |-> [p \in D[i - 1] |-> E(p, i)]]
           Is(f) == f = [i \in 0..n |-> IF i = 0 THEN base
                                        ELSE E(f[i - 1], i)]
           c == CHOOSE f : Is(f)
<1>1. ASSUME NEW i \in 1..n, NEW p \in D[i - 1]
      PROVE  E(p, i) \in D[i]
  <2>1. p \in Readers(Placed(m, i - 1, x, y)) /\ i - 1 \in 0..n
    OBVIOUS
  <2> DEFINE q == Item(p, i)
  <2>2. p.ok => q \in Readers(PartsAt(PartAt(m, i, x, y)))
    BY <2>1, PartAtTyped, PartReads
  <2>3. E(p, i) = IF p.ok THEN IF q.ok THEN Returns(q, Append(p.v, q.v))
                               ELSE q
                  ELSE p
    OBVIOUS
  <2> HIDE DEF q, E
  <2>4. E(p, i) \in Readers(Placed(m, i, x, y))
    BY <2>1, <2>2, <2>3, AppendPart
  <2>5. QED  BY <2>4
<1>2. base \in D[0]
  <2>1. <<>> \in Placed(m, 0, x, y)  BY DEF Placed
  <2>2. base \in Readers(Placed(m, 0, x, y))  BY <2>1, ReturnReads
  <2>3. QED  BY <2>2
<1>3. EachPart(r, m, n, x, y) = c[n]
  BY DEF EachPart, GetEach, Then
<1> HIDE DEF E, base, Item
<1>4. Steps(step, n, D)
  BY <1>1 DEF Steps
<1>5. PICK f : Takes(f, n, base, step) /\ Within(f, n, D)
  <2> HIDE DEF D, step
  <2>1. QED  BY <1>2, <1>4, Recursion
<1>6. ASSUME NEW i \in 0..n
      PROVE  f[i] = IF i = 0 THEN base ELSE E(f[i - 1], i)
  <2>1. CASE i \in 1..n
    <3>1. i - 1 \in 0..n /\ i \in 0..n /\ i # 0  BY <2>1
    <3>2. f[i] = step[i][f[i - 1]]  BY <1>5, <3>1 DEF Takes
    <3>3. f[i - 1] \in D[i - 1]  BY <1>5, <3>1 DEF Within
    <3> HIDE DEF D
    <3>4. QED  BY <2>1, <3>1, <3>2, <3>3
  <2>2. CASE i = 0  BY <1>5, <2>2 DEF Takes
  <2>3. QED  BY <2>1, <2>2
<1>7. f = [i \in 0..n |-> f[i]]  BY <1>5 DEF Takes
<1>8. Is(f)  BY <1>6, <1>7
<1>9. Is(c)  BY <1>8
<1>10. Parallel(c, f, n)
  <2> HIDE DEF c
  <2>1. /\ c = [i \in 0..n |-> IF i = 0 THEN base ELSE E(c[i - 1], i)]
        /\ f = [i \in 0..n |-> IF i = 0 THEN base ELSE E(f[i - 1], i)]
    BY <1>8, <1>9
  <2>2. QED  BY <2>1 DEF Parallel
<1> HIDE DEF c
<1>11. c[n] = f[n] /\ f[n] \in D[n]  BY <1>5, <1>10, Alike DEF Within
<1>12. QED  BY <1>3, <1>11

-----------------------------------------------------------------------------
(* One macroblock.                                                         *)

\* What makes macroblock m at x, y valid, and the fields this reads.
Valid(m, x, y) ==
  /\ m.mode \in MotionModes => P
  /\ m.mode = "INTER" => m.mv \in Inside(Whole(x, y))
  /\ m.mode = "GLOBAL" => decoder.global \in Inside(Whole(x, y))
  /\ m.mode \in Splits =>
       \A k \in 1..Len(m.parts) :
         /\ PartAt(m, k, x, y) \in Places
         /\ m.parts[k].inter =>
              m.parts[k].mv \in Inside(PartAt(m, k, x, y))
Shaped(m) ==
  /\ "mode" \in DOMAIN m
  /\ m.mode = "INTER" => "mv" \in DOMAIN m
  /\ m.mode \in Splits => "parts" \in DOMAIN m /\ Len(m.parts) \in Nat
  /\ m.mode = "RECT_SPLIT" => "vertical" \in DOMAIN m

\* r has read a valid macroblock, or failed.
Sound(r, x, y) ==
  /\ r \in Readers({r.v})
  /\ r.ok => Valid(r.v, x, y) /\ Shaped(r.v)

LEMMA NotSound ==
  ASSUME NEW S, NEW r \in Readers(S), ~r.ok, NEW x, NEW y
  PROVE  Sound(r, x, y)
BY NotRead DEF Sound

LEMMA ReturnsSound ==
  ASSUME NEW S, NEW r \in Readers(S), r.ok, NEW m, NEW x, NEW y,
         Valid(m, x, y), Shaped(m)
  PROVE  Sound(Returns(r, m), x, y)
<1>1. Returns(r, m) \in Readers({m}) /\ Returns(r, m).v = m
  BY ReturnReads
<1>2. QED  BY <1>1 DEF Sound

\* A macroblock whose mode predicts from its own picture.
Still == {"FILL", "GRADIENT", "PALETTE", "LITERAL", "INTRA"}

LEMMA StillSound ==
  ASSUME NEW S, NEW r \in Readers(S), r.ok, NEW m, NEW x, NEW y,
         m.mode \in Still, "mode" \in DOMAIN m
  PROVE  Sound(Returns(r, m), x, y)
<1>1. Valid(m, x, y) /\ Shaped(m)
  BY DEF Valid, Shaped, Still, MotionModes, Splits
<1>2. QED  BY <1>1, ReturnsSound

LEMMA FillSound ==
  ASSUME NEW S, NEW r \in Readers(S), r.ok, NEW x, NEW y
  PROVE  Sound(Fill(r), x, y)
<1> DEFINE means == GetNumbers(r, 3, 8)
           m == [mode |-> "FILL", planes |-> means.v]
<1>1. means \in Readers(Tuples(Nat, 3))  BY NumbersRead
<1>2. Fill(r) = IF means.ok THEN Returns(means, m) ELSE means
  BY DEF Fill, Then
<1>3. m.mode \in Still /\ "mode" \in DOMAIN m  BY DEF Still
<1> HIDE DEF means, m
<1>4. QED  BY <1>1, <1>2, <1>3, StillSound, NotSound

LEMMA GradientSound ==
  ASSUME NEW S, NEW r \in Readers(S), r.ok, NEW x, NEW y
  PROVE  Sound(Gradient(r), x, y)
<1> DEFINE bytes == GetNumbers(r, 9, 8)
           m == [mode |-> "GRADIENT",
                 planes |-> [i \in 1..9 |-> IF i % 3 = 1 THEN bytes.v[i]
                                            ELSE AsSigned(bytes.v[i])]]
<1>1. bytes \in Readers(Tuples(Nat, 9))  BY NumbersRead
<1>2. Gradient(r) = IF bytes.ok THEN Returns(bytes, m) ELSE bytes
  BY DEF Gradient, Then
<1>3. m.mode \in Still /\ "mode" \in DOMAIN m  BY DEF Still
<1> HIDE DEF bytes, m
<1>4. QED  BY <1>1, <1>2, <1>3, StillSound, NotSound

LEMMA IntraSound ==
  ASSUME NEW S, NEW r \in Readers(S), r.ok, NEW x, NEW y
  PROVE  Sound(Intra(r), x, y)
<1> DEFINE mode == Get(r, 2)
           m == [mode |-> "INTRA", intra_mode |-> mode.v]
<1>1. mode \in Readers(Nat)  BY GetReads
<1>2. Intra(r) = IF mode.ok THEN Returns(mode, m) ELSE mode
  BY DEF Intra, Then
<1>3. m.mode \in Still /\ "mode" \in DOMAIN m  BY DEF Still
<1> HIDE DEF mode, m
<1>4. QED  BY <1>1, <1>2, <1>3, StillSound, NotSound

LEMMA PaletteSound ==
  ASSUME NEW S, NEW r \in Readers(S), r.ok, NEW x, NEW y
  PROVE  Sound(Palette(r), x, y)
<1> DEFINE code == Get(r, 2)
           count == 2^(code.v + 1)
           width == IndexBits(count)
           colors == GetNumbers(code, 3 * count, 8)
           index == GetNumbers(colors, Samples, width)
           m == [mode |-> "PALETTE", count |-> count, colors |-> colors.v,
                 index |-> index.v]
<1>1. code \in Readers(Nat)  BY GetReads
<1>2. Palette(r) = IF ~code.ok THEN code
                   ELSE IF code.v > 2 THEN Failed(code)
                   ELSE IF ~colors.ok THEN colors
                   ELSE IF ~index.ok THEN index ELSE Returns(index, m)
  BY DEF Palette, Then
<1>3. m.mode \in Still /\ "mode" \in DOMAIN m  BY DEF Still
<1>4. CASE ~code.ok
  BY <1>1, <1>2, <1>4, NotSound
<1>5. CASE code.ok /\ code.v > 2
  BY <1>1, <1>2, <1>5, FailedReads, NotSound
<1>6. CASE code.ok /\ ~(code.v > 2)
  <2>1. code.v \in 0..2  BY <1>1, <1>6, WasRead
  <2>2. count \in Nat
    <3> HIDE DEF code
    <3>1. code.v = 0 \/ code.v = 1 \/ code.v = 2  BY <2>1
    <3>2. code.v = 0 => 2^(code.v + 1) = 2  OBVIOUS
    <3>3. code.v = 1 => 2^(code.v + 1) = 4  OBVIOUS
    <3>4. code.v = 2 => 2^(code.v + 1) = 8  OBVIOUS
    <3>5. QED  BY <3>1, <3>2, <3>3, <3>4
  <2>3. Samples \in Nat /\ width \in Nat
    BY PictureAssumption DEF IndexBits
  <2> HIDE DEF code, count, width
  <2>4. colors \in Readers(Tuples(Nat, 3 * count))
    <3>1. 3 * count \in Nat  BY <2>2
    <3>2. QED  BY <1>1, <1>6, <3>1, NumbersRead
  <2> HIDE DEF colors
  <2>5. colors.ok => index \in Readers(Tuples(Nat, Samples))
    BY <2>3, <2>4, NumbersRead
  <2> HIDE DEF index, m
  <2>6. CASE ~colors.ok
    BY <1>2, <1>6, <2>4, <2>6, NotSound
  <2>7. CASE colors.ok /\ ~index.ok
    BY <1>2, <1>6, <2>5, <2>7, NotSound
  <2>8. CASE colors.ok /\ index.ok
    BY <1>2, <1>3, <1>6, <2>5, <2>8, StillSound
  <2>9. QED  BY <2>6, <2>7, <2>8
<1>7. QED  BY <1>4, <1>5, <1>6

LEMMA RowReads ==
  ASSUME NEW S, NEW r \in Readers(S), r.ok, NEW n \in Nat
  PROVE  /\ GetLiteralRow(r, Samples, n) \in Readers({GetLiteralRow(r, Samples, n).v})
<1> DEFINE count == (Samples * n + 7) \div 8
           bytes == GetNumbers(r, count, 8)
           v == [i \in 1..Samples |->
                   Value([b \in 1..n |->
                            UnpackedBit(bytes.v, n * (i - 1) + n - b)])]
<1>1. GetLiteralRow(r, Samples, n) = IF bytes.ok THEN Returns(bytes, v)
                                     ELSE bytes
  BY DEF GetLiteralRow, Then
<1>2. count \in Nat
  <2>1. Samples \in Nat  BY PictureAssumption
  <2>2. Samples * n \in Nat  BY <2>1
  <2> DEFINE p == Samples * n
  <2> HIDE DEF p
  <2>3. (p + 7) \div 8 \in Nat  BY <2>2 DEF p
  <2>4. QED  BY <2>3 DEF p
<1> HIDE DEF count, v
<1>3. bytes \in Readers(Tuples(Nat, count))  BY <1>2, NumbersRead
<1> HIDE DEF bytes
<1>4. bytes.ok => Returns(bytes, v) \in Readers({v}) /\ Returns(bytes, v).v = v
  BY <1>3, ReturnReads
<1>5. QED  BY <1>1, <1>3, <1>4, NotRead

LEMMA LiteralSound ==
  ASSUME NEW S, NEW r \in Readers(S), r.ok, NEW x, NEW y
  PROVE  Sound(Literal(r), x, y)
<1> DEFINE zero == Get(r, 4)
           a == GetLiteralRow(zero, Samples, 7)
           b == GetLiteralRow(a, Samples, 6)
           c == GetLiteralRow(b, Samples, 6)
           correction == GetNumbers(c, 2, 8)
           m == [mode |-> "LITERAL", y |-> a.v, u |-> b.v, v |-> c.v,
                 correction |-> [i \in 1..2 |-> AsSigned(correction.v[i])]]
<1>1. zero \in Readers(Nat)  BY GetReads
<1>2. Literal(r) = IF ~zero.ok THEN zero
                   ELSE IF zero.v # 0 THEN Failed(zero)
                   ELSE IF ~a.ok THEN a
                   ELSE IF ~b.ok THEN b
                   ELSE IF ~c.ok THEN c
                   ELSE IF ~correction.ok THEN correction
                   ELSE Returns(correction, m)
  BY DEF Literal, Then
<1>3. m.mode \in Still /\ "mode" \in DOMAIN m  BY DEF Still
<1> HIDE DEF zero
<1>4. zero.ok => a \in Readers({a.v})  BY <1>1, RowReads
<1> HIDE DEF a
<1>5. zero.ok /\ a.ok => b \in Readers({b.v})  BY <1>4, RowReads
<1> HIDE DEF b
<1>6. zero.ok /\ a.ok /\ b.ok => c \in Readers({c.v})  BY <1>5, RowReads
<1> HIDE DEF c
<1>7. zero.ok /\ a.ok /\ b.ok /\ c.ok =>
        correction \in Readers(Tuples(Nat, 2))
  BY <1>6, NumbersRead
<1> HIDE DEF correction, m
<1>8. CASE ~zero.ok  BY <1>1, <1>2, <1>8, NotSound
<1>9. CASE zero.ok /\ zero.v # 0
  BY <1>1, <1>2, <1>9, FailedReads, NotSound
<1>10. CASE zero.ok /\ zero.v = 0 /\ ~a.ok
  BY <1>2, <1>4, <1>10, NotSound
<1>11. CASE zero.ok /\ zero.v = 0 /\ a.ok /\ ~b.ok
  BY <1>2, <1>5, <1>11, NotSound
<1>12. CASE zero.ok /\ zero.v = 0 /\ a.ok /\ b.ok /\ ~c.ok
  BY <1>2, <1>6, <1>12, NotSound
<1>13. CASE zero.ok /\ zero.v = 0 /\ a.ok /\ b.ok /\ c.ok /\ ~correction.ok
  BY <1>2, <1>7, <1>13, NotSound
<1>14. CASE zero.ok /\ zero.v = 0 /\ a.ok /\ b.ok /\ c.ok /\ correction.ok
  BY <1>2, <1>3, <1>7, <1>14, StillSound
<1>15. QED
  BY <1>8, <1>9, <1>10, <1>11, <1>12, <1>13, <1>14

LEMMA InterSound ==
  ASSUME P, NEW S, NEW r \in Readers(S), NEW x, NEW y, NEW predicted,
         IsVector(predicted)
  PROVE  Sound(Inter(r, x, y, predicted), x, y)
<1> DEFINE mv == GetMotion(r, Whole(x, y), predicted)
           m == [mode |-> "INTER", mv |-> mv.v]
<1>1. mv \in Readers(Inside(Whole(x, y)))  BY MotionReads
<1>2. Inter(r, x, y, predicted) = IF mv.ok THEN Returns(mv, m) ELSE mv
  BY DEF Inter, Then
<1>3. mv.ok => mv.v \in Inside(Whole(x, y))
  <2> HIDE DEF mv
  <2>1. QED  BY <1>1, WasRead
<1>4. mv.ok => Valid(m, x, y) /\ Shaped(m)
  <2> HIDE DEF mv
  <2>1. QED  BY <1>3 DEF Valid, Shaped, Splits
<1> HIDE DEF mv, m
<1>5. QED  BY <1>1, <1>2, <1>4, ReturnsSound, NotSound

LEMMA GlobalSound ==
  ASSUME P, GlobalInv, NEW S, NEW r \in Readers(S), r.ok, NEW x, NEW y
  PROVE  Sound(Global(r, x, y), x, y)
<1> DEFINE mv == Checked(r, Whole(x, y), decoder.global)
           m == [mode |-> "GLOBAL"]
<1>1. mv \in Readers(Inside(Whole(x, y)))  BY CheckedReads DEF GlobalInv
<1>2. Global(r, x, y) = IF ~decoder.use_global THEN Failed(r)
                        ELSE IF mv.ok THEN Returns(mv, m) ELSE mv
  BY DEF Global, Then
<1>3. mv.ok => mv.v = decoder.global
  <2>1. ~Failed(r).ok  BY FailedReads
  <2>2. Returns(r, decoder.global).v = decoder.global
    BY DEF Returns, Readers
  <2>3. QED  BY <2>1, <2>2 DEF Checked
<1> HIDE DEF mv
<1>4. mv.ok => Valid(m, x, y) /\ Shaped(m)
  <2>1. mv.ok => decoder.global \in Inside(Whole(x, y))
    BY <1>1, <1>3, WasRead
  <2>2. QED  BY <2>1 DEF Valid, Shaped, Splits
<1> HIDE DEF m
<1>5. CASE ~decoder.use_global
  BY <1>2, <1>5, FailedReads, NotSound
<1>6. CASE decoder.use_global
  BY <1>1, <1>2, <1>4, <1>6, ReturnsSound, NotSound
<1>7. QED  BY <1>5, <1>6

LEMMA PartsSound ==
  ASSUME P, GlobalInv, NEW S, NEW r \in Readers(S), r.ok, NEW n \in Nat,
         NEW m, m.mode \in Splits, DOMAIN m \subseteq {"mode", "vertical"},
         "mode" \in DOMAIN m,
         m.mode = "RECT_SPLIT" => "vertical" \in DOMAIN m /\ m.vertical \in BOOLEAN,
         NEW x \in Nat, NEW y \in Nat
  PROVE  Sound(GetParts(r, m, n, x, y), x, y)
<1> DEFINE parts == EachPart(r, m, n, x, y)
           e == Extended(m, "parts", parts.v)
<1>1. parts \in Readers(Placed(m, n, x, y))  BY EachPartReads
<1>2. GetParts(r, m, n, x, y)
        = IF parts.ok THEN Returns(parts, e) ELSE parts
  BY DEF GetParts, EachPart, Then
<1> HIDE DEF parts
<1>3. /\ e.mode = m.mode /\ e.parts = parts.v
      /\ "mode" \in DOMAIN e /\ "parts" \in DOMAIN e
      /\ e.mode = "RECT_SPLIT" =>
           "vertical" \in DOMAIN e /\ e.vertical = m.vertical
  BY DEF Extended
<1> HIDE DEF e
<1>4. ASSUME parts.ok PROVE Valid(e, x, y) /\ Shaped(e)
  <2> DEFINE s == parts.v
  <2>1. s \in Placed(m, n, x, y)  BY <1>1, <1>4, WasRead
  <2> HIDE DEF s
  <2>2. /\ Len(s) = n
        /\ \A k \in 1..n : s[k] \in PartsAt(PartAt(m, k, x, y))
    BY <2>1 DEF Placed
  <2>3. e.parts = s  BY <1>3 DEF s
  <2>4. ASSUME NEW k \in 1..n
        PROVE  /\ PartAt(e, k, x, y) \in Places
               /\ s[k].inter => s[k].mv \in Inside(PartAt(e, k, x, y))
    <3> DEFINE at == PartAt(m, k, x, y)
    <3>1. PartAt(e, k, x, y) = at
      <4>1. CASE m.mode = "RECT_SPLIT"
        BY <1>3, <4>1 DEF PartAt
      <4>2. CASE m.mode \in {"SPLIT_INTER", "SPLIT_JOINT"}
        BY <1>3, <4>2 DEF PartAt
      <4>3. QED  BY <4>1, <4>2 DEF Splits
    <3>2. at \in Places  BY PartAtTyped
    <3>3. s[k] \in PartsAt(at)  BY <2>2
    <3> HIDE DEF at
    <3>4. s[k].inter => s[k].mv \in Inside(at)
      BY <3>3 DEF PartsAt, MovedPart, CodedPart
    <3>5. QED  BY <3>1, <3>2, <3>4
  <2>5. Valid(e, x, y)
    BY <1>3, <2>2, <2>3, <2>4 DEF Valid, Splits
  <2>6. Shaped(e)
    BY <1>3, <2>2, <2>3 DEF Shaped, Splits
  <2>7. QED  BY <2>5, <2>6
<1>5. QED  BY <1>1, <1>2, <1>4, ReturnsSound, NotSound

LEMMA SplitSound ==
  ASSUME P, GlobalInv, NEW S, NEW r \in Readers(S), r.ok, NEW mode \in Splits,
         NEW x \in Nat, NEW y \in Nat
  PROVE  Sound(Split(r, mode, x, y), x, y)
<1>1. CASE mode = "RECT_SPLIT"
  <2> DEFINE partition == Get(r, 1)
             m == [mode |-> mode, vertical |-> partition.v = 1]
  <2>1. partition \in Readers(Nat)  BY GetReads
  <2>2. Split(r, mode, x, y) = IF partition.ok
                               THEN GetParts(partition, m, 2, x, y)
                               ELSE partition
    BY <1>1 DEF Split, Then
  <2> HIDE DEF partition
  <2>3. /\ m.mode = mode /\ DOMAIN m = {"mode", "vertical"}
        /\ m.vertical \in BOOLEAN
    OBVIOUS
  <2> HIDE DEF m
  <2>4. partition.ok => Sound(GetParts(partition, m, 2, x, y), x, y)
    BY <2>1, <2>3, PartsSound
  <2>5. QED  BY <2>1, <2>2, <2>4, NotSound
<1>2. CASE mode # "RECT_SPLIT"
  <2> DEFINE m == [mode |-> mode]
  <2>1. Split(r, mode, x, y) = GetParts(r, m, 4, x, y)
    BY <1>2 DEF Split, Then
  <2>2. m.mode = mode /\ DOMAIN m = {"mode"}  OBVIOUS
  <2> HIDE DEF m
  <2>3. QED  BY <1>2, <2>1, <2>2, PartsSound
<1>3. QED  BY <1>1, <1>2

\* A residual changes nothing of a macroblock's prediction.
LEMMA ExtendedValid ==
  ASSUME NEW m, NEW res, NEW x, NEW y, Valid(m, x, y), Shaped(m)
  PROVE  LET e == Extended(m, "res", res) IN Valid(e, x, y) /\ Shaped(e)
<1> DEFINE e == Extended(m, "res", res)
<1>1. /\ "mode" \in DOMAIN e /\ e.mode = m.mode
      /\ "mv" \in DOMAIN m => "mv" \in DOMAIN e /\ e.mv = m.mv
      /\ "parts" \in DOMAIN m => "parts" \in DOMAIN e /\ e.parts = m.parts
      /\ "vertical" \in DOMAIN m =>
           "vertical" \in DOMAIN e /\ e.vertical = m.vertical
  BY DEF Extended, Shaped
<1> HIDE DEF e
<1>2. Shaped(e)  BY <1>1 DEF Shaped
<1>3. ASSUME m.mode \in Splits, NEW k \in 1..Len(m.parts)
      PROVE  PartAt(e, k, x, y) = PartAt(m, k, x, y)
  <2>1. CASE m.mode = "RECT_SPLIT"
    BY <1>1, <2>1 DEF PartAt, Shaped
  <2>2. CASE m.mode \in {"SPLIT_INTER", "SPLIT_JOINT"}
    BY <1>1, <2>2 DEF PartAt
  <2>3. QED  BY <1>3, <2>1, <2>2 DEF Splits
<1>4. Valid(e, x, y)  BY <1>1, <1>3 DEF Valid, Shaped
<1>5. QED  BY <1>2, <1>4 DEF e

LEMMA ResidualSound ==
  ASSUME NEW r, NEW x, NEW y, Sound(r, x, y)
  PROVE  Sound(WithResidual(r), x, y)
<1> DEFINE res == GetResidual(r, Blocks)
           m == Extended(r.v, "res", res.v)
<1>0. r \in Readers({r.v})  BY DEF Sound
<1>1. res \in Readers(Tuples(Levels, Blocks))
  BY <1>0, ResidualReads DEF Blocks
<1>2. WithResidual(r) = IF ~r.ok THEN r
                        ELSE IF res.ok THEN Returns(res, m) ELSE res
  BY DEF WithResidual, Then
<1>3. r.ok => Valid(m, x, y) /\ Shaped(m)  BY ExtendedValid DEF Sound
<1> HIDE DEF res, m
<1>4. CASE ~r.ok  BY <1>2, <1>4
<1>5. CASE r.ok
  BY <1>1, <1>2, <1>3, <1>5, ReturnsSound, NotSound
<1>6. QED  BY <1>4, <1>5

LEMMA PredictedSound ==
  ASSUME GlobalInv, NEW S, NEW r \in Readers(S), r.ok,
         NEW mode \in DOMAIN ModeCode \ {"SKIP_RUN"}, NEW x \in Nat,
         NEW y \in Nat, NEW predicted, IsVector(predicted)
  PROVE  Sound(Predicted(r, mode, x, y, predicted), x, y)
<1> DEFINE p == Predicted(r, mode, x, y, predicted)
<1>1. CASE mode \in MotionModes /\ ~P
  <2>1. p = Failed(r)
    BY <1>1 DEF Predicted, MotionModes
  <2> HIDE DEF p
  <2>2. Sound(p, x, y)  BY <2>1, FailedReads, NotSound
  <2>3. QED  BY <2>2 DEF p
<1>2. CASE mode = "SKIP" /\ P
  <2> DEFINE m == [mode |-> "SKIP"]
  <2>1. p = Returns(r, m)
    BY <1>2 DEF Predicted, MotionModes
  <2>2. Valid(m, x, y) /\ Shaped(m)
    BY <1>2 DEF Valid, Shaped, Splits
  <2> HIDE DEF p, m
  <2>3. Sound(p, x, y)  BY <2>1, <2>2, ReturnsSound
  <2>4. QED  BY <2>3 DEF p
<1>3. CASE mode = "INTER" /\ P
  <2>1. p = Inter(r, x, y, predicted)
    BY <1>3 DEF Predicted, MotionModes
  <2>2. QED  BY <1>3, <2>1, InterSound
<1>4. CASE mode = "GLOBAL" /\ P
  <2>1. p = Global(r, x, y)
    BY <1>4 DEF Predicted, MotionModes
  <2>2. QED  BY <1>4, <2>1, GlobalSound
<1>5. CASE mode \in Splits /\ P
  <2>1. p = Split(r, mode, x, y)
    BY <1>5 DEF Predicted, MotionModes, Splits
  <2>2. QED  BY <1>5, <2>1, SplitSound
<1>6. CASE mode = "FILL"
  BY <1>6, FillSound DEF Predicted, MotionModes
<1>7. CASE mode = "GRADIENT"
  BY <1>7, GradientSound DEF Predicted, MotionModes
<1>8. CASE mode = "PALETTE"
  BY <1>8, PaletteSound DEF Predicted, MotionModes
<1>9. CASE mode = "LITERAL"
  BY <1>9, LiteralSound DEF Predicted, MotionModes
<1>10. CASE mode = "INTRA"
  BY <1>10, IntraSound DEF Predicted, MotionModes
<1>11. mode \in {"SKIP", "INTER", "FILL", "INTRA", "SPLIT_INTER", "GLOBAL",
                 "PALETTE", "GRADIENT", "LITERAL", "SPLIT_JOINT",
                 "RECT_SPLIT"}
  BY DEF ModeCode
<1>12. QED
  BY <1>1, <1>2, <1>3, <1>4, <1>5, <1>6, <1>7, <1>8, <1>9, <1>10, <1>11
     DEF MotionModes, Splits

LEMMA MacroblockSound ==
  ASSUME GlobalInv, NEW S, NEW r \in Readers(S), r.ok,
         NEW mode \in DOMAIN ModeCode \ {"SKIP_RUN"}, NEW x \in Nat,
         NEW y \in Nat, NEW predicted, IsVector(predicted)
  PROVE  Sound(GetMacroblock(r, mode, x, y, predicted), x, y)
<1>1. Sound(Predicted(r, mode, x, y, predicted), x, y)  BY PredictedSound
<1>2. QED  BY <1>1, ResidualSound DEF GetMacroblock

LEMMA GlobalReads ==
  ASSUME NEW S, NEW r \in Readers(S)
  PROVE  GetGlobal(r) \in Readers([use : BOOLEAN, mv : Int \X Int])
<1> DEFINE flag == Get(r, 1)
           mv == GetVector(flag)
           none == [use |-> FALSE, mv |-> Zero]
           some == [use |-> TRUE, mv |-> mv.v]
           T == [use : BOOLEAN, mv : Int \X Int]
<1>1. flag \in Readers(Nat)  BY GetReads
<1>2. GetGlobal(r) = IF ~flag.ok THEN flag
                     ELSE IF flag.v = 0 THEN Returns(flag, none)
                     ELSE IF mv.ok THEN Returns(mv, some) ELSE mv
  BY DEF GetGlobal, Then
<1> HIDE DEF flag
<1>3. mv \in Readers(Int \X Int)  BY <1>1, VectorReads
<1> HIDE DEF mv
<1>4. mv.ok => some \in T  BY <1>3, WasRead
<1>5. none \in T  BY DEF Zero
<1> HIDE DEF none, some, T
<1>6. CASE ~flag.ok  BY <1>1, <1>2, <1>6, NotRead DEF T
<1>7. CASE flag.ok /\ flag.v = 0
  <2>1. Returns(flag, none) \in Readers(T)  BY <1>1, <1>5, <1>7, ReturnReads
  <2>2. QED  BY <1>2, <1>7, <2>1 DEF T
<1>8. CASE flag.ok /\ flag.v # 0 /\ mv.ok
  <2>1. Returns(mv, some) \in Readers(T)  BY <1>3, <1>4, <1>8, ReturnReads
  <2>2. QED  BY <1>2, <1>8, <2>1 DEF T
<1>9. CASE flag.ok /\ flag.v # 0 /\ ~mv.ok
  <2>1. mv \in Readers(T)  BY <1>3, <1>9, NotRead
  <2>2. QED  BY <1>2, <1>9, <2>1 DEF T
<1>10. QED  BY <1>6, <1>7, <1>8, <1>9

-----------------------------------------------------------------------------
(* What the encoder writes.                                                *)

Strings == Seq(Bit)

LEMMA FunctionSeq ==
  ASSUME NEW n \in Nat, NEW S, NEW f \in [1..n -> S]
  PROVE  f \in Seq(S) /\ Len(f) = n
OBVIOUS

LEMMA Concat ==
  ASSUME NEW s \in Strings, NEW t \in Strings
  PROVE  s \o t \in Strings
BY DEF Strings

LEMMA BitsTyped ==
  ASSUME NEW v \in Int, NEW n \in 0..32
  PROVE  Bits(v, n) \in Strings
<1>1. ASSUME NEW i \in 1..n PROVE (v \div 2^(n - i)) % 2 \in Bit
  <2> DEFINE p == 2^(n - i)
  <2>1. p \in Nat \ {0}
    <3>1. n - i \in 0..32  OBVIOUS
    <3>2. QED  BY <3>1, Powers
  <2> HIDE DEF p
  <2>2. v \div p \in Int  BY <2>1
  <2>3. (v \div p) % 2 \in Bit  BY <2>2 DEF Bit
  <2>4. QED  BY <2>3 DEF p
<1>2. Bits(v, n) \in [1..n -> Bit]  BY <1>1 DEF Bits
<1>3. QED  BY <1>2, FunctionSeq DEF Strings

\* The numbers that occur: differences of two 16-bit vectors, mapped.
Number == {v \in Nat : v < 262143}

LEMMA LeadingFound ==
  ASSUME NEW v \in Number
  PROVE  \E k \in 0..17 : 2^k <= v + 1 /\ v + 1 < 2^(k + 1)
<1> USE DEF Number
<1>0. CASE 1 <= v + 1 /\ v + 1 < 2
  <2>1. 2^0 <= v + 1 /\ v + 1 < 2^(0 + 1)  BY <1>0
  <2>2. QED  BY <2>1
<1>1. CASE 2 <= v + 1 /\ v + 1 < 4
  <2>1. 2^1 <= v + 1 /\ v + 1 < 2^(1 + 1)  BY <1>1
  <2>2. QED  BY <2>1
<1>2. CASE 4 <= v + 1 /\ v + 1 < 8
  <2>1. 2^2 <= v + 1 /\ v + 1 < 2^(2 + 1)  BY <1>2
  <2>2. QED  BY <2>1
<1>3. CASE 8 <= v + 1 /\ v + 1 < 16
  <2>1. 2^3 <= v + 1 /\ v + 1 < 2^(3 + 1)  BY <1>3
  <2>2. QED  BY <2>1
<1>4. CASE 16 <= v + 1 /\ v + 1 < 32
  <2>1. 2^4 <= v + 1 /\ v + 1 < 2^(4 + 1)  BY <1>4
  <2>2. QED  BY <2>1
<1>5. CASE 32 <= v + 1 /\ v + 1 < 64
  <2>1. 2^5 <= v + 1 /\ v + 1 < 2^(5 + 1)  BY <1>5
  <2>2. QED  BY <2>1
<1>6. CASE 64 <= v + 1 /\ v + 1 < 128
  <2>1. 2^6 <= v + 1 /\ v + 1 < 2^(6 + 1)  BY <1>6
  <2>2. QED  BY <2>1
<1>7. CASE 128 <= v + 1 /\ v + 1 < 256
  <2>1. 2^7 <= v + 1 /\ v + 1 < 2^(7 + 1)  BY <1>7
  <2>2. QED  BY <2>1
<1>8. CASE 256 <= v + 1 /\ v + 1 < 512
  <2>1. 2^8 <= v + 1 /\ v + 1 < 2^(8 + 1)  BY <1>8
  <2>2. QED  BY <2>1
<1>9. CASE 512 <= v + 1 /\ v + 1 < 1024
  <2>1. 2^9 <= v + 1 /\ v + 1 < 2^(9 + 1)  BY <1>9
  <2>2. QED  BY <2>1
<1>10. CASE 1024 <= v + 1 /\ v + 1 < 2048
  <2>1. 2^10 <= v + 1 /\ v + 1 < 2^(10 + 1)  BY <1>10
  <2>2. QED  BY <2>1
<1>11. CASE 2048 <= v + 1 /\ v + 1 < 4096
  <2>1. 2^11 <= v + 1 /\ v + 1 < 2^(11 + 1)  BY <1>11
  <2>2. QED  BY <2>1
<1>12. CASE 4096 <= v + 1 /\ v + 1 < 8192
  <2>1. 2^12 <= v + 1 /\ v + 1 < 2^(12 + 1)  BY <1>12
  <2>2. QED  BY <2>1
<1>13. CASE 8192 <= v + 1 /\ v + 1 < 16384
  <2>1. 2^13 <= v + 1 /\ v + 1 < 2^(13 + 1)  BY <1>13
  <2>2. QED  BY <2>1
<1>14. CASE 16384 <= v + 1 /\ v + 1 < 32768
  <2>1. 2^14 <= v + 1 /\ v + 1 < 2^(14 + 1)  BY <1>14
  <2>2. QED  BY <2>1
<1>15. CASE 32768 <= v + 1 /\ v + 1 < 65536
  <2>1. 2^15 <= v + 1 /\ v + 1 < 2^(15 + 1)  BY <1>15
  <2>2. QED  BY <2>1
<1>16. CASE 65536 <= v + 1 /\ v + 1 < 131072
  <2>1. 2^16 <= v + 1 /\ v + 1 < 2^(16 + 1)  BY <1>16
  <2>2. QED  BY <2>1
<1>17. CASE 131072 <= v + 1 /\ v + 1 < 262144
  <2>1. 2^17 <= v + 1 /\ v + 1 < 2^(17 + 1)  BY <1>17
  <2>2. QED  BY <2>1
<1>18. v + 1 \in Nat /\ 1 <= v + 1 /\ v + 1 < 262144  OBVIOUS
<1>19. QED
  BY <1>0, <1>1, <1>2, <1>3, <1>4, <1>5, <1>6, <1>7, <1>8, <1>9, <1>10,
     <1>11, <1>12, <1>13, <1>14, <1>15, <1>16, <1>17, <1>18

LEMMA UETyped ==
  ASSUME NEW v \in Number
  PROVE  UE(v) \in Strings
<1> DEFINE n == Leading(v)
<1>1. n \in 0..31
  <2>1. \E k \in 0..31 : 2^k <= v + 1 /\ v + 1 < 2^(k + 1)
    BY LeadingFound
  <2>2. QED  BY <2>1 DEF Leading
<1>2. UE(v) = Bits(0, n) \o Bits(v + 1, n + 1)  BY DEF UE
<1> HIDE DEF n
<1>3. n \in 0..32 /\ n + 1 \in 0..32 /\ v + 1 \in Int /\ 0 \in Int
  BY <1>1 DEF Number
<1>4. Bits(0, n) \in Strings /\ Bits(v + 1, n + 1) \in Strings
  BY <1>3, BitsTyped
<1>5. QED  BY <1>2, <1>4, Concat

LEMMA SETyped ==
  ASSUME NEW v \in Int, -131072 < v, v < 131072
  PROVE  SE(v) \in Strings
<1>1. Mapped(v) \in Number  BY DEF Mapped, Number
<1>2. QED  BY <1>1, UETyped DEF SE

LEMMA Words ==
  ASSUME NEW v \in Word
  PROVE  v \in Int /\ -32769 < v /\ v < 32768
BY DEF Word

LEMMA SignTyped ==
  ASSUME NEW v
  PROVE  Sign(v) \in Strings
<1>1. <<0>> \in Strings /\ <<1>> \in Strings  BY DEF Strings, Bit
<1>2. Sign(v) = <<1>> \/ Sign(v) = <<0>>  BY DEF Sign
<1>3. QED  BY <1>1, <1>2

LEMMA LevelTyped ==
  ASSUME NEW v \in Word \ {0}
  PROVE  LevelV9(v) \in Strings
<1> DEFINE q == Quotient(v)
           ones == [i \in 1..q |-> 1]
           seven == [i \in 1..7 |-> 1]
<1>1. Abs(v) \in Nat \ {0} /\ Abs(v) < 32769  
  <2>1. v \in Int /\ v # 0 /\ -32769 < v /\ v < 32768  BY Words
  <2>2. QED  BY <2>1 DEF Abs
<1>2. Sign(v) \in Strings /\ <<0>> \in Strings /\ <<1>> \in Strings
  BY SignTyped DEF Strings, Bit
<1>3. CASE Abs(v) = 1
  BY <1>2, <1>3, Concat DEF LevelV9
<1>4. CASE Abs(v) > 1 /\ q < 7
  <2>0. /\ ~(Abs(v) = 1) /\ Abs(v) > 1
        /\ Quotient(v) < 7 /\ ~(Quotient(v) >= 7)
    <3>1. q \in Int  BY <1>1 DEF Quotient
    <3> HIDE DEF q
    <3>2. q < 7 /\ ~(q >= 7)  BY <1>4, <3>1
    <3>3. QED  BY <1>1, <1>4, <3>2 DEF q
  <2>1. LevelV9(v) = <<1>> \o ones \o <<0>> \o Bits((Abs(v) - 2) % 4, 2)
                     \o Sign(v)
    BY <2>0, Zenon DEF LevelV9
  <2>2. q \in Nat  BY <1>1, <1>4 DEF Quotient
  <2>3. (Abs(v) - 2) % 4 \in Int  BY <1>1
  <2>4. Bits((Abs(v) - 2) % 4, 2) \in Strings  BY <2>3, BitsTyped
  <2> HIDE DEF q
  <2>5. ones \in [1..q -> Bit]  BY DEF Bit
  <2>6. ones \in Strings  BY <2>2, <2>5, FunctionSeq DEF Strings
  <2> HIDE DEF ones
  <2>7. QED  BY <1>2, <2>1, <2>4, <2>6, Concat
<1>5. CASE Abs(v) > 1 /\ q >= 7
  <2>1. LevelV9(v) = <<1>> \o seven \o UE(Abs(v) - 30) \o Sign(v)
    BY <1>1, <1>5 DEF LevelV9
  <2>2. Abs(v) - 30 \in Number  BY <1>1, <1>5 DEF Quotient, Number
  <2>3. UE(Abs(v) - 30) \in Strings  BY <2>2, UETyped
  <2>4. seven \in Strings
    <3>1. seven \in [1..7 -> Bit]  BY DEF Bit
    <3>2. QED  BY <3>1, FunctionSeq DEF Strings
  <2> HIDE DEF seven
  <2>5. QED  BY <1>2, <2>1, <2>3, <2>4, Concat
<1>6. Abs(v) = 1 \/ (Abs(v) > 1 /\ q < 7) \/ (Abs(v) > 1 /\ q >= 7)
  <2>1. q \in Int  BY <1>1 DEF Quotient
  <2> HIDE DEF q
  <2>2. QED  BY <1>1, <2>1
<1>7. QED  BY <1>3, <1>4, <1>5, <1>6

\* Differences of vectors.
Near == {d \in Int : -65536 < d /\ d < 65536}

LEMMA VectorTyped ==
  ASSUME NEW mv, mv[1] \in Near, mv[2] \in Near
  PROVE  Vector(mv) \in Strings
<1>1. \A c \in {1, 2} : SE(mv[c]) \in Strings /\ SE(Half(mv[c])) \in Strings
  <2>1. SUFFICES ASSUME NEW v \in Near
                 PROVE  SE(v) \in Strings /\ SE(Half(v)) \in Strings
    OBVIOUS
  <2>2. /\ v \in Int /\ -131072 < v /\ v < 131072
        /\ Half(v) \in Int /\ -131072 < Half(v) /\ Half(v) < 131072
    BY DEF Near, Half
  <2>3. QED  BY <2>2, SETyped
<1>2. <<0>> \in Strings /\ <<1>> \in Strings  BY DEF Strings, Bit
<1>3. QED  BY <1>1, <1>2, Concat DEF Vector

LEMMA JoinedTyped ==
  ASSUME NEW s \in Seq(Strings)
  PROVE  Joined(s) \in Strings
<1> DEFINE n == Len(s)
<1>1. n \in Nat /\ \A i \in 1..n : s[i] \in Strings  OBVIOUS
<1>2. CASE n = 0
  <2>1. Joined(s) = s /\ s = <<>>  BY <1>2 DEF Joined, FlattenSeq
  <2>2. QED  BY <2>1 DEF Strings
<1>3. CASE n # 0
  <2> DEFINE E(x, i) == IF i = 1 THEN s[i] ELSE x \o s[i]
             D == [i \in 0..n |-> Strings]
             step == [i \in 1..n |-> [x \in Strings |-> E(x, i)]]
             Is(f) == f = [i \in 1..n |-> IF i = 1 THEN s[i]
                                          ELSE f[i - 1] \o s[i]]
             c == CHOOSE f : Is(f)
  <2>1. Joined(s) = c[n]  BY <1>3 DEF Joined, FlattenSeq
  <2>2. Steps(step, n, D)
    <3>1. ASSUME NEW i \in 1..n, NEW x \in Strings PROVE E(x, i) \in Strings
      BY <1>1, Concat
    <3> HIDE DEF E
    <3>2. QED  BY <1>1, <3>1 DEF Steps
  <2>3. <<>> \in D[0]  BY <1>1 DEF Strings
  <2> HIDE DEF E
  <2>4. PICK f : Takes(f, n, <<>>, step) /\ Within(f, n, D)
    <3> HIDE DEF D, step
    <3>1. QED  BY <1>1, <2>2, <2>3, Recursion
  <2> DEFINE g == [i \in 1..n |-> f[i]]
  <2>5. ASSUME NEW i \in 1..n
        PROVE  /\ f[i] \in Strings
               /\ f[i] = IF i = 1 THEN s[i] ELSE f[i - 1] \o s[i]
    <3>1. i \in 0..n /\ i - 1 \in 0..n /\ i # 0  BY <1>1
    <3>2. f[i - 1] \in Strings /\ f[i] \in Strings
      BY <2>4, <3>1 DEF Within
    <3>3. f[i] = step[i][f[i - 1]]  BY <2>4, <3>1 DEF Takes
    <3>4. f[i] = E(f[i - 1], i)  BY <3>2, <3>3
    <3>5. QED  BY <3>2, <3>4 DEF E
  <2>6. ASSUME NEW i \in 1..n
        PROVE  g[i] = IF i = 1 THEN s[i] ELSE g[i - 1] \o s[i]
    <3>1. CASE i = 1  BY <2>5, <3>1
    <3>2. CASE i # 1
      <4>1. i - 1 \in 1..n  BY <1>1, <3>2
      <4>2. g[i] = f[i] /\ g[i - 1] = f[i - 1]  BY <4>1
      <4>3. QED  BY <2>5, <3>2, <4>2
    <3>3. QED  BY <3>1, <3>2
  <2>7. Is(g)
    <3>1. g = [i \in 1..n |-> g[i]]  OBVIOUS
    <3> HIDE DEF g
    <3>2. QED  BY <2>6, <3>1
  <2>8. Is(c)  BY <2>7
  <2> DEFINE T == {i \in 0..n : i # 0 => c[i] \in Strings}
  <2>9. ASSUME NEW i \in 1..n, i - 1 \in T PROVE i \in T
    <3> HIDE DEF c
    <3>1. c[i] = IF i = 1 THEN s[i] ELSE c[i - 1] \o s[i]  BY <2>8
    <3>2. i # 1 => c[i - 1] \in Strings  BY <2>9
    <3>3. QED  BY <1>1, <3>1, <3>2, Concat
  <2>10. 0 \in T  BY <1>1
  <2> HIDE DEF T
  <2>11. 0..n \subseteq T  BY <1>1, <2>9, <2>10, UpTo
  <2>12. n \in T  BY <1>1, <2>11
  <2>13. QED  BY <1>3, <2>1, <2>12 DEF T
<1>4. QED  BY <1>2, <1>3

\* What is joined of strings for every k of 1..n.
LEMMA EachTyped ==
  ASSUME NEW n \in Nat, NEW s \in [1..n -> Strings]
  PROVE  Joined(s) \in Strings
BY FunctionSeq, JoinedTyped

LEMMA BytesTyped ==
  ASSUME NEW n \in Nat, NEW values \in [1..n -> Int]
  PROVE  Bytes(values) \in Strings
<1>1. Len(values) = n  BY FunctionSeq
<1>2. ASSUME NEW i \in 1..n PROVE Bits(values[i] % 256, 8) \in Strings
  <2>1. values[i] % 256 \in Int  OBVIOUS
  <2>2. QED  BY <2>1, BitsTyped
<1>3. [i \in 1..n |-> Bits(values[i] % 256, 8)] \in [1..n -> Strings]
  BY <1>2
<1>4. QED  BY <1>1, <1>3, EachTyped DEF Bytes

LEMMA AlignedTyped ==
  ASSUME NEW s \in Strings
  PROVE  Aligned(s) \in Strings
<1> DEFINE n == (8 - (Len(s) % 8)) % 8
<1>1. Len(s) \in Nat  BY DEF Strings
<1>2. n \in 0..32
  <2>1. Len(s) % 8 \in 0..7  BY <1>1
  <2> DEFINE d == 8 - (Len(s) % 8)
  <2>2. d \in 1..8  BY <2>1
  <2> HIDE DEF d
  <2>3. d % 8 \in 0..32  BY <2>2
  <2>4. QED  BY <2>3 DEF d
<1>3. Aligned(s) = s \o Bits(0, n)  BY DEF Aligned
<1> HIDE DEF n
<1>4. Bits(0, n) \in Strings  BY <1>2, BitsTyped
<1>5. QED  BY <1>3, <1>4, Concat

LEMMA BitTyped ==
  ASSUME NEW b \in Bit
  PROVE  <<b>> \in Strings
BY DEF Strings

Block == [1..Scan -> Word]

\* The positions below i of the levels of block b.
Rising(b, i) ==
  {s \in Seq(1..i) :
     /\ Len(s) <= i
     /\ \A k \in 1..Len(s) : b[s[k]] # 0
     /\ \A k \in 2..Len(s) : s[k - 1] < s[k]}

LEMMA RisingFacts ==
  ASSUME NEW b, NEW i \in Nat, NEW s \in Rising(b, i)
  PROVE  /\ s \in Seq(1..i) /\ Len(s) \in Nat /\ Len(s) <= i
         /\ \A k \in 1..Len(s) : s[k] \in 1..i /\ b[s[k]] # 0
         /\ \A k \in 2..Len(s) : s[k - 1] < s[k]
BY DEF Rising

LEMMA RisingNext ==
  ASSUME NEW b, NEW i \in Nat \ {0}, NEW s \in Rising(b, i - 1)
  PROVE  (IF b[i] = 0 THEN s ELSE Append(s, i)) \in Rising(b, i)
<1> DEFINE n == Len(s)
<1>1. /\ s \in Seq(1..(i - 1)) /\ n \in Nat /\ n <= i - 1
      /\ \A k \in 1..n : s[k] \in 1..(i - 1) /\ b[s[k]] # 0
      /\ \A k \in 2..n : s[k - 1] < s[k]
  BY DEF Rising
<1>2. s \in [1..n -> 1..i]
  <2>1. s = [k \in 1..n |-> s[k]]  BY <1>1
  <2>2. \A k \in 1..n : s[k] \in 1..i  BY <1>1
  <2>3. QED  BY <2>1, <2>2
<1>3. s \in Seq(1..i)  BY <1>1, <1>2, FunctionSeq
<1>4. CASE b[i] = 0
  <2>1. s \in Rising(b, i)  BY <1>1, <1>3 DEF Rising
  <2>2. QED  BY <1>4, <2>1
<1>5. CASE b[i] # 0
  <2> DEFINE t == Append(s, i)
  <2>1. /\ t \in Seq(1..i) /\ Len(t) = n + 1 /\ t[n + 1] = i
        /\ \A k \in 1..n : t[k] = s[k]
    BY <1>1, <1>3, AppendProperties
  <2> HIDE DEF t
  <2>2. ASSUME NEW k \in 1..(n + 1) PROVE b[t[k]] # 0
    <3>1. k = n + 1 \/ k \in 1..n  BY <1>1
    <3>2. QED  BY <1>1, <1>5, <2>1, <3>1
  <2>3. ASSUME NEW k \in 2..(n + 1) PROVE t[k - 1] < t[k]
    <3>1. CASE k = n + 1
      <4>1. n \in 1..n /\ k - 1 = n  BY <1>1, <3>1
      <4>2. t[k - 1] = s[n] /\ s[n] \in 1..(i - 1)  BY <1>1, <2>1, <4>1
      <4>3. QED  BY <2>1, <3>1, <4>2
    <3>2. CASE k \in 2..n
      <4>1. k \in 1..n /\ k - 1 \in 1..n  BY <1>1, <3>2
      <4>2. QED  BY <1>1, <2>1, <3>2, <4>1
    <3>3. QED  BY <1>1, <3>1, <3>2
  <2>4. t \in Rising(b, i)  BY <1>1, <2>1, <2>2, <2>3 DEF Rising
  <2>5. QED  BY <1>5, <2>4 DEF t
<1>6. QED  BY <1>4, <1>5

LEMMA PositionsTyped ==
  ASSUME NEW b
  PROVE  Positions(b) \in Rising(b, Scan)
<1> DEFINE n == Scan
           E(s, i) == IF b[i] = 0 THEN s ELSE Append(s, i)
           D == [i \in 0..n |-> Rising(b, i)]
           step == [i \in 1..n |-> [s \in D[i - 1] |-> E(s, i)]]
           Is(f) == f = [i \in 0..n |-> IF i = 0 THEN <<>>
                                        ELSE E(f[i - 1], i)]
           c == CHOOSE f : Is(f)
<1>0. n \in Nat  BY PictureAssumption
<1>1. ASSUME NEW i \in 1..n, NEW s \in D[i - 1]
      PROVE  E(s, i) \in D[i]
  <2>1. s \in Rising(b, i - 1) /\ i \in Nat \ {0}  BY <1>0
  <2>2. QED  BY <1>0, <2>1, RisingNext
<1>2. <<>> \in D[0]  BY <1>0 DEF Rising
<1>3. Positions(b) = c[n]
  <2>1. \A s, i : E(s, i) = IF b[i] = 0 THEN s ELSE Append(s, i)
    OBVIOUS
  <2>2. QED  BY DEF Positions
<1> HIDE DEF E
<1>4. Steps(step, n, D)
  BY <1>1 DEF Steps
<1>5. PICK f : Takes(f, n, <<>>, step) /\ Within(f, n, D)
  <2> HIDE DEF D, step, n
  <2>1. QED  BY <1>0, <1>2, <1>4, Recursion
<1>6. ASSUME NEW i \in 0..n
      PROVE  f[i] = IF i = 0 THEN <<>> ELSE E(f[i - 1], i)
  <2>1. CASE i \in 1..n
    <3>1. i - 1 \in 0..n /\ i \in 0..n /\ i # 0  BY <1>0, <2>1
    <3>2. f[i] = step[i][f[i - 1]]  BY <1>5, <3>1 DEF Takes
    <3>3. f[i - 1] \in D[i - 1]  BY <1>5, <3>1 DEF Within
    <3> HIDE DEF D
    <3>4. QED  BY <2>1, <3>1, <3>2, <3>3
  <2>2. CASE i = 0  BY <1>5, <2>2 DEF Takes
  <2>3. QED  BY <1>0, <2>1, <2>2
<1>7. f = [i \in 0..n |-> f[i]]  BY <1>5 DEF Takes
<1>8. Is(f)  BY <1>6, <1>7
<1>9. Is(c)  BY <1>8
<1>10. Parallel(c, f, n)
  <2> HIDE DEF c
  <2>1. /\ c = [i \in 0..n |-> IF i = 0 THEN <<>> ELSE E(c[i - 1], i)]
        /\ f = [i \in 0..n |-> IF i = 0 THEN <<>> ELSE E(f[i - 1], i)]
    BY <1>8, <1>9
  <2> HIDE DEF n
  <2>2. QED  BY <1>0, <2>1 DEF Parallel
<1> HIDE DEF c
<1>11. c[n] = f[n] /\ f[n] \in D[n]  BY <1>0, <1>5, <1>10, Alike DEF Within
<1>12. D[n] = Rising(b, n)  BY <1>0
<1>13. QED  BY <1>3, <1>11, <1>12

\* The positions of a block that has levels.
LEMMA CodedPositions ==
  ASSUME NEW b \in Block, Coded(b)
  PROVE  LET p == Positions(b)
         IN  /\ p \in Seq(1..Scan) /\ Len(p) \in 1..16
             /\ \A k \in 1..Len(p) : /\ b[p[k]] \in Word \ {0}
                                     /\ RunBefore(p, k) \in 0..16
<1> DEFINE p == Positions(b)
<1>1. Scan \in 1..16  BY PictureAssumption
<1>2. p \in Rising(b, Scan)  BY PositionsTyped
<1>3. p # <<>>  BY DEF Coded
<1> HIDE DEF p
<1>4. /\ p \in Seq(1..Scan) /\ Len(p) \in Nat /\ Len(p) <= Scan
      /\ \A k \in 1..Len(p) : p[k] \in 1..Scan /\ b[p[k]] # 0
      /\ \A k \in 2..Len(p) : p[k - 1] < p[k]
  <2>1. Scan \in Nat  BY <1>1
  <2>2. QED  BY <1>2, <2>1, RisingFacts
<1>5. Len(p) # 0  BY <1>3, <1>4
<1>6. ASSUME NEW k \in 1..Len(p)
      PROVE  b[p[k]] \in Word \ {0} /\ RunBefore(p, k) \in 0..16
  <2>1. p[k] \in 1..Scan /\ b[p[k]] # 0  BY <1>4
  <2>2. b[p[k]] \in Word  BY <2>1 DEF Block
  <2>3. CASE k = 1
    <3>1. RunBefore(p, k) = p[k] - 1  BY <1>1, <2>1, <2>3 DEF RunBefore
    <3>2. p[k] - 1 \in 0..16
      <4> DEFINE j == p[k]
      <4> HIDE DEF j
      <4>1. j \in 1..Scan  BY <2>1 DEF j
      <4>2. j - 1 \in 0..16  BY <1>1, <4>1
      <4>3. QED  BY <4>2 DEF j
    <3>3. QED  BY <2>1, <2>2, <3>1, <3>2
  <2>4. CASE k # 1
    <3>1. k - 1 \in 1..Len(p) /\ k \in 2..Len(p)  BY <1>4, <2>4
    <3>2. p[k - 1] \in 1..Scan /\ p[k - 1] < p[k]  BY <1>4, <3>1
    <3>3. RunBefore(p, k) = p[k] - p[k - 1] - 1
      BY <2>4 DEF RunBefore
    <3>4. p[k] - p[k - 1] - 1 \in 0..16
      <4> DEFINE j == p[k]
                 i == p[k - 1]
      <4> HIDE DEF i, j
      <4>1. j \in 1..Scan /\ i \in 1..Scan /\ i < j
        BY <2>1, <3>2 DEF i, j
      <4>2. j - i - 1 \in 0..16  BY <1>1, <4>1
      <4>3. QED  BY <4>2 DEF i, j
    <3>5. QED  BY <2>1, <2>2, <3>3, <3>4
  <2>5. QED  BY <2>3, <2>4
<1>7. Len(p) \in 1..16
  <2> DEFINE n == Len(p)
  <2>1. n \in Nat /\ n <= Scan /\ n # 0  BY <1>4, <1>5
  <2> HIDE DEF n
  <2>2. n \in 1..16  BY <1>1, <2>1
  <2>3. QED  BY <2>2 DEF n
<1>8. QED  BY <1>4, <1>6, <1>7 DEF p

LEMMA CoefficientsTyped ==
  ASSUME NEW b \in Block, Coded(b), NEW coeff_mode
  PROVE  Coefficients(b, coeff_mode) \in Strings
<1> DEFINE p == Positions(b)
           each == [k \in 1..Len(p) |->
                      UE(RunBefore(p, k)) \o Level(b[p[k]], coeff_mode)]
<1>1. /\ p \in Seq(1..Scan) /\ Len(p) \in 1..16
      /\ \A k \in 1..Len(p) : /\ b[p[k]] \in Word \ {0}
                              /\ RunBefore(p, k) \in 0..16
  BY CodedPositions
<1>2. Coefficients(b, coeff_mode) = UE(Len(p) - 1) \o Joined(each)
  BY DEF Coefficients
<1> HIDE DEF p
<1>3. ASSUME NEW k \in 1..Len(p)
      PROVE  UE(RunBefore(p, k)) \o Level(b[p[k]], coeff_mode) \in Strings
  <2>1. UE(RunBefore(p, k)) \in Strings
    <3>1. RunBefore(p, k) \in Number  BY <1>1 DEF Number
    <3>2. QED  BY <3>1, UETyped
  <2> DEFINE v == b[p[k]]
  <2>2. v \in Word \ {0}  BY <1>1
  <2> HIDE DEF v
  <2>3. v \in Int /\ -131072 < v /\ v < 131072  BY <2>2, Words
  <2>4. Level(v, coeff_mode) \in Strings
    BY <2>2, <2>3, SETyped, LevelTyped DEF Level
  <2>5. QED  BY <2>1, <2>4, Concat DEF v
<1>4. each \in [1..Len(p) -> Strings] /\ Len(p) \in Nat  BY <1>1, <1>3
<1> HIDE DEF each
<1>5. Joined(each) \in Strings  BY <1>4, EachTyped
<1>6. UE(Len(p) - 1) \in Strings
  <2> DEFINE n == Len(p)
  <2>1. n - 1 \in Number
    <3>1. n \in 1..16  BY <1>1
    <3> HIDE DEF n
    <3>2. QED  BY <3>1 DEF Number
  <2>2. QED  BY <2>1, UETyped
<1>7. QED  BY <1>2, <1>5, <1>6, Concat

LEMMA BlockTyped ==
  ASSUME NEW b \in Block, Coded(b)
  PROVE  Legacy(b) \in Strings /\ BlockV9(b) \in Strings
<1>1. Legacy(b) \in Strings  BY CoefficientsTyped DEF Legacy
<1>2. <<0>> \in Strings /\ <<1>> \in Strings  BY BitTyped DEF Bit
<1>3. CASE Positions(b) = <<1>>
  <2> DEFINE p == Positions(b)
  <2>1. \A k \in 1..Len(p) : b[p[k]] \in Word \ {0}  BY CodedPositions
  <2>2. Len(p) = 1 /\ p[1] = 1  BY <1>3
  <2>3. b[1] \in Word \ {0}  BY <2>1, <2>2
  <2>4. LevelV9(b[1]) \in Strings  BY <2>3, LevelTyped
  <2>5. QED  BY <1>1, <1>2, <1>3, <2>4, Concat DEF BlockV9
<1>4. CASE Positions(b) # <<1>>
  <2>1. Coefficients(b, 1) \in Strings  BY CoefficientsTyped
  <2>2. QED  BY <1>1, <1>2, <1>4, <2>1, Concat DEF BlockV9
<1>5. QED  BY <1>3, <1>4

LEMMA GroupTyped ==
  ASSUME NEW n \in Nat, NEW res \in [1..n -> Block]
  PROVE  Group(res) \in Strings
<1> DEFINE legacies == [k \in 1..n |->
             IF Coded(res[k]) THEN Legacy(res[k]) ELSE <<>>]
           v9s == [k \in 1..n |->
             IF Coded(res[k]) THEN BlockV9(res[k]) ELSE <<>>]
           legacy == Joined(legacies)
           v9 == Joined(v9s)
           use_v9 == Len(v9) < Len(legacy)
           first == <<IF use_v9 THEN 1 ELSE 0>>
           mask == [i \in 1..n |-> IF Coded(res[n + 1 - i]) THEN 1 ELSE 0]
<1>1. Len(res) = n  BY FunctionSeq
<1>2. Group(res) = first \o mask \o (IF use_v9 THEN v9 ELSE legacy)
  BY <1>1 DEF Group
<1>3. legacies \in [1..n -> Strings] /\ v9s \in [1..n -> Strings]
  <2>1. <<>> \in Strings  BY DEF Strings
  <2>2. ASSUME NEW k \in 1..n
        PROVE  /\ (IF Coded(res[k]) THEN Legacy(res[k]) ELSE <<>>) \in Strings
               /\ (IF Coded(res[k]) THEN BlockV9(res[k]) ELSE <<>>) \in Strings
    <3>1. res[k] \in Block  OBVIOUS
    <3>2. QED  BY <2>1, <3>1, BlockTyped
  <2>3. QED  BY <2>2
<1> HIDE DEF legacies, v9s
<1>4. legacy \in Strings /\ v9 \in Strings  BY <1>3, EachTyped
<1>5. mask \in Strings
  <2>1. mask \in [1..n -> Bit]  BY DEF Bit
  <2>2. QED  BY <2>1, FunctionSeq DEF Strings
<1> HIDE DEF legacy, v9, mask, use_v9
<1>6. first \in Strings
  <2>1. (IF use_v9 THEN 1 ELSE 0) \in Bit  BY DEF Bit
  <2>2. QED  BY <2>1, BitTyped
<1> HIDE DEF first
<1>7. (IF use_v9 THEN v9 ELSE legacy) \in Strings  BY <1>4
<1>8. QED  BY <1>2, <1>5, <1>6, <1>7, Concat

LEMMA ResidualTyped ==
  ASSUME NEW n \in Nat, NEW res \in [1..n -> Block]
  PROVE  Residual(res) \in Strings
<1> DEFINE none == \A k \in 1..n : ~Coded(res[k])
           each == [k \in 1..n |->
             IF Coded(res[k]) THEN <<1>> \o Legacy(res[k]) ELSE <<0>>]
<1>1. Len(res) = n  BY FunctionSeq
<1>2. Residual(res) = IF none THEN <<0>>
                      ELSE <<1>> \o (IF picture.q >= 64 THEN Group(res)
                                     ELSE Joined(each))
  BY <1>1 DEF Residual
<1>3. <<0>> \in Strings /\ <<1>> \in Strings  BY BitTyped DEF Bit
<1>4. each \in [1..n -> Strings]
  <2>1. ASSUME NEW k \in 1..n
        PROVE  (IF Coded(res[k]) THEN <<1>> \o Legacy(res[k]) ELSE <<0>>)
                 \in Strings
    <3>1. res[k] \in Block  OBVIOUS
    <3>2. QED  BY <1>3, <3>1, BlockTyped, Concat
  <2>2. QED  BY <2>1
<1> HIDE DEF none, each
<1>5. Joined(each) \in Strings  BY <1>4, EachTyped
<1>6. Group(res) \in Strings  BY GroupTyped
<1>7. QED  BY <1>2, <1>3, <1>5, <1>6, Concat

\* A vector of 16-bit numbers.
IsWords(mv) == mv[1] \in Word /\ mv[2] \in Word

LEMMA FallbackTyped ==
  ASSUME picture \in Frames
  PROVE  IsWords(Fallback)
<1>1. picture.global \in Word \X Word  BY DEF Frames
<1>2. 0 \in Word  BY DEF Word
<1>3. IsWords(Zero) /\ IsWords(<<0, 0>>)  BY <1>2 DEF Zero, IsWords
<1>4. IsWords(picture.global)  BY <1>1 DEF IsWords
<1>5. Fallback = picture.global \/ Fallback = <<0, 0>>  BY DEF Fallback
<1>6. QED  BY <1>3, <1>4, <1>5

LEMMA DifferenceTyped ==
  ASSUME NEW a, NEW b, IsWords(a), IsWords(b)
  PROVE  Vector(Difference(a, b)) \in Strings
<1>1. ASSUME NEW c \in {1, 2} PROVE Difference(a, b)[c] \in Near
  <2> DEFINE x == a[c]
             y == b[c]
  <2>1. Difference(a, b)[c] = x - y  BY DEF Difference
  <2>2. x \in Word /\ y \in Word  BY DEF IsWords
  <2> HIDE DEF x, y
  <2>3. /\ x \in Int /\ -32769 < x /\ x < 32768
        /\ y \in Int /\ -32769 < y /\ y < 32768
    BY <2>2, Words
  <2>4. QED  BY <2>1, <2>3 DEF Near
<1> DEFINE d == Difference(a, b)
<1>2. d[1] \in Near /\ d[2] \in Near  BY <1>1
<1> HIDE DEF d
<1>3. Vector(d) \in Strings  BY <1>2, VectorTyped
<1>4. QED  BY <1>3 DEF d

LEMMA PartTyped ==
  ASSUME picture \in Frames, NEW p, p.inter \in BOOLEAN,
         p.inter => p.mv \in Word \X Word
  PROVE  Part(p) \in Strings
<1>1. <<0>> \in Strings /\ <<1>> \in Strings  BY BitTyped DEF Bit
<1>2. CASE ~p.inter  BY <1>1, <1>2 DEF Part
<1>3. CASE p.inter
  <2>1. IsWords(p.mv)  BY <1>3 DEF IsWords
  <2>2. Vector(Difference(p.mv, Fallback)) \in Strings
    BY <2>1, FallbackTyped, DifferenceTyped
  <2>3. QED  BY <1>1, <1>3, <2>2, Concat DEF Part
<1>4. QED  BY <1>2, <1>3

LEMMA ModeTyped ==
  ASSUME NEW mode \in DOMAIN ModeCode
  PROVE  Mode(mode) \in Strings
<1>1. ModeCode[mode] \in Int  BY DEF ModeCode
<1>2. QED  BY <1>1, BitsTyped DEF Mode

LEMMA PackedTyped ==
  ASSUME NEW n \in {6, 7}, NEW row \in [1..Samples -> Int], NEW k \in Nat
  PROVE  PackedBit(row, n, k) \in Bit
<1>0. Samples \in Nat  BY PictureAssumption
<1>1. Len(row) = Samples  BY <1>0, FunctionSeq
<1>2. CASE ~(k < n * Samples)  BY <1>1, <1>2 DEF PackedBit, Bit
<1>3. CASE k < n * Samples
  <2> DEFINE j == (k \div n) + 1
             x == row[j]
             p == 2^(k % n)
  <2>1. PackedBit(row, n, k) = (x \div p) % 2
    BY <1>1, <1>3 DEF PackedBit
  <2>2. j \in 1..Samples
    <3>1. CASE n = 6  BY <1>0, <1>3, <3>1
    <3>2. CASE n = 7  BY <1>0, <1>3, <3>2
    <3>3. QED  BY <3>1, <3>2
  <2>3. p \in Nat \ {0}
    <3>1. k % n \in 0..32
      <4>1. CASE n = 6  BY <4>1
      <4>2. CASE n = 7  BY <4>2
      <4>3. QED  BY <4>1, <4>2
    <3>2. QED  BY <3>1, Powers
  <2> HIDE DEF j
  <2>4. x \in Int  BY <2>2
  <2> HIDE DEF x, p
  <2>5. x \div p \in Int  BY <2>3, <2>4
  <2>6. (x \div p) % 2 \in Bit  BY <2>5 DEF Bit
  <2>7. QED  BY <2>1, <2>6
<1>4. QED  BY <1>2, <1>3

LEMMA RowTyped ==
  ASSUME NEW n \in {6, 7}, NEW row \in [1..Samples -> Int]
  PROVE  LiteralRow(row, n) \in Strings
<1> DEFINE bytes == (Samples * n + 7) \div 8
           bit(i) == PackedBit(row, n, 8 * ((i - 1) \div 8) + 7 - ((i - 1) % 8))
<1>0. Samples \in Nat  BY PictureAssumption
<1>1. Len(row) = Samples  BY <1>0, FunctionSeq
<1>2. LiteralRow(row, n) = [i \in 1..(8 * bytes) |-> bit(i)]
  BY <1>1 DEF LiteralRow
<1>3. 8 * bytes \in Nat
  <2>1. CASE n = 6  BY <1>0, <2>1
  <2>2. CASE n = 7  BY <1>0, <2>2
  <2>3. QED  BY <2>1, <2>2
<1> HIDE DEF bytes
<1>4. ASSUME NEW i \in 1..(8 * bytes) PROVE bit(i) \in Bit
  <2>0. i - 1 \in Nat  BY <1>3
  <2>1. 8 * ((i - 1) \div 8) + 7 - ((i - 1) % 8) \in Nat  BY <2>0
  <2>2. QED  BY <2>1, PackedTyped
<1> HIDE DEF bit
<1>5. [i \in 1..(8 * bytes) |-> bit(i)] \in [1..(8 * bytes) -> Bit]
  BY <1>4
<1>6. QED  BY <1>2, <1>3, <1>5, FunctionSeq DEF Strings

LEMMA Bytes8 == Byte \subseteq Int /\ SignedByte \subseteq Int
BY DEF Byte, SignedByte

LEMMA IsResidues ==
  ASSUME NEW n \in Nat, NEW res \in Residues(n)
  PROVE  Residual(res) \in Strings
<1>1. res \in [1..n -> Block]  BY DEF Residues, Block
<1>2. QED  BY <1>1, ResidualTyped

\* The macroblocks of every mode.
LEMMA InterTyped ==
  ASSUME NEW m \in [mode : {"INTER"}, mv : Word \X Word, res : Residues(Blocks)],
         NEW predicted, IsWords(predicted)
  PROVE  Macroblock(m, predicted) \in Strings
<1>1. m.mode = "INTER" /\ m.mv \in Word \X Word /\ m.res \in Residues(Blocks)
  OBVIOUS
<1>2. Macroblock(m, predicted)
        = Mode("INTER") \o (Vector(Difference(m.mv, predicted)) \o Residual(m.res))
  BY <1>1 DEF Macroblock
<1>3. Mode("INTER") \in Strings  BY ModeTyped DEF ModeCode
<1>4. IsWords(m.mv)  BY <1>1 DEF IsWords
<1>5. Vector(Difference(m.mv, predicted)) \in Strings
  BY <1>4, DifferenceTyped
<1>6. Residual(m.res) \in Strings  BY <1>1, IsResidues DEF Blocks
<1>7. QED  BY <1>2, <1>3, <1>5, <1>6, Concat

LEMMA GlobalTyped ==
  ASSUME NEW m \in [mode : {"GLOBAL"}, res : Residues(Blocks)], NEW predicted
  PROVE  Macroblock(m, predicted) \in Strings
<1>1. m.mode = "GLOBAL" /\ m.res \in Residues(Blocks)  OBVIOUS
<1>2. Macroblock(m, predicted) = Mode("GLOBAL") \o Residual(m.res)
  BY <1>1 DEF Macroblock
<1>3. Mode("GLOBAL") \in Strings  BY ModeTyped DEF ModeCode
<1>4. Residual(m.res) \in Strings  BY <1>1, IsResidues DEF Blocks
<1>5. QED  BY <1>2, <1>3, <1>4, Concat

LEMMA SplitInterTyped ==
  ASSUME picture \in Frames,
         NEW m \in [mode : {"SPLIT_INTER"},
                    parts : SplitParts(4, [inter : {TRUE}, mv : Word \X Word,
                                           res : Residues(SubBlocks)])],
         NEW predicted
  PROVE  Macroblock(m, predicted) \in Strings
<1> DEFINE moved == [inter : {TRUE}, mv : Word \X Word, res : Residues(SubBlocks)]
           each == [k \in 1..4 |-> Part(m.parts[k]) \o
                      IF m.parts[k].inter THEN Residual(m.parts[k].res) ELSE <<>>]
<1>1. m.mode = "SPLIT_INTER" /\ m.parts \in [1..4 -> [inter : {FALSE}] \cup moved]
  BY DEF SplitParts
<1>2. Macroblock(m, predicted) = Mode("SPLIT_INTER") \o Joined(each)
  BY <1>1 DEF Macroblock
<1>3. Mode("SPLIT_INTER") \in Strings  BY ModeTyped DEF ModeCode
<1>4. ASSUME NEW k \in 1..4
      PROVE  (Part(m.parts[k]) \o
                IF m.parts[k].inter THEN Residual(m.parts[k].res) ELSE <<>>)
               \in Strings
  <2> DEFINE p == m.parts[k]
  <2>1. p \in [inter : {FALSE}] \cup moved  BY <1>1
  <2> HIDE DEF p
  <2>2. /\ p.inter \in BOOLEAN
        /\ p.inter => p.mv \in Word \X Word /\ p.res \in Residues(SubBlocks)
    BY <2>1
  <2>3. Part(p) \in Strings  BY <2>2, PartTyped
  <2>4. p.inter => Residual(p.res) \in Strings
    BY <2>2, IsResidues DEF SubBlocks
  <2>5. <<>> \in Strings  BY DEF Strings
  <2>6. (Part(p) \o IF p.inter THEN Residual(p.res) ELSE <<>>) \in Strings
    BY <2>3, <2>4, <2>5, Concat
  <2>7. QED  BY <2>6 DEF p
<1>5. each \in [1..4 -> Strings]  BY <1>4
<1> HIDE DEF each
<1>6. Joined(each) \in Strings  BY <1>5, EachTyped
<1>7. QED  BY <1>2, <1>3, <1>6, Concat

LEMMA PartsTyped ==
  ASSUME picture \in Frames, NEW n \in Nat, NEW m,
         m.parts \in SplitParts(n, MovedParts)
  PROVE  Joined(Parts(m)) \in Strings
<1>1. m.parts \in [1..n -> [inter : {FALSE}] \cup MovedParts]
  BY DEF SplitParts
<1>2. Len(m.parts) = n  BY <1>1, FunctionSeq
<1>3. ASSUME NEW k \in 1..n PROVE Part(m.parts[k]) \in Strings
  <2> DEFINE p == m.parts[k]
  <2>1. p \in [inter : {FALSE}] \cup MovedParts  BY <1>1
  <2> HIDE DEF p
  <2>2. p.inter \in BOOLEAN /\ (p.inter => p.mv \in Word \X Word)
    BY <2>1 DEF MovedParts
  <2>3. Part(p) \in Strings  BY <2>2, PartTyped
  <2>4. QED  BY <2>3 DEF p
<1>4. Parts(m) = [k \in 1..n |-> Part(m.parts[k])]  BY <1>2 DEF Parts
<1>5. Parts(m) \in [1..n -> Strings]  BY <1>3, <1>4
<1>6. QED  BY <1>5, EachTyped

LEMMA SplitJointTyped ==
  ASSUME picture \in Frames,
         NEW m \in [mode : {"SPLIT_JOINT"}, parts : SplitParts(4, MovedParts),
                    res : Residues(Blocks)],
         NEW predicted
  PROVE  Macroblock(m, predicted) \in Strings
<1>1. /\ m.mode = "SPLIT_JOINT" /\ m.parts \in SplitParts(4, MovedParts)
      /\ m.res \in Residues(Blocks)
  OBVIOUS
<1>2. Macroblock(m, predicted)
        = Mode("SPLIT_JOINT") \o (Joined(Parts(m)) \o Residual(m.res))
  BY <1>1 DEF Macroblock
<1>3. Mode("SPLIT_JOINT") \in Strings  BY ModeTyped DEF ModeCode
<1>4. Residual(m.res) \in Strings  BY <1>1, IsResidues DEF Blocks
<1>5. Joined(Parts(m)) \in Strings  BY <1>1, PartsTyped
<1>6. QED  BY <1>2, <1>3, <1>4, <1>5, Concat

LEMMA RectTyped ==
  ASSUME picture \in Frames,
         NEW m \in [mode : {"RECT_SPLIT"}, vertical : BOOLEAN,
                    parts : SplitParts(2, MovedParts), res : Residues(Blocks)],
         NEW predicted
  PROVE  Macroblock(m, predicted) \in Strings
<1> DEFINE b == IF m.vertical THEN 1 ELSE 0
<1>1. /\ m.mode = "RECT_SPLIT" /\ m.parts \in SplitParts(2, MovedParts)
      /\ m.res \in Residues(Blocks)
  OBVIOUS
<1>2. Macroblock(m, predicted)
        = Mode("RECT_SPLIT") \o (<<b>> \o Joined(Parts(m)) \o Residual(m.res))
  BY <1>1 DEF Macroblock
<1>3. Mode("RECT_SPLIT") \in Strings  BY ModeTyped DEF ModeCode
<1>4. Residual(m.res) \in Strings  BY <1>1, IsResidues DEF Blocks
<1>5. Joined(Parts(m)) \in Strings  BY <1>1, PartsTyped
<1>6. b \in Bit  BY DEF Bit
<1> HIDE DEF b
<1>7. <<b>> \in Strings  BY <1>6, BitTyped
<1>8. QED  BY <1>2, <1>3, <1>4, <1>5, <1>7, Concat

LEMMA IntraTyped ==
  ASSUME NEW m \in [mode : {"INTRA"}, intra_mode : 0..3, res : Residues(Blocks)],
         NEW predicted
  PROVE  Macroblock(m, predicted) \in Strings
<1>1. m.mode = "INTRA" /\ m.intra_mode \in Int /\ m.res \in Residues(Blocks)
  OBVIOUS
<1>2. Macroblock(m, predicted)
        = Mode("INTRA") \o (Bits(m.intra_mode, 2) \o Residual(m.res))
  BY <1>1 DEF Macroblock
<1>3. Mode("INTRA") \in Strings  BY ModeTyped DEF ModeCode
<1>4. Residual(m.res) \in Strings  BY <1>1, IsResidues DEF Blocks
<1>5. Bits(m.intra_mode, 2) \in Strings  BY <1>1, BitsTyped
<1>6. QED  BY <1>2, <1>3, <1>4, <1>5, Concat

\* FILL and GRADIENT.
Planes(m, n) ==
  /\ m.mode \in {"FILL", "GRADIENT"}
  /\ m.planes \in [1..n -> Int]
  /\ m.res \in Residues(Blocks)

LEMMA PlanesTyped ==
  ASSUME NEW m, NEW n \in Nat, Planes(m, n), NEW predicted
  PROVE  Macroblock(m, predicted) \in Strings
<1>1. Macroblock(m, predicted)
        = Mode(m.mode) \o (Bytes(m.planes) \o Residual(m.res))
  BY DEF Macroblock, Planes
<1>2. Mode(m.mode) \in Strings  BY ModeTyped DEF ModeCode, Planes
<1>3. Residual(m.res) \in Strings  BY IsResidues DEF Blocks, Planes
<1>4. Bytes(m.planes) \in Strings  BY BytesTyped DEF Planes
<1>5. QED  BY <1>1, <1>2, <1>3, <1>4, Concat

LEMMA PaletteTyped ==
  ASSUME NEW n \in {2, 4, 8}, NEW m \in Palettes(n), NEW predicted
  PROVE  Macroblock(m, predicted) \in Strings
<1> DEFINE code == CASE m.count = 2 -> 0 [] m.count = 4 -> 1 [] OTHER -> 2
           each == [i \in 1..Samples |-> Bits(m.index[i], IndexBits(m.count))]
<1>0. Samples \in Nat  BY PictureAssumption
<1>1. /\ m.mode = "PALETTE" /\ m.count = n
      /\ m.colors \in [1..(3 * n) -> Int]
      /\ m.index \in [1..Samples -> Int]
  <2>1. m.colors \in [1..(3 * n) -> Byte]  BY DEF Palettes
  <2>2. m.index \in [1..Samples -> 0..(n - 1)]  BY DEF Palettes
  <2>3. 0..(n - 1) \subseteq Int  OBVIOUS
  <2>4. m.colors \in [1..(3 * n) -> Int]  BY <2>1, Bytes8
  <2>5. m.index \in [1..Samples -> Int]  BY <2>2, <2>3
  <2>6. m.mode = "PALETTE" /\ m.count = n  BY DEF Palettes
  <2>7. QED  BY <2>4, <2>5, <2>6
<1>2. Macroblock(m, predicted)
        = Mode("PALETTE") \o (Bits(code, 2) \o Bytes(m.colors) \o Joined(each))
  BY <1>1 DEF Macroblock
<1>3. Mode("PALETTE") \in Strings  BY ModeTyped DEF ModeCode
<1>4. code \in Int  OBVIOUS
<1> HIDE DEF code
<1>5. Bits(code, 2) \in Strings  BY <1>4, BitsTyped
<1>6. Bytes(m.colors) \in Strings
  <2>1. 3 * n \in Nat  OBVIOUS
  <2>2. QED  BY <1>1, <2>1, BytesTyped
<1>7. IndexBits(m.count) \in 0..32  BY <1>1 DEF IndexBits
<1>8. ASSUME NEW i \in 1..Samples
      PROVE  Bits(m.index[i], IndexBits(m.count)) \in Strings
  <2>1. m.index[i] \in Int  BY <1>1
  <2>2. QED  BY <1>7, <2>1, BitsTyped
<1>9. each \in [1..Samples -> Strings]  BY <1>8
<1> HIDE DEF each
<1>10. Joined(each) \in Strings  BY <1>0, <1>9, EachTyped
<1>11. QED  BY <1>2, <1>3, <1>5, <1>6, <1>10, Concat

LEMMA LiteralTyped ==
  ASSUME NEW m \in [mode : {"LITERAL"}, y : [1..Samples -> 0..127],
                    u : [1..Samples -> 0..63], v : [1..Samples -> 0..63],
                    correction : [1..2 -> SignedByte]],
         NEW predicted
  PROVE  Macroblock(m, predicted) \in Strings
<1>1. /\ m.mode = "LITERAL" /\ m.y \in [1..Samples -> Int]
      /\ m.u \in [1..Samples -> Int] /\ m.v \in [1..Samples -> Int]
      /\ m.correction \in [1..2 -> Int]
  <2>1. /\ m.y \in [1..Samples -> 0..127] /\ m.u \in [1..Samples -> 0..63]
        /\ m.v \in [1..Samples -> 0..63]
        /\ m.correction \in [1..2 -> SignedByte] /\ m.mode = "LITERAL"
    OBVIOUS
  <2>2. 0..127 \subseteq Int /\ 0..63 \subseteq Int  OBVIOUS
  <2>3. QED  BY <2>1, <2>2, Bytes8
<1>2. Macroblock(m, predicted)
        = Mode("LITERAL") \o (Bits(0, 4) \o LiteralRow(m.y, 7)
            \o LiteralRow(m.u, 6) \o LiteralRow(m.v, 6) \o Bytes(m.correction))
  BY <1>1 DEF Macroblock
<1>3. Mode("LITERAL") \in Strings  BY ModeTyped DEF ModeCode
<1>4. Bits(0, 4) \in Strings  BY BitsTyped
<1>5. /\ LiteralRow(m.y, 7) \in Strings /\ LiteralRow(m.u, 6) \in Strings
      /\ LiteralRow(m.v, 6) \in Strings
  BY <1>1, RowTyped
<1>6. Bytes(m.correction) \in Strings  BY <1>1, BytesTyped
<1>7. QED  BY <1>2, <1>3, <1>4, <1>5, <1>6, Concat

LEMMA MacroblockTyped ==
  ASSUME picture \in Frames, NEW m \in Macroblocks, m.mode # "SKIP",
         NEW predicted, IsWords(predicted)
  PROVE  Macroblock(m, predicted) \in Strings
<1> DEFINE fill == [mode : {"FILL"}, planes : [1..3 -> Byte],
                    res : Residues(Blocks)]
           planes == {p \in [1..9 -> Byte \cup SignedByte] : \A i \in 1..9 :
                        p[i] \in IF i % 3 = 1 THEN Byte ELSE SignedByte}
           gradient == [mode : {"GRADIENT"}, planes : planes,
                        res : Residues(Blocks)]
<1>1. CASE m \in [mode : {"INTER"}, mv : Word \X Word, res : Residues(Blocks)]
  BY <1>1, InterTyped
<1>2. CASE m \in [mode : {"GLOBAL"}, res : Residues(Blocks)]
  BY <1>2, GlobalTyped
<1>3. CASE m \in [mode : {"SPLIT_INTER"},
                  parts : SplitParts(4, [inter : {TRUE}, mv : Word \X Word,
                                         res : Residues(SubBlocks)])]
  BY <1>3, SplitInterTyped
<1>4. CASE m \in [mode : {"SPLIT_JOINT"}, parts : SplitParts(4, MovedParts),
                  res : Residues(Blocks)]
  BY <1>4, SplitJointTyped
<1>5. CASE m \in [mode : {"RECT_SPLIT"}, vertical : BOOLEAN,
                  parts : SplitParts(2, MovedParts), res : Residues(Blocks)]
  BY <1>5, RectTyped
<1>6. CASE m \in [mode : {"INTRA"}, intra_mode : 0..3, res : Residues(Blocks)]
  BY <1>6, IntraTyped
<1>7. CASE m \in fill
  <2>1. /\ m.mode = "FILL" /\ m.planes \in [1..3 -> Byte]
        /\ m.res \in Residues(Blocks)
    BY <1>7
  <2>2. m.planes \in [1..3 -> Int]  BY <2>1, Bytes8
  <2> HIDE DEF fill
  <2>3. Planes(m, 3)  BY <2>1, <2>2 DEF Planes
  <2>4. QED  BY <2>3, PlanesTyped
<1>8. CASE m \in gradient
  <2>1. m.mode = "GRADIENT" /\ m.planes \in planes /\ m.res \in Residues(Blocks)
    BY <1>8
  <2>2. planes \subseteq [1..9 -> Byte \cup SignedByte]  OBVIOUS
  <2> HIDE DEF planes
  <2>3. m.planes \in [1..9 -> Int]  BY <2>1, <2>2, Bytes8
  <2> HIDE DEF gradient
  <2>4. Planes(m, 9)  BY <2>1, <2>3 DEF Planes
  <2>5. QED  BY <2>4, PlanesTyped
<1>9. CASE m \in Palettes(2) \cup Palettes(4) \cup Palettes(8)
  <2>1. PICK n \in {2, 4, 8} : m \in Palettes(n)  BY <1>9
  <2>2. QED  BY <2>1, PaletteTyped
<1>10. CASE m \in [mode : {"LITERAL"}, y : [1..Samples -> 0..127],
                   u : [1..Samples -> 0..63], v : [1..Samples -> 0..63],
                   correction : [1..2 -> SignedByte]]
  BY <1>10, LiteralTyped
<1>11. m \notin [mode : {"SKIP"}]  OBVIOUS
<1>12. QED
  BY <1>1, <1>2, <1>3, <1>4, <1>5, <1>6, <1>7, <1>8, <1>9, <1>10, <1>11,
     Zenon DEF Macroblocks

LEMMA SkipRunTyped ==
  ASSUME NEW n \in 0..17
  PROVE  SkipRun(n) \in Strings
<1>1. Mode("SKIP") \in Strings /\ Mode("SKIP_RUN") \in Strings
  BY ModeTyped DEF ModeCode
<1>2. Bits(0, 4) \in Strings /\ Bits(n - 2, 4) \in Strings  BY BitsTyped
<1>3. <<>> \in Strings  BY DEF Strings
<1>4. CASE n = 0  BY <1>3, <1>4 DEF SkipRun
<1>5. CASE n = 1  BY <1>1, <1>2, <1>5, Concat DEF SkipRun
<1>6. CASE n > 1  BY <1>1, <1>2, <1>6, Concat DEF SkipRun
<1>7. QED  BY <1>4, <1>5, <1>6

-----------------------------------------------------------------------------
(* The motion-vector context.                                              *)

Row16 == [1..picture.cols -> [1..2 -> Word]]
Encoders == [top : Row16, cur : Row16]
Decoders ==
  [use_global : BOOLEAN, global : Int \X Int, top : Row16, cur : Row16]

LEMMA FrameTyped ==
  ASSUME picture \in Frames
  PROVE  /\ picture.cols \in Nat \ {0} /\ picture.rows \in Nat \ {0}
         /\ picture.mbs \in Seq(Macroblocks) /\ picture.use_global \in BOOLEAN
         /\ picture.global \in Word \X Word
         /\ Total \in Nat
<1>1. picture.cols \in Nat \ {0} /\ picture.rows \in Nat \ {0}  BY DEF Frames
<1> DEFINE c == picture.cols
           r == picture.rows
<1> HIDE DEF c, r
<1>2. c \in Nat /\ r \in Nat  BY <1>1 DEF c, r
<1>3. c * r \in Nat  BY <1>2
<1>4. QED  BY <1>3 DEF Frames, Total, c, r

LEMMA WordsAreVector ==
  ASSUME NEW mv, IsWords(mv)
  PROVE  IsVector(mv)
BY Words DEF IsWords, IsVector

LEMMA StoredTyped ==
  ASSUME NEW mv, IsVector(mv)
  PROVE  Stored(mv) \in [1..2 -> Word]
<1>1. ASSUME NEW v \in Int PROVE ((v + 32768) % 65536) - 32768 \in Word
  <2> DEFINE u == (v + 32768) % 65536
  <2>1. u \in Int /\ 0 <= u /\ u < 65536  OBVIOUS
  <2> HIDE DEF u
  <2>2. u - 32768 \in Word  BY <2>1 DEF Word
  <2>3. QED  BY <2>2 DEF u
<1>2. \A c \in 1..2 : mv[c] \in Int
  <2>1. \A c \in 1..2 : c = 1 \/ c = 2  OBVIOUS
  <2>2. QED  BY <2>1 DEF IsVector
<1>3. \A c \in 1..2 : ((mv[c] + 32768) % 65536) - 32768 \in Word
  BY <1>1, <1>2
<1>4. QED  BY <1>3 DEF Stored

LEMMA RowOf ==
  ASSUME NEW mv, IsVector(mv)
  PROVE  Row(mv) \in Row16
BY StoredTyped DEF Row, Row16

\* Both contexts move alike.
LEMMA MovedTyped ==
  ASSUME NEW context, context \in Encoders \/ context \in Decoders,
         NEW fallback, IsVector(fallback), NEW mv, IsVector(mv),
         NEW col, NEW n
  PROVE  LET next == Moved(context, fallback, col, n, mv)
         IN  /\ context \in Encoders => next \in Encoders
             /\ context \in Decoders =>
                  next \in Decoders /\ next.global = context.global
<1> DEFINE cur == [i \in 1..picture.cols |->
                     IF i \in col..(col + n - 1) THEN Stored(mv)
                     ELSE context.cur[i]]
           row == Row(fallback)
           next == Moved(context, fallback, col, n, mv)
<1>1. context.cur \in Row16  BY DEF Encoders, Decoders
<1>2. cur \in Row16  BY <1>1, StoredTyped DEF Row16
<1>3. row \in Row16  BY RowOf
<1>4. next = IF col + n - 1 = picture.cols
             THEN [context EXCEPT !.top = cur, !.cur = row]
             ELSE [context EXCEPT !.cur = cur]
  BY DEF Moved
<1> HIDE DEF cur, row
<1>5. context \in Encoders => next \in Encoders
  BY <1>2, <1>3, <1>4 DEF Encoders
<1>6. context \in Decoders => next \in Decoders /\ next.global = context.global
  BY <1>2, <1>3, <1>4 DEF Decoders
<1>7. QED  BY <1>5, <1>6

LEMMA Median ==
  ASSUME NEW W \in SUBSET Int, NEW a \in W, NEW b \in W, NEW c \in W
  PROVE  Median3(a, b, c) \in W
BY DEF Median3, Lower, Upper

LEMMA PredictorIn ==
  ASSUME NEW W \in SUBSET Int, Word \subseteq W, NEW context,
         context.top \in Row16, context.cur \in Row16, NEW fallback,
         fallback[1] \in W, fallback[2] \in W, picture.cols \in Nat \ {0},
         NEW col \in 1..picture.cols
  PROVE  /\ Predictor(context, fallback, col)[1] \in W
         /\ Predictor(context, fallback, col)[2] \in W
<1> DEFINE left  == IF col > 1 THEN context.cur[col - 1] ELSE fallback
           above == context.top[col]
           right == IF col < picture.cols THEN context.top[col + 1]
                    ELSE fallback
           p == Predictor(context, fallback, col)
<1>1. p = [c \in 1..2 |-> Median3(left[c], above[c], right[c])]
  BY DEF Predictor
<1>2. ASSUME NEW c \in 1..2
      PROVE  left[c] \in W /\ above[c] \in W /\ right[c] \in W
  <2>0. fallback[c] \in W
    <3>1. c = 1 \/ c = 2  OBVIOUS
    <3>2. QED  BY <3>1
  <2>1. \A i \in 1..picture.cols :
          context.top[i][c] \in W /\ context.cur[i][c] \in W
    <3>1. SUFFICES ASSUME NEW i \in 1..picture.cols
                   PROVE  context.top[i][c] \in W /\ context.cur[i][c] \in W
      OBVIOUS
    <3>2. context.top[i] \in [1..2 -> Word] /\ context.cur[i] \in [1..2 -> Word]
      BY DEF Row16
    <3>3. context.top[i][c] \in Word /\ context.cur[i][c] \in Word  BY <3>2
    <3>4. QED  BY <3>3
  <2>2. left[c] \in W
    <3>1. col > 1 => col - 1 \in 1..picture.cols  OBVIOUS
    <3>2. QED  BY <2>0, <2>1, <3>1
  <2>3. right[c] \in W
    <3>1. col < picture.cols => col + 1 \in 1..picture.cols  OBVIOUS
    <3>2. QED  BY <2>0, <2>1, <3>1
  <2>4. above[c] \in W  BY <2>1
  <2>5. QED  BY <2>2, <2>3, <2>4
<1> HIDE DEF left, above, right, p
<1>3. 1 \in 1..2 /\ 2 \in 1..2  OBVIOUS
<1>4. /\ p[1] = Median3(left[1], above[1], right[1])
      /\ p[2] = Median3(left[2], above[2], right[2])
  BY <1>1
<1>5. p[1] \in W /\ p[2] \in W
  <2>1. left[1] \in W /\ above[1] \in W /\ right[1] \in W  BY <1>2, <1>3
  <2>2. left[2] \in W /\ above[2] \in W /\ right[2] \in W  BY <1>2, <1>3
  <2>3. Median3(left[1], above[1], right[1]) \in W  BY <2>1, Median
  <2>4. Median3(left[2], above[2], right[2]) \in W  BY <2>2, Median
  <2>5. QED  BY <1>4, <2>3, <2>4
<1>6. QED  BY <1>5 DEF p

-----------------------------------------------------------------------------
(* The places of the macroblocks.                                          *)

LEMMA DivMod ==
  ASSUME NEW n \in Nat, NEW c \in Nat \ {0}
  PROVE  /\ n \div c \in Nat /\ n % c \in 0..(c - 1)
         /\ n = (n \div c) * c + (n % c)
BY Z3

LEMMA Multiples ==
  ASSUME NEW p \in Nat, NEW q \in Nat, NEW c \in Nat, p < q
  PROVE  p * c + c <= q * c
<1>1. (p + 1) * c = p * c + c /\ (p + 1) * c \in Nat /\ q * c \in Nat
  BY Z3
<1>2. (p + 1) * c <= q * c
  BY Z3
<1>3. QED BY <1>1, <1>2

\* A run from n on that ends within its row ends within the picture.
LEMMA RunFits ==
  ASSUME NEW n \in Nat, NEW c \in Nat \ {0}, NEW r \in Nat, NEW k \in Nat,
         n < c * r, (n % c) + k <= c
  PROVE  n + k <= c * r
<1> DEFINE q == n \div c
           t == n % c
<1>1. q \in Nat /\ t \in 0..(c - 1) /\ n = q * c + t  BY DivMod
<1>2. c * r = r * c /\ r * c \in Nat /\ q * c \in Nat
  <2>1. \A i \in Nat : i * c \in Nat  BY Z3
  <2>2. q \in Nat  BY <1>1
  <2> HIDE DEF q
  <2>3. c * r = r * c  BY Z3
  <2>4. QED  BY <2>1, <2>2, <2>3
<1> HIDE DEF q
<1>3. q < r
  <2>1. SUFFICES ASSUME r <= q PROVE FALSE  BY <1>1
  <2>2. r * c <= q * c
    <3>1. CASE r = q  BY <1>2, <3>1
    <3>2. CASE r < q
      <4>1. r * c + c <= q * c  BY <1>1, <3>2, Multiples
      <4>2. QED  BY <1>2, <4>1
    <3>3. QED  BY <1>1, <2>1, <3>1, <3>2
  <2> HIDE DEF t
  <2>3. t \in Nat  BY <1>1
  <2>4. QED  BY <1>1, <1>2, <2>2, <2>3
<1>4. q * c + c <= r * c  BY <1>1, <1>3, Multiples
<1> DEFINE u == t
<1>5. t + k <= c /\ t \in Nat  BY <1>1
<1> HIDE DEF t
<1>6. QED  BY <1>1, <1>2, <1>4, <1>5

ValidAt(m, n) ==
  Valid(m, 16 * ((n - 1) % picture.cols), 16 * ((n - 1) \div picture.cols))

LEMMA ValidKept ==
  ASSUME NEW m, NEW n, ValidAt(m, n), picture' = picture,
         decoder'.global = decoder.global
  PROVE  ValidAt(m, n)'
BY DEF ValidAt, Valid, Inside, MotionValid, P

LEMMA SkipsValid ==
  ASSUME P, NEW n
  PROVE  ValidAt([mode |-> "SKIP"], n)
BY DEF ValidAt, Valid, Splits

-----------------------------------------------------------------------------
(* The inductive invariant: the writer's bits, the two contexts, the       *)
(* reader while it has not failed, and the macroblocks parsed so far.      *)

PictureInv == picture \in Pictures

EncoderInv ==
  /\ bits \in Strings
  /\ pending \in 0..16
  /\ coded \in 0..Total
  /\ encoder \in Encoders

DecoderInv ==
  /\ pc \in {"encode", "channel"} => parsed = <<>>
  /\ pc = "decode" =>
       /\ decoder \in Decoders
       /\ reader.ok /\ reader \in Readers({reader.v})

ParsedInv ==
  /\ \E S : parsed \in Seq(S)
  /\ Len(parsed) <= Total
  /\ \A n \in 1..Len(parsed) : \A m \in {parsed[n]} : ValidAt(m, n)

Inv == PictureInv /\ EncoderInv /\ DecoderInv /\ ParsedInv

LEMMA FramesOf ==
  ASSUME PictureInv
  PROVE  picture \in Frames /\ Len(picture.mbs) = Total
BY PictureAssumption DEF PictureInv, Total

LEMMA InitInv ==
  ASSUME Init
  PROVE  Inv
<1>1. PictureInv  BY DEF Init, PictureInv
<1>2. picture \in Frames  BY <1>1, FramesOf
<1>3. Total \in Nat /\ picture.use_global \in BOOLEAN
  BY <1>2, FrameTyped
<1>4. EncoderInv
  <2>1. bits \in Strings
    <3>1. <<0>> \in Strings /\ <<1>> \in Strings /\ <<>> \in Strings
      BY BitTyped DEF Bit, Strings
    <3>2. Vector(picture.global) \in Strings
      <4> DEFINE g == picture.global
      <4>1. g \in Word \X Word  BY <1>2, FrameTyped
      <4> HIDE DEF g
      <4>2. g[1] \in Word /\ g[2] \in Word  BY <4>1
      <4>3. g[1] \in Near /\ g[2] \in Near  BY <4>2, Words DEF Near
      <4>4. Vector(g) \in Strings  BY <4>3, VectorTyped
      <4>5. QED  BY <4>4 DEF g
    <3> DEFINE coded_global == <<1>> \o Vector(picture.global)
    <3>3. coded_global \in Strings  BY <3>1, <3>2, Concat
    <3>4. bits = CASE ~P -> <<>>
                   [] P /\ ~picture.use_global -> <<0>>
                   [] P /\ picture.use_global -> coded_global
      BY DEF Init
    <3> HIDE DEF coded_global
    <3>5. CASE ~P  BY <3>1, <3>4, <3>5
    <3>6. CASE P /\ ~picture.use_global  BY <3>1, <3>4, <3>6
    <3>7. CASE P /\ picture.use_global  BY <3>3, <3>4, <3>7
    <3>8. QED  BY <3>5, <3>6, <3>7
  <2>2. encoder \in Encoders
    <3>1. Row(Fallback) \in Row16
      BY <1>2, FallbackTyped, WordsAreVector, RowOf
    <3>2. encoder = [top |-> Row(Fallback), cur |-> Row(Fallback)]
      BY DEF Init
    <3>3. QED  BY <3>1, <3>2 DEF Encoders
  <2>3. pending = 0 /\ coded = 0  BY DEF Init
  <2>4. QED  BY <1>3, <2>1, <2>2, <2>3 DEF EncoderInv
<1>5. parsed = <<>> /\ pc = "encode"  BY DEF Init
<1>6. DecoderInv  BY <1>5 DEF DecoderInv
<1>7. ParsedInv
  <2>1. parsed \in Seq({}) /\ Len(parsed) = 0  BY <1>5
  <2>2. \A n \in 1..Len(parsed) : FALSE  BY <2>1
  <2>3. QED  BY <1>3, <2>1, <2>2 DEF ParsedInv
<1>8. QED  BY <1>1, <1>4, <1>6, <1>7 DEF Inv

\* What changes neither the picture nor the context's vector nor the
\* macroblocks keeps what is known of them.
LEMMA ParsedKept ==
  ASSUME ParsedInv, picture' = picture, parsed' = parsed,
         decoder'.global = decoder.global \/ parsed = <<>>
  PROVE  ParsedInv'
<1>1. \E S : parsed' \in Seq(S)  BY DEF ParsedInv
<1>2. Len(parsed') <= Total'  BY DEF ParsedInv, Total
<1>3. ASSUME NEW n \in 1..Len(parsed'), NEW m \in {parsed'[n]}
      PROVE  ValidAt(m, n)'
  <2>1. n \in 1..Len(parsed) /\ m \in {parsed[n]}  BY <1>3
  <2>2. ValidAt(m, n)  BY <2>1 DEF ParsedInv
  <2>3. parsed # <<>>  BY <2>1
  <2>4. QED  BY <2>2, <2>3, ValidKept
<1>4. QED  BY <1>1, <1>2, <1>3 DEF ParsedInv

LEMMA PictureKept ==
  ASSUME PictureInv, picture' = picture
  PROVE  PictureInv' /\ Total' = Total
BY DEF PictureInv, Total

LEMMA EncoderKept ==
  ASSUME EncoderInv, UNCHANGED <<picture, bits, pending, encoder, coded>>
  PROVE  EncoderInv'
BY DEF EncoderInv, Total, Encoders, Row16

LEMMA ErrorKept ==
  ASSUME Inv, Error
  PROVE  Inv'
<1>1. /\ pc' = "error" /\ picture' = picture /\ parsed' = parsed
      /\ decoder' = decoder
      /\ UNCHANGED <<picture, bits, pending, encoder, coded>>
  BY DEF Error
<1>2. PictureInv' /\ EncoderInv' /\ ParsedInv'
  BY <1>1, PictureKept, EncoderKept, ParsedKept DEF Inv
<1>3. DecoderInv'  BY <1>1 DEF DecoderInv
<1>4. QED  BY <1>2, <1>3 DEF Inv

LEMMA SelectedTyped ==
  ASSUME picture \in Frames, NEW m \in Macroblocks
  PROVE  IsVector(SelectedVector(m))
<1>1. IsVector(Fallback)  BY FallbackTyped, WordsAreVector
<1>2. IsVector(Zero)  BY DEF Zero, IsVector
<1>3. m.mode = "INTER" => IsVector(m.mv)
  <2>1. m.mode = "INTER" => m.mv \in Word \X Word
    BY DEF Macroblocks, Palettes
  <2>2. m.mode = "INTER" => IsWords(m.mv)  BY <2>1 DEF IsWords
  <2>3. QED  BY <2>2, WordsAreVector
<1>4. QED  BY <1>1, <1>2, <1>3 DEF SelectedVector

LEMMA EncodeKept ==
  ASSUME Inv, EncodeMacroblock
  PROVE  Inv'
<1> DEFINE m       == picture.mbs[coded + 1]
           aligned == Aligned(bits)
           run     == pending + 1
           flush   == run = 17 \/ LastColumn(coded)
           predicted == Predictor(encoder, Fallback, Column(coded))
           code    == Macroblock(m, predicted)
<1>1. /\ pc = "encode" /\ coded < Total /\ coded' = coded + 1
      /\ bits' = CASE m.mode = "SKIP" /\ flush -> aligned \o SkipRun(run)
                   [] m.mode = "SKIP" /\ ~flush -> aligned
                   [] OTHER -> aligned \o SkipRun(pending) \o code
      /\ pending' = IF m.mode = "SKIP" /\ ~flush THEN run ELSE 0
      /\ encoder' = IF P THEN Moved(encoder, Fallback, Column(coded), 1,
                                    SelectedVector(m))
                    ELSE encoder
      /\ UNCHANGED <<picture, pc, decoder, reader, damaged, parsed>>
  BY DEF EncodeMacroblock
<1>2. PictureInv /\ EncoderInv /\ DecoderInv /\ ParsedInv  BY DEF Inv
<1>3. picture \in Frames /\ Len(picture.mbs) = Total  BY <1>2, FramesOf
<1>4. /\ picture.cols \in Nat \ {0} /\ Total \in Nat
      /\ picture.mbs \in Seq(Macroblocks)
  BY <1>3, FrameTyped
<1>5. /\ bits \in Strings /\ pending \in 0..16 /\ coded \in Nat
      /\ encoder \in Encoders
  BY <1>2, <1>4 DEF EncoderInv
<1>6. coded + 1 \in 1..Len(picture.mbs)  BY <1>1, <1>3, <1>4, <1>5
<1>7. m \in Macroblocks  BY <1>4, <1>6
<1>8. IsWords(predicted)
  <2>1. Column(coded) \in 1..picture.cols
    <3>1. coded % picture.cols \in 0..(picture.cols - 1)
      BY <1>4, <1>5, DivMod
    <3>2. QED  BY <1>4, <3>1 DEF Column
  <2>2. encoder.top \in Row16 /\ encoder.cur \in Row16
    BY <1>5 DEF Encoders
  <2>3. Fallback[1] \in Word /\ Fallback[2] \in Word
    BY <1>3, FallbackTyped DEF IsWords
  <2>4. Word \in SUBSET Int /\ Word \subseteq Word  BY Words
  <2>5. predicted[1] \in Word /\ predicted[2] \in Word
    BY <1>4, <2>1, <2>2, <2>3, <2>4, PredictorIn
  <2>6. QED  BY <2>5 DEF IsWords
<1>9. IsVector(SelectedVector(m)) /\ IsVector(Fallback)
  BY <1>3, <1>7, SelectedTyped, FallbackTyped, WordsAreVector
<1>10. aligned \in Strings  BY <1>5, AlignedTyped
<1>11. run \in 1..17  BY <1>5
<1>12. encoder' \in Encoders
  <2> HIDE DEF m
  <2>1. Moved(encoder, Fallback, Column(coded), 1, SelectedVector(m))
          \in Encoders
    BY <1>5, <1>9, MovedTyped
  <2>2. QED  BY <1>1, <1>5, <2>1
<1>13. bits' \in Strings
  <2>1. SkipRun(run) \in Strings /\ SkipRun(pending) \in Strings
    <3>1. run \in 0..17 /\ pending \in 0..17  BY <1>5, <1>11
    <3> HIDE DEF run
    <3>2. QED  BY <3>1, SkipRunTyped
  <2>2. m.mode # "SKIP" => code \in Strings
    <3> HIDE DEF m, predicted
    <3>1. QED  BY <1>3, <1>7, <1>8, MacroblockTyped
  <2> HIDE DEF m, aligned, run, flush, code
  <2>3. CASE m.mode = "SKIP" /\ flush
    <3>1. bits' = aligned \o SkipRun(run)  BY <1>1, <2>3
    <3>2. QED  BY <1>10, <2>1, <3>1, Concat
  <2>4. CASE m.mode = "SKIP" /\ ~flush
    BY <1>1, <1>10, <2>4
  <2>5. CASE m.mode # "SKIP"
    <3>1. bits' = aligned \o SkipRun(pending) \o code  BY <1>1, <2>5
    <3>2. QED  BY <1>10, <2>1, <2>2, <2>5, <3>1, Concat
  <2>6. QED  BY <2>3, <2>4, <2>5
<1>14. pending' \in 0..16
  <2>1. CASE m.mode = "SKIP" /\ ~flush
    <3>1. pending' = run /\ run # 17  BY <1>1, <2>1
    <3>2. QED  BY <1>11, <3>1
  <2>2. CASE ~(m.mode = "SKIP" /\ ~flush)
    BY <1>1, <2>2
  <2>3. QED  BY <2>1, <2>2
<1>15. coded' \in 0..Total  BY <1>1, <1>4, <1>5
<1>16. /\ picture' = picture /\ parsed' = parsed /\ decoder' = decoder
       /\ pc' = pc /\ reader' = reader
  BY <1>1
<1> HIDE DEF m, aligned, run, flush, predicted, code
<1>17. PictureInv' /\ Total' = Total  BY <1>2, <1>16, PictureKept
<1>18. Encoders' = Encoders  BY <1>16 DEF Encoders, Row16
<1>19. EncoderInv'
  BY <1>12, <1>13, <1>14, <1>15, <1>17, <1>18 DEF EncoderInv
<1>20. DecoderInv'  BY <1>1, <1>2, <1>16 DEF DecoderInv
<1>21. ParsedInv'  BY <1>2, <1>16, ParsedKept
<1>22. QED  BY <1>17, <1>19, <1>20, <1>21 DEF Inv

LEMMA SendKept ==
  ASSUME Inv, Send
  PROVE  Inv'
<1>1. /\ pc = "encode" /\ pc' = "channel" /\ picture' = picture
      /\ parsed' = parsed /\ decoder' = decoder
      /\ UNCHANGED <<picture, bits, pending, encoder, coded>>
  BY DEF Send
<1>2. PictureInv' /\ EncoderInv' /\ ParsedInv'
  BY <1>1, PictureKept, EncoderKept, ParsedKept DEF Inv
<1>3. DecoderInv'  BY <1>1 DEF Inv, DecoderInv
<1>4. QED  BY <1>2, <1>3 DEF Inv

LEMMA DamageKept ==
  ASSUME Inv, DamagePacket
  PROVE  Inv'
<1>1. /\ pc = "channel" /\ pc' = pc /\ picture' = picture
      /\ parsed' = parsed /\ decoder' = decoder
      /\ UNCHANGED <<pending, encoder, coded>>
      /\ \/ \E i \in 1..Len(bits) : bits' = [bits EXCEPT ![i] = 1 - @]
         \/ \E n \in 0..(Len(bits) - 1) : bits' = SubSeq(bits, 1, n)
  BY DEF DamagePacket
<1>2. bits \in Seq(Bit)  BY DEF Inv, EncoderInv, Strings
<1>3. bits' \in Strings
  <2>1. ASSUME NEW i \in 1..Len(bits), bits' = [bits EXCEPT ![i] = 1 - @]
        PROVE  bits' \in Strings
    <3>1. bits[i] \in Bit  BY <1>2
    <3>2. 1 - bits[i] \in Bit  BY <3>1 DEF Bit
    <3>3. QED  BY <1>2, <2>1, <3>2 DEF Strings
  <2>2. ASSUME NEW n \in 0..(Len(bits) - 1), bits' = SubSeq(bits, 1, n)
        PROVE  bits' \in Strings
    <3>1. \A i \in 1..n : bits[i] \in Bit  BY <1>2
    <3>2. n \in Int /\ 1 \in Int  BY <1>2
    <3>3. SubSeq(bits, 1, n) \in Seq(Bit)  BY <3>1, <3>2, SubSeqProperties
    <3>4. QED  BY <2>2, <3>3 DEF Strings
  <2>3. QED  BY <1>1, <2>1, <2>2
<1>4. PictureInv' /\ Total' = Total  BY <1>1, PictureKept DEF Inv
<1>5. EncoderInv'
  <2>1. Encoders' = Encoders  BY <1>1 DEF Encoders, Row16
  <2>2. QED  BY <1>1, <1>3, <1>4, <2>1 DEF Inv, EncoderInv
<1>6. ParsedInv'  BY <1>1, ParsedKept DEF Inv
<1>7. DecoderInv'  BY <1>1 DEF Inv, DecoderInv
<1>8. QED  BY <1>4, <1>5, <1>6, <1>7 DEF Inv

LEMMA StartKept ==
  ASSUME Inv, StartDecode
  PROVE  Inv'
<1> DEFINE none == [use |-> FALSE, mv |-> Zero]
           T == [use : BOOLEAN, mv : Int \X Int]
           got == IF P THEN GetGlobal(Reader(bits))
                  ELSE Returns(Reader(bits), none)
<1>1. got \in Readers(T)
  <2>1. Reader(bits) \in Readers({0})
    BY DEF Inv, EncoderInv, Strings, Reader, Readers
  <2>2. Reader(bits).ok  BY DEF Reader
  <2>3. none \in T  BY DEF Zero
  <2> HIDE DEF none
  <2>4. CASE P  BY <2>1, <2>4, GlobalReads
  <2>5. CASE ~P
    <3> HIDE DEF T
    <3>1. Returns(Reader(bits), none) \in Readers(T)
      BY <2>1, <2>2, <2>3, ReturnReads
    <3>2. QED  BY <2>5, <3>1
  <2>6. QED  BY <2>4, <2>5
<1>2. PICK r \in {got} :
        IF ~r.ok THEN Error
        ELSE /\ pc' = "decode"
             /\ reader' = Returns(r, 0)
             /\ decoder' = [use_global |-> r.v.use, global |-> r.v.mv,
                            top |-> Row(r.v.mv), cur |-> Row(r.v.mv)]
             /\ UNCHANGED <<picture, bits, pending, encoder, coded, damaged,
                            parsed>>
  BY DEF StartDecode
<1>3. pc = "channel"  BY DEF StartDecode
<1>4. r \in Readers(T)  BY <1>1, <1>2
<1> HIDE DEF got
<1>5. CASE ~r.ok  BY <1>2, <1>5, ErrorKept
<1>6. CASE r.ok
  <2>1. /\ pc' = "decode" /\ reader' = Returns(r, 0)
        /\ decoder' = [use_global |-> r.v.use, global |-> r.v.mv,
                       top |-> Row(r.v.mv), cur |-> Row(r.v.mv)]
        /\ picture' = picture /\ parsed' = parsed
        /\ UNCHANGED <<picture, bits, pending, encoder, coded>>
    BY <1>2, <1>6
  <2>2. r.v \in T  BY <1>4, <1>6, WasRead
  <2>3. r.v.use \in BOOLEAN /\ r.v.mv \in Int \X Int  BY <2>2
  <2>4. Row(r.v.mv) \in Row16
    <3> DEFINE mv == r.v.mv
    <3>1. mv \in Int \X Int  BY <2>3
    <3> HIDE DEF mv
    <3>2. IsVector(mv)  BY <3>1 DEF IsVector
    <3>3. Row(mv) \in Row16  BY <3>2, RowOf
    <3>4. QED  BY <3>3 DEF mv
  <2>5. decoder' \in Decoders  BY <2>1, <2>3, <2>4 DEF Decoders
  <2>6. Decoders' = Decoders  BY <2>1 DEF Decoders, Row16
  <2>7. reader'.ok /\ reader' \in Readers({reader'.v})
    <3> HIDE DEF T
    <3>1. 0 \in {0}  OBVIOUS
    <3>2. /\ Returns(r, 0) \in Readers({0}) /\ Returns(r, 0).v = 0
          /\ Returns(r, 0).ok = r.ok
      BY <1>4, <1>6 DEF Returns, Readers
    <3>3. QED  BY <1>6, <2>1, <3>2
  <2>8. DecoderInv'  BY <2>1, <2>5, <2>6, <2>7 DEF DecoderInv
  <2>9. parsed = <<>>  BY <1>3 DEF Inv, DecoderInv
  <2>10. PictureInv' /\ EncoderInv' /\ ParsedInv'
    BY <2>1, <2>9, PictureKept, EncoderKept, ParsedKept DEF Inv
  <2>11. QED  BY <2>8, <2>10 DEF Inv
<1>7. QED  BY <1>5, <1>6

LEMMA ReconstructKept ==
  ASSUME Inv, pc = "decode", NEW r, r \in Readers({r.v}), r.ok, NEW m,
         NEW n \in Nat, Len(parsed) + n <= Total, IsVector(DecodedVector(m)),
         \A k \in 1..n : ValidAt(m, Len(parsed) + k), Reconstruct(r, m, n)
  PROVE  Inv'
<1> DEFINE ms == [i \in 1..n |-> m]
           len == Len(parsed)
<1>1. /\ reader' = r /\ parsed' = parsed \o ms
      /\ decoder' = IF P THEN Moved(decoder, decoder.global,
                                    Column(Len(parsed)), n, DecodedVector(m))
                    ELSE decoder
      /\ pc' = pc /\ picture' = picture
      /\ UNCHANGED <<picture, bits, pending, encoder, coded>>
  BY DEF Reconstruct
<1>2. decoder \in Decoders  BY DEF Inv, DecoderInv
<1>3. decoder' \in Decoders /\ decoder'.global = decoder.global
  <2>1. IsVector(decoder.global)  BY <1>2 DEF Decoders, IsVector
  <2>2. CASE P
    <3> DEFINE next == Moved(decoder, decoder.global, Column(Len(parsed)), n,
                             DecodedVector(m))
    <3>1. next \in Decoders /\ next.global = decoder.global
      BY <1>2, <2>1, MovedTyped
    <3>2. decoder' = next  BY <1>1, <2>2
    <3> HIDE DEF next
    <3>3. QED  BY <3>1, <3>2
  <2>3. CASE ~P  BY <1>1, <1>2, <2>3
  <2>4. QED  BY <2>2, <2>3
<1>4. PictureInv' /\ EncoderInv' /\ Total' = Total
  BY <1>1, PictureKept, EncoderKept DEF Inv
<1>5. DecoderInv'
  <2>1. Decoders' = Decoders  BY <1>1 DEF Decoders, Row16
  <2>2. pc' = "decode"  BY <1>1
  <2>3. QED  BY <1>1, <1>3, <2>1, <2>2 DEF DecoderInv
<1>6. PICK S : parsed \in Seq(S)  BY DEF Inv, ParsedInv
<1>7. /\ parsed \in Seq(S \cup {m}) /\ ms \in Seq(S \cup {m}) /\ Len(ms) = n
      /\ len \in Nat
  <2>1. ms \in [1..n -> S \cup {m}]  OBVIOUS
  <2>2. parsed \in [1..len -> S \cup {m}] /\ len \in Nat
    <3>1. parsed \in [1..len -> S] /\ len \in Nat  BY <1>6
    <3>2. QED  BY <3>1
  <2> HIDE DEF ms, len
  <2>3. QED  BY <2>1, <2>2, FunctionSeq
<1>8. /\ parsed' \in Seq(S \cup {m}) /\ Len(parsed') = len + n
      /\ \A i \in 1..(len + n) :
           parsed'[i] = IF i <= len THEN parsed[i] ELSE ms[i - len]
  <2> HIDE DEF ms
  <2>1. QED  BY <1>1, <1>7, ConcatProperties
<1>9. ASSUME NEW k \in 1..Len(parsed'), NEW q \in {parsed'[k]}
      PROVE  ValidAt(q, k)'
  <2>1. k \in 1..(len + n)  BY <1>8
  <2>2. CASE k <= len
    <3>1. k \in 1..Len(parsed) /\ q \in {parsed[k]}
      BY <1>7, <1>8, <2>1, <2>2
    <3>2. ValidAt(q, k)  BY <3>1 DEF Inv, ParsedInv
    <3>3. QED  BY <1>1, <1>3, <3>2, ValidKept
  <2>3. CASE ~(k <= len)
    <3>1. k - len \in 1..n  BY <1>7, <2>1, <2>3
    <3>2. q = ms[k - len]  BY <1>8, <2>1, <2>3
    <3>3. q = m  BY <3>1, <3>2
    <3>4. ValidAt(m, len + (k - len))  BY <3>1
    <3>5. len + (k - len) = k  BY <1>7, <2>1
    <3>6. ValidAt(q, k)  BY <3>3, <3>4, <3>5
    <3>7. QED  BY <1>1, <1>3, <3>6, ValidKept
  <2>4. QED  BY <2>2, <2>3
<1>10. ParsedInv'
  <2>1. Len(parsed') <= Total'  BY <1>4, <1>8
  <2>2. \E U : parsed' \in Seq(U)  BY <1>8
  <2>3. QED  BY <1>9, <2>1, <2>2 DEF ParsedInv
<1>11. QED  BY <1>4, <1>5, <1>10 DEF Inv

LEMMA RunKept ==
  ASSUME Inv, pc = "decode", Len(parsed) < Total,
         NEW code, code \in Readers({code.v}),
         Run(code, Column(Len(parsed)))
  PROVE  Inv'
<1> DEFINE run == Get(code, 4)
           n == run.v + 2
           len == Len(parsed)
           col == Column(len)
           m == [mode |-> "SKIP"]
<1>1. run \in Readers(Nat)  BY GetReads
<1>2. IF ~P \/ ~run.ok \/ n > picture.cols - col + 1 THEN Error
      ELSE Reconstruct(run, m, n)
  BY DEF Run
<1> HIDE DEF run
<1>3. CASE ~P \/ ~run.ok \/ n > picture.cols - col + 1
  BY <1>2, <1>3, ErrorKept
<1>4. CASE ~(~P \/ ~run.ok \/ n > picture.cols - col + 1)
  <2>1. P /\ run.ok /\ ~(n > picture.cols - col + 1) /\ Reconstruct(run, m, n)
    BY <1>2, <1>4
  <2>2. run.v \in Nat  BY <1>1, <2>1, WasRead
  <2>3. run \in Readers({run.v})  BY <1>1, <2>1 DEF Readers
  <2>4. n \in Nat  BY <2>2
  <2>5. len + n <= Total
    <3>1. picture \in Frames  BY FramesOf DEF Inv
    <3>2. picture.cols \in Nat \ {0} /\ picture.rows \in Nat
      BY <3>1, FrameTyped
    <3>3. len \in Nat
      <4>1. PICK S : parsed \in Seq(S)  BY DEF Inv, ParsedInv
      <4>2. QED  BY <4>1
    <3>4. (len % picture.cols) + n <= picture.cols
      <4> DEFINE w == len % picture.cols
                 c == picture.cols
      <4>1. w \in 0..(c - 1) /\ c \in Nat  BY <3>2, <3>3, DivMod
      <4>2. ~(n > c - (w + 1) + 1)  BY <2>1 DEF Column
      <4> HIDE DEF w, c, n
      <4>3. w + n <= c  BY <2>4, <4>1, <4>2
      <4>4. QED  BY <4>3 DEF w, c
    <3>5. len < picture.cols * picture.rows  BY DEF Total
    <3> HIDE DEF n, len
    <3>6. QED  BY <2>4, <3>2, <3>3, <3>4, <3>5, RunFits DEF Total
  <2>6. IsVector(DecodedVector(m))
    BY DEF DecodedVector, IsVector, Zero
  <2>7. \A k \in 1..n : ValidAt(m, len + k)  BY <2>1, SkipsValid
  <2> HIDE DEF n, m
  <2>8. QED  BY <2>1, <2>3, <2>4, <2>5, <2>6, <2>7, ReconstructKept
<1>5. QED  BY <1>3, <1>4

LEMMA DecodeKept ==
  ASSUME Inv, DecodeMacroblock
  PROVE  Inv'
<1> DEFINE len  == Len(parsed)
           col  == Column(len)
           x == 16 * (col - 1)
           y == 16 * (len \div picture.cols)
           predicted == Predictor(decoder, decoder.global, col)
           aligned == GetAligned(reader)
           got == IF aligned.ok THEN Get(aligned, 4) ELSE aligned
<1>1. pc = "decode" /\ len < Total  BY DEF DecodeMacroblock
<1>2. PICK code \in {got} :
        LET mode == {t \in DOMAIN ModeCode : ModeCode[t] = code.v}
        IN  IF ~code.ok \/ mode = {} THEN Error
            ELSE IF mode = {"SKIP_RUN"} THEN Run(code, col)
            ELSE \E t \in mode :
                 \E m \in {GetMacroblock(code, t, x, y, predicted)} :
                   IF m.ok THEN Reconstruct(m, m.v, 1) ELSE Error
  BY DEF DecodeMacroblock, Then
<1>3. got \in Readers(Nat)
  <2>1. reader \in Readers({reader.v})  BY <1>1 DEF Inv, DecoderInv
  <2>2. aligned \in Readers(Nat)  BY <2>1, AlignedReads
  <2> HIDE DEF aligned
  <2>3. Get(aligned, 4) \in Readers(Nat)  BY <2>2, GetReads
  <2>4. QED  BY <2>2, <2>3
<1> DEFINE mode == {t \in DOMAIN ModeCode : ModeCode[t] = code.v}
<1>4. CASE ~code.ok \/ mode = {}
  BY <1>2, <1>4, ErrorKept
<1>5. CASE code.ok /\ mode = {"SKIP_RUN"}
  <2>1. Run(code, col)  BY <1>2, <1>5
  <2>2. code \in Readers({code.v})
    <3> HIDE DEF got
    <3>1. code \in Readers(Nat)  BY <1>2, <1>3
    <3>2. QED  BY <1>5, <3>1 DEF Readers
  <2>3. QED  BY <1>1, <2>1, <2>2, RunKept
<1>6. CASE code.ok /\ mode # {} /\ mode # {"SKIP_RUN"}
  <2>1. PICK t \in mode :
          \E m \in {GetMacroblock(code, t, x, y, predicted)} :
            IF m.ok THEN Reconstruct(m, m.v, 1) ELSE Error
    BY <1>2, <1>6
  <2>2. PICK m \in {GetMacroblock(code, t, x, y, predicted)} :
          IF m.ok THEN Reconstruct(m, m.v, 1) ELSE Error
    BY <2>1
  <2>3. t \in DOMAIN ModeCode \ {"SKIP_RUN"}
    <3>1. SUFFICES ASSUME t = "SKIP_RUN" PROVE mode = {"SKIP_RUN"}
      BY <1>6
    <3>2. code.v = 9  BY <3>1 DEF ModeCode
    <3>3. QED  BY <3>2 DEF ModeCode
  <2> HIDE DEF mode
  <2>4. picture \in Frames  BY FramesOf DEF Inv
  <2>5. picture.cols \in Nat \ {0}  BY <2>4, FrameTyped
  <2>6. len \in Nat
    <3>1. PICK S : parsed \in Seq(S)  BY DEF Inv, ParsedInv
    <3>2. QED  BY <3>1
  <2>7. len % picture.cols \in 0..(picture.cols - 1) /\ len \div picture.cols \in Nat
    BY <2>5, <2>6, DivMod
  <2>8. /\ col \in 1..picture.cols /\ x \in Nat /\ y \in Nat
        /\ x = 16 * (len % picture.cols)
    <3> DEFINE w == len % picture.cols
               q == len \div picture.cols
               c == picture.cols
    <3>1. w \in 0..(c - 1) /\ q \in Nat /\ c \in Nat  BY <2>5, <2>7
    <3>2. col = w + 1  BY DEF Column
    <3> HIDE DEF w, q, c
    <3>3. /\ w + 1 \in 1..c /\ 16 * ((w + 1) - 1) \in Nat /\ 16 * q \in Nat
          /\ 16 * ((w + 1) - 1) = 16 * w
      BY <3>1
    <3>4. QED  BY <3>2, <3>3 DEF w, q, c
  <2>9. decoder \in Decoders  BY <1>1 DEF Inv, DecoderInv
  <2>10. GlobalInv /\ IsVector(decoder.global)
    BY <2>9 DEF Decoders, GlobalInv, IsVector
  <2>11. IsVector(predicted)
    <3>1. decoder.top \in Row16 /\ decoder.cur \in Row16
      BY <2>9 DEF Decoders
    <3>2. Word \subseteq Int /\ Int \in SUBSET Int  BY Words
    <3> HIDE DEF col
    <3>3. predicted[1] \in Int /\ predicted[2] \in Int
      BY <2>5, <2>8, <2>10, <3>1, <3>2, PredictorIn DEF IsVector
    <3>4. QED  BY <3>3 DEF IsVector
  <2>12. code \in Readers(Nat)
    <3> HIDE DEF got
    <3>1. QED  BY <1>2, <1>3
  <2>13. Sound(m, x, y)
    <3> HIDE DEF x, y, predicted, got
    <3>1. QED
      BY <1>6, <2>2, <2>3, <2>8, <2>10, <2>11, <2>12, MacroblockSound
  <2>14. CASE ~m.ok  BY <2>2, <2>14, ErrorKept
  <2>15. CASE m.ok
    <3>1. Reconstruct(m, m.v, 1)  BY <2>2, <2>15
    <3>2. m \in Readers({m.v}) /\ Valid(m.v, x, y)
      BY <2>13, <2>15 DEF Sound
    <3>3. \A k \in 1..1 : ValidAt(m.v, len + k)
      <4>1. (len + 1) - 1 = len  BY <2>6
      <4> HIDE DEF col, len
      <4>2. ValidAt(m.v, len + 1)  BY <2>8, <3>2, <4>1 DEF ValidAt
      <4>3. QED  BY <4>2
    <3>4. IsVector(DecodedVector(m.v))
      <4> DEFINE b == m.v
      <4>1. Valid(b, x, y)  BY <3>2
      <4> HIDE DEF b, x, y
      <4>2. b.mode = "INTER" => IsVector(b.mv)
        BY <4>1 DEF Valid, Inside, IsVector
      <4>3. IsVector(DecodedVector(b))
        BY <2>10, <4>2 DEF DecodedVector, Zero, IsVector
      <4>4. QED  BY <4>3 DEF b
    <3>5. len + 1 <= Total
      <4>1. Total \in Nat  BY <2>4, FrameTyped
      <4>2. QED  BY <1>1, <2>6, <4>1
    <3> HIDE DEF x, y, predicted, col
    <3>6. QED
      BY <1>1, <2>15, <3>1, <3>2, <3>3, <3>4, <3>5, ReconstructKept
  <2>16. QED  BY <2>14, <2>15
<1>7. QED  BY <1>4, <1>5, <1>6

LEMMA EndKept ==
  ASSUME Inv, EndDecode
  PROVE  Inv'
<1>1. /\ pc' = "done" /\ picture' = picture /\ parsed' = parsed
      /\ decoder' = decoder
      /\ UNCHANGED <<picture, bits, pending, encoder, coded>>
  BY DEF EndDecode
<1>2. PictureInv' /\ EncoderInv' /\ ParsedInv'
  BY <1>1, PictureKept, EncoderKept, ParsedKept DEF Inv
<1>3. DecoderInv'  BY <1>1 DEF DecoderInv
<1>4. QED  BY <1>2, <1>3 DEF Inv

LEMMA StutterKept ==
  ASSUME Inv, UNCHANGED vars
  PROVE  Inv'
<1>1. /\ picture' = picture /\ parsed' = parsed /\ decoder' = decoder
      /\ reader' = reader /\ pc' = pc
      /\ UNCHANGED <<picture, bits, pending, encoder, coded>>
  BY DEF vars
<1>2. PictureInv' /\ EncoderInv' /\ ParsedInv'
  BY <1>1, PictureKept, EncoderKept, ParsedKept DEF Inv
<1>3. Decoders' = Decoders  BY <1>1 DEF Decoders, Row16
<1>4. DecoderInv'  BY <1>1, <1>3 DEF Inv, DecoderInv
<1>5. QED  BY <1>2, <1>4 DEF Inv

\* What the invariant says of the macroblocks is what the decoder promises.
LEMMA InvValid ==
  ASSUME Inv
  PROVE  OnlyValidDecoded
<1>1. picture \in Frames  BY FramesOf DEF Inv
<1>2. picture.cols \in Nat \ {0} /\ picture.rows \in Nat  BY <1>1, FrameTyped
<1>3. Len(parsed) <= Total  BY DEF Inv, ParsedInv
<1>4. Len(parsed) \in Nat
  <2>1. PICK S : parsed \in Seq(S)  BY DEF Inv, ParsedInv
  <2>2. QED  BY <2>1
<1>5. ASSUME NEW n \in 1..Len(parsed), NEW m, m = parsed[n], NEW at,
             at = WholeAt(n - 1)
      PROVE  /\ m.mode \in MotionModes => P
             /\ m.mode = "INTER" => ReadsInside(at, m.mv)
             /\ m.mode = "GLOBAL" => ReadsInside(at, decoder.global)
             /\ m.mode \in {"SPLIT_INTER", "SPLIT_JOINT", "RECT_SPLIT"} =>
                  \A k \in 1..Len(m.parts) :
                    m.parts[k].inter =>
                      ReadsInside(PartAt(m, k, at.x, at.y), m.parts[k].mv)
  <2> DEFINE x == 16 * ((n - 1) % picture.cols)
             y == 16 * ((n - 1) \div picture.cols)
  <2>1. ValidAt(m, n)  BY <1>5 DEF Inv, ParsedInv
  <2>2. Valid(m, x, y)  BY <2>1 DEF ValidAt
  <2>3. n - 1 \in Nat  BY <1>4
  <2>4. x \in Nat /\ y \in Nat
    <3> DEFINE t == (n - 1) % picture.cols
               q == (n - 1) \div picture.cols
    <3>1. t \in Nat /\ q \in Nat
      <4> DEFINE j == n - 1
                 c == picture.cols
      <4>1. j \in Nat /\ c \in Nat \ {0}  BY <1>2, <2>3
      <4> HIDE DEF j, c
      <4>2. j % c \in 0..(c - 1) /\ j \div c \in Nat  BY <4>1, DivMod
      <4>3. QED  BY <4>1, <4>2 DEF j, c
    <3> HIDE DEF t, q
    <3>2. 16 * t \in Nat /\ 16 * q \in Nat  BY <3>1
    <3>3. QED  BY <3>2 DEF t, q
  <2>5. at = Whole(x, y) /\ at.x = x /\ at.y = y
    BY <1>5 DEF WholeAt, Whole
  <2> HIDE DEF x, y
  <2>6. at \in Places  BY <2>4, <2>5 DEF Whole, Places
  <2>7. m.mode \in MotionModes => P  BY <2>2 DEF Valid
  <2>8. m.mode = "INTER" => ReadsInside(at, m.mv)
    <3>1. m.mode = "INTER" => m.mv \in Inside(at)  BY <2>2, <2>5 DEF Valid
    <3>2. QED  BY <1>2, <2>6, <3>1, MotionInside
  <2>9. m.mode = "GLOBAL" => ReadsInside(at, decoder.global)
    <3>1. m.mode = "GLOBAL" => decoder.global \in Inside(at)
      BY <2>2, <2>5 DEF Valid
    <3>2. QED  BY <1>2, <2>6, <3>1, MotionInside
  <2>10. ASSUME m.mode \in Splits, NEW k \in 1..Len(m.parts), m.parts[k].inter
         PROVE  ReadsInside(PartAt(m, k, x, y), m.parts[k].mv)
    <3>1. /\ PartAt(m, k, x, y) \in Places
          /\ m.parts[k].mv \in Inside(PartAt(m, k, x, y))
      BY <2>2, <2>10 DEF Valid
    <3>2. QED  BY <1>2, <3>1, MotionInside
  <2>11. QED  BY <2>5, <2>7, <2>8, <2>9, <2>10 DEF Splits
<1>6. QED  BY <1>3, <1>5 DEF OnlyValidDecoded

LEMMA InvKept ==
  ASSUME Inv, [Next]_vars
  PROVE  Inv'
<1>1. CASE EncodeMacroblock  BY <1>1, EncodeKept
<1>2. CASE Send  BY <1>2, SendKept
<1>3. CASE DamagePacket  BY <1>3, DamageKept
<1>4. CASE StartDecode  BY <1>4, StartKept
<1>5. CASE DecodeMacroblock  BY <1>5, DecodeKept
<1>6. CASE EndDecode  BY <1>6, EndKept
<1>7. CASE UNCHANGED vars  BY <1>7, StutterKept
<1>8. QED  BY <1>1, <1>2, <1>3, <1>4, <1>5, <1>6, <1>7 DEF Next

\* Whatever the picture, and whatever bits are wrong or missing: the decoder
\* reconstructs no more macroblocks than the picture has, P modes in P
\* pictures only, and no prediction reads a sample outside the reference
\* picture (decoder_decode_packet, motion_valid, the SKIP_RUN limit).
THEOREM ValidDecoded == Spec => []OnlyValidDecoded
<1>1. Init => Inv  BY InitInv
<1>2. Inv /\ [Next]_vars => Inv'  BY InvKept
<1>3. Inv => OnlyValidDecoded  BY InvValid
<1>4. QED  BY <1>1, <1>2, <1>3, PTL DEF Spec
-----------------------------------------------------------------------------
(* A reader in front of a code.                                            *)

IsReader(r) == r = [bits |-> r.bits, at |-> r.at, v |-> r.v, ok |-> r.ok]

\* The bits behind a reader that has not failed begin with s.
At(r, s) ==
  /\ IsReader(r) /\ r.ok
  /\ r.bits \in Strings /\ s \in Strings /\ r.at \in Nat
  /\ r.at + Len(s) <= Len(r.bits)
  /\ \A i \in 1..Len(s) : r.bits[r.at + i] = s[i]

\* The reader behind s, with the value v.
After(r, s, v) == [bits |-> r.bits, at |-> r.at + Len(s), v |-> v, ok |-> r.ok]

LEMMA Updated ==
  ASSUME NEW r, IsReader(r), NEW w, NEW n
  PROVE  /\ Returns(r, w) = [bits |-> r.bits, at |-> r.at, v |-> w, ok |-> r.ok]
         /\ [r EXCEPT !.at = @ + n, !.v = w] =
              [bits |-> r.bits, at |-> r.at + n, v |-> w, ok |-> r.ok]
<1>1. [r EXCEPT !.v = w] = [bits |-> r.bits, at |-> r.at, v |-> w, ok |-> r.ok]
  BY DEF IsReader
<1>2. [r EXCEPT !.at = @ + n, !.v = w] =
        [bits |-> r.bits, at |-> r.at + n, v |-> w, ok |-> r.ok]
  <2> DEFINE m == r.at + n
             d == [r EXCEPT !.at = m]
  <2>1. [r EXCEPT !.at = @ + n, !.v = w] = [r EXCEPT !.at = m, !.v = w]
    OBVIOUS
  <2> HIDE DEF m
  <2>2. [r EXCEPT !.at = m, !.v = w] = [d EXCEPT !.v = w]
    BY DEF IsReader
  <2>3. d = [bits |-> r.bits, at |-> m, v |-> r.v, ok |-> r.ok]
    BY DEF IsReader
  <2> HIDE DEF d
  <2>4. [d EXCEPT !.v = w] = [bits |-> r.bits, at |-> m, v |-> w, ok |-> r.ok]
    BY <2>3
  <2>5. QED  BY <2>1, <2>2, <2>4 DEF m
<1>3. QED  BY <1>1, <1>2 DEF Returns

LEMMA Behind ==
  ASSUME NEW r, NEW s, NEW v
  PROVE  /\ After(r, s, v).ok = r.ok /\ After(r, s, v).v = v
         /\ After(r, s, v).bits = r.bits /\ After(r, s, v).at = r.at + Len(s)
         /\ IsReader(After(r, s, v))
BY DEF After, IsReader

LEMMA Revalued ==
  ASSUME NEW r, NEW s, NEW v, NEW w
  PROVE  Returns(After(r, s, v), w) = After(r, s, w)
<1> DEFINE a == After(r, s, v)
<1>1. IsReader(a) /\ a.ok = r.ok /\ a.bits = r.bits /\ a.at = r.at + Len(s)
  BY Behind
<1> HIDE DEF a
<1>2. Returns(a, w) = [bits |-> a.bits, at |-> a.at, v |-> w, ok |-> a.ok]
  BY <1>1, Updated
<1>3. QED  BY <1>1, <1>2 DEF After, a

LEMMA Here ==
  ASSUME NEW r, NEW s, At(r, s), NEW v
  PROVE  r.ok /\ At(r, <<>>) /\ Returns(r, v) = After(r, <<>>, v)
<1>1. r.ok  BY DEF At
<1>2. At(r, <<>>)  BY DEF At, Strings
<1>3. Returns(r, v) = After(r, <<>>, v)
  <2>1. Returns(r, v) = [bits |-> r.bits, at |-> r.at, v |-> v, ok |-> r.ok]
    BY Updated DEF At
  <2>2. r.at + Len(<<>>) = r.at  BY DEF At
  <2>3. QED  BY <2>1, <2>2 DEF After
<1>4. QED  BY <1>1, <1>2, <1>3

\* One code after the other.
LEMMA Parted ==
  ASSUME NEW s \in Strings, NEW t \in Strings, NEW r, At(r, s \o t), NEW v
  PROVE  /\ At(r, s) /\ At(After(r, s, v), t)
         /\ \A w : After(After(r, s, v), t, w) = After(r, s \o t, w)
<1>1. /\ r.bits \in Seq(Bit) /\ r.at \in Nat /\ s \in Seq(Bit) /\ t \in Seq(Bit)
      /\ r.at + Len(s \o t) <= Len(r.bits)
  BY DEF At, Strings
<1>2. Len(s \o t) = Len(s) + Len(t) /\ Len(s) \in Nat /\ Len(t) \in Nat
  BY <1>1
<1>3. ASSUME NEW i \in 1..Len(s) PROVE r.bits[r.at + i] = s[i]
  <2>1. i \in 1..Len(s \o t) /\ (s \o t)[i] = s[i]  BY <1>1, <1>2
  <2>2. QED  BY <2>1 DEF At
<1>4. ASSUME NEW i \in 1..Len(t)
      PROVE  r.bits[(r.at + Len(s)) + i] = t[i]
  <2>1. Len(s) + i \in 1..Len(s \o t) /\ (s \o t)[Len(s) + i] = t[i]
    BY <1>1, <1>2
  <2>2. r.bits[r.at + (Len(s) + i)] = t[i]  BY <2>1 DEF At
  <2>3. r.at + (Len(s) + i) = (r.at + Len(s)) + i  BY <1>1, <1>2
  <2>4. QED  BY <2>2, <2>3
<1>5. At(r, s)
  BY <1>1, <1>2, <1>3 DEF At
<1>6. At(After(r, s, v), t)
  <2> DEFINE a == After(r, s, v)
  <2>1. IsReader(a) /\ a.ok = r.ok /\ a.bits = r.bits /\ a.at = r.at + Len(s)
    BY Behind
  <2> HIDE DEF a
  <2>2. a.at \in Nat /\ a.at + Len(t) <= Len(a.bits)  BY <1>1, <1>2, <2>1
  <2>3. \A i \in 1..Len(t) : a.bits[a.at + i] = t[i]  BY <1>4, <2>1
  <2>4. a.bits \in Strings /\ a.ok  BY <2>1 DEF At
  <2>5. At(a, t)  BY <2>1, <2>2, <2>3, <2>4 DEF At
  <2>6. QED  BY <2>5 DEF a
<1>7. ASSUME NEW w PROVE After(After(r, s, v), t, w) = After(r, s \o t, w)
  <2>1. (r.at + Len(s)) + Len(t) = r.at + Len(s \o t)  BY <1>1, <1>2
  <2>2. QED  BY <2>1, Behind DEF After
<1>8. QED  BY <1>5, <1>6, <1>7

LEMMA GotAll ==
  ASSUME NEW r, NEW s, At(r, s)
  PROVE  Get(r, Len(s)) = After(r, s, Value(s))
<1>1. /\ r.bits \in Seq(Bit) /\ r.at \in Nat /\ s \in Seq(Bit)
      /\ r.at + Len(s) <= Len(r.bits)
  BY DEF At, Strings
<1>2. SubSeq(r.bits, r.at + 1, r.at + Len(s)) = s
  <2> DEFINE u == SubSeq(r.bits, r.at + 1, r.at + Len(s))
  <2>1. u \in Seq(Bit) /\ Len(u) = Len(s)  BY <1>1
  <2>2. ASSUME NEW i \in 1..Len(s) PROVE u[i] = s[i]
    <3>1. u[i] = r.bits[r.at + i]  BY <1>1
    <3>2. QED  BY <3>1 DEF At
  <2> HIDE DEF u
  <2>3. u = [i \in 1..Len(s) |-> u[i]] /\ s = [i \in 1..Len(s) |-> s[i]]
    BY <1>1, <2>1
  <2>4. u = s  BY <2>2, <2>3
  <2>5. QED  BY <2>4 DEF u
<1>3. ~(Len(s) > Left(r))  BY <1>1 DEF Left
<1>4. Get(r, Len(s)) = [r EXCEPT !.at = @ + Len(s), !.v = Value(s)]
  BY <1>2, <1>3 DEF Get
<1>5. QED  BY <1>4, Updated DEF After, At

-----------------------------------------------------------------------------
(* The value of bits.                                                      *)

\* Any function built like v in Value gives the value.
LEMMA ValueOf ==
  ASSUME NEW b \in Strings, NEW f,
         f[0] = 0, \A i \in 1..Len(b) : f[i] = 2 * f[i - 1] + b[i]
  PROVE  Value(b) = f[Len(b)]
<1> DEFINE n == Len(b)
           g == [i \in 0..n |-> f[i]]
           Is(h) == h = [i \in 0..n |-> IF i = 0 THEN 0
                                        ELSE 2 * h[i - 1] + b[i]]
           c == CHOOSE h : Is(h)
<1>1. n \in Nat  BY DEF Strings
<1> HIDE DEF n
<1>2. ASSUME NEW i \in 0..n
      PROVE  g[i] = IF i = 0 THEN 0 ELSE 2 * g[i - 1] + b[i]
  <2>1. CASE i = 0  BY <2>1
  <2>2. CASE i # 0
    <3>1. i \in 1..n /\ i - 1 \in 0..n  BY <1>1, <2>2
    <3>2. QED  BY <2>2, <3>1 DEF n
  <2>3. QED  BY <2>1, <2>2
<1>3. Is(g)
  <2>1. g = [i \in 0..n |-> g[i]]  OBVIOUS
  <2> HIDE DEF g
  <2>2. QED  BY <1>2, <2>1
<1>4. Is(c)  BY <1>3
<1>5. Parallel(c, g, n)
  <2> HIDE DEF c, g
  <2>1. /\ c = [i \in 0..n |-> IF i = 0 THEN 0 ELSE 2 * c[i - 1] + b[i]]
        /\ g = [i \in 0..n |-> IF i = 0 THEN 0 ELSE 2 * g[i - 1] + b[i]]
    BY <1>3, <1>4
  <2>2. QED  BY <1>1, <2>1 DEF Parallel
<1>6. Value(b) = c[n]  BY DEF Value, n
<1>7. c[n] = g[n]
  <2> HIDE DEF c, g
  <2>1. QED  BY <1>1, <1>5, Alike
<1>8. QED  BY <1>1, <1>6, <1>7 DEF n

\* A number shifted down by one bit more.
LEMMA Shifted ==
  ASSUME NEW v \in Nat, NEW p \in Nat \ {0}
  PROVE  /\ v \div p \in Nat
         /\ v \div p = 2 * (v \div (2 * p)) + ((v \div p) % 2)
<1> DEFINE q == v \div p
           s == v % p
           h == q \div 2
           e == q % 2
<1>1. q \in Nat /\ s \in 0..(p - 1) /\ v = q * p + s  BY DivMod
<1>2. h \in Nat /\ e \in 0..1 /\ q = h * 2 + e
  <2> HIDE DEF q
  <2>1. QED  BY <1>1
<1> HIDE DEF q, s, h, e
<1>3. v = h * (2 * p) + (e * p + s)
  <2>1. q * p = (h * 2) * p + e * p  BY <1>1, <1>2
  <2>2. (h * 2) * p = h * (2 * p)  BY <1>2
  <2>3. QED  BY <1>1, <1>2, <2>1, <2>2
<1>4. e * p + s \in 0..(2 * p - 1)
  <2>1. e = 0 \/ e = 1  BY <1>2
  <2>2. QED  BY <1>1, <2>1
<1>5. v \div (2 * p) = h
  <2> DEFINE w == 2 * p
             t == e * p + s
  <2>1. w \in Nat \ {0} /\ t \in 0..(w - 1) /\ v = h * w + t  BY <1>3, <1>4
  <2> HIDE DEF w, t
  <2>2. QED  BY <1>2, <2>1, DivMod DEF w
<1>6. q = 2 * h + e /\ q \in Nat  BY <1>1, <1>2
<1>7. q = 2 * (v \div (2 * p)) + e /\ q \in Nat  BY <1>5, <1>6, Zenon
<1>8. QED  BY <1>7, Zenon DEF q, e

\* The value of n bits of v.
LEMMA BitsValue ==
  ASSUME NEW v \in Nat, NEW n \in 0..32
  PROVE  /\ Bits(v, n) \in Strings /\ Len(Bits(v, n)) = n
         /\ Value(Bits(v, n)) = v - 2^n * (v \div 2^n)
<1> DEFINE b == Bits(v, n)
           f == [i \in 0..n |-> (v \div 2^(n - i)) - 2^i * (v \div 2^n)]
<1>1. b \in Strings /\ Len(b) = n /\ \A i \in 1..n : b[i] = (v \div 2^(n - i)) % 2
  <2>1. v \in Int /\ n \in Nat  OBVIOUS
  <2>2. b \in Strings  BY <2>1, BitsTyped
  <2>3. b = [i \in 1..n |-> (v \div 2^(n - i)) % 2]  BY DEF Bits
  <2> HIDE DEF b
  <2>4. DOMAIN b = 1..n  BY <2>3
  <2>5. Len(b) = n  BY <2>1, <2>2, <2>4 DEF Strings
  <2>6. QED  BY <2>2, <2>3, <2>5
<1>2. f[0] = 0
  <2>1. 2^n \in Nat \ {0}  BY Powers
  <2> DEFINE p == 2^n
             d == v \div p
  <2>2. d \in Int  BY <2>1
  <2> HIDE DEF p, d
  <2>3. f[0] = d - 2^0 * d  BY DEF p, d
  <2>4. 2^0 = 1  OBVIOUS
  <2>5. QED  BY <2>2, <2>3, <2>4
<1>3. ASSUME NEW i \in 1..n PROVE f[i] = 2 * f[i - 1] + b[i]
  <2> DEFINE p == 2^(n - i)
             Q == v \div 2^n
             w == 2^(i - 1)
  <2>1. p \in Nat \ {0} /\ 2^(n - (i - 1)) = 2 * p
    <3>1. n - i \in 0..32 /\ (n - i) + 1 = n - (i - 1)  OBVIOUS
    <3>2. QED  BY <3>1, Powers
  <2>2. w \in Nat \ {0} /\ 2^i = 2 * w
    <3>1. i - 1 \in 0..32 /\ (i - 1) + 1 = i  OBVIOUS
    <3>2. QED  BY <3>1, Powers
  <2>3. Q \in Nat
    <3>1. 2^n \in Nat \ {0}  BY Powers
    <3>2. QED  BY <3>1, DivMod
  <2>4. /\ f[i] = (v \div p) - 2^i * Q
        /\ f[i - 1] = (v \div 2^(n - (i - 1))) - w * Q
    BY DEF f
  <2>5. b[i] = (v \div p) % 2  BY <1>1
  <2> HIDE DEF f, b, p, Q, w
  <2>6. /\ v \div p \in Nat
        /\ v \div p = 2 * (v \div (2 * p)) + ((v \div p) % 2)
    BY <2>1, Shifted
  <2> DEFINE x == v \div p
             y == v \div (2 * p)
             e == x % 2
  <2>7. y \in Nat /\ e \in Nat /\ x \in Nat
    BY <2>1, <2>6, Shifted, DivMod
  <2>8. x = 2 * y + e  BY <2>6
  <2>9. f[i] = x - (2 * w) * Q /\ f[i - 1] = y - w * Q /\ b[i] = e
    BY <2>1, <2>2, <2>4, <2>5
  <2> HIDE DEF x, y, e
  <2>10. QED  BY <2>2, <2>3, <2>7, <2>8, <2>9
<1>4. Value(b) = f[n]
  <2> HIDE DEF b, f
  <2>1. QED  BY <1>1, <1>2, <1>3, ValueOf
<1>5. f[n] = v - 2^n * (v \div 2^n)
  <2>1. n - n = 0 /\ n \in 0..n  OBVIOUS
  <2>2. f[n] = (v \div 2^0) - 2^n * (v \div 2^n)  BY <2>1
  <2>3. v \div 2^0 = v
    <3>1. 2^0 = 1  OBVIOUS
    <3>2. QED  BY <3>1
  <2>4. QED  BY <2>2, <2>3
<1>6. QED  BY <1>1, <1>4, <1>5

-----------------------------------------------------------------------------
(* The numbers come back.                                                  *)

LEMMA GotBits ==
  ASSUME NEW v \in Nat, NEW n \in 0..32, v < 2^n, NEW r, At(r, Bits(v, n))
  PROVE  Get(r, n) = After(r, Bits(v, n), v)
<1> DEFINE b == Bits(v, n)
           p == 2^n
<1>1. p \in Nat \ {0}  BY Powers
<1>2. Len(b) = n /\ Value(b) = v - p * (v \div p)  BY BitsValue
<1>3. v < p  OBVIOUS
<1>4. v \div p = 0
  <2> HIDE DEF p
  <2>1. v = 0 * p + v /\ v \in 0..(p - 1)  BY <1>1, <1>3
  <2>2. QED  BY <1>1, <1>3, Z3
<1>5. Value(b) = v
  <2> HIDE DEF p, b
  <2>1. p * 0 = 0  BY <1>1
  <2>2. QED  BY <1>2, <1>4, <2>1
<1>6. At(r, b)  OBVIOUS
<1> HIDE DEF b
<1>7. Get(r, Len(b)) = After(r, b, Value(b))  BY <1>6, GotAll
<1>8. Get(r, n) = After(r, b, v)  BY <1>2, <1>5, <1>7
<1>9. QED  BY <1>8 DEF b

LEMMA OneBit ==
  ASSUME NEW b \in Bit
  PROVE  <<b>> = Bits(b, 1) /\ <<b>> \in Strings /\ Len(<<b>>) = 1
<1>1. b \in Nat /\ b % 2 = b /\ <<b>> \in Seq(Bit)  BY DEF Bit
<1>2. Bits(b, 1) = [i \in 1..1 |-> b]
  <2>1. ASSUME NEW i \in 1..1 PROVE (b \div 2^(1 - i)) % 2 = b
    <3>1. i = 1 /\ 2^(1 - 1) = 1  OBVIOUS
    <3>2. b \div 1 = b  BY <1>1
    <3>3. QED  BY <1>1, <3>1, <3>2
  <2>2. QED  BY <2>1 DEF Bits
<1>3. <<b>> = [i \in 1..1 |-> b]  OBVIOUS
<1>4. QED  BY <1>1, <1>2, <1>3 DEF Strings

LEMMA GotBit ==
  ASSUME NEW b \in Bit, NEW r, At(r, <<b>>)
  PROVE  Get(r, 1) = After(r, <<b>>, b)
<1>1. b \in Nat /\ b < 2^1 /\ 1 \in 0..32  BY DEF Bit
<1>2. At(r, Bits(b, 1))  BY OneBit
<1>3. Get(r, 1) = After(r, Bits(b, 1), b)  BY <1>1, <1>2, GotBits
<1>4. QED  BY <1>3, OneBit

\* The first bit of the code of v + 1 and the rest.
LEMMA LeadingBit ==
  ASSUME NEW x \in Nat, NEW n \in 0..31, 2^n <= x, x < 2^(n + 1)
  PROVE  /\ Bits(x, n + 1) = <<1>> \o Bits(x, n)
         /\ Value(Bits(x, n)) = x - 2^n
<1> DEFINE p == 2^n
<1>1. p \in Nat \ {0} /\ 2^(n + 1) = 2 * p
  <2>1. n \in 0..32  OBVIOUS
  <2>2. QED  BY <2>1, Powers
<1>2. p <= x /\ x < 2 * p  BY <1>1
<1>3. x \div p = 1
  <2> HIDE DEF p
  <2>1. QED  BY <1>1, <1>2, Z3
<1>4. Value(Bits(x, n)) = x - p
  <2>0. n \in 0..32  OBVIOUS
  <2>1. Value(Bits(x, n)) = x - p * (x \div p)  BY <2>0, BitsValue
  <2> HIDE DEF p
  <2>2. p * 1 = p  BY <1>1
  <2>3. QED  BY <1>3, <2>1, <2>2
<1>5. /\ Bits(x, n) \in Seq(Bit) /\ Len(Bits(x, n)) = n
      /\ Bits(x, n + 1) \in Seq(Bit) /\ Len(Bits(x, n + 1)) = n + 1
  <2>1. n \in 0..32 /\ n + 1 \in 0..32  OBVIOUS
  <2>2. QED  BY <2>1, BitsValue DEF Strings
<1>6. ASSUME NEW i \in 1..(n + 1)
      PROVE  Bits(x, n + 1)[i] = (<<1>> \o Bits(x, n))[i]
  <2>1. Bits(x, n + 1)[i] = (x \div 2^((n + 1) - i)) % 2  BY DEF Bits
  <2>2. CASE i = 1
    <3>1. (n + 1) - i = n  BY <2>2
    <3>2. Bits(x, n + 1)[i] = (x \div p) % 2  BY <2>1, <3>1
    <3> HIDE DEF p
    <3>3. Bits(x, n + 1)[i] = 1  BY <1>3, <3>2
    <3>4. (<<1>> \o Bits(x, n))[1] = 1  BY <1>5
    <3>5. QED  BY <2>2, <3>3, <3>4
  <2>3. CASE i # 1
    <3>1. i - 1 \in 1..n /\ n - (i - 1) = (n + 1) - i  BY <2>3
    <3>2. Bits(x, n)[i - 1] = (x \div 2^(n - (i - 1))) % 2
      BY <3>1 DEF Bits
    <3>3. (<<1>> \o Bits(x, n))[i] = Bits(x, n)[i - 1]  BY <1>5, <2>3
    <3>4. QED  BY <2>1, <3>1, <3>2, <3>3
  <2>4. QED  BY <2>2, <2>3
<1>7. Bits(x, n + 1) = <<1>> \o Bits(x, n)
  <2> DEFINE s == Bits(x, n + 1)
             t == <<1>> \o Bits(x, n)
  <2>1. t \in Seq(Nat) /\ Len(t) = n + 1  BY <1>5 DEF Bit
  <2>2. s \in Seq(Nat) /\ Len(s) = n + 1  BY <1>5 DEF Bit
  <2>3. \A i \in 1..(n + 1) : s[i] = t[i]  BY <1>6
  <2> HIDE DEF s, t
  <2>4. s = t  BY <2>1, <2>2, <2>3
  <2>5. QED  BY <2>4 DEF s, t
<1>8. QED  BY <1>4, <1>7

\* The smallest of a set of natural numbers.
LEMMA MinIs ==
  ASSUME NEW S, S \in SUBSET Nat, NEW n \in S, \A k \in S : n <= k
  PROVE  Min(S) = n
<1>1. Min(S) \in S /\ \A k \in S : Min(S) <= k
  <2>1. \E x \in S : \A y \in S : x <= y  OBVIOUS
  <2>2. QED  BY <2>1 DEF Min
<1>2. Min(S) <= n /\ n <= Min(S) /\ Min(S) \in Nat /\ n \in Nat
  BY <1>1
<1>3. QED  BY <1>2

LEMMA GotUE ==
  ASSUME NEW v \in Number, NEW r, At(r, UE(v))
  PROVE  GetUE(r) = After(r, UE(v), v)
<1> DEFINE n == Leading(v)
           x == v + 1
           z == Bits(0, n)
           s == z \o <<1>>
           t == Bits(x, n)
           ones == {k \in 0..(Left(r) - 1) : r.bits[r.at + k + 1] = 1}
<1>1. n \in 0..31 /\ 2^n <= x /\ x < 2^(n + 1)
  <2>1. \E k \in 0..31 : 2^k <= v + 1 /\ v + 1 < 2^(k + 1)
    BY LeadingFound
  <2>2. QED  BY <2>1 DEF Leading
<1>2. x \in Nat /\ v \in Nat /\ x = v + 1  BY DEF Number
<1>3. UE(v) = z \o Bits(x, n + 1)  BY DEF UE
<1> HIDE DEF n, x
<1>4. /\ Bits(x, n + 1) = <<1>> \o t /\ Value(t) = x - 2^n
  BY <1>1, <1>2, LeadingBit
<1>5. /\ z \in Strings /\ Len(z) = n /\ \A i \in 1..n : z[i] = 0
      /\ t \in Strings /\ Len(t) = n
  <2>1. n \in 0..32 /\ 0 \in Nat  BY <1>1
  <2>2. z \in Strings /\ Len(z) = n /\ t \in Strings /\ Len(t) = n
    BY <1>2, <2>1, BitsValue
  <2>3. ASSUME NEW i \in 1..n PROVE z[i] = 0
    <3> DEFINE p == 2^(n - i)
    <3>1. n - i \in 0..32  BY <2>1
    <3>2. p \in Nat \ {0}  BY <3>1, Powers
    <3>3. z[i] = (0 \div p) % 2  BY DEF Bits
    <3> HIDE DEF p
    <3>4. 0 \div p = 0  BY <3>2, Z3
    <3>5. QED  BY <3>3, <3>4
  <2>4. QED  BY <2>2, <2>3
<1> HIDE DEF z, t
<1>6. s \in Strings /\ Len(s) = n + 1 /\ s[n + 1] = 1
      /\ \A i \in 1..n : s[i] = 0
  BY <1>1, <1>5 DEF Strings, Bit
<1>7. UE(v) = s \o t
  <2>1. UE(v) = z \o (<<1>> \o t)  BY <1>3, <1>4
  <2>2. z \in Seq(Bit) /\ <<1>> \in Seq(Bit) /\ t \in Seq(Bit)
    BY <1>5 DEF Strings, Bit
  <2>3. QED  BY <2>1, <2>2
<1> HIDE DEF s
<1>8. /\ r.at \in Nat /\ r.bits \in Seq(Bit)
      /\ r.at + (n + 1) <= Len(r.bits)
      /\ \A i \in 1..(n + 1) : r.bits[r.at + i] = s[i]
  <2>1. At(r, s)  BY <1>5, <1>6, <1>7, Parted
  <2>2. QED  BY <1>6, <2>1 DEF At, Strings
<1>9. ones \in SUBSET Nat /\ n \in ones /\ \A k \in ones : n <= k
  <2>0. \A a \in Nat, k \in Nat : a + k + 1 = a + (k + 1)  OBVIOUS
  <2>1. n \in ones
    <3>1. n \in 0..(Left(r) - 1)  BY <1>1, <1>8 DEF Left
    <3>2. n + 1 \in 1..(n + 1) /\ r.at + n + 1 = r.at + (n + 1)
      <4>1. n \in Nat /\ n + 1 \in 1..(n + 1)  BY <1>1
      <4>2. QED  BY <1>8, <2>0, <4>1
    <3>3. r.bits[r.at + n + 1] = 1  BY <1>6, <1>8, <3>2
    <3>4. QED  BY <3>1, <3>3
  <2>2. ASSUME NEW k \in ones, ~(n <= k) PROVE FALSE
    <3>1. k \in Nat /\ r.bits[r.at + k + 1] = 1  OBVIOUS
    <3>2. /\ k + 1 \in 1..n /\ k + 1 \in 1..(n + 1)
          /\ r.at + k + 1 = r.at + (k + 1)
      <4>1. k + 1 \in 1..n /\ k + 1 \in 1..(n + 1)
        BY <1>1, <2>2, <3>1
      <4>2. QED  BY <1>8, <2>0, <3>1, <4>1
    <3>3. r.bits[r.at + k + 1] = 0  BY <1>6, <1>8, <3>2
    <3>4. QED  BY <3>1, <3>3
  <2>3. QED  BY <2>1, <2>2
<1>10. GetUE(r) = IF ones = {} THEN Failed(r) ELSE GetSuffix(r, Min(ones))
  BY DEF GetUE
<1> HIDE DEF ones
<1>11. GetUE(r) = GetSuffix(r, n)
  BY <1>9, <1>10, MinIs
<1>12. At(r, s) /\ \A a : At(After(r, s, a), t)
                 /\ \A w : After(After(r, s, a), t, w) = After(r, UE(v), w)
  BY <1>5, <1>6, <1>7, Parted
<1>13. Get(Get(r, n + 1), n) = After(r, UE(v), x - 2^n)
  <2>1. Get(r, n + 1) = After(r, s, Value(s))  BY <1>6, <1>12, GotAll
  <2> DEFINE q == After(r, s, Value(s))
  <2>2. At(q, t)  BY <1>12
  <2>3. After(q, t, x - 2^n) = After(r, UE(v), x - 2^n)  BY <1>12
  <2> HIDE DEF q
  <2>4. Get(q, n) = After(q, t, Value(t))  BY <1>5, <2>2, GotAll
  <2>5. QED  BY <1>4, <2>1, <2>3, <2>4 DEF q
<1>14. r.ok  BY DEF At
<1>15. GetSuffix(r, n) = Returns(After(r, UE(v), x - 2^n), 2^n + (x - 2^n) - 1)
  <2> DEFINE q == After(r, UE(v), x - 2^n)
  <2>1. q.ok /\ q.v = x - 2^n  BY <1>14, Behind
  <2>2. ~(n > 31)  BY <1>1
  <2> HIDE DEF q
  <2>3. Get(Get(r, n + 1), n) = q  BY <1>13 DEF q
  <2>4. GetSuffix(r, n) = Returns(q, 2^n + q.v - 1)
    BY <2>1, <2>2, <2>3 DEF GetSuffix, Then
  <2>5. QED  BY <2>1, <2>4 DEF q
<1>16. 2^n + (x - 2^n) - 1 = v
  <2> DEFINE p == 2^n
  <2>1. n \in 0..32  BY <1>1
  <2>2. p \in Nat \ {0}  BY <2>1, Powers
  <2> HIDE DEF p
  <2>3. p + (x - p) - 1 = v  BY <1>2, <2>2
  <2>4. QED  BY <2>3 DEF p
<1>17. QED  BY <1>11, <1>15, <1>16, Revalued

LEMMA GotSE ==
  ASSUME NEW v \in Int, -131072 < v, v < 131072, NEW r, At(r, SE(v))
  PROVE  GetSE(r) = After(r, SE(v), v)
<1> DEFINE u == Mapped(v)
           q == After(r, UE(u), u)
<1>1. u \in Number /\ SE(v) = UE(u)  BY DEF Mapped, Number, SE
<1>2. Unmapped(u) = v  BY SignedRoundTrip
<1> HIDE DEF u
<1>3. GetUE(r) = q  BY <1>1, GotUE
<1>4. q.ok /\ q.v = u /\ Returns(q, v) = After(r, SE(v), v)
  <2>1. r.ok  BY DEF At
  <2>2. QED  BY <1>1, <2>1, Behind, Revalued
<1> HIDE DEF q
<1>5. QED  BY <1>2, <1>3, <1>4 DEF GetSE, Then

LEMMA GotSign ==
  ASSUME NEW v \in Int \ {0}, NEW r, At(r, Sign(v)), NEW m, m = Abs(v)
  PROVE  Signed(r, m) = After(r, Sign(v), v)
<1> DEFINE b == IF v < 0 THEN 1 ELSE 0
           q == After(r, Sign(v), b)
<1>1. b \in Bit /\ Sign(v) = <<b>>  BY DEF Sign, Bit
<1>2. v = IF b = 1 THEN -m ELSE m  BY DEF Abs
<1> HIDE DEF b
<1>3. Get(r, 1) = q  BY <1>1, GotBit
<1>4. q.ok /\ q.v = b /\ Returns(q, v) = After(r, Sign(v), v)
  <2>1. r.ok  BY DEF At
  <2>2. QED  BY <2>1, Behind, Revalued
<1> HIDE DEF q
<1>5. Signed(r, m) = Returns(q, IF b = 1 THEN -m ELSE m)
  BY <1>3, <1>4 DEF Signed, Then
<1>6. QED  BY <1>2, <1>4, <1>5

\* A reader in front of a vector that put_motion_vector wrote: with whole and
\* with half samples, get_motion_vector returns it and stands behind its code.
THEOREM VectorReadBack ==
  ASSUME NEW mv \in Near \X Near, NEW r, At(r, Vector(mv))
  PROVE  GetVector(r) = After(r, Vector(mv), mv)
<1> DEFINE f == IF Fractional(mv) THEN 1 ELSE 0
           x == IF Fractional(mv) THEN mv[1] ELSE Half(mv[1])
           y == IF Fractional(mv) THEN mv[2] ELSE Half(mv[2])
           a == After(r, <<f>>, f)
           b == After(a, SE(x), x)
           c == After(b, SE(y), y)
<1>0. mv = <<mv[1], mv[2]>> /\ mv[1] \in Near /\ mv[2] \in Near  OBVIOUS
<1>1. /\ x \in Int /\ -131072 < x /\ x < 131072
      /\ y \in Int /\ -131072 < y /\ y < 131072
  BY <1>0 DEF Near, Half
<1>2. mv = IF f = 1 THEN <<x, y>> ELSE <<2 * x, 2 * y>>
  <2>1. mv[1] \in Int /\ mv[2] \in Int  BY <1>0 DEF Near
  <2>2. CASE Fractional(mv)  BY <1>0, <2>2
  <2>3. CASE ~Fractional(mv)
    <3>1. <<2 * Half(mv[1]), 2 * Half(mv[2])>> = <<mv[1], mv[2]>>
      BY <2>1, <2>3, VectorUnits
    <3>2. QED  BY <1>0, <2>3, <3>1
  <2>4. QED  BY <2>2, <2>3
<1>3. f \in Bit /\ Vector(mv) = (<<f>> \o SE(x)) \o SE(y)
  BY DEF Vector, Bit
<1> HIDE DEF f, x, y
<1>4. <<f>> \in Strings /\ SE(x) \in Strings /\ SE(y) \in Strings
      /\ <<f>> \o SE(x) \in Strings
  BY <1>1, <1>3, OneBit, SETyped, Concat
<1>5. /\ At(r, <<f>> \o SE(x))
      /\ At(After(r, <<f>> \o SE(x), x), SE(y))
      /\ \A w : After(After(r, <<f>> \o SE(x), x), SE(y), w) =
                After(r, Vector(mv), w)
  BY <1>3, <1>4, Parted
<1>6. /\ At(r, <<f>>) /\ At(a, SE(x)) /\ b = After(r, <<f>> \o SE(x), x)
  BY <1>4, <1>5, Parted
<1>7. At(b, SE(y)) /\ \A w : After(b, SE(y), w) = After(r, Vector(mv), w)
  BY <1>5, <1>6
<1>8. /\ a.ok /\ a.v = f /\ b.ok /\ b.v = x /\ c.ok /\ c.v = y
      /\ Returns(c, mv) = After(r, Vector(mv), mv)
  <2>1. r.ok  BY DEF At
  <2>2. QED  BY <1>7, <2>1, Behind, Revalued
<1>9. Get(r, 1) = a  BY <1>3, <1>6, GotBit
<1> HIDE DEF a
<1>10. GetSE(a) = b  BY <1>1, <1>6, GotSE
<1> HIDE DEF b
<1>11. GetSE(b) = c  BY <1>1, <1>7, GotSE
<1> HIDE DEF c
<1>12. GetVector(r) = Returns(c, IF a.v = 1 THEN <<b.v, c.v>>
                                 ELSE <<2 * b.v, 2 * c.v>>)
  BY <1>8, <1>9, <1>10, <1>11 DEF GetVector, Then
<1>13. GetVector(r) = Returns(c, mv)
  BY <1>2, <1>8, <1>12
<1>14. QED  BY <1>8, <1>13

-----------------------------------------------------------------------------
(* The levels of version 9.                                                *)

LEMMA AtPrefix ==
  ASSUME NEW r, NEW s, At(r, s), NEW t \in Strings, Len(t) <= Len(s),
         \A i \in 1..Len(t) : t[i] = s[i]
  PROVE  At(r, t)
<1>1. Len(t) \in Nat /\ Len(s) \in Nat /\ r.at \in Nat /\ Len(r.bits) \in Nat
  BY DEF At, Strings
<1>2. r.at + Len(t) <= Len(r.bits)  BY <1>1 DEF At
<1>3. \A i \in 1..Len(t) : r.bits[r.at + i] = t[i]  BY <1>1 DEF At
<1>4. QED  BY <1>2, <1>3 DEF At

AllOnes(n) == [i \in 1..n |-> 1]

LEMMA OnesTyped ==
  ASSUME NEW n \in Nat
  PROVE  /\ AllOnes(n) \in Strings /\ Len(AllOnes(n)) = n
         /\ AllOnes(n + 1) = AllOnes(n) \o <<1>>
<1>1. \A m \in Nat : AllOnes(m) \in Seq(Bit) /\ Len(AllOnes(m)) = m
                     /\ \A i \in 1..m : AllOnes(m)[i] = 1
  BY DEF AllOnes, Bit
<1> DEFINE s == AllOnes(n + 1)
           t == AllOnes(n) \o <<1>>
<1>2. s \in Seq(Nat) /\ Len(s) = n + 1 /\ \A i \in 1..(n + 1) : s[i] = 1
  BY <1>1 DEF Bit
<1>3. t \in Seq(Nat) /\ Len(t) = n + 1 /\ \A i \in 1..(n + 1) : t[i] = 1
  BY <1>1 DEF Bit
<1> HIDE DEF s, t
<1>4. s = t  BY <1>2, <1>3
<1>5. QED  BY <1>1, <1>4 DEF s, t, Strings

\* The unary quotient as it is written: a zero ends it unless it is seven.
Unary(k) == IF k < 7 THEN AllOnes(k) \o <<0>> ELSE AllOnes(7)

LEMMA GotQuotient ==
  ASSUME NEW k \in 0..7, NEW r, At(r, Unary(k))
  PROVE  GetQuotient(r) = After(r, Unary(k), k)
<1> DEFINE R(i) == IF i = 0 THEN r ELSE After(r, AllOnes(i), 1)
           last == After(r, AllOnes(k) \o <<0>>, 0)
           g == [i \in 0..7 |->
                   IF i <= k
                   THEN [reader |-> R(i), count |-> i, more |-> TRUE]
                   ELSE [reader |-> last, count |-> k, more |-> FALSE]]
           E(p) == LET b == Get(p.reader, 1)
                   IN  IF ~p.more THEN p
                       ELSE [reader |-> b, count |-> p.count + b.v,
                             more |-> b.v = 1 /\ b.ok]
           base == [reader |-> r, count |-> 0, more |-> TRUE]
           Is(f) == f = [i \in 0..7 |-> IF i = 0 THEN base ELSE E(f[i - 1])]
           c == CHOOSE f : Is(f)
<1>0. 7 \in Nat /\ r.ok /\ <<0>> \in Strings /\ <<1>> \in Strings
      /\ 0 \in Bit /\ 1 \in Bit
  BY DEF At, Strings, Bit
<1>1. ASSUME NEW i \in 1..7, i <= k
      PROVE  Get(R(i - 1), 1) = R(i)
  <2>0. i - 1 \in Nat /\ (i - 1) + 1 = i /\ i \in Nat  OBVIOUS
  <2>1. AllOnes(i) = AllOnes(i - 1) \o <<1>> /\ AllOnes(i - 1) \in Strings
    BY <2>0, OnesTyped
  <2>2. At(r, AllOnes(i))
    <3>1. AllOnes(i) \in Strings /\ Len(AllOnes(i)) = i  BY <2>0, OnesTyped
    <3>2. Len(Unary(k)) >= i /\ \A j \in 1..i : Unary(k)[j] = 1
      <4>1. AllOnes(k) \in Seq(Bit) /\ Len(AllOnes(k)) = k
            /\ \A j \in 1..k : AllOnes(k)[j] = 1
        <5>1. k \in Nat  OBVIOUS
        <5>2. QED  BY <5>1, OnesTyped DEF Strings, AllOnes
      <4>2. CASE k < 7
        <5>1. Unary(k) = AllOnes(k) \o <<0>>  BY <4>2 DEF Unary
        <5> HIDE DEF R, last, g, E, base, Is, c
        <5>2. QED  BY <1>1, <4>1, <5>1
      <4>3. CASE k = 7
        <5>1. Unary(k) = AllOnes(k)  BY <4>3 DEF Unary
        <5>2. QED  BY <1>1, <4>1, <5>1
      <4>4. QED  BY <4>2, <4>3
    <3>3. \A j \in 1..i : AllOnes(i)[j] = 1  BY DEF AllOnes
    <3>4. QED  BY <3>1, <3>2, <3>3, AtPrefix
  <2>3. CASE i = 1
    <3>1. AllOnes(1) = <<1>>  BY DEF AllOnes
    <3>2. Get(r, 1) = After(r, <<1>>, 1)  BY <1>0, <2>2, <2>3, <3>1, GotBit
    <3>3. QED  BY <2>3, <3>1, <3>2
  <2>4. CASE i # 1
    <3> DEFINE a == After(r, AllOnes(i - 1), 1)
    <3>1. At(a, <<1>>) /\ After(a, <<1>>, 1) = After(r, AllOnes(i), 1)
      BY <1>0, <2>1, <2>2, Parted
    <3>2. R(i - 1) = a /\ R(i) = After(r, AllOnes(i), 1)  BY <2>4
    <3> HIDE DEF a, R
    <3>3. Get(a, 1) = After(a, <<1>>, 1)  BY <1>0, <3>1, GotBit
    <3>4. QED  BY <3>1, <3>2, <3>3
  <2>5. QED  BY <2>3, <2>4
<1>2. ASSUME k < 7 PROVE Get(R(k), 1) = last
  <2>1. At(r, AllOnes(k) \o <<0>>)  BY <1>2 DEF Unary
  <2>2. AllOnes(k) \in Strings
    <3>1. k \in Nat  OBVIOUS
    <3>2. QED  BY <3>1, OnesTyped
  <2>3. CASE k = 0
    <3>1. AllOnes(0) \o <<0>> = <<0>>  BY DEF AllOnes
    <3>2. QED  BY <1>0, <2>1, <2>3, <3>1, GotBit
  <2>4. CASE k # 0
    <3> DEFINE a == After(r, AllOnes(k), 1)
    <3>1. At(a, <<0>>) /\ After(a, <<0>>, 0) = last
      BY <1>0, <2>1, <2>2, Parted
    <3>2. R(k) = a  BY <2>4
    <3> HIDE DEF a, R, last
    <3>3. Get(a, 1) = After(a, <<0>>, 0)  BY <1>0, <3>1, GotBit
    <3>4. QED  BY <3>1, <3>2, <3>3
  <2>5. QED  BY <2>3, <2>4
<1>3. /\ last.ok /\ last.v = 0
      /\ \A i \in 1..7 : R(i).ok /\ R(i).v = 1
  BY <1>0, Behind
<1>4. /\ \A i \in 0..7 : i <= k =>
           g[i] = [reader |-> R(i), count |-> i, more |-> TRUE]
      /\ \A i \in 0..7 : ~(i <= k) =>
           g[i] = [reader |-> last, count |-> k, more |-> FALSE]
  OBVIOUS
<1>5. R(0) = r  OBVIOUS
<1>6. g = [i \in 0..7 |-> g[i]]  OBVIOUS
<1> HIDE DEF R, last, g
<1>7. ASSUME NEW i \in 1..7 PROVE g[i] = E(g[i - 1])
  <2>0. i - 1 \in 0..7 /\ i \in 0..7 /\ k \in Int  OBVIOUS
  <2>1. CASE i <= k
    <3>0. i - 1 <= k  BY <2>0, <2>1
    <3>1. /\ g[i - 1] = [reader |-> R(i - 1), count |-> i - 1, more |-> TRUE]
          /\ g[i] = [reader |-> R(i), count |-> i, more |-> TRUE]
      BY <1>4, <2>0, <2>1, <3>0, Zenon
    <3>2. /\ g[i - 1].more /\ g[i - 1].count = i - 1
          /\ g[i - 1].reader = R(i - 1)
      BY <3>1
    <3>3. E(g[i - 1]) = [reader |-> R(i), count |-> (i - 1) + R(i).v,
                         more |-> R(i).v = 1 /\ R(i).ok]
      BY <1>1, <2>1, <3>2, Zenon
    <3>4. (R(i).v = 1 /\ R(i).ok) = TRUE  BY <1>3
    <3>5. (i - 1) + R(i).v = i  BY <1>3
    <3>6. QED  BY <3>1, <3>3, <3>4, <3>5, Zenon
  <2>2. CASE i = k + 1
    <3>0. i - 1 = k /\ k <= k /\ ~(i <= k) /\ k < 7  BY <2>0, <2>2
    <3>1. /\ g[i - 1] = [reader |-> R(k), count |-> k, more |-> TRUE]
          /\ g[i] = [reader |-> last, count |-> k, more |-> FALSE]
      BY <1>4, <2>0, <3>0, Zenon
    <3>2. g[i - 1].more /\ g[i - 1].count = k /\ g[i - 1].reader = R(k)
      BY <3>1
    <3>3. E(g[i - 1]) = [reader |-> last, count |-> k + last.v,
                         more |-> last.v = 1 /\ last.ok]
      BY <1>2, <3>0, <3>2, Zenon
    <3>4. (last.v = 1 /\ last.ok) = FALSE  BY <1>3
    <3>5. k + last.v = k  BY <1>3
    <3>6. QED  BY <3>1, <3>3, <3>4, <3>5, Zenon
  <2>3. CASE i > k + 1
    <3>0. ~(i - 1 <= k) /\ ~(i <= k)  BY <2>0, <2>3
    <3>1. /\ g[i - 1] = [reader |-> last, count |-> k, more |-> FALSE]
          /\ g[i] = [reader |-> last, count |-> k, more |-> FALSE]
      BY <1>4, <2>0, <3>0, Zenon
    <3>2. ~g[i - 1].more  BY <3>1
    <3>3. E(g[i - 1]) = g[i - 1]  BY <3>2
    <3>4. QED  BY <3>1, <3>3, Zenon
  <2>4. QED  BY <2>0, <2>1, <2>2, <2>3
<1>8. g[0] = base
  <2>1. 0 \in 0..7 /\ 0 <= k  OBVIOUS
  <2>2. g[0] = [reader |-> R(0), count |-> 0, more |-> TRUE]
    BY <1>4, <2>1, Zenon
  <2>3. QED  BY <1>5, <2>2, Zenon
<1>9. GetQuotient(r) = Returns(c[7].reader, c[7].count)
  BY DEF GetQuotient
<1> HIDE DEF E, base
<1>10. Is(g)  BY <1>6, <1>7, <1>8
<1>11. Is(c)  BY <1>10
<1>12. Parallel(c, g, 7)
  <2> HIDE DEF c
  <2>1. /\ c = [i \in 0..7 |-> IF i = 0 THEN base ELSE E(c[i - 1])]
        /\ g = [i \in 0..7 |-> IF i = 0 THEN base ELSE E(g[i - 1])]
    BY <1>10, <1>11
  <2>2. QED  BY <2>1 DEF Parallel
<1> HIDE DEF c
<1>13. c[7] = g[7]  BY <1>0, <1>12, Alike
<1>14. CASE k < 7
  <2>1. g[7].reader = last /\ g[7].count = k  BY <1>4, <1>14
  <2>2. QED  BY <1>9, <1>13, <1>14, <2>1, Revalued DEF last, Unary
<1>15. CASE k = 7
  <2>1. g[7].reader = R(7) /\ g[7].count = k  BY <1>4, <1>15
  <2>2. R(7) = After(r, AllOnes(7), 1)  BY DEF R
  <2>3. QED  BY <1>9, <1>13, <1>15, <2>1, <2>2, Revalued DEF Unary
<1>16. QED  BY <1>14, <1>15

LEMMA OnesIs ==
  ASSUME NEW b \in Strings, NEW k \in 0..Len(b), \A i \in 1..k : b[i] = 1,
         k < Len(b) => b[k + 1] = 0
  PROVE  Ones(b) = k
<1> DEFINE Leads(j) == /\ \A i \in 1..j : b[i] = 1
                       /\ j < Len(b) => b[j + 1] = 0
           m == CHOOSE x \in 0..Len(b) : Leads(x)
<1>1. Leads(k)  OBVIOUS
<1>2. m \in 0..Len(b) /\ Leads(m)  BY <1>1
<1>3. Ones(b) = m  BY DEF Ones
<1>4. Len(b) \in Nat  BY DEF Strings
<1> HIDE DEF m
<1>5. CASE m < k
  <2>1. m + 1 \in 1..k /\ m < Len(b)  BY <1>2, <1>4, <1>5
  <2>2. QED  BY <1>1, <1>2, <2>1
<1>6. CASE k < m
  <2>1. k + 1 \in 1..m /\ k < Len(b)  BY <1>2, <1>4, <1>6
  <2>2. QED  BY <1>1, <1>2, <2>1
<1>7. QED  BY <1>2, <1>3, <1>4, <1>5, <1>6

LEMMA WordAbs ==
  ASSUME NEW v \in Word \ {0}
  PROVE  v \in Int \ {0} /\ Abs(v) \in Nat \ {0} /\ Abs(v) < 32769
         /\ Quotient(v) \in Int
<1>1. v \in Int /\ v # 0 /\ -32769 < v /\ v < 32768  BY Words
<1>2. QED  BY <1>1 DEF Abs, Quotient

\* The three forms of a level.
Short(v) == Abs(v) > 1 /\ Quotient(v) < 7
Escaped(v) == Abs(v) > 1 /\ ~(Quotient(v) < 7)
LowBits(v) == Bits((Abs(v) - 2) % 4, 2)

LEMMA LevelForms ==
  ASSUME NEW v \in Word \ {0}
  PROVE  /\ Abs(v) = 1 \/ Short(v) \/ Escaped(v)
         /\ Abs(v) = 1 => LevelV9(v) = <<0>> \o Sign(v)
         /\ Short(v) => /\ Quotient(v) \in 0..6
                        /\ LevelV9(v) = ((<<1>> \o Unary(Quotient(v)))
                                           \o LowBits(v)) \o Sign(v)
         /\ Escaped(v) => /\ Abs(v) - 30 \in Number
                          /\ LevelV9(v) = ((<<1>> \o Unary(7))
                                             \o UE(Abs(v) - 30)) \o Sign(v)
<1> DEFINE q == Quotient(v)
<1>1. Abs(v) \in Nat \ {0} /\ q \in Int /\ Abs(v) < 32769  BY WordAbs
<1>2. Abs(v) = 1 \/ Short(v) \/ Escaped(v)
  <2> HIDE DEF q
  <2>1. QED  BY <1>1 DEF Short, Escaped
<1>3. Abs(v) = 1 => LevelV9(v) = <<0>> \o Sign(v)  BY DEF LevelV9
<1>4. ASSUME Short(v)
      PROVE  /\ q \in 0..6
             /\ LevelV9(v) = ((<<1>> \o Unary(q)) \o LowBits(v)) \o Sign(v)
  <2>1. q \in 0..6  BY <1>1, <1>4 DEF Short, Quotient
  <2>2. /\ ~(Abs(v) = 1) /\ Abs(v) > 1
        /\ Quotient(v) < 7 /\ ~(Quotient(v) >= 7)
    <3> HIDE DEF q
    <3>1. q < 7 /\ ~(q >= 7)  BY <2>1
    <3>2. Quotient(v) < 7 /\ ~(Quotient(v) >= 7)  BY <3>1 DEF q
    <3>3. QED  BY <1>1, <1>4, <3>2 DEF Short
  <2>3. LevelV9(v) = (((<<1>> \o AllOnes(q)) \o <<0>>) \o LowBits(v)) \o Sign(v)
    BY <2>2, Zenon DEF LevelV9, AllOnes, LowBits
  <2>4. Unary(q) = AllOnes(q) \o <<0>>  BY <2>2, Zenon DEF Unary
  <2>5. <<1>> \o (AllOnes(q) \o <<0>>) = (<<1>> \o AllOnes(q)) \o <<0>>
    <3> HIDE DEF q
    <3>1. q \in Nat  BY <2>1
    <3>2. AllOnes(q) \in Seq(Bit)  BY <3>1, OnesTyped DEF Strings
    <3>3. <<1>> \in Seq(Bit) /\ <<0>> \in Seq(Bit)  BY DEF Bit
    <3>4. QED  BY <3>2, <3>3
  <2>6. QED  BY <2>1, <2>3, <2>4, <2>5
<1>5. ASSUME Escaped(v)
      PROVE  /\ Abs(v) - 30 \in Number
             /\ LevelV9(v) = ((<<1>> \o Unary(7)) \o UE(Abs(v) - 30)) \o Sign(v)
  <2>1. /\ ~(Abs(v) = 1) /\ Abs(v) > 1
        /\ ~(Quotient(v) < 7) /\ Quotient(v) >= 7
    <3> HIDE DEF q
    <3>1. ~(q < 7) => q >= 7  BY <1>1
    <3>2. QED  BY <1>1, <1>5, <3>1 DEF Escaped, q
  <2>2. Abs(v) - 30 \in Number  BY <1>1, <2>1 DEF Quotient, Number
  <2>3. LevelV9(v) = ((<<1>> \o [i \in 1..7 |-> 1]) \o UE(Abs(v) - 30))
                       \o Sign(v)
    BY <2>1, Zenon DEF LevelV9
  <2>4. Unary(7) = [i \in 1..7 |-> 1]  BY DEF Unary, AllOnes
  <2>5. QED  BY <2>2, <2>3, <2>4
<1>6. QED  BY <1>2, <1>3, <1>4, <1>5

LEMMA LowTyped ==
  ASSUME NEW v \in Word \ {0}, Abs(v) > 1
  PROVE  /\ LowBits(v) \in Strings
         /\ (Abs(v) - 2) % 4 \in 0..3
         /\ 2 + 4 * Quotient(v) + ((Abs(v) - 2) % 4) = Abs(v)
<1>1. v \in Int /\ Abs(v) \in Nat  BY WordAbs
<1>2. /\ (Abs(v) - 2) % 4 \in 0..3
      /\ 2 + 4 * Quotient(v) + ((Abs(v) - 2) % 4) = Abs(v)
  BY <1>1, LevelSplit
<1>3. LowBits(v) \in Strings  BY <1>2, BitsTyped DEF LowBits
<1>4. QED  BY <1>2, <1>3

LEMMA GotRemainder ==
  ASSUME NEW v \in Word \ {0}, Abs(v) > 1, NEW r,
         At(r, LowBits(v) \o Sign(v))
  PROVE  GetRemainder(r, Quotient(v)) = After(r, LowBits(v) \o Sign(v), v)
<1> DEFINE b == (Abs(v) - 2) % 4
           a == After(r, LowBits(v), b)
<1>1. LowBits(v) \in Strings /\ Sign(v) \in Strings /\ b \in 0..3
      /\ 2 + 4 * Quotient(v) + b = Abs(v)
  BY LowTyped, SignTyped
<1>2. /\ At(r, LowBits(v)) /\ At(a, Sign(v))
      /\ After(a, Sign(v), v) = After(r, LowBits(v) \o Sign(v), v)
  BY <1>1, Parted
<1>3. LowBits(v) = Bits(b, 2)  BY DEF LowBits
<1> HIDE DEF b
<1>4. b \in Nat /\ b < 2^2 /\ 2 \in 0..32  BY <1>1
<1>5. Get(r, 2) = a  BY <1>2, <1>3, <1>4, GotBits
<1>6. a.ok /\ a.v = b
  <2>1. r.ok  BY DEF At
  <2>2. QED  BY <2>1, Behind
<1> HIDE DEF a
<1>7. GetRemainder(r, Quotient(v)) = Signed(a, Abs(v))
  BY <1>1, <1>5, <1>6 DEF GetRemainder, Then
<1>8. v \in Int \ {0}  BY WordAbs
<1>9. Signed(a, Abs(v)) = After(a, Sign(v), v)  BY <1>2, <1>8, GotSign
<1>10. QED  BY <1>2, <1>7, <1>9

LEMMA UnaryTyped ==
  ASSUME NEW k \in 0..7
  PROVE  /\ Unary(k) \in Strings
         /\ Len(Unary(k)) = IF k < 7 THEN k + 1 ELSE 7
         /\ \A i \in 1..k : Unary(k)[i] = 1
         /\ k < 7 => Unary(k)[k + 1] = 0
<1>0. k \in Nat /\ 7 \in Nat  OBVIOUS
<1>1. \A n \in Nat : AllOnes(n) \in Seq(Bit) /\ Len(AllOnes(n)) = n
                     /\ \A i \in 1..n : AllOnes(n)[i] = 1
  BY OnesTyped DEF Strings, AllOnes
<1>2. <<0>> \in Seq(Bit)  BY DEF Bit
<1> DEFINE a == AllOnes(k)
<1>3. a \in Seq(Bit) /\ Len(a) = k /\ \A i \in 1..k : a[i] = 1
  BY <1>0, <1>1
<1>4. k < 7 => Unary(k) = a \o <<0>>  BY DEF Unary
<1>5. k = 7 => Unary(k) = a  BY DEF Unary
<1> HIDE DEF a
<1>6. CASE k < 7
  <2> DEFINE u == a \o <<0>>
  <2>1. /\ u \in Seq(Bit) /\ Len(u) = k + 1 /\ u[k + 1] = 0
        /\ \A i \in 1..k : u[i] = 1
    BY <1>0, <1>2, <1>3
  <2> HIDE DEF u
  <2>2. Unary(k) = u  BY <1>4, <1>6 DEF u
  <2>3. QED  BY <1>6, <2>1, <2>2 DEF Strings
<1>7. CASE k = 7
  BY <1>3, <1>5, <1>7 DEF Strings
<1>8. QED  BY <1>6, <1>7

LEMMA Window ==
  ASSUME NEW b \in Strings, NEW a \in Nat, NEW n \in Nat, a + n <= Len(b)
  PROVE  /\ SubSeq(b, a + 1, a + n) \in Strings
         /\ Len(SubSeq(b, a + 1, a + n)) = n
         /\ \A i \in 1..n : SubSeq(b, a + 1, a + n)[i] = b[a + i]
<1> DEFINE w == SubSeq(b, a + 1, a + n)
<1>1. b \in Seq(Bit)  BY DEF Strings
<1>2. w \in Seq(Bit) /\ Len(w) = n  BY <1>1
<1>3. ASSUME NEW i \in 1..n PROVE w[i] = b[a + i]
  BY <1>1
<1>4. QED  BY <1>2, <1>3 DEF Strings

\* The bits of a unary quotient in front of a reader, as they are counted
\* in a look ahead.
LEMMA PrefixSeen ==
  ASSUME NEW k \in 0..7, NEW r, At(r, << 1 >> \o Unary(k)), Left(r) >= 8
  PROVE  Ones(SubSeq(r.bits, r.at + 1, r.at + 8)) = k + 1
<1> DEFINE s == <<1>> \o Unary(k)
           w == SubSeq(r.bits, r.at + 1, r.at + 8)
<1>1. /\ Unary(k) \in Seq(Bit)
      /\ Len(Unary(k)) = IF k < 7 THEN k + 1 ELSE 7
      /\ \A i \in 1..k : Unary(k)[i] = 1
      /\ k < 7 => Unary(k)[k + 1] = 0
  BY UnaryTyped DEF Strings
<1>2. <<1>> \in Seq(Bit)  BY DEF Bit
<1>3. /\ Len(s) = IF k < 7 THEN k + 2 ELSE 8
      /\ \A i \in 1..(k + 1) : s[i] = 1
      /\ k < 7 => s[k + 2] = 0
  <2> DEFINE u == Unary(k)
  <2>1. s = <<1>> \o u  OBVIOUS
  <2> HIDE DEF u, s
  <2>2. u \in Seq(Bit) /\ Len(s) = 1 + Len(u) /\ s[1] = 1
        /\ \A i \in 1..Len(u) : s[1 + i] = u[i]
    <3>1. u \in Seq(Bit)  BY <1>1 DEF u
    <3>2. QED  BY <1>2, <2>1, <3>1
  <2>3. ASSUME NEW i \in 1..(k + 1) PROVE s[i] = 1
    <3>1. CASE i = 1  BY <2>2, <3>1
    <3>2. CASE i # 1
      <4>1. i - 1 \in 1..k /\ 1 + (i - 1) = i  BY <3>2
      <4>2. i - 1 \in 1..Len(u) /\ u[i - 1] = 1  BY <1>1, <4>1 DEF u
      <4>3. QED  BY <2>2, <4>1, <4>2
    <3>3. QED  BY <3>1, <3>2
  <2>4. ASSUME k < 7 PROVE s[k + 2] = 0
    <3>1. k + 1 \in 1..Len(u) /\ u[k + 1] = 0 /\ 1 + (k + 1) = k + 2
      BY <1>1, <2>4 DEF u
    <3>2. QED  BY <2>2, <3>1
  <2>5. Len(s) = IF k < 7 THEN k + 2 ELSE 8  BY <1>1, <2>2 DEF u
  <2>6. QED  BY <2>3, <2>4, <2>5
<1>4. /\ r.at \in Nat /\ r.bits \in Seq(Bit)
      /\ \A i \in 1..Len(s) : r.bits[r.at + i] = s[i]
  BY DEF At, Strings
<1> HIDE DEF s
<1>5. w \in Strings /\ Len(w) = 8 /\ \A i \in 1..8 : w[i] = r.bits[r.at + i]
  <2>1. r.at + 8 <= Len(r.bits) /\ r.bits \in Strings /\ 8 \in Nat
    BY <1>4 DEF Left, Strings
  <2>2. QED  BY <1>4, <2>1, Window
<1> HIDE DEF w
<1>6. \A i \in 1..Len(s) : i \in 1..8 => w[i] = s[i]  BY <1>4, <1>5
<1>7. \A i \in 1..(k + 1) : w[i] = 1  BY <1>3, <1>6
<1>8. k + 1 < 8 => w[(k + 1) + 1] = 0
  <2>1. ASSUME k + 1 < 8 PROVE w[k + 2] = 0
    <3>1. k < 7 /\ k + 2 \in 1..8 /\ k + 2 \in 1..Len(s)  BY <1>3, <2>1
    <3>2. QED  BY <1>3, <1>6, <3>1
  <2>2. (k + 1) + 1 = k + 2  OBVIOUS
  <2>3. QED  BY <2>1, <2>2
<1>9. k + 1 \in 0..Len(w)  BY <1>5
<1>10. Ones(w) = k + 1  BY <1>5, <1>7, <1>8, <1>9, OnesIs
<1>11. QED  BY <1>10 DEF w

\* Magnitude one: the bit 0 and the sign.
LEMMA GotUnit ==
  ASSUME NEW v \in Word \ {0}, Abs(v) = 1, NEW r, At(r, LevelV9(v))
  PROVE  GetLevelV9(r) = After(r, LevelV9(v), v)
<1> DEFINE a == After(r, <<0>>, 0)
           w == SubSeq(r.bits, r.at + 1, r.at + 8)
<1>1. LevelV9(v) = <<0>> \o Sign(v)  BY LevelForms
<1>2. <<0>> \in Strings /\ Sign(v) \in Strings /\ 0 \in Bit
  BY SignTyped DEF Strings, Bit
<1>3. /\ At(r, <<0>>) /\ At(a, Sign(v))
      /\ After(a, Sign(v), v) = After(r, LevelV9(v), v)
  BY <1>1, <1>2, Parted
<1>4. Get(r, 1) = a  BY <1>2, <1>3, GotBit
<1>5. a.ok /\ a.v = 0
  <2>1. r.ok  BY DEF At
  <2>2. QED  BY <2>1, Behind
<1>6. Signed(a, 1) = After(a, Sign(v), v)
  <2> HIDE DEF a
  <2>1. v \in Int \ {0} /\ 1 = Abs(v)  BY WordAbs
  <2>2. QED  BY <1>3, <2>1, GotSign
<1> HIDE DEF a
<1>7. BitByBit(r) = Signed(a, 1)  BY <1>4, <1>5 DEF BitByBit, Then
<1>8. ASSUME Left(r) >= 8 PROVE Ones(w) = 0
  <2>1. /\ r.at \in Nat /\ r.bits \in Seq(Bit) /\ r.at + 8 <= Len(r.bits)
        /\ r.bits[r.at + 1] = 0
    <3>1. r.at \in Nat /\ r.bits \in Seq(Bit)  BY DEF At, Strings
    <3>2. <<0>>[1] = 0 /\ 1 \in 1..Len(<<0>>)  OBVIOUS
    <3>3. r.bits[r.at + 1] = 0  BY <1>3, <3>2 DEF At
    <3>4. QED  BY <1>8, <3>1, <3>3 DEF Left
  <2>2. w \in Strings /\ Len(w) = 8 /\ w[1] = r.bits[r.at + 1]
    <3>1. r.bits \in Strings /\ 8 \in Nat /\ 1 \in 1..8
      BY <2>1 DEF Strings
    <3>2. QED  BY <2>1, <3>1, Window
  <2> HIDE DEF w
  <2>3. 0 \in 0..Len(w) /\ \A i \in 1..0 : w[i] = 1  BY <2>2
  <2>4. 0 < Len(w) => w[0 + 1] = 0  BY <2>1, <2>2
  <2>5. QED  BY <2>2, <2>3, <2>4, OnesIs
<1>9. LookAhead(r, 0) = Signed(a, 1)  BY <1>4 DEF LookAhead
<1>10. GetLevelV9(r) = Signed(a, 1)
  <2>1. GetLevelV9(r) = IF Left(r) >= 8 /\ Ones(w) < 5
                        THEN LookAhead(r, Ones(w)) ELSE BitByBit(r)
    BY DEF GetLevelV9
  <2> HIDE DEF w
  <2>2. QED  BY <1>7, <1>8, <1>9, <2>1
<1>11. QED  BY <1>3, <1>6, <1>10

\* The bit 1 and a quotient, whichever way they are read.
LEMMA GotLong ==
  ASSUME NEW k \in 0..7, NEW r, At(r, << 1 >> \o Unary(k))
  PROVE  /\ Get(r, 1).ok /\ Get(r, 1).v = 1
         /\ GetQuotient(Get(r, 1)) = After(r, <<1>> \o Unary(k), k)
<1> DEFINE a == After(r, <<1>>, 1)
<1>1. <<1>> \in Strings /\ Unary(k) \in Strings /\ 1 \in Bit
  <2>1. Unary(k) \in Strings  BY UnaryTyped
  <2>2. <<1>> \in Strings /\ 1 \in Bit  BY DEF Strings, Bit
  <2>3. QED  BY <2>1, <2>2
<1>2. /\ At(r, <<1>>) /\ At(a, Unary(k))
      /\ After(a, Unary(k), k) = After(r, <<1>> \o Unary(k), k)
  BY <1>1, Parted
<1>3. Get(r, 1) = a  BY <1>1, <1>2, GotBit
<1>4. a.ok /\ a.v = 1
  <2>1. r.ok  BY DEF At
  <2>2. QED  BY <2>1, Behind
<1> HIDE DEF a
<1>5. GetQuotient(a) = After(a, Unary(k), k)  BY <1>2, GotQuotient
<1>6. QED  BY <1>2, <1>3, <1>4, <1>5

LEMMA GotShort ==
  ASSUME NEW v \in Word \ {0}, Short(v), NEW r, At(r, LevelV9(v))
  PROVE  GetLevelV9(r) = After(r, LevelV9(v), v)
<1> DEFINE q == Quotient(v)
           s == <<1>> \o Unary(q)
           t == LowBits(v) \o Sign(v)
           w == SubSeq(r.bits, r.at + 1, r.at + 8)
<1>1. q \in 0..6 /\ Abs(v) > 1
      /\ LevelV9(v) = (s \o LowBits(v)) \o Sign(v)
  BY LevelForms DEF Short
<1>2. /\ s \in Strings /\ t \in Strings /\ Len(s) = q + 2
      /\ LevelV9(v) = s \o t
  <2>0. q \in 0..7 /\ q < 7
    <3> HIDE DEF q
    <3>1. QED  BY <1>1
  <2>1. /\ Unary(q) \in Seq(Bit) /\ <<1>> \in Seq(Bit)
        /\ LowBits(v) \in Seq(Bit) /\ Sign(v) \in Seq(Bit)
    <3>1. Unary(q) \in Strings  BY <2>0, UnaryTyped
    <3>2. LowBits(v) \in Strings /\ Sign(v) \in Strings
      BY <1>1, LowTyped, SignTyped
    <3>3. <<1>> \in Seq(Bit)  BY DEF Bit
    <3>4. QED  BY <3>1, <3>2, <3>3 DEF Strings
  <2>2. Len(Unary(q)) = q + 1  BY <2>0, UnaryTyped
  <2> HIDE DEF q
  <2>3. s \in Seq(Bit) /\ Len(s) = q + 2  BY <1>1, <2>1, <2>2
  <2> HIDE DEF s
  <2>4. (s \o LowBits(v)) \o Sign(v) = s \o t  BY <2>1, <2>3
  <2>5. QED  BY <1>1, <2>1, <2>3, <2>4 DEF Strings
<1> HIDE DEF t
<1>3. \A x : /\ At(r, s) /\ At(After(r, s, x), t)
             /\ \A y : After(After(r, s, x), t, y) = After(r, LevelV9(v), y)
  BY <1>2, Parted
<1>4. ASSUME NEW x
      PROVE  GetRemainder(After(r, s, x), q) = After(r, LevelV9(v), v)
  <2> DEFINE a == After(r, s, x)
  <2>1. At(a, LowBits(v) \o Sign(v)) /\ After(a, t, v) = After(r, LevelV9(v), v)
    BY <1>3 DEF t
  <2> HIDE DEF a
  <2>2. GetRemainder(a, Quotient(v)) = After(a, LowBits(v) \o Sign(v), v)
    BY <1>1, <2>1, GotRemainder
  <2>3. QED  BY <2>1, <2>2 DEF a, t
<1>5. BitByBit(r) = After(r, LevelV9(v), v)
  <2> DEFINE f == Get(r, 1)
             a == After(r, s, q)
  <2>0. q \in 0..7 /\ r.ok /\ q # 7  BY <1>1 DEF At
  <2>1. f.ok /\ f.v = 1 /\ GetQuotient(f) = a  BY <1>3, <2>0, GotLong
  <2>2. a.ok /\ a.v = q  BY <2>0, Behind
  <2>3. GetRemainder(a, q) = After(r, LevelV9(v), v)  BY <1>4
  <2> HIDE DEF f, a, q, s
  <2>4. BitByBit(r) = GetRemainder(a, q)
    BY <2>0, <2>1, <2>2 DEF BitByBit, Then, f
  <2>5. QED  BY <2>3, <2>4
<1>6. Left(r) >= 8 => Ones(w) = q + 1
  <2>0. At(r, s)  BY <1>3
  <2> HIDE DEF q
  <2>1. q \in 0..7 /\ At(r, <<1>> \o Unary(q))  BY <1>1, <2>0
  <2>2. QED  BY <2>1, PrefixSeen
<1>7. LookAhead(r, q + 1) = After(r, LevelV9(v), v)
  <2>1. Get(r, Len(s)) = After(r, s, Value(s))  BY <1>3, GotAll
  <2>2. (q + 1) + 1 = Len(s) /\ q + 1 # 0 /\ (q + 1) - 1 = q
    <3> HIDE DEF q, s
    <3>1. QED  BY <1>1, <1>2
  <2>3. LookAhead(r, q + 1) = GetRemainder(Get(r, (q + 1) + 1), (q + 1) - 1)
    BY <2>2 DEF LookAhead
  <2>4. QED  BY <1>4, <2>1, <2>2, <2>3
<1>8. GetLevelV9(r) = IF Left(r) >= 8 /\ Ones(w) < 5
                      THEN LookAhead(r, Ones(w)) ELSE BitByBit(r)
  BY DEF GetLevelV9
<1> HIDE DEF w, q, s
<1>9. QED  BY <1>5, <1>6, <1>7, <1>8

LEMMA GotEscaped ==
  ASSUME NEW v \in Word \ {0}, Escaped(v), NEW r, At(r, LevelV9(v))
  PROVE  GetLevelV9(r) = After(r, LevelV9(v), v)
<1> DEFINE e == Abs(v) - 30
           s == <<1>> \o Unary(7)
           u == s \o UE(e)
           a == After(r, s, 7)
           b == After(a, UE(e), e)
           w == SubSeq(r.bits, r.at + 1, r.at + 8)
<1>0. 7 \in 0..7 /\ r.ok  BY DEF At
<1>1. e \in Number /\ LevelV9(v) = u \o Sign(v)  BY LevelForms
<1>2. s \in Strings /\ UE(e) \in Strings /\ Sign(v) \in Strings
      /\ u \in Strings
  <2>1. <<1>> \in Strings  BY DEF Strings, Bit
  <2>2. s \in Strings  BY <1>0, <2>1, UnaryTyped, Concat
  <2>3. UE(e) \in Strings  BY <1>1, UETyped
  <2> HIDE DEF s
  <2>4. QED  BY <2>2, <2>3, SignTyped, Concat
<1>3. v \in Int \ {0} /\ Abs(v) \in Nat /\ 30 + e = Abs(v)  BY WordAbs
<1> HIDE DEF s, e
<1>4. /\ At(r, u) /\ At(After(r, u, e), Sign(v))
      /\ After(After(r, u, e), Sign(v), v) = After(r, LevelV9(v), v)
  <2> HIDE DEF u
  <2>1. QED  BY <1>1, <1>2, Parted
<1>5. At(r, s) /\ At(a, UE(e)) /\ b = After(r, u, e)
  BY <1>2, <1>4, Parted
<1> HIDE DEF u
<1>6. a.ok /\ a.v = 7 /\ b.ok /\ b.v = e  BY <1>0, Behind
<1>7. GetUE(a) = b
  <2> HIDE DEF a
  <2>1. QED  BY <1>1, <1>5, GotUE
<1>8. Get(r, 1).ok /\ Get(r, 1).v = 1 /\ GetQuotient(Get(r, 1)) = a
  BY <1>0, <1>5, GotLong DEF s
<1>9. Signed(b, Abs(v)) = After(r, LevelV9(v), v)
  <2>1. At(b, Sign(v)) /\ After(b, Sign(v), v) = After(r, LevelV9(v), v)
    BY <1>4, <1>5
  <2> HIDE DEF b
  <2>2. QED  BY <1>3, <2>1, GotSign
<1> HIDE DEF a, b
<1>10. BitByBit(r) = After(r, LevelV9(v), v)
  <2> DEFINE f == Get(r, 1)
  <2>1. f.ok /\ f.v = 1 /\ GetQuotient(f) = a  BY <1>8
  <2> HIDE DEF f
  <2>2. BitByBit(r) = Signed(b, 30 + b.v)
    BY <1>6, <1>7, <2>1 DEF BitByBit, Then, f
  <2>3. QED  BY <1>3, <1>6, <1>9, <2>2
<1>11. Left(r) >= 8 => ~(Ones(w) < 5)
  <2>1. ASSUME Left(r) >= 8 PROVE Ones(w) = 7 + 1
    BY <1>0, <1>5, <2>1, PrefixSeen DEF s
  <2> HIDE DEF w
  <2>2. QED  BY <2>1
<1>12. GetLevelV9(r) = IF Left(r) >= 8 /\ Ones(w) < 5
                       THEN LookAhead(r, Ones(w)) ELSE BitByBit(r)
  BY DEF GetLevelV9
<1> HIDE DEF w
<1>13. QED  BY <1>10, <1>11, <1>12

LEMMA GotLevelV9 ==
  ASSUME NEW v \in Word \ {0}, NEW r, At(r, LevelV9(v))
  PROVE  GetLevelV9(r) = After(r, LevelV9(v), v)
BY LevelForms, GotUnit, GotShort, GotEscaped

-----------------------------------------------------------------------------
(* Codes one after the other.                                              *)

\* g[i] is the first i of the codes s, joined; all of them are in front of r.
Pieces(g, s, n, r) ==
  /\ g[0] = <<>> /\ g[n] = Joined(s)
  /\ \A i \in 1..n : /\ g[i] = g[i - 1] \o s[i]
                     /\ g[i - 1] \in Strings /\ s[i] \in Strings
                     /\ At(r, g[i - 1] \o s[i])

LEMMA JoinedPieces ==
  ASSUME NEW n \in Nat, NEW s \in [1..n -> Strings]
  PROVE  \E g : /\ g[0] = <<>> /\ g[n] = Joined(s)
                /\ \A i \in 1..n : g[i] = g[i - 1] \o s[i]
                /\ \A i \in 0..n : g[i] \in Strings
<1> DEFINE D == [i \in 0..n |-> Strings]
           step == [i \in 1..n |-> [x \in Strings |-> x \o s[i]]]
           Is(f) == f = [i \in 1..n |-> IF i = 1 THEN s[i]
                                        ELSE f[i - 1] \o s[i]]
           c == CHOOSE f : Is(f)
<1>1. s \in Seq(Strings) /\ Len(s) = n /\ \A i \in 1..n : s[i] \in Strings
  BY FunctionSeq
<1>2. Steps(step, n, D)  BY <1>1, Concat DEF Steps
<1>3. <<>> \in D[0]  BY DEF Strings
<1>4. PICK g : Takes(g, n, <<>>, step) /\ Within(g, n, D)
  <2> HIDE DEF D, step
  <2>1. QED  BY <1>2, <1>3, Recursion
<1>5. \A i \in 0..n : g[i] \in Strings  BY <1>4 DEF Within
<1>6. g[0] = <<>>  BY <1>4 DEF Takes
<1>7. ASSUME NEW i \in 1..n PROVE g[i] = g[i - 1] \o s[i]
  <2>1. i - 1 \in 0..n /\ i \in 0..n /\ i # 0  OBVIOUS
  <2>2. g[i] = step[i][g[i - 1]]  BY <1>4, <2>1 DEF Takes
  <2>3. QED  BY <1>5, <2>1, <2>2
<1>8. g[n] = Joined(s)
  <2>1. CASE n = 0
    <3>1. Joined(s) = s /\ s = <<>>  BY <1>1, <2>1 DEF Joined, FlattenSeq
    <3>2. QED  BY <1>6, <2>1, <3>1
  <2>2. CASE n # 0
    <3> DEFINE h == [i \in 1..n |-> g[i]]
    <3>1. Joined(s) = c[n]  BY <1>1, <2>2 DEF Joined, FlattenSeq
    <3>2. ASSUME NEW i \in 1..n
          PROVE  h[i] = IF i = 1 THEN s[i] ELSE h[i - 1] \o s[i]
      <4>1. CASE i = 1
        <5>0. i - 1 = 0 /\ h[i] = g[i] /\ g[i] = g[i - 1] \o s[i]
          BY <1>7, <4>1
        <5>1. h[i] = <<>> \o s[i]  BY <1>6, <5>0
        <5>2. s[i] \in Seq(Bit)  BY <1>1 DEF Strings
        <5>3. QED  BY <4>1, <5>1, <5>2
      <4>2. CASE i # 1
        <5>1. i - 1 \in 1..n  BY <4>2
        <5>2. h[i] = g[i] /\ h[i - 1] = g[i - 1]  BY <5>1
        <5>3. QED  BY <1>7, <4>2, <5>2
      <4>3. QED  BY <4>1, <4>2
    <3>3. Is(h)
      <4>1. h = [i \in 1..n |-> h[i]]  OBVIOUS
      <4> HIDE DEF h
      <4>2. QED  BY <3>2, <4>1
    <3>4. Is(c)  BY <3>3
    <3> DEFINE T == {i \in 0..n : i # 0 => c[i] = h[i]}
    <3>5. 0 \in T  OBVIOUS
    <3>6. ASSUME NEW i \in 1..n, i - 1 \in T PROVE i \in T
      <4> HIDE DEF c, h
      <4>1. c[i] = IF i = 1 THEN s[i] ELSE c[i - 1] \o s[i]  BY <3>4
      <4>2. i # 1 => c[i - 1] = h[i - 1]  BY <3>6
      <4>3. QED  BY <3>2, <4>1, <4>2
    <3> HIDE DEF T
    <3>7. 0..n \subseteq T  BY <3>5, <3>6, UpTo
    <3>8. n \in T /\ n \in 1..n  BY <2>2, <3>7
    <3>9. c[n] = h[n]  BY <2>2, <3>8 DEF T
    <3>10. QED  BY <3>1, <3>8, <3>9
  <2>3. QED  BY <2>1, <2>2
<1>9. QED  BY <1>5, <1>6, <1>7, <1>8

LEMMA PiecesAhead ==
  ASSUME NEW n \in Nat, NEW s \in [1..n -> Strings], NEW r, At(r, Joined(s))
  PROVE  \E g : Pieces(g, s, n, r)
<1>1. PICK g : /\ g[0] = <<>> /\ g[n] = Joined(s)
               /\ \A i \in 1..n : g[i] = g[i - 1] \o s[i]
               /\ \A i \in 0..n : g[i] \in Strings
  BY JoinedPieces
<1> DEFINE T == {k \in 0..n : At(r, g[n - k])}
<1>2. 0 \in T
  <2>1. n - 0 = n  OBVIOUS
  <2>2. QED  BY <1>1, <2>1
<1>3. ASSUME NEW k \in 1..n, k - 1 \in T PROVE k \in T
  <2> DEFINE i == n - (k - 1)
  <2>1. i \in 1..n /\ i - 1 = n - k /\ i - 1 \in 0..n  OBVIOUS
  <2>2. At(r, g[i])  BY <1>3
  <2> HIDE DEF i
  <2>3. At(r, g[i - 1] \o s[i])  BY <1>1, <2>1, <2>2
  <2>4. At(r, g[i - 1])  BY <1>1, <2>1, <2>3, Parted
  <2>5. QED  BY <2>1, <2>4
<1> HIDE DEF T
<1>4. 0..n \subseteq T  BY <1>2, <1>3, UpTo
<1>5. ASSUME NEW i \in 1..n
      PROVE  /\ g[i] = g[i - 1] \o s[i] /\ g[i - 1] \in Strings
             /\ s[i] \in Strings /\ At(r, g[i - 1] \o s[i])
  <2>1. n - i \in 0..n /\ n - (n - i) = i /\ i - 1 \in 0..n  OBVIOUS
  <2>2. At(r, g[i])  BY <1>4, <2>1 DEF T
  <2>3. QED  BY <1>1, <2>1, <2>2
<1>6. QED  BY <1>1, <1>5 DEF Pieces

\* The next of them.
LEMMA NextPiece ==
  ASSUME NEW n \in Nat, NEW s, NEW r, NEW g, Pieces(g, s, n, r),
         NEW i \in 1..n, NEW x
  PROVE  /\ At(After(r, g[i - 1], x), s[i])
         /\ \A v : After(After(r, g[i - 1], x), s[i], v) = After(r, g[i], v)
<1>1. /\ g[i] = g[i - 1] \o s[i] /\ g[i - 1] \in Strings /\ s[i] \in Strings
      /\ At(r, g[i - 1] \o s[i])
  BY DEF Pieces
<1>2. QED  BY <1>1, Parted

\* The first i of the values.
First(v, i) == [j \in 1..i |-> v[j]]

LEMMA FirstNext ==
  ASSUME NEW n \in Nat, NEW v, NEW i \in 1..n
  PROVE  Append(First(v, i - 1), v[i]) = First(v, i)
<1> DEFINE S == {v[j] : j \in 1..n}
           a == First(v, i - 1)
           b == First(v, i)
<1>1. a \in [1..(i - 1) -> S] /\ b \in [1..i -> S] /\ v[i] \in S
  BY DEF First
<1>2. \A j \in 1..i : b[j] = v[j] /\ \A k \in 1..(i - 1) : a[k] = v[k]
  BY DEF First
<1> HIDE DEF S, a, b
<1>3. i - 1 \in Nat /\ i \in Nat  OBVIOUS
<1>4. a \in Seq(S) /\ Len(a) = i - 1 /\ b \in Seq(S) /\ Len(b) = i
  BY <1>1, <1>3, FunctionSeq
<1> DEFINE c == Append(a, v[i])
<1>5. c \in Seq(S) /\ Len(c) = i /\ c[i] = v[i]
      /\ \A j \in 1..(i - 1) : c[j] = a[j]
  BY <1>1, <1>4
<1> HIDE DEF c
<1>6. \A j \in 1..i : c[j] = b[j]
  <2>1. \A j \in 1..i : j = i \/ j \in 1..(i - 1)  OBVIOUS
  <2>2. QED  BY <1>2, <1>5, <2>1
<1>7. b = c  BY <1>4, <1>5, <1>6
<1>8. QED  BY <1>7 DEF a, b, c

\* The value behind the first i of n values.
LEMMA Collected ==
  ASSUME NEW n \in Nat, NEW s, NEW r, r.ok, NEW g, Pieces(g, s, n, r), NEW v,
         NEW i \in 1..n, NEW p, NEW x,
         p = After(r, g[i - 1], First(v, i - 1)), x = After(p, s[i], v[i])
  PROVE  (IF p.ok THEN IF x.ok THEN Returns(x, Append(p.v, x.v)) ELSE x
          ELSE p) = After(r, g[i], First(v, i))
<1>1. p.ok /\ p.v = First(v, i - 1) /\ x.ok /\ x.v = v[i]
  BY Behind
<1>2. x = After(r, g[i], v[i])
  <2>1. \A w : After(After(r, g[i - 1], First(v, i - 1)), s[i], w) =
              After(r, g[i], w)
    BY NextPiece
  <2>2. QED  BY <2>1
<1>3. Returns(x, Append(p.v, x.v)) = After(r, g[i], Append(p.v, x.v))
  BY <1>2, Revalued
<1>4. Append(p.v, x.v) = First(v, i)  BY <1>1, FirstNext
<1>5. QED  BY <1>1, <1>3, <1>4

LEMMA NoneCollected ==
  ASSUME NEW n \in Nat, NEW s, NEW r, NEW t, At(r, t), NEW g,
         Pieces(g, s, n, r), NEW v
  PROVE  Returns(r, <<>>) = After(r, g[0], First(v, 0))
<1>1. First(v, 0) = <<>>  BY DEF First
<1>2. g[0] = <<>>  BY DEF Pieces
<1>3. QED  BY <1>1, <1>2, Here

NumberCodes(v, n, width) == [i \in 1..n |-> Bits(v[i], width)]

LEMMA GotNumbers ==
  ASSUME NEW n \in Nat, NEW width \in 0..32, NEW v,
         \A i \in 1..n : v[i] \in Nat /\ v[i] < 2^width,
         NEW r, At(r, Joined(NumberCodes(v, n, width)))
  PROVE  GetNumbers(r, n, width) =
           After(r, Joined(NumberCodes(v, n, width)), First(v, n))
<1> DEFINE s == NumberCodes(v, n, width)
           Item(a, i) == Get(a, width)
           E(p, i) == IF p.ok THEN IF Item(p, i).ok
                                   THEN Returns(Item(p, i),
                                                Append(p.v, Item(p, i).v))
                                   ELSE Item(p, i)
                      ELSE p
           base == Returns(r, <<>>)
           Is(f) == f = [i \in 0..n |-> IF i = 0 THEN base ELSE E(f[i - 1], i)]
           c == CHOOSE f : Is(f)
<1>0. r.ok  BY DEF At
<1>1. s \in [1..n -> Strings] /\ \A i \in 1..n : s[i] = Bits(v[i], width)
  <2>1. ASSUME NEW i \in 1..n PROVE Bits(v[i], width) \in Strings
    BY BitsValue
  <2>2. QED  BY <2>1 DEF NumberCodes
<1>2. At(r, Joined(s))  OBVIOUS
<1> HIDE DEF s
<1>3. PICK g : Pieces(g, s, n, r)  BY <1>1, <1>2, PiecesAhead
<1> DEFINE h == [i \in 0..n |-> After(r, g[i], First(v, i))]
<1>4. ASSUME NEW i \in 1..n PROVE h[i] = E(h[i - 1], i)
  <2> DEFINE p == After(r, g[i - 1], First(v, i - 1))
             x == Get(p, width)
  <2>1. h[i] = After(r, g[i], First(v, i)) /\ h[i - 1] = p  OBVIOUS
  <2>2. At(p, s[i])  BY <1>3, NextPiece
  <2> HIDE DEF p, h
  <2>3. x = After(p, s[i], v[i])  BY <1>1, <2>2, GotBits
  <2> HIDE DEF x
  <2>4. (IF p.ok THEN IF x.ok THEN Returns(x, Append(p.v, x.v)) ELSE x
         ELSE p) = After(r, g[i], First(v, i))
    BY <1>0, <1>3, <2>3, Collected DEF p
  <2>5. E(p, i) = After(r, g[i], First(v, i))  BY <2>4 DEF x
  <2>6. QED  BY <2>1, <2>5
<1>5. h[0] = base
  BY <1>2, <1>3, NoneCollected
<1>6. GetNumbers(r, n, width) = c[n]
  BY DEF GetNumbers, GetEach, Then
<1> HIDE DEF E, base
<1>7. Is(h)
  <2>1. h = [i \in 0..n |-> h[i]]  OBVIOUS
  <2> HIDE DEF h
  <2>2. \A i \in 0..n : h[i] = IF i = 0 THEN base ELSE E(h[i - 1], i)
    BY <1>4, <1>5
  <2>3. QED  BY <2>1, <2>2
<1>8. Is(c)  BY <1>7
<1>9. Parallel(c, h, n)
  <2> HIDE DEF c, h
  <2>1. /\ c = [i \in 0..n |-> IF i = 0 THEN base ELSE E(c[i - 1], i)]
        /\ h = [i \in 0..n |-> IF i = 0 THEN base ELSE E(h[i - 1], i)]
    BY <1>7, <1>8
  <2>2. QED  BY <2>1 DEF Parallel
<1>10. h[n] = After(r, Joined(s), First(v, n))
  BY <1>3 DEF Pieces
<1> HIDE DEF c, h
<1>11. c[n] = h[n]  BY <1>9, Alike
<1>12. QED  BY <1>6, <1>10, <1>11 DEF s

-----------------------------------------------------------------------------
(* The levels of a block.                                                  *)

\* Step by step, the positions of the levels of b.
Finds(f, b) ==
  /\ f[0] = <<>> /\ f[Scan] = Positions(b)
  /\ \A i \in 1..Scan :
       /\ f[i] = IF b[i] = 0 THEN f[i - 1] ELSE Append(f[i - 1], i)
       /\ f[i - 1] \in Rising(b, i - 1)
  /\ f[Scan] \in Rising(b, Scan)

LEMMA PositionsFound ==
  ASSUME NEW b
  PROVE  \E f : Finds(f, b)
<1> DEFINE n == Scan
           E(s, i) == IF b[i] = 0 THEN s ELSE Append(s, i)
           D == [i \in 0..n |-> Rising(b, i)]
           step == [i \in 1..n |-> [s \in D[i - 1] |-> E(s, i)]]
           Is(f) == f = [i \in 0..n |-> IF i = 0 THEN <<>>
                                        ELSE E(f[i - 1], i)]
           c == CHOOSE f : Is(f)
<1>0. n \in Nat  BY PictureAssumption
<1>1. ASSUME NEW i \in 1..n, NEW s \in D[i - 1]
      PROVE  E(s, i) \in D[i]
  <2>1. s \in Rising(b, i - 1) /\ i \in Nat \ {0}  BY <1>0
  <2>2. QED  BY <1>0, <2>1, RisingNext
<1>2. <<>> \in D[0]  BY <1>0 DEF Rising
<1>3. Positions(b) = c[n]
  <2>1. \A s, i : E(s, i) = IF b[i] = 0 THEN s ELSE Append(s, i)
    OBVIOUS
  <2>2. QED  BY DEF Positions
<1> HIDE DEF E
<1>4. Steps(step, n, D)
  BY <1>1 DEF Steps
<1>5. PICK f : Takes(f, n, <<>>, step) /\ Within(f, n, D)
  <2> HIDE DEF D, step, n
  <2>1. QED  BY <1>0, <1>2, <1>4, Recursion
<1>6. ASSUME NEW i \in 0..n
      PROVE  f[i] = IF i = 0 THEN <<>> ELSE E(f[i - 1], i)
  <2>1. CASE i \in 1..n
    <3>1. i - 1 \in 0..n /\ i \in 0..n /\ i # 0  BY <1>0, <2>1
    <3>2. f[i] = step[i][f[i - 1]]  BY <1>5, <3>1 DEF Takes
    <3>3. f[i - 1] \in D[i - 1]  BY <1>5, <3>1 DEF Within
    <3> HIDE DEF D
    <3>4. QED  BY <2>1, <3>1, <3>2, <3>3
  <2>2. CASE i = 0  BY <1>5, <2>2 DEF Takes
  <2>3. QED  BY <1>0, <2>1, <2>2
<1>7. f = [i \in 0..n |-> f[i]]  BY <1>5 DEF Takes
<1>8. Is(f)  BY <1>6, <1>7
<1>9. Is(c)  BY <1>8
<1>10. Parallel(c, f, n)
  <2> HIDE DEF c
  <2>1. /\ c = [i \in 0..n |-> IF i = 0 THEN <<>> ELSE E(c[i - 1], i)]
        /\ f = [i \in 0..n |-> IF i = 0 THEN <<>> ELSE E(f[i - 1], i)]
    BY <1>8, <1>9
  <2> HIDE DEF n
  <2>2. QED  BY <1>0, <2>1 DEF Parallel
<1> HIDE DEF c
<1>11. c[n] = f[n]
  <2> HIDE DEF n
  <2>1. QED  BY <1>0, <1>10, Alike
<1>12. \A i \in 0..n : f[i] \in Rising(b, i)
  <2>1. \A i \in 0..n : f[i] \in D[i]  BY <1>5 DEF Within
  <2>2. QED  BY <2>1
<1>13. ASSUME NEW i \in 1..n
       PROVE  /\ f[i] = IF b[i] = 0 THEN f[i - 1] ELSE Append(f[i - 1], i)
              /\ f[i - 1] \in Rising(b, i - 1)
  <2>1. i - 1 \in 0..n /\ i \in 0..n /\ i # 0  BY <1>0
  <2>2. f[i] = E(f[i - 1], i)  BY <1>6, <2>1
  <2>3. QED  BY <1>12, <2>1, <2>2 DEF E
<1>14. f[0] = <<>> /\ f[n] \in Rising(b, n)  BY <1>0, <1>6, <1>12
<1>15. QED  BY <1>3, <1>11, <1>13, <1>14 DEF Finds

\* No level is missed.
Listed(s, i) == \E k \in 1..Len(s) : s[k] = i

LEMMA PositionsComplete ==
  ASSUME NEW b, NEW i \in 1..Scan, b[i] # 0
  PROVE  Listed(Positions(b), i)
<1>0. Scan \in Nat  BY PictureAssumption
<1>1. PICK f : Finds(f, b)  BY PositionsFound
<1> DEFINE T == {n \in 0..Scan : i <= n => Listed(f[n], i)}
<1>2. 0 \in T  BY <1>0
<1>3. ASSUME NEW n \in 1..Scan, n - 1 \in T PROVE n \in T
  <2>1. /\ f[n] = IF b[n] = 0 THEN f[n - 1] ELSE Append(f[n - 1], n)
        /\ f[n - 1] \in Rising(b, n - 1)
    BY <1>1 DEF Finds
  <2>2. f[n - 1] \in Seq(1..(n - 1)) /\ Len(f[n - 1]) \in Nat
    <3>1. n - 1 \in Nat  BY <1>0
    <3>2. QED  BY <2>1, <3>1, RisingFacts
  <2> DEFINE s == f[n - 1]
             t == Append(s, n)
  <2>3. Len(t) = Len(s) + 1 /\ t[Len(s) + 1] = n
        /\ \A k \in 1..Len(s) : t[k] = s[k]
    <3>1. s \in Seq(Nat) /\ n \in Nat
      <4>1. 1..(n - 1) \subseteq Nat /\ n \in Nat  BY <1>0
      <4>2. QED  BY <2>2, <4>1
    <3> HIDE DEF s
    <3>2. QED  BY <3>1
  <2>4. CASE i = n
    <3>1. f[n] = t  BY <2>1, <2>4
    <3>2. Listed(f[n], i)
      <4>1. Len(s) + 1 \in 1..Len(t)  BY <2>2, <2>3
      <4>2. QED  BY <2>3, <2>4, <3>1, <4>1 DEF Listed
    <3>3. n \in 0..Scan  BY <1>0
    <3>4. QED  BY <3>2, <3>3
  <2>5. CASE i # n
    <3>1. ASSUME i <= n PROVE Listed(f[n], i)
      <4>1. i <= n - 1  BY <1>0, <2>5, <3>1
      <4>2. Listed(s, i)  BY <1>3, <4>1
      <4>3. CASE b[n] = 0  BY <2>1, <4>2, <4>3
      <4>4. CASE b[n] # 0
        <5>1. PICK k \in 1..Len(s) : s[k] = i  BY <4>2 DEF Listed
        <5>2. k \in 1..Len(t) /\ t[k] = i  BY <2>2, <2>3, <5>1
        <5>3. QED  BY <2>1, <4>4, <5>2 DEF Listed
      <4>5. QED  BY <4>3, <4>4
    <3>2. n \in 0..Scan  BY <1>0
    <3>3. QED  BY <3>1, <3>2
  <2>6. QED  BY <2>4, <2>5
<1> HIDE DEF T
<1>4. 0..Scan \subseteq T  BY <1>0, <1>2, <1>3, UpTo
<1>5. Scan \in 0..Scan /\ i <= Scan  BY <1>0
<1>6. Listed(f[Scan], i)  BY <1>4, <1>5 DEF T
<1>7. QED  BY <1>1, <1>6 DEF Finds

\* A block without levels is zero.
LEMMA NotCoded ==
  ASSUME NEW b \in Block, ~Coded(b)
  PROVE  b = ZeroBlock
<1>1. ASSUME NEW i \in 1..Scan PROVE b[i] = 0
  <2>1. SUFFICES ASSUME b[i] # 0 PROVE FALSE  OBVIOUS
  <2>2. Listed(Positions(b), i)  BY <2>1, PositionsComplete
  <2>3. Positions(b) = <<>>  BY DEF Coded
  <2>4. QED  BY <2>2, <2>3 DEF Listed
<1>2. b = [i \in 1..Scan |-> b[i]]  BY DEF Block
<1>3. QED  BY <1>1, <1>2 DEF ZeroBlock

LEMMA GotLevel ==
  ASSUME NEW v \in Word \ {0}, NEW coeff_mode, NEW r, At(r, Level(v, coeff_mode))
  PROVE  GetLevel(r, coeff_mode) = After(r, Level(v, coeff_mode), v)
<1>1. v \in Int /\ -131072 < v /\ v < 131072  BY Words
<1>2. QED  BY <1>1, GotSE, GotLevelV9 DEF Level, GetLevel

\* The first k levels of b in a block that is zero elsewhere, and the
\* position of the last of them.
Begun(b, k) ==
  LET p == Positions(b)
  IN  [pos |-> IF k = 0 THEN 0 ELSE p[k],
       block |-> [j \in 1..Scan |-> IF \E m \in 1..k : p[m] = j THEN b[j] ELSE 0]]

LevelCodes(b, coeff_mode) ==
  [k \in 1..Len(Positions(b)) |->
     UE(RunBefore(Positions(b), k)) \o Level(b[Positions(b)[k]], coeff_mode)]

LEMMA LevelCodesTyped ==
  ASSUME NEW b \in Block, Coded(b), NEW coeff_mode, NEW k \in 1..Len(Positions(b))
  PROVE  /\ UE(RunBefore(Positions(b), k)) \in Strings
         /\ RunBefore(Positions(b), k) \in Number
         /\ Level(b[Positions(b)[k]], coeff_mode) \in Strings
         /\ b[Positions(b)[k]] \in Word \ {0}
<1> DEFINE p == Positions(b)
           v == b[p[k]]
<1>1. v \in Word \ {0} /\ RunBefore(p, k) \in 0..16  BY CodedPositions
<1>2. RunBefore(p, k) \in Number  BY <1>1 DEF Number
<1>3. UE(RunBefore(p, k)) \in Strings  BY <1>2, UETyped
<1> HIDE DEF v
<1>4. v \in Int /\ -131072 < v /\ v < 131072  BY <1>1, Words
<1>5. Level(v, coeff_mode) \in Strings
  BY <1>1, <1>4, SETyped, LevelTyped DEF Level
<1>6. QED  BY <1>1, <1>2, <1>3, <1>5 DEF v

\* A run and a level.
LEMMA GotRunLevel ==
  ASSUME NEW b \in Block, Coded(b), NEW coeff_mode, NEW k \in 1..Len(Positions(b)),
         NEW r, r.v = Begun(b, k - 1), At(r, LevelCodes(b, coeff_mode)[k])
  PROVE  GetRunLevel(r, coeff_mode) =
           After(r, LevelCodes(b, coeff_mode)[k], Begun(b, k))
<1> DEFINE p == Positions(b)
           n == RunBefore(p, k)
           v == b[p[k]]
           s == UE(n)
           t == Level(v, coeff_mode)
           a == After(r, s, n)
           x == After(a, t, v)
           old == Begun(b, k - 1)
           new == Begun(b, k)
<1>1. s \in Strings /\ t \in Strings /\ n \in Number /\ v \in Word \ {0}
  BY LevelCodesTyped
<1>2. LevelCodes(b, coeff_mode)[k] = s \o t  BY DEF LevelCodes
<1>3. /\ p \in Seq(1..Scan) /\ Len(p) \in Nat /\ p[k] \in 1..Scan
      /\ k # 1 => p[k - 1] \in 1..Scan
  <2>1. p \in Seq(1..Scan) /\ Len(p) \in 1..16  BY CodedPositions
  <2> HIDE DEF p
  <2>2. k \in 1..Len(p)  BY DEF p
  <2>3. k # 1 => k - 1 \in 1..Len(p)  BY <2>1, <2>2
  <2>4. Len(p) \in Nat  BY <2>1
  <2>5. \A m \in 1..Len(p) : p[m] \in 1..Scan
    <3> DEFINE S == 1..Scan
    <3>1. p \in Seq(S)  BY <2>1
    <3> HIDE DEF S
    <3>2. \A m \in 1..Len(p) : p[m] \in S  BY <3>1
    <3>3. QED  BY <3>2 DEF S
  <2>6. QED  BY <2>1, <2>2, <2>3, <2>4, <2>5
<1>4. p[k] \in Int /\ old.pos + n + 1 = p[k] /\ ~(p[k] > Scan)
  <2>1. Scan \in Int  BY PictureAssumption
  <2>2. old.pos = IF k = 1 THEN 0 ELSE p[k - 1]
    <3>1. k - 1 = 0 <=> k = 1  BY <1>3
    <3>2. QED  BY <3>1 DEF Begun
  <2>3. n = p[k] - (IF k = 1 THEN 0 ELSE p[k - 1]) - 1
    BY DEF RunBefore
  <2> DEFINE i == p[k]
             j == IF k = 1 THEN 0 ELSE p[k - 1]
  <2>4. i \in 1..Scan /\ j \in Int  BY <1>3, <2>1
  <2>5. n = i - j - 1 /\ old.pos = j  BY <2>2, <2>3
  <2> HIDE DEF i, j, n, old
  <2>6. i \in Int /\ old.pos + n + 1 = i /\ ~(i > Scan)
    BY <2>1, <2>4, <2>5
  <2>7. QED  BY <2>6 DEF i
<1>5. [pos |-> p[k], block |-> [old.block EXCEPT ![p[k]] = v]] = new
  <2>1. new.pos = p[k] /\ new = [pos |-> new.pos, block |-> new.block]
    <3>1. k # 0  BY <1>3
    <3>2. QED  BY <3>1 DEF Begun
  <2>2. [old.block EXCEPT ![p[k]] = v] = new.block
    <3>1. /\ old.block = [j \in 1..Scan |-> IF \E m \in 1..(k - 1) : p[m] = j
                                            THEN b[j] ELSE 0]
          /\ new.block = [j \in 1..Scan |-> IF \E m \in 1..k : p[m] = j
                                            THEN b[j] ELSE 0]
      BY DEF Begun
    <3> DEFINE e == [old.block EXCEPT ![p[k]] = v]
    <3>2. e = [j \in 1..Scan |-> IF j = p[k] THEN v ELSE old.block[j]]
      <4> HIDE DEF p, v, old
      <4>1. old.block = [j \in 1..Scan |-> old.block[j]]  BY <3>1
      <4>2. QED  BY <1>3, <4>1
    <3>3. ASSUME NEW j \in 1..Scan PROVE e[j] = new.block[j]
      <4>1. CASE j = p[k]
        <5>1. k \in 1..k  BY <1>3
        <5>2. \E m \in 1..k : p[m] = j  BY <4>1, <5>1
        <5>3. new.block[j] = b[j]  BY <3>1, <5>2
        <5> HIDE DEF e
        <5>4. QED  BY <3>2, <4>1, <5>3
      <4>2. CASE j # p[k]
        <5>1. (\E m \in 1..k : p[m] = j) <=> (\E m \in 1..(k - 1) : p[m] = j)
          <6>1. \A m \in 1..k : m = k \/ m \in 1..(k - 1)  BY <1>3
          <6>2. \A m \in 1..(k - 1) : m \in 1..k  BY <1>3
          <6>3. QED  BY <4>2, <6>1, <6>2
        <5> HIDE DEF e, old, new, p
        <5>2. e[j] = old.block[j]  BY <3>2, <4>2
        <5>3. QED  BY <3>1, <5>1, <5>2
      <4>3. QED  BY <4>1, <4>2
    <3> HIDE DEF e, old, new, p
    <3>4. /\ e = [j \in 1..Scan |-> e[j]]
          /\ new.block = [j \in 1..Scan |-> new.block[j]]
      BY <3>1, <3>2
    <3>5. QED  BY <3>3, <3>4 DEF e
  <2>3. QED  BY <2>1, <2>2
<1> HIDE DEF s, t, n, v, p, old, new
<1>6. /\ At(r, s) /\ At(a, t) /\ \A w : After(a, t, w) = After(r, s \o t, w)
  BY <1>1, <1>2, Parted
<1>7. r.ok  BY DEF At
<1>8. a.ok /\ a.v = n /\ x.ok /\ x.v = v /\ Returns(x, new) = After(r, s \o t, new)
  BY <1>6, <1>7, Behind, Revalued
<1>9. GetUE(r) = a  BY <1>1, <1>6, GotUE DEF s
<1> HIDE DEF a
<1>10. GetLevel(a, coeff_mode) = x  BY <1>1, <1>6, GotLevel DEF t
<1> HIDE DEF x
<1>11. GetRunLevel(r, coeff_mode) =
         StoreLevel(a, old.block, old.pos + n + 1, coeff_mode)
  BY <1>8, <1>9 DEF GetRunLevel, Then, old
<1>12. StoreLevel(a, old.block, p[k], coeff_mode) =
         Returns(x, [pos |-> p[k], block |-> [old.block EXCEPT ![p[k]] = x.v]])
  BY <1>4, <1>8, <1>10 DEF StoreLevel, Then
<1>13. QED  BY <1>2, <1>4, <1>5, <1>8, <1>11, <1>12 DEF new

LEMMA AllBegun ==
  ASSUME NEW b \in Block
  PROVE  /\ Begun(b, 0) = [pos |-> 0, block |-> ZeroBlock]
         /\ Begun(b, Len(Positions(b))).block = b
<1> DEFINE p == Positions(b)
           n == Len(p)
<1>1. Begun(b, 0) = [pos |-> 0, block |-> ZeroBlock]
  BY DEF Begun, ZeroBlock
<1>2. ASSUME NEW j \in 1..Scan, ~ \E m \in 1..n : p[m] = j PROVE b[j] = 0
  BY <1>2, PositionsComplete DEF Listed
<1>3. b = [j \in 1..Scan |-> b[j]]  BY DEF Block
<1>4. Begun(b, n).block =
        [j \in 1..Scan |-> IF \E m \in 1..n : p[m] = j THEN b[j] ELSE 0]
  BY DEF Begun
<1> HIDE DEF p, n
<1>5. Begun(b, n).block = b  BY <1>2, <1>3, <1>4
<1>6. QED  BY <1>1, <1>5 DEF n, p

LEMMA GotLevels ==
  ASSUME NEW b \in Block, Coded(b), NEW coeff_mode, NEW r,
         At(r, Joined(LevelCodes(b, coeff_mode)))
  PROVE  GetLevels(r, Len(Positions(b)), coeff_mode) =
           After(r, Joined(LevelCodes(b, coeff_mode)), b)
<1> DEFINE n == Len(Positions(b))
           s == LevelCodes(b, coeff_mode)
           E(p) == IF p.ok THEN GetRunLevel(p, coeff_mode) ELSE p
           base == Returns(r, [pos |-> 0, block |-> ZeroBlock])
           Is(f) == f = [i \in 0..n |-> IF i = 0 THEN base ELSE E(f[i - 1])]
           c == CHOOSE f : Is(f)
<1>0. r.ok /\ n \in Nat
  <2>1. n \in 1..16  BY CodedPositions
  <2> HIDE DEF n
  <2>2. QED  BY <2>1 DEF At
<1>1. s \in [1..n -> Strings]
  <2>1. ASSUME NEW k \in 1..n
        PROVE  UE(RunBefore(Positions(b), k))
                 \o Level(b[Positions(b)[k]], coeff_mode) \in Strings
    BY LevelCodesTyped, Concat
  <2>2. QED  BY <2>1 DEF LevelCodes
<1>2. At(r, Joined(s))  OBVIOUS
<1> HIDE DEF s
<1>3. PICK g : Pieces(g, s, n, r)
  <2> HIDE DEF n
  <2>1. QED  BY <1>0, <1>1, <1>2, PiecesAhead
<1> DEFINE h == [i \in 0..n |-> After(r, g[i], Begun(b, i))]
<1>4. ASSUME NEW i \in 1..n PROVE h[i] = E(h[i - 1])
  <2> DEFINE p == After(r, g[i - 1], Begun(b, i - 1))
  <2>1. h[i] = After(r, g[i], Begun(b, i)) /\ h[i - 1] = p
    <3> HIDE DEF n, p
    <3>1. i \in 0..n /\ i - 1 \in 0..n  BY <1>0
    <3>2. QED  BY <3>1 DEF p
  <2>2. /\ At(p, s[i])
        /\ \A w : After(p, s[i], w) = After(r, g[i], w)
    <3> HIDE DEF n
    <3>1. QED  BY <1>0, <1>3, NextPiece
  <2>3. p.ok /\ p.v = Begun(b, i - 1)  BY <1>0, Behind
  <2> HIDE DEF p, h
  <2>4. GetRunLevel(p, coeff_mode) = After(p, s[i], Begun(b, i))
    BY <2>2, <2>3, GotRunLevel DEF s
  <2>5. QED  BY <2>1, <2>2, <2>3, <2>4
<1>5. h[0] = base
  <2>1. g[0] = <<>> /\ 0 \in 0..n  BY <1>0, <1>3 DEF Pieces
  <2>2. h[0] = After(r, <<>>, Begun(b, 0))  BY <2>1
  <2>3. QED  BY <1>2, <2>2, AllBegun, Here
<1>6. GetLevels(r, n, coeff_mode) =
        IF c[n].ok THEN Returns(c[n], c[n].v.block) ELSE c[n]
  BY DEF GetLevels, Then
<1> HIDE DEF E, base
<1>7. Is(h)
  <2>1. h = [i \in 0..n |-> h[i]]  OBVIOUS
  <2> HIDE DEF h
  <2>2. \A i \in 0..n : h[i] = IF i = 0 THEN base ELSE E(h[i - 1])
    <3> HIDE DEF n
    <3>1. QED  BY <1>0, <1>4, <1>5
  <2>3. QED  BY <2>1, <2>2
<1>8. Is(c)  BY <1>7
<1>9. Parallel(c, h, n)
  <2> HIDE DEF c, h
  <2>1. /\ c = [i \in 0..n |-> IF i = 0 THEN base ELSE E(c[i - 1])]
        /\ h = [i \in 0..n |-> IF i = 0 THEN base ELSE E(h[i - 1])]
    BY <1>7, <1>8
  <2> HIDE DEF n
  <2>2. QED  BY <1>0, <2>1 DEF Parallel
<1>10. h[n] = After(r, Joined(s), Begun(b, n))
  <2>1. n \in 0..n  BY <1>0
  <2>2. QED  BY <1>3, <2>1 DEF Pieces
<1> HIDE DEF c, h
<1>11. c[n] = h[n]
  <2> HIDE DEF n
  <2>1. QED  BY <1>0, <1>9, Alike
<1>12. c[n].ok /\ c[n].v = Begun(b, n)
       /\ Returns(c[n], b) = After(r, Joined(s), b)
  BY <1>0, <1>10, <1>11, Behind, Revalued
<1>13. Begun(b, n).block = b  BY AllBegun
<1> HIDE DEF n
<1>14. GetLevels(r, n, coeff_mode) = After(r, Joined(s), b)
  BY <1>6, <1>12, <1>13
<1>15. QED  BY <1>14 DEF n, s

LEMMA GotCounted ==
  ASSUME NEW b \in Block, Coded(b), NEW coeff_mode, NEW r,
         At(r, Coefficients(b, coeff_mode))
  PROVE  GetCounted(r, coeff_mode) = After(r, Coefficients(b, coeff_mode), b)
<1> DEFINE n == Len(Positions(b))
           m == n - 1
           s == UE(m)
           t == Joined(LevelCodes(b, coeff_mode))
           a == After(r, s, m)
<1>1. n \in 1..16 /\ n <= Scan
  <2>1. Positions(b) \in Rising(b, Scan) /\ Scan \in Nat
    BY PositionsTyped, PictureAssumption
  <2>2. QED  BY <2>1, RisingFacts, CodedPositions
<1>2. n \in Int /\ m \in Number /\ m + 1 = n /\ ~(m + 1 > Scan)
  <2>1. Scan \in Int  BY PictureAssumption
  <2> HIDE DEF n
  <2>2. QED  BY <1>1, <2>1 DEF Number
<1>3. Coefficients(b, coeff_mode) = s \o t
  BY DEF Coefficients, LevelCodes
<1> HIDE DEF n, m
<1>4. s \in Strings  BY <1>2, UETyped
<1>5. t \in Strings
  <2>1. LevelCodes(b, coeff_mode) \in [1..n -> Strings]
    <3>1. ASSUME NEW k \in 1..n
          PROVE  UE(RunBefore(Positions(b), k))
                   \o Level(b[Positions(b)[k]], coeff_mode) \in Strings
      BY LevelCodesTyped, Concat DEF n
    <3>2. QED  BY <3>1 DEF LevelCodes, n
  <2>2. n \in Nat  BY <1>1
  <2>3. QED  BY <2>1, <2>2, EachTyped
<1> HIDE DEF s
<1>6. /\ At(r, s) /\ At(a, t) /\ \A w : After(a, t, w) = After(r, s \o t, w)
  <2> HIDE DEF t
  <2>1. QED  BY <1>3, <1>4, <1>5, Parted
<1>7. a.ok /\ a.v = m
  <2>1. r.ok  BY DEF At
  <2>2. QED  BY <2>1, Behind
<1>8. GetUE(r) = a  BY <1>2, <1>6, GotUE DEF s
<1> HIDE DEF a
<1>9. GetLevels(a, n, coeff_mode) = After(a, t, b)  BY <1>6, GotLevels DEF n
<1> HIDE DEF t
<1>10. GetCounted(r, coeff_mode) = GetLevels(a, n, coeff_mode)
  BY <1>2, <1>7, <1>8 DEF GetCounted, Then
<1>11. QED  BY <1>3, <1>6, <1>9, <1>10

\* A code, its value, and the code behind it.
LEMMA Chained ==
  ASSUME NEW s \in Strings, NEW t \in Strings, NEW r, At(r, s \o t), NEW v,
         NEW a, a = After(r, s, v)
  PROVE  /\ At(r, s) /\ a.ok /\ a.v = v /\ At(a, t)
         /\ \A w : After(a, t, w) = After(r, s \o t, w)
<1>1. r.ok  BY DEF At
<1>2. a.ok /\ a.v = v  BY <1>1, Behind
<1>3. QED  BY <1>2, Parted

LEMMA Valued ==
  ASSUME NEW s, NEW r, At(r, s), NEW v, NEW x, x = After(r, s, v)
  PROVE  x.ok /\ x.v = v /\ \A w : Returns(x, w) = After(r, s, w)
<1>1. r.ok  BY DEF At
<1>2. QED  BY <1>1, Behind, Revalued

\* A block with a single DC level.
LEMMA SingleDc ==
  ASSUME NEW b \in Block, Positions(b) = << 1 >>
  PROVE  b[1] \in Word \ {0} /\ b = [ZeroBlock EXCEPT ![1] = b[1]]
<1>0. 1 \in 1..Scan  BY PictureAssumption
<1>1. ASSUME NEW i \in 1..Scan, i # 1 PROVE b[i] = 0
  <2>1. SUFFICES ASSUME b[i] # 0 PROVE FALSE  OBVIOUS
  <2>2. Listed(<<1>>, i)  BY <2>1, PositionsComplete
  <2>3. \A k \in 1..Len(<<1>>) : <<1>>[k] = 1  OBVIOUS
  <2>4. QED  BY <1>1, <2>2, <2>3 DEF Listed
<1>2. b[1] \in Word \ {0}
  <2>1. Coded(b)
    <3>1. <<1>> # <<>>  OBVIOUS
    <3>2. QED  BY <3>1 DEF Coded
  <2>2. 1 \in 1..Len(Positions(b)) /\ Positions(b)[1] = 1  OBVIOUS
  <2>3. b[Positions(b)[1]] \in Word \ {0}  BY <2>1, <2>2, CodedPositions
  <2>4. QED  BY <2>2, <2>3
<1>3. b = [i \in 1..Scan |-> b[i]]  BY DEF Block
<1>4. ASSUME NEW i \in 1..Scan
      PROVE  b[i] = [ZeroBlock EXCEPT ![1] = b[1]][i]
  BY <1>1 DEF ZeroBlock
<1>5. [ZeroBlock EXCEPT ![1] = b[1]] =
        [i \in 1..Scan |-> [ZeroBlock EXCEPT ![1] = b[1]][i]]
  BY DEF ZeroBlock
<1>6. QED  BY <1>2, <1>3, <1>4, <1>5

LEMMA GotBlockV9 ==
  ASSUME NEW b \in Block, Coded(b), NEW r, At(r, BlockV9(b))
  PROVE  GetBlock(r, 1) = After(r, BlockV9(b), b)
<1>1. CASE Positions(b) = <<1>>
  <2> DEFINE t == LevelV9(b[1])
             a == After(r, <<0>>, 0)
             x == After(a, t, b[1])
  <2>1. b[1] \in Word \ {0} /\ b = [ZeroBlock EXCEPT ![1] = b[1]]
    BY <1>1, SingleDc
  <2>2. 0 \in Bit /\ <<0>> \in Strings  BY OneBit DEF Bit
  <2>3. t \in Strings
    <3>1. b[1] \in Int /\ -131072 < b[1] /\ b[1] < 131072  BY <2>1, Words
    <3>2. QED  BY <2>1, <3>1, LevelTyped
  <2>4. BlockV9(b) = <<0>> \o t  BY <1>1 DEF BlockV9
  <2> HIDE DEF t
  <2>5. /\ At(r, <<0>>) /\ a.ok /\ a.v = 0 /\ At(a, t)
        /\ \A w : After(a, t, w) = After(r, <<0>> \o t, w)
    BY <2>2, <2>3, <2>4, Chained
  <2>6. Get(r, 1) = a  BY <2>2, <2>5, GotBit
  <2> HIDE DEF a
  <2>7. GetLevelV9(a) = x  BY <2>1, <2>5, GotLevelV9 DEF t
  <2>8. x.ok /\ x.v = b[1] /\ Returns(x, b) = After(a, t, b)
    BY <2>5, Valued
  <2> HIDE DEF x
  <2>9. GetBlock(r, 1) = Returns(x, [ZeroBlock EXCEPT ![1] = x.v])
    <3> DEFINE y == GetLevelV9(a)
    <3>1. GetBlock(r, 1) =
            IF a.ok THEN IF a.v = 1 THEN GetCounted(a, 1)
                         ELSE IF y.ok THEN Returns(y, [ZeroBlock EXCEPT ![1] = y.v])
                         ELSE y
            ELSE a
      <4>1. 1 # 0  OBVIOUS
      <4>2. QED  BY <2>6, <4>1, Zenon DEF GetBlock, Then
    <3>2. y = x  BY <2>7
    <3> HIDE DEF y
    <3>3. GetBlock(r, 1) = Returns(y, [ZeroBlock EXCEPT ![1] = y.v])
      BY <2>5, <2>8, <3>1, <3>2
    <3>4. QED  BY <3>2, <3>3
  <2>10. GetBlock(r, 1) = Returns(x, b)  BY <2>1, <2>8, <2>9
  <2>11. QED  BY <2>4, <2>5, <2>8, <2>10
<1>2. CASE Positions(b) # <<1>>
  <2> DEFINE t == Coefficients(b, 1)
             a == After(r, <<1>>, 1)
  <2>1. 1 \in Bit /\ <<1>> \in Strings  BY OneBit DEF Bit
  <2>2. t \in Strings  BY CoefficientsTyped
  <2>3. BlockV9(b) = <<1>> \o t  BY <1>2 DEF BlockV9
  <2> HIDE DEF t
  <2>4. /\ At(r, <<1>>) /\ a.ok /\ a.v = 1 /\ At(a, t)
        /\ \A w : After(a, t, w) = After(r, <<1>> \o t, w)
    BY <2>1, <2>2, <2>3, Chained
  <2>5. Get(r, 1) = a  BY <2>1, <2>4, GotBit
  <2> HIDE DEF a
  <2>6. GetCounted(a, 1) = After(a, t, b)  BY <2>4, GotCounted DEF t
  <2>7. GetBlock(r, 1) = GetCounted(a, 1)
    BY <2>4, <2>5 DEF GetBlock, Then
  <2>8. QED  BY <2>3, <2>4, <2>6, <2>7
<1>3. QED  BY <1>1, <1>2

LEMMA GotLegacy ==
  ASSUME NEW b \in Block, Coded(b), NEW r, At(r, Legacy(b))
  PROVE  GetBlock(r, 0) = After(r, Legacy(b), b)
BY GotCounted DEF Legacy, GetBlock

\* A flag, and a block when it is set.
OptionalBlock(b) == IF Coded(b) THEN <<1>> \o Legacy(b) ELSE <<0>>

LEMMA OptionalTyped ==
  ASSUME NEW b \in Block
  PROVE  OptionalBlock(b) \in Strings
<1>1. Coded(b) => Legacy(b) \in Strings  BY BlockTyped
<1>2. <<0>> \in Strings /\ <<1>> \in Strings  BY OneBit DEF Bit
<1>3. QED  BY <1>1, <1>2, Concat DEF OptionalBlock

LEMMA GotOptionalBlock ==
  ASSUME NEW b \in Block, NEW r, At(r, OptionalBlock(b))
  PROVE  GetOptionalBlock(r) = After(r, OptionalBlock(b), b)
<1>1. 0 \in Bit /\ 1 \in Bit /\ <<0>> \in Strings /\ <<1>> \in Strings
  BY OneBit DEF Bit
<1>2. CASE ~Coded(b)
  <2> DEFINE a == After(r, <<0>>, 0)
  <2>1. OptionalBlock(b) = <<0>> /\ At(r, <<0>>)  BY <1>2 DEF OptionalBlock
  <2>2. a.ok /\ a.v = 0 /\ \A w : Returns(a, w) = After(r, <<0>>, w)
    BY <2>1, Valued
  <2>3. Get(r, 1) = a  BY <1>1, <2>1, GotBit
  <2> HIDE DEF a
  <2>4. GetOptionalBlock(r) = Returns(a, ZeroBlock)
    BY <2>2, <2>3 DEF GetOptionalBlock, Then
  <2>5. ZeroBlock = b  BY <1>2, NotCoded
  <2>6. QED  BY <2>1, <2>2, <2>4, <2>5
<1>3. CASE Coded(b)
  <2> DEFINE t == Legacy(b)
             a == After(r, <<1>>, 1)
  <2>1. t \in Strings  BY <1>3, BlockTyped
  <2>2. OptionalBlock(b) = <<1>> \o t  BY <1>3 DEF OptionalBlock
  <2> HIDE DEF t
  <2>3. /\ At(r, <<1>>) /\ a.ok /\ a.v = 1 /\ At(a, t)
        /\ \A w : After(a, t, w) = After(r, <<1>> \o t, w)
    BY <1>1, <2>1, <2>2, Chained
  <2>4. Get(r, 1) = a  BY <1>1, <2>3, GotBit
  <2> HIDE DEF a
  <2>5. GetBlock(a, 0) = After(a, t, b)  BY <1>3, <2>3, GotLegacy DEF t
  <2>6. GetOptionalBlock(r) = GetBlock(a, 0)
    BY <2>3, <2>4 DEF GetOptionalBlock, Then
  <2>7. QED  BY <2>2, <2>3, <2>5, <2>6
<1>4. QED  BY <1>2, <1>3

-----------------------------------------------------------------------------
(* The bits of a value.                                                    *)

\* The values of the first bits of b.
Grows(f, b) ==
  /\ f[0] = 0 /\ Value(b) = f[Len(b)]
  /\ \A i \in 0..Len(b) : f[i] \in Nat
  /\ \A i \in 1..Len(b) : f[i] = 2 * f[i - 1] + b[i]

LEMMA ValueGrows ==
  ASSUME NEW b \in Strings
  PROVE  \E f : Grows(f, b)
<1> DEFINE n == Len(b)
           D == [i \in 0..n |-> Nat]
           step == [i \in 1..n |-> [x \in Nat |-> 2 * x + b[i]]]
<1>1. n \in Nat /\ \A i \in 1..n : b[i] \in Nat  BY DEF Strings, Bit
<1> HIDE DEF n
<1>2. Steps(step, n, D)  BY <1>1 DEF Steps
<1>3. 0 \in D[0]  BY <1>1
<1>4. PICK f : Takes(f, n, 0, step) /\ Within(f, n, D)
  <2> HIDE DEF D, step
  <2>1. QED  BY <1>1, <1>2, <1>3, Recursion
<1>5. \A i \in 0..n : f[i] \in Nat  BY <1>4 DEF Within
<1>6. f[0] = 0
  <2>1. 0 \in 0..n  BY <1>1
  <2>2. QED  BY <1>4, <2>1 DEF Takes
<1>7. ASSUME NEW i \in 1..n PROVE f[i] = 2 * f[i - 1] + b[i]
  <2>1. i - 1 \in 0..n /\ i \in 0..n /\ i # 0  BY <1>1
  <2>2. f[i] = step[i][f[i - 1]]  BY <1>4, <2>1 DEF Takes
  <2>3. QED  BY <1>5, <2>1, <2>2
<1>8. Value(b) = f[n]  BY <1>6, <1>7, ValueOf DEF n
<1>9. QED  BY <1>5, <1>6, <1>7, <1>8 DEF Grows, n

LEMMA ValueBit ==
  ASSUME NEW b \in Strings, Len(b) \in 0..32, NEW i \in 1..Len(b)
  PROVE  /\ Value(b) \in Nat
         /\ (Value(b) \div 2^(Len(b) - i)) % 2 = b[i]
<1> DEFINE n == Len(b)
<1>1. PICK f : Grows(f, b)  BY ValueGrows
<1>2. /\ n \in 0..32 /\ i \in 1..n /\ Value(b) = f[n]
      /\ \A j \in 0..n : f[j] \in Nat
      /\ \A j \in 1..n : f[j] = 2 * f[j - 1] + b[j] /\ b[j] \in 0..1
  BY <1>1 DEF Grows, Strings, Bit
<1> HIDE DEF n
<1> DEFINE T == {k \in 0..n : f[n] \div 2^k = f[n - k]}
<1>3. 0 \in T
  <2>1. 2^0 = 1 /\ n - 0 = n /\ n \in 0..n /\ 0 \in 0..n  BY <1>2
  <2>2. f[n] \div 1 = f[n]  BY <1>2, <2>1
  <2>3. QED  BY <2>1, <2>2
<1>4. ASSUME NEW k \in 1..n, k - 1 \in T PROVE k \in T
  <2> DEFINE p == 2^(k - 1)
             j == n - (k - 1)
             x == f[n] \div (2 * p)
  <2>1. p \in Nat \ {0} /\ 2^k = 2 * p
    <3>1. k - 1 \in 0..32 /\ (k - 1) + 1 = k  BY <1>2
    <3>2. QED  BY <3>1, Powers
  <2>2. j \in 1..n /\ j - 1 = n - k /\ j - 1 \in 0..n /\ n \in 0..n /\ k \in 0..n
    BY <1>2
  <2>3. f[n] \div p = f[j]  BY <1>4
  <2>4. f[n] \in Nat /\ f[j - 1] \in Nat /\ f[j] = 2 * f[j - 1] + b[j]
        /\ b[j] \in 0..1
    BY <1>2, <2>2
  <2> HIDE DEF p
  <2>5. /\ f[n] \div p = 2 * x + ((f[n] \div p) % 2)
        /\ 2 * p \in Nat \ {0}
    <3> DEFINE y == f[n]
    <3>1. y \in Nat  BY <2>4
    <3> HIDE DEF y
    <3>2. y \div p = 2 * (y \div (2 * p)) + ((y \div p) % 2)
      BY <2>1, <3>1, Shifted
    <3>3. 2 * p \in Nat \ {0}  BY <2>1
    <3>4. QED  BY <3>2, <3>3 DEF y
  <2>6. x \in Nat  BY <2>4, <2>5, DivMod
  <2> HIDE DEF x, j
  <2>7. x = f[j - 1]  BY <2>3, <2>4, <2>5, <2>6
  <2>8. f[n] \div 2^k = f[n - k]  BY <2>1, <2>2, <2>7 DEF x
  <2>9. QED  BY <2>2, <2>8
<1> HIDE DEF T
<1>5. 0..n \subseteq T
  <2>1. n \in Nat  BY <1>2
  <2>2. QED  BY <1>3, <1>4, <2>1, UpTo
<1>6. n - i \in T /\ n - (n - i) = i  BY <1>2, <1>5
<1>7. f[n] \div 2^(n - i) = f[i]  BY <1>6 DEF T
<1>8. f[i] % 2 = b[i] /\ f[n] \in Nat
  <2>1. f[i - 1] \in Nat /\ f[n] \in Nat /\ b[i] \in 0..1
        /\ f[i] = 2 * f[i - 1] + b[i]
    BY <1>2
  <2>2. QED  BY <2>1
<1>9. QED  BY <1>2, <1>7, <1>8 DEF n

-----------------------------------------------------------------------------
(* A residual.                                                             *)

BlockCode(b, coeff_mode) ==
  IF ~Coded(b) THEN <<>> ELSE IF coeff_mode = 0 THEN Legacy(b) ELSE BlockV9(b)
PerhapsBlock(r, b, coeff_mode) ==
  IF Coded(b) THEN GetBlock(r, coeff_mode) ELSE Returns(r, ZeroBlock)

LEMMA BlockCodeTyped ==
  ASSUME NEW b \in Block, NEW coeff_mode \in {0, 1}
  PROVE  BlockCode(b, coeff_mode) \in Strings
<1>1. <<>> \in Strings  BY DEF Strings
<1>2. Coded(b) => Legacy(b) \in Strings /\ BlockV9(b) \in Strings
  BY BlockTyped
<1>3. QED  BY <1>1, <1>2 DEF BlockCode

LEMMA GotBlockCode ==
  ASSUME NEW b \in Block, NEW coeff_mode \in {0, 1}, NEW r,
         At(r, BlockCode(b, coeff_mode))
  PROVE  PerhapsBlock(r, b, coeff_mode) = After(r, BlockCode(b, coeff_mode), b)
<1>1. CASE ~Coded(b)
  <2>1. BlockCode(b, coeff_mode) = <<>>  BY <1>1 DEF BlockCode
  <2>2. Returns(r, b) = After(r, <<>>, b)  BY <2>1, Here
  <2>3. ZeroBlock = b  BY <1>1, NotCoded
  <2>4. QED  BY <1>1, <2>1, <2>2, <2>3 DEF PerhapsBlock
<1>2. CASE Coded(b) /\ coeff_mode = 0
  <2>1. BlockCode(b, coeff_mode) = Legacy(b)  BY <1>2 DEF BlockCode
  <2>2. GetBlock(r, 0) = After(r, Legacy(b), b)  BY <1>2, <2>1, GotLegacy
  <2>3. QED  BY <1>2, <2>1, <2>2 DEF PerhapsBlock
<1>3. CASE Coded(b) /\ coeff_mode = 1
  <2>1. BlockCode(b, coeff_mode) = BlockV9(b)  BY <1>3 DEF BlockCode
  <2>2. GetBlock(r, 1) = After(r, BlockV9(b), b)  BY <1>3, <2>1, GotBlockV9
  <2>3. QED  BY <1>3, <2>1, <2>2 DEF PerhapsBlock
<1>4. QED  BY <1>1, <1>2, <1>3

BlockCodes(res, n, coeff_mode) == [k \in 1..n |-> BlockCode(res[k], coeff_mode)]

\* The mask of the blocks that are coded, block 0 in its lowest bit.
Mask(res, n) == [i \in 1..n |-> IF Coded(res[n + 1 - i]) THEN 1 ELSE 0]
Marks(mask, res, n) ==
  \A i \in 1..n : (mask \div 2^(i - 1)) % 2 = (IF Coded(res[i]) THEN 1 ELSE 0)

LEMMA MaskMarks ==
  ASSUME NEW n \in 1..32, NEW res
  PROVE  /\ Mask(res, n) \in Strings /\ Len(Mask(res, n)) = n
         /\ Marks(Value(Mask(res, n)), res, n)
         /\ (\E k \in 1..n : Coded(res[k])) => Value(Mask(res, n)) # 0
<1> DEFINE b == Mask(res, n)
<1>1. b \in [1..n -> Bit]
  BY DEF Mask, Bit
<1>2. n \in Nat  OBVIOUS
<1>3. b \in Strings /\ Len(b) = n
  <2> HIDE DEF b
  <2>1. b \in Seq(Bit) /\ Len(b) = n  BY <1>1, <1>2, FunctionSeq
  <2>2. QED  BY <2>1 DEF Strings
<1>4. ASSUME NEW i \in 1..n
      PROVE  (Value(b) \div 2^(i - 1)) % 2 = IF Coded(res[i]) THEN 1 ELSE 0
  <2> DEFINE j == n + 1 - i
  <2>1. j \in 1..n /\ n - j = i - 1 /\ n + 1 - j = i  OBVIOUS
  <2>2. b[j] = IF Coded(res[n + 1 - j]) THEN 1 ELSE 0  BY <2>1 DEF Mask
  <2> HIDE DEF b, j
  <2>3. Len(b) \in 0..32  BY <1>3
  <2>4. (Value(b) \div 2^(Len(b) - j)) % 2 = b[j]
    BY <1>3, <2>1, <2>3, ValueBit
  <2>5. QED  BY <1>3, <2>1, <2>2, <2>4
<1>5. ASSUME NEW k \in 1..n, Coded(res[k]) PROVE Value(b) # 0
  <2>1. SUFFICES ASSUME Value(b) = 0 PROVE FALSE  OBVIOUS
  <2> HIDE DEF b
  <2>2. (0 \div 2^(k - 1)) % 2 = 1  BY <1>4, <1>5, <2>1
  <2>3. 2^(k - 1) \in Nat \ {0}
    <3>1. k - 1 \in 0..32  OBVIOUS
    <3>2. QED  BY <3>1, Powers
  <2> DEFINE p == 2^(k - 1)
  <2>7. p \in Nat \ {0}  BY <2>3
  <2> HIDE DEF p
  <2>4. 0 \div p = 0  BY <2>7, Z3
  <2>5. 0 % 2 = 1  BY <2>2, <2>4 DEF p
  <2>6. QED  BY <2>5
<1>6. QED  BY <1>3, <1>4, <1>5 DEF Marks

LEMMA GotMaskedBlocks ==
  ASSUME NEW n \in Nat, NEW res \in [1..n -> Block], NEW mask,
         Marks(mask, res, n), NEW coeff_mode \in {0, 1},
         NEW r, At(r, Joined(BlockCodes(res, n, coeff_mode)))
  PROVE  MaskedBlocks(r, n, mask, coeff_mode) =
           After(r, Joined(BlockCodes(res, n, coeff_mode)), First(res, n))
<1> DEFINE s == BlockCodes(res, n, coeff_mode)
           Item(a, i) == IF (mask \div 2^(i - 1)) % 2 = 1
                         THEN GetBlock(a, coeff_mode) ELSE Returns(a, ZeroBlock)
           E(p, i) == IF p.ok THEN IF Item(p, i).ok
                                   THEN Returns(Item(p, i),
                                                Append(p.v, Item(p, i).v))
                                   ELSE Item(p, i)
                      ELSE p
           base == Returns(r, <<>>)
           Is(f) == f = [i \in 0..n |-> IF i = 0 THEN base ELSE E(f[i - 1], i)]
           c == CHOOSE f : Is(f)
<1>0. r.ok  BY DEF At
<1>1. /\ s \in [1..n -> Strings]
      /\ \A i \in 1..n : s[i] = BlockCode(res[i], coeff_mode)
  BY BlockCodeTyped DEF BlockCodes
<1>2. At(r, Joined(s))  OBVIOUS
<1> HIDE DEF s
<1>3. PICK g : Pieces(g, s, n, r)  BY <1>1, <1>2, PiecesAhead
<1> DEFINE h == [i \in 0..n |-> After(r, g[i], First(res, i))]
<1>4. ASSUME NEW i \in 1..n PROVE h[i] = E(h[i - 1], i)
  <2> DEFINE p == After(r, g[i - 1], First(res, i - 1))
             x == Item(p, i)
  <2>1. h[i] = After(r, g[i], First(res, i)) /\ h[i - 1] = p  OBVIOUS
  <2>2. At(p, s[i])  BY <1>3, NextPiece
  <2>0. p = After(r, g[i - 1], First(res, i - 1))  OBVIOUS
  <2> HIDE DEF p, h
  <2>3. x = PerhapsBlock(p, res[i], coeff_mode)
    BY DEF Marks, PerhapsBlock
  <2>4. x = After(p, s[i], res[i])  BY <1>1, <2>2, <2>3, GotBlockCode
  <2> HIDE DEF x
  <2>5. (IF p.ok THEN IF x.ok THEN Returns(x, Append(p.v, x.v)) ELSE x
         ELSE p) = After(r, g[i], First(res, i))
    BY <1>0, <1>3, <2>0, <2>4, Collected
  <2> HIDE DEF Item
  <2>6. E(p, i) = After(r, g[i], First(res, i))  BY <2>5 DEF x
  <2>7. QED  BY <2>1, <2>6
<1>5. h[0] = base
  BY <1>2, <1>3, NoneCollected
<1>6. MaskedBlocks(r, n, mask, coeff_mode) = c[n]
  BY DEF MaskedBlocks, GetEach, Then
<1> HIDE DEF E, base
<1>7. Is(h)
  <2>1. h = [i \in 0..n |-> h[i]]  OBVIOUS
  <2> HIDE DEF h
  <2>2. \A i \in 0..n : h[i] = IF i = 0 THEN base ELSE E(h[i - 1], i)
    BY <1>4, <1>5
  <2>3. QED  BY <2>1, <2>2
<1>8. Is(c)  BY <1>7
<1>9. Parallel(c, h, n)
  <2> HIDE DEF c, h
  <2>1. /\ c = [i \in 0..n |-> IF i = 0 THEN base ELSE E(c[i - 1], i)]
        /\ h = [i \in 0..n |-> IF i = 0 THEN base ELSE E(h[i - 1], i)]
    BY <1>7, <1>8
  <2>2. QED  BY <2>1 DEF Parallel
<1>10. h[n] = After(r, Joined(s), First(res, n))
  BY <1>3 DEF Pieces
<1> HIDE DEF c, h
<1>11. c[n] = h[n]  BY <1>9, Alike
<1>12. QED  BY <1>6, <1>10, <1>11 DEF s

LEMMA FirstAll ==
  ASSUME NEW n, NEW S, NEW v \in [1..n -> S]
  PROVE  First(v, n) = v
BY DEF First

\* put_residual_group_v14 and get_residual_mask.
LEMMA GotMasked ==
  ASSUME NEW n \in 1..32, NEW res \in [1..n -> Block],
         \E k \in 1..n : Coded(res[k]), NEW r, At(r, Group(res))
  PROVE  GetMasked(r, n) = After(r, Group(res), res)
<1> DEFINE u == IF Len(Joined(BlockCodes(res, n, 1))) < Len(Joined(BlockCodes(res, n, 0)))
                THEN 1 ELSE 0
           b == Mask(res, n)
           t == Joined(BlockCodes(res, n, u))
           x == After(r, <<u>>, u)
           y == After(x, b, Value(b))
           z == After(y, t, res)
<1>0. Len(res) = n /\ n \in Nat
  <2>1. n \in Nat  OBVIOUS
  <2>2. QED  BY <2>1, FunctionSeq
<1>1. Group(res) = (<<u>> \o b) \o t
  <2>1. /\ BlockCodes(res, n, 0) = [k \in 1..n |->
             IF Coded(res[k]) THEN Legacy(res[k]) ELSE <<>>]
        /\ BlockCodes(res, n, 1) = [k \in 1..n |->
             IF Coded(res[k]) THEN BlockV9(res[k]) ELSE <<>>]
    <3>1. 1 # 0  OBVIOUS
    <3>2. QED  BY <3>1 DEF BlockCodes, BlockCode
  <2> DEFINE l == Joined(BlockCodes(res, n, 0))
             w == Joined(BlockCodes(res, n, 1))
             v9 == Len(w) < Len(l)
  <2>2. Group(res) = <<IF v9 THEN 1 ELSE 0>> \o b \o (IF v9 THEN w ELSE l)
    BY <1>0, <2>1 DEF Group, Mask
  <2>3. u = (IF v9 THEN 1 ELSE 0) /\ t = IF v9 THEN w ELSE l
    OBVIOUS
  <2> HIDE DEF l, w, v9, u, t, b
  <2>4. QED  BY <2>2, <2>3
<1>2. u \in {0, 1} /\ u \in Bit  BY DEF Bit
<1> HIDE DEF u
<1>3. /\ b \in Strings /\ Len(b) = n /\ Marks(Value(b), res, n)
      /\ Value(b) # 0
  BY MaskMarks
<1> HIDE DEF b
<1>4. <<u>> \in Strings /\ <<u>> \o b \in Strings
  BY <1>2, <1>3, OneBit, Concat
<1>5. t \in Strings
  <2>1. BlockCodes(res, n, u) \in [1..n -> Strings]
    BY <1>2, BlockCodeTyped DEF BlockCodes
  <2>2. QED  BY <1>0, <2>1, EachTyped
<1> HIDE DEF t
<1> DEFINE a == After(r, <<u>> \o b, Value(b))
<1>6. /\ At(r, <<u>> \o b) /\ At(a, t)
      /\ \A w : After(a, t, w) = After(r, Group(res), w)
  BY <1>1, <1>4, <1>5, Chained
<1>7. /\ At(r, <<u>>) /\ x.ok /\ x.v = u /\ At(x, b) /\ y = a
  BY <1>2, <1>3, <1>4, <1>6, Chained
<1>8. /\ y.ok /\ y.v = Value(b) /\ At(y, t)
      /\ \A w : After(y, t, w) = After(r, Group(res), w)
  <2>0. At(x, b) /\ y = After(x, b, Value(b))  BY <1>7
  <2> HIDE DEF x
  <2>1. y.ok /\ y.v = Value(b)  BY <2>0, Valued
  <2>2. QED  BY <1>6, <1>7, <2>1
<1> HIDE DEF a
<1>9. Get(r, 1) = x  BY <1>2, <1>7, GotBit
<1> HIDE DEF x
<1>10. Get(x, n) = y  BY <1>3, <1>7, GotAll
<1> HIDE DEF y
<1>11. MaskedBlocks(y, n, Value(b), u) = z
  <2>1. First(res, n) = res  BY FirstAll
  <2>2. MaskedBlocks(y, n, Value(b), u) = After(y, t, First(res, n))
    BY <1>0, <1>2, <1>3, <1>8, GotMaskedBlocks DEF t
  <2>3. QED  BY <2>1, <2>2
<1>12. z = After(r, Group(res), res)  BY <1>8
<1> HIDE DEF z
<1>13. GetMasked(r, n) =
         IF x.ok THEN IF y.ok THEN IF y.v = 0 THEN Failed(y)
                                   ELSE MaskedBlocks(y, n, y.v, x.v)
                      ELSE y
         ELSE x
  <2> DEFINE X == Get(r, 1)
             Y == Get(X, n)
  <2>1. GetMasked(r, n) =
          IF ~X.ok THEN X
          ELSE IF ~Y.ok THEN Y
          ELSE IF Y.v = 0 THEN Failed(Y)
          ELSE MaskedBlocks(Y, n, Y.v, X.v)
    BY DEF GetMasked, MaskedBlocks, Then
  <2>2. X = x /\ Y = y  BY <1>9, <1>10
  <2> HIDE DEF X, Y
  <2>3. QED  BY <2>1, <2>2
<1>14. QED  BY <1>3, <1>7, <1>8, <1>11, <1>12, <1>13

OptionalCodes(res, n) == [k \in 1..n |-> OptionalBlock(res[k])]

LEMMA GotOptionalBlocks ==
  ASSUME NEW n \in Nat, NEW res \in [1..n -> Block],
         NEW r, At(r, Joined(OptionalCodes(res, n)))
  PROVE  OptionalBlocks(r, n) = After(r, Joined(OptionalCodes(res, n)), res)
<1> DEFINE s == OptionalCodes(res, n)
           E(p) == IF p.ok THEN IF GetOptionalBlock(p).ok
                                THEN Returns(GetOptionalBlock(p),
                                             Append(p.v, GetOptionalBlock(p).v))
                                ELSE GetOptionalBlock(p)
                   ELSE p
           base == Returns(r, <<>>)
           Is(f) == f = [i \in 0..n |-> IF i = 0 THEN base ELSE E(f[i - 1])]
           c == CHOOSE f : Is(f)
<1>0. r.ok  BY DEF At
<1>1. /\ s \in [1..n -> Strings]
      /\ \A i \in 1..n : s[i] = OptionalBlock(res[i])
  BY OptionalTyped DEF OptionalCodes
<1>2. At(r, Joined(s))  OBVIOUS
<1> HIDE DEF s
<1>3. PICK g : Pieces(g, s, n, r)  BY <1>1, <1>2, PiecesAhead
<1> DEFINE h == [i \in 0..n |-> After(r, g[i], First(res, i))]
<1>4. ASSUME NEW i \in 1..n PROVE h[i] = E(h[i - 1])
  <2> DEFINE p == After(r, g[i - 1], First(res, i - 1))
             x == GetOptionalBlock(p)
  <2>1. h[i] = After(r, g[i], First(res, i)) /\ h[i - 1] = p  OBVIOUS
  <2>2. At(p, s[i])  BY <1>3, NextPiece
  <2>3. p = After(r, g[i - 1], First(res, i - 1))  OBVIOUS
  <2> HIDE DEF p, h
  <2>4. x = After(p, s[i], res[i])  BY <1>1, <2>2, GotOptionalBlock
  <2> HIDE DEF x
  <2>5. (IF p.ok THEN IF x.ok THEN Returns(x, Append(p.v, x.v)) ELSE x
         ELSE p) = After(r, g[i], First(res, i))
    BY <1>0, <1>3, <2>3, <2>4, Collected, SMTT(30)
  <2>6. E(p) = After(r, g[i], First(res, i))  BY <2>5 DEF x
  <2>7. QED  BY <2>1, <2>6
<1>5. h[0] = base
  BY <1>2, <1>3, NoneCollected
<1>6. OptionalBlocks(r, n) = c[n]
  BY DEF OptionalBlocks, GetEach, Then
<1> HIDE DEF E, base
<1>7. Is(h)
  <2>1. h = [i \in 0..n |-> h[i]]  OBVIOUS
  <2> HIDE DEF h
  <2>2. \A i \in 0..n : h[i] = IF i = 0 THEN base ELSE E(h[i - 1])
    BY <1>4, <1>5
  <2>3. QED  BY <2>1, <2>2
<1>8. Is(c)  BY <1>7
<1>9. Parallel(c, h, n)
  <2> HIDE DEF c, h
  <2>1. /\ c = [i \in 0..n |-> IF i = 0 THEN base ELSE E(c[i - 1])]
        /\ h = [i \in 0..n |-> IF i = 0 THEN base ELSE E(h[i - 1])]
    BY <1>7, <1>8
  <2>2. QED  BY <2>1 DEF Parallel
<1>10. h[n] = After(r, Joined(s), First(res, n))
  BY <1>3 DEF Pieces
<1> HIDE DEF c, h
<1>11. c[n] = h[n]  BY <1>9, Alike
<1>12. First(res, n) = res  BY FirstAll
<1>13. QED  BY <1>6, <1>10, <1>11, <1>12 DEF s

\* Whatever the levels of n blocks, and whichever of the two residual codings
\* put_residual or put_residual_sb8 chose for them:
\* decode_optional_mb_residual and decode_optional_sb8_residual return these
\* levels and stand behind their code.
THEOREM ResidualReadBack ==
  ASSUME NEW n \in 1..32, NEW res \in [1..n -> Block],
         NEW r, At(r, Residual(res))
  PROVE  GetResidual(r, n) = After(r, Residual(res), res)
<1>0. Len(res) = n /\ n \in Nat
  <2>1. n \in Nat  OBVIOUS
  <2>2. QED  BY <2>1, FunctionSeq
<1>1. 0 \in Bit /\ 1 \in Bit /\ <<0>> \in Strings /\ <<1>> \in Strings
  BY OneBit DEF Bit
<1>2. CASE \A k \in 1..n : ~Coded(res[k])
  <2> DEFINE a == After(r, <<0>>, 0)
  <2>1. Residual(res) = <<0>> /\ At(r, <<0>>)  BY <1>0, <1>2 DEF Residual
  <2>2. a.ok /\ a.v = 0 /\ \A w : Returns(a, w) = After(r, <<0>>, w)
    BY <2>1, Valued
  <2>3. Get(r, 1) = a  BY <1>1, <2>1, GotBit
  <2> HIDE DEF a
  <2>4. GetResidual(r, n) = Returns(a, [k \in 1..n |-> ZeroBlock])
    <3>1. GetResidual(r, n) =
            IF a.ok THEN IF a.v = 0 THEN Returns(a, [k \in 1..n |-> ZeroBlock])
                         ELSE IF picture.q >= 64 THEN GetMasked(a, n)
                         ELSE OptionalBlocks(a, n)
            ELSE a
      BY <2>3 DEF GetResidual, Then, OptionalBlocks
    <3>2. QED  BY <2>2, <3>1
  <2>5. res = [k \in 1..n |-> ZeroBlock]
    <3>1. \A k \in 1..n : res[k] = ZeroBlock  BY <1>2, NotCoded
    <3>2. QED  BY <3>1
  <2>6. QED  BY <2>1, <2>2, <2>4, <2>5
<1>3. CASE \E k \in 1..n : Coded(res[k])
  <2> DEFINE t == IF picture.q >= 64 THEN Group(res)
                  ELSE Joined(OptionalCodes(res, n))
             a == After(r, <<1>>, 1)
  <2>1. Residual(res) = <<1>> \o t
    BY <1>0, <1>3 DEF Residual, OptionalCodes, OptionalBlock
  <2>2. t \in Strings
    <3>1. OptionalCodes(res, n) \in [1..n -> Strings]
      BY OptionalTyped DEF OptionalCodes
    <3>2. QED  BY <1>0, <3>1, EachTyped, GroupTyped
  <2>3. picture.q >= 64 => t = Group(res)  OBVIOUS
  <2>4. ~(picture.q >= 64) => t = Joined(OptionalCodes(res, n))  OBVIOUS
  <2> HIDE DEF t
  <2>5. /\ At(r, <<1>>) /\ a.ok /\ a.v = 1 /\ At(a, t)
        /\ \A w : After(a, t, w) = After(r, <<1>> \o t, w)
    BY <1>1, <2>1, <2>2, Chained
  <2>6. Get(r, 1) = a  BY <1>1, <2>5, GotBit
  <2> HIDE DEF a
  <2>7. GetResidual(r, n) = IF picture.q >= 64 THEN GetMasked(a, n)
                            ELSE OptionalBlocks(a, n)
    <3>1. GetResidual(r, n) =
            IF a.ok THEN IF a.v = 0 THEN Returns(a, [k \in 1..n |-> ZeroBlock])
                         ELSE IF picture.q >= 64 THEN GetMasked(a, n)
                         ELSE OptionalBlocks(a, n)
            ELSE a
      BY <2>6 DEF GetResidual, Then, OptionalBlocks
    <3>2. QED  BY <2>5, <3>1
  <2>8. picture.q >= 64 => GetMasked(a, n) = After(a, t, res)
    BY <1>3, <2>3, <2>5, GotMasked
  <2>9. ~(picture.q >= 64) => OptionalBlocks(a, n) = After(a, t, res)
    BY <1>0, <2>4, <2>5, GotOptionalBlocks
  <2>10. QED  BY <2>1, <2>5, <2>7, <2>8, <2>9
<1>4. QED  BY <1>2, <1>3

-----------------------------------------------------------------------------
(* The parts of a split.                                                   *)

LEMMA GotMotion ==
  ASSUME NEW mv \in Int \X Int, NEW base, IsVector(base),
         NEW d \in Near \X Near, d = Difference(mv, base),
         NEW at, MotionValid(at.x, at.y, at.w, at.h, mv),
         NEW r, At(r, Vector(d))
  PROVE  GetMotion(r, at, base) = After(r, Vector(d), mv)
<1> DEFINE a == After(r, Vector(d), d)
<1>1. GetVector(r) = a  BY VectorReadBack
<1>2. a.ok /\ a.v = d /\ Returns(a, mv) = After(r, Vector(d), mv)
  BY Valued
<1> HIDE DEF a
<1>3. Sum2(d, base) = mv
  <2>1. mv = <<mv[1], mv[2]>> /\ mv[1] \in Int /\ mv[2] \in Int  OBVIOUS
  <2>2. d[1] = mv[1] - base[1] /\ d[2] = mv[2] - base[2]  BY DEF Difference
  <2>3. d[1] + base[1] = mv[1] /\ d[2] + base[2] = mv[2]
    BY <2>1, <2>2 DEF IsVector
  <2>4. QED  BY <2>1, <2>3 DEF Sum2
<1>4. GetMotion(r, at, base) = Checked(a, at, mv)
  BY <1>1, <1>2, <1>3 DEF GetMotion, Then
<1>5. QED  BY <1>2, <1>4 DEF Checked

\* Parts as an encoder may decide them.
StayPart == [inter : {FALSE}]
SubPart == [inter : {TRUE}, mv : Word \X Word, res : [1..SubBlocks -> Block]]
PartCode(p, mode) ==
  IF mode = "SPLIT_INTER" /\ p.inter THEN Part(p) \o Residual(p.res)
  ELSE Part(p)

\* p fits its mode, and its vector stays inside.
PartFits(p, mode, at) ==
  /\ p \in StayPart \cup IF mode = "SPLIT_INTER" THEN SubPart ELSE MovedParts
  /\ p.inter => MotionValid(at.x, at.y, at.w, at.h, p.mv)

\* The decoder knows the vector that the encoder codes against.
GlobalKnown ==
  /\ IsWords(Fallback)
  /\ (IF decoder.use_global THEN decoder.global ELSE Zero) = Fallback

LEMMA NearWords ==
  ASSUME NEW mv \in Word \X Word, NEW base, IsWords(base)
  PROVE  /\ mv \in Int \X Int /\ IsVector(base)
         /\ Difference(mv, base) \in Near \X Near
<1>1. /\ mv = <<mv[1], mv[2]>> /\ mv[1] \in Word /\ mv[2] \in Word
      /\ base[1] \in Word /\ base[2] \in Word
  BY DEF IsWords
<1>2. mv[1] - base[1] \in Near /\ mv[2] - base[2] \in Near
  <2>1. \A v \in Word : v \in Int /\ -32769 < v /\ v < 32768  BY Words
  <2>2. QED  BY <1>1, <2>1 DEF Near
<1>3. mv[1] \in Int /\ mv[2] \in Int  BY <1>1, Words
<1>4. QED  BY <1>1, <1>2, <1>3, WordsAreVector DEF Difference

LEMMA PartCodeTyped ==
  ASSUME IsWords(Fallback), NEW mode, NEW at, NEW p, PartFits(p, mode, at)
  PROVE  PartCode(p, mode) \in Strings /\ Part(p) \in Strings
<1>1. Part(p) \in Strings
  <2>1. CASE ~p.inter
    <3>1. Part(p) = <<0>>  BY <2>1 DEF Part
    <3>2. QED  BY <3>1, OneBit DEF Bit
  <2>2. CASE p.inter
    <3>1. p.mv \in Word \X Word
      BY <2>2 DEF PartFits, StayPart, SubPart, MovedParts
    <3>2. Difference(p.mv, Fallback) \in Near \X Near  BY <3>1, NearWords
    <3>3. Vector(Difference(p.mv, Fallback)) \in Strings
      BY <3>2, VectorTyped
    <3>4. Part(p) = <<1>> \o Vector(Difference(p.mv, Fallback))
      BY <2>2 DEF Part
    <3>5. QED  BY <3>3, <3>4, OneBit, Concat DEF Bit
  <2>3. QED  BY <2>1, <2>2
<1>2. CASE mode = "SPLIT_INTER" /\ p.inter
  <2>1. p.res \in [1..SubBlocks -> Block]
    BY <1>2 DEF PartFits, StayPart, SubPart
  <2>2. Residual(p.res) \in Strings  BY <2>1, ResidualTyped DEF SubBlocks
  <2>3. QED  BY <1>1, <1>2, <2>2, Concat DEF PartCode
<1>3. CASE ~(mode = "SPLIT_INTER" /\ p.inter)
  BY <1>1, <1>3 DEF PartCode
<1>4. QED  BY <1>2, <1>3

LEMMA GotPart ==
  ASSUME GlobalKnown, NEW mode, NEW at, NEW p, PartFits(p, mode, at),
         NEW r, At(r, PartCode(p, mode))
  PROVE  GetPart(r, mode, at) = After(r, PartCode(p, mode), p)
<1> DEFINE base == IF decoder.use_global THEN decoder.global ELSE Zero
           inter == Get(r, 1)
           mv == GetMotion(inter, at, base)
           res == GetResidual(mv, SubBlocks)
           stay == [inter |-> FALSE]
           moved == [inter |-> TRUE, mv |-> mv.v]
           both == [inter |-> TRUE, mv |-> mv.v, res |-> res.v]
<1>0. base = Fallback /\ IsWords(Fallback)  BY DEF GlobalKnown
<1>1. GetPart(r, mode, at) =
        IF ~inter.ok THEN inter
        ELSE IF inter.v = 0 THEN Returns(inter, stay)
        ELSE IF ~mv.ok THEN mv
        ELSE IF mode # "SPLIT_INTER" THEN Returns(mv, moved)
        ELSE IF ~res.ok THEN res ELSE Returns(res, both)
  BY DEF GetPart, Then
<1>2. 0 \in Bit /\ 1 \in Bit /\ <<0>> \in Strings /\ <<1>> \in Strings
  BY OneBit DEF Bit
<1>3. CASE ~p.inter
  <2> DEFINE a == After(r, <<0>>, 0)
  <2>1. PartCode(p, mode) = <<0>> /\ At(r, <<0>>)
    BY <1>3 DEF PartCode, Part
  <2>2. a.ok /\ a.v = 0 /\ Returns(a, p) = After(r, <<0>>, p)
    BY <2>1, Valued
  <2>3. inter = a  BY <1>2, <2>1, GotBit
  <2>4. p = stay
    BY <1>3 DEF PartFits, StayPart, SubPart, MovedParts
  <2> HIDE DEF a, inter, stay
  <2>5. QED  BY <1>1, <2>1, <2>2, <2>3, <2>4
<1>4. CASE p.inter
  <2> DEFINE d == Difference(p.mv, Fallback)
             s == Vector(d)
             a == After(r, <<1>>, 1)
             b == After(a, s, p.mv)
  <2>1. p.mv \in Word \X Word
    BY <1>4 DEF PartFits, StayPart, SubPart, MovedParts
  <2>2. p.mv \in Int \X Int /\ IsVector(Fallback) /\ d \in Near \X Near
    BY <1>0, <2>1, NearWords
  <2>3. Part(p) = <<1>> \o s  BY <1>4 DEF Part
  <2>4. d = Difference(p.mv, Fallback)  OBVIOUS
  <2>5. MotionValid(at.x, at.y, at.w, at.h, p.mv)  BY <1>4 DEF PartFits
  <2> HIDE DEF d
  <2>6. s \in Strings  BY <2>2, VectorTyped
  <2>7. At(r, Part(p))
    <3>1. CASE mode = "SPLIT_INTER"
      <4>1. PartCode(p, mode) = Part(p) \o Residual(p.res)
        BY <1>4, <3>1 DEF PartCode
      <4>2. p.res \in [1..SubBlocks -> Block]
        BY <1>4, <3>1 DEF PartFits, StayPart, SubPart
      <4>3. Part(p) \in Strings /\ Residual(p.res) \in Strings
        BY <1>0, <4>2, PartCodeTyped, ResidualTyped DEF SubBlocks
      <4>4. QED  BY <4>1, <4>3, Parted
    <3>2. CASE mode # "SPLIT_INTER"
      BY <3>2 DEF PartCode
    <3>3. QED  BY <3>1, <3>2
  <2> HIDE DEF s
  <2>8. /\ At(r, <<1>>) /\ a.ok /\ a.v = 1 /\ At(a, s)
        /\ \A w : After(a, s, w) = After(r, Part(p), w)
    BY <1>2, <2>3, <2>6, <2>7, Chained
  <2>9. inter = a  BY <1>2, <2>8, GotBit
  <2> HIDE DEF a, base
  <2>10. GetMotion(a, at, Fallback) = b  BY <2>2, <2>4, <2>5, <2>8, GotMotion DEF s
  <2>11. b = After(r, Part(p), p.mv)  BY <2>8
  <2>12. mv = b  BY <1>0, <2>9, <2>10
  <2>13. b.ok /\ b.v = p.mv /\ \A w : Returns(b, w) = After(r, Part(p), w)
    BY <2>7, <2>11, Valued
  <2> HIDE DEF b, inter, mv
  <2>14. CASE mode # "SPLIT_INTER"
    <3>1. p = [inter |-> TRUE, mv |-> p.mv]
      BY <1>4, <2>14 DEF PartFits, StayPart, MovedParts
    <3>2. GetPart(r, mode, at) = Returns(mv, moved)
      <4> HIDE DEF stay, both, moved, res
      <4>1. inter.ok /\ ~(inter.v = 0) /\ mv.ok  BY <2>8, <2>9, <2>12, <2>13
      <4>2. QED  BY <1>1, <2>14, <4>1
    <3>3. moved = p  BY <2>12, <2>13, <3>1
    <3>4. Part(p) = PartCode(p, mode)  BY <2>14 DEF PartCode
    <3>5. QED  BY <2>12, <2>13, <3>2, <3>3, <3>4
  <2>15. CASE mode = "SPLIT_INTER"
    <3> DEFINE t == Residual(p.res)
               c == After(b, t, p.res)
    <3>1. p = [inter |-> TRUE, mv |-> p.mv, res |-> p.res]
          /\ p.res \in [1..SubBlocks -> Block]
      BY <1>4, <2>15 DEF PartFits, StayPart, SubPart
    <3>2. PartCode(p, mode) = Part(p) \o t  BY <1>4, <2>15 DEF PartCode
    <3>3. Part(p) \in Strings /\ t \in Strings
      BY <1>0, <3>1, PartCodeTyped, ResidualTyped DEF SubBlocks
    <3>4. /\ At(b, t)
          /\ \A w : After(b, t, w) = After(r, PartCode(p, mode), w)
      BY <2>11, <3>2, <3>3, Chained
    <3>5. GetResidual(b, SubBlocks) = c
      <4>1. SubBlocks \in 1..32  BY DEF SubBlocks
      <4>2. QED  BY <3>1, <3>4, <4>1, ResidualReadBack
    <3> HIDE DEF t
    <3>6. c.ok /\ c.v = p.res /\ \A w : Returns(c, w) = After(b, t, w)
      BY <3>4, Valued
    <3>7. res = c  BY <2>12, <3>5
    <3> HIDE DEF c, res
    <3>8. both = p  BY <2>12, <2>13, <3>1, <3>6, <3>7
    <3>9. GetPart(r, mode, at) = Returns(res, both)
      <4> HIDE DEF stay, both, moved
      <4>1. inter.ok /\ ~(inter.v = 0) /\ mv.ok /\ res.ok
        BY <2>8, <2>9, <2>12, <2>13, <3>6, <3>7
      <4>2. QED  BY <1>1, <2>15, <4>1
    <3>10. QED  BY <3>4, <3>6, <3>7, <3>8, <3>9
  <2>16. QED  BY <2>14, <2>15
<1>5. QED
  <2>1. p.inter \in BOOLEAN
    BY DEF PartFits, StayPart, SubPart, MovedParts
  <2>2. QED  BY <1>3, <1>4

PartCodes(parts, n, mode) == [k \in 1..n |-> PartCode(parts[k], mode)]
PartsFit(m, parts, n, x, y) ==
  \A k \in 1..n : PartFits(parts[k], m.mode, PartAt(m, k, x, y))

LEMMA PartCodesTyped ==
  ASSUME IsWords(Fallback), NEW m, NEW n \in Nat, NEW parts, NEW x, NEW y,
         PartsFit(m, parts, n, x, y)
  PROVE  /\ PartCodes(parts, n, m.mode) \in [1..n -> Strings]
         /\ Joined(PartCodes(parts, n, m.mode)) \in Strings
<1>1. ASSUME NEW k \in 1..n PROVE PartCode(parts[k], m.mode) \in Strings
  <2>1. PartFits(parts[k], m.mode, PartAt(m, k, x, y))  BY DEF PartsFit
  <2>2. QED  BY <2>1, PartCodeTyped
<1>2. PartCodes(parts, n, m.mode) \in [1..n -> Strings]
  BY <1>1 DEF PartCodes
<1>3. QED  BY <1>2, EachTyped

LEMMA GotEachPart ==
  ASSUME GlobalKnown, NEW m, NEW n \in Nat, NEW parts, First(parts, n) = parts,
         NEW x, NEW y, PartsFit(m, parts, n, x, y),
         NEW r, At(r, Joined(PartCodes(parts, n, m.mode)))
  PROVE  EachPart(r, m, n, x, y) =
           After(r, Joined(PartCodes(parts, n, m.mode)), parts)
<1> DEFINE s == PartCodes(parts, n, m.mode)
           Item(a, i) == GetPart(a, m.mode, PartAt(m, i, x, y))
           E(p, i) == IF p.ok THEN IF Item(p, i).ok
                                   THEN Returns(Item(p, i),
                                          Append(p.v, Item(p, i).v))
                                   ELSE Item(p, i)
                      ELSE p
           base == Returns(r, <<>>)
           Is(f) == f = [i \in 0..n |-> IF i = 0 THEN base ELSE E(f[i - 1], i)]
           c == CHOOSE f : Is(f)
<1>0. r.ok /\ IsWords(Fallback)  BY DEF At, GlobalKnown
<1>1. s \in [1..n -> Strings]  BY <1>0, PartCodesTyped
<1>2. At(r, Joined(s)) /\ \A i \in 1..n : s[i] = PartCode(parts[i], m.mode)
  BY DEF PartCodes
<1> HIDE DEF s
<1>3. PICK g : Pieces(g, s, n, r)  BY <1>1, <1>2, PiecesAhead
<1> DEFINE h == [i \in 0..n |-> After(r, g[i], First(parts, i))]
<1>4. ASSUME NEW i \in 1..n PROVE h[i] = E(h[i - 1], i)
  <2> DEFINE p == After(r, g[i - 1], First(parts, i - 1))
             q == Item(p, i)
  <2>1. h[i] = After(r, g[i], First(parts, i)) /\ h[i - 1] = p  OBVIOUS
  <2>2. At(p, s[i])  BY <1>3, NextPiece
  <2>3. p = After(r, g[i - 1], First(parts, i - 1))  OBVIOUS
  <2> HIDE DEF p, h
  <2>4. q = After(p, s[i], parts[i])
    <3>1. PartFits(parts[i], m.mode, PartAt(m, i, x, y))  BY DEF PartsFit
    <3>2. QED  BY <1>2, <2>2, <3>1, GotPart
  <2> HIDE DEF q
  <2>5. (IF p.ok THEN IF q.ok THEN Returns(q, Append(p.v, q.v)) ELSE q
         ELSE p) = After(r, g[i], First(parts, i))
    BY <1>0, <1>3, <2>3, <2>4, Collected, SMTT(30)
  <2> HIDE DEF Item
  <2>6. E(p, i) = After(r, g[i], First(parts, i))  BY <2>5 DEF q
  <2>7. QED  BY <2>1, <2>6
<1>5. h[0] = base
  BY <1>2, <1>3, NoneCollected
<1>6. EachPart(r, m, n, x, y) = c[n]
  BY DEF EachPart, GetEach, Then
<1> HIDE DEF E, base
<1>7. Is(h)
  <2>1. h = [i \in 0..n |-> h[i]]  OBVIOUS
  <2> HIDE DEF h
  <2>2. \A i \in 0..n : h[i] = IF i = 0 THEN base ELSE E(h[i - 1], i)
    BY <1>4, <1>5
  <2>3. QED  BY <2>1, <2>2
<1>8. Is(c)  BY <1>7
<1>9. Parallel(c, h, n)
  <2> HIDE DEF c, h
  <2>1. /\ c = [i \in 0..n |-> IF i = 0 THEN base ELSE E(c[i - 1], i)]
        /\ h = [i \in 0..n |-> IF i = 0 THEN base ELSE E(h[i - 1], i)]
    BY <1>7, <1>8
  <2>2. QED  BY <2>1 DEF Parallel
<1>10. h[n] = After(r, Joined(s), First(parts, n))
  BY <1>3 DEF Pieces
<1> HIDE DEF c, h
<1>11. c[n] = h[n]  BY <1>9, Alike
<1>12. First(parts, n) = parts  OBVIOUS
<1>13. QED  BY <1>6, <1>10, <1>11, <1>12 DEF s

LEMMA GotParts ==
  ASSUME GlobalKnown, NEW m, NEW n \in Nat, NEW parts, First(parts, n) = parts,
         NEW x, NEW y, PartsFit(m, parts, n, x, y),
         NEW r, At(r, Joined(PartCodes(parts, n, m.mode)))
  PROVE  GetParts(r, m, n, x, y) =
           After(r, Joined(PartCodes(parts, n, m.mode)),
                 Extended(m, "parts", parts))
<1> DEFINE each == EachPart(r, m, n, x, y)
           s == Joined(PartCodes(parts, n, m.mode))
           a == After(r, s, parts)
<1>1. GetParts(r, m, n, x, y)
        = IF each.ok THEN Returns(each, Extended(m, "parts", each.v)) ELSE each
  BY DEF GetParts, EachPart, Then
<1>2. each = a  BY GotEachPart
<1>3. At(r, s)  OBVIOUS
<1> HIDE DEF each, s
<1>4. a.ok /\ a.v = parts /\ \A w : Returns(a, w) = After(r, s, w)
  BY <1>3, Valued
<1> HIDE DEF a
<1>5. QED  BY <1>1, <1>2, <1>4 DEF s

\* What a residual adds to a macroblock.
LEMMA GotWithResidual ==
  ASSUME NEW m, NEW res \in [1..Blocks -> Block], NEW r, r.ok, r.v = m,
         At(r, Residual(res))
  PROVE  WithResidual(r) = After(r, Residual(res), Extended(m, "res", res))
<1> DEFINE x == GetResidual(r, Blocks)
           s == Residual(res)
           a == After(r, s, res)
<1>1. WithResidual(r) = IF ~r.ok THEN r
                        ELSE IF x.ok THEN Returns(x, Extended(r.v, "res", x.v))
                        ELSE x
  BY DEF WithResidual, Then
<1>2. x = a
  <2>1. Blocks \in 1..32  BY DEF Blocks
  <2>2. QED  BY <2>1, ResidualReadBack
<1>3. At(r, s)  OBVIOUS
<1> HIDE DEF x, s
<1>4. a.ok /\ a.v = res /\ \A w : Returns(a, w) = After(r, s, w)
  BY <1>3, Valued
<1> HIDE DEF a
<1>5. QED  BY <1>1, <1>2, <1>4 DEF s

\* Records with one more field.
LEMMA Fields ==
  ASSUME NEW a, NEW b
  PROVE  /\ Extended([mode |-> a], "parts", b) = [mode |-> a, parts |-> b]
         /\ Extended([mode |-> a], "res", b) = [mode |-> a, res |-> b]
BY DEF Extended

LEMMA FieldVertical ==
  ASSUME NEW a, NEW b, NEW c
  PROVE  Extended([mode |-> a, vertical |-> b], "parts", c)
           = [mode |-> a, vertical |-> b, parts |-> c]
BY DEF Extended

LEMMA FieldInter ==
  ASSUME NEW a, NEW b, NEW c
  PROVE  Extended([mode |-> a, mv |-> b], "res", c)
           = [mode |-> a, mv |-> b, res |-> c]
BY DEF Extended

LEMMA FieldIntra ==
  ASSUME NEW a, NEW b, NEW c
  PROVE  Extended([mode |-> a, intra_mode |-> b], "res", c)
           = [mode |-> a, intra_mode |-> b, res |-> c]
BY DEF Extended

LEMMA FieldPlanes ==
  ASSUME NEW a, NEW b, NEW c
  PROVE  Extended([mode |-> a, planes |-> b], "res", c)
           = [mode |-> a, planes |-> b, res |-> c]
BY DEF Extended

LEMMA FieldJoint ==
  ASSUME NEW a, NEW b, NEW c
  PROVE  Extended([mode |-> a, parts |-> b], "res", c)
           = [mode |-> a, parts |-> b, res |-> c]
BY DEF Extended

LEMMA FieldRect ==
  ASSUME NEW a, NEW b, NEW c, NEW d
  PROVE  Extended([mode |-> a, vertical |-> b, parts |-> c], "res", d)
           = [mode |-> a, vertical |-> b, parts |-> c, res |-> d]
BY DEF Extended

-----------------------------------------------------------------------------
(* Bytes and the rows packed into them.                                    *)

LowBytes(values, n) == [i \in 1..n |-> values[i] % 256]

LEMMA GotBytes ==
  ASSUME NEW n \in Nat, NEW values \in [1..n -> Int], NEW r, At(r, Bytes(values))
  PROVE  GetNumbers(r, n, 8) = After(r, Bytes(values), LowBytes(values, n))
<1> DEFINE v == LowBytes(values, n)
<1>1. Len(values) = n  BY FunctionSeq
<1>2. Bytes(values) = Joined(NumberCodes(v, n, 8))
  BY <1>1 DEF Bytes, NumberCodes, LowBytes
<1>3. \A i \in 1..n : v[i] \in Nat /\ v[i] < 2^8
  <2>1. 2^8 = 256  OBVIOUS
  <2>2. ASSUME NEW i \in 1..n PROVE v[i] \in Nat /\ v[i] < 256
    <3>1. values[i] \in Int /\ v[i] = values[i] % 256  BY DEF LowBytes
    <3>2. QED  BY <3>1
  <2>3. QED  BY <2>1, <2>2
<1>4. v \in [1..n -> Nat]  BY <1>3 DEF LowBytes
<1> HIDE DEF v
<1>5. At(r, Joined(NumberCodes(v, n, 8))) /\ 8 \in 0..32  BY <1>2
<1>6. GetNumbers(r, n, 8)
        = After(r, Joined(NumberCodes(v, n, 8)), First(v, n))
  BY <1>3, <1>5, GotNumbers
<1>7. First(v, n) = v  BY <1>4, FirstAll
<1>8. QED  BY <1>2, <1>6, <1>7 DEF v

\* Whatever the bits: the value of n bytes.
ByteAt(r, j) == SubSeq(r.bits, r.at + 8 * (j - 1) + 1, r.at + 8 * (j - 1) + 8)

LEMMA GotChunks ==
  ASSUME NEW n \in Nat, NEW s, Len(s) = 8 * n, NEW r, At(r, s)
  PROVE  GetNumbers(r, n, 8) =
           After(r, s, [j \in 1..n |-> Value(ByteAt(r, j))])
<1> DEFINE v == [j \in 1..n |-> Value(ByteAt(r, j))]
           E(p) == IF p.ok THEN IF Get(p, 8).ok
                                THEN Returns(Get(p, 8), Append(p.v, Get(p, 8).v))
                                ELSE Get(p, 8)
                   ELSE p
           base == Returns(r, <<>>)
           Is(f) == f = [i \in 0..n |-> IF i = 0 THEN base ELSE E(f[i - 1])]
           c == CHOOSE f : Is(f)
           here(i, w) == [bits |-> r.bits, at |-> r.at + 8 * i, v |-> w, ok |-> r.ok]
           h == [i \in 0..n |-> here(i, First(v, i))]
<1>0. /\ r.ok /\ IsReader(r) /\ r.at \in Nat /\ r.bits \in Seq(Bit)
      /\ r.at + 8 * n <= Len(r.bits)
  BY DEF At, Strings
<1>1. ASSUME NEW i \in 0..n, NEW w
      PROVE  /\ IsReader(here(i, w)) /\ here(i, w).ok
             /\ here(i, w).at = r.at + 8 * i /\ here(i, w).v = w
             /\ here(i, w).bits = r.bits
  BY <1>0 DEF IsReader
<1>2. ASSUME NEW i \in 1..n
      PROVE  E(here(i - 1, First(v, i - 1))) = here(i, First(v, i))
  <2> DEFINE p == here(i - 1, First(v, i - 1))
             x == Get(p, 8)
  <2>0. i - 1 \in 0..n  OBVIOUS
  <2>1. /\ IsReader(p) /\ p.ok /\ p.at = r.at + 8 * (i - 1)
        /\ p.v = First(v, i - 1) /\ p.bits = r.bits
    BY <1>1, <2>0
  <2>2. v[i] = Value(SubSeq(r.bits, r.at + 8 * (i - 1) + 1, r.at + 8 * (i - 1) + 8))
    BY DEF ByteAt
  <2>3. Append(First(v, i - 1), v[i]) = First(v, i)  BY FirstNext
  <2> HIDE DEF p, v
  <2>4. ~(8 > Left(p))
    <3>1. r.at + 8 * (i - 1) + 8 <= Len(r.bits) /\ Len(r.bits) \in Nat  BY <1>0
    <3>2. QED  BY <1>0, <2>1, <3>1 DEF Left
  <2>5. x = [p EXCEPT !.at = @ + 8, !.v = v[i]]
    BY <2>1, <2>2, <2>4 DEF Get
  <2>6. x = [bits |-> p.bits, at |-> p.at + 8, v |-> v[i], ok |-> p.ok]
    BY <2>1, <2>5, Updated
  <2>7. p.at + 8 = r.at + 8 * i  BY <1>0, <2>1
  <2>8. x = here(i, v[i])  BY <1>0, <2>1, <2>6, <2>7
  <2> HIDE DEF x, here
  <2>9. i \in 0..n  OBVIOUS
  <2>10. x.ok /\ x.v = v[i] /\ IsReader(x) /\ x.bits = r.bits
         /\ x.at = r.at + 8 * i
    BY <1>1, <2>8, <2>9
  <2>11. Returns(x, First(v, i)) = here(i, First(v, i))
    <3>1. Returns(x, First(v, i)) =
            [bits |-> x.bits, at |-> x.at, v |-> First(v, i), ok |-> x.ok]
      BY <2>10, Updated
    <3>2. QED  BY <1>0, <2>10, <3>1 DEF here
  <2>12. E(p) = Returns(x, Append(p.v, x.v))  BY <2>1, <2>10 DEF x
  <2>13. E(p) = here(i, First(v, i))  BY <2>1, <2>3, <2>10, <2>11, <2>12
  <2>14. QED  BY <2>13 DEF p
<1>3. h[0] = base
  <2>1. r.at + 8 * 0 = r.at /\ First(v, 0) = <<>>  BY <1>0 DEF First
  <2>2. base = [bits |-> r.bits, at |-> r.at, v |-> <<>>, ok |-> r.ok]
    BY <1>0, Updated
  <2>3. 0 \in 0..n  OBVIOUS
  <2> HIDE DEF v, base
  <2>4. QED  BY <2>1, <2>2, <2>3
<1>4. GetNumbers(r, n, 8) = c[n]
  BY DEF GetNumbers, GetEach, Then
<1>5. ASSUME NEW i \in 1..n PROVE h[i] = E(h[i - 1])
  <2>1. i \in 0..n /\ i - 1 \in 0..n  OBVIOUS
  <2> HIDE DEF E, v, here
  <2>2. h[i] = here(i, First(v, i)) /\ h[i - 1] = here(i - 1, First(v, i - 1))
    BY <2>1
  <2> HIDE DEF h
  <2>3. QED  BY <1>2, <2>2
<1> HIDE DEF E, base, v, here
<1>6. Is(h)
  <2>1. h = [i \in 0..n |-> h[i]]  OBVIOUS
  <2> HIDE DEF h
  <2>2. \A i \in 0..n : h[i] = IF i = 0 THEN base ELSE E(h[i - 1])
    BY <1>3, <1>5
  <2>3. QED  BY <2>1, <2>2
<1>7. Is(c)  BY <1>6
<1>8. Parallel(c, h, n)
  <2> HIDE DEF c, h
  <2>1. /\ c = [i \in 0..n |-> IF i = 0 THEN base ELSE E(c[i - 1])]
        /\ h = [i \in 0..n |-> IF i = 0 THEN base ELSE E(h[i - 1])]
    BY <1>6, <1>7
  <2>2. QED  BY <2>1 DEF Parallel
<1>9. h[n] = After(r, s, v)
  <2>1. First(v, n) = v  BY DEF First, v
  <2>2. n \in 0..n  OBVIOUS
  <2>3. QED  BY <2>1, <2>2 DEF After, here
<1> HIDE DEF c, h
<1>10. c[n] = h[n]  BY <1>8, Alike
<1>11. QED  BY <1>4, <1>9, <1>10 DEF v

\* The bytes of a row, and bit k of what was packed.
RowBytes(r, n) == [j \in 1..((Samples * n + 7) \div 8) |-> Value(ByteAt(r, j))]

LEMMA Unpacked ==
  ASSUME NEW n \in {6, 7}, NEW row \in [1..Samples -> Int],
         NEW r, At(r, LiteralRow(row, n)),
         NEW k \in Nat, k < n * Samples
  PROVE  UnpackedBit(RowBytes(r, n), k) = PackedBit(row, n, k)
<1> DEFINE s == LiteralRow(row, n)
           bytes == (Samples * n + 7) \div 8
           q == k \div 8
           e == k % 8
           j == q + 1
           b == ByteAt(r, j)
           i == 8 - e
           v == RowBytes(r, n)
<1>0. Samples \in Nat /\ Len(row) = Samples
  <2>1. Samples \in Nat  BY PictureAssumption
  <2>2. QED  BY <2>1, FunctionSeq
<1>1. /\ q \in Nat /\ e \in 0..7 /\ k = 8 * q + e
      /\ j \in 1..bytes /\ bytes \in Nat
  <2>1. q \in Nat /\ e \in 0..7 /\ k = 8 * q + e  OBVIOUS
  <2>2. k < Samples * n  
    <3>1. CASE n = 6  BY <1>0, <3>1
    <3>2. CASE n = 7  BY <1>0, <3>2
    <3>3. QED  BY <3>1, <3>2
  <2>3. Samples * n \in Nat
    <3>1. CASE n = 6  BY <1>0, <3>1
    <3>2. CASE n = 7  BY <1>0, <3>2
    <3>3. QED  BY <3>1, <3>2
  <2> DEFINE t == Samples * n
  <2> HIDE DEF t, q, e
  <2>4. t \in Nat /\ k < t  BY <2>2, <2>3 DEF t
  <2>5. 8 * q + e < t  BY <2>1, <2>4
  <2>6. q + 1 \in 1..((t + 7) \div 8) /\ (t + 7) \div 8 \in Nat
    BY <2>1, <2>4, <2>5
  <2>7. QED  BY <2>1, <2>6 DEF t
<1>2. s = [m \in 1..(8 * bytes) |->
             PackedBit(row, n, 8 * ((m - 1) \div 8) + 7 - ((m - 1) % 8))]
  BY <1>0 DEF LiteralRow
<1>3. s \in Seq(Bit) /\ Len(s) = 8 * bytes
  <2>1. s \in Seq(Bit)  BY RowTyped DEF Strings
  <2>2. 8 * bytes \in Nat  BY <1>1
  <2> HIDE DEF s, bytes
  <2>3. DOMAIN s = 1..(8 * bytes)  BY <1>2
  <2>4. QED  BY <2>1, <2>2, <2>3
<1>4. /\ r.bits \in Seq(Bit) /\ r.at \in Nat /\ r.at + Len(s) <= Len(r.bits)
      /\ \A m \in 1..Len(s) : r.bits[r.at + m] = s[m]
  BY DEF At, Strings
<1> HIDE DEF s, bytes, q, e
<1>5. /\ b \in Strings /\ Len(b) = 8
      /\ \A m \in 1..8 : b[m] = s[8 * q + m]
  <2> DEFINE f == r.at + 8 * q
  <2>1. b = SubSeq(r.bits, f + 1, f + 8)
    <3>1. j - 1 = q  BY <1>1
    <3>2. QED  BY <3>1 DEF ByteAt
  <2> DEFINE g == r.at
             l == Len(s)
             u == Len(r.bits)
  <2>0. /\ q \in Nat /\ bytes \in Nat /\ q + 1 <= bytes /\ g \in Nat
        /\ l = 8 * bytes /\ u \in Nat /\ g + l <= u
    BY <1>1, <1>3, <1>4
  <2> HIDE DEF g, l, u
  <2>2. f \in Nat /\ f + 8 <= Len(r.bits) /\ Len(r.bits) \in Nat
    <3>1. g + 8 * q \in Nat /\ (g + 8 * q) + 8 <= u  BY <2>0
    <3>2. QED  BY <2>0, <3>1 DEF g, u
  <2>3. \A m \in 1..8 : r.bits[f + m] = s[8 * q + m]
    <3>1. ASSUME NEW m \in 1..8 PROVE r.bits[f + m] = s[8 * q + m]
      <4>1. 8 * q + m \in 1..l /\ (g + 8 * q) + m = g + (8 * q + m)
        BY <2>0
      <4>2. 8 * q + m \in 1..Len(s) /\ f + m = r.at + (8 * q + m)
        BY <4>1 DEF g, l
      <4>3. QED  BY <1>4, <4>2
    <3>2. QED  BY <3>1
  <2> HIDE DEF f, b
  <2>4. b \in Seq(Bit) /\ Len(b) = 8 /\ \A m \in 1..8 : b[m] = r.bits[f + m]
    BY <1>4, <2>1, <2>2
  <2>5. QED  BY <2>3, <2>4 DEF Strings
<1>6. UnpackedBit(v, k) = b[i]
  <2>1. UnpackedBit(v, k) = (v[j] \div 2^e) % 2
    BY DEF UnpackedBit, q, e
  <2>2. v[j] = Value(b)
    <3>1. v = [m \in 1..bytes |-> Value(ByteAt(r, m))]
      BY DEF bytes, RowBytes
    <3>2. QED  BY <1>1, <3>1
  <2> HIDE DEF b
  <2>3. i \in 1..Len(b) /\ Len(b) - i = e /\ Len(b) \in 0..32  BY <1>1, <1>5
  <2> HIDE DEF i, j
  <2>4. (Value(b) \div 2^(Len(b) - i)) % 2 = b[i]  BY <1>5, <2>3, ValueBit
  <2>5. QED  BY <2>1, <2>2, <2>3, <2>4
<1>7. b[i] = PackedBit(row, n, k)
  <2> DEFINE m == 8 * q + i
  <2>0. q \in Nat /\ e \in 0..7 /\ bytes \in Nat /\ q + 1 <= bytes
        /\ i \in 1..8
    BY <1>1
  <2>1. b[i] = s[m]
    <3> HIDE DEF i, b
    <3>1. QED  BY <1>5, <2>0
  <2>2. m \in 1..(8 * bytes)  BY <2>0
  <2>3. s[m] = PackedBit(row, n, 8 * ((m - 1) \div 8) + 7 - ((m - 1) % 8))
    BY <1>2, <2>2
  <2>4. (m - 1) \div 8 = q /\ (m - 1) % 8 = 7 - e  BY <1>1
  <2>5. 8 * q + 7 - (7 - e) = k  BY <1>1
  <2> HIDE DEF m
  <2>6. QED  BY <2>1, <2>3, <2>4, <2>5
<1>8. QED  BY <1>6, <1>7

\* put_literal_row and read_literal_unpacked_row.
LEMMA GotLiteralRow ==
  ASSUME NEW n \in {6, 7}, NEW row \in [1..Samples -> 0..(2^n - 1)],
         NEW r, At(r, LiteralRow(row, n))
  PROVE  GetLiteralRow(r, Samples, n) = After(r, LiteralRow(row, n), row)
<1> DEFINE s == LiteralRow(row, n)
           bytes == (Samples * n + 7) \div 8
           v == RowBytes(r, n)
           x == GetNumbers(r, bytes, 8)
           a == After(r, s, v)
           bit(w, i, b) == UnpackedBit(w, n * (i - 1) + n - b)
           out(w) == [i \in 1..Samples |-> Value([b \in 1..n |-> bit(w, i, b)])]
<1>0. Samples \in Nat /\ row \in [1..Samples -> Int] /\ Len(row) = Samples
      /\ \A i \in 1..Samples : row[i] \in Nat /\ row[i] < 2^n
      /\ n \in 0..32 /\ n \in Nat
  <2>1. Samples \in Nat  BY PictureAssumption
  <2>2. n \in 0..32 /\ 2^n \in Nat
    <3>1. n \in 0..32  OBVIOUS
    <3>2. QED  BY <3>1, Powers
  <2> DEFINE p == 2^n
  <2> HIDE DEF p
  <2>3. p \in Nat  BY <2>2 DEF p
  <2>4. row \in [1..Samples -> 0..(p - 1)]  BY DEF p
  <2>5. \A i \in 1..Samples : row[i] \in Nat /\ row[i] < p  BY <2>3, <2>4
  <2>6. 0..(p - 1) \subseteq Int  OBVIOUS
  <2>7. row \in [1..Samples -> Int]  BY <2>4, <2>6
  <2>8. QED  BY <2>1, <2>2, <2>5, <2>7, FunctionSeq DEF p
<1>1. Len(s) = 8 * bytes /\ bytes \in Nat
  <2>1. s \in Seq(Bit)  BY <1>0, RowTyped DEF Strings
  <2>2. bytes \in Nat
    <3>1. CASE n = 6  BY <1>0, <3>1
    <3>2. CASE n = 7  BY <1>0, <3>2
    <3>3. QED  BY <3>1, <3>2
  <2>3. s = [m \in 1..(8 * bytes) |->
               PackedBit(row, n, 8 * ((m - 1) \div 8) + 7 - ((m - 1) % 8))]
    BY <1>0 DEF LiteralRow
  <2> HIDE DEF s, bytes
  <2>4. DOMAIN s = 1..(8 * bytes) /\ 8 * bytes \in Nat  BY <2>2, <2>3
  <2>5. QED  BY <2>1, <2>2, <2>4
<1>2. At(r, s)  OBVIOUS
<1>3. x = a
  <2>1. v = [j \in 1..bytes |-> Value(ByteAt(r, j))]  BY DEF RowBytes
  <2> HIDE DEF s, bytes, v
  <2>2. QED  BY <1>1, <1>2, <2>1, GotChunks
<1>4. a.ok /\ a.v = v /\ \A w : Returns(a, w) = After(r, s, w)
  <2> HIDE DEF s, v
  <2>1. QED  BY <1>2, Valued
<1>5. GetLiteralRow(r, Samples, n) = IF x.ok THEN Returns(x, out(x.v)) ELSE x
  BY DEF GetLiteralRow, Then
<1>6. out(v) = row
  <2>1. ASSUME NEW i \in 1..Samples
        PROVE  Value([b \in 1..n |-> bit(v, i, b)]) = row[i]
    <3> DEFINE y == row[i]
    <3>1. y \in Nat /\ y < 2^n  BY <1>0
    <3>2. ASSUME NEW b \in 1..n PROVE bit(v, i, b) = (y \div 2^(n - b)) % 2
      <4> DEFINE k == n * (i - 1) + n - b
      <4>1. k \in Nat /\ k < n * Samples /\ k \div n = i - 1 /\ k % n = n - b
        <5>1. CASE n = 6  BY <1>0, <5>1
        <5>2. CASE n = 7  BY <1>0, <5>2
        <5>3. QED  BY <5>1, <5>2
      <4> HIDE DEF k
      <4>2. UnpackedBit(v, k) = PackedBit(row, n, k)
        <5>1. /\ row \in [1..Samples -> Int] /\ At(r, LiteralRow(row, n))
              /\ k \in Nat /\ k < n * Samples
          BY <1>0, <1>2, <4>1
        <5>2. QED  BY <5>1, Unpacked DEF v
      <4>3. PackedBit(row, n, k) = (row[(i - 1) + 1] \div 2^(n - b)) % 2
        BY <1>0, <4>1 DEF PackedBit
      <4>4. (i - 1) + 1 = i  BY <1>0
      <4>5. QED  BY <4>2, <4>3, <4>4 DEF k
    <3> HIDE DEF bit, v
    <3>3. [b \in 1..n |-> bit(v, i, b)] = Bits(y, n)
      BY <3>2 DEF Bits
    <3> DEFINE p == 2^n
    <3> HIDE DEF y
    <3>4. Value(Bits(y, n)) = y - p * (y \div p)  BY <1>0, <3>1, BitsValue
    <3>5. p \in Nat \ {0}  BY <1>0, Powers
    <3>6. y < p  BY <3>1
    <3> HIDE DEF p
    <3>7. y \div p = 0 /\ p * 0 = 0
      <4>1. y = 0 * p + y /\ y \in 0..(p - 1)  BY <3>1, <3>5, <3>6
      <4>2. y \div p = 0  BY <3>1, <3>5, <4>1, Z3
      <4>3. QED  BY <3>5, <4>2
    <3>8. Value(Bits(y, n)) = y  BY <3>1, <3>4, <3>7
    <3>9. QED  BY <3>3, <3>8 DEF y
  <2> HIDE DEF bit, v
  <2>2. row = [i \in 1..Samples |-> row[i]]  OBVIOUS
  <2>3. QED  BY <2>1, <2>2
<1> HIDE DEF x, a, out, s
<1>7. GetLiteralRow(r, Samples, n) = Returns(a, row)
  BY <1>3, <1>4, <1>5, <1>6
<1>8. QED  BY <1>4, <1>7 DEF s

-----------------------------------------------------------------------------
(* The macroblocks.                                                        *)

\* What follows the mode of m is read back as m.
Readable(m, predicted, x, y) ==
  \E body \in Strings :
    /\ Macroblock(m, predicted) = Mode(m.mode) \o body
    /\ \A r : At(r, body) =>
         GetMacroblock(r, m.mode, x, y, predicted) = After(r, body, m)

LEMMA ResidualBehind ==
  ASSUME NEW n, NEW s \in Strings, NEW res \in Residues(Blocks),
         NEW r, At(r, s \o Residual(res)), NEW q, q = After(r, s, n)
  PROVE  WithResidual(q) = After(r, s \o Residual(res), Extended(n, "res", res))
<1> DEFINE t == Residual(res)
<1>1. res \in [1..Blocks -> Block]  BY DEF Residues, Block
<1>2. t \in Strings  BY IsResidues DEF Blocks
<1>3. /\ q.ok /\ q.v = n /\ At(q, t)
      /\ \A w : After(q, t, w) = After(r, s \o t, w)
  <2> HIDE DEF t
  <2>1. At(r, s \o t)  BY DEF t
  <2>2. QED  BY <1>2, <2>1, Chained
<1>4. WithResidual(q) = After(q, t, Extended(n, "res", res))
  BY <1>1, <1>3, GotWithResidual
<1> HIDE DEF t
<1>5. QED  BY <1>3, <1>4 DEF t

LEMMA InterReadable ==
  ASSUME P,
         NEW m \in [mode : {"INTER"}, mv : Word \X Word, res : Residues(Blocks)],
         NEW predicted, IsWords(predicted), NEW x, NEW y,
         Candidate(picture, m, x, y)
  PROVE  Readable(m, predicted, x, y)
<1> DEFINE d == Difference(m.mv, predicted)
           s == Vector(d)
           t == Residual(m.res)
           n == [mode |-> "INTER", mv |-> m.mv]
<1>1. /\ m.mode = "INTER" /\ m.mv \in Word \X Word /\ m.res \in Residues(Blocks)
      /\ m = [mode |-> "INTER", mv |-> m.mv, res |-> m.res]
  OBVIOUS
<1>2. m.mv \in Int \X Int /\ IsVector(predicted) /\ d \in Near \X Near
  BY <1>1, NearWords
<1>3. Macroblock(m, predicted) = Mode(m.mode) \o (s \o t)
  BY <1>1 DEF Macroblock
<1>4. s \in Strings /\ t \in Strings
  BY <1>1, <1>2, VectorTyped, IsResidues DEF Blocks
<1>5. d = Difference(m.mv, predicted)  OBVIOUS
<1>6. MotionValid(Whole(x, y).x, Whole(x, y).y, Whole(x, y).w, Whole(x, y).h, m.mv)
  BY <1>1 DEF Candidate, MotionValid, Whole
<1> HIDE DEF d
<1>7. ASSUME NEW r, At(r, s \o t)
      PROVE  GetMacroblock(r, m.mode, x, y, predicted) = After(r, s \o t, m)
  <2> DEFINE a == After(r, s, m.mv)
             mv == GetMotion(r, Whole(x, y), predicted)
  <2>1. At(r, s)  BY <1>4, <1>7, Chained
  <2>2. mv = a  BY <1>2, <1>5, <1>6, <2>1, GotMotion
  <2>3. a.ok /\ a.v = m.mv /\ Returns(a, n) = After(r, s, n)
    <3> HIDE DEF s, n
    <3>1. QED  BY <2>1, Valued
  <2>4. Inter(r, x, y, predicted)
          = IF mv.ok THEN Returns(mv, [mode |-> "INTER", mv |-> mv.v]) ELSE mv
    BY DEF Inter, Then
  <2> HIDE DEF a, mv
  <2>5. Inter(r, x, y, predicted) = After(r, s, n)
    BY <2>2, <2>3, <2>4
  <2>6. GetMacroblock(r, m.mode, x, y, predicted)
          = WithResidual(Inter(r, x, y, predicted))
    BY <1>1 DEF GetMacroblock, Predicted, MotionModes
  <2>7. Extended(n, "res", m.res) = m
    <3>1. Extended(n, "res", m.res) = [mode |-> "INTER", mv |-> m.mv, res |-> m.res]
      BY FieldInter
    <3>2. QED  BY <1>1, <3>1
  <2> DEFINE q == Inter(r, x, y, predicted)
  <2> HIDE DEF s, n, q
  <2>8. WithResidual(q) = After(r, s \o t, Extended(n, "res", m.res))
    BY <1>1, <1>4, <1>7, <2>5, ResidualBehind DEF q
  <2>9. QED  BY <2>6, <2>7, <2>8 DEF q
<1>8. s \o t \in Strings  BY <1>4, Concat
<1> HIDE DEF s, t
<1>9. QED  BY <1>3, <1>7, <1>8 DEF Readable

LEMMA GlobalReadable ==
  ASSUME P, GlobalKnown, decoder.use_global = picture.use_global,
         NEW m \in [mode : {"GLOBAL"}, res : Residues(Blocks)],
         NEW predicted, NEW x, NEW y, Candidate(picture, m, x, y)
  PROVE  Readable(m, predicted, x, y)
<1> DEFINE t == Residual(m.res)
           n == [mode |-> "GLOBAL"]
           w == Whole(x, y)
<1>1. /\ m.mode = "GLOBAL" /\ m.res \in Residues(Blocks)
      /\ m = [mode |-> "GLOBAL", res |-> m.res]
  OBVIOUS
<1>2. Macroblock(m, predicted) = Mode(m.mode) \o t
  BY <1>1 DEF Macroblock
<1>3. t \in Strings /\ <<>> \in Strings
  BY <1>1, IsResidues DEF Blocks, Strings
<1>4. decoder.use_global /\ MotionValid(w.x, w.y, w.w, w.h, decoder.global)
  <2>1. picture.use_global /\ StaysInside(picture, x, y, 16, 16, picture.global)
    BY <1>1 DEF Candidate
  <2>2. decoder.global = picture.global
    BY <2>1 DEF GlobalKnown, Fallback
  <2>3. QED  BY <2>1, <2>2 DEF MotionValid, Whole
<1>5. ASSUME NEW r, At(r, t)
      PROVE  GetMacroblock(r, m.mode, x, y, predicted) = After(r, t, m)
  <2>0. <<>> \o t = t  BY <1>3 DEF Strings
  <2> DEFINE a == Checked(r, w, decoder.global)
             q == Global(r, x, y)
  <2>1. r.ok /\ a = After(r, <<>>, decoder.global)
    <3>1. a = Returns(r, decoder.global)  BY <1>4 DEF Checked
    <3> HIDE DEF t
    <3>2. QED  BY <1>5, <3>1, Here
  <2>2. a.ok /\ Returns(a, n) = After(r, <<>>, n)
    <3>1. At(r, <<>>)
      <4> HIDE DEF t
      <4>1. QED  BY <1>5, Here
    <3> HIDE DEF a, n
    <3>2. QED  BY <2>1, <3>1, Valued
  <2>3. q = IF a.ok THEN Returns(a, [mode |-> "GLOBAL"]) ELSE a
    BY <1>4 DEF Global, Then
  <2>4. q = After(r, <<>>, n)  BY <2>2, <2>3
  <2>5. GetMacroblock(r, m.mode, x, y, predicted) = WithResidual(q)
    BY <1>1 DEF GetMacroblock, Predicted, MotionModes
  <2>6. Extended(n, "res", m.res) = m
    <3>1. Extended(n, "res", m.res) = [mode |-> "GLOBAL", res |-> m.res]
      BY Fields
    <3>2. QED  BY <1>1, <3>1
  <2> HIDE DEF n, q
  <2>7. WithResidual(q) = After(r, <<>> \o t, Extended(n, "res", m.res))
    <3> DEFINE e == <<>>
    <3>1. /\ At(r, e \o t) /\ q = After(r, e, n) /\ e \in Strings
          /\ m.res \in Residues(Blocks)
      BY <1>1, <1>3, <1>5, <2>0, <2>4
    <3> HIDE DEF w, e
    <3>2. WithResidual(q) = After(r, e \o t, Extended(n, "res", m.res))
      BY <3>1, ResidualBehind
    <3>3. QED  BY <3>2 DEF e
  <2>8. QED  BY <2>0, <2>5, <2>6, <2>7
<1> HIDE DEF t
<1>6. QED  BY <1>2, <1>3, <1>5 DEF Readable

LEMMA IntraReadable ==
  ASSUME NEW m \in [mode : {"INTRA"}, intra_mode : 0..3, res : Residues(Blocks)],
         NEW predicted, NEW x, NEW y
  PROVE  Readable(m, predicted, x, y)
<1> DEFINE s == Bits(m.intra_mode, 2)
           t == Residual(m.res)
           n == [mode |-> "INTRA", intra_mode |-> m.intra_mode]
<1>1. /\ m.mode = "INTRA" /\ m.intra_mode \in 0..3 /\ m.res \in Residues(Blocks)
      /\ m = [mode |-> "INTRA", intra_mode |-> m.intra_mode, res |-> m.res]
  OBVIOUS
<1>2. Macroblock(m, predicted) = Mode(m.mode) \o (s \o t)
  BY <1>1 DEF Macroblock
<1>3. s \in Strings /\ t \in Strings
  BY <1>1, BitsTyped, IsResidues DEF Blocks
<1>4. ASSUME NEW r, At(r, s \o t)
      PROVE  GetMacroblock(r, m.mode, x, y, predicted) = After(r, s \o t, m)
  <2> DEFINE a == After(r, s, m.intra_mode)
             q == Intra(r)
             g == Get(r, 2)
  <2>1. At(r, s)  BY <1>3, <1>4, Chained
  <2>2. g = a
    <3>1. m.intra_mode \in Nat /\ m.intra_mode < 2^2 /\ 2 \in 0..32
      <4>1. 2^2 = 4  OBVIOUS
      <4>2. QED  BY <1>1, <4>1
    <3>2. QED  BY <2>1, <3>1, GotBits
  <2>3. a.ok /\ a.v = m.intra_mode /\ Returns(a, n) = After(r, s, n)
    <3> HIDE DEF s, n
    <3>1. QED  BY <2>1, Valued
  <2>4. q = IF g.ok THEN Returns(g, [mode |-> "INTRA", intra_mode |-> g.v]) ELSE g
    BY DEF Intra, Then
  <2> HIDE DEF a, g
  <2>5. q = After(r, s, n)  BY <2>2, <2>3, <2>4
  <2>6. GetMacroblock(r, m.mode, x, y, predicted) = WithResidual(q)
    BY <1>1 DEF GetMacroblock, Predicted, MotionModes
  <2>7. Extended(n, "res", m.res) = m
    <3>1. Extended(n, "res", m.res)
            = [mode |-> "INTRA", intra_mode |-> m.intra_mode, res |-> m.res]
      BY FieldIntra
    <3>2. QED  BY <1>1, <3>1
  <2> HIDE DEF s, n, q
  <2>8. WithResidual(q) = After(r, s \o t, Extended(n, "res", m.res))
    BY <1>1, <1>3, <1>4, <2>5, ResidualBehind
  <2>9. QED  BY <2>6, <2>7, <2>8
<1>5. s \o t \in Strings  BY <1>3, Concat
<1> HIDE DEF s, t
<1>6. QED  BY <1>2, <1>4, <1>5 DEF Readable

LEMMA BytesBack ==
  /\ \A v \in Byte : v % 256 = v
  /\ \A v \in SignedByte : AsSigned(v % 256) = v
<1>1. ASSUME NEW v \in Byte PROVE v % 256 = v
  BY DEF Byte
<1>2. ASSUME NEW v \in SignedByte PROVE AsSigned(v % 256) = v
  <2>1. CASE v >= 0
    <3>1. v % 256 = v /\ v < 128 /\ v \in Int  BY <2>1 DEF SignedByte
    <3>2. ~(v >= 128)  BY <3>1
    <3>3. QED  BY <3>1, <3>2 DEF AsSigned
  <2>2. CASE v < 0
    <3>1. v % 256 = v + 256 /\ v + 256 >= 128  BY <2>2 DEF SignedByte
    <3>2. v \in Int  BY DEF SignedByte
    <3>3. QED  BY <3>1, <3>2 DEF AsSigned
  <2>3. QED  BY <2>1, <2>2 DEF SignedByte
<1>3. QED  BY <1>1, <1>2

\* FILL and GRADIENT: what the decoder makes of the bytes of the planes.
LEMMA PlanesReadable ==
  ASSUME NEW k \in {3, 9}, NEW m, m.mode \in {"FILL", "GRADIENT"},
         m = [mode |-> m.mode, planes |-> m.planes, res |-> m.res],
         m.planes \in [1..k -> Int], m.res \in Residues(Blocks),
         NEW predicted, NEW x, NEW y,
         NEW n, n = [mode |-> m.mode, planes |-> m.planes],
         \A r, bytes :
           /\ bytes = GetNumbers(r, k, 8) /\ bytes.ok
           /\ bytes.v = LowBytes(m.planes, k)
           => Predicted(r, m.mode, x, y, predicted) = Returns(bytes, n)
  PROVE  Readable(m, predicted, x, y)
<1> DEFINE s == Bytes(m.planes)
           t == Residual(m.res)
           low == LowBytes(m.planes, k)
<1>1. k \in Nat  OBVIOUS
<1>2. Macroblock(m, predicted) = Mode(m.mode) \o (s \o t)
  BY DEF Macroblock
<1>3. s \in Strings /\ t \in Strings
  BY <1>1, BytesTyped, IsResidues DEF Blocks
<1>4. ASSUME NEW r, At(r, s \o t)
      PROVE  GetMacroblock(r, m.mode, x, y, predicted) = After(r, s \o t, m)
  <2> DEFINE a == After(r, s, low)
             g == GetNumbers(r, k, 8)
             q == Predicted(r, m.mode, x, y, predicted)
  <2>1. At(r, s)  BY <1>3, <1>4, Chained
  <2>2. g = a  BY <1>1, <2>1, GotBytes
  <2>3. a.ok /\ a.v = low /\ Returns(a, n) = After(r, s, n)
    <3> HIDE DEF s, low
    <3>1. QED  BY <2>1, Valued
  <2> HIDE DEF a
  <2>4. q = Returns(g, n)
    <3>1. g = GetNumbers(r, k, 8) /\ g.ok /\ g.v = LowBytes(m.planes, k)
      BY <2>2, <2>3
    <3> HIDE DEF g
    <3>2. QED  BY <3>1
  <2>5. q = After(r, s, n)  BY <2>2, <2>3, <2>4
  <2>6. GetMacroblock(r, m.mode, x, y, predicted) = WithResidual(q)
    BY DEF GetMacroblock
  <2>7. Extended(n, "res", m.res) = m
    <3>1. Extended([mode |-> m.mode, planes |-> m.planes], "res", m.res)
            = [mode |-> m.mode, planes |-> m.planes, res |-> m.res]
      BY FieldPlanes
    <3>2. QED  BY <3>1
  <2> HIDE DEF s, q
  <2>8. WithResidual(q) = After(r, s \o t, Extended(n, "res", m.res))
    BY <1>3, <1>4, <2>5, ResidualBehind
  <2>9. QED  BY <2>6, <2>7, <2>8
<1>5. s \o t \in Strings  BY <1>3, Concat
<1> HIDE DEF s, t
<1>6. QED  BY <1>2, <1>4, <1>5 DEF Readable

LEMMA FillReadable ==
  ASSUME NEW m \in [mode : {"FILL"}, planes : [1..3 -> Byte],
                    res : Residues(Blocks)],
         NEW predicted, NEW x, NEW y
  PROVE  Readable(m, predicted, x, y)
<1> DEFINE n == [mode |-> m.mode, planes |-> m.planes]
<1>1. /\ m.mode = "FILL" /\ m.planes \in [1..3 -> Byte]
      /\ m.res \in Residues(Blocks)
      /\ m = [mode |-> m.mode, planes |-> m.planes, res |-> m.res]
  OBVIOUS
<1>2. m.planes \in [1..3 -> Int]  BY <1>1, Bytes8
<1>3. LowBytes(m.planes, 3) = m.planes
  BY <1>1, BytesBack DEF LowBytes
<1>4. ASSUME NEW r, NEW bytes, bytes = GetNumbers(r, 3, 8), bytes.ok,
             bytes.v = LowBytes(m.planes, 3)
      PROVE  Predicted(r, m.mode, x, y, predicted) = Returns(bytes, n)
  <2> DEFINE g == GetNumbers(r, 3, 8)
  <2>1. Fill(r) = IF g.ok THEN Returns(g, [mode |-> "FILL", planes |-> g.v]) ELSE g
    BY DEF Fill, Then
  <2>2. Predicted(r, m.mode, x, y, predicted) = Fill(r)
    BY <1>1 DEF Predicted, MotionModes
  <2>3. g = bytes  BY <1>4
  <2> HIDE DEF g
  <2>4. QED  BY <1>1, <1>3, <1>4, <2>1, <2>2, <2>3
<1> HIDE DEF n
<1>5. n = [mode |-> m.mode, planes |-> m.planes]  BY DEF n
<1>6. QED  BY <1>1, <1>2, <1>4, <1>5, PlanesReadable

LEMMA GradientReadable ==
  ASSUME NEW planes \in [1..9 -> Byte \cup SignedByte],
         \A i \in 1..9 : planes[i] \in IF i % 3 = 1 THEN Byte ELSE SignedByte,
         NEW res \in Residues(Blocks),
         NEW m, m = [mode |-> "GRADIENT", planes |-> planes, res |-> res],
         NEW predicted, NEW x, NEW y
  PROVE  Readable(m, predicted, x, y)
<1> DEFINE n == [mode |-> m.mode, planes |-> m.planes]
<1>1. /\ m.mode = "GRADIENT" /\ m.planes = planes /\ m.res = res
      /\ m = [mode |-> m.mode, planes |-> m.planes, res |-> m.res]
  OBVIOUS
<1>2. m.planes \in [1..9 -> Int]  BY <1>1, Bytes8
<1>3. [i \in 1..9 |-> IF i % 3 = 1 THEN LowBytes(planes, 9)[i]
                      ELSE AsSigned(LowBytes(planes, 9)[i])] = planes
  <2>1. ASSUME NEW i \in 1..9
        PROVE  (IF i % 3 = 1 THEN LowBytes(planes, 9)[i]
                ELSE AsSigned(LowBytes(planes, 9)[i])) = planes[i]
    <3>1. LowBytes(planes, 9)[i] = planes[i] % 256  BY DEF LowBytes
    <3>2. CASE i % 3 = 1
      <4>1. planes[i] \in Byte  BY <3>2
      <4>2. QED  BY <3>1, <3>2, <4>1, BytesBack
    <3>3. CASE i % 3 # 1
      <4>1. planes[i] \in SignedByte  BY <3>3
      <4>2. QED  BY <3>1, <3>3, <4>1, BytesBack
    <3>4. QED  BY <3>2, <3>3
  <2>2. QED  BY <2>1
<1>4. ASSUME NEW r, NEW bytes, bytes = GetNumbers(r, 9, 8), bytes.ok,
             bytes.v = LowBytes(m.planes, 9)
      PROVE  Predicted(r, m.mode, x, y, predicted) = Returns(bytes, n)
  <2> DEFINE g == GetNumbers(r, 9, 8)
             out(v) == [i \in 1..9 |-> IF i % 3 = 1 THEN v[i] ELSE AsSigned(v[i])]
  <2>1. Gradient(r)
          = IF g.ok THEN Returns(g, [mode |-> "GRADIENT", planes |-> out(g.v)])
            ELSE g
    BY DEF Gradient, Then
  <2>2. Predicted(r, m.mode, x, y, predicted) = Gradient(r)
    BY <1>1 DEF Predicted, MotionModes
  <2>3. g = bytes  BY <1>4
  <2>4. out(bytes.v) = planes  BY <1>1, <1>3, <1>4
  <2> HIDE DEF g, out
  <2>5. QED  BY <1>1, <1>4, <2>1, <2>2, <2>3, <2>4
<1> HIDE DEF n
<1>5. n = [mode |-> m.mode, planes |-> m.planes]  BY DEF n
<1>6. QED  BY <1>1, <1>2, <1>4, <1>5, PlanesReadable

LEMMA PaletteReadable ==
  ASSUME NEW count \in {2, 4, 8}, NEW m \in Palettes(count),
         NEW predicted, NEW x, NEW y
  PROVE  Readable(m, predicted, x, y)
<1> DEFINE number == CASE m.count = 2 -> 0 [] m.count = 4 -> 1 [] OTHER -> 2
           width == IndexBits(count)
           s == Bits(number, 2)
           t == Bytes(m.colors)
           u == Joined(NumberCodes(m.index, Samples, width))
           body == (s \o t) \o u
<1>0. Samples \in Nat  BY PictureAssumption
<1>1. /\ m.mode = "PALETTE" /\ m.count = count
      /\ m.colors \in [1..(3 * count) -> Byte]
      /\ m.index \in [1..Samples -> 0..(count - 1)]
      /\ m = [mode |-> "PALETTE", count |-> count, colors |-> m.colors,
              index |-> m.index]
  BY DEF Palettes
<1>2. Macroblock(m, predicted) = Mode(m.mode) \o body
  <2>1. Macroblock(m, predicted) = Mode(m.mode) \o
          (Bits(CASE m.count = 2 -> 0 [] m.count = 4 -> 1 [] OTHER -> 2, 2)
           \o Bytes(m.colors)
           \o Joined([i \in 1..Samples |-> Bits(m.index[i], IndexBits(m.count))]))
    BY <1>1 DEF Macroblock
  <2>2. QED  BY <1>1, <2>1 DEF NumberCodes
<1>3. /\ number \in 0..2 /\ 2^(number + 1) = count
      /\ width \in 0..32 /\ count = 2^width
  <2>1. 2^(0 + 1) = 2 /\ 2^(1 + 1) = 4 /\ 2^(2 + 1) = 8
        /\ 2^1 = 2 /\ 2^2 = 4 /\ 2^3 = 8
    OBVIOUS
  <2>2. CASE count = 2
    <3>1. number = 0 /\ width = 1  BY <1>1, <2>2 DEF IndexBits
    <3> HIDE DEF number, width
    <3>2. QED  BY <2>1, <2>2, <3>1
  <2>3. CASE count = 4
    <3>1. number = 1 /\ width = 2  BY <1>1, <2>3 DEF IndexBits
    <3> HIDE DEF number, width
    <3>2. QED  BY <2>1, <2>3, <3>1
  <2>4. CASE count = 8
    <3>1. number = 2 /\ width = 3  BY <1>1, <2>4 DEF IndexBits
    <3> HIDE DEF number, width
    <3>2. QED  BY <2>1, <2>4, <3>1
  <2>5. QED  BY <2>2, <2>3, <2>4
<1> HIDE DEF number
<1>4. m.colors \in [1..(3 * count) -> Int] /\ 3 * count \in Nat
  BY <1>1, Bytes8
<1>5. LowBytes(m.colors, 3 * count) = m.colors
  <2>1. \A i \in 1..(3 * count) : m.colors[i] % 256 = m.colors[i]
    BY <1>1, BytesBack
  <2> DEFINE k == 3 * count
  <2> HIDE DEF k
  <2>2. m.colors = [i \in 1..k |-> m.colors[i]]  BY <1>1 DEF k
  <2>3. \A i \in 1..k : m.colors[i] % 256 = m.colors[i]  BY <2>1 DEF k
  <2>4. LowBytes(m.colors, k) = m.colors  BY <2>2, <2>3 DEF LowBytes
  <2>5. QED  BY <2>4 DEF k
<1>6. /\ m.index \in [1..Samples -> Nat]
      /\ \A i \in 1..Samples : m.index[i] < 2^width
  <2>1. \A i \in 1..Samples : m.index[i] \in Nat /\ m.index[i] < count
    <3>1. \A i \in 1..Samples : m.index[i] \in 0..(count - 1)  BY <1>1
    <3>2. \A k \in 0..(count - 1) : k \in Nat /\ k < count  OBVIOUS
    <3>3. QED  BY <3>1, <3>2
  <2> HIDE DEF width
  <2>2. QED  BY <1>1, <1>3, <2>1
<1> HIDE DEF width
<1>7. s \in Strings /\ t \in Strings /\ u \in Strings
  <2>1. s \in Strings
    <3>1. number \in Int /\ 2 \in 0..32  BY <1>3
    <3>2. QED  BY <3>1, BitsTyped
  <2>2. t \in Strings  BY <1>4, BytesTyped
  <2>3. NumberCodes(m.index, Samples, width) \in [1..Samples -> Strings]
    <3>1. \A i \in 1..Samples : m.index[i] \in Int
      <4>1. \A i \in 1..Samples : m.index[i] \in Nat  BY <1>6
      <4>2. QED  BY <4>1
    <3>2. \A i \in 1..Samples : Bits(m.index[i], width) \in Strings
      BY <1>3, <3>1, BitsTyped
    <3>3. QED  BY <3>2 DEF NumberCodes
  <2>4. u \in Strings  BY <1>0, <2>3, EachTyped
  <2>5. QED  BY <2>1, <2>2, <2>4
<1>8. ASSUME NEW r, At(r, body)
      PROVE  GetMacroblock(r, m.mode, x, y, predicted) = After(r, body, m)
  <2> DEFINE code == Get(r, 2)
             n == 2^(code.v + 1)
             colors == GetNumbers(code, 3 * n, 8)
             index == GetNumbers(colors, Samples, IndexBits(n))
             out == [mode |-> "PALETTE", count |-> n, colors |-> colors.v,
                     index |-> index.v]
  <2>1. GetMacroblock(r, m.mode, x, y, predicted)
          = IF ~code.ok THEN code
            ELSE IF code.v > 2 THEN Failed(code)
            ELSE IF ~colors.ok THEN colors
            ELSE IF ~index.ok THEN index ELSE Returns(index, out)
    <3>1. GetMacroblock(r, m.mode, x, y, predicted) = Palette(r)
      BY <1>1 DEF GetMacroblock, Predicted, MotionModes
    <3>2. Palette(r) = IF ~code.ok THEN code
            ELSE IF code.v > 2 THEN Failed(code)
            ELSE IF ~colors.ok THEN colors
            ELSE IF ~index.ok THEN index ELSE Returns(index, out)
      BY DEF Palette, Then
    <3>3. QED  BY <3>1, <3>2
  <2> DEFINE a == After(r, s, number)
             b == After(a, t, m.colors)
             c == After(b, u, m.index)
  <2>2. /\ At(r, s) /\ a.ok /\ a.v = number /\ At(a, t)
        /\ At(r, s \o t) /\ After(a, t, m.colors) = After(r, s \o t, m.colors)
    <3> HIDE DEF s, t, u
    <3>1. At(r, s \o t)
      <4>1. s \o t \in Strings /\ u \in Strings  BY <1>7, Concat
      <4>2. QED  BY <1>8, <4>1, Chained
    <3>2. QED  BY <1>7, <3>1, Chained
  <2>3. /\ b.ok /\ b.v = m.colors /\ At(b, u)
        /\ \A w : After(b, u, w) = After(r, body, w)
    <3>1. s \o t \in Strings /\ b = After(r, s \o t, m.colors)
      BY <1>7, <2>2, Concat
    <3> HIDE DEF s, t, u, a, b
    <3>2. QED  BY <1>7, <1>8, <3>1, Chained
  <2>4. code = a
    <3>1. number \in Nat /\ number < 2^2 /\ 2 \in 0..32
      <4>1. 2^2 = 4  OBVIOUS
      <4>2. QED  BY <1>3, <4>1
    <3>2. QED  BY <2>2, <3>1, GotBits
  <2>5. n = count
    <3> HIDE DEF a, code
    <3>1. code.v = number  BY <2>2, <2>4
    <3>2. QED  BY <1>3, <3>1
  <2>6. colors = b
    <3> HIDE DEF a, code, n
    <3>1. GetNumbers(a, 3 * count, 8) = After(a, t, LowBytes(m.colors, 3 * count))
      BY <1>4, <2>2, GotBytes
    <3>2. QED  BY <1>5, <2>4, <2>5, <3>1
  <2> HIDE DEF a, code, n
  <2>7. index = c
    <3> HIDE DEF b, colors
    <3>1. GetNumbers(b, Samples, width)
            = After(b, u, First(m.index, Samples))
      BY <1>0, <1>3, <1>6, <2>3, GotNumbers
    <3>2. First(m.index, Samples) = m.index  BY <1>6, FirstAll
    <3>3. QED  BY <2>5, <2>6, <3>1, <3>2 DEF width
  <2>8. c.ok /\ c.v = m.index /\ \A w : Returns(c, w) = After(b, u, w)
    <3> HIDE DEF b, u
    <3>1. QED  BY <2>3, Valued
  <2> HIDE DEF b, c, colors, index
  <2>9. out = m  BY <1>1, <2>3, <2>5, <2>6, <2>7, <2>8
  <2>10. code.ok /\ ~(code.v > 2) /\ colors.ok /\ index.ok
    BY <1>3, <2>2, <2>3, <2>4, <2>6, <2>7, <2>8
  <2> HIDE DEF out, body
  <2>11. QED  BY <2>1, <2>3, <2>7, <2>8, <2>9, <2>10
<1>9. body \in Strings  BY <1>7, Concat
<1> HIDE DEF body
<1>10. QED  BY <1>2, <1>8, <1>9 DEF Readable

LEMMA LiteralReadable ==
  ASSUME NEW m \in [mode : {"LITERAL"}, y : [1..Samples -> 0..127],
                    u : [1..Samples -> 0..63], v : [1..Samples -> 0..63],
                    correction : [1..2 -> SignedByte]],
         NEW predicted, NEW x, NEW y
  PROVE  Readable(m, predicted, x, y)
<1> DEFINE z == Bits(0, 4)
           s == LiteralRow(m.y, 7)
           t == LiteralRow(m.u, 6)
           u == LiteralRow(m.v, 6)
           e == Bytes(m.correction)
           body == (((z \o s) \o t) \o u) \o e
           low == LowBytes(m.correction, 2)
           back(w) == [i \in 1..2 |-> AsSigned(w[i])]
<1>1. /\ m.mode = "LITERAL"
      /\ m.y \in [1..Samples -> 0..127] /\ m.u \in [1..Samples -> 0..63]
      /\ m.v \in [1..Samples -> 0..63] /\ m.correction \in [1..2 -> SignedByte]
      /\ m = [mode |-> "LITERAL", y |-> m.y, u |-> m.u, v |-> m.v,
              correction |-> m.correction]
  OBVIOUS
<1>2. Macroblock(m, predicted) = Mode(m.mode) \o body
  BY <1>1 DEF Macroblock
<1>3. /\ m.y \in [1..Samples -> Int] /\ m.u \in [1..Samples -> Int]
      /\ m.v \in [1..Samples -> Int] /\ m.correction \in [1..2 -> Int]
  <2>1. 0..127 \subseteq Int /\ 0..63 \subseteq Int  OBVIOUS
  <2>2. QED  BY <1>1, <2>1, Bytes8
<1>4. /\ z \in Strings /\ s \in Strings /\ t \in Strings /\ u \in Strings
      /\ e \in Strings
  <2>1. z \in Strings  BY BitsTyped
  <2>2. s \in Strings /\ t \in Strings /\ u \in Strings  BY <1>3, RowTyped
  <2>3. e \in Strings  BY <1>3, BytesTyped
  <2>4. QED  BY <2>1, <2>2, <2>3
<1>5. /\ m.y \in [1..Samples -> 0..(2^7 - 1)]
      /\ m.u \in [1..Samples -> 0..(2^6 - 1)]
      /\ m.v \in [1..Samples -> 0..(2^6 - 1)]
  <2>1. 2^7 - 1 = 127 /\ 2^6 - 1 = 63  OBVIOUS
  <2>2. QED  BY <1>1, <2>1
<1>6. back(low) = m.correction
  <2>1. ASSUME NEW i \in 1..2 PROVE AsSigned(low[i]) = m.correction[i]
    <3>1. low[i] = m.correction[i] % 256 /\ m.correction[i] \in SignedByte
      BY <1>1 DEF LowBytes
    <3>2. QED  BY <3>1, BytesBack
  <2> HIDE DEF low
  <2>2. QED  BY <1>1, <2>1
<1>7. ASSUME NEW r, At(r, body)
      PROVE  GetMacroblock(r, m.mode, x, y, predicted) = After(r, body, m)
  <2> DEFINE zero == Get(r, 4)
             ly == GetLiteralRow(zero, Samples, 7)
             lu == GetLiteralRow(ly, Samples, 6)
             lv == GetLiteralRow(lu, Samples, 6)
             lc == GetNumbers(lv, 2, 8)
             out == [mode |-> "LITERAL", y |-> ly.v, u |-> lu.v, v |-> lv.v,
                     correction |-> back(lc.v)]
  <2>1. GetMacroblock(r, m.mode, x, y, predicted)
          = IF ~zero.ok THEN zero
            ELSE IF zero.v # 0 THEN Failed(zero)
            ELSE IF ~ly.ok THEN ly
            ELSE IF ~lu.ok THEN lu
            ELSE IF ~lv.ok THEN lv
            ELSE IF ~lc.ok THEN lc
            ELSE Returns(lc, out)
    <3>1. GetMacroblock(r, m.mode, x, y, predicted) = Literal(r)
      BY <1>1 DEF GetMacroblock, Predicted, MotionModes
    <3>2. Literal(r)
          = IF ~zero.ok THEN zero
            ELSE IF zero.v # 0 THEN Failed(zero)
            ELSE IF ~ly.ok THEN ly
            ELSE IF ~lu.ok THEN lu
            ELSE IF ~lv.ok THEN lv
            ELSE IF ~lc.ok THEN lc
            ELSE Returns(lc, out)
      BY DEF Literal, Then
    <3>3. QED  BY <3>1, <3>2
  <2> DEFINE p == u \o e
             q == t \o p
             w == s \o q
  <2>2. /\ body = z \o w /\ p \in Strings /\ q \in Strings /\ w \in Strings
    <3>1. p \in Strings /\ q \in Strings /\ w \in Strings  BY <1>4, Concat
    <3> HIDE DEF z, s, t, u, e
    <3> DEFINE k == z \o s
               l == k \o t
               j == l \o u
    <3>2. k \in Strings /\ l \in Strings /\ j \in Strings  BY <1>4, Concat
    <3>3. body = j \o e  OBVIOUS
    <3> HIDE DEF body, p, q, w, k, l, j
    <3>4. j \o e = l \o p
      <4>1. l \in Seq(Bit) /\ u \in Seq(Bit) /\ e \in Seq(Bit)
        BY <1>4, <3>2 DEF Strings
      <4>2. QED  BY <4>1 DEF j, p
    <3>5. l \o p = k \o q
      <4>1. k \in Seq(Bit) /\ t \in Seq(Bit) /\ p \in Seq(Bit)
        BY <1>4, <3>1, <3>2 DEF Strings
      <4>2. QED  BY <4>1 DEF l, q
    <3>6. k \o q = z \o w
      <4>1. z \in Seq(Bit) /\ s \in Seq(Bit) /\ q \in Seq(Bit)
        BY <1>4, <3>1 DEF Strings
      <4>2. QED  BY <4>1 DEF k, w
    <3>7. QED  BY <3>1, <3>3, <3>4, <3>5, <3>6
  <2> HIDE DEF body, p, q, w
  <2> DEFINE a == After(r, z, 0)
             b == After(a, s, m.y)
             c == After(b, t, m.u)
             d == After(c, u, m.v)
             f == After(d, e, low)
  <2>3. /\ At(r, z) /\ a.ok /\ a.v = 0 /\ At(a, w)
        /\ \A k : After(a, w, k) = After(r, body, k)
    <3> HIDE DEF z, s, t, u, e
    <3>1. QED  BY <1>4, <1>7, <2>2, Chained
  <2>4. zero = a
    <3>1. 0 < 2^4 /\ 4 \in 0..32  OBVIOUS
    <3>2. QED  BY <2>3, <3>1, GotBits
  <2> HIDE DEF z, a, zero
  <2>5. /\ At(a, s) /\ b.ok /\ b.v = m.y /\ At(b, q)
        /\ \A k : After(b, q, k) = After(a, w, k)
    <3>1. w = s \o q  BY DEF w
    <3> HIDE DEF s, t, u, e
    <3>2. QED  BY <1>4, <2>2, <2>3, <3>1, Chained
  <2>6. ly = b  BY <1>5, <2>4, <2>5, GotLiteralRow
  <2> HIDE DEF s, b, ly
  <2>7. /\ At(b, t) /\ c.ok /\ c.v = m.u /\ At(c, p)
        /\ \A k : After(c, p, k) = After(b, q, k)
    <3>1. q = t \o p  BY DEF q
    <3> HIDE DEF t, u, e
    <3>2. QED  BY <1>4, <2>2, <2>5, <3>1, Chained
  <2>8. lu = c  BY <1>5, <2>6, <2>7, GotLiteralRow
  <2> HIDE DEF t, c, lu
  <2>9. /\ At(c, u) /\ d.ok /\ d.v = m.v /\ At(d, e)
        /\ \A k : After(d, e, k) = After(c, p, k)
    <3>1. p = u \o e  BY DEF p
    <3> HIDE DEF u, e
    <3>2. QED  BY <1>4, <2>2, <2>7, <3>1, Chained
  <2>10. lv = d  BY <1>5, <2>8, <2>9, GotLiteralRow
  <2> HIDE DEF u, d, lv
  <2>11. lc = f
    <3>1. GetNumbers(d, 2, 8) = After(d, e, LowBytes(m.correction, 2))
      BY <1>3, <2>9, GotBytes
    <3>2. QED  BY <2>10, <3>1
  <2>12. f.ok /\ f.v = low /\ \A k : Returns(f, k) = After(d, e, k)
    <3> HIDE DEF e, low
    <3>1. QED  BY <2>9, Valued
  <2> HIDE DEF e, f, lc, low, back
  <2>13. out = m
    BY <1>1, <1>6, <2>5, <2>6, <2>7, <2>8, <2>9, <2>10, <2>11, <2>12
  <2> HIDE DEF out
  <2>14. GetMacroblock(r, m.mode, x, y, predicted) = Returns(lc, out)
    BY <2>1, <2>3, <2>4, <2>5, <2>6, <2>7, <2>8, <2>9, <2>10, <2>11, <2>12
  <2>15. QED
    BY <2>3, <2>5, <2>7, <2>9, <2>11, <2>12, <2>13, <2>14
<1>8. body \in Strings  BY <1>4, Concat
<1> HIDE DEF body
<1>9. QED  BY <1>2, <1>7, <1>8 DEF Readable

\* The parts of a candidate fit where they are.
LEMMA CandidateParts ==
  ASSUME NEW m, NEW k \in Nat, NEW x, NEW y, Candidate(picture, m, x, y),
         m.mode \in {"SPLIT_INTER", "SPLIT_JOINT", "RECT_SPLIT"},
         m.parts \in SplitParts(k, IF m.mode = "SPLIT_INTER" THEN SubPart
                                   ELSE MovedParts),
         NEW n, n.mode = m.mode,
         m.mode = "RECT_SPLIT" => n.vertical = m.vertical
  PROVE  PartsFit(n, m.parts, k, x, y)
<1>1. ASSUME NEW i \in 1..k
      PROVE  PartFits(m.parts[i], n.mode, PartAt(n, i, x, y))
  <2> DEFINE at == PartAt(m, i, x, y)
             p == m.parts[i]
  <2>1. PartAt(n, i, x, y) = at
    <3>1. CASE m.mode = "RECT_SPLIT"  BY <3>1 DEF PartAt
    <3>2. CASE m.mode # "RECT_SPLIT"  BY <3>2 DEF PartAt
    <3>3. QED  BY <3>1, <3>2
  <2>2. p \in StayPart \cup IF m.mode = "SPLIT_INTER" THEN SubPart ELSE MovedParts
    BY DEF SplitParts, StayPart
  <2>3. p.inter => StaysInside(picture, at.x, at.y, at.w, at.h, p.mv)
    <3>1. i \in DOMAIN m.parts  BY DEF SplitParts
    <3>2. QED  BY <3>1 DEF Candidate
  <2> HIDE DEF at, p
  <2>4. PartFits(p, n.mode, at)
    BY <2>2, <2>3 DEF PartFits, MotionValid
  <2>5. QED  BY <2>1, <2>4 DEF p
<1>2. QED  BY <1>1 DEF PartsFit

LEMMA SplitInterReadable ==
  ASSUME P, GlobalKnown,
         NEW m \in [mode : {"SPLIT_INTER"},
                    parts : SplitParts(4, [inter : {TRUE}, mv : Word \X Word,
                                           res : Residues(SubBlocks)])],
         NEW predicted, NEW x, NEW y, Candidate(picture, m, x, y)
  PROVE  Readable(m, predicted, x, y)
<1> DEFINE n == [mode |-> "SPLIT_INTER"]
           body == Joined(PartCodes(m.parts, 4, n.mode))
<1>1. /\ m.mode = "SPLIT_INTER" /\ m.parts \in SplitParts(4, SubPart)
      /\ m = [mode |-> "SPLIT_INTER", parts |-> m.parts]
  BY DEF SubPart, Residues, Block
<1>2. PartsFit(n, m.parts, 4, x, y)
  BY <1>1, CandidateParts
<1>3. IsWords(Fallback)  BY DEF GlobalKnown
<1>4. body \in Strings  BY <1>2, <1>3, PartCodesTyped
<1>5. Macroblock(m, predicted) = Mode(m.mode) \o body
  <2>1. Macroblock(m, predicted) = Mode(m.mode) \o
          Joined([k \in 1..4 |-> Part(m.parts[k]) \o
            IF m.parts[k].inter THEN Residual(m.parts[k].res) ELSE <<>>])
    BY <1>1 DEF Macroblock
  <2>2. ASSUME NEW k \in 1..4
        PROVE  (Part(m.parts[k]) \o
                  IF m.parts[k].inter THEN Residual(m.parts[k].res) ELSE <<>>)
                 = PartCode(m.parts[k], n.mode)
    <3> DEFINE p == m.parts[k]
    <3>1. PartFits(p, n.mode, PartAt(n, k, x, y))  BY <1>2 DEF PartsFit
    <3>2. Part(p) \in Strings  BY <1>3, <3>1, PartCodeTyped
    <3> HIDE DEF p
    <3>3. Part(p) \o <<>> = Part(p)  BY <3>2 DEF Strings
    <3>4. QED  BY <3>3 DEF PartCode, p
  <2>3. [k \in 1..4 |-> Part(m.parts[k]) \o
           IF m.parts[k].inter THEN Residual(m.parts[k].res) ELSE <<>>]
          = PartCodes(m.parts, 4, n.mode)
    BY <2>2 DEF PartCodes
  <2>4. QED  BY <2>1, <2>3
<1>6. ASSUME NEW r, At(r, body)
      PROVE  GetMacroblock(r, m.mode, x, y, predicted) = After(r, body, m)
  <2>1. GetMacroblock(r, m.mode, x, y, predicted) = Split(r, "SPLIT_INTER", x, y)
    BY <1>1 DEF GetMacroblock, Predicted, MotionModes
  <2>2. Split(r, "SPLIT_INTER", x, y) = GetParts(r, n, 4, x, y)
    <3>1. r.ok  BY <1>6 DEF At
    <3> HIDE DEF body
    <3>2. QED  BY <3>1 DEF Split, Then
  <2>3. GetParts(r, n, 4, x, y) = After(r, body, Extended(n, "parts", m.parts))
    <3> DEFINE parts == m.parts
               k == 4
               S == [inter : {FALSE}] \cup SubPart
    <3>1. m.parts \in [1..4 -> S]  BY <1>1 DEF SplitParts
    <3>3. PartsFit(n, parts, k, x, y)  BY <1>2
    <3>4. At(r, Joined(PartCodes(parts, k, n.mode)))  BY <1>6
    <3>5. First(parts, k) = parts /\ k \in Nat  BY <3>1, FirstAll
    <3> HIDE DEF parts, n, k, S
    <3>6. GetParts(r, n, k, x, y) =
            After(r, Joined(PartCodes(parts, k, n.mode)),
                  Extended(n, "parts", parts))
      BY <3>3, <3>4, <3>5, GotParts
    <3>7. QED  BY <3>6 DEF parts, k
  <2>4. Extended(n, "parts", m.parts) = m
    <3>1. Extended(n, "parts", m.parts) = [mode |-> "SPLIT_INTER", parts |-> m.parts]
      BY Fields
    <3>2. QED  BY <1>1, <3>1
  <2>5. QED  BY <2>1, <2>2, <2>3, <2>4
<1> HIDE DEF body
<1>7. QED  BY <1>4, <1>5, <1>6 DEF Readable

LEMMA SplitJointReadable ==
  ASSUME P, GlobalKnown,
         NEW m \in [mode : {"SPLIT_JOINT"}, parts : SplitParts(4, MovedParts),
                    res : Residues(Blocks)],
         NEW predicted, NEW x, NEW y, Candidate(picture, m, x, y)
  PROVE  Readable(m, predicted, x, y)
<1> DEFINE n == [mode |-> "SPLIT_JOINT"]
           s == Joined(PartCodes(m.parts, 4, n.mode))
           t == Residual(m.res)
           e == Extended(n, "parts", m.parts)
<1>1. /\ m.mode = "SPLIT_JOINT" /\ m.parts \in SplitParts(4, MovedParts)
      /\ m.res \in Residues(Blocks)
      /\ m = [mode |-> "SPLIT_JOINT", parts |-> m.parts, res |-> m.res]
  OBVIOUS
<1>2. PartsFit(n, m.parts, 4, x, y)
  BY <1>1, CandidateParts
<1>3. IsWords(Fallback)  BY DEF GlobalKnown
<1>4. s \in Strings /\ t \in Strings
  BY <1>1, <1>2, <1>3, PartCodesTyped, IsResidues DEF Blocks
<1>5. Macroblock(m, predicted) = Mode(m.mode) \o (s \o t)
  <2>1. Macroblock(m, predicted)
          = Mode(m.mode) \o (Joined(Parts(m)) \o Residual(m.res))
    BY <1>1 DEF Macroblock
  <2>2. Len(m.parts) = 4  BY <1>1, FunctionSeq DEF SplitParts
  <2>3. Parts(m) = PartCodes(m.parts, 4, n.mode)
    BY <2>2 DEF Parts, PartCodes, PartCode
  <2>4. QED  BY <2>1, <2>3
<1>6. ASSUME NEW r, At(r, s \o t)
      PROVE  GetMacroblock(r, m.mode, x, y, predicted) = After(r, s \o t, m)
  <2> DEFINE q == Split(r, "SPLIT_JOINT", x, y)
  <2>1. GetMacroblock(r, m.mode, x, y, predicted) = WithResidual(q)
    BY <1>1 DEF GetMacroblock, Predicted, MotionModes
  <2>2. At(r, s) /\ r.ok
    <3>1. r.ok  BY <1>6 DEF At
    <3>2. QED  BY <1>4, <1>6, <3>1, Chained
  <2>3. q = GetParts(r, n, 4, x, y)
    <3> HIDE DEF s, t
    <3>1. QED  BY <2>2 DEF Split, Then
  <2>4. GetParts(r, n, 4, x, y) = After(r, s, e)
    <3> DEFINE parts == m.parts
               k == 4
               S == [inter : {FALSE}] \cup MovedParts
    <3>1. m.parts \in [1..4 -> S]  BY <1>1 DEF SplitParts
    <3>3. PartsFit(n, parts, k, x, y)  BY <1>2
    <3>4. At(r, Joined(PartCodes(parts, k, n.mode)))  BY <2>2
    <3>5. First(parts, k) = parts /\ k \in Nat  BY <3>1, FirstAll
    <3> HIDE DEF parts, n, k, S
    <3>6. GetParts(r, n, k, x, y) =
            After(r, Joined(PartCodes(parts, k, n.mode)),
                  Extended(n, "parts", parts))
      BY <3>3, <3>4, <3>5, GotParts
    <3>7. QED  BY <3>6 DEF parts, k
  <2>5. Extended(e, "res", m.res) = m
    <3>1. e = [mode |-> "SPLIT_JOINT", parts |-> m.parts]
      BY Fields
    <3> HIDE DEF e
    <3>2. Extended([mode |-> "SPLIT_JOINT", parts |-> m.parts], "res", m.res)
            = [mode |-> "SPLIT_JOINT", parts |-> m.parts, res |-> m.res]
      BY FieldJoint
    <3>3. QED  BY <1>1, <3>1, <3>2
  <2> HIDE DEF s, e, q
  <2>6. WithResidual(q) = After(r, s \o t, Extended(e, "res", m.res))
    BY <1>1, <1>4, <1>6, <2>3, <2>4, ResidualBehind
  <2>7. QED  BY <2>1, <2>5, <2>6
<1>7. s \o t \in Strings  BY <1>4, Concat
<1> HIDE DEF s, t
<1>8. QED  BY <1>5, <1>6, <1>7 DEF Readable

LEMMA RectReadable ==
  ASSUME P, GlobalKnown,
         NEW m \in [mode : {"RECT_SPLIT"}, vertical : BOOLEAN,
                    parts : SplitParts(2, MovedParts), res : Residues(Blocks)],
         NEW predicted, NEW x, NEW y, Candidate(picture, m, x, y)
  PROVE  Readable(m, predicted, x, y)
<1> DEFINE b == IF m.vertical THEN 1 ELSE 0
           n == [mode |-> "RECT_SPLIT", vertical |-> m.vertical]
           s == Joined(PartCodes(m.parts, 2, n.mode))
           t == Residual(m.res)
           e == Extended(n, "parts", m.parts)
<1>1. /\ m.mode = "RECT_SPLIT" /\ m.vertical \in BOOLEAN
      /\ m.parts \in SplitParts(2, MovedParts)
      /\ m.res \in Residues(Blocks)
      /\ m = [mode |-> "RECT_SPLIT", vertical |-> m.vertical,
              parts |-> m.parts, res |-> m.res]
  OBVIOUS
<1>2. PartsFit(n, m.parts, 2, x, y)
  BY <1>1, CandidateParts
<1>3. IsWords(Fallback) /\ b \in Bit /\ (b = 1 <=> m.vertical)
  BY <1>1 DEF GlobalKnown, Bit
<1>4. <<b>> \in Strings /\ s \in Strings /\ t \in Strings
      /\ <<b>> \o s \in Strings
  <2>1. <<b>> \in Strings  BY <1>3, OneBit
  <2>2. s \in Strings /\ t \in Strings
    BY <1>1, <1>2, <1>3, PartCodesTyped, IsResidues DEF Blocks
  <2>3. QED  BY <2>1, <2>2, Concat
<1>5. Macroblock(m, predicted) = Mode(m.mode) \o ((<<b>> \o s) \o t)
  <2>1. Macroblock(m, predicted)
          = Mode(m.mode) \o (<<b>> \o Joined(Parts(m)) \o Residual(m.res))
    BY <1>1 DEF Macroblock
  <2>2. Len(m.parts) = 2  BY <1>1, FunctionSeq DEF SplitParts
  <2>3. Parts(m) = PartCodes(m.parts, 2, n.mode)
    BY <2>2 DEF Parts, PartCodes, PartCode
  <2>4. QED  BY <2>1, <2>3
<1> DEFINE head == <<b>> \o s
<1>6. ASSUME NEW r, At(r, head \o t)
      PROVE  GetMacroblock(r, m.mode, x, y, predicted) = After(r, head \o t, m)
  <2> DEFINE q == Split(r, "RECT_SPLIT", x, y)
             g == Get(r, 1)
             a == After(r, <<b>>, b)
  <2>1. GetMacroblock(r, m.mode, x, y, predicted) = WithResidual(q)
    BY <1>1 DEF GetMacroblock, Predicted, MotionModes
  <2>2. /\ At(r, <<b>>) /\ a.ok /\ a.v = b /\ At(a, s)
        /\ \A w : After(a, s, w) = After(r, head, w)
    <3>1. At(r, <<b>> \o s)
      <4> HIDE DEF s, t, b
      <4>1. QED  BY <1>4, <1>6, Chained
    <3> HIDE DEF s, t, b
    <3>2. QED  BY <1>4, <3>1, Chained
  <2>3. g = a  BY <1>3, <2>2, GotBit
  <2>4. q = GetParts(a, n, 2, x, y)
    <3>1. q = IF g.ok THEN GetParts(g, [mode |-> "RECT_SPLIT",
                                        vertical |-> g.v = 1], 2, x, y)
              ELSE g
      BY DEF Split, Then
    <3>2. (b = 1) = m.vertical  BY <1>1, <1>3
    <3> HIDE DEF a, b, g
    <3>3. [mode |-> "RECT_SPLIT", vertical |-> g.v = 1] = n
      BY <2>2, <2>3, <3>2, Zenon
    <3>4. QED  BY <2>2, <2>3, <3>1, <3>3
  <2>5. GetParts(a, n, 2, x, y) = After(a, s, e)
    <3> DEFINE parts == m.parts
               k == 2
               S == [inter : {FALSE}] \cup MovedParts
    <3>1. m.parts \in [1..2 -> S]  BY <1>1 DEF SplitParts
    <3>3. PartsFit(n, parts, k, x, y)  BY <1>2
    <3>4. At(a, Joined(PartCodes(parts, k, n.mode)))  BY <2>2
    <3>5. First(parts, k) = parts /\ k \in Nat  BY <3>1, FirstAll
    <3> HIDE DEF parts, n, k, S, a, b
    <3>6. GetParts(a, n, k, x, y) =
            After(a, Joined(PartCodes(parts, k, n.mode)),
                  Extended(n, "parts", parts))
      BY <3>3, <3>4, <3>5, GotParts
    <3>7. QED  BY <3>6 DEF parts, k
  <2>6. q = After(r, head, e)
    <3> HIDE DEF q, a, s, e, n, b
    <3>1. QED  BY <2>2, <2>4, <2>5
  <2>7. Extended(e, "res", m.res) = m
    <3>1. e = [mode |-> "RECT_SPLIT", vertical |-> m.vertical, parts |-> m.parts]
      BY FieldVertical
    <3> HIDE DEF e
    <3>2. Extended([mode |-> "RECT_SPLIT", vertical |-> m.vertical,
                    parts |-> m.parts], "res", m.res)
            = [mode |-> "RECT_SPLIT", vertical |-> m.vertical,
               parts |-> m.parts, res |-> m.res]
      BY FieldRect
    <3>3. QED  BY <1>1, <3>1, <3>2
  <2>8. head \in Strings  BY <1>4
  <2> HIDE DEF head, e, q
  <2>9. WithResidual(q) = After(r, head \o t, Extended(e, "res", m.res))
    BY <1>1, <1>6, <2>6, <2>8, ResidualBehind
  <2>10. QED  BY <2>1, <2>7, <2>9
<1>7. head \o t \in Strings  BY <1>4, Concat
<1>8. Macroblock(m, predicted) = Mode(m.mode) \o (head \o t)  BY <1>5
<1> HIDE DEF head, t
<1>9. QED  BY <1>6, <1>7, <1>8 DEF Readable

\* Every macroblock that an encoder may choose where it chooses it.
LEMMA MacroblockReadable ==
  ASSUME picture \in Frames, NEW m \in Macroblocks, m.mode # "SKIP",
         NEW predicted, IsWords(predicted), NEW x, NEW y,
         Candidate(picture, m, x, y), GlobalKnown,
         P => decoder.use_global = picture.use_global
  PROVE  Readable(m, predicted, x, y)
<1> DEFINE planes == {p \in [1..9 -> Byte \cup SignedByte] : \A i \in 1..9 :
                        p[i] \in IF i % 3 = 1 THEN Byte ELSE SignedByte}
           gradient == [mode : {"GRADIENT"}, planes : planes,
                        res : Residues(Blocks)]
<1>0. m.mode \in MotionModes => P  BY DEF Candidate, P
<1>1. CASE m \in [mode : {"INTER"}, mv : Word \X Word, res : Residues(Blocks)]
  <2>1. m.mode = "INTER"  BY <1>1
  <2>2. QED  BY <1>0, <1>1, <2>1, InterReadable DEF MotionModes
<1>2. CASE m \in [mode : {"GLOBAL"}, res : Residues(Blocks)]
  <2>1. m.mode = "GLOBAL"  BY <1>2
  <2>2. QED  BY <1>0, <1>2, <2>1, GlobalReadable DEF MotionModes
<1>3. CASE m \in [mode : {"SPLIT_INTER"},
                  parts : SplitParts(4, [inter : {TRUE}, mv : Word \X Word,
                                         res : Residues(SubBlocks)])]
  <2>1. m.mode = "SPLIT_INTER"  BY <1>3
  <2>2. QED  BY <1>0, <1>3, <2>1, SplitInterReadable DEF MotionModes
<1>4. CASE m \in [mode : {"SPLIT_JOINT"}, parts : SplitParts(4, MovedParts),
                  res : Residues(Blocks)]
  <2>1. m.mode = "SPLIT_JOINT"  BY <1>4
  <2>2. QED  BY <1>0, <1>4, <2>1, SplitJointReadable DEF MotionModes
<1>5. CASE m \in [mode : {"RECT_SPLIT"}, vertical : BOOLEAN,
                  parts : SplitParts(2, MovedParts), res : Residues(Blocks)]
  <2>1. m.mode = "RECT_SPLIT"  BY <1>5
  <2>2. QED  BY <1>0, <1>5, <2>1, RectReadable DEF MotionModes
<1>6. CASE m \in [mode : {"INTRA"}, intra_mode : 0..3, res : Residues(Blocks)]
  BY <1>6, IntraReadable
<1>7. CASE m \in [mode : {"FILL"}, planes : [1..3 -> Byte],
                  res : Residues(Blocks)]
  BY <1>7, FillReadable
<1>8. CASE m \in gradient
  <2>1. /\ m.planes \in planes /\ m.res \in Residues(Blocks)
        /\ m = [mode |-> "GRADIENT", planes |-> m.planes, res |-> m.res]
    BY <1>8
  <2>2. \A p \in planes : /\ p \in [1..9 -> Byte \cup SignedByte]
                          /\ \A i \in 1..9 :
                               p[i] \in IF i % 3 = 1 THEN Byte ELSE SignedByte
    OBVIOUS
  <2> HIDE DEF planes
  <2>3. PICK a \in planes, b \in Residues(Blocks) :
          m = [mode |-> "GRADIENT", planes |-> a, res |-> b]
    BY <2>1
  <2>4. /\ a \in [1..9 -> Byte \cup SignedByte]
        /\ \A i \in 1..9 : a[i] \in IF i % 3 = 1 THEN Byte ELSE SignedByte
    BY <2>2
  <2>5. QED  BY <2>3, <2>4, GradientReadable
<1>9. CASE m \in Palettes(2) \cup Palettes(4) \cup Palettes(8)
  <2>1. PICK n \in {2, 4, 8} : m \in Palettes(n)  BY <1>9
  <2>2. QED  BY <2>1, PaletteReadable
<1>10. CASE m \in [mode : {"LITERAL"}, y : [1..Samples -> 0..127],
                   u : [1..Samples -> 0..63], v : [1..Samples -> 0..63],
                   correction : [1..2 -> SignedByte]]
  BY <1>10, LiteralReadable
<1>11. m \notin [mode : {"SKIP"}]  OBVIOUS
<1>12. QED
  BY <1>1, <1>2, <1>3, <1>4, <1>5, <1>6, <1>7, <1>8, <1>9, <1>10, <1>11,
     Zenon DEF Macroblocks

\* The codes of the modes.
LEMMA ModeCodes ==
  /\ \A a \in DOMAIN ModeCode : ModeCode[a] \in 0..11
  /\ \A a \in DOMAIN ModeCode : {t \in DOMAIN ModeCode : ModeCode[t] = ModeCode[a]} = {a}
<1>1. \A a \in DOMAIN ModeCode : ModeCode[a] \in 0..11  BY DEF ModeCode
<1>2. \A a, t \in DOMAIN ModeCode : ModeCode[t] = ModeCode[a] => t = a
  BY DEF ModeCode
<1>3. QED  BY <1>1, <1>2

LEMMA GotMode ==
  ASSUME NEW a \in DOMAIN ModeCode, NEW t \in Strings,
         NEW r, At(r, Mode(a) \o t)
  PROVE  /\ Mode(a) \in Strings
         /\ Get(r, 4) = After(r, Mode(a), ModeCode[a])
         /\ At(Get(r, 4), t) /\ Get(r, 4).ok /\ Get(r, 4).v = ModeCode[a]
         /\ \A w : After(Get(r, 4), t, w) = After(r, Mode(a) \o t, w)
<1> DEFINE c == ModeCode[a]
           s == Mode(a)
<1>1. c \in Nat /\ c < 2^4 /\ 4 \in 0..32  BY ModeCodes
<1>2. s = Bits(c, 4)  BY DEF Mode
<1> HIDE DEF c
<1>3. s \in Strings  BY <1>1, <1>2, BitsValue
<1> HIDE DEF s
<1>4. At(r, s)  BY <1>3, Chained DEF s
<1>5. Get(r, 4) = After(r, s, c)  BY <1>1, <1>2, <1>4, GotBits
<1>6. /\ After(r, s, c).ok /\ After(r, s, c).v = c /\ At(After(r, s, c), t)
      /\ \A w : After(After(r, s, c), t, w) = After(r, s \o t, w)
  BY <1>3, Chained DEF s
<1>7. QED  BY <1>3, <1>5, <1>6 DEF s, c

\* A macroblock of any mode but SKIP, at a place where the encoder may choose
\* it: the decoder reads the mode and then exactly this macroblock, and stands
\* behind its code (the candidates of hlv1_encode.c, decoder_decode_packet).
THEOREM MacroblockReadBack ==
  ASSUME picture \in Frames, NEW m \in Macroblocks, m.mode # "SKIP",
         NEW predicted, IsWords(predicted), NEW x, NEW y,
         Candidate(picture, m, x, y), GlobalKnown,
         P => decoder.use_global = picture.use_global,
         NEW r, At(r, Macroblock(m, predicted))
  PROVE  /\ Get(r, 4).ok /\ Get(r, 4).v = ModeCode[m.mode]
         /\ GetMacroblock(Get(r, 4), m.mode, x, y, predicted) =
              After(r, Macroblock(m, predicted), m)
<1>1. Readable(m, predicted, x, y)  BY MacroblockReadable
<1>2. PICK body \in Strings :
        /\ Macroblock(m, predicted) = Mode(m.mode) \o body
        /\ \A s : At(s, body) =>
             GetMacroblock(s, m.mode, x, y, predicted) = After(s, body, m)
  BY <1>1 DEF Readable
<1>3. m.mode \in DOMAIN ModeCode
  BY DEF Macroblocks, Palettes, ModeCode
<1>4. At(r, Mode(m.mode) \o body)  BY <1>2
<1>5. QED  BY <1>2, <1>3, <1>4, GotMode

-----------------------------------------------------------------------------
(* What the encoder does with a picture, one macroblock after the other.   *)

Coders == [bits : Strings, pending : 0..16, encoder : Encoders]

Start ==
  [bits |-> CASE ~P -> <<>>
              [] P /\ ~picture.use_global -> <<0>>
              [] P /\ picture.use_global -> <<1>> \o Vector(picture.global),
   pending |-> 0,
   encoder |-> [top |-> Row(Fallback), cur |-> Row(Fallback)]]

\* Whether a run of skips ends with its macroblock n.
Flush(run, n) == run = 17 \/ LastColumn(n - 1)
Skipped(n) == picture.mbs[n].mode = "SKIP"

\* Everything that is behind a run when it ends with the macroblock before.
Upto(e) == Aligned(e.bits) \o SkipRun(e.pending)

Coding(e, n) ==
  Macroblock(picture.mbs[n], Predictor(e.encoder, Fallback, Column(n - 1)))
NextBits(e, n) ==
  CASE Skipped(n) /\ Flush(e.pending + 1, n) ->
         Aligned(e.bits) \o SkipRun(e.pending + 1)
    [] Skipped(n) /\ ~Flush(e.pending + 1, n) -> Aligned(e.bits)
    [] OTHER -> Upto(e) \o Coding(e, n)
NextPending(e, n) ==
  IF Skipped(n) /\ ~Flush(e.pending + 1, n) THEN e.pending + 1 ELSE 0
NextEncoder(e, n) ==
  IF P THEN Moved(e.encoder, Fallback, Column(n - 1), 1,
                  SelectedVector(picture.mbs[n]))
  ELSE e.encoder
Step(e, n) ==
  [bits |-> NextBits(e, n), pending |-> NextPending(e, n),
   encoder |-> NextEncoder(e, n)]

\* t[n] is the encoder behind n macroblocks.
Encodes(t) ==
  /\ t[0] = Start
  /\ \A n \in 1..Total : t[n] = Step(t[n - 1], n)
  /\ \A n \in 0..Total : t[n] \in Coders

LEMMA StepSame ==
  ASSUME picture' = picture, NEW e, NEW n
  PROVE  Step(e, n)' = Step(e, n) /\ Start' = Start /\ Coders' = Coders
         /\ Total' = Total
<1>1. \A m, p : Macroblock(m, p)' = Macroblock(m, p)
  BY DEF Macroblock, Residual, Part, Parts, Fallback, P
<1>2. /\ P' = P /\ Fallback' = Fallback /\ Total' = Total
      /\ \A c, f, k : Predictor(c, f, k)' = Predictor(c, f, k)
      /\ \A c, f, k, i, v : Moved(c, f, k, i, v)' = Moved(c, f, k, i, v)
      /\ \A v : Row(v)' = Row(v)
      /\ \A m : SelectedVector(m)' = SelectedVector(m)
      /\ \A k : LastColumn(k)' = LastColumn(k) /\ Column(k)' = Column(k)
      /\ Encoders' = Encoders
  BY DEF P, Fallback, Total, Predictor, Moved, Row, SelectedVector, LastColumn,
         Column, Encoders, Row16
<1>3. Coding(e, n)' = Coding(e, n)  BY <1>1, <1>2 DEF Coding
<1>4. NextBits(e, n)' = NextBits(e, n)
  BY <1>2, <1>3 DEF NextBits, Skipped, Flush, Upto
<1>5. NextPending(e, n)' = NextPending(e, n)
  BY <1>2 DEF NextPending, Skipped, Flush
<1>6. NextEncoder(e, n)' = NextEncoder(e, n)
  BY <1>2 DEF NextEncoder
<1>7. Step(e, n)' = Step(e, n)  BY <1>4, <1>5, <1>6 DEF Step
<1>8. Start' = Start  BY <1>2 DEF Start
<1>9. Coders' = Coders  BY <1>2 DEF Coders
<1>10. QED  BY <1>2, <1>7, <1>8, <1>9

LEMMA EncodesSame ==
  ASSUME picture' = picture, NEW t, Encodes(t)
  PROVE  Encodes(t)'
<1>1. /\ \A e, n : Step(e, n)' = Step(e, n)
      /\ Start' = Start /\ Coders' = Coders /\ Total' = Total
  BY StepSame
<1>2. QED  BY <1>1 DEF Encodes

\* The macroblocks that the encoder chose.
LEMMA ChosenAt ==
  ASSUME PictureInv, NEW n \in 1..Total
  PROVE  /\ picture.mbs[n] \in Macroblocks
         /\ Candidate(picture, picture.mbs[n], 16 * ((n - 1) % picture.cols),
                      16 * ((n - 1) \div picture.cols))
         /\ Skipped(n) => P /\ picture.mbs[n] = [mode |-> "SKIP"]
<1>1. picture \in Frames /\ Len(picture.mbs) = Total  BY FramesOf
<1>2. Chosen(picture)  BY PictureAssumption DEF PictureInv
<1>3. picture.mbs[n] \in Macroblocks
  <2>1. picture.mbs \in Seq(Macroblocks)  BY <1>1, FrameTyped
  <2>2. QED  BY <1>1, <2>1
<1>4. Candidate(picture, picture.mbs[n], 16 * ((n - 1) % picture.cols),
                16 * ((n - 1) \div picture.cols))
  BY <1>1, <1>2 DEF Chosen
<1>5. ASSUME Skipped(n) PROVE P /\ picture.mbs[n] = [mode |-> "SKIP"]
  <2>1. picture.mbs[n].mode = "SKIP"  BY <1>5 DEF Skipped
  <2>2. P  BY <1>4, <2>1 DEF Candidate, P, MotionModes
  <2>3. \A m \in Macroblocks : m.mode = "SKIP" => m \in [mode : {"SKIP"}]
    BY DEF Macroblocks, Palettes
  <2>4. \A m \in [mode : {"SKIP"}] : m = [mode |-> "SKIP"]  OBVIOUS
  <2>5. QED  BY <1>3, <2>1, <2>2, <2>3, <2>4
<1>6. QED  BY <1>3, <1>4, <1>5

LEMMA ColumnIn ==
  ASSUME PictureInv, NEW n \in Nat
  PROVE  Column(n) \in 1..picture.cols
<1>1. picture.cols \in Nat \ {0}  BY FramesOf, FrameTyped
<1>2. n % picture.cols \in 0..(picture.cols - 1)  BY <1>1, DivMod
<1>3. QED  BY <1>1, <1>2 DEF Column

LEMMA PredictedWords ==
  ASSUME PictureInv, NEW context \in Encoders, NEW n \in Nat
  PROVE  IsWords(Predictor(context, Fallback, Column(n)))
<1>1. picture \in Frames /\ picture.cols \in Nat \ {0}
  BY FramesOf, FrameTyped
<1>2. Column(n) \in 1..picture.cols  BY ColumnIn
<1>3. context.top \in Row16 /\ context.cur \in Row16  BY DEF Encoders
<1>4. Fallback[1] \in Word /\ Fallback[2] \in Word
  BY <1>1, FallbackTyped DEF IsWords
<1>5. Word \in SUBSET Int /\ Word \subseteq Word  BY Words
<1> DEFINE p == Predictor(context, Fallback, Column(n))
<1>6. p[1] \in Word /\ p[2] \in Word
  BY <1>1, <1>2, <1>3, <1>4, <1>5, PredictorIn
<1>7. QED  BY <1>6 DEF IsWords

LEMMA CodingTyped ==
  ASSUME PictureInv, NEW n \in 1..Total, ~Skipped(n), NEW e \in Coders
  PROVE  /\ Coding(e, n) \in Strings
         /\ IsWords(Predictor(e.encoder, Fallback, Column(n - 1)))
<1> DEFINE predicted == Predictor(e.encoder, Fallback, Column(n - 1))
           m == picture.mbs[n]
<1>1. IsWords(predicted)
  <2>1. e.encoder \in Encoders  BY DEF Coders
  <2>2. n - 1 \in Nat  OBVIOUS
  <2>3. QED  BY <2>1, <2>2, PredictedWords
<1>2. m \in Macroblocks /\ m.mode # "SKIP"  BY ChosenAt DEF Skipped
<1>3. picture \in Frames  BY FramesOf
<1>4. Coding(e, n) = Macroblock(m, predicted)  BY DEF Coding
<1> HIDE DEF m, predicted
<1>5. Macroblock(m, predicted) \in Strings
  BY <1>1, <1>2, <1>3, MacroblockTyped
<1>6. QED  BY <1>1, <1>4, <1>5 DEF predicted

LEMMA UptoTyped ==
  ASSUME NEW e \in Coders
  PROVE  /\ e.bits \in Strings /\ e.pending \in 0..16
         /\ Aligned(e.bits) \in Strings
         /\ SkipRun(e.pending) \in Strings /\ SkipRun(e.pending + 1) \in Strings
         /\ Upto(e) \in Strings
<1>1. e.bits \in Strings /\ e.pending \in 0..16  BY DEF Coders
<1>2. Aligned(e.bits) \in Strings  BY <1>1, AlignedTyped
<1>3. e.pending \in 0..17 /\ e.pending + 1 \in 0..17  BY <1>1
<1>4. SkipRun(e.pending) \in Strings /\ SkipRun(e.pending + 1) \in Strings
  BY <1>3, SkipRunTyped
<1>5. QED  BY <1>1, <1>2, <1>4, Concat DEF Upto

LEMMA StepTyped ==
  ASSUME PictureInv, NEW n \in 1..Total, NEW e \in Coders
  PROVE  Step(e, n) \in Coders
<1>1. /\ Aligned(e.bits) \in Strings /\ e.pending \in 0..16
      /\ SkipRun(e.pending + 1) \in Strings /\ Upto(e) \in Strings
  BY UptoTyped
<1>2. NextBits(e, n) \in Strings
  <2>1. CASE Skipped(n) /\ Flush(e.pending + 1, n)
    <3>1. NextBits(e, n) = Aligned(e.bits) \o SkipRun(e.pending + 1)
      BY <2>1 DEF NextBits
    <3>2. QED  BY <1>1, <3>1, Concat
  <2>2. CASE Skipped(n) /\ ~Flush(e.pending + 1, n)
    <3>1. NextBits(e, n) = Aligned(e.bits)  BY <2>2 DEF NextBits
    <3>2. QED  BY <1>1, <3>1
  <2>3. CASE ~Skipped(n)
    <3>1. NextBits(e, n) = Upto(e) \o Coding(e, n)  BY <2>3 DEF NextBits
    <3>2. QED  BY <1>1, <2>3, <3>1, CodingTyped, Concat
  <2>4. QED  BY <2>1, <2>2, <2>3
<1>3. NextPending(e, n) \in 0..16
  <2>1. CASE ~Flush(e.pending + 1, n)
    <3>1. e.pending + 1 # 17  BY <2>1 DEF Flush
    <3>2. e.pending + 1 \in 0..16  BY <1>1, <3>1
    <3>3. QED  BY <3>2 DEF NextPending
  <2>2. CASE Flush(e.pending + 1, n)  BY <2>2 DEF NextPending
  <2>3. QED  BY <2>1, <2>2
<1>4. NextEncoder(e, n) \in Encoders
  <2>1. e.encoder \in Encoders  BY DEF Coders
  <2>2. picture \in Frames /\ picture.mbs[n] \in Macroblocks
    BY FramesOf, ChosenAt
  <2>3. IsVector(Fallback) /\ IsVector(SelectedVector(picture.mbs[n]))
    BY <2>2, SelectedTyped, FallbackTyped, WordsAreVector
  <2> DEFINE mv == SelectedVector(picture.mbs[n])
             next == Moved(e.encoder, Fallback, Column(n - 1), 1, mv)
  <2> HIDE DEF mv
  <2>4. next \in Encoders  BY <2>1, <2>3, MovedTyped DEF mv
  <2>5. NextEncoder(e, n) = IF P THEN next ELSE e.encoder
    BY DEF NextEncoder, mv
  <2> HIDE DEF next
  <2>6. QED  BY <2>1, <2>4, <2>5
<1>5. QED  BY <1>2, <1>3, <1>4 DEF Step, Coders

LEMMA EncodesExists ==
  ASSUME PictureInv, Start \in Coders
  PROVE  \E t : Encodes(t)
<1> DEFINE n == Total
           D == [i \in 0..n |-> Coders]
           step == [i \in 1..n |-> [e \in Coders |-> Step(e, i)]]
<1>1. n \in Nat  BY FramesOf, FrameTyped
<1>2. Steps(step, n, D)
  <2>1. ASSUME NEW i \in 1..n PROVE step[i] \in [D[i - 1] -> D[i]]
    <3>1. \A e \in Coders : Step(e, i) \in Coders  BY StepTyped
    <3>2. D[i - 1] = Coders /\ D[i] = Coders  BY <1>1
    <3>3. step[i] = [e \in Coders |-> Step(e, i)]  OBVIOUS
    <3>4. QED  BY <3>1, <3>2, <3>3
  <2> HIDE DEF step, D
  <2>2. QED  BY <2>1 DEF Steps
<1>3. Start \in D[0]  BY <1>1
<1>4. PICK t : Takes(t, n, Start, step) /\ Within(t, n, D)
  <2> HIDE DEF step, D, n
  <2>1. QED  BY <1>1, <1>2, <1>3, Recursion
<1>5. \A i \in 0..n : t[i] \in Coders
  <2>1. \A i \in 0..n : D[i] = Coders  OBVIOUS
  <2> HIDE DEF D
  <2>2. QED  BY <1>4, <2>1 DEF Within
<1>6. t[0] = Start  BY <1>1, <1>4 DEF Takes
<1>7. ASSUME NEW i \in 1..n PROVE t[i] = Step(t[i - 1], i)
  <2>1. t[i] = step[i][t[i - 1]]
    <3> HIDE DEF step, D
    <3>1. t = [j \in 0..n |-> IF j = 0 THEN Start ELSE step[j][t[j - 1]]]
      BY <1>4 DEF Takes
    <3> HIDE DEF n
    <3>2. i \in 0..n /\ i # 0  BY <1>1
    <3>3. QED  BY <3>1, <3>2
  <2>2. i - 1 \in 0..n  BY <1>1
  <2>3. t[i - 1] \in Coders  BY <1>5, <2>2
  <2>4. step[i][t[i - 1]] = Step(t[i - 1], i)  BY <2>3
  <2>5. QED  BY <2>1, <2>4
<1>8. QED  BY <1>5, <1>6, <1>7 DEF Encodes

\* Where the encoder is on the way t.
Encoded(t) ==
  /\ t[coded] = [bits |-> bits, pending |-> pending, encoder |-> encoder]
  /\ pc # "encode" => coded = Total

LEMMA InitEncoded ==
  ASSUME Init
  PROVE  \E t : Encodes(t) /\ Encoded(t)
<1>1. Inv  BY InitInv
<1>2. /\ bits \in Strings /\ pending = 0 /\ coded = 0 /\ encoder \in Encoders
      /\ pc = "encode"
  BY <1>1 DEF Inv, EncoderInv, Init
<1>3. Start = [bits |-> bits, pending |-> pending, encoder |-> encoder]
  BY DEF Init, Start
<1>4. Start \in Coders  BY <1>2, <1>3 DEF Coders
<1>5. PICK t : Encodes(t)  BY <1>1, <1>4, EncodesExists DEF Inv
<1>6. t[0] = Start  BY <1>5 DEF Encodes
<1>7. QED  BY <1>2, <1>3, <1>5, <1>6 DEF Encoded

LEMMA EncodeEncoded ==
  ASSUME Inv, EncodeMacroblock, NEW t, Encodes(t), Encoded(t)
  PROVE  Encodes(t)' /\ Encoded(t)'
<1> DEFINE e == t[coded]
           n == coded + 1
           m == picture.mbs[n]
           run == e.pending + 1
           flush == run = 17 \/ LastColumn(coded)
<1>1. /\ pc = "encode" /\ coded < Total /\ coded' = n
      /\ picture' = picture /\ pc' = pc
      /\ e = [bits |-> bits, pending |-> pending, encoder |-> encoder]
      /\ coded \in Nat /\ Total \in Nat
  <2>1. Total \in Nat  BY FramesOf, FrameTyped DEF Inv
  <2>2. coded \in 0..Total  BY DEF Inv, EncoderInv
  <2>3. QED  BY <2>1, <2>2 DEF EncodeMacroblock, Encoded
<1>2. e.bits = bits /\ e.pending = pending /\ e.encoder = encoder
  BY <1>1
<1>3. n \in 1..Total /\ n - 1 = coded  BY <1>1
<1>4. t[n] = Step(e, n)  BY <1>3 DEF Encodes
<1>5. bits' = NextBits(e, n)
  <2>1. bits' = CASE m.mode = "SKIP" /\ flush -> Aligned(bits) \o SkipRun(run)
                  [] m.mode = "SKIP" /\ ~flush -> Aligned(bits)
                  [] OTHER -> Aligned(bits) \o SkipRun(pending) \o
                       Macroblock(m, Predictor(encoder, Fallback, Column(coded)))
    BY <1>2 DEF EncodeMacroblock
  <2>2. Skipped(n) <=> m.mode = "SKIP"  BY DEF Skipped
  <2>3. Flush(run, n) <=> flush  BY <1>3 DEF Flush
  <2>4. Upto(e) \o Coding(e, n) =
          Aligned(bits) \o SkipRun(pending) \o
            Macroblock(m, Predictor(encoder, Fallback, Column(coded)))
    BY <1>2, <1>3 DEF Upto, Coding
  <2> HIDE DEF e, m, run, flush, n
  <2>5. QED  BY <1>2, <2>1, <2>2, <2>3, <2>4 DEF NextBits, run
<1>6. pending' = NextPending(e, n)
  <2>1. pending' = IF m.mode = "SKIP" /\ ~flush THEN run ELSE 0
    BY <1>2 DEF EncodeMacroblock
  <2>2. Skipped(n) <=> m.mode = "SKIP"  BY DEF Skipped
  <2>3. Flush(run, n) <=> flush  BY <1>3 DEF Flush
  <2>4. QED  BY <2>1, <2>2, <2>3 DEF NextPending
<1>7. encoder' = NextEncoder(e, n)
  BY <1>2, <1>3 DEF NextEncoder, EncodeMacroblock
<1>8. t[n] = [bits |-> bits', pending |-> pending', encoder |-> encoder']
  BY <1>4, <1>5, <1>6, <1>7 DEF Step
<1>9. Encodes(t)'  BY <1>1, EncodesSame
<1> HIDE DEF n
<1>10. QED  BY <1>1, <1>8, <1>9 DEF Encoded

-----------------------------------------------------------------------------
(* Bytes.                                                                  *)

Padding(s) == (8 - (Len(s) % 8)) % 8

LEMMA AlignedLength ==
  ASSUME NEW s \in Strings
  PROVE  /\ Padding(s) \in 0..7 /\ Bits(0, Padding(s)) \in Strings
         /\ Aligned(s) = s \o Bits(0, Padding(s))
         /\ Len(Bits(0, Padding(s))) = Padding(s)
         /\ Len(Aligned(s)) = Len(s) + Padding(s)
         /\ Len(Aligned(s)) % 8 = 0
         /\ Len(s) % 8 = 0 => Aligned(s) = s
<1> DEFINE l == Len(s)
           w == l % 8
           n == Padding(s)
           z == Bits(0, n)
<1>1. l \in Nat  BY DEF Strings
<1>2. w \in 0..7  BY <1>1
<1>3. n = (8 - w) % 8  BY DEF Padding
<1>4. n = IF w = 0 THEN 0 ELSE 8 - w
  <2> HIDE DEF w, n
  <2>1. w = 0 \/ w = 1 \/ w = 2 \/ w = 3 \/ w = 4 \/ w = 5 \/ w = 6 \/ w = 7
    BY <1>2
  <2>2. QED  BY <1>3, <2>1
<1>5. n \in 0..7 /\ n \in 0..32
  <2> HIDE DEF w, n
  <2>1. QED  BY <1>2, <1>4
<1>6. (l + n) % 8 = 0
  <2>1. l = 8 * (l \div 8) + w /\ l \div 8 \in Nat  BY <1>1
  <2> DEFINE q == l \div 8
  <2>2. l = 8 * q + w /\ q \in Nat  BY <2>1
  <2> HIDE DEF q, l, w, n
  <2>3. l + n = 8 * q \/ l + n = 8 * (q + 1)  BY <1>2, <1>4, <2>2
  <2>4. QED  BY <2>2, <2>3
<1> HIDE DEF n
<1>7. z \in Strings /\ Len(z) = n  BY <1>5, BitsValue
<1>8. Aligned(s) = s \o z  BY DEF Aligned, n, Padding
<1> HIDE DEF z
<1>9. Len(s \o z) = l + n
  <2>1. s \in Seq(Bit) /\ z \in Seq(Bit)  BY <1>7 DEF Strings
  <2>2. QED  BY <1>7, <2>1
<1>10. w = 0 => s \o z = s
  <2>1. w = 0 => Len(z) = 0
    <3> HIDE DEF w
    <3>1. QED  BY <1>4, <1>7
  <2>2. s \in Seq(Bit) /\ z \in Seq(Bit)  BY <1>7 DEF Strings
  <2>3. Len(z) = 0 => s \o z = s  BY <2>2
  <2>4. QED  BY <2>1, <2>3
<1>11. QED  BY <1>5, <1>6, <1>7, <1>8, <1>9, <1>10 DEF n, z

LEMMA AlignedTwice ==
  ASSUME NEW s \in Strings
  PROVE  Aligned(Aligned(s)) = Aligned(s)
<1>1. Aligned(s) \in Strings /\ Len(Aligned(s)) % 8 = 0
  BY AlignedTyped, AlignedLength
<1>2. QED  BY <1>1, AlignedLength

\* Skip runs are whole bytes; a single skip is half a byte and padding.
LEMMA RunLength ==
  ASSUME NEW n \in 0..17
  PROVE  /\ SkipRun(n) \in Strings
         /\ Len(SkipRun(n)) = IF n = 0 THEN 0 ELSE 8
<1>1. /\ Mode("SKIP") \in Strings /\ Len(Mode("SKIP")) = 4
      /\ Mode("SKIP_RUN") \in Strings /\ Len(Mode("SKIP_RUN")) = 4
  <2>1. 4 \in 0..32 /\ 0 \in Nat /\ 9 \in Nat  OBVIOUS
  <2>2. Mode("SKIP") = Bits(0, 4) /\ Mode("SKIP_RUN") = Bits(9, 4)
    BY DEF Mode, ModeCode
  <2>3. QED  BY <2>1, <2>2, BitsValue
<1>2. Bits(0, 4) \in Strings /\ Len(Bits(0, 4)) = 4
  <2>1. 4 \in 0..32 /\ 0 \in Nat  OBVIOUS
  <2>2. QED  BY <2>1, BitsValue
<1>3. n > 1 => Bits(n - 2, 4) \in Strings /\ Len(Bits(n - 2, 4)) = 4
  <2>1. 4 \in 0..32 /\ (n > 1 => n - 2 \in Nat)  OBVIOUS
  <2>2. QED  BY <2>1, BitsValue
<1>4. \A a, b \in Strings : Len(a \o b) = Len(a) + Len(b)  BY DEF Strings
<1>5. SkipRun(n) \in Strings  BY SkipRunTyped
<1>6. CASE n = 0
  <2>1. SkipRun(n) = <<>>  BY <1>6 DEF SkipRun
  <2>2. QED  BY <1>5, <1>6, <2>1
<1>7. CASE n = 1
  <2>1. SkipRun(n) = Mode("SKIP") \o Bits(0, 4)  BY <1>7 DEF SkipRun
  <2>2. Len(Mode("SKIP") \o Bits(0, 4)) = 4 + 4  BY <1>1, <1>2, <1>4
  <2>3. Len(SkipRun(n)) = 8  BY <2>1, <2>2
  <2>4. QED  BY <1>5, <1>7, <2>3
<1>8. CASE n > 1
  <2>1. SkipRun(n) = Mode("SKIP_RUN") \o Bits(n - 2, 4)  BY <1>8 DEF SkipRun
  <2>2. Len(Mode("SKIP_RUN") \o Bits(n - 2, 4)) = 4 + 4
    BY <1>1, <1>3, <1>4, <1>8
  <2>3. Len(SkipRun(n)) = 8  BY <2>1, <2>2
  <2>4. QED  BY <1>5, <1>8, <2>3
<1>9. QED  BY <1>6, <1>7, <1>8

LEMMA WholeBytes ==
  ASSUME NEW s \in Strings, NEW k \in 0..17
  PROVE  /\ Aligned(s) \o SkipRun(k) \in Strings
         /\ Aligned(Aligned(s) \o SkipRun(k)) = Aligned(s) \o SkipRun(k)
<1> DEFINE a == Aligned(s)
           b == SkipRun(k)
<1>1. a \in Strings /\ Len(a) % 8 = 0  BY AlignedTyped, AlignedLength
<1>2. b \in Strings /\ (Len(b) = 0 \/ Len(b) = 8)  BY RunLength
<1> HIDE DEF a, b
<1>3. a \o b \in Strings  BY <1>1, <1>2, Concat
<1>4. Len(a \o b) % 8 = 0
  <2>0. a \in Seq(Bit) /\ b \in Seq(Bit)  BY <1>1, <1>2 DEF Strings
  <2>1. Len(a \o b) = Len(a) + Len(b) /\ Len(a) \in Nat  BY <2>0
  <2> DEFINE l == Len(a)
  <2>2. (l + 0) % 8 = 0 /\ (l + 8) % 8 = 0
    <3>1. l % 8 = 0 /\ l \in Nat  BY <1>1, <2>1
    <3> HIDE DEF l
    <3>2. QED  BY <3>1
  <2>3. QED  BY <1>2, <2>1, <2>2
<1>5. QED  BY <1>3, <1>4, AlignedLength DEF a, b

LEMMA UptoLength ==
  ASSUME NEW e \in Coders
  PROVE  Upto(e) \in Strings /\ Aligned(Upto(e)) = Upto(e)
         /\ (e.pending = 0 => Upto(e) = Aligned(e.bits))
<1> DEFINE a == Aligned(e.bits)
           b == SkipRun(e.pending)
<1>1. a \in Strings /\ b \in Strings /\ Upto(e) = a \o b
      /\ e.bits \in Strings /\ e.pending \in 0..17
  BY UptoTyped DEF Upto
<1>2. a \o b \in Strings /\ Aligned(a \o b) = a \o b
  BY <1>1, WholeBytes
<1>3. e.pending = 0 => a \o b = a
  <2>1. e.pending = 0 => Len(b) = 0  BY <1>1, RunLength
  <2> HIDE DEF a, b
  <2>2. a \in Seq(Bit) /\ b \in Seq(Bit)  BY <1>1 DEF Strings
  <2>3. Len(b) = 0 => a \o b = a  BY <2>2
  <2>4. QED  BY <2>1, <2>3
<1> HIDE DEF b
<1>4. QED  BY <1>1, <1>2, <1>3

-----------------------------------------------------------------------------
(* The packet begins with what the encoder has written so far.             *)

Packet(t) == Reader(t[Total].bits)

LEMMA SelfAhead ==
  ASSUME NEW s \in Strings
  PROVE  At(Reader(s), s)
BY DEF At, Reader, IsReader, Strings

LEMMA StepAligned ==
  ASSUME PictureInv, NEW t, Encodes(t), NEW n \in 1..Total,
         NEW r, At(r, t[n].bits)
  PROVE  At(r, Aligned(t[n - 1].bits)) /\ At(r, t[n - 1].bits)
<1> DEFINE e == t[n - 1]
           a == Aligned(e.bits)
<1>1. n - 1 \in 0..Total /\ Total \in Nat
  BY FramesOf, FrameTyped
<1>2. e \in Coders /\ t[n] = Step(e, n)  BY <1>1 DEF Encodes
<1>3. t[n].bits = NextBits(e, n)  BY <1>2 DEF Step
<1> HIDE DEF e
<1>4. /\ a \in Strings /\ SkipRun(e.pending) \in Strings
      /\ SkipRun(e.pending + 1) \in Strings /\ Upto(e) \in Strings
      /\ e.bits \in Strings
  BY <1>2, UptoTyped
<1>5. At(r, a)
  <2>1. CASE Skipped(n) /\ Flush(e.pending + 1, n)
    <3>1. NextBits(e, n) = a \o SkipRun(e.pending + 1)
      BY <2>1 DEF NextBits
    <3>2. At(r, a \o SkipRun(e.pending + 1))  BY <1>3, <3>1
    <3> HIDE DEF a
    <3>3. QED  BY <1>4, <3>2, Chained
  <2>2. CASE Skipped(n) /\ ~Flush(e.pending + 1, n)
    BY <1>3, <2>2 DEF NextBits
  <2>3. CASE ~Skipped(n)
    <3>1. NextBits(e, n) = Upto(e) \o Coding(e, n)  BY <2>3 DEF NextBits
    <3>2. Coding(e, n) \in Strings  BY <1>2, <2>3, CodingTyped
    <3>3. At(r, Upto(e) \o Coding(e, n))  BY <1>3, <3>1
    <3>4. At(r, Upto(e))  BY <1>4, <3>2, <3>3, Chained
    <3>5. Upto(e) = a \o SkipRun(e.pending)  BY DEF Upto
    <3> HIDE DEF a
    <3>6. QED  BY <1>4, <3>4, <3>5, Chained
  <2>4. QED  BY <2>1, <2>2, <2>3
<1>6. At(r, e.bits)
  <2>1. a = e.bits \o Bits(0, Padding(e.bits)) /\ Bits(0, Padding(e.bits)) \in Strings
    BY <1>4, AlignedLength
  <2> DEFINE z == Bits(0, Padding(e.bits))
  <2>2. At(r, e.bits \o z) /\ z \in Strings  BY <1>5, <2>1
  <2> HIDE DEF z
  <2>3. QED  BY <1>4, <2>2, Chained
<1>7. QED  BY <1>5, <1>6 DEF e

LEMMA Written ==
  ASSUME PictureInv, NEW t, Encodes(t), NEW n \in 0..Total
  PROVE  At(Packet(t), t[n].bits)
<1> DEFINE r == Packet(t)
           T == {j \in 0..Total : At(r, t[Total - j].bits)}
<1>1. Total \in Nat  BY FramesOf, FrameTyped
<1>2. 0 \in T
  <2>1. t[Total] \in Coders  BY <1>1 DEF Encodes
  <2>2. t[Total].bits \in Strings  BY <2>1 DEF Coders
  <2>3. At(r, t[Total].bits)  BY <2>2, SelfAhead DEF Packet
  <2>4. Total - 0 = Total  BY <1>1
  <2> HIDE DEF r
  <2>5. QED  BY <1>1, <2>3, <2>4
<1> HIDE DEF r
<1>3. ASSUME NEW j \in 1..Total, j - 1 \in T PROVE j \in T
  <2> DEFINE k == Total - (j - 1)
  <2>1. k \in 1..Total /\ k - 1 = Total - j  BY <1>1
  <2>2. At(r, t[k].bits)  BY <1>3
  <2> HIDE DEF k
  <2>3. At(r, t[k - 1].bits)  BY <2>1, <2>2, StepAligned
  <2>4. QED  BY <1>1, <2>1, <2>3
<1> HIDE DEF T
<1>4. 0..Total \subseteq T  BY <1>1, <1>2, <1>3, UpTo
<1>5. Total - n \in T /\ Total - (Total - n) = n  BY <1>1, <1>4
<1>6. QED  BY <1>5 DEF T, r

\* Behind macroblock n no run is open, or it ends here.
Boundary(t, n) == t[n].pending = 0 \/ ~Skipped(n + 1)

LEMMA BoundaryWritten ==
  ASSUME PictureInv, NEW t, Encodes(t), NEW n \in Nat, n < Total,
         Boundary(t, n)
  PROVE  At(Packet(t), Upto(t[n]))
<1> DEFINE e == t[n]
           k == n + 1
<1>1. k \in 1..Total /\ k - 1 = n /\ n \in 0..Total
  BY FramesOf, FrameTyped
<1>2. e \in Coders /\ t[k] = Step(e, k)  BY <1>1 DEF Encodes
<1>3. At(Packet(t), t[k].bits)  BY <1>1, Written
<1>4. t[k].bits = NextBits(e, k)  BY <1>2 DEF Step
<1>5. CASE e.pending = 0
  <2>1. Upto(e) = Aligned(e.bits)  BY <1>2, <1>5, UptoLength
  <2>2. At(Packet(t), Aligned(t[k - 1].bits))
    <3> HIDE DEF k, e
    <3>1. QED  BY <1>1, <1>3, StepAligned
  <2>3. QED  BY <1>1, <2>1, <2>2
<1>6. CASE ~Skipped(k)
  <2> HIDE DEF e, k
  <2>1. NextBits(e, k) = Upto(e) \o Coding(e, k)  BY <1>6 DEF NextBits
  <2>2. Coding(e, k) \in Strings /\ Upto(e) \in Strings
    BY <1>1, <1>2, <1>6, CodingTyped, UptoTyped
  <2>3. At(Packet(t), Upto(e) \o Coding(e, k))  BY <1>3, <1>4, <2>1
  <2>4. At(Packet(t), Upto(e))  BY <2>2, <2>3, Chained
  <2>5. QED  BY <2>4 DEF e
<1>7. QED  BY <1>5, <1>6 DEF Boundary

-----------------------------------------------------------------------------
(* Columns.                                                                *)

LEMMA ModIs ==
  ASSUME NEW n \in Nat, NEW c \in Nat \ {0}, NEW q \in Nat, NEW w \in 0..(c - 1),
         n = q * c + w
  PROVE  n % c = w /\ n \div c = q
<1> DEFINE p == n \div c
           v == n % c
<1>1. p \in Nat /\ v \in 0..(c - 1) /\ n = p * c + v  BY DivMod
<1> HIDE DEF p, v
<1>2. q * c \in Nat /\ p * c \in Nat
  <2>1. \A i \in Nat : i * c \in Nat  BY Z3
  <2>2. QED  BY <1>1, <2>1
<1>3. ~(p < q)
  <2>1. p < q => p * c + c <= q * c  BY <1>1, Multiples
  <2> DEFINE a == p * c
             b == q * c
  <2>2. a \in Nat /\ b \in Nat /\ a + v = b + w /\ (p < q => a + c <= b)
    BY <1>1, <1>2, <2>1
  <2> HIDE DEF a, b
  <2>3. QED  BY <1>1, <2>2
<1>4. ~(q < p)
  <2>1. q < p => q * c + c <= p * c  BY <1>1, Multiples
  <2> DEFINE a == p * c
             b == q * c
  <2>2. a \in Nat /\ b \in Nat /\ a + v = b + w /\ (q < p => b + c <= a)
    BY <1>1, <1>2, <2>1
  <2> HIDE DEF a, b
  <2>3. QED  BY <1>1, <2>2
<1>5. p = q  BY <1>1, <1>3, <1>4
<1>6. v = w
  <2> DEFINE a == q * c
  <2>1. a \in Nat /\ a + v = a + w  BY <1>1, <1>2, <1>5
  <2> HIDE DEF a
  <2>2. QED  BY <1>1, <2>1
<1>7. QED  BY <1>5, <1>6 DEF p, v

LEMMA ColumnNext ==
  ASSUME PictureInv, NEW n \in Nat
  PROVE  Column(n + 1) = IF LastColumn(n) THEN 1 ELSE Column(n) + 1
<1> DEFINE c == picture.cols
           q == n \div c
           w == n % c
<1>1. c \in Nat \ {0}  BY FramesOf, FrameTyped
<1>2. q \in Nat /\ w \in 0..(c - 1) /\ n = q * c + w  BY <1>1, DivMod
<1>3. Column(n) = w + 1 /\ Column(n + 1) = ((n + 1) % c) + 1
      /\ (LastColumn(n) <=> w + 1 = c)
  BY DEF Column, LastColumn
<1> HIDE DEF q, w, c
<1>4. q * c \in Nat /\ (q + 1) * c = q * c + c
  <2>1. \A i \in Nat : i * c \in Nat /\ (i + 1) * c = i * c + c
    BY <1>1, Z3
  <2>2. QED  BY <1>2, <2>1
<1>5. CASE w + 1 = c
  <2>1. n + 1 = (q + 1) * c + 0
    <3> DEFINE a == q * c
    <3> HIDE DEF a
    <3>1. n = a + w /\ a \in Nat /\ (q + 1) * c = a + c  BY <1>2, <1>4 DEF a
    <3>2. QED  BY <1>1, <1>2, <1>5, <3>1
  <2>2. 0 \in 0..(c - 1) /\ q + 1 \in Nat /\ n + 1 \in Nat  BY <1>1, <1>2
  <2>3. (n + 1) % c = 0  BY <1>1, <2>1, <2>2, ModIs
  <2>4. QED  BY <1>3, <1>5, <2>3
<1>6. CASE w + 1 # c
  <2>1. n + 1 = q * c + (w + 1)
    <3> DEFINE a == q * c
    <3> HIDE DEF a
    <3>1. n = a + w /\ a \in Nat  BY <1>2, <1>4 DEF a
    <3>2. n + 1 = a + (w + 1)  BY <1>2, <3>1
    <3>3. QED  BY <3>2 DEF a
  <2>2. w + 1 \in 0..(c - 1) /\ n + 1 \in Nat  BY <1>1, <1>2, <1>6
  <2>3. (n + 1) % c = w + 1  BY <1>1, <1>2, <2>1, <2>2, ModIs
  <2>4. QED  BY <1>3, <1>6, <2>3
<1>7. QED  BY <1>5, <1>6

LEMMA LastIsLast ==
  ASSUME PictureInv
  PROVE  Total \in Nat /\ Total > 0 /\ LastColumn(Total - 1)
<1> DEFINE c == picture.cols
           r == picture.rows
<1>1. c \in Nat \ {0} /\ r \in Nat \ {0}  BY FramesOf, FrameTyped
<1>2. Total = c * r  BY DEF Total
<1>3. LastColumn(Total - 1) <=> ((Total - 1) % c) + 1 = c
  BY DEF LastColumn, Column
<1> HIDE DEF c, r
<1> DEFINE q == r - 1
           a == q * c
<1>4. q \in Nat /\ a \in Nat /\ c * r = a + c
  <2>1. q \in Nat /\ r = q + 1  BY <1>1
  <2> HIDE DEF q
  <2>2. \A i \in Nat : i * c \in Nat /\ c * (i + 1) = i * c + c
    BY <1>1, Z3
  <2>3. QED  BY <2>1, <2>2
<1> HIDE DEF q
<1>5. Total - 1 = q * c + (c - 1) /\ Total - 1 \in Nat /\ c - 1 \in 0..(c - 1)
      /\ Total \in Nat /\ Total > 0
  <2>1. a = q * c  OBVIOUS
  <2> HIDE DEF a
  <2>2. Total - 1 = a + (c - 1)  BY <1>1, <1>2, <1>4
  <2>3. QED  BY <1>1, <1>2, <1>4, <2>1, <2>2
<1>6. (Total - 1) % c = c - 1  BY <1>1, <1>4, <1>5, ModIs
<1>7. QED  BY <1>1, <1>3, <1>5, <1>6

-----------------------------------------------------------------------------
(* The contexts of the encoder and of the decoder.                         *)

Overwritten(cur, col, n, mv) ==
  [i \in 1..picture.cols |->
     IF i \in col..(col + n - 1) THEN Stored(mv) ELSE cur[i]]

LEMMA MovedFields ==
  ASSUME NEW context, context \in Encoders \/ context \in Decoders,
         NEW fallback, NEW mv, NEW col, NEW n
  PROVE  LET next == Moved(context, fallback, col, n, mv)
             cur  == Overwritten(context.cur, col, n, mv)
             closed == col + n - 1 = picture.cols
         IN  /\ next.top = IF closed THEN cur ELSE context.top
             /\ next.cur = IF closed THEN Row(fallback) ELSE cur
             /\ context \in Encoders =>
                  next = [top |-> next.top, cur |-> next.cur]
             /\ context \in Decoders =>
                  /\ next.use_global = context.use_global
                  /\ next.global = context.global
<1> DEFINE next == Moved(context, fallback, col, n, mv)
           cur  == Overwritten(context.cur, col, n, mv)
           row  == Row(fallback)
<1>1. next = IF col + n - 1 = picture.cols
             THEN [context EXCEPT !.top = cur, !.cur = row]
             ELSE [context EXCEPT !.cur = cur]
  BY DEF Moved, Overwritten
<1> HIDE DEF next, cur, row
<1>2. CASE context \in Encoders
  <2>1. context = [top |-> context.top, cur |-> context.cur]
    BY <1>2 DEF Encoders
  <2>2. CASE context \in Decoders
    <3>1. \A d \in Decoders : "global" \in DOMAIN d  BY DEF Decoders
    <3>2. \A d \in Encoders : DOMAIN d = {"top", "cur"}  BY DEF Encoders
    <3>3. QED  BY <1>2, <2>2, <3>1, <3>2
  <2>3. QED  BY <1>1, <2>1, <2>2 DEF next, cur, row
<1>3. CASE context \in Decoders
  <2>1. context = [use_global |-> context.use_global, global |-> context.global,
                   top |-> context.top, cur |-> context.cur]
    BY <1>3 DEF Decoders
  <2>2. CASE context \in Encoders  BY <1>2, <2>2
  <2>3. QED  BY <1>1, <2>1, <2>2 DEF next, cur, row
<1>4. QED  BY <1>2, <1>3

\* Nothing moves, and a move of j and of one more is one of j + 1.
LEMMA MovedNone ==
  ASSUME NEW context \in Encoders, NEW fallback, NEW mv,
         picture.cols \in Nat \ {0}, NEW col \in 1..picture.cols
  PROVE  Moved(context, fallback, col, 0, mv) = context
<1> DEFINE next == Moved(context, fallback, col, 0, mv)
           cur  == Overwritten(context.cur, col, 0, mv)
           closed == col + 0 - 1 = picture.cols
<1>1. /\ next.top = IF closed THEN cur ELSE context.top
      /\ next.cur = IF closed THEN Row(fallback) ELSE cur
      /\ next = [top |-> next.top, cur |-> next.cur]
  BY MovedFields
<1>2. ~closed  OBVIOUS
<1>3. cur = context.cur
  <2>1. context.cur = [i \in 1..picture.cols |-> context.cur[i]]
    BY DEF Encoders, Row16
  <2>2. \A i \in 1..picture.cols : i \notin col..(col + 0 - 1)  OBVIOUS
  <2>3. cur = [i \in 1..picture.cols |-> context.cur[i]]
    BY <2>2 DEF Overwritten
  <2>4. QED  BY <2>1, <2>3
<1>4. context = [top |-> context.top, cur |-> context.cur]  BY DEF Encoders
<1> HIDE DEF next, cur, closed
<1>5. next = context  BY <1>1, <1>2, <1>3, <1>4
<1>6. QED  BY <1>5 DEF next

LEMMA MovedAgain ==
  ASSUME NEW context \in Encoders, NEW fallback, IsVector(fallback), NEW mv,
         IsVector(mv), picture.cols \in Nat \ {0},
         NEW col \in 1..picture.cols, NEW j \in Nat, col + j <= picture.cols
  PROVE  Moved(Moved(context, fallback, col, j, mv), fallback, col + j, 1, mv)
           = Moved(context, fallback, col, j + 1, mv)
<1> DEFINE c == picture.cols
           a == Moved(context, fallback, col, j, mv)
           b == Moved(a, fallback, col + j, 1, mv)
           d == Moved(context, fallback, col, j + 1, mv)
           u == Overwritten(context.cur, col, j, mv)
           v == Overwritten(a.cur, col + j, 1, mv)
           w == Overwritten(context.cur, col, j + 1, mv)
<1>1. a \in Encoders  BY MovedTyped
<1>2. /\ a.top = IF col + j - 1 = c THEN u ELSE context.top
      /\ a.cur = IF col + j - 1 = c THEN Row(fallback) ELSE u
  BY MovedFields
<1>3. /\ b.top = IF (col + j) + 1 - 1 = c THEN v ELSE a.top
      /\ b.cur = IF (col + j) + 1 - 1 = c THEN Row(fallback) ELSE v
      /\ b = [top |-> b.top, cur |-> b.cur]
  <2> HIDE DEF a
  <2>1. QED  BY <1>1, MovedFields
<1>4. /\ d.top = IF col + (j + 1) - 1 = c THEN w ELSE context.top
      /\ d.cur = IF col + (j + 1) - 1 = c THEN Row(fallback) ELSE w
      /\ d = [top |-> d.top, cur |-> d.cur]
  BY MovedFields
<1>5. col + j - 1 # c /\ ((col + j) + 1 - 1 = c <=> col + (j + 1) - 1 = c)
  OBVIOUS
<1>6. a.top = context.top /\ a.cur = u  BY <1>2, <1>5
<1> HIDE DEF a, b, d
<1>7. v = w
  <2>1. ASSUME NEW i \in 1..c
        PROVE  (IF i \in (col + j)..((col + j) + 1 - 1) THEN Stored(mv)
                ELSE u[i])
             = (IF i \in col..(col + (j + 1) - 1) THEN Stored(mv)
                ELSE context.cur[i])
    <3>1. u[i] = IF i \in col..(col + j - 1) THEN Stored(mv)
                 ELSE context.cur[i]
      BY DEF Overwritten
    <3>2. i \in (col + j)..((col + j) + 1 - 1) <=> i = col + j  OBVIOUS
    <3>3. i \in col..(col + (j + 1) - 1) <=>
            (i = col + j \/ i \in col..(col + j - 1))
      OBVIOUS
    <3> HIDE DEF u
    <3>4. QED  BY <3>1, <3>2, <3>3
  <2>2. v = [i \in 1..c |-> IF i \in (col + j)..((col + j) + 1 - 1)
                            THEN Stored(mv) ELSE u[i]]
    BY <1>6 DEF Overwritten
  <2>3. w = [i \in 1..c |-> IF i \in col..(col + (j + 1) - 1)
                            THEN Stored(mv) ELSE context.cur[i]]
    BY DEF Overwritten
  <2> HIDE DEF u, v, w
  <2>4. QED  BY <2>1, <2>2, <2>3
<1> HIDE DEF u, v, w
<1>8. b.top = d.top /\ b.cur = d.cur  BY <1>3, <1>4, <1>5, <1>6, <1>7
<1>9. b = d  BY <1>3, <1>4, <1>8
<1>10. QED  BY <1>9 DEF a, b, d

\* Both sides stay alike.
Like(context, e) == context.top = e.top /\ context.cur = e.cur

LEMMA MovedAlike ==
  ASSUME NEW e \in Encoders, NEW d \in Decoders, Like(d, e), NEW fallback,
         NEW mv, NEW col, NEW n
  PROVE  Like(Moved(d, fallback, col, n, mv), Moved(e, fallback, col, n, mv))
<1> DEFINE a == Moved(e, fallback, col, n, mv)
           b == Moved(d, fallback, col, n, mv)
           u == Overwritten(e.cur, col, n, mv)
           v == Overwritten(d.cur, col, n, mv)
           closed == col + n - 1 = picture.cols
<1>1. /\ a.top = IF closed THEN u ELSE e.top
      /\ a.cur = IF closed THEN Row(fallback) ELSE u
  BY MovedFields
<1>2. /\ b.top = IF closed THEN v ELSE d.top
      /\ b.cur = IF closed THEN Row(fallback) ELSE v
  BY MovedFields
<1>3. u = v /\ e.top = d.top  BY DEF Like
<1> HIDE DEF a, b, u, v, closed
<1>4. a.top = b.top /\ a.cur = b.cur  BY <1>1, <1>2, <1>3
<1>5. QED  BY <1>4 DEF a, b, Like

LEMMA PredictedAlike ==
  ASSUME NEW e, NEW d, Like(d, e), NEW fallback, NEW col
  PROVE  Predictor(d, fallback, col) = Predictor(e, fallback, col)
BY DEF Like, Predictor

-----------------------------------------------------------------------------
(* A run of skips from macroblock n + 1 on.                                *)

\* It is still open behind j of them,
InRun(t, n, j) ==
  /\ n + j < Total /\ \A i \in 1..(j + 1) : Skipped(n + i)
  /\ t[n + j].pending = j
  /\ Aligned(t[n + j].bits) = Aligned(t[n].bits)
  /\ Column(n + j) = Column(n) + j
  /\ t[n + j].encoder = Moved(t[n].encoder, Fallback, Column(n), j, Zero)

\* or has ended behind k.
RunEnds(t, n, k) ==
  /\ k \in 1..17 /\ n + k <= Total /\ \A i \in 1..k : Skipped(n + i)
  /\ Column(n) + k - 1 <= picture.cols
  /\ Boundary(t, n + k)
  /\ Upto(t[n + k]) = Upto(t[n]) \o SkipRun(k)
  /\ At(Packet(t), Upto(t[n]) \o SkipRun(k))
  /\ t[n + k].encoder = Moved(t[n].encoder, Fallback, Column(n), k, Zero)

LEMMA RunGoesOn ==
  ASSUME PictureInv, NEW t, Encodes(t), NEW n \in Nat, n < Total,
         t[n].pending = 0, NEW j \in Nat, InRun(t, n, j)
  PROVE  RunEnds(t, n, j + 1) \/ InRun(t, n, j + 1)
<1> DEFINE e == t[n + j]
           k == j + 1
           m == n + k
           f == t[m]
           a == Aligned(t[n].bits)
           moved == Moved(t[n].encoder, Fallback, Column(n), k, Zero)
<1>1. /\ Total \in Nat /\ k \in Nat /\ m \in 1..Total /\ m - 1 = n + j
      /\ n \in 0..Total /\ n + j \in 0..Total /\ n + j \in Nat /\ m \in Nat
      /\ m = (n + j) + 1
  <2>1. Total \in Nat  BY LastIsLast
  <2>2. QED  BY <2>1 DEF InRun
<1>2. t[n] \in Coders /\ e \in Coders /\ f \in Coders /\ f = Step(e, m)
  BY <1>1 DEF Encodes
<1>3. Skipped(m) /\ P /\ picture.mbs[m] = [mode |-> "SKIP"]
  <2>1. k \in 1..(j + 1)  OBVIOUS
  <2>2. Skipped(m)  BY <2>1 DEF InRun
  <2>3. QED  BY <1>1, <2>2, ChosenAt
<1>4. /\ e.pending = j /\ e.pending + 1 = k /\ Aligned(e.bits) = a
      /\ j \in 0..16 /\ k \in 1..17 /\ k \in 0..17
  <2>1. e.pending = j /\ Aligned(e.bits) = a  BY DEF InRun
  <2>2. e.pending \in 0..16  BY <1>2 DEF Coders
  <2> HIDE DEF e
  <2>3. QED  BY <2>1, <2>2
<1>5. t[n].bits \in Strings /\ t[n].encoder \in Encoders /\ Upto(t[n]) = a
  BY <1>2, UptoLength DEF Coders
<1>6. a \o SkipRun(k) \in Strings /\ Aligned(a \o SkipRun(k)) = a \o SkipRun(k)
  <2> HIDE DEF k
  <2>1. QED  BY <1>4, <1>5, WholeBytes
<1>7. /\ picture.cols \in Nat \ {0} /\ Column(n) \in 1..picture.cols
      /\ Column(n) + j <= picture.cols /\ Column(n + j) = Column(n) + j
  <2>1. Column(n + j) \in 1..picture.cols /\ Column(n) \in 1..picture.cols
    BY <1>1, ColumnIn
  <2>2. Column(n + j) = Column(n) + j  BY DEF InRun
  <2>3. picture.cols \in Nat \ {0}  BY FramesOf, FrameTyped
  <2>4. QED  BY <2>1, <2>2, <2>3
<1>8. f.encoder = moved
  <2>1. SelectedVector(picture.mbs[m]) = Zero
    <3>1. picture.mbs[m].mode = "SKIP"  BY <1>3 DEF Skipped
    <3>2. QED  BY <3>1 DEF SelectedVector
  <2>2. f.encoder = NextEncoder(e, m)  BY <1>2 DEF Step
  <2>3. NextEncoder(e, m) = Moved(e.encoder, Fallback, Column(n + j), 1, Zero)
    BY <1>1, <1>3, <2>1 DEF NextEncoder
  <2>4. e.encoder = Moved(t[n].encoder, Fallback, Column(n), j, Zero)
    BY DEF InRun
  <2>5. IsVector(Fallback) /\ IsVector(Zero)
    <3>1. IsVector(Fallback)  BY FramesOf, FallbackTyped, WordsAreVector
    <3>2. QED  BY <3>1 DEF IsVector, Zero
  <2> DEFINE col == Column(n)
             c == t[n].encoder
  <2>6. Moved(Moved(c, Fallback, col, j, Zero), Fallback, col + j, 1, Zero)
          = Moved(c, Fallback, col, j + 1, Zero)
    <3>1. c \in Encoders /\ col \in 1..picture.cols /\ col + j <= picture.cols
      BY <1>5, <1>7
    <3> HIDE DEF c, col
    <3>2. QED  BY <1>7, <2>5, <3>1, MovedAgain
  <2> HIDE DEF e, f
  <2>7. QED  BY <1>7, <2>2, <2>3, <2>4, <2>6
<1>9. f.bits = NextBits(e, m) /\ f.pending = NextPending(e, m)
  BY <1>2 DEF Step
<1>10. \A i \in 1..k : Skipped(n + i)  BY DEF InRun
<1>11. Column(n) + k - 1 <= picture.cols  BY <1>7
<1> DEFINE s == a \o SkipRun(k)
<1>12. CASE Flush(k, m)
  <2>1. f.bits = s /\ f.pending = 0
    <3> HIDE DEF e, f, k
    <3>1. QED  BY <1>3, <1>4, <1>9, <1>12 DEF NextBits, NextPending
  <2>2. Upto(f) = s
    <3>1. Upto(f) = Aligned(f.bits)  BY <1>2, <2>1, UptoLength
    <3>2. QED  BY <1>6, <2>1, <3>1
  <2>3. At(Packet(t), f.bits)
    <3>1. m \in 0..Total  BY <1>1
    <3> HIDE DEF m
    <3>2. QED  BY <3>1, Written
  <2>4. Boundary(t, m)  BY <2>1 DEF Boundary
  <2>5. m <= Total  BY <1>1
  <2> HIDE DEF s, e, f, a, moved
  <2>6. At(Packet(t), s)  BY <2>1, <2>3
  <2>7. Upto(f) = Upto(t[n]) \o SkipRun(k)
    BY <1>5, <2>2 DEF s
  <2>8. At(Packet(t), Upto(t[n]) \o SkipRun(k))  BY <1>5, <2>6 DEF s
  <2>9. RunEnds(t, n, k)
    BY <1>4, <1>8, <1>10, <1>11, <2>4, <2>5, <2>7, <2>8
    DEF RunEnds, f, moved
  <2>10. QED  BY <2>9
<1>13. CASE ~Flush(k, m)
  <2>1. f.bits = a /\ f.pending = k
    <3> HIDE DEF e, f, k
    <3>1. QED  BY <1>3, <1>4, <1>9, <1>13 DEF NextBits, NextPending
  <2>2. ~LastColumn(n + j)  BY <1>1, <1>13 DEF Flush
  <2>3. m < Total
    <3>1. m # Total  BY <1>1, <2>2, LastIsLast
    <3>2. QED  BY <1>1, <3>1
  <2>4. Aligned(f.bits) = a  BY <1>5, <2>1, AlignedTwice
  <2>5. Column(m) = Column(n) + k
    <3>1. Column((n + j) + 1) = Column(n + j) + 1  BY <1>1, <2>2, ColumnNext
    <3>2. QED  BY <1>1, <1>7, <3>1
  <2>6. CASE Skipped(m + 1)
    <3>1. \A i \in 1..(k + 1) : Skipped(n + i)
      <4>1. n + (k + 1) = m + 1  BY <1>1
      <4>2. \A i \in 1..(k + 1) : i \in 1..k \/ i = k + 1  BY <1>1
      <4> HIDE DEF m, k
      <4>3. QED  BY <1>10, <2>6, <4>1, <4>2
    <3> HIDE DEF a, moved, f, e
    <3>2. InRun(t, n, k)
      BY <1>8, <2>1, <2>3, <2>4, <2>5, <3>1 DEF InRun, f, a, moved
    <3>3. QED  BY <3>2
  <2>7. CASE ~Skipped(m + 1)
    <3>1. Boundary(t, m)  BY <2>7 DEF Boundary
    <3>2. At(Packet(t), Upto(f))
      <4> HIDE DEF m
      <4>1. QED  BY <1>1, <2>3, <3>1, BoundaryWritten
    <3>3. Upto(f) = s  BY <2>1, <2>4 DEF Upto
    <3>4. m <= Total  BY <1>1
    <3> HIDE DEF s, e, f, a, moved
    <3>5. Upto(f) = Upto(t[n]) \o SkipRun(k)  BY <1>5, <3>3 DEF s
    <3>6. At(Packet(t), Upto(t[n]) \o SkipRun(k))  BY <3>2, <3>5
    <3>7. RunEnds(t, n, k)
      BY <1>4, <1>8, <1>10, <1>11, <3>1, <3>4, <3>5, <3>6
      DEF RunEnds, f, moved
    <3>8. QED  BY <3>7
  <2>8. QED  BY <2>6, <2>7
<1>14. QED  BY <1>12, <1>13

\* Every run ends, within its row.
LEMMA RunFound ==
  ASSUME PictureInv, NEW t, Encodes(t), NEW n \in Nat, n < Total,
         Boundary(t, n), Skipped(n + 1)
  PROVE  \E k \in 1..17 : RunEnds(t, n, k)
<1> DEFINE last == Total - n
           Done == \E k \in 1..17 : RunEnds(t, n, k)
           T == {j \in Nat : Done \/ InRun(t, n, j)}
<1>1. Total \in Nat /\ last \in Nat /\ n \in 0..Total /\ n + last = Total
  <2>1. Total \in Nat  BY LastIsLast
  <2>2. QED  BY <2>1
<1>2. t[n].pending = 0  BY DEF Boundary
<1>3. 0 \in T
  <2>1. t[n] \in Coders  BY <1>1 DEF Encodes
  <2>2. t[n].encoder \in Encoders  BY <2>1 DEF Coders
  <2>3. n + 0 = n /\ Column(n) \in Nat
    <3>1. Column(n) \in 1..picture.cols  BY ColumnIn
    <3>2. QED  BY <3>1
  <2>4. Moved(t[n].encoder, Fallback, Column(n), 0, Zero) = t[n].encoder
    <3>1. Column(n) \in 1..picture.cols /\ picture.cols \in Nat \ {0}
      BY ColumnIn, FramesOf, FrameTyped
    <3> DEFINE c == t[n].encoder
               col == Column(n)
    <3>2. c \in Encoders /\ col \in 1..picture.cols  BY <2>2, <3>1
    <3> HIDE DEF c, col
    <3>3. Moved(c, Fallback, col, 0, Zero) = c  BY <3>1, <3>2, MovedNone
    <3>4. QED  BY <3>3 DEF c, col
  <2>5. \A i \in 1..(0 + 1) : Skipped(n + i)
    <3>1. \A i \in 1..(0 + 1) : i = 1  OBVIOUS
    <3>2. QED  BY <3>1
  <2>6. Column(n) + 0 = Column(n)  BY <2>3
  <2>7. InRun(t, n, 0)
    BY <1>2, <2>3, <2>4, <2>5, <2>6 DEF InRun
  <2>8. QED  BY <2>7
<1>4. ASSUME NEW j \in 1..last, j - 1 \in T PROVE j \in T
  <2> DEFINE i == j - 1
  <2>1. i \in Nat /\ i + 1 = j /\ j \in Nat  BY <1>1
  <2>2. Done \/ InRun(t, n, i)  BY <1>4
  <2> HIDE DEF i
  <2>3. InRun(t, n, i) => RunEnds(t, n, i + 1) \/ InRun(t, n, i + 1)
    BY <1>2, <2>1, RunGoesOn
  <2>4. RunEnds(t, n, i + 1) => Done  BY DEF RunEnds
  <2> HIDE DEF Done
  <2>5. QED  BY <2>1, <2>2, <2>3, <2>4
<1> HIDE DEF T, last
<1>5. 0..last \subseteq T  BY <1>1, <1>3, <1>4, UpTo
<1>6. last \in T  BY <1>1, <1>5
<1>7. ~InRun(t, n, last)  BY <1>1 DEF InRun
<1>8. QED  BY <1>6, <1>7 DEF T

-----------------------------------------------------------------------------
(* The decoder on the way of the encoder.                                  *)

LEMMA GotAligned ==
  ASSUME NEW f, NEW y \in Strings, NEW s \in Strings,
         At(Reader(f), Aligned(y) \o s), NEW r, r = After(Reader(f), y, r.v),
         NEW a, a = GetAligned(r)
  PROVE  /\ a = After(Reader(f), Aligned(y), 0) /\ a.ok /\ At(a, s)
         /\ \A w : After(a, s, w) = After(Reader(f), Aligned(y) \o s, w)
<1> DEFINE p == Reader(f)
           n == Padding(y)
           z == Bits(0, n)
           x == Aligned(y)
           b == After(p, x, 0)
<1>1. /\ n \in 0..7 /\ z \in Strings /\ x = y \o z /\ x \in Strings
  BY AlignedLength, AlignedTyped
<1>2. /\ b.ok /\ At(b, s) /\ At(p, x)
      /\ \A w : After(b, s, w) = After(p, x \o s, w)
  <2> HIDE DEF x, p
  <2>1. QED  BY <1>1, Chained DEF x, p
<1>3. /\ r.ok /\ At(r, z) /\ \A w : After(r, z, w) = After(p, x, w)
  <2> HIDE DEF z, p, n
  <2>1. At(p, y \o z)  BY <1>1, <1>2
  <2> HIDE DEF x
  <2>2. r = After(p, y, r.v)  BY DEF p
  <2>3. QED  BY <1>1, <2>1, <2>2, Chained
<1>4. Get(r, n) = b
  <2>1. n \in 0..32 /\ 0 \in Nat /\ 0 < 2^n
    <3> HIDE DEF n
    <3>1. n \in 0..32  BY <1>1
    <3>2. 2^n \in Nat \ {0}  BY <3>1, Powers
    <3>3. QED  BY <3>1, <3>2
  <2> HIDE DEF n
  <2>2. Get(r, n) = After(r, z, 0)  BY <1>3, <2>1, GotBits
  <2>3. QED  BY <1>3, <2>2
<1>5. (8 - (r.at % 8)) % 8 = n
  <2>1. r.at = p.at + Len(y)  BY Behind
  <2>2. p.at = 0 /\ Len(y) \in Nat  BY DEF Reader, Strings
  <2>3. r.at = Len(y)  BY <2>1, <2>2
  <2>4. QED  BY <2>3 DEF Padding
<1>6. b.v = 0  BY Behind
<1> HIDE DEF b, n, z, x, p
<1>7. GetAligned(r) = b
  <2>1. GetAligned(r) = IF Get(r, n).ok
                        THEN IF Get(r, n).v # 0 THEN Failed(Get(r, n))
                             ELSE Get(r, n)
                        ELSE Get(r, n)
    BY <1>5 DEF GetAligned, Then
  <2>2. QED  BY <1>2, <1>4, <1>6, <2>1
<1>8. QED  BY <1>2, <1>7 DEF b, x, p

LEMMA GotGlobal ==
  ASSUME PictureInv, P, NEW r, At(r, Start.bits)
  PROVE  GetGlobal(r) =
           After(r, Start.bits, [use |-> picture.use_global, mv |-> Fallback])
<1> DEFINE flag == Get(r, 1)
           mv == GetVector(flag)
           none == [use |-> FALSE, mv |-> Zero]
           some == [use |-> TRUE, mv |-> mv.v]
           g == picture.global
<1>1. GetGlobal(r) = IF ~flag.ok THEN flag
                     ELSE IF flag.v = 0 THEN Returns(flag, none)
                     ELSE IF mv.ok THEN Returns(mv, some) ELSE mv
  BY DEF GetGlobal, Then
<1>2. picture.use_global \in BOOLEAN /\ g \in Word \X Word
  BY FramesOf, FrameTyped
<1>3. 0 \in Bit /\ 1 \in Bit /\ <<0>> \in Strings /\ <<1>> \in Strings
  BY OneBit DEF Bit
<1>4. CASE ~picture.use_global
  <2> DEFINE a == After(r, <<0>>, 0)
  <2>1. Start.bits = <<0>> /\ Fallback = Zero
    BY <1>4 DEF Start, Fallback, Zero
  <2>2. flag = a  BY <1>3, <2>1, GotBit
  <2>3. a.ok /\ a.v = 0 /\ \A w : Returns(a, w) = After(r, <<0>>, w)
    BY <2>1, Valued
  <2>4. none = [use |-> picture.use_global, mv |-> Fallback]
    BY <1>2, <1>4, <2>1, Zenon
  <2> HIDE DEF a, flag, none
  <2>5. QED  BY <1>1, <2>1, <2>2, <2>3, <2>4
<1>5. CASE picture.use_global
  <2> DEFINE s == Vector(g)
             a == After(r, <<1>>, 1)
             b == After(a, s, g)
  <2>1. Start.bits = <<1>> \o s /\ Fallback = g
    BY <1>5 DEF Start, Fallback
  <2>2. g \in Near \X Near
    <3> HIDE DEF g
    <3>1. g = <<g[1], g[2]>> /\ g[1] \in Word /\ g[2] \in Word  BY <1>2
    <3>2. g[1] \in Near /\ g[2] \in Near  BY <3>1, Words DEF Near
    <3>3. QED  BY <3>1, <3>2
  <2> HIDE DEF g
  <2>3. s \in Strings  BY <2>2, VectorTyped
  <2>4. /\ At(r, <<1>>) /\ a.ok /\ a.v = 1 /\ At(a, s)
        /\ \A w : After(a, s, w) = After(r, Start.bits, w)
    <3> HIDE DEF s
    <3>1. QED  BY <1>3, <2>1, <2>3, Chained
  <2>5. flag = a  BY <1>3, <2>4, GotBit
  <2>6. mv = b  BY <2>2, <2>4, <2>5, VectorReadBack
  <2>7. b.ok /\ b.v = g /\ \A w : Returns(b, w) = After(a, s, w)
    <3> HIDE DEF a, s
    <3>1. QED  BY <2>4, Valued
  <2>8. some = [use |-> picture.use_global, mv |-> Fallback]
    <3>1. mv.v = Fallback /\ TRUE = picture.use_global
      BY <1>2, <1>5, <2>1, <2>6, <2>7
    <3>2. QED  BY <3>1, Zenon
  <2> HIDE DEF a, b, flag, mv, some, s
  <2>9. GetGlobal(r) = Returns(b, some)
    BY <1>1, <2>4, <2>5, <2>6, <2>7
  <2>10. QED  BY <2>4, <2>7, <2>8, <2>9
<1>6. QED  BY <1>4, <1>5

\* The reader is behind what was written for the macroblocks parsed, or in
\* front of the padding that aligns it; both sides have the same context.
Behinds(r, t, n) ==
  \E y \in Strings : Upto(t[n]) = Aligned(y) /\ r = After(Packet(t), y, r.v)

Follows(t) ==
  /\ Boundary(t, Len(parsed))
  /\ Behinds(reader, t, Len(parsed))
  /\ Like(decoder, t[Len(parsed)].encoder)
  /\ decoder.global = Fallback
  /\ decoder.use_global = (P /\ picture.use_global)

RightSoFar == \A i \in 1..Len(parsed) : parsed[i] = picture.mbs[i]

LEMMA KnownGlobal ==
  ASSUME PictureInv, decoder.global = Fallback,
         decoder.use_global = (P /\ picture.use_global)
  PROVE  GlobalKnown /\ (P => decoder.use_global = picture.use_global)
<1>1. picture \in Frames /\ picture.use_global \in BOOLEAN
  BY FramesOf, FrameTyped
<1>2. IsWords(Fallback)  BY <1>1, FallbackTyped
<1>3. ~(P /\ picture.use_global) => Fallback = Zero  BY DEF Fallback, Zero
<1>4. (IF decoder.use_global THEN decoder.global ELSE Zero) = Fallback
  BY <1>3
<1>5. P => decoder.use_global = picture.use_global  BY <1>1
<1>6. QED  BY <1>2, <1>4, <1>5 DEF GlobalKnown

LEMMA FollowsSame ==
  ASSUME picture' = picture, NEW t, NEW r, NEW n
  PROVE  /\ Boundary(t, n)' = Boundary(t, n) /\ Behinds(r, t, n)' = Behinds(r, t, n)
         /\ Fallback' = Fallback /\ P' = P
BY DEF Boundary, Behinds, Skipped, Packet, Total, Fallback, P

LEMMA ReconstructFollows ==
  ASSUME Inv, pc = "decode", NEW t, Encodes(t), Follows(t), RightSoFar,
         NEW n, n = Len(parsed), NEW k \in Nat, NEW m, n + k <= Total,
         \A i \in 1..k : picture.mbs[n + i] = m,
         Boundary(t, n + k),
         t[n + k].encoder = IF P THEN Moved(t[n].encoder, Fallback, Column(n), k,
                                            DecodedVector(m))
                            ELSE t[n].encoder,
         NEW r, Behinds(r, t, n + k), Reconstruct(r, m, k)
  PROVE  pc' = "decode" /\ Follows(t)' /\ RightSoFar'
<1> DEFINE ms == [i \in 1..k |-> m]
<1>1. /\ reader' = r /\ parsed' = parsed \o ms /\ pc' = "decode"
      /\ picture' = picture
      /\ decoder' = IF P THEN Moved(decoder, decoder.global, Column(n), k,
                                    DecodedVector(m))
                    ELSE decoder
  BY DEF Reconstruct
<1>2. PICK S : parsed \in Seq(S)  BY DEF Inv, ParsedInv
<1>3. n \in Nat /\ Total \in Nat /\ n + k \in 0..Total
  <2>1. n \in Nat /\ Total \in Nat  BY <1>2, FramesOf, FrameTyped DEF Inv
  <2>2. QED  BY <2>1
<1>4. /\ Len(parsed') = n + k
      /\ \A i \in 1..(n + k) :
           parsed'[i] = IF i <= n THEN parsed[i] ELSE ms[i - n]
  <2>1. /\ parsed \in Seq(S \cup {m}) /\ ms \in Seq(S \cup {m}) /\ Len(ms) = k
    <3>1. ms \in [1..k -> S \cup {m}]  OBVIOUS
    <3>2. parsed \in [1..n -> S \cup {m}]
      <4>1. parsed \in [1..n -> S]  BY <1>2
      <4>2. QED  BY <4>1
    <3> HIDE DEF ms
    <3>3. QED  BY <1>3, <3>1, <3>2, FunctionSeq
  <2> HIDE DEF ms
  <2>2. QED  BY <1>1, <2>1, ConcatProperties
<1>5. RightSoFar'
  <2>1. ASSUME NEW i \in 1..(n + k) PROVE parsed'[i] = picture.mbs[i]
    <3>1. CASE i <= n
      <4>1. i \in 1..Len(parsed)  BY <1>3, <3>1
      <4>2. parsed[i] = picture.mbs[i]  BY <4>1 DEF RightSoFar
      <4>3. QED  BY <1>4, <3>1, <4>2
    <3>2. CASE ~(i <= n)
      <4>1. i - n \in 1..k /\ n + (i - n) = i  BY <1>3, <3>2
      <4>2. parsed'[i] = m  BY <1>4, <3>2, <4>1
      <4>3. picture.mbs[n + (i - n)] = m  BY <4>1
      <4>4. QED  BY <4>1, <4>2, <4>3
    <3>3. QED  BY <3>1, <3>2
  <2>2. QED  BY <1>1, <1>4, <2>1 DEF RightSoFar
<1>6. /\ decoder \in Decoders /\ decoder.global = Fallback
      /\ Like(decoder, t[n].encoder)
      /\ decoder.use_global = (P /\ picture.use_global)
  BY DEF Inv, DecoderInv, Follows
<1>7. t[n].encoder \in Encoders
  <2>1. n \in 0..Total  BY <1>3
  <2>2. t[n] \in Coders  BY <2>1 DEF Encodes
  <2>3. QED  BY <2>2 DEF Coders
<1>8. /\ Like(decoder', t[n + k].encoder) /\ decoder'.global = Fallback
      /\ decoder'.use_global = (P /\ picture.use_global)
  <2>1. CASE P
    <3> DEFINE v == DecodedVector(m)
               d == Moved(decoder, Fallback, Column(n), k, v)
               e == Moved(t[n].encoder, Fallback, Column(n), k, v)
    <3>1. decoder' = d /\ t[n + k].encoder = e  BY <1>1, <1>6, <2>1
    <3> HIDE DEF v
    <3>2. Like(d, e)
      <4> DEFINE c == t[n].encoder
      <4>1. c \in Encoders /\ Like(decoder, c)  BY <1>6, <1>7
      <4> HIDE DEF c
      <4>2. Like(Moved(decoder, Fallback, Column(n), k, v),
                 Moved(c, Fallback, Column(n), k, v))
        BY <1>6, <4>1, MovedAlike
      <4>3. QED  BY <4>2 DEF c
    <3>3. d.global = decoder.global /\ d.use_global = decoder.use_global
      BY <1>6, MovedFields
    <3> HIDE DEF d, e
    <3>4. QED  BY <1>6, <3>1, <3>2, <3>3
  <2>2. CASE ~P  BY <1>1, <1>6, <2>2
  <2>3. QED  BY <2>1, <2>2
<1>9. Boundary(t, n + k)' /\ Behinds(r, t, n + k)' /\ Fallback' = Fallback /\ P' = P
  BY <1>1, FollowsSame
<1>10. Boundary(t, Len(parsed))' /\ Behinds(reader, t, Len(parsed))'
  BY <1>1, <1>4, <1>9 DEF Boundary, Behinds
<1>11. Like(decoder', t[Len(parsed')].encoder)  BY <1>4, <1>8
<1> HIDE DEF ms
<1>12. Follows(t)'
  BY <1>1, <1>8, <1>9, <1>10, <1>11 DEF Follows, Like
<1>13. QED  BY <1>1, <1>5, <1>12

\* The reader behind the mode of the next macroblock.
ModeRead == Then(GetAligned(reader), LAMBDA r : Get(r, 4))

\* What DecodeMacroblock finds in front of a code that begins with a mode.
LEMMA ModeAhead ==
  ASSUME Inv, pc = "decode", NEW t, Encodes(t), Follows(t),
         NEW n, n = Len(parsed), NEW a \in DOMAIN ModeCode, NEW s \in Strings,
         At(Packet(t), Upto(t[n]) \o (Mode(a) \o s)), Upto(t[n]) \in Strings,
         NEW code, code = ModeRead
  PROVE  /\ code.ok /\ code.v = ModeCode[a]
         /\ {u \in DOMAIN ModeCode : ModeCode[u] = code.v} = {a}
         /\ code = Get(GetAligned(reader), 4)
         /\ At(GetAligned(reader), Mode(a) \o s)
         /\ At(code, s)
         /\ \A w : After(code, s, w) =
                   After(Packet(t), Upto(t[n]) \o (Mode(a) \o s), w)
<1> DEFINE g == GetAligned(reader)
           c == Mode(a) \o s
           x == Upto(t[n])
<1>1. PICK y \in Strings : x = Aligned(y) /\ reader = After(Packet(t), y, reader.v)
  BY DEF Follows, Behinds
<1>2. Mode(a) \in Strings /\ c \in Strings
  <2>1. Mode(a) \in Strings  BY ModeTyped
  <2>2. QED  BY <2>1, Concat
<1>3. /\ g.ok /\ At(g, c)
      /\ \A w : After(g, c, w) = After(Packet(t), x \o c, w)
  <2> DEFINE f == t[Total].bits
             h == reader
  <2>1. At(Reader(f), Aligned(y) \o c) /\ h = After(Reader(f), y, h.v)
    BY <1>1 DEF Packet
  <2> HIDE DEF f, c, h
  <2>2. GetAligned(h).ok /\ At(GetAligned(h), c)
        /\ \A w : After(GetAligned(h), c, w) = After(Reader(f), Aligned(y) \o c, w)
    BY <1>2, <2>1, GotAligned
  <2>3. QED  BY <1>1, <2>2 DEF f, h, Packet
<1>4. code = Get(g, 4)  BY <1>3 DEF Then, ModeRead
<1> HIDE DEF g, x
<1>5. /\ Get(g, 4).ok /\ Get(g, 4).v = ModeCode[a] /\ At(Get(g, 4), s)
      /\ \A w : After(Get(g, 4), s, w) = After(g, c, w)
  BY <1>3, GotMode
<1>6. {u \in DOMAIN ModeCode : ModeCode[u] = ModeCode[a]} = {a}  BY ModeCodes
<1> HIDE DEF c
<1>7. /\ code.ok /\ code.v = ModeCode[a] /\ At(code, s)
      /\ \A w : After(code, s, w) = After(Packet(t), x \o c, w)
  BY <1>3, <1>4, <1>5
<1>8. {u \in DOMAIN ModeCode : ModeCode[u] = code.v} = {a}  BY <1>6, <1>7
<1>9. QED  BY <1>3, <1>4, <1>7, <1>8 DEF g, c, x

\* What DecodeMacroblock does with the mode.
LEMMA DecodeMode ==
  ASSUME DecodeMacroblock, NEW n, n = Len(parsed),
         NEW code, code = ModeRead,
         code.ok, NEW a,
         {u \in DOMAIN ModeCode : ModeCode[u] = code.v} = {a}
  PROVE  /\ a = "SKIP_RUN" => Run(code, Column(n))
         /\ a # "SKIP_RUN" =>
              \E m \in {GetMacroblock(code, a, 16 * (Column(n) - 1),
                          16 * (n \div picture.cols),
                          Predictor(decoder, decoder.global, Column(n)))} :
                IF m.ok THEN Reconstruct(m, m.v, 1) ELSE Error
<1> DEFINE mode == {u \in DOMAIN ModeCode : ModeCode[u] = code.v}
<1>1. IF ~code.ok \/ mode = {} THEN Error
      ELSE IF mode = {"SKIP_RUN"} THEN Run(code, Column(n))
      ELSE \E u \in mode :
           \E m \in {GetMacroblock(code, u, 16 * (Column(n) - 1),
                       16 * (n \div picture.cols),
                       Predictor(decoder, decoder.global, Column(n)))} :
             IF m.ok THEN Reconstruct(m, m.v, 1) ELSE Error
  BY DEF DecodeMacroblock, ModeRead
<1>2. mode = {a}  OBVIOUS
<1> HIDE DEF mode
<1>3. CASE a = "SKIP_RUN"  BY <1>1, <1>2, <1>3
<1>4. CASE a # "SKIP_RUN"
  <2>1. mode # {"SKIP_RUN"} /\ mode # {}  BY <1>2, <1>4
  <2>2. PICK u \in mode :
          \E m \in {GetMacroblock(code, u, 16 * (Column(n) - 1),
                      16 * (n \div picture.cols),
                      Predictor(decoder, decoder.global, Column(n)))} :
            IF m.ok THEN Reconstruct(m, m.v, 1) ELSE Error
    BY <1>1, <2>1
  <2>3. u = a  BY <1>2
  <2>4. QED  BY <1>4, <2>2, <2>3
<1>5. QED  BY <1>3, <1>4

\* Where the decoder is when it reads the next macroblock.
LEMMA DecodingAt ==
  ASSUME Inv, DecodeMacroblock, NEW t, Encodes(t), NEW n, n = Len(parsed)
  PROVE  /\ n \in Nat /\ n < Total /\ Total \in Nat
         /\ n + 1 \in 1..Total /\ (n + 1) - 1 = n
         /\ t[n] \in Coders /\ t[n + 1] \in Coders
         /\ t[n + 1] = Step(t[n], n + 1)
         /\ pc = "decode"
         /\ Column(n) \in 1..picture.cols /\ Column(n) - 1 = n % picture.cols
<1>1. Total \in Nat /\ picture.cols \in Nat \ {0}
  BY FramesOf, FrameTyped DEF Inv
<1>2. PICK S : parsed \in Seq(S)  BY DEF Inv, ParsedInv
<1>3. n \in Nat /\ n < Total /\ pc = "decode"
  BY <1>2 DEF DecodeMacroblock
<1>4. /\ n + 1 \in 1..Total /\ (n + 1) - 1 = n
      /\ n \in 0..Total /\ n + 1 \in 0..Total
  BY <1>1, <1>3
<1>5. /\ t[n] \in Coders /\ t[n + 1] \in Coders
      /\ t[n + 1] = Step(t[(n + 1) - 1], n + 1)
  <2> DEFINE k == n + 1
  <2> HIDE DEF k
  <2>1. k \in 1..Total /\ k \in 0..Total  BY <1>4 DEF k
  <2>2. t[k] \in Coders /\ t[k] = Step(t[k - 1], k) /\ t[n] \in Coders
    BY <1>4, <2>1 DEF Encodes
  <2>3. QED  BY <2>2 DEF k
<1>6. Column(n) \in 1..picture.cols  BY <1>3, ColumnIn DEF Inv
<1>7. Column(n) - 1 = n % picture.cols
  <2>1. n % picture.cols \in 0..(picture.cols - 1)  BY <1>1, <1>3, DivMod
  <2>2. QED  BY <2>1 DEF Column
<1>8. QED  BY <1>1, <1>3, <1>4, <1>5, <1>6, <1>7

\* The next macroblock is not a skip.
LEMMA DecodeCoding ==
  ASSUME Inv, DecodeMacroblock, NEW t, Encodes(t), Follows(t), RightSoFar,
         NEW n, n = Len(parsed), ~Skipped(n + 1)
  PROVE  pc' = "decode" /\ Follows(t)' /\ RightSoFar'
<1> DEFINE N == n + 1
           e == t[n]
           m == picture.mbs[N]
           col == Column(n)
           predicted == Predictor(e.encoder, Fallback, col)
           whole == Macroblock(m, predicted)
           x == 16 * (col - 1)
           y == 16 * (n \div picture.cols)
           p == Packet(t)
           behind == After(p, Upto(e) \o whole, m)
           code == ModeRead
<1>1. /\ n \in Nat /\ n < Total /\ Total \in Nat
      /\ N \in 1..Total /\ N - 1 = n
      /\ e \in Coders /\ t[N] \in Coders /\ t[N] = Step(e, N)
      /\ pc = "decode" /\ col - 1 = n % picture.cols
  BY DecodingAt
<1>2. PictureInv /\ picture \in Frames  BY FramesOf DEF Inv
<1> HIDE DEF N
<1>3. m \in Macroblocks /\ m.mode # "SKIP" /\ Candidate(picture, m, x, y)
  <2>1. /\ m \in Macroblocks
        /\ Candidate(picture, m, 16 * ((N - 1) % picture.cols),
                     16 * ((N - 1) \div picture.cols))
    BY <1>1, <1>2, ChosenAt
  <2>2. m.mode # "SKIP"  BY DEF Skipped, N
  <2>3. QED  BY <1>1, <2>1, <2>2
<1>4. ~Skipped(N)  BY DEF N
<1>5. whole = Coding(e, N) /\ whole \in Strings /\ IsWords(predicted)
  <2>1. Coding(e, N) \in Strings
        /\ IsWords(Predictor(e.encoder, Fallback, Column(N - 1)))
    BY <1>1, <1>2, <1>4, CodingTyped
  <2>2. QED  BY <1>1, <2>1 DEF Coding
<1>6. /\ t[N].bits = Upto(e) \o whole /\ t[N].pending = 0
      /\ t[N].encoder = IF P THEN Moved(e.encoder, Fallback, col, 1,
                                        SelectedVector(m))
                        ELSE e.encoder
  <2>1. /\ t[N].bits = NextBits(e, N) /\ t[N].pending = NextPending(e, N)
        /\ t[N].encoder = NextEncoder(e, N)
    BY <1>1 DEF Step
  <2>2. NextBits(e, N) = Upto(e) \o whole  BY <1>4, <1>5 DEF NextBits
  <2>3. NextPending(e, N) = 0  BY <1>4 DEF NextPending
  <2>4. NextEncoder(e, N) = IF P THEN Moved(e.encoder, Fallback, col, 1,
                                            SelectedVector(m))
                            ELSE e.encoder
    BY <1>1 DEF NextEncoder
  <2>5. QED  BY <2>1, <2>2, <2>3, <2>4
<1>7. At(p, Upto(e) \o whole)
  <2>1. N \in 0..Total  BY <1>1
  <2>2. At(p, t[N].bits)  BY <1>2, <2>1, Written
  <2>3. QED  BY <1>6, <2>2
<1>8. GlobalKnown /\ (P => decoder.use_global = picture.use_global)
      /\ decoder.global = Fallback /\ Like(decoder, e.encoder)
  <2>1. /\ decoder.global = Fallback /\ Like(decoder, e.encoder)
        /\ decoder.use_global = (P /\ picture.use_global)
    BY DEF Follows
  <2>2. QED  BY <1>2, <2>1, KnownGlobal
<1>9. PICK body \in Strings :
        /\ whole = Mode(m.mode) \o body
        /\ \A r : At(r, body) =>
             GetMacroblock(r, m.mode, x, y, predicted) = After(r, body, m)
  <2> HIDE DEF m, predicted, x, y
  <2>1. Readable(m, predicted, x, y)
    BY <1>2, <1>3, <1>5, <1>8, MacroblockReadable
  <2>2. QED  BY <2>1 DEF Readable
<1>10. m.mode \in DOMAIN ModeCode /\ m.mode # "SKIP_RUN"
  <2> HIDE DEF m
  <2>1. QED  BY <1>3 DEF Macroblocks, Palettes, ModeCode
<1>11. Upto(e) \in Strings  BY <1>1, UptoTyped
<1>12. /\ code.ok
       /\ {u \in DOMAIN ModeCode : ModeCode[u] = code.v} = {m.mode}
       /\ At(code, body)
       /\ \A w : After(code, body, w) = After(p, Upto(e) \o whole, w)
  <2> HIDE DEF code, whole, m, p
  <2>1. /\ At(Packet(t), Upto(t[n]) \o (Mode(m.mode) \o body))
        /\ Upto(t[n]) \in Strings
    BY <1>7, <1>9, <1>11 DEF p
  <2>2. code = ModeRead  BY DEF code
  <2>3. body \in Strings /\ whole = Mode(m.mode) \o body  BY <1>9
  <2> DEFINE a == m.mode
  <2>4. a \in DOMAIN ModeCode  BY <1>10
  <2> HIDE DEF a
  <2>5. /\ code.ok
        /\ {u \in DOMAIN ModeCode : ModeCode[u] = code.v} = {a}
        /\ At(code, body)
        /\ \A w : After(code, body, w) =
                  After(Packet(t), Upto(t[n]) \o (Mode(a) \o body), w)
    <3>1. At(Packet(t), Upto(t[n]) \o (Mode(a) \o body))
          /\ Upto(t[n]) \in Strings
      BY <2>1 DEF a
    <3>2. pc = "decode"  BY <1>1
    <3>3. QED  BY <2>2, <2>3, <2>4, <3>1, <3>2, ModeAhead
  <2>6. QED  BY <2>3, <2>5 DEF a, p
<1>13. GetMacroblock(code, m.mode, x, y, predicted) = behind
  <2> HIDE DEF code, whole, m, p, x, y, predicted
  <2>1. QED  BY <1>9, <1>12 DEF behind
<1>14. behind.ok /\ behind.v = m
  <2> DEFINE s == Upto(e) \o whole
  <2>1. At(p, s)  BY <1>7
  <2> HIDE DEF s, p, m
  <2>2. QED  BY <2>1, Valued DEF s
<1>15. Predictor(decoder, decoder.global, col) = predicted
  BY <1>8, PredictedAlike
<1>16. Reconstruct(behind, m, 1)
  <2>1. \E a \in {GetMacroblock(code, m.mode, x, y,
                                Predictor(decoder, decoder.global, col))} :
          IF a.ok THEN Reconstruct(a, a.v, 1) ELSE Error
    <3>1. code = ModeRead  BY DEF code
    <3> HIDE DEF code, m
    <3>2. QED  BY <1>10, <1>12, <3>1, DecodeMode
  <2> HIDE DEF code, m, x, y, predicted, behind
  <2>2. QED  BY <1>13, <1>14, <1>15, <2>1
<1>17. Boundary(t, n + 1) /\ Behinds(behind, t, n + 1)
  <2>1. Boundary(t, N)  BY <1>6 DEF Boundary
  <2>2. t[N].bits \in Strings /\ Upto(t[N]) = Aligned(t[N].bits)
    BY <1>1, <1>6, UptoTyped, UptoLength
  <2>3. behind = After(Packet(t), t[N].bits, behind.v)
    BY <1>6, <1>14
  <2> HIDE DEF behind
  <2>4. Behinds(behind, t, N)  BY <2>2, <2>3 DEF Behinds
  <2>5. QED  BY <2>1, <2>4 DEF N
<1>18. DecodedVector(m) = SelectedVector(m)
  BY <1>8 DEF DecodedVector, SelectedVector
<1>19. \A i \in 1..1 : picture.mbs[n + i] = m
  BY DEF N
<1>20. t[n + 1].encoder = IF P THEN Moved(t[n].encoder, Fallback, Column(n), 1,
                                          DecodedVector(m))
                          ELSE t[n].encoder
  BY <1>6, <1>18 DEF N
<1> HIDE DEF m, behind, col
<1>21. n + 1 <= Total /\ 1 \in Nat  BY <1>1
<1>22. QED
  BY <1>1, <1>16, <1>17, <1>19, <1>20, <1>21, ReconstructFollows

\* A run of one skip is half a byte and its padding.
LEMMA SingleSkip ==
  ASSUME NEW x \in Strings, Len(x) % 8 = 0, NEW r, At(r, x \o SkipRun(1))
  PROVE  /\ x \o Mode("SKIP") \in Strings
         /\ Aligned(x \o Mode("SKIP")) = x \o SkipRun(1)
         /\ At(r, x \o (Mode("SKIP") \o <<>>))
         /\ Mode("SKIP") \o <<>> = Mode("SKIP")
<1> DEFINE a == Mode("SKIP")
           z == Bits(0, 4)
           y == x \o a
<1>1. a \in Strings /\ Len(a) = 4 /\ z \in Strings /\ SkipRun(1) = a \o z
  <2>1. 4 \in 0..32 /\ 0 \in Nat  OBVIOUS
  <2>2. a = Bits(0, 4)  BY DEF Mode, ModeCode
  <2> HIDE DEF a, z
  <2>3. z \in Strings /\ Len(z) = 4  BY <2>1, BitsValue DEF z
  <2>4. SkipRun(1) = a \o z  BY DEF SkipRun, a, z
  <2>5. QED  BY <2>2, <2>3, <2>4 DEF z
<1> HIDE DEF a, z
<1>2. x \in Seq(Bit) /\ a \in Seq(Bit) /\ z \in Seq(Bit)
  BY <1>1 DEF Strings
<1>3. x \o (a \o z) = (x \o a) \o z /\ a \o <<>> = a
  BY <1>2
<1>4. y \in Strings  BY <1>1, Concat
<1>5. Len(y) = Len(x) + 4 /\ Len(x) \in Nat
  <2>1. \A u, v \in Strings : Len(u \o v) = Len(u) + Len(v) /\ Len(u) \in Nat
    BY DEF Strings
  <2>2. Len(x \o a) = Len(x) + Len(a) /\ Len(x) \in Nat  BY <1>1, <2>1
  <2>3. QED  BY <1>1, <2>2
<1>6. Padding(y) = 4
  <2> DEFINE l == Len(x)
  <2>1. l \in Nat /\ l % 8 = 0 /\ Len(y) = l + 4  BY <1>5
  <2> HIDE DEF l, y
  <2>2. (l + 4) % 8 = 4 /\ (8 - 4) % 8 = 4  BY <2>1
  <2>3. QED  BY <2>1, <2>2 DEF Padding
<1> HIDE DEF y
<1>7. Aligned(y) = y \o Bits(0, Padding(y))  BY <1>4, AlignedLength
<1>8. Aligned(y) = x \o SkipRun(1)
  <2>1. Aligned(y) = y \o z  BY <1>6, <1>7 DEF z
  <2>2. QED  BY <1>1, <1>3, <2>1 DEF y
<1>9. At(r, y \o z)  BY <1>1, <1>3 DEF y
<1>10. At(r, y)  BY <1>1, <1>4, <1>9, Chained
<1>11. QED  BY <1>1, <1>3, <1>4, <1>8, <1>10 DEF a, y

\* The next macroblocks are a run of skips.
LEMMA DecodeSkips ==
  ASSUME Inv, DecodeMacroblock, NEW t, Encodes(t), Follows(t), RightSoFar,
         NEW n, n = Len(parsed), Skipped(n + 1)
  PROVE  pc' = "decode" /\ Follows(t)' /\ RightSoFar'
<1> DEFINE e == t[n]
           col == Column(n)
           x == Upto(e)
           p == Packet(t)
           code == ModeRead
           skip == [mode |-> "SKIP"]
<1>1. /\ n \in Nat /\ n < Total /\ Total \in Nat
      /\ n + 1 \in 1..Total
      /\ e \in Coders /\ pc = "decode"
      /\ col \in 1..picture.cols
  BY DecodingAt
<1>2. PictureInv /\ picture \in Frames /\ picture.cols \in Nat
  BY FramesOf, FrameTyped DEF Inv
<1>3. P  BY <1>1, <1>2, ChosenAt
<1>4. Boundary(t, n) /\ decoder.global = Fallback  BY DEF Follows
<1>5. PICK k \in 1..17 : RunEnds(t, n, k)
  BY <1>1, <1>2, <1>4, RunFound
<1>6. /\ n + k <= Total /\ \A i \in 1..k : Skipped(n + i)
      /\ col + k - 1 <= picture.cols
      /\ Boundary(t, n + k)
      /\ Upto(t[n + k]) = x \o SkipRun(k)
      /\ At(p, x \o SkipRun(k))
      /\ t[n + k].encoder = Moved(e.encoder, Fallback, col, k, Zero)
  BY <1>5 DEF RunEnds
<1>7. \A i \in 1..k : picture.mbs[n + i] = skip
  <2>1. ASSUME NEW i \in 1..k PROVE picture.mbs[n + i] = skip
    <3> DEFINE j == n + i
    <3>1. j \in 1..Total  BY <1>1, <1>6
    <3>2. Skipped(j)  BY <1>6
    <3> HIDE DEF j, skip
    <3>3. picture.mbs[j] = skip  BY <1>2, <3>1, <3>2, ChosenAt DEF skip
    <3>4. QED  BY <3>3 DEF j
  <2>2. QED  BY <2>1
<1>8. DecodedVector(skip) = Zero  BY DEF DecodedVector
<1>9. x \in Strings /\ Aligned(x) = x /\ Len(x) % 8 = 0
  <2>1. x \in Strings /\ Aligned(x) = x  BY <1>1, UptoLength
  <2> HIDE DEF x
  <2>2. Len(Aligned(x)) % 8 = 0  BY <2>1, AlignedLength
  <2>3. QED  BY <2>1, <2>2
<1>10. ASSUME NEW r, Behinds(r, t, n + k), Reconstruct(r, skip, k)
       PROVE  pc' = "decode" /\ Follows(t)' /\ RightSoFar'
  <2>1. t[n + k].encoder = IF P THEN Moved(t[n].encoder, Fallback, Column(n), k,
                                           DecodedVector(skip))
                           ELSE t[n].encoder
    BY <1>3, <1>6, <1>8
  <2> HIDE DEF skip, col
  <2>2. k \in Nat /\ n + k <= Total /\ pc = "decode" /\ Boundary(t, n + k)
        /\ \A i \in 1..k : picture.mbs[n + i] = skip
    BY <1>1, <1>6, <1>7
  <2>3. QED  BY <1>10, <2>1, <2>2, ReconstructFollows
<1>11. CASE k = 1
  <2> DEFINE y == x \o Mode("SKIP")
             r == After(p, y, skip)
             s == <<>>
  <2>1. /\ y \in Strings /\ Aligned(y) = x \o SkipRun(1)
        /\ At(p, x \o (Mode("SKIP") \o s)) /\ Mode("SKIP") \o s = Mode("SKIP")
    <3> HIDE DEF x, p
    <3>1. At(p, x \o SkipRun(1))  BY <1>6, <1>11
    <3>2. QED  BY <1>9, <3>1, SingleSkip
  <2>2. /\ code.ok /\ {u \in DOMAIN ModeCode : ModeCode[u] = code.v} = {"SKIP"}
        /\ At(code, s) /\ \A w : After(code, s, w) = After(p, y, w)
    <3>1. At(Packet(t), Upto(t[n]) \o (Mode("SKIP") \o s)) /\ Upto(t[n]) \in Strings
      BY <1>9, <2>1
    <3>2. s \in Strings /\ "SKIP" \in DOMAIN ModeCode
      BY DEF ModeCode, Strings
    <3> HIDE DEF s, code
    <3>3. /\ code.ok
          /\ {u \in DOMAIN ModeCode : ModeCode[u] = code.v} = {"SKIP"}
          /\ At(code, s)
          /\ \A w : After(code, s, w) =
                    After(Packet(t), Upto(t[n]) \o (Mode("SKIP") \o s), w)
      BY <1>1, <3>1, <3>2, ModeAhead DEF code
    <3>4. QED  BY <2>1, <3>3
  <2>3. GetMacroblock(code, "SKIP", 16 * (col - 1), 16 * (n \div picture.cols),
                      Predictor(decoder, decoder.global, col)) = r
    <3> HIDE DEF code, p, y, skip
    <3>1. Returns(code, skip) = After(code, s, skip)
      BY <2>2, Here
    <3>2. QED  BY <1>3, <2>2, <3>1 DEF GetMacroblock, Predicted, MotionModes, skip
  <2>4. Reconstruct(r, skip, 1)
    <3>1. r.ok /\ r.v = skip
      <4>1. At(p, y)  BY <2>1
      <4> HIDE DEF p, y, skip
      <4>2. QED  BY <4>1, Valued
    <3>2. \E m \in {GetMacroblock(code, "SKIP", 16 * (col - 1),
                       16 * (n \div picture.cols),
                       Predictor(decoder, decoder.global, col))} :
            IF m.ok THEN Reconstruct(m, m.v, 1) ELSE Error
      <4> HIDE DEF code
      <4>1. QED  BY <2>2, DecodeMode DEF code
    <3> HIDE DEF code, r, skip
    <3>3. QED  BY <2>3, <3>1, <3>2
  <2>5. Behinds(r, t, n + k)
    <3>1. r = After(Packet(t), y, r.v)
      <4>1. At(p, y)  BY <2>1
      <4> HIDE DEF p, y, skip
      <4>2. r.v = skip  BY <4>1, Valued
      <4>3. QED  BY <4>2 DEF p
    <3>2. Upto(t[n + k]) = Aligned(y) /\ y \in Strings
      BY <1>6, <1>11, <2>1
    <3> HIDE DEF r, y
    <3>3. QED  BY <3>1, <3>2 DEF Behinds
  <2> HIDE DEF r, skip
  <2>6. QED  BY <1>10, <1>11, <2>4, <2>5
<1>12. CASE k # 1
  <2> DEFINE c == k - 2
             s == Bits(c, 4)
             y == x \o SkipRun(k)
             r == After(p, y, c)
  <2>1. c \in Nat /\ c \in 0..15 /\ 4 \in 0..32 /\ k = c + 2
        /\ k \in 0..17 /\ k > 1
    BY <1>12
  <2> HIDE DEF c
  <2>2. c < 2^4  BY <2>1
  <2>3. s \in Strings /\ SkipRun(k) = Mode("SKIP_RUN") \o s
    <3>1. s \in Strings  BY <2>1, BitsValue
    <3>2. SkipRun(k) = Mode("SKIP_RUN") \o s  BY <2>1 DEF SkipRun, c
    <3>3. QED  BY <3>1, <3>2
  <2>4. y \in Strings /\ Aligned(y) = y
    <3> HIDE DEF x
    <3>1. QED  BY <1>9, <2>1, WholeBytes
  <2>5. /\ code.ok
        /\ {u \in DOMAIN ModeCode : ModeCode[u] = code.v} = {"SKIP_RUN"}
        /\ At(code, s) /\ \A w : After(code, s, w) = After(p, y, w)
    <3> HIDE DEF s, code
    <3>1. At(Packet(t), Upto(t[n]) \o (Mode("SKIP_RUN") \o s))
          /\ Upto(t[n]) \in Strings
      BY <1>6, <1>9, <2>3
    <3>2. "SKIP_RUN" \in DOMAIN ModeCode  BY DEF ModeCode
    <3>3. /\ code.ok
          /\ {u \in DOMAIN ModeCode : ModeCode[u] = code.v} = {"SKIP_RUN"}
          /\ At(code, s)
          /\ \A w : After(code, s, w) =
                    After(Packet(t), Upto(t[n]) \o (Mode("SKIP_RUN") \o s), w)
      BY <1>1, <2>3, <3>1, <3>2, ModeAhead DEF code
    <3>4. QED  BY <2>3, <3>3
  <2>6. Get(code, 4) = r
    <3> HIDE DEF code, r
    <3>1. Get(code, 4) = After(code, s, c)  BY <2>1, <2>2, <2>5, GotBits
    <3>2. QED  BY <2>5, <3>1 DEF r
  <2>7. r.ok /\ r.v = c
    <3>1. At(p, y)  BY <1>6
    <3> HIDE DEF p, y
    <3>2. QED  BY <3>1, Valued
  <2>8. Run(code, col)
    <3> HIDE DEF code
    <3>1. QED  BY <2>5, DecodeMode DEF code
  <2>9. Reconstruct(r, skip, k)
    <3> HIDE DEF code, r
    <3>1. r.v + 2 = k /\ ~(k > picture.cols - col + 1)
      <4> HIDE DEF col
      <4>1. QED  BY <1>1, <1>2, <1>6, <2>1, <2>7
    <3> HIDE DEF col
    <3>2. QED  BY <1>3, <2>6, <2>7, <2>8, <3>1 DEF Run
  <2>10. Behinds(r, t, n + k)
    <3>1. r = After(Packet(t), y, r.v)  BY <2>7
    <3>2. Upto(t[n + k]) = Aligned(y)  BY <1>6, <2>4
    <3> HIDE DEF r, y
    <3>3. QED  BY <2>4, <3>1, <3>2 DEF Behinds
  <2> HIDE DEF r, skip
  <2>11. QED  BY <1>10, <2>9, <2>10
<1>13. QED  BY <1>11, <1>12

LEMMA DecodeFollows ==
  ASSUME Inv, DecodeMacroblock, NEW t, Encodes(t), Follows(t), RightSoFar
  PROVE  pc' = "decode" /\ Follows(t)' /\ RightSoFar'
<1> DEFINE n == Len(parsed)
<1>1. CASE Skipped(n + 1)  BY <1>1, DecodeSkips
<1>2. CASE ~Skipped(n + 1)  BY <1>2, DecodeCoding
<1>3. QED  BY <1>1, <1>2

\* The decoder starts where the encoder started.
LEMMA StartFollows ==
  ASSUME Inv, ~damaged, StartDecode, NEW t, Encodes(t), Encoded(t)
  PROVE  pc' = "decode" /\ Follows(t)' /\ RightSoFar'
<1> DEFINE p == Packet(t)
           b == t[0].bits
           value == [use |-> P /\ picture.use_global, mv |-> Fallback]
           got == After(p, b, value)
           head == IF P THEN GetGlobal(Reader(bits))
                   ELSE Returns(Reader(bits), [use |-> FALSE, mv |-> Zero])
<1>1. /\ PictureInv /\ picture \in Frames /\ Total \in Nat
      /\ picture.use_global \in BOOLEAN /\ pc = "channel" /\ coded = Total
      /\ parsed = <<>>
  <2>1. PictureInv /\ picture \in Frames /\ Total \in Nat
        /\ picture.use_global \in BOOLEAN
    BY FramesOf, FrameTyped DEF Inv
  <2>2. pc = "channel"  BY DEF StartDecode
  <2>3. coded = Total /\ parsed = <<>>  BY <2>2 DEF Encoded, Inv, DecoderInv
  <2>4. QED  BY <2>1, <2>2, <2>3
<1>2. Reader(bits) = p  BY <1>1 DEF Encoded, Packet
<1>3. t[0] = Start /\ t[0] \in Coders /\ b = Start.bits /\ b \in Strings
  <2>1. 0 \in 0..Total  BY <1>1
  <2>2. t[0] = Start /\ t[0] \in Coders  BY <2>1 DEF Encodes
  <2>3. QED  BY <2>2 DEF Coders
<1>4. At(p, b)
  <2>1. 0 \in 0..Total  BY <1>1
  <2>2. QED  BY <1>1, <2>1, Written
<1>5. head = got
  <2>1. CASE P
    <3>1. At(p, Start.bits)  BY <1>3, <1>4
    <3>2. value = [use |-> picture.use_global, mv |-> Fallback]
      <4>1. (P /\ picture.use_global) = picture.use_global  BY <1>1, <2>1
      <4>2. QED  BY <4>1, Zenon
    <3> HIDE DEF p, value
    <3>3. GetGlobal(p) = After(p, Start.bits, value)
      BY <1>1, <2>1, <3>1, <3>2, GotGlobal
    <3>4. QED  BY <1>2, <1>3, <2>1, <3>3
  <2>2. CASE ~P
    <3>1. b = <<>> /\ Fallback = Zero
      BY <1>3, <2>2 DEF Start, Fallback, Zero
    <3>2. value = [use |-> FALSE, mv |-> Zero]
      <4>1. (P /\ picture.use_global) = FALSE  BY <2>2
      <4>2. QED  BY <3>1, <4>1, Zenon
    <3> HIDE DEF p, value
    <3>3. Returns(p, value) = After(p, <<>>, value)  BY <1>4, Here
    <3> HIDE DEF b
    <3>4. QED  BY <1>2, <2>2, <3>1, <3>2, <3>3
  <2>3. QED  BY <2>1, <2>2
<1>6. got.ok /\ got.v = value /\ Returns(got, 0) = After(p, b, 0)
      /\ After(p, b, 0).v = 0
  <2> HIDE DEF p, b, value
  <2>1. QED  BY <1>4, Valued
<1>7. /\ pc' = "decode" /\ reader' = Returns(got, 0)
      /\ decoder' = [use_global |-> got.v.use, global |-> got.v.mv,
                     top |-> Row(got.v.mv), cur |-> Row(got.v.mv)]
      /\ picture' = picture /\ parsed' = parsed
  <2>1. \E r \in {head} :
          IF ~r.ok THEN Error
          ELSE /\ pc' = "decode"
               /\ reader' = Returns(r, 0)
               /\ decoder' = [use_global |-> r.v.use, global |-> r.v.mv,
                              top |-> Row(r.v.mv), cur |-> Row(r.v.mv)]
               /\ UNCHANGED <<picture, bits, pending, encoder, coded, damaged,
                              parsed>>
    BY DEF StartDecode
  <2> HIDE DEF head, got
  <2>2. QED  BY <1>5, <1>6, <2>1
<1>8. value.use = (P /\ picture.use_global) /\ value.mv = Fallback
  OBVIOUS
<1> HIDE DEF value
<1>9. /\ decoder'.use_global = (P /\ picture.use_global)
      /\ decoder'.global = Fallback
      /\ decoder'.top = Row(Fallback) /\ decoder'.cur = Row(Fallback)
  <2> HIDE DEF got
  <2>1. QED  BY <1>6, <1>7, <1>8
<1>10. t[0].pending = 0 /\ t[0].encoder.top = Row(Fallback)
       /\ t[0].encoder.cur = Row(Fallback)
  BY <1>3 DEF Start
<1>11. Len(parsed') = 0  BY <1>1, <1>7
<1>12. Boundary(t, 0) /\ Behinds(reader', t, 0)
  <2>1. reader' = After(Packet(t), b, reader'.v)  BY <1>6, <1>7
  <2>2. Upto(t[0]) = Aligned(b)  BY <1>3, <1>10, UptoLength
  <2> HIDE DEF b
  <2>3. QED  BY <1>3, <1>10, <2>1, <2>2 DEF Boundary, Behinds
<1>13. \A r : /\ Boundary(t, 0)' = Boundary(t, 0)
              /\ Behinds(r, t, 0)' = Behinds(r, t, 0)
              /\ Fallback' = Fallback /\ P' = P
  BY <1>7, FollowsSame
<1>14. Boundary(t, Len(parsed))' /\ Behinds(reader, t, Len(parsed))'
  BY <1>11, <1>12, <1>13 DEF Boundary, Behinds
<1>15. Like(decoder', t[0].encoder)
  BY <1>9, <1>10 DEF Like
<1>16. Follows(t)'
  BY <1>7, <1>9, <1>11, <1>13, <1>14, <1>15 DEF Follows, Like
<1>17. RightSoFar'  BY <1>11 DEF RightSoFar
<1>18. QED  BY <1>7, <1>16, <1>17

-----------------------------------------------------------------------------
(* The round trip.                                                         *)

\* What the decoder has reconstructed, on the way t of the encoder.
Decoded(t) ==
  /\ pc # "error"
  /\ RightSoFar
  /\ pc = "decode" => Follows(t)
  /\ pc = "done" => Len(parsed) = Total

\* Until the packet is damaged there is one way of the encoder on which both
\* sides are.
Faithful == ~damaged => \E t : Encodes(t) /\ Encoded(t) /\ Decoded(t)

LEMMA EncodedSame ==
  ASSUME Inv, NEW t, Encodes(t), Encoded(t),
         UNCHANGED <<picture, bits, pending, encoder, coded>>,
         pc' # "encode" => coded = Total
  PROVE  Encodes(t)' /\ Encoded(t)'
<1>1. Encodes(t)'  BY EncodesSame
<1>2. Total' = Total  BY DEF Total
<1>3. Encoded(t)'  BY <1>2 DEF Encoded
<1>4. QED  BY <1>1, <1>3

LEMMA DecodedSame ==
  ASSUME NEW t, Decoded(t), UNCHANGED <<picture, decoder, reader, parsed>>
  PROVE  RightSoFar' /\ (Follows(t) => Follows(t)') /\ Total' = Total
<1>1. \A r, n : /\ Boundary(t, n)' = Boundary(t, n)
                /\ Behinds(r, t, n)' = Behinds(r, t, n)
                /\ Fallback' = Fallback /\ P' = P
  BY FollowsSame
<1>2. ASSUME Follows(t) PROVE Follows(t)'
  <2>1. Boundary(t, Len(parsed))' = Boundary(t, Len(parsed))
        /\ Behinds(reader, t, Len(parsed))' = Behinds(reader, t, Len(parsed))
    BY <1>1 DEF Boundary, Behinds, Skipped, Packet, Total
  <2>2. Like(decoder, t[Len(parsed)].encoder)' = Like(decoder, t[Len(parsed)].encoder)
    BY DEF Like
  <2>3. QED  BY <1>1, <1>2, <2>1, <2>2 DEF Follows
<1>3. RightSoFar'  BY DEF Decoded, RightSoFar
<1>4. Total' = Total  BY DEF Total
<1>5. QED  BY <1>2, <1>3, <1>4

LEMMA FaithfulKept ==
  ASSUME Inv, Faithful, [Next]_vars
  PROVE  Faithful'
<1>1. CASE DamagePacket
  <2>1. damaged'  BY <1>1 DEF DamagePacket
  <2>2. QED  BY <2>1 DEF Faithful
<1>2. SUFFICES ASSUME ~damaged, ~DamagePacket, damaged' = damaged
               PROVE  Faithful'
  <2>1. ~DamagePacket => damaged' = damaged
    BY DEF Next, vars, EncodeMacroblock, Send, StartDecode, DecodeMacroblock,
           EndDecode, Error, Run, Reconstruct
  <2>2. damaged' => Faithful'  BY DEF Faithful
  <2>3. QED  BY <1>1, <2>1, <2>2
<1>3. PICK t : Encodes(t) /\ Encoded(t) /\ Decoded(t)
  BY <1>2 DEF Faithful
<1>4. SUFFICES Encodes(t)' /\ Encoded(t)' /\ Decoded(t)'
  BY DEF Faithful
<1>5. pc # "error" /\ RightSoFar  BY <1>3 DEF Decoded
<1>6. CASE EncodeMacroblock
  <2>1. Encodes(t)' /\ Encoded(t)'  BY <1>3, <1>6, EncodeEncoded
  <2>2. pc' = "encode" /\ UNCHANGED <<picture, decoder, reader, parsed>>
    BY <1>6 DEF EncodeMacroblock
  <2>3. RightSoFar'  BY <1>3, <2>2, DecodedSame
  <2>4. QED  BY <2>1, <2>2, <2>3 DEF Decoded
<1>7. CASE Send
  <2>1. /\ pc' = "channel" /\ coded = Total
        /\ UNCHANGED <<picture, bits, pending, encoder, coded, decoder, reader,
                       parsed>>
    BY <1>7 DEF Send
  <2>2. Encodes(t)' /\ Encoded(t)'  BY <1>3, <2>1, EncodedSame
  <2>3. RightSoFar'  BY <1>3, <2>1, DecodedSame
  <2>4. QED  BY <2>1, <2>2, <2>3 DEF Decoded
<1>8. CASE StartDecode
  <2>1. pc' = "decode" /\ Follows(t)' /\ RightSoFar'
    BY <1>2, <1>3, <1>8, StartFollows
  <2>2. /\ UNCHANGED <<picture, bits, pending, encoder, coded>>
        /\ coded = Total
    BY <1>3, <1>8 DEF StartDecode, Error, Encoded
  <2>3. Encodes(t)' /\ Encoded(t)'  BY <1>3, <2>2, EncodedSame
  <2>4. QED  BY <2>1, <2>3 DEF Decoded
<1>9. CASE DecodeMacroblock
  <2>0. pc = "decode"  BY <1>9 DEF DecodeMacroblock
  <2>1. pc' = "decode" /\ Follows(t)' /\ RightSoFar'
    BY <1>3, <1>9, <2>0, DecodeFollows DEF Decoded
  <2>2. /\ UNCHANGED <<picture, bits, pending, encoder, coded>>
        /\ coded = Total
    <3>1. coded = Total  BY <1>3, <2>0 DEF Encoded
    <3>2. UNCHANGED <<picture, bits, pending, encoder, coded>>
      BY <1>9 DEF DecodeMacroblock, Error, Run, Reconstruct
    <3>3. QED  BY <3>1, <3>2
  <2>3. Encodes(t)' /\ Encoded(t)'  BY <1>3, <2>2, EncodedSame
  <2>4. QED  BY <2>1, <2>3 DEF Decoded
<1>10. CASE EndDecode
  <2>1. /\ pc = "decode" /\ pc' = "done" /\ Len(parsed) = Total
        /\ UNCHANGED <<picture, bits, pending, encoder, coded, decoder, reader,
                       parsed>>
    BY <1>10 DEF EndDecode
  <2>2. coded = Total  BY <1>3, <2>1 DEF Encoded
  <2>3. Encodes(t)' /\ Encoded(t)'  BY <1>3, <2>1, <2>2, EncodedSame
  <2>4. RightSoFar' /\ Total' = Total  BY <1>3, <2>1, DecodedSame
  <2>5. QED  BY <2>1, <2>3, <2>4 DEF Decoded
<1>11. CASE UNCHANGED vars
  <2>1. UNCHANGED <<picture, pc, bits, pending, encoder, coded, decoder, reader,
                    parsed>>
    BY <1>11 DEF vars
  <2>2. pc # "encode" => coded = Total  BY <1>3 DEF Encoded
  <2>3. Encodes(t)' /\ Encoded(t)'  BY <1>3, <2>1, <2>2, EncodedSame
  <2>4. RightSoFar' /\ Total' = Total /\ (Follows(t) => Follows(t)')
    BY <1>3, <2>1, DecodedSame
  <2>5. QED  BY <1>3, <2>1, <2>3, <2>4 DEF Decoded
<1>12. QED  BY <1>2, <1>6, <1>7, <1>8, <1>9, <1>10, <1>11 DEF Next

LEMMA InitFaithful ==
  ASSUME Init
  PROVE  Faithful
<1>1. pc = "encode" /\ parsed = <<>>  BY DEF Init
<1>2. Len(parsed) = 0  BY <1>1
<1>3. \A t : Decoded(t)  BY <1>1, <1>2 DEF Decoded, RightSoFar
<1>4. QED  BY <1>3, InitEncoded DEF Faithful

LEMMA FaithfulRoundTrip ==
  ASSUME Inv, Faithful
  PROVE  RoundTrip
<1> DEFINE n == Len(parsed)
           mbs == picture.mbs
<1>1. SUFFICES ASSUME ~damaged
      PROVE  /\ pc # "error" /\ IsPrefix(parsed, mbs)
             /\ pc = "done" => parsed = mbs
  BY DEF RoundTrip
<1>2. pc # "error" /\ RightSoFar /\ (pc = "done" => n = Total)
  BY <1>1 DEF Faithful, Decoded
<1>3. PICK S : parsed \in Seq(S)  BY DEF Inv, ParsedInv
<1>4. n \in Nat /\ n <= Total  BY <1>3 DEF Inv, ParsedInv
<1>5. mbs \in Seq(Macroblocks) /\ Len(mbs) = Total /\ Total \in Nat
  BY FramesOf, FrameTyped DEF Inv
<1>6. \A i \in 1..n : parsed[i] = mbs[i]  BY <1>2 DEF RightSoFar
<1> HIDE DEF mbs
<1>7. parsed = [i \in 1..n |-> parsed[i]]  BY <1>3
<1>8. SubSeq(parsed, 1, n) = SubSeq(mbs, 1, n)
  <2>1. SubSeq(parsed, 1, n) = [i \in 1..n |-> parsed[i]]  BY <1>3, <1>4
  <2>2. SubSeq(mbs, 1, n) = [i \in 1..n |-> mbs[i]]
    <3>1. 1 \in 1..(Len(mbs) + 1) /\ n \in 0..Len(mbs)  BY <1>4, <1>5
    <3> HIDE DEF n
    <3>2. QED  BY <1>5, <3>1
  <2> HIDE DEF n
  <2>3. QED  BY <1>6, <2>1, <2>2
<1>9. IsPrefix(parsed, mbs)
  BY <1>4, <1>5, <1>8 DEF IsPrefix
<1>10. ASSUME pc = "done" PROVE parsed = mbs
  <2>1. n = Total  BY <1>2, <1>10
  <2>2. mbs = [i \in 1..Total |-> mbs[i]]  BY <1>5
  <2> HIDE DEF n
  <2>3. QED  BY <1>6, <1>7, <2>1, <2>2
<1>11. QED  BY <1>2, <1>9, <1>10

\* Whatever the picture, its size, its vectors, its runs of skips and its
\* residuals: as long as the packet arrives as it was written, the decoder
\* reports no error and reconstructs exactly the macroblocks that the encoder
\* chose (encoder_encode_internal, decoder_decode_packet).
THEOREM PictureRoundTrip == Spec => []RoundTrip
<1>1. Init => Inv /\ Faithful  BY InitInv, InitFaithful
<1>2. Inv /\ Faithful /\ [Next]_vars => Inv' /\ Faithful'
  BY InvKept, FaithfulKept
<1>3. Inv /\ Faithful => RoundTrip  BY FaithfulRoundTrip
<1>4. QED  BY <1>1, <1>2, <1>3, PTL DEF Spec
=============================================================================

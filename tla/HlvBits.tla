------------------------------ MODULE HlvBits ------------------------------
(***************************************************************************)
(* The bit writer and bit reader of the HLV codec (hlv1_common.c) and the  *)
(* codes built on them: exp-Golomb numbers, the coefficient levels of      *)
(* version 9 and motion vectors (hlv1_encode.c, hlv1_decode.c).            *)
(*                                                                         *)
(* What a writer holds is the sequence of its bits; the bytes, the cache   *)
(* and the shift of hlv1_bw_append are only how the code stores it.  A     *)
(* reader is a record: the bits, how many are consumed, the value read     *)
(* last, and whether no read has failed so far.                            *)
(***************************************************************************)
EXTENDS Integers, Sequences, SequencesExt

\* hlv1_bw_put: the low n bits of v, the most significant first.
Bits(v, n) == [i \in 1..n |-> (v \div 2^(n - i)) % 2]

\* The number that the code writes with hlv1_bw_put.
Value(bits) ==
  LET v[n \in 0..Len(bits)] == IF n = 0 THEN 0 ELSE 2 * v[n - 1] + bits[n]
  IN  v[Len(bits)]

Joined(strings) == FlattenSeq(strings)

\* Bits in the code of v + 1 after its first one.
Leading(v) == CHOOSE k \in 0..31 : 2^k <= v + 1 /\ v + 1 < 2^(k + 1)

\* hlv1_bw_put_ue.
UE(v) == Bits(0, Leading(v)) \o Bits(v + 1, Leading(v) + 1)

\* hlv1_bw_put_se: 0, 1, -1, 2, -2 ... as 0, 1, 2, 3, 4 ...
Mapped(v) == IF v <= 0 THEN 2 * (-v) ELSE 2 * v - 1
SE(v) == UE(Mapped(v))

Abs(v) == IF v < 0 THEN -v ELSE v
Sign(v) == IF v < 0 THEN <<1>> ELSE <<0>>

\* put_level_v9: 0s for one, a Rice code of two bits for 2..29 and an escape.
Quotient(v) == (Abs(v) - 2) \div 4
LevelV9(v) ==
  CASE Abs(v) = 1 -> <<0>> \o Sign(v)
    [] Abs(v) > 1 /\ Quotient(v) < 7 ->
         <<1>> \o [i \in 1..Quotient(v) |-> 1] \o <<0>>
               \o Bits((Abs(v) - 2) % 4, 2) \o Sign(v)
    [] Abs(v) > 1 /\ Quotient(v) >= 7 ->
         <<1>> \o [i \in 1..7 |-> 1] \o UE(Abs(v) - 30) \o Sign(v)

\* C's division of a signed number by two.
Half(v) == IF v < 0 THEN -((-v) \div 2) ELSE v \div 2

\* put_motion_vector from version 6 on: half-pixel units only when needed.
Fractional(mv) == mv[1] % 2 = 1 \/ mv[2] % 2 = 1
Vector(mv) ==
  IF Fractional(mv) THEN <<1>> \o SE(mv[1]) \o SE(mv[2])
                    ELSE <<0>> \o SE(Half(mv[1])) \o SE(Half(mv[2]))

\* align_writer_zero.
Aligned(bits) == bits \o Bits(0, (8 - (Len(bits) % 8)) % 8)

-----------------------------------------------------------------------------
\* hlv1_br_init over the valid bits of a packet.
Reader(bits) == [bits |-> bits, at |-> 0, v |-> 0, ok |-> TRUE]

Left(r) == Len(r.bits) - r.at

Failed(r) == [bits |-> r.bits, at |-> r.at, v |-> 0, ok |-> FALSE]
Returns(r, v) == [r EXCEPT !.v = v]

\* What a function does next; after an error it returns.
Then(r, F(_)) == IF r.ok THEN F(r) ELSE r

\* hlv1_br_get; an error stays in the reader.
Get(r, n) ==
  IF n > Left(r) THEN Failed(r)
  ELSE [r EXCEPT !.at = @ + n, !.v = Value(SubSeq(r.bits, r.at + 1, r.at + n))]

\* One value after the other for every i of 1..n, each read with Item(r, i).
GetEach(r, n, Item(_, _)) ==
  LET each[i \in 0..n] ==
        IF i = 0 THEN Returns(r, <<>>)
        ELSE Then(each[i - 1], LAMBDA a :
               Then(Item(a, i), LAMBDA x : Returns(x, Append(a.v, x.v))))
  IN  each[n]

\* n numbers of the same width.
GetNumbers(r, n, width) == GetEach(r, n, LAMBDA a, i : Get(a, width))

\* hlv1_br_get_ue: the zeros before the next one say how many bits follow it.
GetSuffix(r, leading) ==
  IF leading > 31 THEN Failed(r)
  ELSE Then(Get(Get(r, leading + 1), leading),
            LAMBDA s : Returns(s, 2^leading + s.v - 1))
GetUE(r) ==
  LET ones == {k \in 0..(Left(r) - 1) : r.bits[r.at + k + 1] = 1}
  IN  IF ones = {} THEN Failed(r) ELSE GetSuffix(r, Min(ones))

\* hlv1_br_get_se.
Unmapped(u) == IF u % 2 = 1 THEN (u + 1) \div 2 ELSE -((u + 1) \div 2)
GetSE(r) == Then(GetUE(r), LAMBDA u : Returns(u, Unmapped(u.v)))

Signed(r, magnitude) ==
  Then(Get(r, 1), LAMBDA s : Returns(s, IF s.v = 1 THEN -magnitude ELSE magnitude))

\* The ones in front of a sequence.
Ones(bits) ==
  CHOOSE k \in 0..Len(bits) :
    /\ \A i \in 1..k : bits[i] = 1
    /\ k < Len(bits) => bits[k + 1] = 0

\* The two bits below a unary quotient, and the sign.
GetRemainder(r, quotient) ==
  Then(Get(r, 2), LAMBDA rr : Signed(rr, 2 + 4 * quotient + rr.v))

\* get_level_v9 with eight bits in sight: magnitudes 1 .. 17 from one look.
LookAhead(r, k) ==
  IF k = 0 THEN Signed(Get(r, 1), 1) ELSE GetRemainder(Get(r, k + 1), k - 1)

\* The unary quotient, at most seven, bit by bit.
GetQuotient(r) ==
  LET q[n \in 0..7] ==
        IF n = 0 THEN [reader |-> r, count |-> 0, more |-> TRUE]
        ELSE LET p == q[n - 1]
                 b == Get(p.reader, 1)
             IN  IF ~p.more THEN p
                 ELSE [reader |-> b, count |-> p.count + b.v,
                       more |-> b.v = 1 /\ b.ok]
  IN  Returns(q[7].reader, q[7].count)

BitByBit(r) ==
  Then(Get(r, 1), LAMBDA first :
    IF first.v = 0 THEN Signed(first, 1)
    ELSE Then(GetQuotient(first), LAMBDA quotient :
           IF quotient.v = 7
           THEN Then(GetUE(quotient), LAMBDA escape : Signed(escape, 30 + escape.v))
           ELSE GetRemainder(quotient, quotient.v)))

\* get_level_v9; 11111 is not one of the short codes.
GetLevelV9(r) ==
  LET prefix == Ones(SubSeq(r.bits, r.at + 1, r.at + 8))
  IN  IF Left(r) >= 8 /\ prefix < 5 THEN LookAhead(r, prefix) ELSE BitByBit(r)

\* get_motion_vector.
GetVector(r) ==
  Then(Get(r, 1), LAMBDA fractional :
    Then(GetSE(fractional), LAMBDA x : Then(GetSE(x), LAMBDA y :
      Returns(y, IF fractional.v = 1 THEN <<x.v, y.v>>
                 ELSE <<2 * x.v, 2 * y.v>>))))

\* align_reader_zero: the bits up to the next byte have to be zero.
GetAligned(r) ==
  Then(Get(r, (8 - (r.at % 8)) % 8),
       LAMBDA padding : IF padding.v # 0 THEN Failed(padding) ELSE padding)
=============================================================================

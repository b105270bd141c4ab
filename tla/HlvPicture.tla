---------------------------- MODULE HlvPicture -----------------------------
(***************************************************************************)
(* One picture of the HLV codec, version 15, from the macroblocks that the *)
(* encoder has chosen to the macroblocks that a decoder reconstructs:      *)
(* hlv1_encode.c (encoder_encode_internal and the candidates) writes bits, *)
(* hlv1_decode.c (decoder_decode_packet) reads them, and both carry the    *)
(* motion-vector context and the skip run from one macroblock to the next. *)
(*                                                                         *)
(* "picture" is what the encoder decided: the mode of every macroblock and *)
(* the parameters of its prediction and of its residual.  Prediction,      *)
(* transform and rate-distortion choice are the same functions of these on *)
(* both sides and are left out: a reconstruction is the macroblocks.  On   *)
(* the way to the decoder the packet may be damaged.                       *)
(***************************************************************************)
EXTENDS HlvBits

CONSTANTS
  Pictures,     \* what the encoder may have decided
  Scan,         \* coefficients of a block: 16, or fewer
  Samples,      \* samples of a palette or literal row: 16, or fewer
  Fragile       \* those of them whose packets are damaged on the way

-----------------------------------------------------------------------------
(* What an encoder may decide.                                             *)

Blocks == 3         \* of a macroblock: 16 + 4 + 4, or one of each plane
SubBlocks == 2      \* of an 8x8 block: 4 + 1 + 1, or fewer

Word == (-(2^15))..(2^15 - 1)       \* int16_t
Byte == 0..255
SignedByte == -128..127
Residues(n) == [1..n -> [1..Scan -> Word]]

SplitParts(n, fields) == [1..n -> [inter : {FALSE}] \cup fields]
MovedParts == [inter : {TRUE}, mv : Word \X Word]

Palettes(n) ==
  [mode : {"PALETTE"}, count : {n}, colors : [1..(3 * n) -> Byte],
   index : [1..Samples -> 0..(n - 1)]]

Macroblocks ==
  [mode : {"SKIP"}]
  \cup [mode : {"INTER"}, mv : Word \X Word, res : Residues(Blocks)]
  \cup [mode : {"GLOBAL"}, res : Residues(Blocks)]
  \cup [mode : {"SPLIT_INTER"},
        parts : SplitParts(4, [inter : {TRUE}, mv : Word \X Word,
                               res : Residues(SubBlocks)])]
  \cup [mode : {"SPLIT_JOINT"}, parts : SplitParts(4, MovedParts),
        res : Residues(Blocks)]
  \cup [mode : {"RECT_SPLIT"}, vertical : BOOLEAN,
        parts : SplitParts(2, MovedParts), res : Residues(Blocks)]
  \cup [mode : {"INTRA"}, intra_mode : 0..3, res : Residues(Blocks)]
  \cup [mode : {"FILL"}, planes : [1..3 -> Byte], res : Residues(Blocks)]
  \cup [mode : {"GRADIENT"},
        planes : {p \in [1..9 -> Byte \cup SignedByte] : \A i \in 1..9 :
                    p[i] \in IF i % 3 = 1 THEN Byte ELSE SignedByte},
        res : Residues(Blocks)]
  \cup Palettes(2) \cup Palettes(4) \cup Palettes(8)
  \cup [mode : {"LITERAL"}, y : [1..Samples -> 0..127],
        u : [1..Samples -> 0..63], v : [1..Samples -> 0..63],
        correction : [1..2 -> SignedByte]]

Frames ==
  [cols : Nat \ {0}, rows : Nat \ {0}, type : {"K", "P"},
   use_global : BOOLEAN, global : Word \X Word, q : Nat,
   mbs : Seq(Macroblocks)]

\* The modes that predict from the picture before belong to P pictures.
MotionModes == {"SKIP", "SKIP_RUN", "INTER", "GLOBAL", "SPLIT_INTER",
                "SPLIT_JOINT", "RECT_SPLIT"}

\* motion_valid, motion_valid_rect: the rectangle of w x h samples at x, y,
\* moved by mv half samples, stays in the reference of picture p.
StaysInside(p, x, y, w, h, mv) ==
  /\ 2 * x + mv[1] >= 0
  /\ 2 * y + mv[2] >= 0
  /\ 2 * (x + w - 1) + mv[1] <= 2 * (16 * p.cols - 1)
  /\ 2 * (y + h - 1) + mv[2] <= 2 * (16 * p.rows - 1)

\* Where part k of a macroblock at x, y is.
PartAt(m, k, x, y) ==
  CASE m.mode \in {"SPLIT_INTER", "SPLIT_JOINT"} ->
         [x |-> x + 8 * ((k - 1) % 2), y |-> y + 8 * ((k - 1) \div 2),
          w |-> 8, h |-> 8]
    [] m.mode = "RECT_SPLIT" /\ m.vertical ->
         [x |-> x + 8 * (k - 1), y |-> y, w |-> 8, h |-> 16]
    [] m.mode = "RECT_SPLIT" /\ ~m.vertical ->
         [x |-> x, y |-> y + 8 * (k - 1), w |-> 16, h |-> 8]

\* The candidates of the encoder for macroblock m at x, y: those that predict
\* from the picture before in P pictures only, with a global vector where the
\* picture has one, and with vectors that stay inside.
Candidate(p, m, x, y) ==
  /\ m.mode \in MotionModes => p.type = "P"
  /\ m.mode = "INTER" => StaysInside(p, x, y, 16, 16, m.mv)
  /\ m.mode = "GLOBAL" => p.use_global /\ StaysInside(p, x, y, 16, 16, p.global)
  /\ m.mode \in {"SPLIT_INTER", "SPLIT_JOINT", "RECT_SPLIT"} =>
       \A k \in DOMAIN m.parts :
         LET at == PartAt(m, k, x, y)
         IN  m.parts[k].inter =>
               StaysInside(p, at.x, at.y, at.w, at.h, m.parts[k].mv)
Chosen(p) ==
  \A n \in 1..Len(p.mbs) :
    Candidate(p, p.mbs[n], 16 * ((n - 1) % p.cols), 16 * ((n - 1) \div p.cols))

ASSUME PictureAssumption ==
  /\ Scan \in 1..16 /\ Samples \in 1..16
  /\ \A p \in Pictures :
       p \in Frames /\ Len(p.mbs) = p.cols * p.rows /\ Chosen(p)

VARIABLES
  picture,  \* cols, rows, type, use_global, global, q and the macroblocks
  pc,       \* who works: "encode", "channel", "decode", "done", "error"
  bits,     \* frame_bits
  pending,  \* pending_skip_count
  encoder,  \* top and cur: mv_top_x/y and mv_cur_x/y of the encoder
  coded,    \* macroblocks coded
  decoder,  \* top and cur of the decoder
  reader,   \* the decoder's bit reader
  damaged,  \* the packet is not the one that was written
  parsed    \* the macroblocks reconstructed

vars == <<picture, pc, bits, pending, encoder, coded, decoder, reader,
          damaged, parsed>>

P == picture.type = "P"
Fallback == IF P /\ picture.use_global THEN picture.global ELSE <<0, 0>>
Zero == <<0, 0>>

ModeCode == [SKIP |-> 0, INTER |-> 1, FILL |-> 2, INTRA |-> 3,
             SPLIT_INTER |-> 4, GLOBAL |-> 5, PALETTE |-> 6, GRADIENT |-> 7,
             LITERAL |-> 8, SKIP_RUN |-> 9, SPLIT_JOINT |-> 10,
             RECT_SPLIT |-> 11]
Mode(m) == Bits(ModeCode[m], 4)

Bytes(values) == Joined([i \in 1..Len(values) |-> Bits(values[i] % 256, 8)])

-----------------------------------------------------------------------------
(* The motion-vector context: the vectors of the row above and of this row *)
(* so far, and their median as the predictor of INTER.                     *)

Lower(a, b) == IF a > b THEN b ELSE a
Upper(a, b) == IF a > b THEN a ELSE b
Median3(a, b, c) == Upper(Lower(a, b), Lower(Upper(a, b), c))

\* A vector as mv_top and mv_cur keep it: int16_t.
Stored(mv) == [c \in 1..2 |-> ((mv[c] + 32768) % 65536) - 32768]
Row(mv) == [i \in 1..picture.cols |-> Stored(mv)]

Predictor(context, fallback, col) ==
  LET left  == IF col > 1 THEN context.cur[col - 1] ELSE fallback
      above == context.top[col]
      right == IF col < picture.cols THEN context.top[col + 1] ELSE fallback
  IN  [c \in 1..2 |-> Median3(left[c], above[c], right[c])]

\* The context after n macroblocks from col on used the vector mv; the rows
\* are swapped at the end of a row, and a row starts from the fallback.
Moved(context, fallback, col, n, mv) ==
  LET cur == [i \in 1..picture.cols |->
                IF i \in col..(col + n - 1) THEN Stored(mv)
                ELSE context.cur[i]]
  IN  IF col + n - 1 = picture.cols
      THEN [context EXCEPT !.top = cur, !.cur = Row(fallback)]
      ELSE [context EXCEPT !.cur = cur]

\* Mutant of SelectedVector: a split leaves the vector of its first part.
FirstPartVector(m) ==
  IF "parts" \in DOMAIN m /\ m.parts[1].inter THEN m.parts[1].mv
  ELSE IF m.mode = "SKIP" THEN Zero
  ELSE IF m.mode = "INTER" THEN m.mv ELSE Fallback

\* The vector that the encoder keeps of a macroblock: splits and intra
\* macroblocks leave the fallback.
SelectedVector(m) ==
  CASE m.mode = "SKIP" -> Zero
    [] m.mode = "INTER" -> m.mv
    [] OTHER -> Fallback

Sum2(a, b) == <<a[1] + b[1], a[2] + b[2]>>
Difference(a, b) == <<a[1] - b[1], a[2] - b[2]>>

-----------------------------------------------------------------------------
(* The residual of a macroblock or of an 8x8 block: a sequence of blocks,  *)
(* each the sequence of its Scan levels in scan order.                     *)

\* Where block b has levels, in scan order.
Positions(b) ==
  LET found[i \in 0..Scan] ==
        IF i = 0 THEN <<>>
        ELSE IF b[i] = 0 THEN found[i - 1] ELSE Append(found[i - 1], i)
  IN  found[Scan]
Coded(b) == Positions(b) # <<>>
ZeroBlock == [i \in 1..Scan |-> 0]

RunBefore(p, k) == p[k] - (IF k = 1 THEN 0 ELSE p[k - 1]) - 1

\* coeff_mode 0 codes levels as exp-Golomb numbers, 1 as those of version 9.
Level(v, coeff_mode) == IF coeff_mode = 0 THEN SE(v) ELSE LevelV9(v)

Coefficients(b, coeff_mode) ==
  LET p == Positions(b)
  IN  UE(Len(p) - 1) \o
      Joined([k \in 1..Len(p) |->
                UE(RunBefore(p, k)) \o Level(b[p[k]], coeff_mode)])

\* encode_plane, encode_plane_masked: count, runs and levels.
Legacy(b) == Coefficients(b, 0)

\* put_coeff_block_v9: a single DC level needs neither count nor run.
BlockV9(b) == IF Positions(b) = <<1>> THEN <<0>> \o LevelV9(b[1])
              ELSE <<1>> \o Coefficients(b, 1)

\* put_residual_group_v14: the shorter of the two codings, then the mask,
\* block 0 in its lowest bit.
Group(res) ==
  LET n      == Len(res)
      legacy == Joined([k \in 1..n |->
                  IF Coded(res[k]) THEN Legacy(res[k]) ELSE <<>>])
      v9     == Joined([k \in 1..n |->
                  IF Coded(res[k]) THEN BlockV9(res[k]) ELSE <<>>])
      use_v9 == Len(v9) < Len(legacy)
  IN  <<IF use_v9 THEN 1 ELSE 0>>
      \o [i \in 1..n |-> IF Coded(res[n + 1 - i]) THEN 1 ELSE 0]
      \o (IF use_v9 THEN v9 ELSE legacy)

\* put_residual, put_residual_sb8: nothing more when no block has a level.
Residual(res) ==
  IF \A k \in 1..Len(res) : ~Coded(res[k]) THEN <<0>>
  ELSE <<1>> \o
       IF picture.q >= 64 THEN Group(res)
       ELSE Joined([k \in 1..Len(res) |->
              IF Coded(res[k]) THEN <<1>> \o Legacy(res[k]) ELSE <<0>>])

-----------------------------------------------------------------------------
(* The macroblocks.                                                        *)

\* A part of a split: stay, or move by a vector coded against the global one.
Part(p) ==
  IF p.inter THEN <<1>> \o Vector(Difference(p.mv, Fallback)) ELSE <<0>>
Parts(m) == [k \in 1..Len(m.parts) |-> Part(m.parts[k])]

\* put_literal_row: samples of n bits, the lowest bit first in every byte.
PackedBit(row, n, k) ==
  IF k < n * Len(row) THEN (row[(k \div n) + 1] \div 2^(k % n)) % 2 ELSE 0
LiteralRow(row, n) ==
  LET bytes == (Len(row) * n + 7) \div 8
  IN  [i \in 1..(8 * bytes) |->
         PackedBit(row, n, 8 * ((i - 1) \div 8) + 7 - ((i - 1) % 8))]

IndexBits(count) == IF count = 2 THEN 1 ELSE IF count = 4 THEN 2 ELSE 3

\* The bits of a macroblock that is not skipped; "predicted" is the median.
Macroblock(m, predicted) ==
  Mode(m.mode) \o
  CASE m.mode = "INTER" -> Vector(Difference(m.mv, predicted)) \o Residual(m.res)
    [] m.mode = "GLOBAL" -> Residual(m.res)
    [] m.mode = "SPLIT_INTER" ->
         Joined([k \in 1..4 |-> Part(m.parts[k]) \o
           IF m.parts[k].inter THEN Residual(m.parts[k].res) ELSE <<>>])
    [] m.mode = "SPLIT_JOINT" -> Joined(Parts(m)) \o Residual(m.res)
    [] m.mode = "RECT_SPLIT" ->
         <<IF m.vertical THEN 1 ELSE 0>> \o Joined(Parts(m)) \o Residual(m.res)
    [] m.mode = "INTRA" -> Bits(m.intra_mode, 2) \o Residual(m.res)
    [] m.mode \in {"FILL", "GRADIENT"} -> Bytes(m.planes) \o Residual(m.res)
    [] m.mode = "PALETTE" ->
         Bits(CASE m.count = 2 -> 0 [] m.count = 4 -> 1 [] OTHER -> 2, 2)
         \o Bytes(m.colors)
         \o Joined([i \in 1..Samples |-> Bits(m.index[i], IndexBits(m.count))])
    [] m.mode = "LITERAL" ->
         Bits(0, 4) \o LiteralRow(m.y, 7) \o LiteralRow(m.u, 6)
                    \o LiteralRow(m.v, 6) \o Bytes(m.correction)

\* append_skip_run.
SkipRun(n) ==
  CASE n = 0 -> <<>>
    [] n = 1 -> Mode("SKIP") \o Bits(0, 4)
    [] n > 1 -> Mode("SKIP_RUN") \o Bits(n - 2, 4)

-----------------------------------------------------------------------------
(* The encoder.                                                            *)

Init ==
  /\ picture \in Pictures
  /\ pc = "encode"
  /\ bits = CASE ~P -> <<>>
              [] P /\ ~picture.use_global -> <<0>>
              [] P /\ picture.use_global -> <<1>> \o Vector(picture.global)
  /\ pending = 0
  /\ encoder = [top |-> Row(Fallback), cur |-> Row(Fallback)]
  /\ coded = 0
  /\ decoder = [use_global |-> FALSE, global |-> Zero, top |-> <<>>, cur |-> <<>>]
  /\ reader = Reader(<<>>)
  /\ damaged = FALSE
  /\ parsed = <<>>

Total == picture.cols * picture.rows
Column(n) == (n % picture.cols) + 1
LastColumn(n) == Column(n) = picture.cols

\* A skipped macroblock only lengthens the run; the run is written when it
\* is 17 long or the row ends, and before any other macroblock.
EncodeMacroblock ==
  /\ pc = "encode" /\ coded < Total
  /\ LET m       == picture.mbs[coded + 1]
         aligned == Aligned(bits)
         run     == pending + 1
         flush   == run = 17 \/ LastColumn(coded)
         predicted == Predictor(encoder, Fallback, Column(coded))
     IN  /\ bits' = CASE m.mode = "SKIP" /\ flush -> aligned \o SkipRun(run)
                      [] m.mode = "SKIP" /\ ~flush -> aligned
                      [] OTHER -> aligned \o SkipRun(pending)
                                          \o Macroblock(m, predicted)
         /\ pending' = IF m.mode = "SKIP" /\ ~flush THEN run ELSE 0
         /\ encoder' = IF P THEN Moved(encoder, Fallback, Column(coded), 1,
                                       SelectedVector(m))
                       ELSE encoder
  /\ coded' = coded + 1
  /\ UNCHANGED <<picture, pc, decoder, reader, damaged, parsed>>

\* hlv1_bw_finish; bit_length is the number of bits.
Send ==
  /\ pc = "encode" /\ coded = Total
  /\ pc' = "channel"
  /\ UNCHANGED <<picture, bits, pending, encoder, coded, decoder, reader,
                 damaged, parsed>>

\* One bit is wrong, or the end of the packet is missing.
DamagePacket ==
  /\ pc = "channel" /\ picture \in Fragile /\ ~damaged
  /\ \/ \E i \in 1..Len(bits) : bits' = [bits EXCEPT ![i] = 1 - @]
     \/ \E n \in 0..(Len(bits) - 1) : bits' = SubSeq(bits, 1, n)
  /\ damaged' = TRUE
  /\ UNCHANGED <<picture, pc, pending, encoder, coded, decoder, reader, parsed>>

-----------------------------------------------------------------------------
(* The decoder.                                                            *)

GetLevel(r, coeff_mode) ==
  IF coeff_mode = 0 THEN GetSE(r) ELSE GetLevelV9(r)

\* A level after a run of zeros; the run must not leave the block.
StoreLevel(run, block, pos, coeff_mode) ==
  IF pos > Scan THEN Failed(run)
  ELSE Then(GetLevel(run, coeff_mode), LAMBDA x :
         Returns(x, [pos |-> pos, block |-> [block EXCEPT ![pos] = x.v]]))
GetRunLevel(r, coeff_mode) ==
  Then(GetUE(r), LAMBDA run :
    StoreLevel(run, r.v.block, r.v.pos + run.v + 1, coeff_mode))

GetLevels(r, count, coeff_mode) ==
  LET \* the block so far and the position of its last level
      levels[i \in 0..count] ==
        IF i = 0 THEN Returns(r, [pos |-> 0, block |-> ZeroBlock])
        ELSE Then(levels[i - 1], LAMBDA a : GetRunLevel(a, coeff_mode))
  IN  Then(levels[count], LAMBDA all : Returns(all, all.v.block))

GetCounted(r, coeff_mode) ==
  Then(GetUE(r), LAMBDA count :
    IF count.v + 1 > Scan THEN Failed(count)
    ELSE GetLevels(count, count.v + 1, coeff_mode))

\* decode_nonzero_residual_4x4.
GetBlock(r, coeff_mode) ==
  IF coeff_mode = 0 THEN GetCounted(r, 0)
  ELSE Then(Get(r, 1), LAMBDA many :
         IF many.v = 1 THEN GetCounted(many, 1)
         ELSE Then(GetLevelV9(many), LAMBDA dc :
                Returns(dc, [ZeroBlock EXCEPT ![1] = dc.v])))

\* get_residual_mask and decode_plane_residual_masked; no block at all is an
\* error of the stream.
GetMasked(r, n) ==
  Then(Get(r, 1), LAMBDA coeff_mode : Then(Get(coeff_mode, n), LAMBDA mask :
    IF mask.v = 0 THEN Failed(mask)
    ELSE GetEach(mask, n, LAMBDA a, i :
           IF (mask.v \div 2^(i - 1)) % 2 = 1 THEN GetBlock(a, coeff_mode.v)
           ELSE Returns(a, ZeroBlock))))

GetOptionalBlock(r) ==
  Then(Get(r, 1), LAMBDA flag :
    IF flag.v = 0 THEN Returns(flag, ZeroBlock) ELSE GetBlock(flag, 0))

\* decode_optional_mb_residual, decode_optional_sb8_residual.
GetResidual(r, n) ==
  Then(Get(r, 1), LAMBDA has :
    IF has.v = 0 THEN Returns(has, [k \in 1..n |-> ZeroBlock])
    ELSE IF picture.q >= 64 THEN GetMasked(has, n)
    ELSE GetEach(has, n, LAMBDA a, i : GetOptionalBlock(a)))

MotionValid(x, y, w, h, mv) == StaysInside(picture, x, y, w, h, mv)

\* A vector coded against base, which must stay inside.
Checked(r, at, mv) ==
  IF MotionValid(at.x, at.y, at.w, at.h, mv) THEN Returns(r, mv) ELSE Failed(r)
GetMotion(r, at, base) ==
  Then(GetVector(r), LAMBDA d : Checked(d, at, Sum2(d.v, base)))

\* Macroblock m with one more field.
Extended(m, field, value) ==
  [f \in DOMAIN m \cup {field} |-> IF f = field THEN value ELSE m[f]]

\* The parts of a split at x, y; those of SPLIT_INTER carry a residual each.
GetPart(r, mode, at) ==
  Then(Get(r, 1), LAMBDA inter :
    IF inter.v = 0 THEN Returns(inter, [inter |-> FALSE])
    ELSE Then(GetMotion(inter, at, IF decoder.use_global THEN decoder.global ELSE Zero),
              LAMBDA mv :
           IF mode # "SPLIT_INTER" THEN Returns(mv, [inter |-> TRUE, mv |-> mv.v])
           ELSE Then(GetResidual(mv, SubBlocks), LAMBDA res :
                  Returns(res, [inter |-> TRUE, mv |-> mv.v, res |-> res.v]))))
GetParts(r, m, n, x, y) ==
  Then(GetEach(r, n, LAMBDA a, k : GetPart(a, m.mode, PartAt(m, k, x, y))),
       LAMBDA parts : Returns(parts, Extended(m, "parts", parts.v)))

\* read_literal_unpacked_row: samples of n bits back out of the bytes.  (The
\* desktop decoder's read_literal_row does the same through a buffer that is
\* two bytes short of a luma row.)
UnpackedBit(bytes, k) == (bytes[(k \div 8) + 1] \div 2^(k % 8)) % 2
GetLiteralRow(r, samples, n) ==
  Then(GetNumbers(r, (samples * n + 7) \div 8, 8), LAMBDA bytes :
    Returns(bytes,
      [i \in 1..samples |->
         Value([b \in 1..n |-> UnpackedBit(bytes.v, n * (i - 1) + n - b)])]))

AsSigned(v) == IF v >= 128 THEN v - 256 ELSE v

\* Adds the residual of the whole macroblock to what is parsed of it.
WithResidual(r) ==
  Then(r, LAMBDA m : Then(GetResidual(m, Blocks), LAMBDA res :
    Returns(res, Extended(m.v, "res", res.v))))

\* The prediction of a macroblock at x, y, by mode.
Whole(x, y) == [x |-> x, y |-> y, w |-> 16, h |-> 16]

Inter(r, x, y, predicted) ==
  Then(GetMotion(r, Whole(x, y), predicted), LAMBDA mv :
    Returns(mv, [mode |-> "INTER", mv |-> mv.v]))

Global(r, x, y) ==
  IF ~decoder.use_global THEN Failed(r)
  ELSE Then(Checked(r, Whole(x, y), decoder.global),
            LAMBDA mv : Returns(mv, [mode |-> "GLOBAL"]))

Split(r, mode, x, y) ==
  Then(IF mode = "RECT_SPLIT" THEN Get(r, 1) ELSE r, LAMBDA partition :
    IF mode = "RECT_SPLIT"
    THEN GetParts(partition, [mode |-> mode, vertical |-> partition.v = 1], 2, x, y)
    ELSE GetParts(r, [mode |-> mode], 4, x, y))

\* decode_palette.
Palette(r) ==
  LET Colors(code, count) ==
        Then(GetNumbers(code, 3 * count, 8), LAMBDA colors :
          Then(GetNumbers(colors, Samples, IndexBits(count)), LAMBDA index :
            Returns(index, [mode |-> "PALETTE", count |-> count,
                            colors |-> colors.v, index |-> index.v])))
  IN  Then(Get(r, 2), LAMBDA code :
        IF code.v > 2 THEN Failed(code) ELSE Colors(code, 2^(code.v + 1)))

\* decode_literal.
Literal(r) ==
  Then(Get(r, 4), LAMBDA zero :
    IF zero.v # 0 THEN Failed(zero)
    ELSE Then(GetLiteralRow(zero, Samples, 7), LAMBDA y :
         Then(GetLiteralRow(y, Samples, 6), LAMBDA u :
         Then(GetLiteralRow(u, Samples, 6), LAMBDA v :
         Then(GetNumbers(v, 2, 8), LAMBDA correction :
           Returns(correction,
             [mode |-> "LITERAL", y |-> y.v, u |-> u.v, v |-> v.v,
              correction |-> [i \in 1..2 |-> AsSigned(correction.v[i])]]))))))

\* decode_gradient: a base and two signed slopes of each plane.
Gradient(r) ==
  Then(GetNumbers(r, 9, 8), LAMBDA bytes :
    Returns(bytes,
      [mode |-> "GRADIENT",
       planes |-> [i \in 1..9 |-> IF i % 3 = 1 THEN bytes.v[i]
                                   ELSE AsSigned(bytes.v[i])]]))

Fill(r) ==
  Then(GetNumbers(r, 3, 8), LAMBDA means :
    Returns(means, [mode |-> "FILL", planes |-> means.v]))

Intra(r) ==
  Then(Get(r, 2), LAMBDA mode :
    Returns(mode, [mode |-> "INTRA", intra_mode |-> mode.v]))

\* The macroblock of the mode that was read, at x, y.
Predicted(r, mode, x, y, predicted) ==
  CASE mode \in MotionModes /\ ~P -> Failed(r)
    [] mode = "SKIP" /\ P -> Returns(r, [mode |-> "SKIP"])
    [] mode = "INTER" /\ P -> Inter(r, x, y, predicted)
    [] mode = "GLOBAL" /\ P -> Global(r, x, y)
    [] mode \in {"SPLIT_INTER", "SPLIT_JOINT", "RECT_SPLIT"} /\ P ->
         Split(r, mode, x, y)
    [] mode = "FILL" -> Fill(r)
    [] mode = "GRADIENT" -> Gradient(r)
    [] mode = "PALETTE" -> Palette(r)
    [] mode = "LITERAL" -> Literal(r)
    [] mode = "INTRA" -> Intra(r)

GetMacroblock(r, mode, x, y, predicted) ==
  IF mode \in {"SKIP", "SPLIT_INTER", "PALETTE", "LITERAL"}
  THEN Predicted(r, mode, x, y, predicted)
  ELSE WithResidual(Predicted(r, mode, x, y, predicted))

Error ==
  /\ pc' = "error"
  /\ UNCHANGED <<picture, bits, pending, encoder, coded, decoder, reader,
                 damaged, parsed>>

\* The head of decoder_decode_packet.
GetGlobal(r) ==
  Then(Get(r, 1), LAMBDA flag :
    IF flag.v = 0 THEN Returns(flag, [use |-> FALSE, mv |-> Zero])
    ELSE Then(GetVector(flag), LAMBDA mv :
           Returns(mv, [use |-> TRUE, mv |-> mv.v])))

StartDecode ==
  /\ pc = "channel"
  /\ \E r \in {IF P THEN GetGlobal(Reader(bits))
                ELSE Returns(Reader(bits), [use |-> FALSE, mv |-> Zero])} :
       IF ~r.ok THEN Error
       ELSE /\ pc' = "decode"
            /\ reader' = Returns(r, 0)
            /\ decoder' = [use_global |-> r.v.use, global |-> r.v.mv,
                           top |-> Row(r.v.mv), cur |-> Row(r.v.mv)]
            /\ UNCHANGED <<picture, bits, pending, encoder, coded, damaged,
                           parsed>>

\* The vector that a decoded macroblock leaves to the next ones.
DecodedVector(m) ==
  CASE m.mode = "SKIP" -> Zero
    [] m.mode = "INTER" -> m.mv
    [] OTHER -> decoder.global

\* n macroblocks m are reconstructed, the vectors and the row move on.
Reconstruct(r, m, n) ==
  /\ reader' = r
  /\ parsed' = parsed \o [i \in 1..n |-> m]
  /\ decoder' = IF P THEN Moved(decoder, decoder.global, Column(Len(parsed)), n,
                                DecodedVector(m))
                ELSE decoder
  /\ UNCHANGED <<picture, pc, bits, pending, encoder, coded, damaged>>

\* Mutant of Run: the end of the row is not looked at.
RunAnywhere(code, col) ==
  LET run == Get(code, 4)
  IN  IF ~P \/ ~run.ok THEN Error
      ELSE Reconstruct(run, [mode |-> "SKIP"], run.v + 2)

\* SKIP_RUN; a run must not leave its row.
Run(code, col) ==
  LET run == Get(code, 4)
      n   == run.v + 2
  IN  IF ~P \/ ~run.ok \/ n > picture.cols - col + 1 THEN Error
      ELSE Reconstruct(run, [mode |-> "SKIP"], n)

DecodeMacroblock ==
  /\ pc = "decode" /\ Len(parsed) < Total
  /\ \E code \in {Then(GetAligned(reader), LAMBDA r : Get(r, 4))} :
       LET col  == Column(Len(parsed))
           mode == {t \in DOMAIN ModeCode : ModeCode[t] = code.v}
       IN  IF ~code.ok \/ mode = {} THEN Error
           ELSE IF mode = {"SKIP_RUN"} THEN Run(code, col)
           ELSE \E t \in mode :
                \E m \in {GetMacroblock(code, t, 16 * (col - 1),
                            16 * (Len(parsed) \div picture.cols),
                            Predictor(decoder, decoder.global, col))} :
                  IF m.ok THEN Reconstruct(m, m.v, 1) ELSE Error

EndDecode ==
  /\ pc = "decode" /\ Len(parsed) = Total
  /\ pc' = "done"
  /\ UNCHANGED <<picture, bits, pending, encoder, coded, decoder, reader,
                 damaged, parsed>>

Next == \/ EncodeMacroblock \/ Send \/ DamagePacket
        \/ StartDecode \/ DecodeMacroblock \/ EndDecode

Spec == Init /\ [][Next]_vars

-----------------------------------------------------------------------------
(* Properties.                                                             *)

\* A picture that arrives as it was written is decoded without an error to
\* exactly the macroblocks that the encoder chose, whatever vectors, runs
\* and residual codings come before and between them.
RoundTrip ==
  ~damaged =>
    /\ pc # "error"
    /\ IsPrefix(parsed, picture.mbs)
    /\ pc = "done" => parsed = picture.mbs

\* The samples of the reference that a rectangle predicts from: a vector in
\* half samples reads the samples on both sides.
Reads(from, size, v) ==
  {(2 * (from + i) + v) \div 2 : i \in {0, size - 1}}
  \cup {(2 * (from + i) + v + 1) \div 2 : i \in {0, size - 1}}
ReadsInside(at, mv) ==
  /\ Reads(at.x, at.w, mv[1]) \subseteq 0..(16 * picture.cols - 1)
  /\ Reads(at.y, at.h, mv[2]) \subseteq 0..(16 * picture.rows - 1)

WholeAt(n) == [x |-> 16 * (n % picture.cols), y |-> 16 * (n \div picture.cols),
               w |-> 16, h |-> 16]

\* Whatever arrives, a decoder reconstructs no more macroblocks than the
\* picture has, P modes in P pictures only, and predicts from samples of the
\* reference only.
OnlyValidDecoded ==
  /\ Len(parsed) <= Total
  /\ \A n \in 1..Len(parsed) :
       LET m == parsed[n]
           at == WholeAt(n - 1)
       IN  /\ m.mode \in MotionModes => P
           /\ m.mode = "INTER" => ReadsInside(at, m.mv)
           /\ m.mode = "GLOBAL" => ReadsInside(at, decoder.global)
           /\ m.mode \in {"SPLIT_INTER", "SPLIT_JOINT", "RECT_SPLIT"} =>
                \A k \in 1..Len(m.parts) :
                  m.parts[k].inter =>
                    ReadsInside(PartAt(m, k, at.x, at.y), m.parts[k].mv)
=============================================================================

---------------------------- MODULE MCHlvPicture ----------------------------
EXTENDS HlvPicture

Block(a, b, c) == <<a, b, c>>
None == <<Block(0, 0, 0), Block(0, 0, 0), Block(0, 0, 0)>>
NoneSub == <<Block(0, 0, 0), Block(0, 0, 0)>>

Picture(cols, rows, type, global, q, mbs) ==
  [cols |-> cols, rows |-> rows, type |-> type, use_global |-> global # Zero,
   global |-> global, q |-> q, mbs |-> mbs]

\* Macroblocks.
Dc(res) == [mode |-> "INTRA", intra_mode |-> 2, res |-> res]
InterMb(mv, res) == [mode |-> "INTER", mv |-> mv, res |-> res]
SkipMb == [mode |-> "SKIP"]
Stay == [inter |-> FALSE]
Move(mv) == [inter |-> TRUE, mv |-> mv]
MoveSub(mv, res) == [inter |-> TRUE, mv |-> mv, res |-> res]
SplitMb(parts) == [mode |-> "SPLIT_INTER", parts |-> parts]
JointMb(parts, res) == [mode |-> "SPLIT_JOINT", parts |-> parts, res |-> res]
RectMb(vertical, parts, res) ==
  [mode |-> "RECT_SPLIT", vertical |-> vertical, parts |-> parts, res |-> res]

\* Encoders only use vectors that stay inside; those here are that small, and
\* point away from the nearest edge.
Fits(p) ==
  \A n \in 1..Len(p.mbs) :
    LET col == ((n - 1) % p.cols) + 1
        row == ((n - 1) \div p.cols) + 1
        ok(mv) == /\ mv[1] < 0 => col > 1
                  /\ mv[1] > 0 => col < p.cols
                  /\ mv[2] < 0 => row > 1
                  /\ mv[2] > 0 => row < p.rows
        m == p.mbs[n]
    IN  CASE m.mode = "INTER" -> ok(m.mv)
          [] m.mode = "GLOBAL" -> p.use_global /\ ok(p.global)
          [] m.mode \in {"SPLIT_INTER", "SPLIT_JOINT", "RECT_SPLIT"} ->
               \A k \in 1..Len(m.parts) : m.parts[k].inter => ok(m.parts[k].mv)
          [] OTHER -> TRUE

-----------------------------------------------------------------------------
\* Residuals: one macroblock, every mix of blocks, both codings.
Levels == {-70, -30, -18, -2, -1, 1, 2, 5, 6, 17, 29, 30, 31, 37}
BlockSet == {Block(0, 0, 0), Block(1, 0, 0), Block(-6, 0, 0), Block(0, 0, 2),
             Block(1, -1, 1), Block(0, 30, -3), Block(-29, 0, 18)}
Residuals ==
  {Picture(1, 1, "K", Zero, q, <<Dc(r)>>) :
     q \in {63, 64}, r \in BlockSet \X BlockSet \X BlockSet}
  \cup {Picture(1, 1, "K", Zero, 64, <<Dc(<<Block(a, 0, 0), Block(b, 0, 0), Block(0, 0, 0)>>)>>) :
          a \in Levels, b \in Levels}

\* The vector context: all pictures of 2x2 over these macroblocks, and of
\* 3x2 over fewer, with and without a global vector.
Vectors == {<<1, 0>>, <<-2, 2>>, <<2, 2>>, <<0, -3>>}
Few == {SkipMb, Dc(None), InterMb(<<1, 0>>, None), InterMb(<<-2, 2>>, None)}
Many == Few \cup {InterMb(v, None) : v \in Vectors}
            \cup {[mode |-> "GLOBAL", res |-> None],
                  SplitMb(<<Stay, Stay, MoveSub(<<1, -1>>, NoneSub), Stay>>),
                  JointMb(<<Stay, Move(<<2, 0>>), Stay, Stay>>, None)}
Motions ==
  {p \in {Picture(2, 2, "P", g, 64, s) : g \in {Zero, <<0, 2>>, <<1, 1>>},
                                         s \in [1..4 -> Many]} : Fits(p)}
  \cup {p \in {Picture(3, 2, "P", g, 8, s) : g \in {Zero, <<-1, 2>>},
                                           s \in [1..6 -> Few]} : Fits(p)}

\* Runs: a row longer than a run, with at most two macroblocks that are not
\* skipped, and one of two rows.
Runs ==
  {Picture(19, 1, "P", Zero, 64,
           [i \in 1..19 |-> IF i \in {a, b} THEN Dc(None) ELSE SkipMb]) :
     a \in 0..19, b \in 0..19}

\* Modes: every pair of these.
Coefs == <<Block(3, 0, 0), Block(0, 0, 0), Block(0, -1, 2)>>
CoefsSub == <<Block(0, 0, 0), Block(0, -1, 2)>>
Common ==
  {[mode |-> "FILL", planes |-> <<0, 255, 7>>, res |-> Coefs],
   [mode |-> "GRADIENT", planes |-> <<9, -1, 127, 0, -128, 0, 255, 3, -3>>, res |-> None],
   [mode |-> "LITERAL", y |-> <<127, 0, 64>>, u |-> <<63, 1, 32>>,
    v |-> <<0, 0, 5>>, correction |-> <<-128, 127>>],
   Dc(Coefs)}
  \cup {[mode |-> "PALETTE", count |-> n, colors |-> [i \in 1..(3 * n) |-> i],
         index |-> <<n - 1, 0, 1>>] : n \in {2, 4, 8}}
Moving ==
  {SkipMb, [mode |-> "GLOBAL", res |-> Coefs], InterMb(<<0, 0>>, Coefs)}
  \cup UNION
    {{SplitMb(<<MoveSub(<<3 * d, 0>>, CoefsSub), Stay, MoveSub(<<2 * d, 0>>, NoneSub), Stay>>),
      JointMb(<<Stay, Move(<<d, 0>>), Stay, Move(<<4 * d, 0>>)>>, Coefs),
      RectMb(TRUE, <<Move(<<d, 0>>), Stay>>, Coefs),
      RectMb(FALSE, <<Stay, Move(<<2 * d, 0>>)>>, None)} : d \in {-1, 1}}
Pairs(type, global, q, mbs) ==
  {Picture(2, 1, type, global, q, <<a, b>>) : a \in mbs, b \in mbs}
Modes ==
  Pairs("K", Zero, 64, Common) \cup Pairs("K", Zero, 8, Common)
  \cup {p \in Pairs("P", Zero, 100, Common \cup Moving)
              \cup Pairs("P", <<1, 0>>, 8, Common \cup Moving) : Fits(p)}

\* Damaged on the way: a split, a run at the end of a row, a residual group,
\* a palette and a literal.
MCFragile ==
  {Picture(2, 2, "P", <<0, 2>>, 64,
     <<SplitMb(<<MoveSub(<<3, 0>>, CoefsSub), Stay, Stay, Stay>>), SkipMb,
       RectMb(TRUE, <<Move(<<1, 0>>), Stay>>, None), InterMb(<<-2, -1>>, Coefs)>>),
   Picture(3, 1, "P", Zero, 8, <<InterMb(<<2, 0>>, Coefs), SkipMb, SkipMb>>),
   Picture(2, 1, "P", Zero, 64,
     <<JointMb(<<Stay, Move(<<1, 0>>), Stay, Stay>>, Coefs),
       [mode |-> "PALETTE", count |-> 2, colors |-> <<1, 2, 3, 4, 5, 6>>,
        index |-> <<1, 0, 1>>]>>),
   Picture(1, 1, "K", Zero, 64,
     <<[mode |-> "LITERAL", y |-> <<127, 0, 64>>, u |-> <<63, 1, 32>>,
        v |-> <<0, 0, 5>>, correction |-> <<-128, 127>>]>>)}

MCPictures == UNION {Residuals, Motions, Runs, Modes, MCFragile}
=============================================================================

------------------------- MODULE MCHlvRowPipeline -------------------------
(* An instance of HlvRowPipeline for TLC: 1 row stands for 8 luma rows.    *)
EXTENDS HlvRowPipeline

\* A display with more lines than the picture: some rows are shown once, as
\* without scaling, and some on two lines.
ScaledMap == [l \in 0 .. Lines - 1 |-> (l * Height) \div Lines]
=============================================================================

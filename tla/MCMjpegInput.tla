--------------------------- MODULE MCMjpegInput ---------------------------
(* A small file: a packet that fits into the speculation, one longer than  *)
(* the whole ring, and one that just fills it.                             *)
EXTENDS MjpegInput

FileSizes == <<1, 5, 3>>
=============================================================================

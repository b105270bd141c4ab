------------------------------ MODULE MCSdFiles ------------------------------
EXTENDS SdFiles

\* Contents of the same size, so that only the index tells them apart.
SameSize == {<<1>>, <<2>>}
Chosen   == {<<2>>}
=============================================================================

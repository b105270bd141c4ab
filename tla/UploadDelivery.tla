--------------------------- MODULE UploadDelivery ---------------------------
(***************************************************************************)
(* What an upload promises (README of the player, "Upload protocol v2"):   *)
(* the blocks of the file are stored in order, each once; the existing     *)
(* video is replaced only by a complete new one; the client reports        *)
(* success only after that.                                                *)
(***************************************************************************)
EXTENDS Integers

CONSTANT Blocks     \* blocks of the uploaded file

VARIABLES
  stored,   \* blocks stored so far
  acked,    \* blocks the client knows to be stored
  video,    \* "old" or "new": what the file name stands for
  client    \* "busy", "done" or "failed"

dVars == <<stored, acked, video, client>>

DInit == stored = 0 /\ acked = 0 /\ video = "old" /\ client = "busy"

Store == /\ stored < Blocks /\ video = "old" /\ stored' = stored + 1
         /\ UNCHANGED <<acked, video, client>>

Acknowledge == /\ client = "busy"
               /\ acked' \in acked + 1 .. stored
               /\ UNCHANGED <<stored, video, client>>

Replace == /\ stored = Blocks /\ video' = "new"
           /\ UNCHANGED <<stored, acked, client>>

Succeed == /\ client = "busy" /\ video = "new" /\ acked = Blocks
           /\ client' = "done" /\ UNCHANGED <<stored, acked, video>>

GiveUp == /\ client = "busy" /\ client' = "failed"
          /\ UNCHANGED <<stored, acked, video>>

DNext == Store \/ Acknowledge \/ Replace \/ Succeed \/ GiveUp
DSpec == DInit /\ [][DNext]_dVars
=============================================================================

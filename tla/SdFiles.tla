------------------------------- MODULE SdFiles -------------------------------
(***************************************************************************)
(* The files that the UART services keep on the SD card: replacing a video *)
(* by an upload, patching a range in place, deleting, the checksum index   *)
(* crc32.txt, and the BOOT button's choice in play.txt; with card errors   *)
(* and power loss at every step.                                           *)
(*                                                                         *)
(* A file is a sequence of blocks, its size the length and its CRC32 the   *)
(* sequence itself; Torn is a block that was written in part.  A rename or *)
(* an unlink is one step, and what was synced stays.  UartUpload is how an *)
(* upload gets to the .part file.                                          *)
(***************************************************************************)
EXTENDS Integers, Sequences, Functions

CONSTANTS
  Names,     \* file names
  Playlist,  \* PLAYER_VIDEO_SELECTION_PATH
  Contents,  \* contents that a client may upload
  Blocks,    \* blocks that a client may patch in
  Torn,      \* a block written in part
  Choices,   \* contents of Playlist that the BOOT button writes
  MaxFaults  \* bound on card errors and power losses

ASSUME FilesAssumption ==
  /\ Playlist \in Names
  /\ Contents \subseteq Seq(Blocks) \ {<<>>} /\ Choices \subseteq Seq(Blocks)
  /\ Torn \notin Blocks /\ MaxFaults \in Nat

VARIABLES
  \* on the card, by name
  file,      \* the files themselves
  part,      \* .part: an upload that is not committed
  bak,       \* .bak: a file that an upload replaces
  patchbak,  \* .patchbak: where the patched block is, and what it was
  index,     \* records of crc32.txt
  indexBak,  \* crc32.txt.bak
  \* the service under way
  stage,     \* where it is
  op,        \* its request
  had,       \* had_target, had_index
  answer,    \* its answer, until the next request
  \* history
  before,    \* the file at the start of the service
  owned,     \* names that were written and not deleted
  faults     \* card errors and power losses so far

cardVars == <<file, part, bak, patchbak, index, indexBak>>
opVars   == <<stage, op, had, answer>>
histVars == <<before, owned, faults>>
vars == <<cardVars, opVars, histVars>>

Nothing == [n \in {} |-> <<>>]
Put(f, n, c)  == [m \in DOMAIN f \cup {n} |-> IF m = n THEN c ELSE f[m]]
Unlink(f, n)  == Restrict(f, DOMAIN f \ {n})
SetBlock(n, b) == Put(file, n, [file[n] EXCEPT ![op.at] = b])

Kinds == {"none", "upload", "patch", "delete", "crc", "blockcrc", "select"}
Request(kind, n, data, at) ==
  [kind |-> kind, name |-> n, data |-> data, at |-> at]
NoRequest == Request("none", Playlist, <<>>, 0)
Reply(status, data) == [status |-> status, data |-> data]
NoReply == Reply("none", <<>>)

OnCard(f, Data) == DOMAIN f \subseteq Names /\ \A n \in DOMAIN f : f[n] \in Data
Block_ == Blocks \cup {Torn}
TypeOK ==
  /\ \A f \in {file, part, bak, index, indexBak} : OnCard(f, Seq(Block_))
  /\ OnCard(patchbak, [at : Nat, block : Block_])
  /\ stage \in {"idle", "receive", "reread", "drop", "backup", "rename",
                "cleanup", "patch", "save", "apply", "write", "check",
                "restore", "remove", "lookup", "scan", "index",
                "replace", "truncated"}
  /\ op.kind \in Kinds /\ op.name \in Names /\ op.data \in Seq(Block_)
  /\ op.at \in Nat /\ had \in BOOLEAN
  /\ stage \in {"reread", "drop", "backup", "rename"} => op.name \in DOMAIN part
  /\ stage \in {"apply", "write", "check", "restore"} =>
       op.name \in DOMAIN patchbak
  /\ answer.status \in {"none", "done", "crc", "error"}
  /\ before \in Seq(Block_) /\ owned \subseteq Names
  /\ faults \in 0 .. MaxFaults

Init ==
  /\ file = Nothing /\ part = Nothing /\ bak = Nothing /\ patchbak = Nothing
  /\ index = Nothing /\ indexBak = Nothing
  /\ stage = "idle" /\ op = NoRequest /\ had = FALSE /\ answer = NoReply
  /\ before = <<>> /\ owned = {} /\ faults = 0

-----------------------------------------------------------------------------
Content(n) == IF n \in DOMAIN file THEN file[n] ELSE <<>>

Begin(kind, n, data, at, next) ==
  /\ stage = "idle" /\ stage' = next
  /\ op' = Request(kind, n, data, at) /\ answer' = NoReply
  /\ before' = Content(n) /\ UNCHANGED <<had, owned, faults>>

\* finish_response
Finish(status, data) ==
  /\ stage' = "idle" /\ answer' = Reply(status, data) /\ had' = FALSE
  /\ UNCHANGED op

Go(next) == stage' = next /\ UNCHANGED <<op, had, answer>>

\* A call on the card that may fail.
Fault == faults < MaxFaults /\ faults' = faults + 1 /\ UNCHANGED before
Works == UNCHANGED <<faults, before>>

-----------------------------------------------------------------------------
(* Upload: uart_file_upload_receive.                                       *)

\* An old .part is removed and a new one opened.
BeginUpload(n, c) ==
  /\ Begin("upload", n, c, 0, "receive")
  /\ part' = Put(part, n, <<>>)
  /\ UNCHANGED <<file, bak, patchbak, index, indexBak>>

\* The .part file holds the upload or, if the card went wrong without saying
\* so, something else; or the transfer failed, which says nothing of the card.
ReceiveUpload ==
  /\ stage = "receive"
  /\ \/ Works /\ part' = Put(part, op.name, op.data) /\ Go("reread")
     \/ /\ Fault /\ Go("reread")
        /\ part' = Put(part, op.name, [op.data EXCEPT ![1] = Torn])
     \/ Works /\ part' = Unlink(part, op.name) /\ Finish("error", <<>>)
  /\ UNCHANGED <<file, bak, patchbak, index, indexBak, owned>>

\* Fault: the .part file is not read back.
Bug_RereadUpload ==
  /\ stage = "reread" /\ Works /\ Go("drop")
  /\ UNCHANGED <<cardVars, owned>>

\* The .part file is read back and must have the CRC of the upload.
RereadUpload ==
  /\ stage = "reread"
  /\ \/ Works /\ part[op.name] = op.data /\ Go("drop") /\ UNCHANGED part
     \/ /\ (Works /\ part[op.name] # op.data) \/ Fault
        /\ part' = Unlink(part, op.name) /\ Finish("error", <<>>)
  /\ UNCHANGED <<file, bak, patchbak, index, indexBak, owned>>

\* An old .bak is removed, also if it is all that is left of the file.
DropBackup ==
  /\ stage = "drop" /\ Works
  /\ had' = (op.name \in DOMAIN file)
  /\ bak' = Unlink(bak, op.name)
  /\ stage' = IF had' THEN "backup" ELSE "rename"
  /\ UNCHANGED <<file, part, patchbak, index, indexBak, op, answer, owned>>

MoveTarget ==
  /\ stage = "backup"
  /\ \/ /\ Works /\ Go("rename")
        /\ bak' = Put(bak, op.name, file[op.name])
        /\ file' = Unlink(file, op.name)
        /\ UNCHANGED part
     \/ /\ Fault /\ part' = Unlink(part, op.name) /\ Finish("error", <<>>)
        /\ UNCHANGED <<file, bak>>
  /\ UNCHANGED <<patchbak, index, indexBak, owned>>

\* Fault: the backup is cleaned up whether or not the upload got its name.
Bug_MovePart ==
  /\ stage = "rename"
  /\ part' = Unlink(part, op.name)
  /\ \/ /\ Works /\ Go("index")
        /\ file' = Put(file, op.name, part[op.name])
        /\ owned' = owned \cup {op.name}
     \/ Fault /\ Finish("error", <<>>) /\ UNCHANGED <<file, owned>>
  /\ bak' = Unlink(bak, op.name)
  /\ UNCHANGED <<patchbak, index, indexBak>>

\* The .part file becomes the file; or it cannot be renamed, and the old file
\* gets its name back, unless that fails too.
MovePart ==
  /\ stage = "rename"
  /\ part' = Unlink(part, op.name)
  /\ \/ /\ Works /\ Go(IF had THEN "cleanup" ELSE "index")
        /\ file' = Put(file, op.name, part[op.name])
        /\ owned' = owned \cup {op.name}
        /\ UNCHANGED bak
     \/ /\ Fault /\ Finish("error", <<>>) /\ UNCHANGED owned
        /\ IF had THEN /\ file' = Put(file, op.name, bak[op.name])
                       /\ bak' = Unlink(bak, op.name)
           ELSE UNCHANGED <<file, bak>>
     \/ /\ had /\ faults + 2 <= MaxFaults /\ faults' = faults + 2
        /\ Finish("error", <<>>) /\ UNCHANGED <<file, bak, before, owned>>
  /\ UNCHANGED <<patchbak, index, indexBak>>

\* The unlink of the old file, whose result is not looked at.
DropReplaced ==
  /\ stage = "cleanup" /\ Go("index")
  /\ \/ Works /\ bak' = Unlink(bak, op.name)
     \/ Fault /\ UNCHANGED bak
  /\ UNCHANGED <<file, part, patchbak, index, indexBak, owned>>

-----------------------------------------------------------------------------
(* Patch: uart_file_upload_patch_file.                                     *)

BeginPatch(n, at, b) ==
  /\ n \in DOMAIN file /\ at \in 1 .. Len(file[n])
  /\ Begin("patch", n, <<b>>, at, "patch")
  /\ patchbak' = Unlink(patchbak, n)
  /\ UNCHANGED <<file, part, bak, index, indexBak>>

\* The .patch file is complete, or the transfer failed.
ReceivePatch ==
  /\ stage = "patch" /\ Works
  /\ Go("save") \/ Finish("error", <<>>)
  /\ UNCHANGED <<cardVars, owned>>

SaveRange ==
  /\ stage = "save"
  /\ \/ /\ Works /\ Go("apply")
        /\ patchbak' = Put(patchbak, op.name,
                           [at |-> op.at, block |-> file[op.name][op.at]])
     \/ /\ Fault /\ Finish("error", <<>>)
        /\ patchbak' = Put(patchbak, op.name, [at |-> op.at, block |-> Torn])
  /\ UNCHANGED <<file, part, bak, index, indexBak, owned>>

\* The write of the range, begun and ended.
ApplyRange ==
  /\ stage = "apply"
  /\ \/ Works /\ file' = SetBlock(op.name, Torn) /\ Go("write")
     \/ Fault /\ Go("restore") /\ UNCHANGED file
  /\ UNCHANGED <<part, bak, patchbak, index, indexBak, owned>>

WriteRange ==
  /\ stage = "write" /\ Go("check")
  /\ \/ Works /\ file' = SetBlock(op.name, op.data[1])
     \/ Fault /\ UNCHANGED file
  /\ UNCHANGED <<part, bak, patchbak, index, indexBak, owned>>

\* Fault: the backup is removed before it is known to be needed no more.
Bug_CheckRange ==
  /\ stage = "check"
  /\ patchbak' = Unlink(patchbak, op.name)
  /\ \/ Works /\ file[op.name][op.at] = op.data[1] /\ Go("index")
     \/ (Works /\ file[op.name][op.at] # op.data[1]) /\ Go("restore")
     \/ Fault /\ Go("restore")
  /\ UNCHANGED <<file, part, bak, index, indexBak, owned>>

\* The range is read back; applied, it needs its backup no more.
CheckRange ==
  /\ stage = "check"
  /\ \/ /\ Works /\ file[op.name][op.at] = op.data[1]
        /\ patchbak' = Unlink(patchbak, op.name) /\ Go("index")
     \/ /\ (Works /\ file[op.name][op.at] # op.data[1]) \/ Fault
        /\ Go("restore") /\ UNCHANGED patchbak
  /\ UNCHANGED <<file, part, bak, index, indexBak, owned>>

\* Fault: the backup is removed whether or not the range was restored.
Bug_RestoreRange ==
  /\ stage = "restore" /\ Finish("error", <<>>)
  /\ patchbak' = Unlink(patchbak, op.name)
  /\ \/ Works /\ file' = SetBlock(op.name, patchbak[op.name].block)
     \/ Fault /\ UNCHANGED file
  /\ UNCHANGED <<part, bak, index, indexBak, owned>>

\* The range is written back and read; a backup that could not be restored
\* stays.
RestoreRange ==
  /\ stage = "restore" /\ Finish("error", <<>>)
  /\ \/ /\ Works /\ file' = SetBlock(op.name, patchbak[op.name].block)
        /\ patchbak' = Unlink(patchbak, op.name)
     \/ /\ Fault /\ UNCHANGED patchbak
        /\ \/ UNCHANGED file
           \/ \E b \in {Torn, patchbak[op.name].block} :
                file' = SetBlock(op.name, b)
  /\ UNCHANGED <<part, bak, index, indexBak, owned>>

-----------------------------------------------------------------------------
(* Delete, checksums and the choice of a file.                             *)

BeginDelete(n) ==
  /\ n \in DOMAIN file
  /\ Begin("delete", n, <<>>, 0, "remove") /\ UNCHANGED cardVars

RemoveFile ==
  /\ stage = "remove"
  /\ \/ /\ Works /\ Go("index")
        /\ file' = Unlink(file, op.name) /\ owned' = owned \ {op.name}
     \/ Fault /\ Finish("error", <<>>) /\ UNCHANGED <<file, owned>>
  /\ UNCHANGED <<part, bak, patchbak, index, indexBak>>

\* HLVCRC looks into the index first, HLVBLOCKCRC reads the file.
BeginChecksum(n, kind) ==
  /\ n \in DOMAIN file
  /\ Begin(kind, n, <<>>, 0, IF kind = "crc" THEN "lookup" ELSE "scan")
  /\ UNCHANGED cardVars

\* find_cached_crc: a record with the name and the size of the file.
Cached(n) == n \in DOMAIN index /\ Len(index[n]) = Len(file[n])

LookUp ==
  /\ stage = "lookup" /\ Works
  /\ IF Cached(op.name) THEN Finish("crc", index[op.name]) ELSE Go("scan")
  /\ UNCHANGED <<cardVars, owned>>

ScanFile ==
  /\ stage = "scan"
  /\ \/ /\ Works /\ op' = [op EXCEPT !.data = file[op.name]]
        /\ stage' = "index" /\ UNCHANGED <<had, answer>>
     \/ Fault /\ Finish("error", <<>>)
  /\ UNCHANGED <<cardVars, owned>>

\* writeBrowserSelection: fopen truncates, fclose syncs.
BeginChoice(c) ==
  /\ Begin("select", Playlist, c, 0, "truncated")
  /\ file' = Put(file, Playlist, <<>>)
  /\ UNCHANGED <<part, bak, patchbak, index, indexBak>>

WriteChoice ==
  /\ stage = "truncated"
  /\ \/ Works /\ file' = Put(file, Playlist, op.data) /\ Finish("done", <<>>)
     \/ Fault /\ Finish("error", <<>>) /\ UNCHANGED file
  /\ owned' = owned \cup {Playlist}
  /\ UNCHANGED <<part, bak, patchbak, index, indexBak>>

-----------------------------------------------------------------------------
(* rewrite_cached_crc, whose result is ignored.                            *)

\* Fault: the record of a patched file stays.
Bug_Updated(records) ==
  IF op.kind \in {"upload", "crc", "blockcrc"}
  THEN Put(records, op.name, op.data)
  ELSE IF op.kind = "patch" THEN records ELSE Unlink(records, op.name)

Updated(records) ==
  IF op.kind \in {"upload", "crc", "blockcrc"}
  THEN Put(records, op.name, op.data)
  ELSE Unlink(records, op.name)

Respond ==
  IF op.kind \in {"crc", "blockcrc"} THEN Finish("crc", op.data)
  ELSE Finish("done", <<>>)

\* The new index is written to a temporary file and the old one moved away.
MoveIndex ==
  /\ stage = "index"
  /\ \/ /\ Works /\ Go("replace")
        /\ indexBak' = index /\ index' = Nothing
     \/ /\ Fault /\ Respond
        /\ indexBak' \in {indexBak, Nothing} /\ UNCHANGED index
  /\ UNCHANGED <<file, part, bak, patchbak, owned>>

\* The temporary file becomes the index, and the old one is removed if the card
\* lets it; or the old one gets its name back, unless that fails too.
ReplaceIndex ==
  /\ stage = "replace" /\ Respond
  /\ \/ Works /\ index' = Updated(indexBak) /\ indexBak' = Nothing
     \/ Fault /\ index' = Updated(indexBak) /\ UNCHANGED indexBak
     \/ Fault /\ index' = indexBak /\ indexBak' = Nothing
     \/ /\ faults + 2 <= MaxFaults /\ faults' = faults + 2
        /\ UNCHANGED <<index, indexBak, before>>
  /\ UNCHANGED <<file, part, bak, patchbak, owned>>

-----------------------------------------------------------------------------
\* The card keeps what it has; nothing is repaired at the next start.
PowerLoss ==
  /\ stage # "idle" /\ Fault
  /\ stage' = "idle" /\ op' = NoRequest /\ had' = FALSE /\ answer' = NoReply
  /\ UNCHANGED <<cardVars, owned>>

Request_ ==
  \/ \E n \in Names, c \in Contents : BeginUpload(n, c)
  \/ \E n \in DOMAIN file : \E at \in 1 .. Len(file[n]), b \in Blocks :
       BeginPatch(n, at, b)
  \/ \E n \in Names : BeginDelete(n)
  \/ \E n \in Names, kind \in {"crc", "blockcrc"} : BeginChecksum(n, kind)
  \/ \E c \in Choices : BeginChoice(c)
Upload == ReceiveUpload \/ RereadUpload \/ DropBackup \/ MoveTarget
            \/ MovePart \/ DropReplaced
Patch  == ReceivePatch \/ SaveRange \/ ApplyRange \/ WriteRange \/ CheckRange
            \/ RestoreRange
Other  == RemoveFile \/ LookUp \/ ScanFile \/ WriteChoice
Index  == MoveIndex \/ ReplaceIndex
Next == Request_ \/ Upload \/ Patch \/ Other \/ Index \/ PowerLoss

Spec == Init /\ [][Next]_vars

-----------------------------------------------------------------------------
(* Properties                                                              *)

\* What an answer says of the card is so: an upload or a patch that is done
\* is on the card in full, and after a single card error one that failed has
\* changed nothing ("an interrupted or corrupt upload leaves the existing video
\* intact", "a failed verification restores the backup").
AnswerTrue ==
  /\ answer.status = "done" =>
       /\ op.kind = "upload" => Content(op.name) = op.data
       /\ op.kind = "patch" =>
            file[op.name] = [before EXCEPT ![op.at] = op.data[1]]
       /\ op.kind = "delete" => op.name \notin DOMAIN file
  /\ answer.status = "error" /\ faults <= 1 =>
       (op.kind \in {"upload", "patch"} => Content(op.name) = before)

\* No single card error or power loss takes a video away: it is there under its
\* name, or as its .bak, or the upload that replaces it is verified.
VideoSurvives ==
  faults <= 1 =>
    \A n \in owned :
      \/ n \in DOMAIN file \cup DOMAIN bak
      \/ stage = "rename" /\ op.name = n /\ part[n] = op.data

\* A block that a patch has left half written keeps its backup until it is
\* whole again, or until the client starts to patch the file once more.
HalfWritten(files, n, at) ==
  n \in DOMAIN files /\ at \in DOMAIN files[n] /\ files[n][at] = Torn
TornKeepsBackup ==
  [][\A n \in DOMAIN patchbak \ DOMAIN patchbak' :
       HalfWritten(file', n, patchbak[n].at) =>
         \/ patchbak[n].block = Torn
         \/ stage = "idle" /\ op'.kind = "patch"]_vars

\* HLVCRC tells the CRC of the file although it may take it from the index: as
\* long as no card error and no power loss came between, for every file that
\* only the UART services write (the BOOT button leaves the record of Playlist).
CrcExact ==
  faults = 0 /\ answer.status = "crc" /\ op.name # Playlist =>
    answer.data = Content(op.name)

\* "An interrupted or corrupt upload leaves the existing video intact", "the same
\* atomic [...] protocol": between two services every file is in its place.
UploadAtomic == stage = "idle" => owned \subseteq DOMAIN file
=============================================================================

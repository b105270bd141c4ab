---------------------------- MODULE SdFilesProof ----------------------------
(***************************************************************************)
(* What the UART services leave on the SD card, for every set of names and *)
(* contents and every number of card errors and power losses: an answer    *)
(* says what is so, no single fault takes a video away, a checksum from    *)
(* the index is that of the file, and a half written block keeps its       *)
(* backup.                                                                 *)
(***************************************************************************)
EXTENDS SdFiles, SequenceTheorems, TLAPS

UploadStages == {"receive", "reread", "drop", "backup", "rename", "cleanup"}
PatchStages  == {"patch", "save", "apply", "write", "check", "restore"}
IndexStages  == {"index", "replace"}

Files == Seq(Block_)
Requests == [kind : Kinds, name : Names, data : Files, at : Nat]
Replies  == [status : {"none", "done", "crc", "error"}, data : Files]

Saved == [at : Nat, block : Block_]
Stages == {"idle", "remove", "lookup", "scan", "truncated"}
            \cup UploadStages \cup PatchStages \cup IndexStages
CardInv ==
  /\ OnCard(file, Files) /\ OnCard(part, Files) /\ OnCard(bak, Files)
  /\ OnCard(index, Files) /\ OnCard(indexBak, Files)
  /\ OnCard(patchbak, Saved)
ServiceInv ==
  /\ stage \in Stages /\ op \in Requests /\ had \in BOOLEAN
  /\ answer \in Replies /\ before \in Files
  /\ owned \subseteq Names /\ faults \in Nat

\* Which request is in which stage, and what it asks for.
KindInv ==
  /\ stage \in UploadStages => op.kind = "upload"
  /\ stage \in PatchStages => op.kind = "patch"
  /\ stage = "receive" => 1 \in 1..Len(op.data)
  /\ stage = "remove" => op.kind = "delete"
  /\ stage \in {"lookup", "scan"} => op.kind \in {"crc", "blockcrc"}
  /\ stage = "truncated" => op.kind = "select" /\ op.name = Playlist
                            /\ op.name \in DOMAIN file
  /\ stage \in IndexStages =>
       op.kind \in {"upload", "patch", "delete", "crc", "blockcrc"}
  /\ stage \in {"lookup", "scan"} => op.name \in DOMAIN file
  /\ op.kind = "patch" => op.data \in Seq(Blocks) /\ Len(op.data) = 1
  /\ stage \in {"reread", "drop", "backup", "rename"} => op.name \in DOMAIN part
  /\ stage \in {"apply", "write", "check", "restore"} =>
       op.name \in DOMAIN patchbak
  /\ answer.status # "none" => stage = "idle"
  /\ answer.status = "crc" => op.kind \in {"crc", "blockcrc"}

\* An upload leaves the file alone until its name is free, and then the old
\* one is the backup.
UploadInv ==
  /\ stage \in {"receive", "reread", "drop", "backup"} =>
       Content(op.name) = before
  /\ stage = "backup" => had /\ op.name \in DOMAIN file
  /\ stage \in {"drop", "backup", "rename"} => part[op.name] = op.data
  /\ stage = "rename" =>
       /\ op.name \notin DOMAIN file
       /\ had => op.name \in DOMAIN bak /\ bak[op.name] = before
       /\ ~had => before = <<>>
  /\ stage = "cleanup" => op.name \in DOMAIN file /\ file[op.name] = op.data

\* A patch changes one block, of which the backup tells what it was; only a
\* fault makes it necessary.
PatchInv ==
  stage \in PatchStages =>
    /\ op.name \in DOMAIN file
    /\ op.at \in 1..Len(before)
    /\ stage \in {"patch", "save", "apply"} => file[op.name] = before
    /\ stage \in {"apply", "write", "check", "restore"} =>
         patchbak[op.name] = [at |-> op.at, block |-> before[op.at]]
    /\ stage \in {"write", "check", "restore"} =>
         file[op.name] = [before EXCEPT ![op.at] = file[op.name][op.at]]
    /\ stage = "check" => file[op.name][op.at] = op.data[1] \/ faults >= 1
    /\ stage = "restore" => faults >= 1

\* What a service has done when it comes to the index.
Done ==
  /\ op.kind \in {"upload", "crc", "blockcrc"} =>
       op.name \in DOMAIN file /\ file[op.name] = op.data
  /\ op.kind = "patch" =>
       /\ op.name \in DOMAIN file
       /\ file[op.name] = [before EXCEPT ![op.at] = op.data[1]]
  /\ op.kind = "delete" => op.name \notin DOMAIN file

DoneInv == stage \in IndexStages => Done

\* Without a fault every file that is owned is in its place, except for the
\* moment between the two renames.
OwnedInv ==
  faults = 0 =>
    \A n \in owned : \/ n \in DOMAIN file
                     \/ stage = "rename" /\ had /\ op.name = n

\* Without a fault the records are those of the files, except for the file
\* that the service under way has changed.
Changing == {"rename", "cleanup", "write", "check", "index"}
Exact(records, but) ==
  \A n \in (DOMAIN records) \ {Playlist} : n \in but \/ records[n] = Content(n)
IndexInv ==
  faults = 0 =>
    /\ Exact(index, IF stage \in Changing THEN {op.name} ELSE {})
    /\ stage = "replace" => Exact(indexBak, {op.name})

IInv == /\ CardInv /\ ServiceInv /\ KindInv /\ UploadInv /\ PatchInv
        /\ DoneInv
        /\ AnswerTrue /\ VideoSurvives /\ OwnedInv /\ IndexInv /\ CrcExact

-----------------------------------------------------------------------------
(* Sets of files.                                                          *)

LEMMA OnCardPut ==
  ASSUME NEW f, NEW S, NEW n \in Names, NEW c \in S, OnCard(f, S)
  PROVE  OnCard(Put(f, n, c), S)
BY DEF OnCard, Put

LEMMA OnCardUnlink ==
  ASSUME NEW f, NEW S, NEW n, OnCard(f, S)
  PROVE  OnCard(Unlink(f, n), S)
BY DEF OnCard, Unlink, Restrict

LEMMA OnCardNothing ==
  ASSUME NEW S
  PROVE  OnCard(Nothing, S)
BY DEF OnCard, Nothing

LEMMA OnCardIn ==
  ASSUME NEW f, NEW S, NEW n \in DOMAIN f, OnCard(f, S)
  PROVE  n \in Names /\ f[n] \in S
BY DEF OnCard

LEMMA DataFacts ==
  /\ <<>> \in Files
  /\ \A s : s \in Seq(Blocks) => s \in Files
  /\ \A b \in Block_ : <<b>> \in Files
  /\ Torn \in Block_ /\ Blocks \subseteq Block_
  /\ \A c \in Contents : c \in Seq(Blocks) /\ Len(c) \in Nat /\ 1 \in 1..Len(c)
  /\ \A c \in Choices : c \in Seq(Blocks)
<1>1. Blocks \subseteq Block_ /\ Torn \in Block_  BY DEF Block_
<1>2. \A s : s \in Seq(Blocks) => s \in Files  BY <1>1 DEF Files
<1>3. \A c \in Contents : c \in Seq(Blocks) /\ Len(c) \in Nat /\ 1 \in 1..Len(c)
  BY FilesAssumption, EmptySeq, LenProperties
<1>4. \A c \in Choices : c \in Seq(Blocks)  BY FilesAssumption
<1>5. <<>> \in Files /\ \A b \in Block_ : <<b>> \in Files  BY DEF Files
<1>6. QED  BY <1>1, <1>2, <1>3, <1>4, <1>5

LEMMA SetFacts ==
  ASSUME NEW s \in Files, NEW i \in 1..Len(s), NEW b \in Block_
  PROVE  /\ [s EXCEPT ![i] = b] \in Files
         /\ Len([s EXCEPT ![i] = b]) = Len(s)
         /\ [s EXCEPT ![i] = b][i] = b
         /\ s[i] \in Block_
         /\ [s EXCEPT ![i] = s[i]] = s
         /\ \A c : [[s EXCEPT ![i] = b] EXCEPT ![i] = c] = [s EXCEPT ![i] = c]
<1>1. /\ [s EXCEPT ![i] = b] \in Files /\ Len([s EXCEPT ![i] = b]) = Len(s)
      /\ [s EXCEPT ![i] = b][i] = b
  BY ExceptSeq DEF Files
<1>2. s[i] \in Block_  BY ElementOfSeq DEF Files
<1>3. DOMAIN s = 1..Len(s)  BY LenProperties DEF Files
<1>4. [s EXCEPT ![i] = s[i]] = s  BY <1>3 DEF Files
<1>5. \A c : [[s EXCEPT ![i] = b] EXCEPT ![i] = c] = [s EXCEPT ![i] = c]
  BY <1>3 DEF Files
<1>6. QED  BY <1>1, <1>2, <1>4, <1>5

\* What a patch writes into.
LEMMA PatchFacts ==
  ASSUME FilesAssumption, CardInv, ServiceInv, KindInv, PatchInv,
         stage \in PatchStages
  PROVE  /\ op.name \in DOMAIN file /\ file[op.name] \in Files
         /\ op.at \in 1..Len(before) /\ before[op.at] \in Block_
         /\ op.data[1] \in Block_ /\ op.data[1] # Torn
         /\ file[op.name][op.at] \in Block_
         /\ [before EXCEPT ![op.at] = before[op.at]] = before
         /\ \A b \in Block_ :
              /\ [file[op.name] EXCEPT ![op.at] = b] \in Files
              /\ [file[op.name] EXCEPT ![op.at] = b] = [before EXCEPT ![op.at] = b]
              /\ [before EXCEPT ![op.at] = b][op.at] = b
<1>1. op.name \in DOMAIN file /\ op.at \in 1..Len(before)  BY DEF PatchInv
<1>2. file[op.name] \in Files /\ before \in Files
  BY <1>1, OnCardIn DEF CardInv, ServiceInv
<1>3. op.data \in Seq(Blocks) /\ Len(op.data) = 1  BY DEF KindInv
<1>4. op.data[1] \in Blocks  BY <1>3, ElementOfSeq
<1>5. op.data[1] \in Block_ /\ op.data[1] # Torn
  BY <1>4, FilesAssumption DEF Block_
<1>6. PICK x \in Block_ : file[op.name] = [before EXCEPT ![op.at] = x]
  <2>1. CASE stage \in {"patch", "save", "apply"}
    <3>1. before[op.at] \in Block_ /\ DOMAIN before = 1..Len(before)
      BY <1>1, <1>2, ElementOfSeq, LenProperties DEF Files
    <3>4. before = [before EXCEPT ![op.at] = before[op.at]]
      BY <1>1, <1>2, <3>1 DEF Files
    <3>2. file[op.name] = before  BY <2>1 DEF PatchInv, PatchStages
    <3>3. QED  BY <3>1, <3>2, <3>4
  <2>2. CASE stage \in {"write", "check", "restore"}
    <3>1. file[op.name] = [before EXCEPT ![op.at] = file[op.name][op.at]]
      BY <2>2 DEF PatchInv, PatchStages
    <3>2. DOMAIN before = 1..Len(before)  BY <1>2, LenProperties DEF Files
    <3>3. DOMAIN file[op.name] = 1..Len(before)  BY <3>1, <3>2
    <3>4. op.at \in 1..Len(file[op.name])
      BY <3>3, <1>1, <1>2, LenProperties DEF Files
    <3>5. file[op.name][op.at] \in Block_
      BY <3>4, <1>2, ElementOfSeq DEF Files
    <3>6. QED  BY <3>1, <3>5
  <2>3. QED  BY <2>1, <2>2 DEF PatchStages
<1>7. QED  BY <1>1, <1>2, <1>5, <1>6, SetFacts

-----------------------------------------------------------------------------
(* The steps: what changes, and every part of the invariant after it.      *)

LEMMA BeginUploadStep ==
  ASSUME FilesAssumption, IInv,
         NEW n \in Names, NEW c \in Contents, BeginUpload(n, c)
  PROVE  IInv'
<1>1. CardInv /\ ServiceInv /\ KindInv /\ UploadInv /\ PatchInv /\ DoneInv
      /\ AnswerTrue /\ VideoSurvives /\ OwnedInv /\ IndexInv /\ CrcExact
  BY DEF IInv
<1>2. /\ faults \in Nat /\ op.name \in Names /\ op.kind \in Kinds
      /\ op.data \in Files /\ before \in Files /\ op \in Requests
      /\ op.at \in Nat
  BY <1>1 DEF ServiceInv, Requests
<1>3. IInv'
  <2>1. /\ stage = "idle"
        /\ stage' = "receive"
        /\ op' = Request("upload", n, c, 0)
        /\ answer' = Reply("none", <<>>)
        /\ before' = IF n \in DOMAIN file THEN file[n] ELSE <<>>
        /\ part' = Put(part, n, <<>>)
        /\ had' = had /\ owned' = owned /\ faults' = faults
        /\ file' = file /\ bak' = bak /\ patchbak' = patchbak
        /\ index' = index /\ indexBak' = indexBak
    BY <1>1 DEF BeginUpload, Begin, NoReply, Content, KindInv, UploadInv
  <2>2. /\ op' \in Requests /\ op'.kind = "upload" /\ op'.name = n
        /\ op'.data = c /\ op'.at = 0
        /\ answer' \in Replies /\ answer'.status = "none"
        /\ answer'.data = <<>>
    BY <1>1, <1>2, <2>1, DataFacts, OnCardIn, FilesAssumption
      DEF Request, Reply, Requests, Replies, Kinds, CardInv, KindInv,
          PatchStages
  <2>3. /\ DOMAIN part' = DOMAIN part \cup {n} /\ part'[n] = <<>>
        /\ \A m \in DOMAIN part : m # n => part'[m] = part[m]
    BY <2>1 DEF Put, Unlink, Restrict, Nothing
  <2>4. faults' \in Nat  BY <1>2, <2>1
  <2>5. stage' \in Stages /\ before' \in Files /\ had' \in BOOLEAN
        /\ owned' \subseteq Names
    BY <1>1, <1>2, <2>1, DataFacts, OnCardIn, FilesAssumption
      DEF ServiceInv, CardInv, Stages, UploadStages, PatchStages, IndexStages
  <2>6. CardInv'
    BY <1>1, <1>2, <2>1, <2>2, <2>3, OnCardPut, OnCardUnlink, OnCardNothing,
       OnCardIn, DataFacts
      DEF CardInv
  <2>7. ServiceInv'  BY <1>1, <2>1, <2>4, <2>5, <2>2 DEF ServiceInv
  <2>8. KindInv'
    BY <1>1, <1>2, <2>1, <2>2, <2>3
      DEF KindInv, UploadStages, PatchStages, IndexStages
  <2>9. UploadInv'  BY <1>1, <1>2, <2>1, <2>2, <2>3 DEF UploadInv, Content
  <2>10. PatchInv'  BY <1>1, <1>2, <2>1, <2>2, <2>3 DEF PatchInv, PatchStages
  <2>11. DoneInv'
    BY <1>1, <1>2, <2>1, <2>2, <2>3 DEF DoneInv, Done, IndexStages
  <2>12. AnswerTrue'  BY <1>1, <1>2, <2>1, <2>2, <2>3 DEF AnswerTrue, Content
  <2>13. VideoSurvives'  BY <1>1, <1>2, <2>1, <2>2, <2>3 DEF VideoSurvives
  <2>14. OwnedInv'  BY <1>1, <1>2, <2>1, <2>2, <2>3 DEF OwnedInv
  <2>15. IndexInv'
    BY <1>1, <1>2, <2>1, <2>2, <2>3 DEF IndexInv, Exact, Changing, Content
  <2>16. CrcExact'  BY <1>1, <1>2, <2>1, <2>2, <2>3 DEF CrcExact, Content
  <2>17. QED
    BY <2>6, <2>7, <2>8, <2>9, <2>10, <2>11, <2>12, <2>13, <2>14, <2>15, <2>16
      DEF IInv
<1>4. QED  BY <1>3

LEMMA BeginPatchStep ==
  ASSUME FilesAssumption, IInv,
         NEW n \in DOMAIN file, NEW at \in 1..Len(file[n]),
         NEW b \in Blocks,
         BeginPatch(n, at, b)
  PROVE  IInv'
<1>1. CardInv /\ ServiceInv /\ KindInv /\ UploadInv /\ PatchInv /\ DoneInv
      /\ AnswerTrue /\ VideoSurvives /\ OwnedInv /\ IndexInv /\ CrcExact
  BY DEF IInv
<1>2. /\ faults \in Nat /\ op.name \in Names /\ op.kind \in Kinds
      /\ op.data \in Files /\ before \in Files /\ op \in Requests
      /\ op.at \in Nat
  BY <1>1 DEF ServiceInv, Requests
<1>3. IInv'
  <2>1. /\ stage = "idle"
        /\ stage' = "patch"
        /\ op' = Request("patch", n, <<b>>, at)
        /\ answer' = Reply("none", <<>>)
        /\ before' = IF n \in DOMAIN file THEN file[n] ELSE <<>>
        /\ patchbak' = Unlink(patchbak, n)
        /\ had' = had /\ owned' = owned /\ faults' = faults
        /\ file' = file /\ part' = part /\ bak' = bak
        /\ index' = index /\ indexBak' = indexBak
    BY <1>1 DEF BeginPatch, Begin, NoReply, Content, KindInv, UploadInv
  <2>2. /\ at \in Nat /\ n \in Names /\ <<b>> \in Files
        /\ <<b>> \in Seq(Blocks) /\ Len(<<b>>) = 1
    <3>1. n \in Names /\ file[n] \in Files  BY <1>1, OnCardIn DEF CardInv
    <3>2. Len(file[n]) \in Nat  BY <3>1, LenProperties DEF Files
    <3>3. at \in Nat  BY <3>2
    <3>4. <<b>> \in Seq(Blocks) /\ Len(<<b>>) = 1  OBVIOUS
    <3>5. <<b>> \in Files  BY <3>4, DataFacts
    <3>6. QED  BY <3>1, <3>3, <3>4, <3>5
  <2>3. /\ op' \in Requests /\ op'.kind = "patch" /\ op'.name = n
        /\ op'.data = <<b>> /\ op'.at = at
        /\ answer' \in Replies /\ answer'.status = "none"
        /\ answer'.data = <<>>
    BY <1>1, <1>2, <2>1, <2>2, DataFacts, OnCardIn, FilesAssumption
      DEF Request, Reply, Requests, Replies, Kinds, CardInv, KindInv,
          PatchStages
  <2>4. /\ DOMAIN patchbak' = DOMAIN patchbak \ {n}
        /\ \A m \in DOMAIN patchbak : m # n => patchbak'[m] = patchbak[m]
    BY <2>1 DEF Put, Unlink, Restrict, Nothing
  <2>5. faults' \in Nat  BY <1>2, <2>1
  <2>6. stage' \in Stages /\ before' \in Files /\ had' \in BOOLEAN
        /\ owned' \subseteq Names
    BY <1>1, <1>2, <2>1, DataFacts, OnCardIn, FilesAssumption
      DEF ServiceInv, CardInv, Stages, UploadStages, PatchStages, IndexStages
  <2>7. CardInv'
    BY <1>1, <1>2, <2>1, <2>2, <2>3, <2>4, OnCardPut, OnCardUnlink,
       OnCardNothing, OnCardIn, DataFacts
      DEF CardInv
  <2>8. ServiceInv'  BY <1>1, <2>1, <2>5, <2>6, <2>3 DEF ServiceInv
  <2>9. KindInv'
    BY <1>1, <1>2, <2>1, <2>2, <2>3, <2>4
      DEF KindInv, UploadStages, PatchStages, IndexStages
  <2>10. UploadInv'
    BY <1>1, <1>2, <2>1, <2>2, <2>3, <2>4 DEF UploadInv, Content
  <2>11. PatchInv'
    BY <1>1, <1>2, <2>1, <2>2, <2>3, <2>4 DEF PatchInv, PatchStages
  <2>12. DoneInv'
    BY <1>1, <1>2, <2>1, <2>2, <2>3, <2>4 DEF DoneInv, Done, IndexStages
  <2>13. AnswerTrue'
    BY <1>1, <1>2, <2>1, <2>2, <2>3, <2>4 DEF AnswerTrue, Content
  <2>14. VideoSurvives'
    BY <1>1, <1>2, <2>1, <2>2, <2>3, <2>4 DEF VideoSurvives
  <2>15. OwnedInv'  BY <1>1, <1>2, <2>1, <2>2, <2>3, <2>4 DEF OwnedInv
  <2>16. IndexInv'
    BY <1>1, <1>2, <2>1, <2>2, <2>3, <2>4
      DEF IndexInv, Exact, Changing, Content
  <2>17. CrcExact'
    BY <1>1, <1>2, <2>1, <2>2, <2>3, <2>4 DEF CrcExact, Content
  <2>18. QED
    BY <2>7, <2>8, <2>9, <2>10, <2>11, <2>12, <2>13, <2>14, <2>15, <2>16,
       <2>17
      DEF IInv
<1>4. QED  BY <1>3

LEMMA BeginDeleteStep ==
  ASSUME FilesAssumption, IInv, NEW n \in Names, BeginDelete(n)
  PROVE  IInv'
<1>1. CardInv /\ ServiceInv /\ KindInv /\ UploadInv /\ PatchInv /\ DoneInv
      /\ AnswerTrue /\ VideoSurvives /\ OwnedInv /\ IndexInv /\ CrcExact
  BY DEF IInv
<1>2. /\ faults \in Nat /\ op.name \in Names /\ op.kind \in Kinds
      /\ op.data \in Files /\ before \in Files /\ op \in Requests
      /\ op.at \in Nat
  BY <1>1 DEF ServiceInv, Requests
<1>3. IInv'
  <2>1. /\ stage = "idle"
        /\ stage' = "remove"
        /\ op' = Request("delete", n, <<>>, 0)
        /\ answer' = Reply("none", <<>>)
        /\ before' = IF n \in DOMAIN file THEN file[n] ELSE <<>>
        /\ had' = had /\ owned' = owned /\ faults' = faults
        /\ file' = file /\ part' = part /\ bak' = bak
        /\ patchbak' = patchbak /\ index' = index /\ indexBak' = indexBak
    BY <1>1
      DEF BeginDelete, Begin, NoReply, cardVars, Content, KindInv, UploadInv
  <2>2. /\ op' \in Requests /\ op'.kind = "delete" /\ op'.name = n
        /\ op'.data = <<>> /\ op'.at = 0
        /\ answer' \in Replies /\ answer'.status = "none"
        /\ answer'.data = <<>>
    BY <1>1, <1>2, <2>1, DataFacts, OnCardIn, FilesAssumption
      DEF Request, Reply, Requests, Replies, Kinds, CardInv, KindInv,
          PatchStages
  <2>3. faults' \in Nat  BY <1>2, <2>1
  <2>4. stage' \in Stages /\ before' \in Files /\ had' \in BOOLEAN
        /\ owned' \subseteq Names
    BY <1>1, <1>2, <2>1, DataFacts, OnCardIn, FilesAssumption
      DEF ServiceInv, CardInv, Stages, UploadStages, PatchStages, IndexStages
  <2>5. CardInv'
    BY <1>1, <1>2, <2>1, <2>2, OnCardPut, OnCardUnlink, OnCardNothing,
       OnCardIn, DataFacts
      DEF CardInv
  <2>6. ServiceInv'  BY <1>1, <2>1, <2>3, <2>4, <2>2 DEF ServiceInv
  <2>7. KindInv'
    BY <1>1, <1>2, <2>1, <2>2
      DEF KindInv, UploadStages, PatchStages, IndexStages
  <2>8. UploadInv'  BY <1>1, <1>2, <2>1, <2>2 DEF UploadInv, Content
  <2>9. PatchInv'  BY <1>1, <1>2, <2>1, <2>2 DEF PatchInv, PatchStages
  <2>10. DoneInv'  BY <1>1, <1>2, <2>1, <2>2 DEF DoneInv, Done, IndexStages
  <2>11. AnswerTrue'  BY <1>1, <1>2, <2>1, <2>2 DEF AnswerTrue, Content
  <2>12. VideoSurvives'  BY <1>1, <1>2, <2>1, <2>2 DEF VideoSurvives
  <2>13. OwnedInv'  BY <1>1, <1>2, <2>1, <2>2 DEF OwnedInv
  <2>14. IndexInv'
    BY <1>1, <1>2, <2>1, <2>2 DEF IndexInv, Exact, Changing, Content
  <2>15. CrcExact'  BY <1>1, <1>2, <2>1, <2>2 DEF CrcExact, Content
  <2>16. QED
    BY <2>5, <2>6, <2>7, <2>8, <2>9, <2>10, <2>11, <2>12, <2>13, <2>14, <2>15
      DEF IInv
<1>4. QED  BY <1>3

LEMMA BeginChecksumStep ==
  ASSUME FilesAssumption, IInv,
         NEW n \in Names, NEW kind \in {"crc", "blockcrc"},
         BeginChecksum(n, kind)
  PROVE  IInv'
<1>1. CardInv /\ ServiceInv /\ KindInv /\ UploadInv /\ PatchInv /\ DoneInv
      /\ AnswerTrue /\ VideoSurvives /\ OwnedInv /\ IndexInv /\ CrcExact
  BY DEF IInv
<1>2. /\ faults \in Nat /\ op.name \in Names /\ op.kind \in Kinds
      /\ op.data \in Files /\ before \in Files /\ op \in Requests
      /\ op.at \in Nat
  BY <1>1 DEF ServiceInv, Requests
<1>3. CASE kind = "crc"
  <2>1. /\ stage = "idle" /\ n \in DOMAIN file
        /\ stage' = "lookup"
        /\ op' = Request("crc", n, <<>>, 0)
        /\ answer' = Reply("none", <<>>)
        /\ before' = IF n \in DOMAIN file THEN file[n] ELSE <<>>
        /\ had' = had /\ owned' = owned /\ faults' = faults
        /\ file' = file /\ part' = part /\ bak' = bak
        /\ patchbak' = patchbak /\ index' = index /\ indexBak' = indexBak
    BY <1>3, <1>1
      DEF BeginChecksum, Begin, NoReply, cardVars, Content, KindInv, UploadInv
  <2>2. /\ op' \in Requests /\ op'.kind = "crc" /\ op'.name = n
        /\ op'.data = <<>> /\ op'.at = 0
        /\ answer' \in Replies /\ answer'.status = "none"
        /\ answer'.data = <<>>
    BY <1>1, <1>2, <2>1, DataFacts, OnCardIn, FilesAssumption
      DEF Request, Reply, Requests, Replies, Kinds, CardInv, KindInv,
          PatchStages
  <2>3. faults' \in Nat  BY <1>2, <2>1
  <2>4. stage' \in Stages /\ before' \in Files /\ had' \in BOOLEAN
        /\ owned' \subseteq Names
    BY <1>1, <1>2, <2>1, DataFacts, OnCardIn, FilesAssumption
      DEF ServiceInv, CardInv, Stages, UploadStages, PatchStages, IndexStages
  <2>5. CardInv'
    BY <1>1, <1>2, <2>1, <2>2, OnCardPut, OnCardUnlink, OnCardNothing,
       OnCardIn, DataFacts
      DEF CardInv
  <2>6. ServiceInv'  BY <1>1, <2>1, <2>3, <2>4, <2>2 DEF ServiceInv
  <2>7. KindInv'
    BY <1>1, <1>2, <2>1, <2>2
      DEF KindInv, UploadStages, PatchStages, IndexStages
  <2>8. UploadInv'  BY <1>1, <1>2, <2>1, <2>2 DEF UploadInv, Content
  <2>9. PatchInv'  BY <1>1, <1>2, <2>1, <2>2 DEF PatchInv, PatchStages
  <2>10. DoneInv'  BY <1>1, <1>2, <2>1, <2>2 DEF DoneInv, Done, IndexStages
  <2>11. AnswerTrue'  BY <1>1, <1>2, <2>1, <2>2 DEF AnswerTrue, Content
  <2>12. VideoSurvives'  BY <1>1, <1>2, <2>1, <2>2 DEF VideoSurvives
  <2>13. OwnedInv'  BY <1>1, <1>2, <2>1, <2>2 DEF OwnedInv
  <2>14. IndexInv'
    BY <1>1, <1>2, <2>1, <2>2 DEF IndexInv, Exact, Changing, Content
  <2>15. CrcExact'  BY <1>1, <1>2, <2>1, <2>2 DEF CrcExact, Content
  <2>16. QED
    BY <2>5, <2>6, <2>7, <2>8, <2>9, <2>10, <2>11, <2>12, <2>13, <2>14, <2>15
      DEF IInv
<1>4. CASE kind = "blockcrc"
  <2>1. /\ stage = "idle" /\ n \in DOMAIN file
        /\ stage' = "scan"
        /\ op' = Request("blockcrc", n, <<>>, 0)
        /\ answer' = Reply("none", <<>>)
        /\ before' = IF n \in DOMAIN file THEN file[n] ELSE <<>>
        /\ had' = had /\ owned' = owned /\ faults' = faults
        /\ file' = file /\ part' = part /\ bak' = bak
        /\ patchbak' = patchbak /\ index' = index /\ indexBak' = indexBak
    BY <1>4, <1>1
      DEF BeginChecksum, Begin, NoReply, cardVars, Content, KindInv, UploadInv
  <2>2. /\ op' \in Requests /\ op'.kind = "blockcrc" /\ op'.name = n
        /\ op'.data = <<>> /\ op'.at = 0
        /\ answer' \in Replies /\ answer'.status = "none"
        /\ answer'.data = <<>>
    BY <1>1, <1>2, <2>1, DataFacts, OnCardIn, FilesAssumption
      DEF Request, Reply, Requests, Replies, Kinds, CardInv, KindInv,
          PatchStages
  <2>3. faults' \in Nat  BY <1>2, <2>1
  <2>4. stage' \in Stages /\ before' \in Files /\ had' \in BOOLEAN
        /\ owned' \subseteq Names
    BY <1>1, <1>2, <2>1, DataFacts, OnCardIn, FilesAssumption
      DEF ServiceInv, CardInv, Stages, UploadStages, PatchStages, IndexStages
  <2>5. CardInv'
    BY <1>1, <1>2, <2>1, <2>2, OnCardPut, OnCardUnlink, OnCardNothing,
       OnCardIn, DataFacts
      DEF CardInv
  <2>6. ServiceInv'  BY <1>1, <2>1, <2>3, <2>4, <2>2 DEF ServiceInv
  <2>7. KindInv'
    BY <1>1, <1>2, <2>1, <2>2
      DEF KindInv, UploadStages, PatchStages, IndexStages
  <2>8. UploadInv'  BY <1>1, <1>2, <2>1, <2>2 DEF UploadInv, Content
  <2>9. PatchInv'  BY <1>1, <1>2, <2>1, <2>2 DEF PatchInv, PatchStages
  <2>10. DoneInv'  BY <1>1, <1>2, <2>1, <2>2 DEF DoneInv, Done, IndexStages
  <2>11. AnswerTrue'  BY <1>1, <1>2, <2>1, <2>2 DEF AnswerTrue, Content
  <2>12. VideoSurvives'  BY <1>1, <1>2, <2>1, <2>2 DEF VideoSurvives
  <2>13. OwnedInv'  BY <1>1, <1>2, <2>1, <2>2 DEF OwnedInv
  <2>14. IndexInv'
    BY <1>1, <1>2, <2>1, <2>2 DEF IndexInv, Exact, Changing, Content
  <2>15. CrcExact'  BY <1>1, <1>2, <2>1, <2>2 DEF CrcExact, Content
  <2>16. QED
    BY <2>5, <2>6, <2>7, <2>8, <2>9, <2>10, <2>11, <2>12, <2>13, <2>14, <2>15
      DEF IInv
<1>5. QED  BY <1>3, <1>4 DEF BeginChecksum, Begin, NoReply, cardVars, Content

LEMMA BeginChoiceStep ==
  ASSUME FilesAssumption, IInv, NEW c \in Choices, BeginChoice(c)
  PROVE  IInv'
<1>1. CardInv /\ ServiceInv /\ KindInv /\ UploadInv /\ PatchInv /\ DoneInv
      /\ AnswerTrue /\ VideoSurvives /\ OwnedInv /\ IndexInv /\ CrcExact
  BY DEF IInv
<1>2. /\ faults \in Nat /\ op.name \in Names /\ op.kind \in Kinds
      /\ op.data \in Files /\ before \in Files /\ op \in Requests
      /\ op.at \in Nat
  BY <1>1 DEF ServiceInv, Requests
<1>3. IInv'
  <2>1. /\ stage = "idle"
        /\ stage' = "truncated"
        /\ op' = Request("select", Playlist, c, 0)
        /\ answer' = Reply("none", <<>>)
        /\ before' = IF Playlist \in DOMAIN file THEN file[Playlist] ELSE <<>>
        /\ file' = Put(file, Playlist, <<>>)
        /\ had' = had /\ owned' = owned /\ faults' = faults
        /\ part' = part /\ bak' = bak /\ patchbak' = patchbak
        /\ index' = index /\ indexBak' = indexBak
    BY <1>1 DEF BeginChoice, Begin, NoReply, Content, KindInv, UploadInv
  <2>2. /\ op' \in Requests /\ op'.kind = "select" /\ op'.name = Playlist
        /\ op'.data = c /\ op'.at = 0
        /\ answer' \in Replies /\ answer'.status = "none"
        /\ answer'.data = <<>>
    BY <1>1, <1>2, <2>1, DataFacts, OnCardIn, FilesAssumption
      DEF Request, Reply, Requests, Replies, Kinds, CardInv, KindInv,
          PatchStages
  <2>3. /\ DOMAIN file' = DOMAIN file \cup {Playlist}
        /\ file'[Playlist] = <<>>
        /\ \A m \in DOMAIN file : m # Playlist => file'[m] = file[m]
    BY <2>1 DEF Put, Unlink, Restrict, Nothing
  <2>4. faults' \in Nat  BY <1>2, <2>1
  <2>5. stage' \in Stages /\ before' \in Files /\ had' \in BOOLEAN
        /\ owned' \subseteq Names
    BY <1>1, <1>2, <2>1, DataFacts, OnCardIn, FilesAssumption
      DEF ServiceInv, CardInv, Stages, UploadStages, PatchStages, IndexStages
  <2>6. CardInv'
    BY <1>1, <1>2, <2>1, <2>2, <2>3, OnCardPut, OnCardUnlink, OnCardNothing,
       OnCardIn, DataFacts
      DEF CardInv
  <2>7. ServiceInv'  BY <1>1, <2>1, <2>4, <2>5, <2>2 DEF ServiceInv
  <2>8. KindInv'
    BY <1>1, <1>2, <2>1, <2>2, <2>3
      DEF KindInv, UploadStages, PatchStages, IndexStages
  <2>9. UploadInv'  BY <1>1, <1>2, <2>1, <2>2, <2>3 DEF UploadInv, Content
  <2>10. PatchInv'  BY <1>1, <1>2, <2>1, <2>2, <2>3 DEF PatchInv, PatchStages
  <2>11. DoneInv'
    BY <1>1, <1>2, <2>1, <2>2, <2>3 DEF DoneInv, Done, IndexStages
  <2>12. AnswerTrue'  BY <1>1, <1>2, <2>1, <2>2, <2>3 DEF AnswerTrue, Content
  <2>13. VideoSurvives'  BY <1>1, <1>2, <2>1, <2>2, <2>3 DEF VideoSurvives
  <2>14. OwnedInv'  BY <1>1, <1>2, <2>1, <2>2, <2>3 DEF OwnedInv
  <2>15. IndexInv'
    BY <1>1, <1>2, <2>1, <2>2, <2>3 DEF IndexInv, Exact, Changing, Content
  <2>16. CrcExact'  BY <1>1, <1>2, <2>1, <2>2, <2>3 DEF CrcExact, Content
  <2>17. QED
    BY <2>6, <2>7, <2>8, <2>9, <2>10, <2>11, <2>12, <2>13, <2>14, <2>15, <2>16
      DEF IInv
<1>4. QED  BY <1>3

LEMMA ReceiveUploadStep ==
  ASSUME FilesAssumption, IInv, ReceiveUpload
  PROVE  IInv'
<1>1. CardInv /\ ServiceInv /\ KindInv /\ UploadInv /\ PatchInv /\ DoneInv
      /\ AnswerTrue /\ VideoSurvives /\ OwnedInv /\ IndexInv /\ CrcExact
  BY DEF IInv
<1>2. /\ faults \in Nat /\ op.name \in Names /\ op.kind \in Kinds
      /\ op.data \in Files /\ before \in Files /\ op \in Requests
      /\ op.at \in Nat
  BY <1>1 DEF ServiceInv, Requests
<1>3. CASE Works /\ part' = Put(part, op.name, op.data) /\ Go("reread")
  <2>1. /\ stage = "receive"
        /\ stage' = "reread"
        /\ part' = Put(part, op.name, op.data)
        /\ op' = op /\ had' = had /\ answer' = answer /\ before' = before
        /\ owned' = owned /\ faults' = faults
        /\ file' = file /\ bak' = bak /\ patchbak' = patchbak
        /\ index' = index /\ indexBak' = indexBak
    BY <1>3, <1>1
      DEF ReceiveUpload, Go, Finish, Works, Fault, KindInv, UploadInv
  <2>2. /\ DOMAIN part' = DOMAIN part \cup {op.name}
        /\ part'[op.name] = op.data
        /\ \A m \in DOMAIN part : m # op.name => part'[m] = part[m]
    BY <2>1 DEF Put, Unlink, Restrict, Nothing
  <2>3. faults' \in Nat  BY <1>2, <2>1
  <2>4. stage' \in Stages /\ before' \in Files /\ had' \in BOOLEAN
        /\ owned' \subseteq Names
    BY <1>1, <1>2, <2>1, DataFacts, OnCardIn, FilesAssumption
      DEF ServiceInv, CardInv, Stages, UploadStages, PatchStages, IndexStages
  <2>5. CardInv'
    BY <1>1, <1>2, <2>1, <2>2, OnCardPut, OnCardUnlink, OnCardNothing,
       OnCardIn, DataFacts
      DEF CardInv
  <2>6. ServiceInv'  BY <1>1, <2>1, <2>3, <2>4 DEF ServiceInv
  <2>7. KindInv'
    BY <1>1, <1>2, <2>1, <2>2
      DEF KindInv, UploadStages, PatchStages, IndexStages
  <2>8. UploadInv'  BY <1>1, <1>2, <2>1, <2>2 DEF UploadInv, Content
  <2>9. PatchInv'  BY <1>1, <1>2, <2>1, <2>2 DEF PatchInv, PatchStages
  <2>10. DoneInv'  BY <1>1, <1>2, <2>1, <2>2 DEF DoneInv, Done, IndexStages
  <2>11. AnswerTrue'
    BY <1>1, <1>2, <2>1, <2>2
      DEF AnswerTrue, Content, UploadInv, KindInv, UploadStages
  <2>12. VideoSurvives'  BY <1>1, <1>2, <2>1, <2>2 DEF VideoSurvives
  <2>13. OwnedInv'  BY <1>1, <1>2, <2>1, <2>2 DEF OwnedInv
  <2>14. IndexInv'
    BY <1>1, <1>2, <2>1, <2>2 DEF IndexInv, Exact, Changing, Content
  <2>15. CrcExact'  BY <1>1, <1>2, <2>1, <2>2 DEF CrcExact, Content
  <2>16. QED
    BY <2>5, <2>6, <2>7, <2>8, <2>9, <2>10, <2>11, <2>12, <2>13, <2>14, <2>15
      DEF IInv
<1>4. CASE Fault /\ Go("reread") /\
            part' = Put(part, op.name, [op.data EXCEPT ![1] = Torn])
  <2>1. /\ stage = "receive"
        /\ stage' = "reread"
        /\ faults' = faults + 1
        /\ part' = Put(part, op.name, [op.data EXCEPT ![1] = Torn])
        /\ op' = op /\ had' = had /\ answer' = answer /\ before' = before
        /\ owned' = owned /\ file' = file
        /\ bak' = bak /\ patchbak' = patchbak /\ index' = index
        /\ indexBak' = indexBak
    BY <1>4, <1>1
      DEF ReceiveUpload, Go, Finish, Works, Fault, KindInv, UploadInv
  <2>2. /\ DOMAIN part' = DOMAIN part \cup {op.name}
        /\ part'[op.name] = [op.data EXCEPT ![1] = Torn]
        /\ \A m \in DOMAIN part : m # op.name => part'[m] = part[m]
    BY <2>1 DEF Put, Unlink, Restrict, Nothing
  <2>3. [op.data EXCEPT ![1] = Torn] \in Files
    BY <1>1, <1>2, <2>1, DataFacts, SetFacts DEF KindInv
  <2>4. faults' \in Nat  BY <1>2, <2>1
  <2>5. stage' \in Stages /\ before' \in Files /\ had' \in BOOLEAN
        /\ owned' \subseteq Names
    BY <1>1, <1>2, <2>1, DataFacts, OnCardIn, FilesAssumption
      DEF ServiceInv, CardInv, Stages, UploadStages, PatchStages, IndexStages
  <2>6. CardInv'
    BY <1>1, <1>2, <2>1, <2>2, <2>3, OnCardPut, OnCardUnlink, OnCardNothing,
       OnCardIn, DataFacts
      DEF CardInv
  <2>7. ServiceInv'  BY <1>1, <2>1, <2>4, <2>5 DEF ServiceInv
  <2>8. KindInv'
    BY <1>1, <1>2, <2>1, <2>2, <2>3
      DEF KindInv, UploadStages, PatchStages, IndexStages
  <2>9. UploadInv'  BY <1>1, <1>2, <2>1, <2>2, <2>3 DEF UploadInv, Content
  <2>10. PatchInv'  BY <1>1, <1>2, <2>1, <2>2, <2>3 DEF PatchInv, PatchStages
  <2>11. DoneInv'
    BY <1>1, <1>2, <2>1, <2>2, <2>3 DEF DoneInv, Done, IndexStages
  <2>12. AnswerTrue'
    BY <1>1, <1>2, <2>1, <2>2, <2>3
      DEF AnswerTrue, Content, UploadInv, KindInv, UploadStages
  <2>13. VideoSurvives'  BY <1>1, <1>2, <2>1, <2>2, <2>3 DEF VideoSurvives
  <2>14. OwnedInv'  BY <1>1, <1>2, <2>1, <2>2, <2>3 DEF OwnedInv
  <2>15. IndexInv'
    BY <1>1, <1>2, <2>1, <2>2, <2>3 DEF IndexInv, Exact, Changing, Content
  <2>16. CrcExact'  BY <1>1, <1>2, <2>1, <2>2, <2>3 DEF CrcExact, Content
  <2>17. QED
    BY <2>6, <2>7, <2>8, <2>9, <2>10, <2>11, <2>12, <2>13, <2>14, <2>15, <2>16
      DEF IInv
<1>5. CASE Works /\ part' = Unlink(part, op.name) /\ Finish("error", <<>>)
  <2>1. /\ stage = "receive"
        /\ stage' = "idle"
        /\ had' = FALSE
        /\ answer' = Reply("error", <<>>)
        /\ part' = Unlink(part, op.name)
        /\ op' = op /\ before' = before /\ owned' = owned
        /\ faults' = faults /\ file' = file /\ bak' = bak
        /\ patchbak' = patchbak /\ index' = index /\ indexBak' = indexBak
    BY <1>5, <1>1
      DEF ReceiveUpload, Go, Finish, Works, Fault, KindInv, UploadInv
  <2>2. /\ answer' \in Replies /\ answer'.status = "error"
        /\ answer'.data = <<>>
    BY <1>1, <1>2, <2>1, DataFacts, OnCardIn, FilesAssumption
      DEF Request, Reply, Requests, Replies, Kinds, CardInv, KindInv,
          PatchStages
  <2>3. /\ DOMAIN part' = DOMAIN part \ {op.name}
        /\ \A m \in DOMAIN part : m # op.name => part'[m] = part[m]
    BY <2>1 DEF Put, Unlink, Restrict, Nothing
  <2>4. faults' \in Nat  BY <1>2, <2>1
  <2>5. stage' \in Stages /\ before' \in Files /\ had' \in BOOLEAN
        /\ owned' \subseteq Names
    BY <1>1, <1>2, <2>1, DataFacts, OnCardIn, FilesAssumption
      DEF ServiceInv, CardInv, Stages, UploadStages, PatchStages, IndexStages
  <2>6. CardInv'
    BY <1>1, <1>2, <2>1, <2>2, <2>3, OnCardPut, OnCardUnlink, OnCardNothing,
       OnCardIn, DataFacts
      DEF CardInv
  <2>7. ServiceInv'  BY <1>1, <2>1, <2>4, <2>5, <2>2 DEF ServiceInv
  <2>8. KindInv'
    BY <1>1, <1>2, <2>1, <2>2, <2>3
      DEF KindInv, UploadStages, PatchStages, IndexStages
  <2>9. UploadInv'  BY <1>1, <1>2, <2>1, <2>2, <2>3 DEF UploadInv, Content
  <2>10. PatchInv'  BY <1>1, <1>2, <2>1, <2>2, <2>3 DEF PatchInv, PatchStages
  <2>11. DoneInv'
    BY <1>1, <1>2, <2>1, <2>2, <2>3 DEF DoneInv, Done, IndexStages
  <2>12. AnswerTrue'
    BY <1>1, <1>2, <2>1, <2>2, <2>3
      DEF AnswerTrue, Content, UploadInv, KindInv, UploadStages
  <2>13. VideoSurvives'  BY <1>1, <1>2, <2>1, <2>2, <2>3 DEF VideoSurvives
  <2>14. OwnedInv'  BY <1>1, <1>2, <2>1, <2>2, <2>3 DEF OwnedInv
  <2>15. IndexInv'
    BY <1>1, <1>2, <2>1, <2>2, <2>3 DEF IndexInv, Exact, Changing, Content
  <2>16. CrcExact'  BY <1>1, <1>2, <2>1, <2>2, <2>3 DEF CrcExact, Content
  <2>17. QED
    BY <2>6, <2>7, <2>8, <2>9, <2>10, <2>11, <2>12, <2>13, <2>14, <2>15, <2>16
      DEF IInv
<1>6. QED  BY <1>3, <1>4, <1>5 DEF ReceiveUpload, Go, Finish, Works, Fault

LEMMA RereadUploadStep ==
  ASSUME FilesAssumption, IInv, RereadUpload
  PROVE  IInv'
<1>1. CardInv /\ ServiceInv /\ KindInv /\ UploadInv /\ PatchInv /\ DoneInv
      /\ AnswerTrue /\ VideoSurvives /\ OwnedInv /\ IndexInv /\ CrcExact
  BY DEF IInv
<1>2. /\ faults \in Nat /\ op.name \in Names /\ op.kind \in Kinds
      /\ op.data \in Files /\ before \in Files /\ op \in Requests
      /\ op.at \in Nat
  BY <1>1 DEF ServiceInv, Requests
<1>3. CASE Works /\ part[op.name] = op.data /\ Go("drop") /\ part' = part
  <2>1. /\ stage = "reread" /\ part[op.name] = op.data
        /\ stage' = "drop"
        /\ op' = op /\ had' = had /\ answer' = answer /\ before' = before
        /\ owned' = owned /\ faults' = faults
        /\ file' = file /\ part' = part /\ bak' = bak
        /\ patchbak' = patchbak /\ index' = index /\ indexBak' = indexBak
    BY <1>3, <1>1
      DEF RereadUpload, Go, Finish, Works, Fault, KindInv, UploadInv
  <2>2. faults' \in Nat  BY <1>2, <2>1
  <2>3. stage' \in Stages /\ before' \in Files /\ had' \in BOOLEAN
        /\ owned' \subseteq Names
    BY <1>1, <1>2, <2>1, DataFacts, OnCardIn, FilesAssumption
      DEF ServiceInv, CardInv, Stages, UploadStages, PatchStages, IndexStages
  <2>4. CardInv'
    BY <1>1, <1>2, <2>1, OnCardPut, OnCardUnlink, OnCardNothing, OnCardIn,
       DataFacts
      DEF CardInv
  <2>5. ServiceInv'  BY <1>1, <2>1, <2>2, <2>3 DEF ServiceInv
  <2>6. KindInv'
    BY <1>1, <1>2, <2>1 DEF KindInv, UploadStages, PatchStages, IndexStages
  <2>7. UploadInv'  BY <1>1, <1>2, <2>1 DEF UploadInv, Content, KindInv
  <2>8. PatchInv'  BY <1>1, <1>2, <2>1 DEF PatchInv, PatchStages
  <2>9. DoneInv'  BY <1>1, <1>2, <2>1 DEF DoneInv, Done, IndexStages
  <2>10. AnswerTrue'
    BY <1>1, <1>2, <2>1
      DEF AnswerTrue, Content, UploadInv, KindInv, UploadStages
  <2>11. VideoSurvives'  BY <1>1, <1>2, <2>1 DEF VideoSurvives
  <2>12. OwnedInv'  BY <1>1, <1>2, <2>1 DEF OwnedInv
  <2>13. IndexInv'  BY <1>1, <1>2, <2>1 DEF IndexInv, Exact, Changing, Content
  <2>14. CrcExact'  BY <1>1, <1>2, <2>1 DEF CrcExact, Content
  <2>15. QED
    BY <2>4, <2>5, <2>6, <2>7, <2>8, <2>9, <2>10, <2>11, <2>12, <2>13, <2>14
      DEF IInv
<1>4. CASE Works /\ part' = Unlink(part, op.name) /\ Finish("error", <<>>)
  <2>1. /\ stage = "reread"
        /\ stage' = "idle"
        /\ had' = FALSE
        /\ answer' = Reply("error", <<>>)
        /\ part' = Unlink(part, op.name)
        /\ op' = op /\ before' = before /\ owned' = owned
        /\ faults' = faults /\ file' = file /\ bak' = bak
        /\ patchbak' = patchbak /\ index' = index /\ indexBak' = indexBak
    BY <1>4, <1>1
      DEF RereadUpload, Go, Finish, Works, Fault, KindInv, UploadInv
  <2>2. /\ answer' \in Replies /\ answer'.status = "error"
        /\ answer'.data = <<>>
    BY <1>1, <1>2, <2>1, DataFacts, OnCardIn, FilesAssumption
      DEF Request, Reply, Requests, Replies, Kinds, CardInv, KindInv,
          PatchStages
  <2>3. /\ DOMAIN part' = DOMAIN part \ {op.name}
        /\ \A m \in DOMAIN part : m # op.name => part'[m] = part[m]
    BY <2>1 DEF Put, Unlink, Restrict, Nothing
  <2>4. faults' \in Nat  BY <1>2, <2>1
  <2>5. stage' \in Stages /\ before' \in Files /\ had' \in BOOLEAN
        /\ owned' \subseteq Names
    BY <1>1, <1>2, <2>1, DataFacts, OnCardIn, FilesAssumption
      DEF ServiceInv, CardInv, Stages, UploadStages, PatchStages, IndexStages
  <2>6. CardInv'
    BY <1>1, <1>2, <2>1, <2>2, <2>3, OnCardPut, OnCardUnlink, OnCardNothing,
       OnCardIn, DataFacts
      DEF CardInv
  <2>7. ServiceInv'  BY <1>1, <2>1, <2>4, <2>5, <2>2 DEF ServiceInv
  <2>8. KindInv'
    BY <1>1, <1>2, <2>1, <2>2, <2>3
      DEF KindInv, UploadStages, PatchStages, IndexStages
  <2>9. UploadInv'  BY <1>1, <1>2, <2>1, <2>2, <2>3 DEF UploadInv, Content
  <2>10. PatchInv'  BY <1>1, <1>2, <2>1, <2>2, <2>3 DEF PatchInv, PatchStages
  <2>11. DoneInv'
    BY <1>1, <1>2, <2>1, <2>2, <2>3 DEF DoneInv, Done, IndexStages
  <2>12. AnswerTrue'
    BY <1>1, <1>2, <2>1, <2>2, <2>3
      DEF AnswerTrue, Content, UploadInv, KindInv, UploadStages
  <2>13. VideoSurvives'  BY <1>1, <1>2, <2>1, <2>2, <2>3 DEF VideoSurvives
  <2>14. OwnedInv'  BY <1>1, <1>2, <2>1, <2>2, <2>3 DEF OwnedInv
  <2>15. IndexInv'
    BY <1>1, <1>2, <2>1, <2>2, <2>3 DEF IndexInv, Exact, Changing, Content
  <2>16. CrcExact'  BY <1>1, <1>2, <2>1, <2>2, <2>3 DEF CrcExact, Content
  <2>17. QED
    BY <2>6, <2>7, <2>8, <2>9, <2>10, <2>11, <2>12, <2>13, <2>14, <2>15, <2>16
      DEF IInv
<1>5. CASE Fault /\ part' = Unlink(part, op.name) /\ Finish("error", <<>>)
  <2>1. /\ stage = "reread"
        /\ stage' = "idle"
        /\ had' = FALSE
        /\ answer' = Reply("error", <<>>)
        /\ faults' = faults + 1
        /\ part' = Unlink(part, op.name)
        /\ op' = op /\ before' = before /\ owned' = owned /\ file' = file
        /\ bak' = bak /\ patchbak' = patchbak
        /\ index' = index /\ indexBak' = indexBak
    BY <1>5, <1>1
      DEF RereadUpload, Go, Finish, Works, Fault, KindInv, UploadInv
  <2>2. /\ answer' \in Replies /\ answer'.status = "error"
        /\ answer'.data = <<>>
    BY <1>1, <1>2, <2>1, DataFacts, OnCardIn, FilesAssumption
      DEF Request, Reply, Requests, Replies, Kinds, CardInv, KindInv,
          PatchStages
  <2>3. /\ DOMAIN part' = DOMAIN part \ {op.name}
        /\ \A m \in DOMAIN part : m # op.name => part'[m] = part[m]
    BY <2>1 DEF Put, Unlink, Restrict, Nothing
  <2>4. faults' \in Nat  BY <1>2, <2>1
  <2>5. stage' \in Stages /\ before' \in Files /\ had' \in BOOLEAN
        /\ owned' \subseteq Names
    BY <1>1, <1>2, <2>1, DataFacts, OnCardIn, FilesAssumption
      DEF ServiceInv, CardInv, Stages, UploadStages, PatchStages, IndexStages
  <2>6. CardInv'
    BY <1>1, <1>2, <2>1, <2>2, <2>3, OnCardPut, OnCardUnlink, OnCardNothing,
       OnCardIn, DataFacts
      DEF CardInv
  <2>7. ServiceInv'  BY <1>1, <2>1, <2>4, <2>5, <2>2 DEF ServiceInv
  <2>8. KindInv'
    BY <1>1, <1>2, <2>1, <2>2, <2>3
      DEF KindInv, UploadStages, PatchStages, IndexStages
  <2>9. UploadInv'  BY <1>1, <1>2, <2>1, <2>2, <2>3 DEF UploadInv, Content
  <2>10. PatchInv'  BY <1>1, <1>2, <2>1, <2>2, <2>3 DEF PatchInv, PatchStages
  <2>11. DoneInv'
    BY <1>1, <1>2, <2>1, <2>2, <2>3 DEF DoneInv, Done, IndexStages
  <2>12. AnswerTrue'
    BY <1>1, <1>2, <2>1, <2>2, <2>3
      DEF AnswerTrue, Content, UploadInv, KindInv, UploadStages
  <2>13. VideoSurvives'  BY <1>1, <1>2, <2>1, <2>2, <2>3 DEF VideoSurvives
  <2>14. OwnedInv'  BY <1>1, <1>2, <2>1, <2>2, <2>3 DEF OwnedInv
  <2>15. IndexInv'
    BY <1>1, <1>2, <2>1, <2>2, <2>3 DEF IndexInv, Exact, Changing, Content
  <2>16. CrcExact'  BY <1>1, <1>2, <2>1, <2>2, <2>3 DEF CrcExact, Content
  <2>17. QED
    BY <2>6, <2>7, <2>8, <2>9, <2>10, <2>11, <2>12, <2>13, <2>14, <2>15, <2>16
      DEF IInv
<1>6. QED  BY <1>3, <1>4, <1>5 DEF RereadUpload, Go, Finish, Works, Fault

LEMMA DropBackupStep ==
  ASSUME FilesAssumption, IInv, DropBackup
  PROVE  IInv'
<1>1. CardInv /\ ServiceInv /\ KindInv /\ UploadInv /\ PatchInv /\ DoneInv
      /\ AnswerTrue /\ VideoSurvives /\ OwnedInv /\ IndexInv /\ CrcExact
  BY DEF IInv
<1>2. /\ faults \in Nat /\ op.name \in Names /\ op.kind \in Kinds
      /\ op.data \in Files /\ before \in Files /\ op \in Requests
      /\ op.at \in Nat
  BY <1>1 DEF ServiceInv, Requests
<1>3. CASE op.name \in DOMAIN file
  <2>1. /\ stage = "drop" /\ op.name \in DOMAIN file
        /\ stage' = "backup"
        /\ had' = TRUE
        /\ bak' = Unlink(bak, op.name)
        /\ op' = op /\ answer' = answer /\ before' = before
        /\ owned' = owned /\ faults' = faults /\ file' = file
        /\ part' = part /\ patchbak' = patchbak /\ index' = index
        /\ indexBak' = indexBak
    BY <1>3, <1>1 DEF DropBackup, Works, KindInv, UploadInv
  <2>2. /\ DOMAIN bak' = DOMAIN bak \ {op.name}
        /\ \A m \in DOMAIN bak : m # op.name => bak'[m] = bak[m]
    BY <2>1 DEF Put, Unlink, Restrict, Nothing
  <2>3. faults' \in Nat  BY <1>2, <2>1
  <2>4. stage' \in Stages /\ before' \in Files /\ had' \in BOOLEAN
        /\ owned' \subseteq Names
    BY <1>1, <1>2, <2>1, DataFacts, OnCardIn, FilesAssumption
      DEF ServiceInv, CardInv, Stages, UploadStages, PatchStages, IndexStages
  <2>5. CardInv'
    BY <1>1, <1>2, <2>1, <2>2, OnCardPut, OnCardUnlink, OnCardNothing,
       OnCardIn, DataFacts
      DEF CardInv
  <2>6. ServiceInv'  BY <1>1, <2>1, <2>3, <2>4 DEF ServiceInv
  <2>7. KindInv'
    BY <1>1, <1>2, <2>1, <2>2
      DEF KindInv, UploadStages, PatchStages, IndexStages
  <2>8. UploadInv'  BY <1>1, <1>2, <2>1, <2>2 DEF UploadInv, Content
  <2>9. PatchInv'  BY <1>1, <1>2, <2>1, <2>2 DEF PatchInv, PatchStages
  <2>10. DoneInv'  BY <1>1, <1>2, <2>1, <2>2 DEF DoneInv, Done, IndexStages
  <2>11. AnswerTrue'  BY <1>1, <1>2, <2>1, <2>2 DEF AnswerTrue, Content
  <2>12. VideoSurvives'
    BY <1>1, <1>2, <2>1, <2>2 DEF VideoSurvives, UploadInv
  <2>13. OwnedInv'  BY <1>1, <1>2, <2>1, <2>2 DEF OwnedInv
  <2>14. IndexInv'
    BY <1>1, <1>2, <2>1, <2>2 DEF IndexInv, Exact, Changing, Content
  <2>15. CrcExact'  BY <1>1, <1>2, <2>1, <2>2 DEF CrcExact, Content
  <2>16. QED
    BY <2>5, <2>6, <2>7, <2>8, <2>9, <2>10, <2>11, <2>12, <2>13, <2>14, <2>15
      DEF IInv
<1>4. CASE op.name \notin DOMAIN file
  <2>0. had' = FALSE
    <3>1. had' = (op.name \in DOMAIN file)  BY DEF DropBackup
    <3>2. (op.name \in DOMAIN file) = FALSE  BY <1>4
    <3>3. QED  BY <3>1, <3>2
  <2>1. /\ stage = "drop" /\ op.name \notin DOMAIN file
        /\ stage' = "rename"
        /\ had' = FALSE
        /\ bak' = Unlink(bak, op.name)
        /\ op' = op /\ answer' = answer /\ before' = before
        /\ owned' = owned /\ faults' = faults /\ file' = file
        /\ part' = part /\ patchbak' = patchbak /\ index' = index
        /\ indexBak' = indexBak
    BY <1>4, <2>0, <1>1 DEF DropBackup, Works, KindInv, UploadInv
  <2>2. /\ DOMAIN bak' = DOMAIN bak \ {op.name}
        /\ \A m \in DOMAIN bak : m # op.name => bak'[m] = bak[m]
    BY <2>1 DEF Put, Unlink, Restrict, Nothing
  <2>3. faults' \in Nat  BY <1>2, <2>1
  <2>4. stage' \in Stages /\ before' \in Files /\ had' \in BOOLEAN
        /\ owned' \subseteq Names
    BY <1>1, <1>2, <2>1, DataFacts, OnCardIn, FilesAssumption
      DEF ServiceInv, CardInv, Stages, UploadStages, PatchStages, IndexStages
  <2>5. CardInv'
    BY <1>1, <1>2, <2>1, <2>2, OnCardPut, OnCardUnlink, OnCardNothing,
       OnCardIn, DataFacts
      DEF CardInv
  <2>6. ServiceInv'  BY <1>1, <2>1, <2>3, <2>4 DEF ServiceInv
  <2>7. KindInv'
    BY <1>1, <1>2, <2>1, <2>2
      DEF KindInv, UploadStages, PatchStages, IndexStages
  <2>8. UploadInv'  BY <1>1, <1>2, <2>1, <2>2 DEF UploadInv, Content
  <2>9. PatchInv'  BY <1>1, <1>2, <2>1, <2>2 DEF PatchInv, PatchStages
  <2>10. DoneInv'  BY <1>1, <1>2, <2>1, <2>2 DEF DoneInv, Done, IndexStages
  <2>11. AnswerTrue'  BY <1>1, <1>2, <2>1, <2>2 DEF AnswerTrue, Content
  <2>12. VideoSurvives'
    BY <1>1, <1>2, <2>1, <2>2 DEF VideoSurvives, UploadInv
  <2>13. OwnedInv'  BY <1>1, <1>2, <2>1, <2>2 DEF OwnedInv
  <2>14. IndexInv'
    BY <1>1, <1>2, <2>1, <2>2 DEF IndexInv, Exact, Changing, Content
  <2>15. CrcExact'  BY <1>1, <1>2, <2>1, <2>2 DEF CrcExact, Content
  <2>16. QED
    BY <2>5, <2>6, <2>7, <2>8, <2>9, <2>10, <2>11, <2>12, <2>13, <2>14, <2>15
      DEF IInv
<1>5. QED  BY <1>3, <1>4 DEF DropBackup, Works

LEMMA MoveTargetStep ==
  ASSUME FilesAssumption, IInv, MoveTarget
  PROVE  IInv'
<1>1. CardInv /\ ServiceInv /\ KindInv /\ UploadInv /\ PatchInv /\ DoneInv
      /\ AnswerTrue /\ VideoSurvives /\ OwnedInv /\ IndexInv /\ CrcExact
  BY DEF IInv
<1>2. /\ faults \in Nat /\ op.name \in Names /\ op.kind \in Kinds
      /\ op.data \in Files /\ before \in Files /\ op \in Requests
      /\ op.at \in Nat
  BY <1>1 DEF ServiceInv, Requests
<1>3. CASE Works /\ Go("rename") /\ bak' = Put(bak, op.name, file[op.name])
            /\ file' = Unlink(file, op.name) /\ part' = part
  <2>1. /\ stage = "backup"
        /\ stage' = "rename"
        /\ file' = Unlink(file, op.name)
        /\ bak' = Put(bak, op.name, file[op.name])
        /\ op' = op /\ had' = had /\ answer' = answer /\ before' = before
        /\ owned' = owned /\ faults' = faults
        /\ part' = part /\ patchbak' = patchbak /\ index' = index
        /\ indexBak' = indexBak
    BY <1>3, <1>1 DEF MoveTarget, Go, Finish, Works, Fault, KindInv, UploadInv
  <2>2. /\ DOMAIN file' = DOMAIN file \ {op.name}
        /\ \A m \in DOMAIN file : m # op.name => file'[m] = file[m]
        /\ DOMAIN bak' = DOMAIN bak \cup {op.name}
        /\ bak'[op.name] = file[op.name]
        /\ \A m \in DOMAIN bak : m # op.name => bak'[m] = bak[m]
    BY <2>1 DEF Put, Unlink, Restrict, Nothing
  <2>3. file[op.name] \in Files
    BY <1>1, <2>1, OnCardIn DEF UploadInv, CardInv
  <2>4. faults' \in Nat  BY <1>2, <2>1
  <2>5. stage' \in Stages /\ before' \in Files /\ had' \in BOOLEAN
        /\ owned' \subseteq Names
    BY <1>1, <1>2, <2>1, DataFacts, OnCardIn, FilesAssumption
      DEF ServiceInv, CardInv, Stages, UploadStages, PatchStages, IndexStages
  <2>6. CardInv'
    BY <1>1, <1>2, <2>1, <2>2, <2>3, OnCardPut, OnCardUnlink, OnCardNothing,
       OnCardIn, DataFacts
      DEF CardInv
  <2>7. ServiceInv'  BY <1>1, <2>1, <2>4, <2>5 DEF ServiceInv
  <2>8. KindInv'
    BY <1>1, <1>2, <2>1, <2>2, <2>3
      DEF KindInv, UploadStages, PatchStages, IndexStages
  <2>9. UploadInv'  BY <1>1, <1>2, <2>1, <2>2, <2>3 DEF UploadInv, Content
  <2>10. PatchInv'  BY <1>1, <1>2, <2>1, <2>2, <2>3 DEF PatchInv, PatchStages
  <2>11. DoneInv'
    BY <1>1, <1>2, <2>1, <2>2, <2>3 DEF DoneInv, Done, IndexStages
  <2>12. AnswerTrue'
    BY <1>1, <1>2, <2>1, <2>2, <2>3
      DEF AnswerTrue, Content, UploadInv, KindInv, UploadStages
  <2>13. VideoSurvives'
    BY <1>1, <1>2, <2>1, <2>2, <2>3 DEF VideoSurvives, UploadInv, OwnedInv
  <2>14. OwnedInv'  BY <1>1, <1>2, <2>1, <2>2, <2>3 DEF OwnedInv, UploadInv
  <2>15. IndexInv'
    BY <1>1, <1>2, <2>1, <2>2, <2>3 DEF IndexInv, Exact, Changing, Content
  <2>16. CrcExact'
    BY <1>1, <1>2, <2>1, <2>2, <2>3 DEF CrcExact, Content, KindInv
  <2>17. QED
    BY <2>6, <2>7, <2>8, <2>9, <2>10, <2>11, <2>12, <2>13, <2>14, <2>15, <2>16
      DEF IInv
<1>4. CASE Fault /\ part' = Unlink(part, op.name) /\ Finish("error", <<>>)
            /\ UNCHANGED <<file, bak>>
  <2>1. /\ stage = "backup"
        /\ stage' = "idle"
        /\ had' = FALSE
        /\ answer' = Reply("error", <<>>)
        /\ faults' = faults + 1
        /\ part' = Unlink(part, op.name)
        /\ op' = op /\ before' = before /\ owned' = owned /\ file' = file
        /\ bak' = bak /\ patchbak' = patchbak
        /\ index' = index /\ indexBak' = indexBak
    BY <1>4, <1>1 DEF MoveTarget, Go, Finish, Works, Fault, KindInv, UploadInv
  <2>2. /\ answer' \in Replies /\ answer'.status = "error"
        /\ answer'.data = <<>>
    BY <1>1, <1>2, <2>1, DataFacts, OnCardIn, FilesAssumption
      DEF Request, Reply, Requests, Replies, Kinds, CardInv, KindInv,
          PatchStages
  <2>3. /\ DOMAIN part' = DOMAIN part \ {op.name}
        /\ \A m \in DOMAIN part : m # op.name => part'[m] = part[m]
    BY <2>1 DEF Put, Unlink, Restrict, Nothing
  <2>4. faults' \in Nat  BY <1>2, <2>1
  <2>5. stage' \in Stages /\ before' \in Files /\ had' \in BOOLEAN
        /\ owned' \subseteq Names
    BY <1>1, <1>2, <2>1, DataFacts, OnCardIn, FilesAssumption
      DEF ServiceInv, CardInv, Stages, UploadStages, PatchStages, IndexStages
  <2>6. CardInv'
    BY <1>1, <1>2, <2>1, <2>2, <2>3, OnCardPut, OnCardUnlink, OnCardNothing,
       OnCardIn, DataFacts
      DEF CardInv
  <2>7. ServiceInv'  BY <1>1, <2>1, <2>4, <2>5, <2>2 DEF ServiceInv
  <2>8. KindInv'
    BY <1>1, <1>2, <2>1, <2>2, <2>3
      DEF KindInv, UploadStages, PatchStages, IndexStages
  <2>9. UploadInv'  BY <1>1, <1>2, <2>1, <2>2, <2>3 DEF UploadInv, Content
  <2>10. PatchInv'  BY <1>1, <1>2, <2>1, <2>2, <2>3 DEF PatchInv, PatchStages
  <2>11. DoneInv'
    BY <1>1, <1>2, <2>1, <2>2, <2>3 DEF DoneInv, Done, IndexStages
  <2>12. AnswerTrue'
    BY <1>1, <1>2, <2>1, <2>2, <2>3
      DEF AnswerTrue, Content, UploadInv, KindInv, UploadStages
  <2>13. VideoSurvives'
    BY <1>1, <1>2, <2>1, <2>2, <2>3 DEF VideoSurvives, UploadInv, OwnedInv
  <2>14. OwnedInv'  BY <1>1, <1>2, <2>1, <2>2, <2>3 DEF OwnedInv
  <2>15. IndexInv'
    BY <1>1, <1>2, <2>1, <2>2, <2>3 DEF IndexInv, Exact, Changing, Content
  <2>16. CrcExact'
    BY <1>1, <1>2, <2>1, <2>2, <2>3 DEF CrcExact, Content, KindInv
  <2>17. QED
    BY <2>6, <2>7, <2>8, <2>9, <2>10, <2>11, <2>12, <2>13, <2>14, <2>15, <2>16
      DEF IInv
<1>5. QED  BY <1>3, <1>4 DEF MoveTarget, Go, Finish, Works, Fault

LEMMA MovePartStep ==
  ASSUME FilesAssumption, IInv, MovePart
  PROVE  IInv'
<1>1. CardInv /\ ServiceInv /\ KindInv /\ UploadInv /\ PatchInv /\ DoneInv
      /\ AnswerTrue /\ VideoSurvives /\ OwnedInv /\ IndexInv /\ CrcExact
  BY DEF IInv
<1>2. /\ faults \in Nat /\ op.name \in Names /\ op.kind \in Kinds
      /\ op.data \in Files /\ before \in Files /\ op \in Requests
      /\ op.at \in Nat
  BY <1>1 DEF ServiceInv, Requests
<1>3. CASE had /\ Works /\ Go("cleanup")
            /\ file' = Put(file, op.name, part[op.name])
            /\ owned' = owned \cup {op.name} /\ bak' = bak
  <2>1. /\ stage = "rename" /\ had
        /\ stage' = "cleanup"
        /\ owned' = owned \cup {op.name}
        /\ file' = Put(file, op.name, part[op.name])
        /\ part' = Unlink(part, op.name)
        /\ op' = op /\ had' = had /\ answer' = answer /\ before' = before
        /\ faults' = faults /\ bak' = bak
        /\ patchbak' = patchbak /\ index' = index /\ indexBak' = indexBak
    BY <1>3, <1>1 DEF MovePart, Go, Finish, Works, Fault, KindInv, UploadInv
  <2>2. /\ DOMAIN file' = DOMAIN file \cup {op.name}
        /\ file'[op.name] = part[op.name]
        /\ \A m \in DOMAIN file : m # op.name => file'[m] = file[m]
        /\ DOMAIN part' = DOMAIN part \ {op.name}
        /\ \A m \in DOMAIN part : m # op.name => part'[m] = part[m]
    BY <2>1 DEF Put, Unlink, Restrict, Nothing
  <2>3. part[op.name] \in Files
    BY <1>1, <2>1, OnCardIn DEF KindInv, CardInv
  <2>4. faults' \in Nat  BY <1>2, <2>1
  <2>5. stage' \in Stages /\ before' \in Files /\ had' \in BOOLEAN
        /\ owned' \subseteq Names
    BY <1>1, <1>2, <2>1, DataFacts, OnCardIn, FilesAssumption
      DEF ServiceInv, CardInv, Stages, UploadStages, PatchStages, IndexStages
  <2>6. CardInv'
    BY <1>1, <1>2, <2>1, <2>2, <2>3, OnCardPut, OnCardUnlink, OnCardNothing,
       OnCardIn, DataFacts
      DEF CardInv
  <2>7. ServiceInv'  BY <1>1, <2>1, <2>4, <2>5 DEF ServiceInv
  <2>8. KindInv'
    BY <1>1, <1>2, <2>1, <2>2, <2>3
      DEF KindInv, UploadStages, PatchStages, IndexStages
  <2>9. UploadInv'  BY <1>1, <1>2, <2>1, <2>2, <2>3 DEF UploadInv, Content
  <2>10. PatchInv'  BY <1>1, <1>2, <2>1, <2>2, <2>3 DEF PatchInv, PatchStages
  <2>11. DoneInv'
    BY <1>1, <1>2, <2>1, <2>2, <2>3
      DEF DoneInv, Done, IndexStages, UploadInv, KindInv, UploadStages
  <2>12. AnswerTrue'
    BY <1>1, <1>2, <2>1, <2>2, <2>3
      DEF AnswerTrue, Content, UploadInv, KindInv, UploadStages
  <2>13. VideoSurvives'
    BY <1>1, <1>2, <2>1, <2>2, <2>3 DEF VideoSurvives, UploadInv, OwnedInv
  <2>14. OwnedInv'  BY <1>1, <1>2, <2>1, <2>2, <2>3 DEF OwnedInv, UploadInv
  <2>15. IndexInv'
    BY <1>1, <1>2, <2>1, <2>2, <2>3
      DEF IndexInv, Exact, Changing, Content, UploadInv
  <2>16. CrcExact'
    BY <1>1, <1>2, <2>1, <2>2, <2>3 DEF CrcExact, Content, KindInv
  <2>17. QED
    BY <2>6, <2>7, <2>8, <2>9, <2>10, <2>11, <2>12, <2>13, <2>14, <2>15, <2>16
      DEF IInv
<1>4. CASE ~had /\ Works /\ Go("index")
            /\ file' = Put(file, op.name, part[op.name])
            /\ owned' = owned \cup {op.name} /\ bak' = bak
  <2>1. /\ stage = "rename" /\ ~had
        /\ stage' = "index"
        /\ owned' = owned \cup {op.name}
        /\ file' = Put(file, op.name, part[op.name])
        /\ part' = Unlink(part, op.name)
        /\ op' = op /\ had' = had /\ answer' = answer /\ before' = before
        /\ faults' = faults /\ bak' = bak
        /\ patchbak' = patchbak /\ index' = index /\ indexBak' = indexBak
    BY <1>4, <1>1 DEF MovePart, Go, Finish, Works, Fault, KindInv, UploadInv
  <2>2. /\ DOMAIN file' = DOMAIN file \cup {op.name}
        /\ file'[op.name] = part[op.name]
        /\ \A m \in DOMAIN file : m # op.name => file'[m] = file[m]
        /\ DOMAIN part' = DOMAIN part \ {op.name}
        /\ \A m \in DOMAIN part : m # op.name => part'[m] = part[m]
    BY <2>1 DEF Put, Unlink, Restrict, Nothing
  <2>3. part[op.name] \in Files
    BY <1>1, <2>1, OnCardIn DEF KindInv, CardInv
  <2>4. faults' \in Nat  BY <1>2, <2>1
  <2>5. stage' \in Stages /\ before' \in Files /\ had' \in BOOLEAN
        /\ owned' \subseteq Names
    BY <1>1, <1>2, <2>1, DataFacts, OnCardIn, FilesAssumption
      DEF ServiceInv, CardInv, Stages, UploadStages, PatchStages, IndexStages
  <2>6. CardInv'
    BY <1>1, <1>2, <2>1, <2>2, <2>3, OnCardPut, OnCardUnlink, OnCardNothing,
       OnCardIn, DataFacts
      DEF CardInv
  <2>7. ServiceInv'  BY <1>1, <2>1, <2>4, <2>5 DEF ServiceInv
  <2>8. KindInv'
    BY <1>1, <1>2, <2>1, <2>2, <2>3
      DEF KindInv, UploadStages, PatchStages, IndexStages
  <2>9. UploadInv'  BY <1>1, <1>2, <2>1, <2>2, <2>3 DEF UploadInv, Content
  <2>10. PatchInv'  BY <1>1, <1>2, <2>1, <2>2, <2>3 DEF PatchInv, PatchStages
  <2>11. DoneInv'
    BY <1>1, <1>2, <2>1, <2>2, <2>3
      DEF DoneInv, Done, IndexStages, UploadInv, KindInv, UploadStages
  <2>12. AnswerTrue'
    BY <1>1, <1>2, <2>1, <2>2, <2>3
      DEF AnswerTrue, Content, UploadInv, KindInv, UploadStages
  <2>13. VideoSurvives'
    BY <1>1, <1>2, <2>1, <2>2, <2>3 DEF VideoSurvives, UploadInv, OwnedInv
  <2>14. OwnedInv'  BY <1>1, <1>2, <2>1, <2>2, <2>3 DEF OwnedInv, UploadInv
  <2>15. IndexInv'
    BY <1>1, <1>2, <2>1, <2>2, <2>3
      DEF IndexInv, Exact, Changing, Content, UploadInv
  <2>16. CrcExact'
    BY <1>1, <1>2, <2>1, <2>2, <2>3 DEF CrcExact, Content, KindInv
  <2>17. QED
    BY <2>6, <2>7, <2>8, <2>9, <2>10, <2>11, <2>12, <2>13, <2>14, <2>15, <2>16
      DEF IInv
<1>5. CASE had /\ Fault /\ Finish("error", <<>>) /\ owned' = owned
            /\ file' = Put(file, op.name, bak[op.name])
            /\ bak' = Unlink(bak, op.name)
  <2>1. /\ stage = "rename" /\ had
        /\ stage' = "idle"
        /\ had' = FALSE
        /\ answer' = Reply("error", <<>>)
        /\ faults' = faults + 1
        /\ file' = Put(file, op.name, bak[op.name])
        /\ part' = Unlink(part, op.name)
        /\ bak' = Unlink(bak, op.name)
        /\ op' = op /\ before' = before /\ owned' = owned
        /\ patchbak' = patchbak /\ index' = index /\ indexBak' = indexBak
    BY <1>5, <1>1 DEF MovePart, Go, Finish, Works, Fault, KindInv, UploadInv
  <2>2. /\ answer' \in Replies /\ answer'.status = "error"
        /\ answer'.data = <<>>
    BY <1>1, <1>2, <2>1, DataFacts, OnCardIn, FilesAssumption
      DEF Request, Reply, Requests, Replies, Kinds, CardInv, KindInv,
          PatchStages
  <2>3. /\ DOMAIN file' = DOMAIN file \cup {op.name}
        /\ file'[op.name] = bak[op.name]
        /\ \A m \in DOMAIN file : m # op.name => file'[m] = file[m]
        /\ DOMAIN part' = DOMAIN part \ {op.name}
        /\ \A m \in DOMAIN part : m # op.name => part'[m] = part[m]
        /\ DOMAIN bak' = DOMAIN bak \ {op.name}
        /\ \A m \in DOMAIN bak : m # op.name => bak'[m] = bak[m]
    BY <2>1 DEF Put, Unlink, Restrict, Nothing
  <2>4. bak[op.name] \in Files
    BY <1>1, <2>1, OnCardIn DEF UploadInv, CardInv
  <2>5. faults' \in Nat  BY <1>2, <2>1
  <2>6. stage' \in Stages /\ before' \in Files /\ had' \in BOOLEAN
        /\ owned' \subseteq Names
    BY <1>1, <1>2, <2>1, DataFacts, OnCardIn, FilesAssumption
      DEF ServiceInv, CardInv, Stages, UploadStages, PatchStages, IndexStages
  <2>7. CardInv'
    BY <1>1, <1>2, <2>1, <2>2, <2>3, <2>4, OnCardPut, OnCardUnlink,
       OnCardNothing, OnCardIn, DataFacts
      DEF CardInv
  <2>8. ServiceInv'  BY <1>1, <2>1, <2>5, <2>6, <2>2 DEF ServiceInv
  <2>9. KindInv'
    BY <1>1, <1>2, <2>1, <2>2, <2>3, <2>4
      DEF KindInv, UploadStages, PatchStages, IndexStages
  <2>10. UploadInv'
    BY <1>1, <1>2, <2>1, <2>2, <2>3, <2>4 DEF UploadInv, Content
  <2>11. PatchInv'
    BY <1>1, <1>2, <2>1, <2>2, <2>3, <2>4 DEF PatchInv, PatchStages
  <2>12. DoneInv'
    BY <1>1, <1>2, <2>1, <2>2, <2>3, <2>4
      DEF DoneInv, Done, IndexStages, UploadInv, KindInv, UploadStages
  <2>13. AnswerTrue'
    BY <1>1, <1>2, <2>1, <2>2, <2>3, <2>4
      DEF AnswerTrue, Content, UploadInv, KindInv, UploadStages
  <2>14. VideoSurvives'
    BY <1>1, <1>2, <2>1, <2>2, <2>3, <2>4
      DEF VideoSurvives, UploadInv, OwnedInv
  <2>15. OwnedInv'
    BY <1>1, <1>2, <2>1, <2>2, <2>3, <2>4 DEF OwnedInv, UploadInv
  <2>16. IndexInv'
    BY <1>1, <1>2, <2>1, <2>2, <2>3, <2>4
      DEF IndexInv, Exact, Changing, Content, UploadInv
  <2>17. CrcExact'
    BY <1>1, <1>2, <2>1, <2>2, <2>3, <2>4 DEF CrcExact, Content
  <2>18. QED
    BY <2>7, <2>8, <2>9, <2>10, <2>11, <2>12, <2>13, <2>14, <2>15, <2>16,
       <2>17
      DEF IInv
<1>6. CASE ~had /\ Fault /\ Finish("error", <<>>)
            /\ UNCHANGED <<file, bak, owned>>
  <2>1. /\ stage = "rename" /\ ~had
        /\ stage' = "idle"
        /\ had' = FALSE
        /\ answer' = Reply("error", <<>>)
        /\ faults' = faults + 1
        /\ part' = Unlink(part, op.name)
        /\ op' = op /\ before' = before /\ owned' = owned /\ file' = file
        /\ bak' = bak /\ patchbak' = patchbak
        /\ index' = index /\ indexBak' = indexBak
    BY <1>6, <1>1 DEF MovePart, Go, Finish, Works, Fault, KindInv, UploadInv
  <2>2. /\ answer' \in Replies /\ answer'.status = "error"
        /\ answer'.data = <<>>
    BY <1>1, <1>2, <2>1, DataFacts, OnCardIn, FilesAssumption
      DEF Request, Reply, Requests, Replies, Kinds, CardInv, KindInv,
          PatchStages
  <2>3. /\ DOMAIN part' = DOMAIN part \ {op.name}
        /\ \A m \in DOMAIN part : m # op.name => part'[m] = part[m]
    BY <2>1 DEF Put, Unlink, Restrict, Nothing
  <2>4. faults' \in Nat  BY <1>2, <2>1
  <2>5. stage' \in Stages /\ before' \in Files /\ had' \in BOOLEAN
        /\ owned' \subseteq Names
    BY <1>1, <1>2, <2>1, DataFacts, OnCardIn, FilesAssumption
      DEF ServiceInv, CardInv, Stages, UploadStages, PatchStages, IndexStages
  <2>6. CardInv'
    BY <1>1, <1>2, <2>1, <2>2, <2>3, OnCardPut, OnCardUnlink, OnCardNothing,
       OnCardIn, DataFacts
      DEF CardInv
  <2>7. ServiceInv'  BY <1>1, <2>1, <2>4, <2>5, <2>2 DEF ServiceInv
  <2>8. KindInv'
    BY <1>1, <1>2, <2>1, <2>2, <2>3
      DEF KindInv, UploadStages, PatchStages, IndexStages
  <2>9. UploadInv'  BY <1>1, <1>2, <2>1, <2>2, <2>3 DEF UploadInv, Content
  <2>10. PatchInv'  BY <1>1, <1>2, <2>1, <2>2, <2>3 DEF PatchInv, PatchStages
  <2>11. DoneInv'
    BY <1>1, <1>2, <2>1, <2>2, <2>3
      DEF DoneInv, Done, IndexStages, UploadInv, KindInv, UploadStages
  <2>12. AnswerTrue'
    BY <1>1, <1>2, <2>1, <2>2, <2>3
      DEF AnswerTrue, Content, UploadInv, KindInv, UploadStages
  <2>13. VideoSurvives'
    BY <1>1, <1>2, <2>1, <2>2, <2>3 DEF VideoSurvives, UploadInv, OwnedInv
  <2>14. OwnedInv'  BY <1>1, <1>2, <2>1, <2>2, <2>3 DEF OwnedInv, UploadInv
  <2>15. IndexInv'
    BY <1>1, <1>2, <2>1, <2>2, <2>3
      DEF IndexInv, Exact, Changing, Content, UploadInv
  <2>16. CrcExact'  BY <1>1, <1>2, <2>1, <2>2, <2>3 DEF CrcExact, Content
  <2>17. QED
    BY <2>6, <2>7, <2>8, <2>9, <2>10, <2>11, <2>12, <2>13, <2>14, <2>15, <2>16
      DEF IInv
<1>7. CASE had /\ faults' = faults + 2 /\ Finish("error", <<>>)
            /\ UNCHANGED <<file, bak, before, owned>>
  <2>1. /\ stage = "rename"
        /\ stage' = "idle"
        /\ had' = FALSE
        /\ answer' = Reply("error", <<>>)
        /\ faults' = faults + 2
        /\ part' = Unlink(part, op.name)
        /\ op' = op /\ before' = before /\ owned' = owned /\ file' = file
        /\ bak' = bak /\ patchbak' = patchbak
        /\ index' = index /\ indexBak' = indexBak
    BY <1>7, <1>1 DEF MovePart, Go, Finish, Works, Fault, KindInv, UploadInv
  <2>2. /\ answer' \in Replies /\ answer'.status = "error"
        /\ answer'.data = <<>>
    BY <1>1, <1>2, <2>1, DataFacts, OnCardIn, FilesAssumption
      DEF Request, Reply, Requests, Replies, Kinds, CardInv, KindInv,
          PatchStages
  <2>3. /\ DOMAIN part' = DOMAIN part \ {op.name}
        /\ \A m \in DOMAIN part : m # op.name => part'[m] = part[m]
    BY <2>1 DEF Put, Unlink, Restrict, Nothing
  <2>4. faults' \in Nat  BY <1>2, <2>1
  <2>5. stage' \in Stages /\ before' \in Files /\ had' \in BOOLEAN
        /\ owned' \subseteq Names
    BY <1>1, <1>2, <2>1, DataFacts, OnCardIn, FilesAssumption
      DEF ServiceInv, CardInv, Stages, UploadStages, PatchStages, IndexStages
  <2>6. CardInv'
    BY <1>1, <1>2, <2>1, <2>2, <2>3, OnCardPut, OnCardUnlink, OnCardNothing,
       OnCardIn, DataFacts
      DEF CardInv
  <2>7. ServiceInv'  BY <1>1, <2>1, <2>4, <2>5, <2>2 DEF ServiceInv
  <2>8. KindInv'
    BY <1>1, <1>2, <2>1, <2>2, <2>3
      DEF KindInv, UploadStages, PatchStages, IndexStages
  <2>9. UploadInv'  BY <1>1, <1>2, <2>1, <2>2, <2>3 DEF UploadInv, Content
  <2>10. PatchInv'  BY <1>1, <1>2, <2>1, <2>2, <2>3 DEF PatchInv, PatchStages
  <2>11. DoneInv'
    BY <1>1, <1>2, <2>1, <2>2, <2>3
      DEF DoneInv, Done, IndexStages, UploadInv, KindInv, UploadStages
  <2>12. AnswerTrue'
    BY <1>1, <1>2, <2>1, <2>2, <2>3
      DEF AnswerTrue, Content, UploadInv, KindInv, UploadStages
  <2>13. VideoSurvives'
    BY <1>1, <1>2, <2>1, <2>2, <2>3 DEF VideoSurvives, UploadInv, OwnedInv
  <2>14. OwnedInv'  BY <1>1, <1>2, <2>1, <2>2, <2>3 DEF OwnedInv, UploadInv
  <2>15. IndexInv'
    BY <1>1, <1>2, <2>1, <2>2, <2>3
      DEF IndexInv, Exact, Changing, Content, UploadInv
  <2>16. CrcExact'  BY <1>1, <1>2, <2>1, <2>2, <2>3 DEF CrcExact, Content
  <2>17. QED
    BY <2>6, <2>7, <2>8, <2>9, <2>10, <2>11, <2>12, <2>13, <2>14, <2>15, <2>16
      DEF IInv
<1>8. QED
  BY <1>3, <1>4, <1>5, <1>6, <1>7 DEF MovePart, Go, Finish, Works, Fault

LEMMA DropReplacedStep ==
  ASSUME FilesAssumption, IInv, DropReplaced
  PROVE  IInv'
<1>1. CardInv /\ ServiceInv /\ KindInv /\ UploadInv /\ PatchInv /\ DoneInv
      /\ AnswerTrue /\ VideoSurvives /\ OwnedInv /\ IndexInv /\ CrcExact
  BY DEF IInv
<1>2. /\ faults \in Nat /\ op.name \in Names /\ op.kind \in Kinds
      /\ op.data \in Files /\ before \in Files /\ op \in Requests
      /\ op.at \in Nat
  BY <1>1 DEF ServiceInv, Requests
<1>3. CASE Works /\ bak' = Unlink(bak, op.name)
  <2>1. /\ stage = "cleanup"
        /\ stage' = "index"
        /\ bak' = Unlink(bak, op.name)
        /\ op' = op /\ had' = had /\ answer' = answer /\ before' = before
        /\ owned' = owned /\ faults' = faults
        /\ file' = file /\ part' = part /\ patchbak' = patchbak
        /\ index' = index /\ indexBak' = indexBak
    BY <1>3, <1>1 DEF DropReplaced, Go, Works, Fault, KindInv, UploadInv
  <2>2. /\ DOMAIN bak' = DOMAIN bak \ {op.name}
        /\ \A m \in DOMAIN bak : m # op.name => bak'[m] = bak[m]
    BY <2>1 DEF Put, Unlink, Restrict, Nothing
  <2>3. faults' \in Nat  BY <1>2, <2>1
  <2>4. stage' \in Stages /\ before' \in Files /\ had' \in BOOLEAN
        /\ owned' \subseteq Names
    BY <1>1, <1>2, <2>1, DataFacts, OnCardIn, FilesAssumption
      DEF ServiceInv, CardInv, Stages, UploadStages, PatchStages, IndexStages
  <2>5. CardInv'
    BY <1>1, <1>2, <2>1, <2>2, OnCardPut, OnCardUnlink, OnCardNothing,
       OnCardIn, DataFacts
      DEF CardInv
  <2>6. ServiceInv'  BY <1>1, <2>1, <2>3, <2>4 DEF ServiceInv
  <2>7. KindInv'
    BY <1>1, <1>2, <2>1, <2>2
      DEF KindInv, UploadStages, PatchStages, IndexStages
  <2>8. UploadInv'  BY <1>1, <1>2, <2>1, <2>2 DEF UploadInv, Content
  <2>9. PatchInv'  BY <1>1, <1>2, <2>1, <2>2 DEF PatchInv, PatchStages
  <2>10. DoneInv'
    BY <1>1, <1>2, <2>1, <2>2
      DEF DoneInv, Done, IndexStages, UploadInv, KindInv, UploadStages
  <2>11. AnswerTrue'  BY <1>1, <1>2, <2>1, <2>2 DEF AnswerTrue, Content
  <2>12. VideoSurvives'
    BY <1>1, <1>2, <2>1, <2>2 DEF VideoSurvives, UploadInv
  <2>13. OwnedInv'  BY <1>1, <1>2, <2>1, <2>2 DEF OwnedInv
  <2>14. IndexInv'
    BY <1>1, <1>2, <2>1, <2>2 DEF IndexInv, Exact, Changing, Content
  <2>15. CrcExact'  BY <1>1, <1>2, <2>1, <2>2 DEF CrcExact, Content
  <2>16. QED
    BY <2>5, <2>6, <2>7, <2>8, <2>9, <2>10, <2>11, <2>12, <2>13, <2>14, <2>15
      DEF IInv
<1>4. CASE Fault /\ bak' = bak
  <2>1. /\ stage = "cleanup"
        /\ stage' = "index"
        /\ faults' = faults + 1
        /\ op' = op /\ had' = had /\ answer' = answer /\ before' = before
        /\ owned' = owned /\ file' = file
        /\ part' = part /\ bak' = bak /\ patchbak' = patchbak
        /\ index' = index /\ indexBak' = indexBak
    BY <1>4, <1>1 DEF DropReplaced, Go, Works, Fault, KindInv, UploadInv
  <2>2. faults' \in Nat  BY <1>2, <2>1
  <2>3. stage' \in Stages /\ before' \in Files /\ had' \in BOOLEAN
        /\ owned' \subseteq Names
    BY <1>1, <1>2, <2>1, DataFacts, OnCardIn, FilesAssumption
      DEF ServiceInv, CardInv, Stages, UploadStages, PatchStages, IndexStages
  <2>4. CardInv'
    BY <1>1, <1>2, <2>1, OnCardPut, OnCardUnlink, OnCardNothing, OnCardIn,
       DataFacts
      DEF CardInv
  <2>5. ServiceInv'  BY <1>1, <2>1, <2>2, <2>3 DEF ServiceInv
  <2>6. KindInv'
    BY <1>1, <1>2, <2>1 DEF KindInv, UploadStages, PatchStages, IndexStages
  <2>7. UploadInv'  BY <1>1, <1>2, <2>1 DEF UploadInv, Content
  <2>8. PatchInv'  BY <1>1, <1>2, <2>1 DEF PatchInv, PatchStages
  <2>9. DoneInv'
    BY <1>1, <1>2, <2>1
      DEF DoneInv, Done, IndexStages, UploadInv, KindInv, UploadStages
  <2>10. AnswerTrue'  BY <1>1, <1>2, <2>1 DEF AnswerTrue, Content
  <2>11. VideoSurvives'  BY <1>1, <1>2, <2>1 DEF VideoSurvives
  <2>12. OwnedInv'  BY <1>1, <1>2, <2>1 DEF OwnedInv
  <2>13. IndexInv'  BY <1>1, <1>2, <2>1 DEF IndexInv, Exact, Changing, Content
  <2>14. CrcExact'  BY <1>1, <1>2, <2>1 DEF CrcExact, Content
  <2>15. QED
    BY <2>4, <2>5, <2>6, <2>7, <2>8, <2>9, <2>10, <2>11, <2>12, <2>13, <2>14
      DEF IInv
<1>5. QED  BY <1>3, <1>4 DEF DropReplaced, Go, Works, Fault

LEMMA ReceivePatchStep ==
  ASSUME FilesAssumption, IInv, ReceivePatch
  PROVE  IInv'
<1>1. CardInv /\ ServiceInv /\ KindInv /\ UploadInv /\ PatchInv /\ DoneInv
      /\ AnswerTrue /\ VideoSurvives /\ OwnedInv /\ IndexInv /\ CrcExact
  BY DEF IInv
<1>2. /\ faults \in Nat /\ op.name \in Names /\ op.kind \in Kinds
      /\ op.data \in Files /\ before \in Files /\ op \in Requests
      /\ op.at \in Nat
  BY <1>1 DEF ServiceInv, Requests
<1>3. CASE Go("save")
  <2>1. /\ stage = "patch"
        /\ stage' = "save"
        /\ op' = op /\ had' = had /\ answer' = answer /\ before' = before
        /\ owned' = owned /\ faults' = faults
        /\ file' = file /\ part' = part /\ bak' = bak
        /\ patchbak' = patchbak /\ index' = index /\ indexBak' = indexBak
    BY <1>3, <1>1
      DEF ReceivePatch, Go, Finish, Works, cardVars, KindInv, UploadInv
  <2>2. faults' \in Nat  BY <1>2, <2>1
  <2>3. stage' \in Stages /\ before' \in Files /\ had' \in BOOLEAN
        /\ owned' \subseteq Names
    BY <1>1, <1>2, <2>1, DataFacts, OnCardIn, FilesAssumption
      DEF ServiceInv, CardInv, Stages, UploadStages, PatchStages, IndexStages
  <2>4. CardInv'
    BY <1>1, <1>2, <2>1, OnCardPut, OnCardUnlink, OnCardNothing, OnCardIn,
       DataFacts
      DEF CardInv
  <2>5. ServiceInv'  BY <1>1, <2>1, <2>2, <2>3 DEF ServiceInv
  <2>6. KindInv'
    BY <1>1, <1>2, <2>1 DEF KindInv, UploadStages, PatchStages, IndexStages
  <2>7. UploadInv'  BY <1>1, <1>2, <2>1 DEF UploadInv, Content
  <2>8. PatchInv'  BY <1>1, <1>2, <2>1 DEF PatchInv, PatchStages
  <2>9. DoneInv'  BY <1>1, <1>2, <2>1 DEF DoneInv, Done, IndexStages
  <2>10. AnswerTrue'  BY <1>1, <1>2, <2>1 DEF AnswerTrue, Content
  <2>11. VideoSurvives'  BY <1>1, <1>2, <2>1 DEF VideoSurvives
  <2>12. OwnedInv'  BY <1>1, <1>2, <2>1 DEF OwnedInv
  <2>13. IndexInv'  BY <1>1, <1>2, <2>1 DEF IndexInv, Exact, Changing, Content
  <2>14. CrcExact'  BY <1>1, <1>2, <2>1 DEF CrcExact, Content
  <2>15. QED
    BY <2>4, <2>5, <2>6, <2>7, <2>8, <2>9, <2>10, <2>11, <2>12, <2>13, <2>14
      DEF IInv
<1>4. CASE Finish("error", <<>>)
  <2>1. /\ stage = "patch"
        /\ stage' = "idle"
        /\ had' = FALSE
        /\ answer' = Reply("error", <<>>)
        /\ op' = op /\ before' = before /\ owned' = owned
        /\ faults' = faults /\ file' = file /\ part' = part
        /\ bak' = bak /\ patchbak' = patchbak /\ index' = index
        /\ indexBak' = indexBak
    BY <1>4, <1>1
      DEF ReceivePatch, Go, Finish, Works, cardVars, KindInv, UploadInv
  <2>2. /\ answer' \in Replies /\ answer'.status = "error"
        /\ answer'.data = <<>>
    BY <1>1, <1>2, <2>1, DataFacts, OnCardIn, FilesAssumption
      DEF Request, Reply, Requests, Replies, Kinds, CardInv, KindInv,
          PatchStages
  <2>3. faults' \in Nat  BY <1>2, <2>1
  <2>4. stage' \in Stages /\ before' \in Files /\ had' \in BOOLEAN
        /\ owned' \subseteq Names
    BY <1>1, <1>2, <2>1, DataFacts, OnCardIn, FilesAssumption
      DEF ServiceInv, CardInv, Stages, UploadStages, PatchStages, IndexStages
  <2>5. CardInv'
    BY <1>1, <1>2, <2>1, <2>2, OnCardPut, OnCardUnlink, OnCardNothing,
       OnCardIn, DataFacts
      DEF CardInv
  <2>6. ServiceInv'  BY <1>1, <2>1, <2>3, <2>4, <2>2 DEF ServiceInv
  <2>7. KindInv'
    BY <1>1, <1>2, <2>1, <2>2
      DEF KindInv, UploadStages, PatchStages, IndexStages
  <2>8. UploadInv'  BY <1>1, <1>2, <2>1, <2>2 DEF UploadInv, Content
  <2>9. PatchInv'  BY <1>1, <1>2, <2>1, <2>2 DEF PatchInv, PatchStages
  <2>10. DoneInv'  BY <1>1, <1>2, <2>1, <2>2 DEF DoneInv, Done, IndexStages
  <2>11. AnswerTrue'
    BY <1>1, <1>2, <2>1, <2>2
      DEF AnswerTrue, Content, PatchInv, PatchStages, KindInv
  <2>12. VideoSurvives'  BY <1>1, <1>2, <2>1, <2>2 DEF VideoSurvives
  <2>13. OwnedInv'  BY <1>1, <1>2, <2>1, <2>2 DEF OwnedInv
  <2>14. IndexInv'
    BY <1>1, <1>2, <2>1, <2>2 DEF IndexInv, Exact, Changing, Content
  <2>15. CrcExact'  BY <1>1, <1>2, <2>1, <2>2 DEF CrcExact, Content
  <2>16. QED
    BY <2>5, <2>6, <2>7, <2>8, <2>9, <2>10, <2>11, <2>12, <2>13, <2>14, <2>15
      DEF IInv
<1>5. QED  BY <1>3, <1>4 DEF ReceivePatch, Go, Finish, Works, cardVars

LEMMA SaveRangeStep ==
  ASSUME FilesAssumption, IInv, SaveRange
  PROVE  IInv'
<1>1. CardInv /\ ServiceInv /\ KindInv /\ UploadInv /\ PatchInv /\ DoneInv
      /\ AnswerTrue /\ VideoSurvives /\ OwnedInv /\ IndexInv /\ CrcExact
  BY DEF IInv
<1>2. /\ faults \in Nat /\ op.name \in Names /\ op.kind \in Kinds
      /\ op.data \in Files /\ before \in Files /\ op \in Requests
      /\ op.at \in Nat
  BY <1>1 DEF ServiceInv, Requests
<1>3. CASE Works /\ Go("apply") /\ patchbak' = Put(patchbak, op.name,
              [at |-> op.at, block |-> file[op.name][op.at]])
  <2>1. /\ stage = "save"
        /\ stage' = "apply"
        /\ patchbak' = Put(patchbak, op.name,
                            [at |-> op.at, block |-> file[op.name][op.at]])
        /\ op' = op /\ had' = had /\ answer' = answer /\ before' = before
        /\ owned' = owned /\ faults' = faults
        /\ file' = file /\ part' = part /\ bak' = bak /\ index' = index
        /\ indexBak' = indexBak
    BY <1>3, <1>1 DEF SaveRange, Go, Finish, Works, Fault, KindInv, UploadInv
  <2>2. /\ DOMAIN patchbak' = DOMAIN patchbak \cup {op.name}
        /\ patchbak'[op.name] = [at |-> op.at, block |-> file[op.name][op.at]]
        /\ \A m \in DOMAIN patchbak : m # op.name => patchbak'[m] = patchbak[m]
    BY <2>1 DEF Put, Unlink, Restrict, Nothing
  <2>3. /\ op.name \in DOMAIN file /\ file[op.name] \in Files
        /\ op.at \in 1..Len(before) /\ before[op.at] \in Block_
        /\ op.data[1] \in Block_ /\ file[op.name][op.at] \in Block_
        /\ [before EXCEPT ![op.at] = before[op.at]] = before
    BY <1>1, <2>1, PatchFacts, DataFacts DEF PatchStages
  <2>4. [at |-> op.at, block |-> file[op.name][op.at]] \in Saved
    BY <1>1, <1>2, <2>1, <2>2, <2>3 DEF Saved
  <2>5. faults' \in Nat  BY <1>2, <2>1
  <2>6. stage' \in Stages /\ before' \in Files /\ had' \in BOOLEAN
        /\ owned' \subseteq Names
    BY <1>1, <1>2, <2>1, DataFacts, OnCardIn, FilesAssumption
      DEF ServiceInv, CardInv, Stages, UploadStages, PatchStages, IndexStages
  <2>7. CardInv'
    BY <1>1, <1>2, <2>1, <2>2, <2>3, <2>4, OnCardPut, OnCardUnlink,
       OnCardNothing, OnCardIn, DataFacts
      DEF CardInv
  <2>8. ServiceInv'  BY <1>1, <2>1, <2>5, <2>6 DEF ServiceInv
  <2>9. KindInv'
    BY <1>1, <1>2, <2>1, <2>2, <2>3, <2>4
      DEF KindInv, UploadStages, PatchStages, IndexStages
  <2>10. UploadInv'
    BY <1>1, <1>2, <2>1, <2>2, <2>3, <2>4 DEF UploadInv, Content
  <2>11. PatchInv'
    BY <1>1, <1>2, <2>1, <2>2, <2>3, <2>4 DEF PatchInv, PatchStages
  <2>12. DoneInv'
    BY <1>1, <1>2, <2>1, <2>2, <2>3, <2>4 DEF DoneInv, Done, IndexStages
  <2>13. AnswerTrue'
    BY <1>1, <1>2, <2>1, <2>2, <2>3, <2>4 DEF AnswerTrue, Content, KindInv
  <2>14. VideoSurvives'
    BY <1>1, <1>2, <2>1, <2>2, <2>3, <2>4 DEF VideoSurvives
  <2>15. OwnedInv'  BY <1>1, <1>2, <2>1, <2>2, <2>3, <2>4 DEF OwnedInv
  <2>16. IndexInv'
    BY <1>1, <1>2, <2>1, <2>2, <2>3, <2>4
      DEF IndexInv, Exact, Changing, Content, PatchInv, PatchStages
  <2>17. CrcExact'
    BY <1>1, <1>2, <2>1, <2>2, <2>3, <2>4 DEF CrcExact, Content, KindInv
  <2>18. QED
    BY <2>7, <2>8, <2>9, <2>10, <2>11, <2>12, <2>13, <2>14, <2>15, <2>16,
       <2>17
      DEF IInv
<1>4. CASE Fault /\ Finish("error", <<>>)
                 /\ patchbak' = Put(patchbak, op.name,
              [at |-> op.at, block |-> Torn])
  <2>1. /\ stage = "save"
        /\ stage' = "idle"
        /\ had' = FALSE
        /\ answer' = Reply("error", <<>>)
        /\ faults' = faults + 1
        /\ patchbak' = Put(patchbak, op.name, [at |-> op.at, block |-> Torn])
        /\ op' = op /\ before' = before /\ owned' = owned /\ file' = file
        /\ part' = part /\ bak' = bak
        /\ index' = index /\ indexBak' = indexBak
    BY <1>4, <1>1 DEF SaveRange, Go, Finish, Works, Fault, KindInv, UploadInv
  <2>2. /\ answer' \in Replies /\ answer'.status = "error"
        /\ answer'.data = <<>>
    BY <1>1, <1>2, <2>1, DataFacts, OnCardIn, FilesAssumption
      DEF Request, Reply, Requests, Replies, Kinds, CardInv, KindInv,
          PatchStages
  <2>3. /\ DOMAIN patchbak' = DOMAIN patchbak \cup {op.name}
        /\ patchbak'[op.name] = [at |-> op.at, block |-> Torn]
        /\ \A m \in DOMAIN patchbak : m # op.name => patchbak'[m] = patchbak[m]
    BY <2>1 DEF Put, Unlink, Restrict, Nothing
  <2>4. /\ op.name \in DOMAIN file /\ file[op.name] \in Files
        /\ op.at \in 1..Len(before) /\ before[op.at] \in Block_
        /\ op.data[1] \in Block_ /\ file[op.name][op.at] \in Block_
        /\ [before EXCEPT ![op.at] = before[op.at]] = before
    BY <1>1, <2>1, PatchFacts, DataFacts DEF PatchStages
  <2>5. [at |-> op.at, block |-> Torn] \in Saved
    BY <1>1, <1>2, <2>1, <2>2, <2>3, <2>4, DataFacts DEF Saved
  <2>6. faults' \in Nat  BY <1>2, <2>1
  <2>7. stage' \in Stages /\ before' \in Files /\ had' \in BOOLEAN
        /\ owned' \subseteq Names
    BY <1>1, <1>2, <2>1, DataFacts, OnCardIn, FilesAssumption
      DEF ServiceInv, CardInv, Stages, UploadStages, PatchStages, IndexStages
  <2>8. CardInv'
    BY <1>1, <1>2, <2>1, <2>2, <2>3, <2>4, <2>5, OnCardPut, OnCardUnlink,
       OnCardNothing, OnCardIn, DataFacts
      DEF CardInv
  <2>9. ServiceInv'  BY <1>1, <2>1, <2>6, <2>7, <2>2 DEF ServiceInv
  <2>10. KindInv'
    BY <1>1, <1>2, <2>1, <2>2, <2>3, <2>4, <2>5
      DEF KindInv, UploadStages, PatchStages, IndexStages
  <2>11. UploadInv'
    BY <1>1, <1>2, <2>1, <2>2, <2>3, <2>4, <2>5 DEF UploadInv, Content
  <2>12. PatchInv'
    BY <1>1, <1>2, <2>1, <2>2, <2>3, <2>4, <2>5 DEF PatchInv, PatchStages
  <2>13. DoneInv'
    BY <1>1, <1>2, <2>1, <2>2, <2>3, <2>4, <2>5 DEF DoneInv, Done, IndexStages
  <2>14. AnswerTrue'
    BY <1>1, <1>2, <2>1, <2>2, <2>3, <2>4, <2>5
      DEF AnswerTrue, Content, PatchInv, PatchStages, KindInv
  <2>15. VideoSurvives'
    BY <1>1, <1>2, <2>1, <2>2, <2>3, <2>4, <2>5 DEF VideoSurvives
  <2>16. OwnedInv'  BY <1>1, <1>2, <2>1, <2>2, <2>3, <2>4, <2>5 DEF OwnedInv
  <2>17. IndexInv'
    BY <1>1, <1>2, <2>1, <2>2, <2>3, <2>4, <2>5
      DEF IndexInv, Exact, Changing, Content, PatchInv, PatchStages
  <2>18. CrcExact'
    BY <1>1, <1>2, <2>1, <2>2, <2>3, <2>4, <2>5 DEF CrcExact, Content, KindInv
  <2>19. QED
    BY <2>8, <2>9, <2>10, <2>11, <2>12, <2>13, <2>14, <2>15, <2>16, <2>17,
       <2>18
      DEF IInv
<1>5. QED  BY <1>3, <1>4 DEF SaveRange, Go, Finish, Works, Fault

LEMMA ApplyRangeStep ==
  ASSUME FilesAssumption, IInv, ApplyRange
  PROVE  IInv'
<1>1. CardInv /\ ServiceInv /\ KindInv /\ UploadInv /\ PatchInv /\ DoneInv
      /\ AnswerTrue /\ VideoSurvives /\ OwnedInv /\ IndexInv /\ CrcExact
  BY DEF IInv
<1>2. /\ faults \in Nat /\ op.name \in Names /\ op.kind \in Kinds
      /\ op.data \in Files /\ before \in Files /\ op \in Requests
      /\ op.at \in Nat
  BY <1>1 DEF ServiceInv, Requests
<1>3. CASE Works /\ file' = SetBlock(op.name, Torn) /\ Go("write")
  <2>1. /\ stage = "apply"
        /\ stage' = "write"
        /\ file' = Put(file, op.name,
                        [file[op.name] EXCEPT ![op.at] = Torn])
        /\ op' = op /\ had' = had /\ answer' = answer /\ before' = before
        /\ owned' = owned /\ faults' = faults
        /\ part' = part /\ bak' = bak /\ patchbak' = patchbak
        /\ index' = index /\ indexBak' = indexBak
    BY <1>3, <1>1
      DEF ApplyRange, Go, Works, Fault, SetBlock, KindInv, UploadInv
  <2>2. /\ DOMAIN file' = DOMAIN file \cup {op.name} /\ file'[op.name] =
             [file[op.name] EXCEPT ![op.at] = Torn]
        /\ \A m \in DOMAIN file : m # op.name => file'[m] = file[m]
    BY <2>1 DEF Put, Unlink, Restrict, Nothing
  <2>3. /\ op.name \in DOMAIN file /\ file[op.name] \in Files
        /\ op.at \in 1..Len(before) /\ before[op.at] \in Block_
        /\ op.data[1] \in Block_ /\ file[op.name][op.at] \in Block_
        /\ [before EXCEPT ![op.at] = before[op.at]] = before
        /\ [file[op.name] EXCEPT ![op.at] = Torn] \in Files
        /\ [file[op.name] EXCEPT ![op.at] = Torn]
             = [before EXCEPT ![op.at] = Torn]
        /\ [before EXCEPT ![op.at] = Torn][op.at] = Torn
    BY <1>1, <2>1, PatchFacts, DataFacts DEF PatchStages
  <2>4. /\ file'[op.name] = [before EXCEPT ![op.at] = Torn]
        /\ file'[op.name][op.at] = Torn
        /\ patchbak[op.name] = [at |-> op.at, block |-> before[op.at]]
        /\ op.name \in DOMAIN file'
    BY <1>1, <1>2, <2>1, <2>2, <2>3 DEF PatchInv, PatchStages
  <2>5. faults' \in Nat  BY <1>2, <2>1
  <2>6. stage' \in Stages /\ before' \in Files /\ had' \in BOOLEAN
        /\ owned' \subseteq Names
    BY <1>1, <1>2, <2>1, DataFacts, OnCardIn, FilesAssumption
      DEF ServiceInv, CardInv, Stages, UploadStages, PatchStages, IndexStages
  <2>7. CardInv'
    BY <1>1, <1>2, <2>1, <2>2, <2>3, <2>4, OnCardPut, OnCardUnlink,
       OnCardNothing, OnCardIn, DataFacts
      DEF CardInv
  <2>8. ServiceInv'  BY <1>1, <2>1, <2>5, <2>6 DEF ServiceInv
  <2>9. KindInv'
    BY <1>1, <1>2, <2>1, <2>2, <2>3, <2>4
      DEF KindInv, UploadStages, PatchStages, IndexStages
  <2>10. UploadInv'
    BY <1>1, <1>2, <2>1, <2>2, <2>3, <2>4 DEF UploadInv, Content
  <2>11. PatchInv'  BY <2>1, <2>1, <2>2, <2>3, <2>4 DEF PatchInv, PatchStages
  <2>12. DoneInv'
    BY <1>1, <1>2, <2>1, <2>2, <2>3, <2>4 DEF DoneInv, Done, IndexStages
  <2>13. AnswerTrue'
    BY <1>1, <1>2, <2>1, <2>2, <2>3, <2>4 DEF AnswerTrue, Content, KindInv
  <2>14. VideoSurvives'
    BY <1>1, <1>2, <2>1, <2>2, <2>3, <2>4 DEF VideoSurvives
  <2>15. OwnedInv'  BY <1>1, <1>2, <2>1, <2>2, <2>3, <2>4 DEF OwnedInv
  <2>16. IndexInv'
    BY <1>1, <1>2, <2>1, <2>2, <2>3, <2>4
      DEF IndexInv, Exact, Changing, Content, PatchInv, PatchStages
  <2>17. CrcExact'
    BY <1>1, <1>2, <2>1, <2>2, <2>3, <2>4 DEF CrcExact, Content, KindInv
  <2>18. QED
    BY <2>7, <2>8, <2>9, <2>10, <2>11, <2>12, <2>13, <2>14, <2>15, <2>16,
       <2>17
      DEF IInv
<1>4. CASE Fault /\ Go("restore") /\ file' = file
  <2>1. /\ stage = "apply"
        /\ stage' = "restore"
        /\ faults' = faults + 1
        /\ op' = op /\ had' = had /\ answer' = answer /\ before' = before
        /\ owned' = owned /\ file' = file
        /\ part' = part /\ bak' = bak /\ patchbak' = patchbak
        /\ index' = index /\ indexBak' = indexBak
    BY <1>4, <1>1
      DEF ApplyRange, Go, Works, Fault, SetBlock, KindInv, UploadInv
  <2>2. /\ op.name \in DOMAIN file /\ file[op.name] \in Files
        /\ op.at \in 1..Len(before) /\ before[op.at] \in Block_
        /\ op.data[1] \in Block_ /\ file[op.name][op.at] \in Block_
        /\ [before EXCEPT ![op.at] = before[op.at]] = before
    BY <1>1, <2>1, PatchFacts, DataFacts DEF PatchStages
  <2>3. faults' \in Nat  BY <1>2, <2>1
  <2>4. stage' \in Stages /\ before' \in Files /\ had' \in BOOLEAN
        /\ owned' \subseteq Names
    BY <1>1, <1>2, <2>1, DataFacts, OnCardIn, FilesAssumption
      DEF ServiceInv, CardInv, Stages, UploadStages, PatchStages, IndexStages
  <2>5. CardInv'
    BY <1>1, <1>2, <2>1, <2>2, OnCardPut, OnCardUnlink, OnCardNothing,
       OnCardIn, DataFacts
      DEF CardInv
  <2>6. ServiceInv'  BY <1>1, <2>1, <2>3, <2>4 DEF ServiceInv
  <2>7. KindInv'
    BY <1>1, <1>2, <2>1, <2>2
      DEF KindInv, UploadStages, PatchStages, IndexStages
  <2>8. UploadInv'  BY <1>1, <1>2, <2>1, <2>2 DEF UploadInv, Content
  <2>9. PatchInv'  BY <1>1, <1>2, <2>1, <2>2 DEF PatchInv, PatchStages
  <2>10. DoneInv'  BY <1>1, <1>2, <2>1, <2>2 DEF DoneInv, Done, IndexStages
  <2>11. AnswerTrue'
    BY <1>1, <1>2, <2>1, <2>2 DEF AnswerTrue, Content, KindInv
  <2>12. VideoSurvives'  BY <1>1, <1>2, <2>1, <2>2 DEF VideoSurvives
  <2>13. OwnedInv'  BY <1>1, <1>2, <2>1, <2>2 DEF OwnedInv
  <2>14. IndexInv'
    BY <1>1, <1>2, <2>1, <2>2
      DEF IndexInv, Exact, Changing, Content, PatchInv, PatchStages
  <2>15. CrcExact'  BY <1>1, <1>2, <2>1, <2>2 DEF CrcExact, Content, KindInv
  <2>16. QED
    BY <2>5, <2>6, <2>7, <2>8, <2>9, <2>10, <2>11, <2>12, <2>13, <2>14, <2>15
      DEF IInv
<1>5. QED  BY <1>3, <1>4 DEF ApplyRange, Go, Works, Fault, SetBlock

LEMMA WriteRangeStep ==
  ASSUME FilesAssumption, IInv, WriteRange
  PROVE  IInv'
<1>1. CardInv /\ ServiceInv /\ KindInv /\ UploadInv /\ PatchInv /\ DoneInv
      /\ AnswerTrue /\ VideoSurvives /\ OwnedInv /\ IndexInv /\ CrcExact
  BY DEF IInv
<1>2. /\ faults \in Nat /\ op.name \in Names /\ op.kind \in Kinds
      /\ op.data \in Files /\ before \in Files /\ op \in Requests
      /\ op.at \in Nat
  BY <1>1 DEF ServiceInv, Requests
<1>3. CASE Works /\ file' = SetBlock(op.name, op.data[1])
  <2>1. /\ stage = "write"
        /\ stage' = "check"
        /\ file' = Put(file, op.name,
                        [file[op.name] EXCEPT ![op.at] = op.data[1]])
        /\ op' = op /\ had' = had /\ answer' = answer /\ before' = before
        /\ owned' = owned /\ faults' = faults
        /\ part' = part /\ bak' = bak /\ patchbak' = patchbak
        /\ index' = index /\ indexBak' = indexBak
    BY <1>3, <1>1
      DEF WriteRange, Go, Works, Fault, SetBlock, KindInv, UploadInv
  <2>2. /\ DOMAIN file' = DOMAIN file \cup {op.name} /\ file'[op.name] =
             [file[op.name] EXCEPT ![op.at] = op.data[1]]
        /\ \A m \in DOMAIN file : m # op.name => file'[m] = file[m]
    BY <2>1 DEF Put, Unlink, Restrict, Nothing
  <2>3. /\ op.name \in DOMAIN file /\ file[op.name] \in Files
        /\ op.at \in 1..Len(before) /\ before[op.at] \in Block_
        /\ op.data[1] \in Block_ /\ file[op.name][op.at] \in Block_
        /\ [before EXCEPT ![op.at] = before[op.at]] = before
        /\ [file[op.name] EXCEPT ![op.at] = op.data[1]] \in Files
        /\ [file[op.name] EXCEPT ![op.at] = op.data[1]]
             = [before EXCEPT ![op.at] = op.data[1]]
        /\ [before EXCEPT ![op.at] = op.data[1]][op.at] = op.data[1]
    BY <1>1, <2>1, PatchFacts, DataFacts DEF PatchStages
  <2>4. faults' \in Nat  BY <1>2, <2>1
  <2>5. stage' \in Stages /\ before' \in Files /\ had' \in BOOLEAN
        /\ owned' \subseteq Names
    BY <1>1, <1>2, <2>1, DataFacts, OnCardIn, FilesAssumption
      DEF ServiceInv, CardInv, Stages, UploadStages, PatchStages, IndexStages
  <2>6. CardInv'
    BY <1>1, <1>2, <2>1, <2>2, <2>3, OnCardPut, OnCardUnlink, OnCardNothing,
       OnCardIn, DataFacts
      DEF CardInv
  <2>7. ServiceInv'  BY <1>1, <2>1, <2>4, <2>5 DEF ServiceInv
  <2>8. KindInv'
    BY <1>1, <1>2, <2>1, <2>2, <2>3
      DEF KindInv, UploadStages, PatchStages, IndexStages
  <2>9. UploadInv'  BY <1>1, <1>2, <2>1, <2>2, <2>3 DEF UploadInv, Content
  <2>10. PatchInv'  BY <1>1, <1>2, <2>1, <2>2, <2>3 DEF PatchInv, PatchStages
  <2>11. DoneInv'
    BY <1>1, <1>2, <2>1, <2>2, <2>3 DEF DoneInv, Done, IndexStages
  <2>12. AnswerTrue'
    BY <1>1, <1>2, <2>1, <2>2, <2>3 DEF AnswerTrue, Content, KindInv
  <2>13. VideoSurvives'  BY <1>1, <1>2, <2>1, <2>2, <2>3 DEF VideoSurvives
  <2>14. OwnedInv'  BY <1>1, <1>2, <2>1, <2>2, <2>3 DEF OwnedInv
  <2>15. IndexInv'
    BY <1>1, <1>2, <2>1, <2>2, <2>3
      DEF IndexInv, Exact, Changing, Content, PatchInv, PatchStages
  <2>16. CrcExact'
    BY <1>1, <1>2, <2>1, <2>2, <2>3 DEF CrcExact, Content, KindInv
  <2>17. QED
    BY <2>6, <2>7, <2>8, <2>9, <2>10, <2>11, <2>12, <2>13, <2>14, <2>15, <2>16
      DEF IInv
<1>4. CASE Fault /\ file' = file
  <2>1. /\ stage = "write"
        /\ stage' = "check"
        /\ faults' = faults + 1
        /\ op' = op /\ had' = had /\ answer' = answer /\ before' = before
        /\ owned' = owned /\ file' = file
        /\ part' = part /\ bak' = bak /\ patchbak' = patchbak
        /\ index' = index /\ indexBak' = indexBak
    BY <1>4, <1>1
      DEF WriteRange, Go, Works, Fault, SetBlock, KindInv, UploadInv
  <2>2. faults' \in Nat  BY <1>2, <2>1
  <2>3. stage' \in Stages /\ before' \in Files /\ had' \in BOOLEAN
        /\ owned' \subseteq Names
    BY <1>1, <1>2, <2>1, DataFacts, OnCardIn, FilesAssumption
      DEF ServiceInv, CardInv, Stages, UploadStages, PatchStages, IndexStages
  <2>4. CardInv'
    BY <1>1, <1>2, <2>1, OnCardPut, OnCardUnlink, OnCardNothing, OnCardIn,
       DataFacts
      DEF CardInv
  <2>5. ServiceInv'  BY <1>1, <2>1, <2>2, <2>3 DEF ServiceInv
  <2>6. KindInv'
    BY <1>1, <1>2, <2>1 DEF KindInv, UploadStages, PatchStages, IndexStages
  <2>7. UploadInv'  BY <1>1, <1>2, <2>1 DEF UploadInv, Content
  <2>8. PatchInv'  BY <1>1, <1>2, <2>1 DEF PatchInv, PatchStages
  <2>9. DoneInv'  BY <1>1, <1>2, <2>1 DEF DoneInv, Done, IndexStages
  <2>10. AnswerTrue'  BY <1>1, <1>2, <2>1 DEF AnswerTrue, Content, KindInv
  <2>11. VideoSurvives'  BY <1>1, <1>2, <2>1 DEF VideoSurvives
  <2>12. OwnedInv'  BY <1>1, <1>2, <2>1 DEF OwnedInv
  <2>13. IndexInv'
    BY <1>1, <1>2, <2>1
      DEF IndexInv, Exact, Changing, Content, PatchInv, PatchStages
  <2>14. CrcExact'  BY <1>1, <1>2, <2>1 DEF CrcExact, Content, KindInv
  <2>15. QED
    BY <2>4, <2>5, <2>6, <2>7, <2>8, <2>9, <2>10, <2>11, <2>12, <2>13, <2>14
      DEF IInv
<1>5. QED  BY <1>3, <1>4 DEF WriteRange, Go, Works, Fault, SetBlock

LEMMA CheckRangeStep ==
  ASSUME FilesAssumption, IInv, CheckRange
  PROVE  IInv'
<1>1. CardInv /\ ServiceInv /\ KindInv /\ UploadInv /\ PatchInv /\ DoneInv
      /\ AnswerTrue /\ VideoSurvives /\ OwnedInv /\ IndexInv /\ CrcExact
  BY DEF IInv
<1>2. /\ faults \in Nat /\ op.name \in Names /\ op.kind \in Kinds
      /\ op.data \in Files /\ before \in Files /\ op \in Requests
      /\ op.at \in Nat
  BY <1>1 DEF ServiceInv, Requests
<1>3. CASE Works /\ file[op.name][op.at] = op.data[1] /\ Go("index")
            /\ patchbak' = Unlink(patchbak, op.name)
  <2>1. /\ stage = "check" /\ file[op.name][op.at] = op.data[1]
        /\ stage' = "index"
        /\ patchbak' = Unlink(patchbak, op.name)
        /\ op' = op /\ had' = had /\ answer' = answer /\ before' = before
        /\ owned' = owned /\ faults' = faults
        /\ file' = file /\ part' = part /\ bak' = bak /\ index' = index
        /\ indexBak' = indexBak
    BY <1>3, <1>1 DEF CheckRange, Go, Works, Fault, KindInv, UploadInv
  <2>2. /\ DOMAIN patchbak' = DOMAIN patchbak \ {op.name}
        /\ \A m \in DOMAIN patchbak : m # op.name => patchbak'[m] = patchbak[m]
    BY <2>1 DEF Put, Unlink, Restrict, Nothing
  <2>3. faults' \in Nat  BY <1>2, <2>1
  <2>4. stage' \in Stages /\ before' \in Files /\ had' \in BOOLEAN
        /\ owned' \subseteq Names
    BY <1>1, <1>2, <2>1, DataFacts, OnCardIn, FilesAssumption
      DEF ServiceInv, CardInv, Stages, UploadStages, PatchStages, IndexStages
  <2>5. CardInv'
    BY <1>1, <1>2, <2>1, <2>2, OnCardPut, OnCardUnlink, OnCardNothing,
       OnCardIn, DataFacts
      DEF CardInv
  <2>6. ServiceInv'  BY <1>1, <2>1, <2>3, <2>4 DEF ServiceInv
  <2>7. KindInv'
    BY <1>1, <1>2, <2>1, <2>2
      DEF KindInv, UploadStages, PatchStages, IndexStages
  <2>8. UploadInv'  BY <1>1, <1>2, <2>1, <2>2 DEF UploadInv, Content
  <2>9. PatchInv'  BY <1>1, <1>2, <2>1, <2>2 DEF PatchInv, PatchStages
  <2>10. DoneInv'
    BY <1>1, <1>2, <2>1, <2>2
      DEF DoneInv, Done, IndexStages, PatchInv, PatchStages, KindInv
  <2>11. AnswerTrue'  BY <1>1, <1>2, <2>1, <2>2 DEF AnswerTrue, Content
  <2>12. VideoSurvives'  BY <1>1, <1>2, <2>1, <2>2 DEF VideoSurvives
  <2>13. OwnedInv'  BY <1>1, <1>2, <2>1, <2>2 DEF OwnedInv
  <2>14. IndexInv'
    BY <1>1, <1>2, <2>1, <2>2
      DEF IndexInv, Exact, Changing, Content, PatchInv, PatchStages
  <2>15. CrcExact'  BY <1>1, <1>2, <2>1, <2>2 DEF CrcExact, Content
  <2>16. QED
    BY <2>5, <2>6, <2>7, <2>8, <2>9, <2>10, <2>11, <2>12, <2>13, <2>14, <2>15
      DEF IInv
<1>4. CASE Works /\ file[op.name][op.at] # op.data[1] /\ Go("restore")
            /\ patchbak' = patchbak
  <2>1. /\ stage = "check" /\ file[op.name][op.at] # op.data[1]
        /\ stage' = "restore"
        /\ op' = op /\ had' = had /\ answer' = answer /\ before' = before
        /\ owned' = owned /\ faults' = faults
        /\ file' = file /\ part' = part /\ bak' = bak
        /\ patchbak' = patchbak /\ index' = index /\ indexBak' = indexBak
    BY <1>4, <1>1 DEF CheckRange, Go, Works, Fault, KindInv, UploadInv
  <2>2. faults' \in Nat  BY <1>2, <2>1
  <2>3. stage' \in Stages /\ before' \in Files /\ had' \in BOOLEAN
        /\ owned' \subseteq Names
    BY <1>1, <1>2, <2>1, DataFacts, OnCardIn, FilesAssumption
      DEF ServiceInv, CardInv, Stages, UploadStages, PatchStages, IndexStages
  <2>4. CardInv'
    BY <1>1, <1>2, <2>1, OnCardPut, OnCardUnlink, OnCardNothing, OnCardIn,
       DataFacts
      DEF CardInv
  <2>5. ServiceInv'  BY <1>1, <2>1, <2>2, <2>3 DEF ServiceInv
  <2>6. KindInv'
    BY <1>1, <1>2, <2>1 DEF KindInv, UploadStages, PatchStages, IndexStages
  <2>7. UploadInv'  BY <1>1, <1>2, <2>1 DEF UploadInv, Content
  <2>8. PatchInv'  BY <1>1, <1>2, <2>1 DEF PatchInv, PatchStages
  <2>9. DoneInv'  BY <1>1, <1>2, <2>1 DEF DoneInv, Done, IndexStages
  <2>10. AnswerTrue'  BY <1>1, <1>2, <2>1 DEF AnswerTrue, Content
  <2>11. VideoSurvives'  BY <1>1, <1>2, <2>1 DEF VideoSurvives
  <2>12. OwnedInv'  BY <1>1, <1>2, <2>1 DEF OwnedInv
  <2>13. IndexInv'
    BY <1>1, <1>2, <2>1
      DEF IndexInv, Exact, Changing, Content, PatchInv, PatchStages
  <2>14. CrcExact'  BY <1>1, <1>2, <2>1 DEF CrcExact, Content
  <2>15. QED
    BY <2>4, <2>5, <2>6, <2>7, <2>8, <2>9, <2>10, <2>11, <2>12, <2>13, <2>14
      DEF IInv
<1>5. CASE Fault /\ Go("restore") /\ patchbak' = patchbak
  <2>1. /\ stage = "check"
        /\ stage' = "restore"
        /\ faults' = faults + 1
        /\ op' = op /\ had' = had /\ answer' = answer /\ before' = before
        /\ owned' = owned /\ file' = file
        /\ part' = part /\ bak' = bak /\ patchbak' = patchbak
        /\ index' = index /\ indexBak' = indexBak
    BY <1>5, <1>1 DEF CheckRange, Go, Works, Fault, KindInv, UploadInv
  <2>2. faults' \in Nat  BY <1>2, <2>1
  <2>3. stage' \in Stages /\ before' \in Files /\ had' \in BOOLEAN
        /\ owned' \subseteq Names
    BY <1>1, <1>2, <2>1, DataFacts, OnCardIn, FilesAssumption
      DEF ServiceInv, CardInv, Stages, UploadStages, PatchStages, IndexStages
  <2>4. CardInv'
    BY <1>1, <1>2, <2>1, OnCardPut, OnCardUnlink, OnCardNothing, OnCardIn,
       DataFacts
      DEF CardInv
  <2>5. ServiceInv'  BY <1>1, <2>1, <2>2, <2>3 DEF ServiceInv
  <2>6. KindInv'
    BY <1>1, <1>2, <2>1 DEF KindInv, UploadStages, PatchStages, IndexStages
  <2>7. UploadInv'  BY <1>1, <1>2, <2>1 DEF UploadInv, Content
  <2>8. PatchInv'  BY <1>1, <1>2, <2>1 DEF PatchInv, PatchStages
  <2>9. DoneInv'  BY <1>1, <1>2, <2>1 DEF DoneInv, Done, IndexStages
  <2>10. AnswerTrue'  BY <1>1, <1>2, <2>1 DEF AnswerTrue, Content
  <2>11. VideoSurvives'  BY <1>1, <1>2, <2>1 DEF VideoSurvives
  <2>12. OwnedInv'  BY <1>1, <1>2, <2>1 DEF OwnedInv
  <2>13. IndexInv'
    BY <1>1, <1>2, <2>1
      DEF IndexInv, Exact, Changing, Content, PatchInv, PatchStages
  <2>14. CrcExact'  BY <1>1, <1>2, <2>1 DEF CrcExact, Content
  <2>15. QED
    BY <2>4, <2>5, <2>6, <2>7, <2>8, <2>9, <2>10, <2>11, <2>12, <2>13, <2>14
      DEF IInv
<1>6. QED  BY <1>3, <1>4, <1>5 DEF CheckRange, Go, Works, Fault

LEMMA RestoreRangeStep ==
  ASSUME FilesAssumption, IInv, RestoreRange
  PROVE  IInv'
<1>1. CardInv /\ ServiceInv /\ KindInv /\ UploadInv /\ PatchInv /\ DoneInv
      /\ AnswerTrue /\ VideoSurvives /\ OwnedInv /\ IndexInv /\ CrcExact
  BY DEF IInv
<1>2. /\ faults \in Nat /\ op.name \in Names /\ op.kind \in Kinds
      /\ op.data \in Files /\ before \in Files /\ op \in Requests
      /\ op.at \in Nat
  BY <1>1 DEF ServiceInv, Requests
<1>3. CASE Works /\ file' = SetBlock(op.name, patchbak[op.name].block)
            /\ patchbak' = Unlink(patchbak, op.name)
  <2>1. /\ stage = "restore"
        /\ stage' = "idle"
        /\ had' = FALSE
        /\ answer' = Reply("error", <<>>)
        /\ file' = Put(file, op.name,
                        [file[op.name] EXCEPT ![op.at] = patchbak[op.name].block])
        /\ patchbak' = Unlink(patchbak, op.name)
        /\ op' = op /\ before' = before /\ owned' = owned
        /\ faults' = faults /\ part' = part /\ bak' = bak
        /\ index' = index /\ indexBak' = indexBak
    BY <1>3, <1>1
      DEF RestoreRange, Finish, Works, Fault, SetBlock, KindInv, UploadInv
  <2>2. /\ answer' \in Replies /\ answer'.status = "error"
        /\ answer'.data = <<>>
    BY <1>1, <1>2, <2>1, DataFacts, OnCardIn, FilesAssumption
      DEF Request, Reply, Requests, Replies, Kinds, CardInv, KindInv,
          PatchStages
  <2>3. /\ DOMAIN file' = DOMAIN file \cup {op.name} /\ file'[op.name] =
             [file[op.name] EXCEPT ![op.at] = patchbak[op.name].block]
        /\ \A m \in DOMAIN file : m # op.name => file'[m] = file[m]
        /\ DOMAIN patchbak' = DOMAIN patchbak \ {op.name}
        /\ \A m \in DOMAIN patchbak : m # op.name => patchbak'[m] = patchbak[m]
    BY <2>1 DEF Put, Unlink, Restrict, Nothing
  <2>4. /\ op.name \in DOMAIN file /\ file[op.name] \in Files
        /\ op.at \in 1..Len(before) /\ before[op.at] \in Block_
        /\ op.data[1] \in Block_ /\ file[op.name][op.at] \in Block_
        /\ [before EXCEPT ![op.at] = before[op.at]] = before
        /\ [file[op.name] EXCEPT ![op.at] = patchbak[op.name].block] \in Files
        /\ [file[op.name] EXCEPT ![op.at] = patchbak[op.name].block]
             = [before EXCEPT ![op.at] = patchbak[op.name].block]
        /\ [before EXCEPT ![op.at] = patchbak[op.name].block][op.at]
             = patchbak[op.name].block
    BY <1>1, <2>1, PatchFacts, DataFacts DEF PatchStages, PatchInv
  <2>5. /\ patchbak[op.name].block = before[op.at]
        /\ file'[op.name] = before /\ op.name \in DOMAIN file'
    BY <1>1, <1>2, <2>1, <2>2, <2>3, <2>4 DEF PatchInv, PatchStages
  <2>6. faults' \in Nat  BY <1>2, <2>1
  <2>7. stage' \in Stages /\ before' \in Files /\ had' \in BOOLEAN
        /\ owned' \subseteq Names
    BY <1>1, <1>2, <2>1, DataFacts, OnCardIn, FilesAssumption
      DEF ServiceInv, CardInv, Stages, UploadStages, PatchStages, IndexStages
  <2>8. CardInv'
    BY <1>1, <1>2, <2>1, <2>2, <2>3, <2>4, <2>5, OnCardPut, OnCardUnlink,
       OnCardNothing, OnCardIn, DataFacts
      DEF CardInv
  <2>9. ServiceInv'  BY <1>1, <2>1, <2>6, <2>7, <2>2 DEF ServiceInv
  <2>10. KindInv'
    BY <1>1, <1>2, <2>1, <2>2, <2>3, <2>4, <2>5
      DEF KindInv, UploadStages, PatchStages, IndexStages
  <2>11. UploadInv'
    BY <1>1, <1>2, <2>1, <2>2, <2>3, <2>4, <2>5 DEF UploadInv, Content
  <2>12. PatchInv'
    BY <1>1, <1>2, <2>1, <2>2, <2>3, <2>4, <2>5 DEF PatchInv, PatchStages
  <2>13. DoneInv'
    BY <1>1, <1>2, <2>1, <2>2, <2>3, <2>4, <2>5 DEF DoneInv, Done, IndexStages
  <2>14. AnswerTrue'  BY <2>1, <2>2, <2>3, <2>4, <2>5 DEF AnswerTrue, Content
  <2>15. VideoSurvives'
    BY <1>1, <1>2, <2>1, <2>2, <2>3, <2>4, <2>5 DEF VideoSurvives
  <2>16. OwnedInv'  BY <1>1, <1>2, <2>1, <2>2, <2>3, <2>4, <2>5 DEF OwnedInv
  <2>17. IndexInv'
    BY <1>1, <1>2, <2>1, <2>2, <2>3, <2>4, <2>5
      DEF IndexInv, Exact, Changing, Content, PatchInv, PatchStages
  <2>18. CrcExact'
    BY <1>1, <1>2, <2>1, <2>2, <2>3, <2>4, <2>5 DEF CrcExact, Content
  <2>19. QED
    BY <2>8, <2>9, <2>10, <2>11, <2>12, <2>13, <2>14, <2>15, <2>16, <2>17,
       <2>18
      DEF IInv
<1>4. CASE Fault /\ patchbak' = patchbak /\ file' = file
  <2>1. /\ stage = "restore"
        /\ stage' = "idle"
        /\ had' = FALSE
        /\ answer' = Reply("error", <<>>)
        /\ faults' = faults + 1
        /\ op' = op /\ before' = before /\ owned' = owned /\ file' = file
        /\ part' = part /\ bak' = bak
        /\ patchbak' = patchbak /\ index' = index /\ indexBak' = indexBak
    BY <1>4, <1>1
      DEF RestoreRange, Finish, Works, Fault, SetBlock, KindInv, UploadInv
  <2>2. /\ answer' \in Replies /\ answer'.status = "error"
        /\ answer'.data = <<>>
    BY <1>1, <1>2, <2>1, DataFacts, OnCardIn, FilesAssumption
      DEF Request, Reply, Requests, Replies, Kinds, CardInv, KindInv,
          PatchStages
  <2>3. faults' \in Nat  BY <1>2, <2>1
  <2>4. stage' \in Stages /\ before' \in Files /\ had' \in BOOLEAN
        /\ owned' \subseteq Names
    BY <1>1, <1>2, <2>1, DataFacts, OnCardIn, FilesAssumption
      DEF ServiceInv, CardInv, Stages, UploadStages, PatchStages, IndexStages
  <2>5. CardInv'
    BY <1>1, <1>2, <2>1, <2>2, OnCardPut, OnCardUnlink, OnCardNothing,
       OnCardIn, DataFacts
      DEF CardInv
  <2>6. ServiceInv'  BY <1>1, <2>1, <2>3, <2>4, <2>2 DEF ServiceInv
  <2>7. KindInv'
    BY <1>1, <1>2, <2>1, <2>2
      DEF KindInv, UploadStages, PatchStages, IndexStages
  <2>8. UploadInv'  BY <1>1, <1>2, <2>1, <2>2 DEF UploadInv, Content
  <2>9. PatchInv'  BY <1>1, <1>2, <2>1, <2>2 DEF PatchInv, PatchStages
  <2>10. DoneInv'  BY <1>1, <1>2, <2>1, <2>2 DEF DoneInv, Done, IndexStages
  <2>11. AnswerTrue'
    BY <1>1, <1>2, <2>1, <2>2
      DEF AnswerTrue, Content, PatchInv, PatchStages, KindInv
  <2>12. VideoSurvives'  BY <1>1, <1>2, <2>1, <2>2 DEF VideoSurvives
  <2>13. OwnedInv'  BY <1>1, <1>2, <2>1, <2>2 DEF OwnedInv
  <2>14. IndexInv'
    BY <1>1, <1>2, <2>1, <2>2
      DEF IndexInv, Exact, Changing, Content, PatchInv, PatchStages
  <2>15. CrcExact'  BY <1>1, <1>2, <2>1, <2>2 DEF CrcExact, Content
  <2>16. QED
    BY <2>5, <2>6, <2>7, <2>8, <2>9, <2>10, <2>11, <2>12, <2>13, <2>14, <2>15
      DEF IInv
<1>5. CASE Fault /\ patchbak' = patchbak /\
            \E b \in {Torn, patchbak[op.name].block} : file' = SetBlock(op.name, b)
  <2>0. PICK b \in {Torn, patchbak[op.name].block} : file' = SetBlock(op.name, b)
    BY <1>5
  <2>1. /\ stage = "restore"
        /\ stage' = "idle"
        /\ had' = FALSE
        /\ answer' = Reply("error", <<>>)
        /\ faults' = faults + 1
        /\ file' = Put(file, op.name, [file[op.name] EXCEPT ![op.at] = b])
        /\ op' = op /\ before' = before /\ owned' = owned /\ part' = part
        /\ bak' = bak /\ patchbak' = patchbak
        /\ index' = index /\ indexBak' = indexBak
    BY <1>5, <2>0, <1>1
      DEF RestoreRange, Finish, Works, Fault, SetBlock, KindInv, UploadInv
  <2>2. /\ answer' \in Replies /\ answer'.status = "error"
        /\ answer'.data = <<>>
    BY <1>1, <1>2, <2>1, DataFacts, OnCardIn, FilesAssumption
      DEF Request, Reply, Requests, Replies, Kinds, CardInv, KindInv,
          PatchStages
  <2>3. /\ DOMAIN file' = DOMAIN file \cup {op.name} /\ file'[op.name] =
             [file[op.name] EXCEPT ![op.at] = b]
        /\ \A m \in DOMAIN file : m # op.name => file'[m] = file[m]
    BY <2>1 DEF Put, Unlink, Restrict, Nothing
  <2>4. /\ op.name \in DOMAIN file /\ file[op.name] \in Files
        /\ op.at \in 1..Len(before) /\ before[op.at] \in Block_
        /\ op.data[1] \in Block_ /\ file[op.name][op.at] \in Block_
        /\ [before EXCEPT ![op.at] = before[op.at]] = before
        /\ [file[op.name] EXCEPT ![op.at] = b] \in Files
        /\ [file[op.name] EXCEPT ![op.at] = b] = [before EXCEPT ![op.at] = b]
        /\ [before EXCEPT ![op.at] = b][op.at] = b
    BY <1>1, <2>1, PatchFacts, DataFacts DEF PatchStages, PatchInv
  <2>5. faults' \in Nat  BY <1>2, <2>1
  <2>6. stage' \in Stages /\ before' \in Files /\ had' \in BOOLEAN
        /\ owned' \subseteq Names
    BY <1>1, <1>2, <2>1, DataFacts, OnCardIn, FilesAssumption
      DEF ServiceInv, CardInv, Stages, UploadStages, PatchStages, IndexStages
  <2>7. CardInv'
    BY <1>1, <1>2, <2>1, <2>2, <2>3, <2>4, OnCardPut, OnCardUnlink,
       OnCardNothing, OnCardIn, DataFacts
      DEF CardInv
  <2>8. ServiceInv'  BY <1>1, <2>1, <2>5, <2>6, <2>2 DEF ServiceInv
  <2>9. KindInv'
    BY <1>1, <1>2, <2>1, <2>2, <2>3, <2>4
      DEF KindInv, UploadStages, PatchStages, IndexStages
  <2>10. UploadInv'
    BY <1>1, <1>2, <2>1, <2>2, <2>3, <2>4 DEF UploadInv, Content
  <2>11. PatchInv'
    BY <1>1, <1>2, <2>1, <2>2, <2>3, <2>4 DEF PatchInv, PatchStages
  <2>12. DoneInv'
    BY <1>1, <1>2, <2>1, <2>2, <2>3, <2>4 DEF DoneInv, Done, IndexStages
  <2>13. AnswerTrue'
    BY <1>1, <1>2, <2>1, <2>2, <2>3, <2>4
      DEF AnswerTrue, Content, PatchInv, PatchStages, KindInv
  <2>14. VideoSurvives'
    BY <1>1, <1>2, <2>1, <2>2, <2>3, <2>4 DEF VideoSurvives
  <2>15. OwnedInv'  BY <1>1, <1>2, <2>1, <2>2, <2>3, <2>4 DEF OwnedInv
  <2>16. IndexInv'
    BY <1>1, <1>2, <2>1, <2>2, <2>3, <2>4
      DEF IndexInv, Exact, Changing, Content, PatchInv, PatchStages
  <2>17. CrcExact'
    BY <1>1, <1>2, <2>1, <2>2, <2>3, <2>4 DEF CrcExact, Content
  <2>18. QED
    BY <2>7, <2>8, <2>9, <2>10, <2>11, <2>12, <2>13, <2>14, <2>15, <2>16,
       <2>17
      DEF IInv
<1>6. QED
  BY <1>3, <1>4, <1>5 DEF RestoreRange, Finish, Works, Fault, SetBlock

LEMMA RemoveFileStep ==
  ASSUME FilesAssumption, IInv, RemoveFile
  PROVE  IInv'
<1>1. CardInv /\ ServiceInv /\ KindInv /\ UploadInv /\ PatchInv /\ DoneInv
      /\ AnswerTrue /\ VideoSurvives /\ OwnedInv /\ IndexInv /\ CrcExact
  BY DEF IInv
<1>2. /\ faults \in Nat /\ op.name \in Names /\ op.kind \in Kinds
      /\ op.data \in Files /\ before \in Files /\ op \in Requests
      /\ op.at \in Nat
  BY <1>1 DEF ServiceInv, Requests
<1>3. CASE Works /\ Go("index") /\ file' = Unlink(file, op.name)
            /\ owned' = owned \ {op.name}
  <2>1. /\ stage = "remove"
        /\ stage' = "index"
        /\ owned' = owned \ {op.name}
        /\ file' = Unlink(file, op.name)
        /\ op' = op /\ had' = had /\ answer' = answer /\ before' = before
        /\ faults' = faults /\ part' = part
        /\ bak' = bak /\ patchbak' = patchbak /\ index' = index
        /\ indexBak' = indexBak
    BY <1>3, <1>1 DEF RemoveFile, Go, Finish, Works, Fault, KindInv, UploadInv
  <2>2. /\ DOMAIN file' = DOMAIN file \ {op.name}
        /\ \A m \in DOMAIN file : m # op.name => file'[m] = file[m]
    BY <2>1 DEF Put, Unlink, Restrict, Nothing
  <2>3. faults' \in Nat  BY <1>2, <2>1
  <2>4. stage' \in Stages /\ before' \in Files /\ had' \in BOOLEAN
        /\ owned' \subseteq Names
    BY <1>1, <1>2, <2>1, DataFacts, OnCardIn, FilesAssumption
      DEF ServiceInv, CardInv, Stages, UploadStages, PatchStages, IndexStages
  <2>5. CardInv'
    BY <1>1, <1>2, <2>1, <2>2, OnCardPut, OnCardUnlink, OnCardNothing,
       OnCardIn, DataFacts
      DEF CardInv
  <2>6. ServiceInv'  BY <1>1, <2>1, <2>3, <2>4 DEF ServiceInv
  <2>7. KindInv'
    BY <1>1, <1>2, <2>1, <2>2
      DEF KindInv, UploadStages, PatchStages, IndexStages
  <2>8. UploadInv'  BY <1>1, <1>2, <2>1, <2>2 DEF UploadInv, Content
  <2>9. PatchInv'  BY <1>1, <1>2, <2>1, <2>2 DEF PatchInv, PatchStages
  <2>10. DoneInv'
    BY <1>1, <1>2, <2>1, <2>2 DEF DoneInv, Done, IndexStages, KindInv
  <2>11. AnswerTrue'
    BY <1>1, <1>2, <2>1, <2>2 DEF AnswerTrue, Content, KindInv
  <2>12. VideoSurvives'  BY <1>1, <1>2, <2>1, <2>2 DEF VideoSurvives
  <2>13. OwnedInv'  BY <1>1, <1>2, <2>1, <2>2 DEF OwnedInv
  <2>14. IndexInv'
    BY <1>1, <1>2, <2>1, <2>2 DEF IndexInv, Exact, Changing, Content
  <2>15. CrcExact'  BY <1>1, <1>2, <2>1, <2>2 DEF CrcExact, Content, KindInv
  <2>16. QED
    BY <2>5, <2>6, <2>7, <2>8, <2>9, <2>10, <2>11, <2>12, <2>13, <2>14, <2>15
      DEF IInv
<1>4. CASE Fault /\ Finish("error", <<>>) /\ UNCHANGED <<file, owned>>
  <2>1. /\ stage = "remove"
        /\ stage' = "idle"
        /\ had' = FALSE
        /\ answer' = Reply("error", <<>>)
        /\ faults' = faults + 1
        /\ op' = op /\ before' = before /\ owned' = owned /\ file' = file
        /\ part' = part /\ bak' = bak
        /\ patchbak' = patchbak /\ index' = index /\ indexBak' = indexBak
    BY <1>4, <1>1 DEF RemoveFile, Go, Finish, Works, Fault, KindInv, UploadInv
  <2>2. /\ answer' \in Replies /\ answer'.status = "error"
        /\ answer'.data = <<>>
    BY <1>1, <1>2, <2>1, DataFacts, OnCardIn, FilesAssumption
      DEF Request, Reply, Requests, Replies, Kinds, CardInv, KindInv,
          PatchStages
  <2>3. faults' \in Nat  BY <1>2, <2>1
  <2>4. stage' \in Stages /\ before' \in Files /\ had' \in BOOLEAN
        /\ owned' \subseteq Names
    BY <1>1, <1>2, <2>1, DataFacts, OnCardIn, FilesAssumption
      DEF ServiceInv, CardInv, Stages, UploadStages, PatchStages, IndexStages
  <2>5. CardInv'
    BY <1>1, <1>2, <2>1, <2>2, OnCardPut, OnCardUnlink, OnCardNothing,
       OnCardIn, DataFacts
      DEF CardInv
  <2>6. ServiceInv'  BY <1>1, <2>1, <2>3, <2>4, <2>2 DEF ServiceInv
  <2>7. KindInv'
    BY <1>1, <1>2, <2>1, <2>2
      DEF KindInv, UploadStages, PatchStages, IndexStages
  <2>8. UploadInv'  BY <1>1, <1>2, <2>1, <2>2 DEF UploadInv, Content
  <2>9. PatchInv'  BY <1>1, <1>2, <2>1, <2>2 DEF PatchInv, PatchStages
  <2>10. DoneInv'
    BY <1>1, <1>2, <2>1, <2>2 DEF DoneInv, Done, IndexStages, KindInv
  <2>11. AnswerTrue'
    BY <1>1, <1>2, <2>1, <2>2 DEF AnswerTrue, Content, KindInv
  <2>12. VideoSurvives'  BY <1>1, <1>2, <2>1, <2>2 DEF VideoSurvives
  <2>13. OwnedInv'  BY <1>1, <1>2, <2>1, <2>2 DEF OwnedInv
  <2>14. IndexInv'
    BY <1>1, <1>2, <2>1, <2>2 DEF IndexInv, Exact, Changing, Content
  <2>15. CrcExact'  BY <1>1, <1>2, <2>1, <2>2 DEF CrcExact, Content, KindInv
  <2>16. QED
    BY <2>5, <2>6, <2>7, <2>8, <2>9, <2>10, <2>11, <2>12, <2>13, <2>14, <2>15
      DEF IInv
<1>5. QED  BY <1>3, <1>4 DEF RemoveFile, Go, Finish, Works, Fault

LEMMA LookUpStep ==
  ASSUME FilesAssumption, IInv, LookUp
  PROVE  IInv'
<1>1. CardInv /\ ServiceInv /\ KindInv /\ UploadInv /\ PatchInv /\ DoneInv
      /\ AnswerTrue /\ VideoSurvives /\ OwnedInv /\ IndexInv /\ CrcExact
  BY DEF IInv
<1>2. /\ faults \in Nat /\ op.name \in Names /\ op.kind \in Kinds
      /\ op.data \in Files /\ before \in Files /\ op \in Requests
      /\ op.at \in Nat
  BY <1>1 DEF ServiceInv, Requests
<1>3. CASE Cached(op.name)
  <2>1. /\ stage = "lookup" /\ op.name \in DOMAIN index
        /\ Len(index[op.name]) = Len(file[op.name])
        /\ stage' = "idle"
        /\ had' = FALSE
        /\ answer' = Reply("crc", index[op.name])
        /\ op' = op /\ before' = before /\ owned' = owned
        /\ faults' = faults /\ file' = file /\ part' = part
        /\ bak' = bak /\ patchbak' = patchbak /\ index' = index
        /\ indexBak' = indexBak
    BY <1>3, <1>1
      DEF LookUp, Go, Finish, Works, Cached, cardVars, KindInv, UploadInv
  <2>2. /\ answer' \in Replies /\ answer'.status = "crc"
        /\ answer'.data = index[op.name]
    BY <1>1, <1>2, <2>1, DataFacts, OnCardIn, FilesAssumption
      DEF Request, Reply, Requests, Replies, Kinds, CardInv, KindInv,
          PatchStages
  <2>3. faults' \in Nat  BY <1>2, <2>1
  <2>4. stage' \in Stages /\ before' \in Files /\ had' \in BOOLEAN
        /\ owned' \subseteq Names
    BY <1>1, <1>2, <2>1, DataFacts, OnCardIn, FilesAssumption
      DEF ServiceInv, CardInv, Stages, UploadStages, PatchStages, IndexStages
  <2>5. CardInv'
    BY <1>1, <1>2, <2>1, <2>2, OnCardPut, OnCardUnlink, OnCardNothing,
       OnCardIn, DataFacts
      DEF CardInv
  <2>6. ServiceInv'  BY <1>1, <2>1, <2>3, <2>4, <2>2 DEF ServiceInv
  <2>7. KindInv'
    BY <1>1, <1>2, <2>1, <2>2
      DEF KindInv, UploadStages, PatchStages, IndexStages
  <2>8. UploadInv'  BY <1>1, <1>2, <2>1, <2>2 DEF UploadInv, Content
  <2>9. PatchInv'  BY <1>1, <1>2, <2>1, <2>2 DEF PatchInv, PatchStages
  <2>10. DoneInv'  BY <1>1, <1>2, <2>1, <2>2 DEF DoneInv, Done, IndexStages
  <2>11. AnswerTrue'
    BY <1>1, <1>2, <2>1, <2>2 DEF AnswerTrue, Content, KindInv
  <2>12. VideoSurvives'  BY <1>1, <1>2, <2>1, <2>2 DEF VideoSurvives
  <2>13. OwnedInv'  BY <1>1, <1>2, <2>1, <2>2 DEF OwnedInv
  <2>14. IndexInv'
    BY <1>1, <1>2, <2>1, <2>2 DEF IndexInv, Exact, Changing, Content
  <2>15. CrcExact'
    BY <1>1, <1>2, <2>1, <2>2
      DEF CrcExact, Content, IndexInv, Exact, Changing, KindInv
  <2>16. QED
    BY <2>5, <2>6, <2>7, <2>8, <2>9, <2>10, <2>11, <2>12, <2>13, <2>14, <2>15
      DEF IInv
<1>4. CASE ~Cached(op.name)
  <2>1. /\ stage = "lookup"
        /\ stage' = "scan"
        /\ op' = op /\ had' = had /\ answer' = answer /\ before' = before
        /\ owned' = owned /\ faults' = faults
        /\ file' = file /\ part' = part /\ bak' = bak
        /\ patchbak' = patchbak /\ index' = index /\ indexBak' = indexBak
    BY <1>4, <1>1
      DEF LookUp, Go, Finish, Works, Cached, cardVars, KindInv, UploadInv
  <2>2. faults' \in Nat  BY <1>2, <2>1
  <2>3. stage' \in Stages /\ before' \in Files /\ had' \in BOOLEAN
        /\ owned' \subseteq Names
    BY <1>1, <1>2, <2>1, DataFacts, OnCardIn, FilesAssumption
      DEF ServiceInv, CardInv, Stages, UploadStages, PatchStages, IndexStages
  <2>4. CardInv'
    BY <1>1, <1>2, <2>1, OnCardPut, OnCardUnlink, OnCardNothing, OnCardIn,
       DataFacts
      DEF CardInv
  <2>5. ServiceInv'  BY <1>1, <2>1, <2>2, <2>3 DEF ServiceInv
  <2>6. KindInv'
    BY <1>1, <1>2, <2>1 DEF KindInv, UploadStages, PatchStages, IndexStages
  <2>7. UploadInv'  BY <1>1, <1>2, <2>1 DEF UploadInv, Content
  <2>8. PatchInv'  BY <1>1, <1>2, <2>1 DEF PatchInv, PatchStages
  <2>9. DoneInv'  BY <1>1, <1>2, <2>1 DEF DoneInv, Done, IndexStages
  <2>10. AnswerTrue'  BY <1>1, <1>2, <2>1 DEF AnswerTrue, Content
  <2>11. VideoSurvives'  BY <1>1, <1>2, <2>1 DEF VideoSurvives
  <2>12. OwnedInv'  BY <1>1, <1>2, <2>1 DEF OwnedInv
  <2>13. IndexInv'  BY <1>1, <1>2, <2>1 DEF IndexInv, Exact, Changing, Content
  <2>14. CrcExact'  BY <1>1, <1>2, <2>1 DEF CrcExact, Content
  <2>15. QED
    BY <2>4, <2>5, <2>6, <2>7, <2>8, <2>9, <2>10, <2>11, <2>12, <2>13, <2>14
      DEF IInv
<1>5. QED  BY <1>3, <1>4 DEF LookUp, Go, Finish, Works, Cached, cardVars

LEMMA ScanFileStep ==
  ASSUME FilesAssumption, IInv, ScanFile
  PROVE  IInv'
<1>1. CardInv /\ ServiceInv /\ KindInv /\ UploadInv /\ PatchInv /\ DoneInv
      /\ AnswerTrue /\ VideoSurvives /\ OwnedInv /\ IndexInv /\ CrcExact
  BY DEF IInv
<1>2. /\ faults \in Nat /\ op.name \in Names /\ op.kind \in Kinds
      /\ op.data \in Files /\ before \in Files /\ op \in Requests
      /\ op.at \in Nat
  BY <1>1 DEF ServiceInv, Requests
<1>3. CASE Works /\ op' = [op EXCEPT !.data = file[op.name]]
            /\ stage' = "index" /\ UNCHANGED <<had, answer>>
  <2>1. /\ stage = "scan"
        /\ stage' = "index"
        /\ op' = [op EXCEPT !.data = file[op.name]]
        /\ had' = had /\ answer' = answer /\ before' = before
        /\ owned' = owned /\ faults' = faults /\ file' = file
        /\ part' = part /\ bak' = bak /\ patchbak' = patchbak
        /\ index' = index /\ indexBak' = indexBak
    BY <1>3, <1>1
      DEF ScanFile, Finish, Works, Fault, cardVars, KindInv, UploadInv
  <2>2. /\ op' \in Requests /\ op'.kind = op.kind /\ op'.name = op.name
        /\ op'.data = file[op.name] /\ op'.at = op.at
    BY <1>1, <1>2, <2>1, DataFacts, OnCardIn, FilesAssumption
      DEF Request, Reply, Requests, Replies, Kinds, CardInv, KindInv,
          PatchStages
  <2>3. faults' \in Nat  BY <1>2, <2>1
  <2>4. stage' \in Stages /\ before' \in Files /\ had' \in BOOLEAN
        /\ owned' \subseteq Names
    BY <1>1, <1>2, <2>1, DataFacts, OnCardIn, FilesAssumption
      DEF ServiceInv, CardInv, Stages, UploadStages, PatchStages, IndexStages
  <2>5. CardInv'
    BY <1>1, <1>2, <2>1, <2>2, OnCardPut, OnCardUnlink, OnCardNothing,
       OnCardIn, DataFacts
      DEF CardInv
  <2>6. ServiceInv'  BY <1>1, <2>1, <2>3, <2>4, <2>2 DEF ServiceInv
  <2>7. KindInv'
    BY <1>1, <1>2, <2>1, <2>2
      DEF KindInv, UploadStages, PatchStages, IndexStages
  <2>8. UploadInv'  BY <1>1, <1>2, <2>1, <2>2 DEF UploadInv, Content
  <2>9. PatchInv'  BY <1>1, <1>2, <2>1, <2>2 DEF PatchInv, PatchStages
  <2>10. DoneInv'
    BY <1>1, <1>2, <2>1, <2>2 DEF DoneInv, Done, IndexStages, KindInv
  <2>11. AnswerTrue'
    BY <1>1, <1>2, <2>1, <2>2 DEF AnswerTrue, Content, KindInv
  <2>12. VideoSurvives'  BY <1>1, <1>2, <2>1, <2>2 DEF VideoSurvives
  <2>13. OwnedInv'  BY <1>1, <1>2, <2>1, <2>2 DEF OwnedInv
  <2>14. IndexInv'
    BY <1>1, <1>2, <2>1, <2>2 DEF IndexInv, Exact, Changing, Content
  <2>15. CrcExact'  BY <1>1, <1>2, <2>1, <2>2 DEF CrcExact, Content, KindInv
  <2>16. QED
    BY <2>5, <2>6, <2>7, <2>8, <2>9, <2>10, <2>11, <2>12, <2>13, <2>14, <2>15
      DEF IInv
<1>4. CASE Fault /\ Finish("error", <<>>)
  <2>1. /\ stage = "scan"
        /\ stage' = "idle"
        /\ had' = FALSE
        /\ answer' = Reply("error", <<>>)
        /\ faults' = faults + 1
        /\ op' = op /\ before' = before /\ owned' = owned /\ file' = file
        /\ part' = part /\ bak' = bak
        /\ patchbak' = patchbak /\ index' = index /\ indexBak' = indexBak
    BY <1>4, <1>1
      DEF ScanFile, Finish, Works, Fault, cardVars, KindInv, UploadInv
  <2>2. /\ answer' \in Replies /\ answer'.status = "error"
        /\ answer'.data = <<>>
    BY <1>1, <1>2, <2>1, DataFacts, OnCardIn, FilesAssumption
      DEF Request, Reply, Requests, Replies, Kinds, CardInv, KindInv,
          PatchStages
  <2>3. faults' \in Nat  BY <1>2, <2>1
  <2>4. stage' \in Stages /\ before' \in Files /\ had' \in BOOLEAN
        /\ owned' \subseteq Names
    BY <1>1, <1>2, <2>1, DataFacts, OnCardIn, FilesAssumption
      DEF ServiceInv, CardInv, Stages, UploadStages, PatchStages, IndexStages
  <2>5. CardInv'
    BY <1>1, <1>2, <2>1, <2>2, OnCardPut, OnCardUnlink, OnCardNothing,
       OnCardIn, DataFacts
      DEF CardInv
  <2>6. ServiceInv'  BY <1>1, <2>1, <2>3, <2>4, <2>2 DEF ServiceInv
  <2>7. KindInv'
    BY <1>1, <1>2, <2>1, <2>2
      DEF KindInv, UploadStages, PatchStages, IndexStages
  <2>8. UploadInv'  BY <1>1, <1>2, <2>1, <2>2 DEF UploadInv, Content
  <2>9. PatchInv'  BY <1>1, <1>2, <2>1, <2>2 DEF PatchInv, PatchStages
  <2>10. DoneInv'  BY <1>1, <1>2, <2>1, <2>2 DEF DoneInv, Done, IndexStages
  <2>11. AnswerTrue'
    BY <1>1, <1>2, <2>1, <2>2 DEF AnswerTrue, Content, KindInv
  <2>12. VideoSurvives'  BY <1>1, <1>2, <2>1, <2>2 DEF VideoSurvives
  <2>13. OwnedInv'  BY <1>1, <1>2, <2>1, <2>2 DEF OwnedInv
  <2>14. IndexInv'
    BY <1>1, <1>2, <2>1, <2>2 DEF IndexInv, Exact, Changing, Content
  <2>15. CrcExact'  BY <1>1, <1>2, <2>1, <2>2 DEF CrcExact, Content, KindInv
  <2>16. QED
    BY <2>5, <2>6, <2>7, <2>8, <2>9, <2>10, <2>11, <2>12, <2>13, <2>14, <2>15
      DEF IInv
<1>5. QED  BY <1>3, <1>4 DEF ScanFile, Finish, Works, Fault, cardVars

LEMMA WriteChoiceStep ==
  ASSUME FilesAssumption, IInv, WriteChoice
  PROVE  IInv'
<1>1. CardInv /\ ServiceInv /\ KindInv /\ UploadInv /\ PatchInv /\ DoneInv
      /\ AnswerTrue /\ VideoSurvives /\ OwnedInv /\ IndexInv /\ CrcExact
  BY DEF IInv
<1>2. /\ faults \in Nat /\ op.name \in Names /\ op.kind \in Kinds
      /\ op.data \in Files /\ before \in Files /\ op \in Requests
      /\ op.at \in Nat
  BY <1>1 DEF ServiceInv, Requests
<1>3. CASE Works /\ file' = Put(file, Playlist, op.data)
                 /\ Finish("done", <<>>)
  <2>1. /\ stage = "truncated"
        /\ stage' = "idle"
        /\ had' = FALSE
        /\ answer' = Reply("done", <<>>)
        /\ owned' = owned \cup {Playlist}
        /\ file' = Put(file, Playlist, op.data)
        /\ op' = op /\ before' = before /\ faults' = faults
        /\ part' = part /\ bak' = bak /\ patchbak' = patchbak
        /\ index' = index /\ indexBak' = indexBak
    BY <1>3, <1>1 DEF WriteChoice, Finish, Works, Fault, KindInv, UploadInv
  <2>2. /\ answer' \in Replies /\ answer'.status = "done"
        /\ answer'.data = <<>>
    BY <1>1, <1>2, <2>1, DataFacts, OnCardIn, FilesAssumption
      DEF Request, Reply, Requests, Replies, Kinds, CardInv, KindInv,
          PatchStages
  <2>3. /\ DOMAIN file' = DOMAIN file \cup {Playlist}
        /\ file'[Playlist] = op.data
        /\ \A m \in DOMAIN file : m # Playlist => file'[m] = file[m]
    BY <2>1 DEF Put, Unlink, Restrict, Nothing
  <2>4. faults' \in Nat  BY <1>2, <2>1
  <2>5. stage' \in Stages /\ before' \in Files /\ had' \in BOOLEAN
        /\ owned' \subseteq Names
    BY <1>1, <1>2, <2>1, DataFacts, OnCardIn, FilesAssumption
      DEF ServiceInv, CardInv, Stages, UploadStages, PatchStages, IndexStages
  <2>6. CardInv'
    BY <1>1, <1>2, <2>1, <2>2, <2>3, OnCardPut, OnCardUnlink, OnCardNothing,
       OnCardIn, DataFacts
      DEF CardInv
  <2>7. ServiceInv'  BY <1>1, <2>1, <2>4, <2>5, <2>2 DEF ServiceInv
  <2>8. KindInv'
    BY <1>1, <1>2, <2>1, <2>2, <2>3
      DEF KindInv, UploadStages, PatchStages, IndexStages
  <2>9. UploadInv'  BY <1>1, <1>2, <2>1, <2>2, <2>3 DEF UploadInv, Content
  <2>10. PatchInv'  BY <1>1, <1>2, <2>1, <2>2, <2>3 DEF PatchInv, PatchStages
  <2>11. DoneInv'
    BY <1>1, <1>2, <2>1, <2>2, <2>3 DEF DoneInv, Done, IndexStages
  <2>12. AnswerTrue'
    BY <1>1, <1>2, <2>1, <2>2, <2>3 DEF AnswerTrue, Content, KindInv
  <2>13. VideoSurvives'
    BY <1>1, <1>2, <2>1, <2>2, <2>3 DEF VideoSurvives, KindInv
  <2>14. OwnedInv'  BY <1>1, <1>2, <2>1, <2>2, <2>3 DEF OwnedInv, KindInv
  <2>15. IndexInv'
    BY <1>1, <1>2, <2>1, <2>2, <2>3
      DEF IndexInv, Exact, Changing, Content, KindInv
  <2>16. CrcExact'  BY <1>1, <1>2, <2>1, <2>2, <2>3 DEF CrcExact, Content
  <2>17. QED
    BY <2>6, <2>7, <2>8, <2>9, <2>10, <2>11, <2>12, <2>13, <2>14, <2>15, <2>16
      DEF IInv
<1>4. CASE Fault /\ Finish("error", <<>>) /\ file' = file
  <2>1. /\ stage = "truncated"
        /\ stage' = "idle"
        /\ had' = FALSE
        /\ answer' = Reply("error", <<>>)
        /\ owned' = owned \cup {Playlist}
        /\ faults' = faults + 1
        /\ op' = op /\ before' = before /\ file' = file /\ part' = part
        /\ bak' = bak /\ patchbak' = patchbak
        /\ index' = index /\ indexBak' = indexBak
    BY <1>4, <1>1 DEF WriteChoice, Finish, Works, Fault, KindInv, UploadInv
  <2>2. /\ answer' \in Replies /\ answer'.status = "error"
        /\ answer'.data = <<>>
    BY <1>1, <1>2, <2>1, DataFacts, OnCardIn, FilesAssumption
      DEF Request, Reply, Requests, Replies, Kinds, CardInv, KindInv,
          PatchStages
  <2>3. faults' \in Nat  BY <1>2, <2>1
  <2>4. stage' \in Stages /\ before' \in Files /\ had' \in BOOLEAN
        /\ owned' \subseteq Names
    BY <1>1, <1>2, <2>1, DataFacts, OnCardIn, FilesAssumption
      DEF ServiceInv, CardInv, Stages, UploadStages, PatchStages, IndexStages
  <2>5. CardInv'
    BY <1>1, <1>2, <2>1, <2>2, OnCardPut, OnCardUnlink, OnCardNothing,
       OnCardIn, DataFacts
      DEF CardInv
  <2>6. ServiceInv'  BY <1>1, <2>1, <2>3, <2>4, <2>2 DEF ServiceInv
  <2>7. KindInv'
    BY <1>1, <1>2, <2>1, <2>2
      DEF KindInv, UploadStages, PatchStages, IndexStages
  <2>8. UploadInv'  BY <1>1, <1>2, <2>1, <2>2 DEF UploadInv, Content
  <2>9. PatchInv'  BY <1>1, <1>2, <2>1, <2>2 DEF PatchInv, PatchStages
  <2>10. DoneInv'  BY <1>1, <1>2, <2>1, <2>2 DEF DoneInv, Done, IndexStages
  <2>11. AnswerTrue'
    BY <1>1, <1>2, <2>1, <2>2 DEF AnswerTrue, Content, KindInv
  <2>12. VideoSurvives'  BY <1>1, <1>2, <2>1, <2>2 DEF VideoSurvives, KindInv
  <2>13. OwnedInv'  BY <1>1, <1>2, <2>1, <2>2 DEF OwnedInv, KindInv
  <2>14. IndexInv'
    BY <1>1, <1>2, <2>1, <2>2 DEF IndexInv, Exact, Changing, Content, KindInv
  <2>15. CrcExact'  BY <1>1, <1>2, <2>1, <2>2 DEF CrcExact, Content
  <2>16. QED
    BY <2>5, <2>6, <2>7, <2>8, <2>9, <2>10, <2>11, <2>12, <2>13, <2>14, <2>15
      DEF IInv
<1>5. QED  BY <1>3, <1>4 DEF WriteChoice, Finish, Works, Fault

LEMMA MoveIndexStep ==
  ASSUME FilesAssumption, IInv, MoveIndex
  PROVE  IInv'
<1>1. CardInv /\ ServiceInv /\ KindInv /\ UploadInv /\ PatchInv /\ DoneInv
      /\ AnswerTrue /\ VideoSurvives /\ OwnedInv /\ IndexInv /\ CrcExact
  BY DEF IInv
<1>2. /\ faults \in Nat /\ op.name \in Names /\ op.kind \in Kinds
      /\ op.data \in Files /\ before \in Files /\ op \in Requests
      /\ op.at \in Nat
  BY <1>1 DEF ServiceInv, Requests
<1>3. CASE Works /\ Go("replace") /\ indexBak' = index /\ index' = Nothing
  <2>1. /\ stage = "index"
        /\ stage' = "replace"
        /\ index' = Nothing
        /\ indexBak' = index
        /\ op' = op /\ had' = had /\ answer' = answer /\ before' = before
        /\ owned' = owned /\ faults' = faults
        /\ file' = file /\ part' = part /\ bak' = bak /\ patchbak' = patchbak
    BY <1>3, <1>1
      DEF MoveIndex, Go, Finish, Respond, Works, Fault, KindInv, UploadInv
  <2>2. /\ DOMAIN index' = {}
    BY <2>1 DEF Put, Unlink, Restrict, Nothing
  <2>3. faults' \in Nat  BY <1>2, <2>1
  <2>4. stage' \in Stages /\ before' \in Files /\ had' \in BOOLEAN
        /\ owned' \subseteq Names
    BY <1>1, <1>2, <2>1, DataFacts, OnCardIn, FilesAssumption
      DEF ServiceInv, CardInv, Stages, UploadStages, PatchStages, IndexStages
  <2>5. CardInv'
    BY <1>1, <1>2, <2>1, <2>2, OnCardPut, OnCardUnlink, OnCardNothing,
       OnCardIn, DataFacts
      DEF CardInv
  <2>6. ServiceInv'  BY <1>1, <2>1, <2>3, <2>4 DEF ServiceInv
  <2>7. KindInv'
    BY <1>1, <1>2, <2>1, <2>2
      DEF KindInv, UploadStages, PatchStages, IndexStages
  <2>8. UploadInv'  BY <1>1, <1>2, <2>1, <2>2 DEF UploadInv, Content
  <2>9. PatchInv'  BY <1>1, <1>2, <2>1, <2>2 DEF PatchInv, PatchStages
  <2>10. DoneInv'  BY <1>1, <1>2, <2>1, <2>2 DEF DoneInv, Done, IndexStages
  <2>11. AnswerTrue'  BY <1>1, <1>2, <2>1, <2>2 DEF AnswerTrue, Content
  <2>12. VideoSurvives'  BY <1>1, <1>2, <2>1, <2>2 DEF VideoSurvives
  <2>13. OwnedInv'  BY <1>1, <1>2, <2>1, <2>2 DEF OwnedInv
  <2>14. IndexInv'
    BY <1>1, <1>2, <2>1, <2>2 DEF IndexInv, Exact, Changing, Content
  <2>15. CrcExact'  BY <1>1, <1>2, <2>1, <2>2 DEF CrcExact, Content
  <2>16. QED
    BY <2>5, <2>6, <2>7, <2>8, <2>9, <2>10, <2>11, <2>12, <2>13, <2>14, <2>15
      DEF IInv
<1>4. CASE Fault /\ Respond /\ indexBak' \in {indexBak, Nothing}
                 /\ index' = index
  <2>1. /\ stage = "index"
        /\ stage' = "idle"
        /\ had' = FALSE
        /\ answer' = IF op.kind \in {"crc", "blockcrc"}
                     THEN Reply("crc", op.data)
                     ELSE Reply("done", <<>>)
        /\ faults' = faults + 1
        /\ indexBak' \in {indexBak, Nothing}
        /\ op' = op /\ before' = before /\ owned' = owned /\ file' = file
        /\ part' = part /\ bak' = bak
        /\ patchbak' = patchbak /\ index' = index
    BY <1>4, <1>1
      DEF MoveIndex, Go, Finish, Respond, Works, Fault, KindInv, UploadInv
  <2>2. /\ answer' \in Replies
        /\ answer'.status = IF op.kind \in {"crc", "blockcrc"}
                            THEN "crc" ELSE "done"
        /\ op.kind \in {"crc", "blockcrc"} => answer'.data = op.data
    BY <1>1, <1>2, <2>1, DataFacts, OnCardIn, FilesAssumption
      DEF Request, Reply, Requests, Replies, Kinds, CardInv, KindInv,
          PatchStages
  <2>3. faults' \in Nat  BY <1>2, <2>1
  <2>4. stage' \in Stages /\ before' \in Files /\ had' \in BOOLEAN
        /\ owned' \subseteq Names
    BY <1>1, <1>2, <2>1, DataFacts, OnCardIn, FilesAssumption
      DEF ServiceInv, CardInv, Stages, UploadStages, PatchStages, IndexStages
  <2>5. CardInv'
    BY <1>1, <1>2, <2>1, <2>2, OnCardPut, OnCardUnlink, OnCardNothing,
       OnCardIn, DataFacts
      DEF CardInv
  <2>6. ServiceInv'  BY <1>1, <2>1, <2>3, <2>4, <2>2 DEF ServiceInv
  <2>7. KindInv'
    BY <1>1, <1>2, <2>1, <2>2
      DEF KindInv, UploadStages, PatchStages, IndexStages
  <2>8. UploadInv'  BY <1>1, <1>2, <2>1, <2>2 DEF UploadInv, Content
  <2>9. PatchInv'  BY <1>1, <1>2, <2>1, <2>2 DEF PatchInv, PatchStages
  <2>10. DoneInv'  BY <1>1, <1>2, <2>1, <2>2 DEF DoneInv, Done, IndexStages
  <2>11. AnswerTrue'
    BY <1>1, <1>2, <2>1, <2>2
      DEF AnswerTrue, Content, DoneInv, Done, IndexStages, KindInv
  <2>12. VideoSurvives'  BY <1>1, <1>2, <2>1, <2>2 DEF VideoSurvives
  <2>13. OwnedInv'  BY <1>1, <1>2, <2>1, <2>2 DEF OwnedInv
  <2>14. IndexInv'
    BY <1>1, <1>2, <2>1, <2>2 DEF IndexInv, Exact, Changing, Content
  <2>15. CrcExact'
    BY <1>1, <1>2, <2>1, <2>2
      DEF CrcExact, Content, DoneInv, Done, IndexStages, KindInv
  <2>16. QED
    BY <2>5, <2>6, <2>7, <2>8, <2>9, <2>10, <2>11, <2>12, <2>13, <2>14, <2>15
      DEF IInv
<1>5. QED  BY <1>3, <1>4 DEF MoveIndex, Go, Finish, Respond, Works, Fault

LEMMA ReplaceIndexStep ==
  ASSUME FilesAssumption, IInv, ReplaceIndex
  PROVE  IInv'
<1>1. CardInv /\ ServiceInv /\ KindInv /\ UploadInv /\ PatchInv /\ DoneInv
      /\ AnswerTrue /\ VideoSurvives /\ OwnedInv /\ IndexInv /\ CrcExact
  BY DEF IInv
<1>2. /\ faults \in Nat /\ op.name \in Names /\ op.kind \in Kinds
      /\ op.data \in Files /\ before \in Files /\ op \in Requests
      /\ op.at \in Nat
  BY <1>1 DEF ServiceInv, Requests
<1>3. CASE Works /\ index' = Updated(indexBak) /\ indexBak' = Nothing
  <2>1. /\ stage = "replace"
        /\ stage' = "idle"
        /\ had' = FALSE
        /\ answer' = IF op.kind \in {"crc", "blockcrc"}
                     THEN Reply("crc", op.data)
                     ELSE Reply("done", <<>>)
        /\ index' = IF op.kind \in {"upload", "crc", "blockcrc"}
                      THEN Put(indexBak, op.name, op.data)
                      ELSE Unlink(indexBak, op.name)
        /\ indexBak' = Nothing
        /\ op' = op /\ before' = before /\ owned' = owned
        /\ faults' = faults /\ file' = file /\ part' = part
        /\ bak' = bak /\ patchbak' = patchbak
    BY <1>3, <1>1
      DEF ReplaceIndex, Finish, Respond, Works, Fault, Updated, KindInv,
          UploadInv
  <2>2. /\ answer' \in Replies
        /\ answer'.status = IF op.kind \in {"crc", "blockcrc"}
                            THEN "crc" ELSE "done"
        /\ op.kind \in {"crc", "blockcrc"} => answer'.data = op.data
    BY <1>1, <1>2, <2>1, DataFacts, OnCardIn, FilesAssumption
      DEF Request, Reply, Requests, Replies, Kinds, CardInv, KindInv,
          PatchStages
  <2>3. /\ DOMAIN indexBak' = {}
    BY <2>1 DEF Put, Unlink, Restrict, Nothing
  <2>4. \A m \in DOMAIN index' :
          \/ /\ m = op.name /\ op.kind \in {"upload", "crc", "blockcrc"}
             /\ index'[m] = op.data
          \/ m # op.name /\ m \in DOMAIN indexBak /\ index'[m] = indexBak[m]
    BY <2>1 DEF Put, Unlink, Restrict
  <2>5. faults' \in Nat  BY <1>2, <2>1
  <2>6. stage' \in Stages /\ before' \in Files /\ had' \in BOOLEAN
        /\ owned' \subseteq Names
    BY <1>1, <1>2, <2>1, DataFacts, OnCardIn, FilesAssumption
      DEF ServiceInv, CardInv, Stages, UploadStages, PatchStages, IndexStages
  <2>7. CardInv'
    BY <1>1, <1>2, <2>1, <2>2, <2>3, <2>4, OnCardPut, OnCardUnlink,
       OnCardNothing, OnCardIn, DataFacts
      DEF CardInv
  <2>8. ServiceInv'  BY <1>1, <2>1, <2>5, <2>6, <2>2 DEF ServiceInv
  <2>9. KindInv'
    BY <1>1, <1>2, <2>1, <2>2, <2>3, <2>4
      DEF KindInv, UploadStages, PatchStages, IndexStages
  <2>10. UploadInv'
    BY <1>1, <1>2, <2>1, <2>2, <2>3, <2>4 DEF UploadInv, Content
  <2>11. PatchInv'
    BY <1>1, <1>2, <2>1, <2>2, <2>3, <2>4 DEF PatchInv, PatchStages
  <2>12. DoneInv'
    BY <1>1, <1>2, <2>1, <2>2, <2>3, <2>4 DEF DoneInv, Done, IndexStages
  <2>13. AnswerTrue'
    BY <1>1, <1>2, <2>1, <2>2, <2>3, <2>4
      DEF AnswerTrue, Content, DoneInv, Done, IndexStages, KindInv
  <2>14. VideoSurvives'
    BY <1>1, <1>2, <2>1, <2>2, <2>3, <2>4 DEF VideoSurvives
  <2>15. OwnedInv'  BY <1>1, <1>2, <2>1, <2>2, <2>3, <2>4 DEF OwnedInv
  <2>16. IndexInv'
    BY <1>1, <1>2, <2>1, <2>2, <2>3, <2>4
      DEF IndexInv, Exact, Changing, Content, DoneInv, Done, IndexStages,
          KindInv
  <2>17. CrcExact'
    BY <1>1, <1>2, <2>1, <2>2, <2>3, <2>4
      DEF CrcExact, Content, DoneInv, Done, IndexStages, KindInv
  <2>18. QED
    BY <2>7, <2>8, <2>9, <2>10, <2>11, <2>12, <2>13, <2>14, <2>15, <2>16,
       <2>17
      DEF IInv
<1>4. CASE Fault /\ index' = Updated(indexBak) /\ indexBak' = indexBak
  <2>1. /\ stage = "replace"
        /\ stage' = "idle"
        /\ had' = FALSE
        /\ answer' = IF op.kind \in {"crc", "blockcrc"}
                     THEN Reply("crc", op.data)
                     ELSE Reply("done", <<>>)
        /\ faults' = faults + 1
        /\ index' = IF op.kind \in {"upload", "crc", "blockcrc"}
                      THEN Put(indexBak, op.name, op.data)
                      ELSE Unlink(indexBak, op.name)
        /\ op' = op /\ before' = before /\ owned' = owned /\ file' = file
        /\ part' = part /\ bak' = bak
        /\ patchbak' = patchbak /\ indexBak' = indexBak
    BY <1>4, <1>1
      DEF ReplaceIndex, Finish, Respond, Works, Fault, Updated, KindInv,
          UploadInv
  <2>2. /\ answer' \in Replies
        /\ answer'.status = IF op.kind \in {"crc", "blockcrc"}
                            THEN "crc" ELSE "done"
        /\ op.kind \in {"crc", "blockcrc"} => answer'.data = op.data
    BY <1>1, <1>2, <2>1, DataFacts, OnCardIn, FilesAssumption
      DEF Request, Reply, Requests, Replies, Kinds, CardInv, KindInv,
          PatchStages
  <2>3. faults' \in Nat  BY <1>2, <2>1
  <2>4. stage' \in Stages /\ before' \in Files /\ had' \in BOOLEAN
        /\ owned' \subseteq Names
    BY <1>1, <1>2, <2>1, DataFacts, OnCardIn, FilesAssumption
      DEF ServiceInv, CardInv, Stages, UploadStages, PatchStages, IndexStages
  <2>5. CardInv'
    BY <1>1, <1>2, <2>1, <2>2, OnCardPut, OnCardUnlink, OnCardNothing,
       OnCardIn, DataFacts
      DEF CardInv
  <2>6. ServiceInv'  BY <1>1, <2>1, <2>3, <2>4, <2>2 DEF ServiceInv
  <2>7. KindInv'
    BY <1>1, <1>2, <2>1, <2>2
      DEF KindInv, UploadStages, PatchStages, IndexStages
  <2>8. UploadInv'  BY <1>1, <1>2, <2>1, <2>2 DEF UploadInv, Content
  <2>9. PatchInv'  BY <1>1, <1>2, <2>1, <2>2 DEF PatchInv, PatchStages
  <2>10. DoneInv'  BY <1>1, <1>2, <2>1, <2>2 DEF DoneInv, Done, IndexStages
  <2>11. AnswerTrue'
    BY <1>1, <1>2, <2>1, <2>2
      DEF AnswerTrue, Content, DoneInv, Done, IndexStages, KindInv
  <2>12. VideoSurvives'  BY <1>1, <1>2, <2>1, <2>2 DEF VideoSurvives
  <2>13. OwnedInv'  BY <1>1, <1>2, <2>1, <2>2 DEF OwnedInv
  <2>14. IndexInv'
    BY <1>1, <1>2, <2>1, <2>2 DEF IndexInv, Exact, Changing, Content
  <2>15. CrcExact'
    BY <1>1, <1>2, <2>1, <2>2
      DEF CrcExact, Content, DoneInv, Done, IndexStages, KindInv
  <2>16. QED
    BY <2>5, <2>6, <2>7, <2>8, <2>9, <2>10, <2>11, <2>12, <2>13, <2>14, <2>15
      DEF IInv
<1>5. CASE Fault /\ index' = indexBak /\ indexBak' = Nothing
  <2>1. /\ stage = "replace"
        /\ stage' = "idle"
        /\ had' = FALSE
        /\ answer' = IF op.kind \in {"crc", "blockcrc"}
                     THEN Reply("crc", op.data)
                     ELSE Reply("done", <<>>)
        /\ faults' = faults + 1
        /\ index' = indexBak
        /\ indexBak' = Nothing
        /\ op' = op /\ before' = before /\ owned' = owned /\ file' = file
        /\ part' = part /\ bak' = bak
        /\ patchbak' = patchbak
    BY <1>5, <1>1
      DEF ReplaceIndex, Finish, Respond, Works, Fault, Updated, KindInv,
          UploadInv
  <2>2. /\ answer' \in Replies
        /\ answer'.status = IF op.kind \in {"crc", "blockcrc"}
                            THEN "crc" ELSE "done"
        /\ op.kind \in {"crc", "blockcrc"} => answer'.data = op.data
    BY <1>1, <1>2, <2>1, DataFacts, OnCardIn, FilesAssumption
      DEF Request, Reply, Requests, Replies, Kinds, CardInv, KindInv,
          PatchStages
  <2>3. /\ DOMAIN indexBak' = {}
    BY <2>1 DEF Put, Unlink, Restrict, Nothing
  <2>4. faults' \in Nat  BY <1>2, <2>1
  <2>5. stage' \in Stages /\ before' \in Files /\ had' \in BOOLEAN
        /\ owned' \subseteq Names
    BY <1>1, <1>2, <2>1, DataFacts, OnCardIn, FilesAssumption
      DEF ServiceInv, CardInv, Stages, UploadStages, PatchStages, IndexStages
  <2>6. CardInv'
    BY <1>1, <1>2, <2>1, <2>2, <2>3, OnCardPut, OnCardUnlink, OnCardNothing,
       OnCardIn, DataFacts
      DEF CardInv
  <2>7. ServiceInv'  BY <1>1, <2>1, <2>4, <2>5, <2>2 DEF ServiceInv
  <2>8. KindInv'
    BY <1>1, <1>2, <2>1, <2>2, <2>3
      DEF KindInv, UploadStages, PatchStages, IndexStages
  <2>9. UploadInv'  BY <1>1, <1>2, <2>1, <2>2, <2>3 DEF UploadInv, Content
  <2>10. PatchInv'  BY <1>1, <1>2, <2>1, <2>2, <2>3 DEF PatchInv, PatchStages
  <2>11. DoneInv'
    BY <1>1, <1>2, <2>1, <2>2, <2>3 DEF DoneInv, Done, IndexStages
  <2>12. AnswerTrue'
    BY <1>1, <1>2, <2>1, <2>2, <2>3
      DEF AnswerTrue, Content, DoneInv, Done, IndexStages, KindInv
  <2>13. VideoSurvives'  BY <1>1, <1>2, <2>1, <2>2, <2>3 DEF VideoSurvives
  <2>14. OwnedInv'  BY <1>1, <1>2, <2>1, <2>2, <2>3 DEF OwnedInv
  <2>15. IndexInv'
    BY <1>1, <1>2, <2>1, <2>2, <2>3 DEF IndexInv, Exact, Changing, Content
  <2>16. CrcExact'
    BY <1>1, <1>2, <2>1, <2>2, <2>3
      DEF CrcExact, Content, DoneInv, Done, IndexStages, KindInv
  <2>17. QED
    BY <2>6, <2>7, <2>8, <2>9, <2>10, <2>11, <2>12, <2>13, <2>14, <2>15, <2>16
      DEF IInv
<1>6. CASE faults' = faults + 2 /\ UNCHANGED <<index, indexBak, before>>
  <2>1. /\ stage = "replace"
        /\ stage' = "idle"
        /\ had' = FALSE
        /\ answer' = IF op.kind \in {"crc", "blockcrc"}
                     THEN Reply("crc", op.data)
                     ELSE Reply("done", <<>>)
        /\ faults' = faults + 2
        /\ op' = op /\ before' = before /\ owned' = owned /\ file' = file
        /\ part' = part /\ bak' = bak
        /\ patchbak' = patchbak /\ index' = index /\ indexBak' = indexBak
    BY <1>6, <1>1
      DEF ReplaceIndex, Finish, Respond, Works, Fault, Updated, KindInv,
          UploadInv
  <2>2. /\ answer' \in Replies
        /\ answer'.status = IF op.kind \in {"crc", "blockcrc"}
                            THEN "crc" ELSE "done"
        /\ op.kind \in {"crc", "blockcrc"} => answer'.data = op.data
    BY <1>1, <1>2, <2>1, DataFacts, OnCardIn, FilesAssumption
      DEF Request, Reply, Requests, Replies, Kinds, CardInv, KindInv,
          PatchStages
  <2>3. faults' \in Nat  BY <1>2, <2>1
  <2>4. stage' \in Stages /\ before' \in Files /\ had' \in BOOLEAN
        /\ owned' \subseteq Names
    BY <1>1, <1>2, <2>1, DataFacts, OnCardIn, FilesAssumption
      DEF ServiceInv, CardInv, Stages, UploadStages, PatchStages, IndexStages
  <2>5. CardInv'
    BY <1>1, <1>2, <2>1, <2>2, OnCardPut, OnCardUnlink, OnCardNothing,
       OnCardIn, DataFacts
      DEF CardInv
  <2>6. ServiceInv'  BY <1>1, <2>1, <2>3, <2>4, <2>2 DEF ServiceInv
  <2>7. KindInv'
    BY <1>1, <1>2, <2>1, <2>2
      DEF KindInv, UploadStages, PatchStages, IndexStages
  <2>8. UploadInv'  BY <1>1, <1>2, <2>1, <2>2 DEF UploadInv, Content
  <2>9. PatchInv'  BY <1>1, <1>2, <2>1, <2>2 DEF PatchInv, PatchStages
  <2>10. DoneInv'  BY <1>1, <1>2, <2>1, <2>2 DEF DoneInv, Done, IndexStages
  <2>11. AnswerTrue'
    BY <1>1, <1>2, <2>1, <2>2
      DEF AnswerTrue, Content, DoneInv, Done, IndexStages, KindInv
  <2>12. VideoSurvives'  BY <1>1, <1>2, <2>1, <2>2 DEF VideoSurvives
  <2>13. OwnedInv'  BY <1>1, <1>2, <2>1, <2>2 DEF OwnedInv
  <2>14. IndexInv'
    BY <1>1, <1>2, <2>1, <2>2 DEF IndexInv, Exact, Changing, Content
  <2>15. CrcExact'
    BY <1>1, <1>2, <2>1, <2>2
      DEF CrcExact, Content, DoneInv, Done, IndexStages, KindInv
  <2>16. QED
    BY <2>5, <2>6, <2>7, <2>8, <2>9, <2>10, <2>11, <2>12, <2>13, <2>14, <2>15
      DEF IInv
<1>7. QED
  BY <1>3, <1>4, <1>5, <1>6
    DEF ReplaceIndex, Finish, Respond, Works, Fault, Updated

LEMMA PowerLossStep ==
  ASSUME FilesAssumption, IInv, PowerLoss
  PROVE  IInv'
<1>1. CardInv /\ ServiceInv /\ KindInv /\ UploadInv /\ PatchInv /\ DoneInv
      /\ AnswerTrue /\ VideoSurvives /\ OwnedInv /\ IndexInv /\ CrcExact
  BY DEF IInv
<1>2. /\ faults \in Nat /\ op.name \in Names /\ op.kind \in Kinds
      /\ op.data \in Files /\ before \in Files /\ op \in Requests
      /\ op.at \in Nat
  BY <1>1 DEF ServiceInv, Requests
<1>3. IInv'
  <2>1. /\ stage # "idle"
        /\ stage' = "idle"
        /\ op' = Request("none", Playlist, <<>>, 0)
        /\ had' = FALSE
        /\ answer' = Reply("none", <<>>)
        /\ faults' = faults + 1
        /\ before' = before /\ owned' = owned /\ file' = file
        /\ part' = part /\ bak' = bak /\ patchbak' = patchbak
        /\ index' = index /\ indexBak' = indexBak
    BY <1>1
      DEF PowerLoss, Fault, NoReply, NoRequest, cardVars, KindInv, UploadInv
  <2>2. /\ op' \in Requests /\ op'.kind = "none" /\ op'.name = Playlist
        /\ op'.data = <<>> /\ op'.at = 0
        /\ answer' \in Replies /\ answer'.status = "none"
        /\ answer'.data = <<>>
    BY <1>1, <1>2, <2>1, DataFacts, OnCardIn, FilesAssumption
      DEF Request, Reply, Requests, Replies, Kinds, CardInv, KindInv,
          PatchStages
  <2>3. faults' \in Nat  BY <1>2, <2>1
  <2>4. stage' \in Stages /\ before' \in Files /\ had' \in BOOLEAN
        /\ owned' \subseteq Names
    BY <1>1, <1>2, <2>1, DataFacts, OnCardIn, FilesAssumption
      DEF ServiceInv, CardInv, Stages, UploadStages, PatchStages, IndexStages
  <2>5. CardInv'
    BY <1>1, <1>2, <2>1, <2>2, OnCardPut, OnCardUnlink, OnCardNothing,
       OnCardIn, DataFacts
      DEF CardInv
  <2>6. ServiceInv'  BY <1>1, <2>1, <2>3, <2>4, <2>2 DEF ServiceInv
  <2>7. KindInv'
    BY <1>1, <1>2, <2>1, <2>2
      DEF KindInv, UploadStages, PatchStages, IndexStages
  <2>8. UploadInv'  BY <1>1, <1>2, <2>1, <2>2 DEF UploadInv, Content
  <2>9. PatchInv'  BY <1>1, <1>2, <2>1, <2>2 DEF PatchInv, PatchStages
  <2>10. DoneInv'  BY <1>1, <1>2, <2>1, <2>2 DEF DoneInv, Done, IndexStages
  <2>11. AnswerTrue'  BY <1>1, <1>2, <2>1, <2>2 DEF AnswerTrue, Content
  <2>12. VideoSurvives'
    BY <1>1, <1>2, <2>1, <2>2 DEF VideoSurvives, OwnedInv, UploadInv
  <2>13. OwnedInv'  BY <1>1, <1>2, <2>1, <2>2 DEF OwnedInv
  <2>14. IndexInv'
    BY <1>1, <1>2, <2>1, <2>2 DEF IndexInv, Exact, Changing, Content
  <2>15. CrcExact'  BY <1>1, <1>2, <2>1, <2>2 DEF CrcExact, Content
  <2>16. QED
    BY <2>5, <2>6, <2>7, <2>8, <2>9, <2>10, <2>11, <2>12, <2>13, <2>14, <2>15
      DEF IInv
<1>4. QED  BY <1>3

-----------------------------------------------------------------------------
(* The theorems.                                                           *)

LEMMA InitInv == ASSUME FilesAssumption, Init PROVE IInv
<1>1. OnCard(Nothing, Files) /\ OnCard(Nothing, Saved)  BY OnCardNothing
<1>2. NoRequest \in Requests /\ NoRequest.kind = "none"
  BY FilesAssumption, DataFacts DEF NoRequest, Request, Requests, Kinds
<1>3. NoReply \in Replies /\ NoReply.status = "none"
  BY DataFacts DEF NoReply, Reply, Replies
<1>4. DOMAIN Nothing = {}  BY DEF Nothing
<1>5. CardInv /\ ServiceInv
  BY <1>1, <1>2, <1>3, DataFacts DEF Init, CardInv, ServiceInv, Stages
<1>6. KindInv /\ UploadInv /\ PatchInv /\ DoneInv
  BY <1>2, <1>3 DEF Init, KindInv, UploadInv, PatchInv, DoneInv,
     UploadStages, PatchStages, IndexStages
<1>7. AnswerTrue /\ VideoSurvives /\ OwnedInv /\ IndexInv /\ CrcExact
  BY <1>3, <1>4
     DEF Init, AnswerTrue, VideoSurvives, OwnedInv, IndexInv, CrcExact, Exact
<1>8. QED  BY <1>5, <1>6, <1>7 DEF IInv

LEMMA NextInv == ASSUME FilesAssumption, IInv, [Next]_vars PROVE IInv'
<1>1. CASE Request_
  BY <1>1, BeginUploadStep, BeginPatchStep, BeginDeleteStep,
     BeginChecksumStep, BeginChoiceStep DEF Request_
<1>2. CASE Upload
  BY <1>2, ReceiveUploadStep, RereadUploadStep, DropBackupStep,
     MoveTargetStep, MovePartStep, DropReplacedStep DEF Upload
<1>3. CASE Patch
  BY <1>3, ReceivePatchStep, SaveRangeStep, ApplyRangeStep, WriteRangeStep,
     CheckRangeStep, RestoreRangeStep DEF Patch
<1>4. CASE Other
  BY <1>4, RemoveFileStep, LookUpStep, ScanFileStep, WriteChoiceStep DEF Other
<1>5. CASE Index  BY <1>5, MoveIndexStep, ReplaceIndexStep DEF Index
<1>6. CASE PowerLoss  BY <1>6, PowerLossStep
<1>7. CASE UNCHANGED vars
  BY <1>7 DEF vars, cardVars, opVars, histVars, IInv, CardInv, ServiceInv,
     KindInv, UploadInv, PatchInv, DoneInv, Done, AnswerTrue, VideoSurvives,
     OwnedInv, IndexInv, Exact, CrcExact, Content
<1>8. QED  BY <1>1, <1>2, <1>3, <1>4, <1>5, <1>6, <1>7 DEF Next

\* Through every service and every fault: a backup is what it is said to be, a
\* service that comes to the index has done its work, and without a fault the
\* index tells of every file but the one being changed.
THEOREM FilesInvariant == Spec => []IInv
<1>1. Init => IInv  BY InitInv, FilesAssumption
<1>2. IInv /\ [Next]_vars => IInv'  BY NextInv, FilesAssumption
<1>3. QED  BY <1>1, <1>2, PTL DEF Spec

LEMMA FaultsBounded == Spec => [](faults \in 0 .. MaxFaults)
<1>1. Init => faults \in 0 .. MaxFaults  BY FilesAssumption DEF Init
<1>2. faults \in 0 .. MaxFaults /\ [Next]_vars => (faults \in 0 .. MaxFaults)'
  <2> SUFFICES ASSUME faults \in 0 .. MaxFaults, [Next]_vars
      PROVE  faults' \in 0 .. MaxFaults
    OBVIOUS
  <2>1. \/ UNCHANGED faults
        \/ faults < MaxFaults /\ faults' = faults + 1
        \/ faults + 2 <= MaxFaults /\ faults' = faults + 2
    <3>1. CASE Request_
      BY <3>1 DEF Request_, BeginUpload, BeginPatch, BeginDelete,
         BeginChecksum, BeginChoice, Begin
    <3>2. CASE Upload
      BY <3>2 DEF Upload, ReceiveUpload, RereadUpload, DropBackup, MoveTarget,
         MovePart, DropReplaced, Fault, Works
    <3>3. CASE Patch
      BY <3>3 DEF Patch, ReceivePatch, SaveRange, ApplyRange, WriteRange,
         CheckRange, RestoreRange, Fault, Works
    <3>4. CASE Other
      BY <3>4 DEF Other, RemoveFile, LookUp, ScanFile, WriteChoice, Fault,
         Works
    <3>5. CASE Index
      BY <3>5 DEF Index, MoveIndex, ReplaceIndex, Fault, Works
    <3>6. CASE PowerLoss  BY <3>6 DEF PowerLoss, Fault
    <3>7. CASE UNCHANGED vars  BY <3>7 DEF vars, histVars
    <3>8. QED  BY <3>1, <3>2, <3>3, <3>4, <3>5, <3>6, <3>7 DEF Next
  <2>2. QED  BY <2>1, FilesAssumption
<1>3. QED  BY <1>1, <1>2, PTL DEF Spec

\* The card has files of blocks, and a service what it needs of them: an upload
\* its .part file and a patch its backup in every stage that reads them.
THEOREM TypeCorrect == Spec => []TypeOK
<1>1. IInv /\ faults \in 0 .. MaxFaults => TypeOK
  BY DEF IInv, CardInv, ServiceInv, KindInv, Requests, Replies, Files, Saved,
     TypeOK, Stages, UploadStages, PatchStages, IndexStages
<1>2. QED  BY <1>1, FilesInvariant, FaultsBounded, PTL

\* An answer says what is on the card: done is done in full, and after a single
\* fault an upload or a patch that failed has changed nothing.
THEOREM AnswersTrue == Spec => []AnswerTrue
<1>1. IInv => AnswerTrue  BY DEF IInv
<1>2. QED  BY <1>1, FilesInvariant, PTL

\* No single card error or power loss takes a video away.
THEOREM VideosSurvive == Spec => []VideoSurvives
<1>1. IInv => VideoSurvives  BY DEF IInv
<1>2. QED  BY <1>1, FilesInvariant, PTL

\* A checksum that is taken from the index is that of the file.
THEOREM ChecksumsExact == Spec => []CrcExact
<1>1. IInv => CrcExact  BY DEF IInv
<1>2. QED  BY <1>1, FilesInvariant, PTL

\* A backup is removed by a new patch of its file, or when the block it is for
\* is read back as the client sent it, or after it was written back.
LEMMA BackupRemoved ==
  ASSUME FilesAssumption, IInv, [Next]_vars,
         NEW n \in DOMAIN patchbak \ DOMAIN patchbak'
  PROVE  \/ stage = "idle" /\ op'.kind = "patch"
         \/ CheckRange /\ n = op.name /\ file' = file
              /\ file[n][op.at] = op.data[1]
         \/ RestoreRange /\ n = op.name
              /\ file' = SetBlock(n, patchbak[n].block)
<1>1. CASE Request_
  <2>1. CASE \E m \in DOMAIN file : \E at \in 1 .. Len(file[m]), b \in Blocks :
               BeginPatch(m, at, b)
    BY <2>1 DEF BeginPatch, Begin, Request
  <2>2. CASE ~\E m \in DOMAIN file : \E at \in 1 .. Len(file[m]), b \in Blocks :
               BeginPatch(m, at, b)
    BY <1>1, <2>2 DEF Request_, BeginUpload, BeginDelete, BeginChecksum,
       BeginChoice, cardVars
  <2>3. QED  BY <2>1, <2>2
<1>2. CASE Upload
  BY <1>2 DEF Upload, ReceiveUpload, RereadUpload, DropBackup, MoveTarget,
     MovePart, DropReplaced
<1>3. CASE CheckRange  BY <1>3 DEF CheckRange, Unlink, Restrict
<1>4. CASE RestoreRange  BY <1>4 DEF RestoreRange, Unlink, Restrict
<1>5. CASE ReceivePatch \/ SaveRange \/ ApplyRange \/ WriteRange
  BY <1>5 DEF ReceivePatch, SaveRange, ApplyRange, WriteRange, Put, cardVars
<1>6. CASE Other
  BY <1>6 DEF Other, RemoveFile, LookUp, ScanFile, WriteChoice, cardVars
<1>7. CASE Index  BY <1>7 DEF Index, MoveIndex, ReplaceIndex
<1>8. CASE PowerLoss \/ UNCHANGED vars  BY <1>8 DEF PowerLoss, vars, cardVars
<1>9. QED
  BY <1>1, <1>2, <1>3, <1>4, <1>5, <1>6, <1>7, <1>8 DEF Next, Patch

\* A block that a patch has left half written keeps its backup.
THEOREM BackupsKept == Spec => TornKeepsBackup
<1> DEFINE Kept == \A n \in DOMAIN patchbak \ DOMAIN patchbak' :
                     HalfWritten(file', n, patchbak[n].at) =>
                       \/ patchbak[n].block = Torn
                       \/ stage = "idle" /\ op'.kind = "patch"
<1>1. IInv /\ [Next]_vars => [Kept]_vars
  <2> SUFFICES ASSUME IInv, [Next]_vars,
                      NEW n \in DOMAIN patchbak \ DOMAIN patchbak',
                      HalfWritten(file', n, patchbak[n].at),
                      ~(stage = "idle" /\ op'.kind = "patch")
      PROVE  patchbak[n].block = Torn
    OBVIOUS
  <2>1. CardInv /\ ServiceInv /\ KindInv /\ PatchInv  BY DEF IInv
  <2>2. CASE CheckRange /\ n = op.name /\ file' = file
               /\ file[n][op.at] = op.data[1]
    <3>1. stage = "check"  BY <2>2 DEF CheckRange
    <3>2. patchbak[n].at = op.at
      BY <2>1, <2>2, <3>1 DEF PatchInv, PatchStages
    <3>3. op.data[1] # Torn
      BY <2>1, <3>1, PatchFacts, FilesAssumption DEF PatchStages
    <3>4. QED  BY <2>2, <3>2, <3>3 DEF HalfWritten
  <2>3. CASE RestoreRange /\ n = op.name
               /\ file' = SetBlock(n, patchbak[n].block)
    <3>1. stage = "restore"  BY <2>3 DEF RestoreRange
    <3>2. /\ patchbak[n].at = op.at /\ patchbak[n].block = before[op.at]
          /\ n \in DOMAIN file
      BY <2>1, <2>3, <3>1 DEF PatchInv, PatchStages
    <3>3. before[op.at] \in Block_ /\
          [before EXCEPT ![op.at] = before[op.at]][op.at] = before[op.at] /\
          [file[n] EXCEPT ![op.at] = before[op.at]]
            = [before EXCEPT ![op.at] = before[op.at]]
      BY <2>1, <2>3, <3>1, PatchFacts, FilesAssumption DEF PatchStages
    <3>4. file'[n][op.at] = before[op.at]
      BY <2>3, <3>2, <3>3 DEF SetBlock, Put
    <3>5. QED  BY <3>2, <3>4 DEF HalfWritten
  <2>4. QED  BY <2>2, <2>3, BackupRemoved, FilesAssumption
<1>2. QED  BY <1>1, FilesInvariant, PTL DEF Spec, TornKeepsBackup
=============================================================================

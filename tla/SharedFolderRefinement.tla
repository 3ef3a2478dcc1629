----------------------- MODULE SharedFolderRefinement -----------------------
(* SharedFolder implements CloudFolder, for every value of its constants,  *)
(* when no two sessions use the same name: every step of a session is a    *)
(* step of the abstract folder or leaves it as it is.                      *)
EXTENDS SharedFolderProofs

(* What the name refers to on the disk.                                    *)
Plain(n) == IF Exists(n) THEN data[dir[n]] ELSE Absent

(* What the abstract folder has under each name.                           *)
ViewOK ==
    /\ \A n \in Names : CloudFile(n) \in Content \cup {Absent}
    /\ \A n \in Names : CloudFile(n) # Absent <=> Exists(n)
    /\ \A n \in Names :
          (\A t \in Sessions : Uploading(t) => File(t) # n) => CloudFile(n) = Plain(n)
    /\ \A s \in Sessions : Uploading(s) => CloudFile(File(s)) = SubSeq(All(s), 1, wrote[s])
    /\ \A s \in Sessions : cmd[s].op # "list" /\ ~Uploading(s) =>
          /\ CloudFile(File(s)) = Plain(File(s))
          /\ CloudFile(cmd[s].new) = Plain(cmd[s].new)

LEMMA ViewHolds == IInv /\ Apart => ViewOK
<1> SUFFICES ASSUME IInv, Apart PROVE ViewOK
  OBVIOUS
<1>1. TypeOK /\ \A s \in Sessions : CommandOK(s) /\ OpenOK(s) /\ ApartOK(s)
  BY DEF IInv
<1>2. ASSUME NEW s \in Sessions, Uploading(s)
      PROVE  /\ File(s) \in Names /\ All(s) \in Content /\ Exists(File(s))
             /\ wrote[s] \in Nat /\ wrote[s] <= Len(All(s))
             /\ cmd[s].op = "upload" /\ File(s) \in uses[s]
  <2>1. CommandOK(s) /\ OpenOK(s) /\ ApartOK(s)
    BY <1>1
  <2>2. pc[s] \in WriteSteps /\ pc[s] \in UploadSteps
    BY <1>2 DEF Uploading, WriteSteps, UploadSteps
  <2>3. wrote[s] \in Nat
    BY <1>1 DEF TypeOK
  <2>4. File(s) \in Names /\ All(s) \in Content
    BY <1>1, CommandType
  <2> QED BY <2>1, <2>2, <2>3, <2>4 DEF CommandOK, OpenOK, ApartOK
<1>3. ASSUME NEW s \in Sessions, Uploading(s)
      PROVE  CloudFile(File(s)) = SubSeq(All(s), 1, wrote[s])
  <2>1. ASSUME NEW t \in Uploader(File(s)) PROVE t = s
    <3>1. t \in Sessions /\ Uploading(t) /\ File(t) = File(s)
      BY DEF Uploader
    <3> QED BY <1>2, <1>3, <3>1 DEF Apart
  <2>2. s \in Uploader(File(s))
    BY <1>3 DEF Uploader
  <2>3. (CHOOSE t \in Uploader(File(s)) : TRUE) = s
    BY <2>1, <2>2
  <2> QED BY <2>2, <2>3 DEF CloudFile
<1>4. ASSUME NEW n \in Names, \A t \in Sessions : Uploading(t) => File(t) # n
      PROVE  CloudFile(n) = Plain(n)
  <2>1. Uploader(n) = {}
    BY <1>4 DEF Uploader
  <2> QED BY <2>1 DEF CloudFile, Plain
<1>5. ASSUME NEW n \in Names
      PROVE  CloudFile(n) \in Content \cup {Absent} /\ (CloudFile(n) # Absent <=> Exists(n))
  <2>1. Absent \notin Content
    BY SharedAssumption DEF SharedAssumption
  <2>2. CASE \E t \in Sessions : Uploading(t) /\ File(t) = n
    <3>1. PICK t \in Sessions : Uploading(t) /\ File(t) = n
      BY <2>2
    <3>2. SubSeq(All(t), 1, wrote[t]) \in Content
      BY <1>2, <3>1 DEF Content
    <3> QED BY <1>2, <1>3, <2>1, <3>1, <3>2
  <2>3. CASE \A t \in Sessions : Uploading(t) => File(t) # n
    <3>1. Exists(n) => data[dir[n]] \in Content
      BY <1>1 DEF TypeOK, Exists
    <3> QED BY <1>4, <2>1, <2>3, <3>1 DEF Plain
  <2> QED BY <2>2, <2>3
<1>6. ASSUME NEW s \in Sessions, cmd[s].op # "list", ~Uploading(s)
      PROVE  /\ CloudFile(File(s)) = Plain(File(s))
             /\ CloudFile(cmd[s].new) = Plain(cmd[s].new)
  <2>1. /\ File(s) \in uses[s] /\ cmd[s].new \in uses[s]
        /\ File(s) \in Names /\ cmd[s].new \in Names
    BY <1>1, <1>6, CommandType DEF CommandOK
  <2>2. ASSUME NEW t \in Sessions, Uploading(t)
        PROVE  File(t) # File(s) /\ File(t) # cmd[s].new
    BY <1>2, <1>6, <2>1, <2>2 DEF Apart
  <2> QED BY <1>4, <2>1, <2>2
<1> QED BY <1>3, <1>4, <1>5, <1>6 DEF ViewOK

LEMMA ViewHoldsNext == IInv' /\ Apart' => ViewOK'
BY ViewHolds, PTL

-----------------------------------------------------------------------------
(* A name keeps its file when the step neither moves the name, nor writes  *)
(* to the file, nor begins or ends an upload of it.                        *)
LEMMA NameKept ==
    ASSUME IInv, Apart, IInv', NEW s \in Sessions, Keeps(s), server' = server,
           NEW n \in Names, dir'[n] = dir[n],
           dir[n] # Absent => data'[dir[n]] = data[dir[n]],
           Uploading(s) => File(s) # n, Uploading(s)' => File(s)' # n
    PROVE  CloudFile(n)' = CloudFile(n)
<1>1. Apart' /\ ViewOK /\ ViewOK'
  BY ViewHolds, ViewHoldsNext DEF Apart, Keeps
<1>2. \A t \in Sessions \ {s} :
         /\ Uploading(t)' <=> Uploading(t)
         /\ File(t)' = File(t) /\ All(t)' = All(t) /\ wrote'[t] = wrote[t]
  BY DEF Keeps, Uploading, File, All
<1>3. CASE \E t \in Sessions : Uploading(t) /\ File(t) = n
  <2>1. PICK t \in Sessions \ {s} : Uploading(t) /\ File(t) = n
    BY <1>3
  <2>2. CloudFile(n) = SubSeq(All(t), 1, wrote[t])
    BY <1>1, <2>1 DEF ViewOK
  <2>3. Uploading(t)' /\ File(t)' = n
    BY <1>2, <2>1
  <2>4. CloudFile(File(t))' = SubSeq(All(t), 1, wrote[t])'
    BY <1>1, <2>3 DEF ViewOK
  <2>5. CloudFile(n)' = CloudFile(File(t))'
    BY <2>3
  <2> QED BY <1>2, <2>2, <2>4, <2>5
<1>4. CASE \A t \in Sessions : Uploading(t) => File(t) # n
  <2>1. CloudFile(n) = Plain(n)
    BY <1>1, <1>4 DEF ViewOK
  <2>2. \A t \in Sessions : Uploading(t)' => File(t)' # n
    BY <1>2, <1>4
  <2>3. CloudFile(n)' = Plain(n)'
    BY <1>1, <2>2 DEF ViewOK
  <2>4. Plain(n)' = Plain(n)
    BY DEF Plain, Exists
  <2> QED BY <2>1, <2>3, <2>4
<1> QED BY <1>3, <1>4

(* A step that neither touches the disk nor begins or ends an upload.      *)
LEMMA QuietCloud ==
    ASSUME NEW s \in Sessions, Keeps(s), UNCHANGED <<dir, data, server, wrote>>,
           cmd' = cmd, Uploading(s)' <=> Uploading(s)
    PROVE  folder' = folder
<1>1. \A t \in Sessions : Uploading(t)' <=> Uploading(t)
  BY DEF Keeps, Uploading
<1>2. \A t \in Sessions : File(t)' = File(t) /\ All(t)' = All(t) /\ wrote'[t] = wrote[t]
  BY DEF File, All
<1>3. \A n \in Names : Uploader(n)' = Uploader(n)
  BY <1>1, <1>2 DEF Uploader
<1>4. ASSUME NEW n \in Names PROVE CloudFile(n)' = CloudFile(n)
  <2>1. CASE Uploader(n) = {}
    BY <1>3, <2>1 DEF CloudFile, Exists
  <2>2. CASE Uploader(n) # {}
    <3>1. PICK t : t = CHOOSE x \in Uploader(n) : TRUE
      OBVIOUS
    <3>2. t \in Sessions
      BY <2>2, <3>1 DEF Uploader
    <3>3. t = CHOOSE x \in Uploader(n)' : TRUE
      BY <1>3, <3>1
    <3>4. CloudFile(n) = SubSeq(All(t), 1, wrote[t])
      BY <2>2, <3>1 DEF CloudFile
    <3>5. CloudFile(n)' = SubSeq(All(t), 1, wrote[t])'
      BY <1>3, <2>2, <3>3 DEF CloudFile
    <3> QED BY <1>2, <3>2, <3>4, <3>5
  <2> QED BY <2>1, <2>2
<1> QED BY <1>4 DEF folder

(* The step of one session moves that session alone.                       *)
LEMMA StateMoves ==
    ASSUME NEW s \in Sessions, Keeps(s)
    PROVE  /\ state' = [state EXCEPT ![s] = CloudState(s)']
           /\ copies' = [copies EXCEPT ![s] = CloudCopy(s)']
           /\ CloudState(s)' = CloudState(s) => state' = state
           /\ CloudCopy(s)' = CloudCopy(s) => copies' = copies
<1>1. \A t \in Sessions \ {s} : CloudState(t)' = CloudState(t) /\ CloudCopy(t)' = CloudCopy(t)
  BY DEF Keeps, CloudState, CloudCopy
<1> QED BY <1>1 DEF state, copies

LEMMA Stutters ==
    ASSUME folder' = folder, state' = state, copies' = copies,
           UNCHANGED <<cmd, reply, seen, unseen, server>>
    PROVE  UNCHANGED Cloud!cloudVars
BY DEF Cloud!cloudVars, up

LEMMA Moves ==
    ASSUME server = "up", NEW s \in Sessions,
           \/ Cloud!Return(s) \/ Cloud!Ask(s)
           \/ Cloud!RefuseUpload(s) \/ Cloud!StartUpload(s) \/ Cloud!Grow(s)
           \/ Cloud!EndUpload(s) \/ Cloud!BreakUpload(s)
           \/ Cloud!RefuseDownload(s) \/ Cloud!Download(s)
           \/ Cloud!Rename(s) \/ Cloud!Delete(s)
           \/ Cloud!Look(s) \/ Cloud!EndList(s)
    PROVE  Cloud!CloudNext
BY DEF Cloud!CloudNext, up

-----------------------------------------------------------------------------
(* Steps that the abstract folder does not see.                            *)
LEMMA StutterSteps ==
    ASSUME IInv, Apart, NEW s \in Sessions,
           \/ UploadCheck(s) \/ UploadCreate(s) \/ DownloadCheck(s) \/ DownloadSize(s)
           \/ (RenameFrom(s) /\ Exists(File(s))) \/ (RenameTo(s) /\ ~Exists(cmd[s].new))
           \/ (DeleteCheck(s) /\ Exists(File(s)))
    PROVE  UNCHANGED Cloud!cloudVars
<1>1. TypeOK /\ ApartOK(s)
  BY DEF IInv
<1>2. UNCHANGED <<dir, data, cmd, inode, wrote, flushed, copy, seen, unseen, reply, server, uses>>
  BY DEF UploadCheck, UploadCreate, DownloadCheck, DownloadSize, RenameFrom, RenameTo, DeleteCheck
<1>3. /\ \E x \in {"upTaken", "upCreate", "upOpen", "dlSize", "dlOpen", "rnTo", "rnMove",
                   "rmRemove"} : pc' = [pc EXCEPT ![s] = x]
      /\ pc[s] \in {"upload", "upCreate", "download", "dlSize", "rename", "rnTo", "delete"}
  BY <1>1 DEF UploadCheck, UploadCreate, DownloadCheck, DownloadSize, RenameFrom, RenameTo,
     DeleteCheck, At, Goes, ApartOK
<1>4. \A t \in Sessions \ {s} : size'[t] = size[t]
  BY <1>1 DEF TypeOK, UploadCheck, UploadCreate, DownloadCheck, DownloadSize, RenameFrom,
     RenameTo, DeleteCheck
<1>5. Keeps(s) /\ CloudState(s)' = CloudState(s) /\ CloudCopy(s)' = CloudCopy(s)
      /\ ~Uploading(s) /\ ~Uploading(s)'
  BY <1>1, <1>2, <1>3, <1>4 DEF TypeOK, Keeps, CloudState, CloudCopy, Uploading
<1> QED BY <1>2, <1>5, QuietCloud, StateMoves, Stutters

LEMMA ReturnCloud ==
    ASSUME IInv, Apart, NEW s \in Sessions, Return(s)
    PROVE  Cloud!CloudNext
<1>1. /\ TypeOK /\ ApartOK(s) /\ server = "up"
      /\ UNCHANGED <<dir, data, cmd, inode, wrote, flushed, size, copy, seen, unseen, reply,
                     server, uses>>
      /\ pc[s] = "gone" /\ pc' = [pc EXCEPT ![s] = "idle"]
  BY DEF IInv, Return, At, Goes, ApartOK
<1>2. /\ Keeps(s) /\ CloudState(s) = "gone" /\ CloudState(s)' = "idle"
      /\ CloudCopy(s)' = CloudCopy(s) /\ ~Uploading(s) /\ ~Uploading(s)'
  BY <1>1 DEF TypeOK, Keeps, CloudState, CloudCopy, Uploading
<1>3. folder' = folder /\ state' = [state EXCEPT ![s] = "idle"] /\ copies' = copies
      /\ state[s] = "gone"
  BY <1>1, <1>2, QuietCloud, StateMoves DEF state
<1> QED BY <1>1, <1>3, Moves DEF Cloud!Return, up

LEMMA AskCloud ==
    ASSUME IInv, Apart, IInv', NEW s \in Sessions, Ask(s)
    PROVE  Cloud!CloudNext
<1>1. TypeOK /\ OpenOK(s) /\ server = "up" /\ pc[s] = "idle"
  BY DEF IInv, Ask, At
<1>2. /\ UNCHANGED <<dir, data, inode, wrote, flushed, size, server, uses>>
      /\ reply' = [reply EXCEPT ![s] = "none"] /\ copy' = [copy EXCEPT ![s] = <<>>]
      /\ seen' = [seen EXCEPT ![s] = {}]
      /\ unseen' = [unseen EXCEPT ![s] = IF cmd'[s].op = "list" THEN Names ELSE {}]
  BY DEF Ask
<1>3. PICK c \in Commands : cmd' = [cmd EXCEPT ![s] = c] /\ pc' = [pc EXCEPT ![s] = c.op]
  BY DEF Ask, Goes
<1>4. c.op \in {"upload", "download", "list", "rename", "delete"}
  BY DEF Commands
<1>5. /\ Keeps(s) /\ CloudState(s) = "idle" /\ CloudState(s)' = "asked"
      /\ CloudCopy(s)' = <<>> /\ ~Uploading(s) /\ ~Uploading(s)'
  BY <1>1, <1>2, <1>3, <1>4 DEF TypeOK, Keeps, CloudState, CloudCopy, Uploading
<1>6. folder' = folder
  <2>1. \A n \in Names : CloudFile(n)' = CloudFile(n)
    BY <1>2, <1>5, NameKept
  <2> QED BY <2>1 DEF folder
<1>7. /\ state' = [state EXCEPT ![s] = "asked"] /\ copies' = [copies EXCEPT ![s] = <<>>]
      /\ state[s] = "idle"
  BY <1>5, StateMoves DEF state
<1>8. Cloud!Ask(s)
  <2>1. \E d \in Cloud!Commands : cmd' = [cmd EXCEPT ![s] = d]
    BY <1>3 DEF Commands, Cloud!Commands
  <2> QED BY <1>2, <1>6, <1>7, <2>1 DEF Cloud!Ask, up
<1> QED BY <1>1, <1>8, Moves

-----------------------------------------------------------------------------
LEMMA UploadTakenCloud ==
    ASSUME IInv, Apart, NEW s \in Sessions, UploadTaken(s)
    PROVE  Cloud!CloudNext
<1>1. /\ TypeOK /\ CommandOK(s) /\ ApartOK(s) /\ server = "up" /\ pc[s] = "upTaken"
      /\ UNCHANGED <<dir, data, cmd, inode, wrote, flushed, size, copy, seen, unseen,
                     server, uses>>
      /\ Exists(File(s)) /\ pc' = [pc EXCEPT ![s] = "idle"]
      /\ reply' = [reply EXCEPT ![s] = "exists"]
  BY DEF IInv, UploadTaken, At, Goes, Answers, ApartOK
<1>2. /\ Keeps(s) /\ CloudState(s) = "asked" /\ CloudState(s)' = "idle"
      /\ CloudCopy(s)' = CloudCopy(s) /\ ~Uploading(s) /\ ~Uploading(s)'
  BY <1>1 DEF TypeOK, Keeps, CloudState, CloudCopy, Uploading
<1>3. folder' = folder /\ state' = [state EXCEPT ![s] = "idle"] /\ copies' = copies
      /\ state[s] = "asked" /\ cmd[s].op = "upload"
  BY <1>1, <1>2, QuietCloud, StateMoves DEF state, CommandOK, UploadSteps
<1>4. folder[cmd[s].file] # Absent
  BY <1>1, CommandType, ViewHolds DEF ViewOK, File, folder
<1>5. Cloud!RefuseUpload(s)
  BY <1>1, <1>3, <1>4 DEF Cloud!RefuseUpload, Cloud!Asked, Cloud!Stored, Cloud!Answer, up
<1> QED BY <1>1, <1>5, Moves

LEMMA UploadOpenCloud ==
    ASSUME IInv, Apart, IInv', NEW s \in Sessions, UploadOpen(s)
    PROVE  Cloud!CloudNext
<1>1. /\ TypeOK /\ CommandOK(s) /\ OpenOK(s) /\ ApartOK(s) /\ server = "up"
      /\ pc[s] = "upOpen" /\ ~Exists(File(s)) /\ File(s) \in Names
      /\ UNCHANGED <<cmd, wrote, flushed, size, copy, seen, unseen, reply, server, uses>>
  BY CommandType DEF IInv, UploadOpen, At, ApartOK
<1>2. PICK i \in Free :
         /\ dir' = [dir EXCEPT ![File(s)] = i] /\ data' = [data EXCEPT ![i] = <<>>]
         /\ pc' = [pc EXCEPT ![s] = "upWrite"] /\ inode' = [inode EXCEPT ![s] = i]
  BY <1>1 DEF UploadOpen, NextFree, Goes
<1>3. /\ Keeps(s) /\ CloudState(s) = "asked" /\ CloudState(s)' = "uploading"
      /\ CloudCopy(s)' = CloudCopy(s) /\ ~Uploading(s) /\ Uploading(s)'
  BY <1>1, <1>2 DEF TypeOK, Keeps, CloudState, CloudCopy, Uploading
<1>4. ASSUME NEW n \in Names \ {File(s)} PROVE CloudFile(n)' = CloudFile(n)
  <2>1. i # dir[n] /\ dir'[n] = dir[n] /\ File(s)' = File(s)
    BY <1>1, <1>2 DEF Free, TypeOK, File
  <2>2. dir[n] # Absent => data'[dir[n]] = data[dir[n]]
    BY <1>1, <1>2, <2>1 DEF TypeOK
  <2> QED BY <1>1, <1>3, <2>1, <2>2, NameKept
<1>5. CloudFile(File(s))' = <<>>
  <2>1. ViewOK'
    BY <1>3, ViewHoldsNext DEF Apart, Keeps
  <2>2. CloudFile(File(s))' = SubSeq(All(s), 1, wrote[s])'
    BY <1>3, <2>1 DEF ViewOK
  <2>3. All(s)' = All(s) /\ wrote'[s] = 0 /\ All(s) \in Seq(Chunks)
    BY <1>1, CommandType DEF All, File, OpenOK, WriteSteps
  <2> QED BY <2>2, <2>3
<1>6. folder' = [folder EXCEPT ![cmd[s].file] = <<>>]
  BY <1>1, <1>4, <1>5 DEF folder, File
<1>7. state' = [state EXCEPT ![s] = "uploading"] /\ copies' = copies
      /\ state[s] = "asked" /\ cmd[s].op = "upload"
  BY <1>1, <1>3, StateMoves DEF state, CommandOK, UploadSteps
<1>8. folder[cmd[s].file] = Absent
  BY <1>1, ViewHolds DEF ViewOK, File, folder
<1>9. Cloud!StartUpload(s)
  BY <1>1, <1>6, <1>7, <1>8 DEF Cloud!StartUpload, Cloud!Asked, Cloud!Stored, up
<1> QED BY <1>1, <1>9, Moves

(* What is written to the file of an upload is in no other name's file.    *)
LEMMA EmptiedOthers ==
    ASSUME IInv, Apart, NEW s \in Sessions, pc[s] \in WriteSteps, NEW k \in Nat, Emptied(s, k),
           NEW n \in Names \ {File(s)}, dir[n] # Absent
    PROVE  data'[dir[n]] = data[dir[n]]
<1>1. TypeOK /\ ApartOK(s) /\ dir \in OneNameEach /\ File(s) \in Names
  BY CommandType DEF IInv
<1>2. dir[File(s)] = inode[s] /\ Exists(File(s))
  BY <1>1 DEF ApartOK
<1>3. dir[n] # inode[s]
  BY <1>1, <1>2 DEF OneNameEach, Exists
<1>4. dir[n] \in Inodes
  BY <1>1 DEF TypeOK
<1> QED BY <1>1, <1>3, <1>4 DEF TypeOK, Emptied

LEMMA UploadWriteCloud ==
    ASSUME IInv, Apart, IInv', NEW s \in Sessions, UploadWrite(s)
    PROVE  Cloud!CloudNext
<1>1. /\ TypeOK /\ OpenOK(s) /\ ApartOK(s) /\ server = "up" /\ pc[s] = "upWrite"
      /\ File(s) \in Names /\ All(s) \in Content /\ wrote[s] \in Nat
      /\ wrote[s] < Len(All(s)) /\ wrote' = [wrote EXCEPT ![s] = wrote[s] + 1]
      /\ UNCHANGED <<dir, pc, cmd, inode, size, copy, seen, unseen, reply, server, uses>>
  BY CommandType DEF IInv, UploadWrite, At, TypeOK
<1>2. /\ Keeps(s) /\ CloudState(s) = "uploading" /\ CloudState(s)' = CloudState(s)
      /\ CloudCopy(s)' = CloudCopy(s) /\ Uploading(s) /\ Uploading(s)'
  <2>1. \A t \in Sessions \ {s} : flushed'[t] = flushed[t]
    BY <1>1 DEF TypeOK, UploadWrite
  <2> QED BY <1>1, <2>1 DEF TypeOK, Keeps, CloudState, CloudCopy, Uploading
<1>3. ASSUME NEW n \in Names \ {File(s)} PROVE CloudFile(n)' = CloudFile(n)
  <2>1. dir[n] # Absent => data'[dir[n]] = data[dir[n]]
    BY <1>1, EmptiedOthers DEF UploadWrite, WriteSteps
  <2>2. dir'[n] = dir[n] /\ File(s)' = File(s)
    BY <1>1 DEF File
  <2> QED BY <1>1, <1>2, <2>1, <2>2, NameKept
<1>4. PICK all \in Content, w \in Nat : all = All(s) /\ w = wrote[s]
  BY <1>1
<1>5. CloudFile(File(s)) = SubSeq(all, 1, w) /\ CloudFile(File(s))' = SubSeq(all, 1, w + 1)
  <2>1. ViewOK /\ ViewOK'
    BY <1>2, ViewHolds, ViewHoldsNext DEF Apart, Keeps
  <2>2. CloudFile(File(s))' = SubSeq(All(s), 1, wrote[s])'
    BY <1>2, <2>1 DEF ViewOK
  <2>3. All(s)' = All(s) /\ wrote'[s] = w + 1
    BY <1>1, <1>4 DEF All, File, TypeOK
  <2> QED BY <1>2, <1>4, <2>1, <2>2, <2>3 DEF ViewOK
<1>6. /\ folder' = [folder EXCEPT ![cmd[s].file] = SubSeq(all, 1, w + 1)]
      /\ folder[cmd[s].file] = SubSeq(all, 1, w)
  BY <1>1, <1>3, <1>5 DEF folder, File
<1>7. state' = state /\ copies' = copies /\ state[s] = "uploading"
  BY <1>2, StateMoves DEF state
<1>8. Cloud!Longer(SubSeq(all, 1, w + 1), SubSeq(all, 1, w)) /\ w + 1 \in 1..Len(all)
  <2>1. w + 1 \in 1..Len(all)
    BY <1>1, <1>4 DEF Content
  <2>2. /\ Len(SubSeq(all, 1, w)) = w /\ Len(SubSeq(all, 1, w + 1)) = w + 1
        /\ SubSeq(SubSeq(all, 1, w + 1), 1, w) = SubSeq(all, 1, w)
    BY <2>1 DEF Content
  <2> QED BY <2>1, <2>2 DEF Cloud!Longer
<1>9. Cloud!Grow(s)
  BY <1>1, <1>4, <1>6, <1>7, <1>8 DEF Cloud!Grow, All, File, up
<1> QED BY <1>1, <1>9, Moves

LEMMA UploadVerdictCloud ==
    ASSUME IInv, Apart, NEW s \in Sessions, UploadVerdict(s)
    PROVE  Cloud!CloudNext
<1>1. /\ TypeOK /\ server = "up" /\ pc[s] = "upWrite" /\ wrote[s] = Len(All(s))
      /\ UNCHANGED <<dir, data, cmd, inode, wrote, flushed, size, copy, seen, unseen,
                     server, uses>>
      /\ pc' = [pc EXCEPT ![s] = "upClose"] /\ reply' = [reply EXCEPT ![s] = "uploaded"]
  BY DEF IInv, UploadVerdict, At, Goes
<1>2. /\ Keeps(s) /\ CloudState(s) = "uploading" /\ CloudState(s)' = "idle"
      /\ CloudCopy(s)' = CloudCopy(s) /\ Uploading(s) /\ Uploading(s)'
  BY <1>1 DEF TypeOK, Keeps, CloudState, CloudCopy, Uploading
<1>3. folder' = folder /\ state' = [state EXCEPT ![s] = "idle"] /\ copies' = copies
      /\ state[s] = "uploading"
  BY <1>1, <1>2, QuietCloud, StateMoves DEF state
<1>4. folder[cmd[s].file] = Local[s][cmd[s].file]
  <2>1. CloudFile(File(s)) = SubSeq(All(s), 1, Len(All(s)))
    BY <1>1, <1>2, ViewHolds DEF ViewOK
  <2>2. File(s) \in Names /\ All(s) \in Seq(Chunks)
    BY <1>1, CommandType
  <2> QED BY <2>1, <2>2 DEF folder, File, All
<1>5. Cloud!EndUpload(s)
  BY <1>1, <1>3, <1>4 DEF Cloud!EndUpload, Cloud!Answer, up
<1> QED BY <1>1, <1>5, Moves

LEMMA UploadBreaksCloud ==
    ASSUME IInv, Apart, NEW s \in Sessions, UploadBreaks(s)
    PROVE  Cloud!CloudNext
<1>1. /\ TypeOK /\ server = "up" /\ pc[s] = "upWrite"
      /\ UNCHANGED <<dir, data, cmd, inode, wrote, flushed, size, copy, seen, unseen, reply,
                     server, uses>>
      /\ pc' = [pc EXCEPT ![s] = "upLost"]
  BY DEF IInv, UploadBreaks, At, Goes
<1>2. /\ Keeps(s) /\ CloudState(s) = "uploading" /\ CloudState(s)' = "gone"
      /\ CloudCopy(s)' = CloudCopy(s) /\ Uploading(s) /\ Uploading(s)'
  BY <1>1 DEF TypeOK, Keeps, CloudState, CloudCopy, Uploading
<1>3. folder' = folder /\ state' = [state EXCEPT ![s] = "gone"] /\ copies' = copies
      /\ state[s] = "uploading"
  BY <1>1, <1>2, QuietCloud, StateMoves DEF state
<1>4. Cloud!BreakUpload(s)
  BY <1>1, <1>3 DEF Cloud!BreakUpload, up
<1> QED BY <1>1, <1>4, Moves

(* Closing the file leaves on the disk what the abstract folder has.       *)
LEMMA UploadCloseCloud ==
    ASSUME IInv, Apart, IInv', NEW s \in Sessions, UploadClose(s)
    PROVE  UNCHANGED Cloud!cloudVars
<1>1. /\ TypeOK /\ CommandOK(s) /\ OpenOK(s) /\ ApartOK(s) /\ server = "up"
      /\ pc[s] \in {"upClose", "upLost"} /\ Emptied(s, wrote[s])
      /\ wrote' = [wrote EXCEPT ![s] = 0] /\ flushed' = [flushed EXCEPT ![s] = 0]
      /\ inode' = [inode EXCEPT ![s] = Absent]
      /\ pc' = [pc EXCEPT ![s] = IF pc[s] = "upLost" THEN "gone" ELSE "idle"]
      /\ UNCHANGED <<dir, cmd, size, copy, seen, unseen, reply, server, uses>>
  BY DEF IInv, UploadClose, At, Goes
<1>2. /\ Keeps(s) /\ CloudState(s)' = CloudState(s)
      /\ CloudCopy(s)' = CloudCopy(s) /\ Uploading(s) /\ ~Uploading(s)'
  BY <1>1 DEF TypeOK, Keeps, CloudState, CloudCopy, Uploading
<1>3. /\ File(s) \in Names /\ wrote[s] \in Nat /\ pc[s] \in WriteSteps
      /\ flushed[s] <= wrote[s] /\ wrote[s] <= Len(All(s))
      /\ Exists(File(s)) /\ dir[File(s)] = inode[s]
      /\ cmd[s].op = "upload" /\ File(s)' = File(s)
  BY <1>1, CommandType DEF TypeOK, OpenOK, ApartOK, CommandOK, WriteSteps, UploadSteps, File
<1>4. ASSUME NEW n \in Names \ {File(s)} PROVE CloudFile(n)' = CloudFile(n)
  BY <1>1, <1>2, <1>3, EmptiedOthers, NameKept
<1>5. CloudFile(File(s))' = CloudFile(File(s))
  <2>1. ViewOK /\ ViewOK'
    BY <1>2, ViewHolds, ViewHoldsNext DEF Apart, Keeps
  <2>2. CloudFile(File(s)) = SubSeq(All(s), 1, wrote[s])
    BY <1>2, <2>1 DEF ViewOK
  <2>3. cmd'[s].op # "list"
    BY <1>1, <1>3
  <2>4. CloudFile(File(s))' = Plain(File(s))'
    BY <1>2, <2>1, <2>3 DEF ViewOK
  <2>5. Plain(File(s))' = data'[inode[s]]
    BY <1>1, <1>3 DEF Plain, Exists
  <2>6. data'[inode[s]] = SubSeq(All(s), 1, wrote[s])
    BY <1>1, <1>3, EmptiedFacts
  <2> QED BY <2>2, <2>4, <2>5, <2>6
<1>6. folder' = folder
  <2>1. \A n \in Names : CloudFile(n)' = CloudFile(n)
    BY <1>3, <1>4, <1>5
  <2> QED BY <2>1 DEF folder
<1> QED BY <1>1, <1>2, <1>6, StateMoves, Stutters

-----------------------------------------------------------------------------
(* The abstract server ends, and cuts off what was not in the files yet.   *)
LEMMA CrashCloud ==
    ASSUME IInv, Apart, IInv', NEW s \in Sessions, pc[s] = "download", ~Exists(File(s)),
           server = "up", server' = "aborted",
           UNCHANGED <<dir, data, pc, cmd, inode, wrote, copy, seen, unseen, reply, uses>>
    PROVE  Cloud!CloudNext
<1>1. /\ TypeOK /\ CommandOK(s) /\ File(s) \in Names /\ cmd[s].op = "download"
      /\ ViewOK /\ ViewOK'
  BY CommandType, ViewHolds, ViewHoldsNext DEF IInv, CommandOK, DownloadSteps, Apart
<1>2. state' = state /\ copies' = copies /\ state[s] = "asked"
  BY DEF state, copies, CloudState, CloudCopy
<1>3. folder[cmd[s].file] = Absent
  BY <1>1 DEF ViewOK, folder, File
<1>4. folder' \in [Names -> Content \cup {Absent}]
  BY <1>1 DEF ViewOK, folder
<1>5. ASSUME NEW n \in Names, CloudFile(n)' # CloudFile(n)
      PROVE  /\ Cloud!Longer(CloudFile(n), CloudFile(n)')
             /\ \E t \in Sessions : cmd[t].op = "upload" /\ cmd[t].file = n
  <2>1. \A t \in Sessions : ~Uploading(t)'
    BY DEF Uploading
  <2>2. CloudFile(n)' = Plain(n)' /\ Plain(n)' = Plain(n)
    BY <1>1, <2>1 DEF ViewOK, Plain, Exists
  <2>3. PICK t \in Sessions : Uploading(t) /\ File(t) = n
    BY <1>1, <1>5, <2>2 DEF ViewOK
  <2>4. /\ CommandOK(t) /\ OpenOK(t) /\ ApartOK(t) /\ pc[t] \in WriteSteps
        /\ All(t) \in Content /\ wrote[t] \in Nat /\ flushed[t] \in Nat
    BY <1>1, <2>3, CommandType DEF IInv, TypeOK, Uploading, WriteSteps
  <2>5. /\ cmd[t].op = "upload"
        /\ CloudFile(n) = SubSeq(All(t), 1, wrote[t])
        /\ Plain(n) = SubSeq(All(t), 1, flushed[t])
        /\ flushed[t] <= wrote[t] /\ wrote[t] <= Len(All(t))
    BY <1>1, <2>3, <2>4 DEF CommandOK, OpenOK, ApartOK, ViewOK, Plain, Exists, WriteSteps,
       UploadSteps
  <2>6. PICK all \in Content, w \in Nat, f \in Nat :
           all = All(t) /\ w = wrote[t] /\ f = flushed[t]
    BY <2>4
  <2>7. f # w /\ f < w
    BY <1>5, <2>2, <2>5, <2>6
  <2>8. Cloud!Longer(SubSeq(all, 1, w), SubSeq(all, 1, f))
    <3>1. f < w /\ w <= Len(all)
      BY <2>5, <2>6, <2>7
    <3>2. /\ all \in Seq(Bytes) /\ w \in 0..Len(all) /\ f \in 0..Len(all)
      BY <3>1 DEF Content
    <3>3. /\ Len(SubSeq(all, 1, w)) = w /\ Len(SubSeq(all, 1, f)) = f
          /\ SubSeq(SubSeq(all, 1, w), 1, f) = SubSeq(all, 1, f)
      BY <3>1, <3>2
    <3> QED BY <3>1, <3>3 DEF Cloud!Longer
  <2> QED BY <2>2, <2>3, <2>5, <2>6, <2>8 DEF File
<1>6. \A n \in Names : folder'[n] # folder[n] =>
          /\ Cloud!Longer(folder[n], folder'[n])
          /\ \E t \in Sessions : cmd[t].op = "upload" /\ cmd[t].file = n
  BY <1>5 DEF folder
<1>7. Cloud!Crash
  BY <1>1, <1>2, <1>3, <1>4, <1>6
     DEF Cloud!Crash, Cloud!Asked, Cloud!Stored, Cloud!Content, Content, up
<1> QED BY <1>7 DEF Cloud!CloudNext, up

LEMMA DownloadMissingCloud ==
    ASSUME IInv, Apart, IInv', NEW s \in Sessions, DownloadMissing(s)
    PROVE  Cloud!CloudNext
<1>1. /\ TypeOK /\ CommandOK(s) /\ ApartOK(s) /\ server = "up"
      /\ pc[s] = "download" /\ ~Exists(File(s)) /\ File(s) \in Names
      /\ UNCHANGED <<dir, data, cmd, inode, wrote, flushed, size, copy, seen, unseen, uses>>
  BY CommandType DEF IInv, DownloadMissing, At, ApartOK
<1>2. CASE Answers(s, "notOnCloud") /\ UNCHANGED server
  <2>1. /\ pc' = [pc EXCEPT ![s] = "idle"] /\ reply' = [reply EXCEPT ![s] = "notOnCloud"]
        /\ server' = server
    BY <1>2 DEF Answers, Goes
  <2>2. /\ Keeps(s) /\ CloudState(s) = "asked" /\ CloudState(s)' = "idle"
        /\ CloudCopy(s)' = CloudCopy(s) /\ ~Uploading(s) /\ ~Uploading(s)'
    BY <1>1, <2>1 DEF TypeOK, Keeps, CloudState, CloudCopy, Uploading
  <2>3. folder' = folder /\ state' = [state EXCEPT ![s] = "idle"] /\ copies' = copies
        /\ state[s] = "asked" /\ cmd[s].op = "download"
    BY <1>1, <2>1, <2>2, QuietCloud, StateMoves DEF state, CommandOK, DownloadSteps
  <2>4. folder[cmd[s].file] = Absent
    BY <1>1, ViewHolds DEF ViewOK, File, folder
  <2>5. Cloud!RefuseDownload(s)
    BY <1>1, <2>1, <2>3, <2>4 DEF Cloud!RefuseDownload, Cloud!Asked, Cloud!Answer, up
  <2> QED BY <1>1, <2>5, Moves
<1>3. CASE server' = "aborted" /\ UNCHANGED <<pc, reply>>
  BY <1>1, <1>3, CrashCloud
<1> QED BY <1>2, <1>3 DEF DownloadMissing

LEMMA DownloadOpenCloud ==
    ASSUME IInv, Apart, NEW s \in Sessions, DownloadOpen(s)
    PROVE  Cloud!CloudNext \/ UNCHANGED Cloud!cloudVars
<1>1. /\ TypeOK /\ CommandOK(s) /\ OpenOK(s) /\ ApartOK(s) /\ server = "up"
      /\ pc[s] = "dlOpen" /\ Exists(File(s)) /\ File(s) \in Names /\ copy[s] = <<>>
      /\ size[s] = Len(data[dir[File(s)]])
      /\ UNCHANGED <<dir, data, cmd, wrote, flushed, size, copy, seen, unseen, uses>>
  BY CommandType DEF IInv, DownloadOpen, At, OpenOK, ApartOK
<1>2. CASE /\ size[s] = 0 /\ Answers(s, "notOnCloud") /\ UNCHANGED <<inode, server>>
  <2>1. /\ pc' = [pc EXCEPT ![s] = "idle"] /\ reply' = [reply EXCEPT ![s] = "notOnCloud"]
        /\ server' = server /\ inode' = inode
    BY <1>2 DEF Answers, Goes
  <2>2. /\ Keeps(s) /\ CloudState(s) = "asked" /\ CloudState(s)' = "idle"
        /\ CloudCopy(s)' = CloudCopy(s) /\ ~Uploading(s) /\ ~Uploading(s)'
    BY <1>1, <2>1 DEF TypeOK, Keeps, CloudState, CloudCopy, Uploading
  <2>3. folder' = folder /\ state' = [state EXCEPT ![s] = "idle"] /\ copies' = copies
        /\ state[s] = "asked" /\ cmd[s].op = "download"
    BY <1>1, <2>1, <2>2, QuietCloud, StateMoves DEF state, CommandOK, DownloadSteps
  <2>4. folder[cmd[s].file] = <<>>
    <3>1. data[dir[File(s)]] \in Seq(Bytes)
      BY <1>1 DEF TypeOK, Exists, Content
    <3>2. data[dir[File(s)]] = <<>>
      <4>1. PICK content \in Seq(Bytes) : content = data[dir[File(s)]]
        BY <3>1
      <4>2. Len(content) = 0
        BY <1>1, <1>2, <4>1
      <4>3. content = <<>>
        BY <4>2
      <4> QED BY <4>1, <4>3
    <3>3. CloudFile(File(s)) = Plain(File(s))
      BY <2>2, <2>3, ViewHolds DEF ViewOK
    <3> QED BY <1>1, <3>2, <3>3 DEF folder, File, Plain
  <2>5. Cloud!RefuseDownload(s)
    BY <1>1, <2>1, <2>3, <2>4 DEF Cloud!RefuseDownload, Cloud!Asked, Cloud!Answer, up
  <2> QED BY <1>1, <2>5, Moves
<1>3. CASE /\ inode' = [inode EXCEPT ![s] = dir[File(s)]] /\ Goes(s, "dlRead")
           /\ UNCHANGED <<reply, server>>
  <2>1. pc' = [pc EXCEPT ![s] = "dlRead"]
    BY <1>3 DEF Goes
  <2>2. /\ Keeps(s) /\ CloudState(s)' = CloudState(s) /\ CloudCopy(s)' = CloudCopy(s)
        /\ ~Uploading(s) /\ ~Uploading(s)'
    BY <1>1, <1>3, <2>1 DEF TypeOK, Keeps, CloudState, CloudCopy, Uploading
  <2> QED BY <1>1, <1>3, <2>2, QuietCloud, StateMoves, Stutters
<1> QED BY <1>1, <1>2, <1>3 DEF DownloadOpen

LEMMA DownloadReadCloud ==
    ASSUME IInv, Apart, NEW s \in Sessions, DownloadRead(s)
    PROVE  Cloud!CloudNext \/ UNCHANGED Cloud!cloudVars
<1>1. /\ TypeOK /\ CommandOK(s) /\ OpenOK(s) /\ ApartOK(s) /\ server = "up"
      /\ pc[s] = "dlRead" /\ Exists(File(s)) /\ File(s) \in Names
      /\ dir[File(s)] = inode[s] /\ Len(copy[s]) < size[s]
      /\ size[s] = Len(data[inode[s]]) /\ data[inode[s]] \in Seq(Bytes)
      /\ UNCHANGED <<dir, data, cmd, wrote, flushed, seen, unseen, uses>>
      /\ size[s] \in Nat /\ Len(copy[s]) \in Nat
  BY CommandType, ReadFacts DEF IInv, DownloadRead, At, OpenOK, ApartOK, Content
<1>2. PICK k \in Len(copy[s]) + 1..size[s] :
         /\ copy' = [copy EXCEPT ![s] = copy[s] \o SubSeq(data[inode[s]], Len(copy[s]) + 1, k)]
         /\ copy'[s] = SubSeq(data[inode[s]], 1, k)
         /\ \/ /\ k = size[s] /\ Answers(s, "downloaded")
               /\ inode' = [inode EXCEPT ![s] = Absent]
               /\ size' = [size EXCEPT ![s] = 0]
            \/ k # size[s] /\ UNCHANGED <<pc, reply, inode, size>>
         /\ server' = server
  <2>1. ~(Len(data[inode[s]]) <= Len(copy[s]))
    BY <1>1
  <2> QED BY <2>1, ReadFacts
<1>3. \A t \in Sessions \ {s} : copy'[t] = copy[t]
  BY <1>1, <1>2 DEF TypeOK
<1>4. CASE k = size[s]
  <2>1. /\ pc' = [pc EXCEPT ![s] = "idle"] /\ reply' = [reply EXCEPT ![s] = "downloaded"]
        /\ inode' = [inode EXCEPT ![s] = Absent] /\ size' = [size EXCEPT ![s] = 0]
        /\ server' = server
    BY <1>2, <1>4 DEF Answers, Goes
  <2>2. copy'[s] = data[inode[s]] /\ data[inode[s]] # <<>>
    <3>1. PICK content \in Seq(Bytes) : content = data[inode[s]]
      BY <1>1
    <3>2. /\ copy'[s] = SubSeq(content, 1, Len(content)) /\ Len(content) > 0
      BY <1>1, <1>2, <1>4, <3>1
    <3>3. SubSeq(content, 1, Len(content)) = content
      OBVIOUS
    <3> QED BY <3>1, <3>2, <3>3
  <2>3. /\ Keeps(s) /\ CloudState(s) = "asked" /\ CloudState(s)' = "idle"
        /\ CloudCopy(s)' = data[inode[s]] /\ ~Uploading(s) /\ ~Uploading(s)'
    BY <1>1, <1>3, <2>1, <2>2 DEF TypeOK, Keeps, CloudState, CloudCopy, Uploading
  <2>4. /\ folder' = folder /\ state' = [state EXCEPT ![s] = "idle"]
        /\ copies' = [copies EXCEPT ![s] = data[inode[s]]]
        /\ state[s] = "asked" /\ cmd[s].op = "download"
    BY <1>1, <2>1, <2>3, QuietCloud, StateMoves DEF state, CommandOK, DownloadSteps
  <2>5. folder[cmd[s].file] = data[inode[s]] /\ data[inode[s]] # Absent
    <3>1. CloudFile(File(s)) = Plain(File(s))
      BY <2>3, <2>4, ViewHolds DEF ViewOK
    <3>2. data[inode[s]] # Absent
      BY <1>1, SharedAssumption DEF SharedAssumption, Content
    <3> QED BY <1>1, <3>1, <3>2 DEF folder, File, Plain
  <2>6. Cloud!Download(s)
    BY <1>1, <2>1, <2>2, <2>4, <2>5 DEF Cloud!Download, Cloud!Asked, Cloud!Answer, up
  <2> QED BY <1>1, <2>6, Moves
<1>5. CASE k # size[s]
  <2>1. UNCHANGED <<pc, reply, inode, size, server>>
    BY <1>2, <1>5
  <2>2. /\ Keeps(s) /\ CloudState(s)' = CloudState(s) /\ CloudCopy(s)' = CloudCopy(s)
        /\ ~Uploading(s) /\ ~Uploading(s)'
    BY <1>1, <1>3, <2>1 DEF TypeOK, Keeps, CloudState, CloudCopy, Uploading
  <2> QED BY <1>1, <2>1, <2>2, QuietCloud, StateMoves, Stutters
<1> QED BY <1>4, <1>5

-----------------------------------------------------------------------------
(* A command that is answered with the disk as it is.                      *)
LEMMA AnswerCloud ==
    ASSUME IInv, Apart, NEW s \in Sessions, NEW outcome, Answers(s, outcome), At(s, pc[s]),
           pc[s] \in DownloadSteps \cup RenameSteps \cup DeleteSteps \cup {"list"},
           pc[s] # "dlRead",
           UNCHANGED <<dir, data, cmd, inode, wrote, flushed, size, copy, server, uses>>
    PROVE  /\ folder' = folder /\ copies' = copies /\ state[s] = "asked" /\ server = "up"
           /\ state' = [state EXCEPT ![s] = "idle"]
           /\ reply' = [reply EXCEPT ![s] = outcome]
           /\ ~Uploading(s)
<1>1. TypeOK /\ server = "up" /\ pc' = [pc EXCEPT ![s] = "idle"]
      /\ reply' = [reply EXCEPT ![s] = outcome]
  BY DEF IInv, Answers, Goes, At
<1>2. /\ Keeps(s) /\ CloudState(s) = "asked" /\ CloudState(s)' = "idle"
      /\ CloudCopy(s)' = CloudCopy(s) /\ ~Uploading(s) /\ ~Uploading(s)'
  BY <1>1 DEF TypeOK, Keeps, CloudState, CloudCopy, Uploading, DownloadSteps, RenameSteps,
     DeleteSteps
<1> QED BY <1>1, <1>2, QuietCloud, StateMoves DEF state

LEMMA RenameRefused ==
    ASSUME IInv, Apart, NEW s \in Sessions,
           \/ RenameFrom(s) /\ ~Exists(File(s))
           \/ RenameTo(s) /\ Exists(cmd[s].new)
    PROVE  Cloud!CloudNext
<1>1. /\ TypeOK /\ CommandOK(s) /\ ApartOK(s) /\ pc[s] \in RenameSteps
      /\ File(s) \in Names /\ cmd[s].new \in Names /\ cmd[s].op = "rename"
  BY CommandType DEF IInv, RenameFrom, RenameTo, At, CommandOK, RenameSteps
<1>2. \A n \in Names : folder[n] # Absent <=> Exists(n)
  BY ViewHolds DEF ViewOK, folder
<1>3. \E outcome \in {"renameMissing", "renameFailed"} :
         /\ Answers(s, outcome) /\ At(s, pc[s])
         /\ outcome = "renameMissing" => ~Exists(File(s))
         /\ outcome = "renameFailed" => Exists(File(s)) /\ Exists(cmd[s].new)
         /\ UNCHANGED <<dir, data, cmd, inode, wrote, flushed, size, copy, seen, unseen,
                        server, uses>>
  BY <1>1 DEF RenameFrom, RenameTo, At, ApartOK
<1>4. PICK outcome \in {"renameMissing", "renameFailed"} :
         /\ Answers(s, outcome) /\ At(s, pc[s])
         /\ outcome = "renameMissing" => ~Exists(File(s))
         /\ outcome = "renameFailed" => Exists(File(s)) /\ Exists(cmd[s].new)
         /\ UNCHANGED <<dir, data, cmd, inode, wrote, flushed, size, copy, seen, unseen,
                        server, uses>>
  BY <1>3
<1>5. /\ folder' = folder /\ copies' = copies /\ state[s] = "asked" /\ server = "up"
      /\ state' = [state EXCEPT ![s] = "idle"] /\ reply' = [reply EXCEPT ![s] = outcome]
  BY <1>1, <1>4, AnswerCloud DEF RenameSteps
<1>6. Cloud!Rename(s)
  BY <1>1, <1>2, <1>4, <1>5
     DEF Cloud!Rename, Cloud!Asked, Cloud!Stored, Cloud!Answer, File, up
<1> QED BY <1>5, <1>6, Moves

LEMMA RenameMoveCloud ==
    ASSUME IInv, Apart, IInv', NEW s \in Sessions, RenameMove(s)
    PROVE  Cloud!CloudNext
<1>1. /\ TypeOK /\ CommandOK(s) /\ ApartOK(s) /\ server = "up" /\ pc[s] = "rnMove"
      /\ File(s) \in Names /\ cmd[s].new \in Names /\ cmd[s].op = "rename"
      /\ Exists(File(s)) /\ ~Exists(cmd[s].new) /\ File(s) # cmd[s].new
      /\ dir' = [dir EXCEPT ![File(s)] = Absent, ![cmd[s].new] = dir[File(s)]]
      /\ pc' = [pc EXCEPT ![s] = "idle"] /\ reply' = [reply EXCEPT ![s] = "renamed"]
      /\ UNCHANGED <<data, cmd, inode, wrote, flushed, size, copy, seen, unseen, server, uses>>
  BY CommandType DEF IInv, RenameMove, At, Answers, Goes, ApartOK, CommandOK, RenameSteps
<1>2. /\ Keeps(s) /\ CloudState(s) = "asked" /\ CloudState(s)' = "idle"
      /\ CloudCopy(s)' = CloudCopy(s) /\ ~Uploading(s) /\ ~Uploading(s)'
  BY <1>1 DEF TypeOK, Keeps, CloudState, CloudCopy, Uploading
<1>3. /\ state' = [state EXCEPT ![s] = "idle"] /\ copies' = copies /\ state[s] = "asked"
  BY <1>2, StateMoves DEF state
<1>4. ViewOK /\ ViewOK' /\ cmd'[s].op # "list"
  BY <1>1, <1>2, ViewHolds, ViewHoldsNext DEF Apart, Keeps
<1>5. /\ dir'[File(s)] = Absent /\ dir'[cmd[s].new] = dir[File(s)]
      /\ \A n \in Names \ {File(s), cmd[s].new} : dir'[n] = dir[n]
  BY <1>1 DEF TypeOK
<1>6. \A n \in Names \ {File(s), cmd[s].new} : CloudFile(n)' = CloudFile(n)
  BY <1>1, <1>2, <1>5, NameKept
<1>7. /\ CloudFile(File(s))' = Absent
      /\ CloudFile(cmd[s].new)' = CloudFile(File(s))
  <2>1. /\ CloudFile(File(s)) = Plain(File(s))
        /\ CloudFile(File(s))' = Plain(File(s))'
        /\ CloudFile(cmd[s].new)' = Plain(cmd[s].new)'
    BY <1>1, <1>2, <1>4 DEF ViewOK
  <2>2. /\ Plain(File(s))' = Absent
        /\ Plain(cmd[s].new)' = Plain(File(s))
    BY <1>1, <1>5 DEF Plain, Exists, File
  <2> QED BY <2>1, <2>2
<1>8. folder' = [folder EXCEPT ![cmd[s].file] = Absent, ![cmd[s].new] = folder[cmd[s].file]]
  <2>1. File(s)' = File(s) /\ cmd'[s].new = cmd[s].new /\ File(s) = cmd[s].file
    BY <1>1 DEF File
  <2>2. /\ folder'[File(s)] = Absent /\ folder'[cmd[s].new] = folder[File(s)]
        /\ \A n \in Names \ {File(s), cmd[s].new} : folder'[n] = folder[n]
    BY <1>1, <1>6, <1>7, <2>1 DEF folder
  <2>3. DOMAIN folder' = Names /\ DOMAIN folder = Names
        /\ folder' = [n \in Names |-> folder'[n]] /\ folder = [n \in Names |-> folder[n]]
    BY DEF folder
  <2> QED BY <1>1, <2>1, <2>2, <2>3
<1>9. folder[cmd[s].file] # Absent /\ folder[cmd[s].new] = Absent
  BY <1>1, <1>4 DEF ViewOK, folder, File
<1>10. Cloud!Rename(s)
  BY <1>1, <1>3, <1>8, <1>9 DEF Cloud!Rename, Cloud!Asked, Cloud!Stored, Cloud!Answer, up
<1> QED BY <1>1, <1>10, Moves

LEMMA DeleteMissingCloud ==
    ASSUME IInv, Apart, NEW s \in Sessions, DeleteCheck(s), ~Exists(File(s))
    PROVE  Cloud!CloudNext
<1>1. /\ CommandOK(s) /\ pc[s] = "delete" /\ At(s, pc[s]) /\ File(s) \in Names
      /\ cmd[s].op = "delete" /\ Answers(s, "deleteMissing")
      /\ UNCHANGED <<dir, data, cmd, inode, wrote, flushed, size, copy, seen, unseen,
                     server, uses>>
  BY CommandType DEF IInv, DeleteCheck, At, CommandOK, DeleteSteps
<1>2. /\ folder' = folder /\ copies' = copies /\ state[s] = "asked" /\ server = "up"
      /\ state' = [state EXCEPT ![s] = "idle"]
      /\ reply' = [reply EXCEPT ![s] = "deleteMissing"]
  BY <1>1, AnswerCloud DEF DeleteSteps
<1>3. folder[cmd[s].file] = Absent /\ folder' = [folder EXCEPT ![cmd[s].file] = Absent]
  BY <1>1, <1>2, ViewHolds DEF ViewOK, folder, File
<1>4. Cloud!Delete(s)
  BY <1>1, <1>2, <1>3 DEF Cloud!Delete, Cloud!Asked, Cloud!Stored, Cloud!Answer, up
<1> QED BY <1>2, <1>4, Moves

LEMMA DeleteRemoveCloud ==
    ASSUME IInv, Apart, IInv', NEW s \in Sessions, DeleteRemove(s)
    PROVE  Cloud!CloudNext
<1>1. /\ TypeOK /\ CommandOK(s) /\ ApartOK(s) /\ server = "up" /\ pc[s] = "rmRemove"
      /\ File(s) \in Names /\ cmd[s].op = "delete" /\ Exists(File(s))
      /\ dir' = [dir EXCEPT ![File(s)] = Absent]
      /\ pc' = [pc EXCEPT ![s] = "idle"] /\ reply' = [reply EXCEPT ![s] = "deleted"]
      /\ UNCHANGED <<data, cmd, inode, wrote, flushed, size, copy, seen, unseen, server, uses>>
  BY CommandType DEF IInv, DeleteRemove, At, Answers, Goes, ApartOK, CommandOK, DeleteSteps
<1>2. /\ Keeps(s) /\ CloudState(s) = "asked" /\ CloudState(s)' = "idle"
      /\ CloudCopy(s)' = CloudCopy(s) /\ ~Uploading(s) /\ ~Uploading(s)'
  BY <1>1 DEF TypeOK, Keeps, CloudState, CloudCopy, Uploading
<1>3. /\ state' = [state EXCEPT ![s] = "idle"] /\ copies' = copies /\ state[s] = "asked"
  BY <1>2, StateMoves DEF state
<1>4. ViewOK /\ ViewOK'
  BY <1>2, ViewHolds, ViewHoldsNext DEF Apart, Keeps
<1>5. dir'[File(s)] = Absent /\ \A n \in Names \ {File(s)} : dir'[n] = dir[n]
  BY <1>1 DEF TypeOK
<1>6. \A n \in Names \ {File(s)} : CloudFile(n)' = CloudFile(n)
  BY <1>1, <1>2, <1>5, NameKept
<1>7. CloudFile(File(s))' = Absent
  <2>1. CloudFile(File(s))' = Plain(File(s))'
    BY <1>1, <1>2, <1>4 DEF ViewOK
  <2> QED BY <1>1, <1>5, <2>1 DEF Plain, Exists, File
<1>8. folder' = [folder EXCEPT ![cmd[s].file] = Absent] /\ folder[cmd[s].file] # Absent
  BY <1>1, <1>4, <1>6, <1>7 DEF ViewOK, folder, File
<1>9. Cloud!Delete(s)
  BY <1>1, <1>3, <1>8 DEF Cloud!Delete, Cloud!Asked, Cloud!Stored, Cloud!Answer, up
<1> QED BY <1>1, <1>9, Moves

LEMMA ListLookCloud ==
    ASSUME IInv, Apart, NEW s \in Sessions, ListLook(s)
    PROVE  Cloud!CloudNext
<1>1. /\ TypeOK /\ CommandOK(s) /\ server = "up" /\ pc[s] = "list" /\ cmd[s].op = "list"
      /\ UNCHANGED <<dir, data, pc, cmd, inode, wrote, flushed, size, copy, reply, server, uses>>
  BY DEF IInv, ListLook, At, CommandOK
<1>2. /\ Keeps(s) /\ CloudState(s) = "asked" /\ CloudState(s)' = CloudState(s)
      /\ CloudCopy(s)' = CloudCopy(s) /\ ~Uploading(s) /\ ~Uploading(s)'
  BY <1>1 DEF Keeps, CloudState, CloudCopy, Uploading
<1>3. folder' = folder /\ state' = state /\ copies' = copies /\ state[s] = "asked"
  BY <1>1, <1>2, QuietCloud, StateMoves DEF state
<1>4. \A n \in Names : folder[n] # Absent <=> Exists(n)
  BY ViewHolds DEF ViewOK, folder
<1>5. PICK n \in unseen[s] :
         /\ unseen' = [unseen EXCEPT ![s] = @ \ {n}]
         /\ seen' = [seen EXCEPT ![s] = IF Exists(n) THEN @ \cup {n} ELSE @]
  BY DEF ListLook
<1>6. n \in Names
  BY <1>1, <1>5 DEF TypeOK
<1>7. seen' = [seen EXCEPT ![s] = IF folder[n] # Absent THEN @ \cup {n} ELSE @]
  BY <1>4, <1>5, <1>6
<1>8. Cloud!Look(s)
  BY <1>1, <1>3, <1>5, <1>7 DEF Cloud!Look, Cloud!Asked, Cloud!Stored, up
<1> QED BY <1>1, <1>8, Moves

LEMMA ListEndCloud ==
    ASSUME IInv, Apart, NEW s \in Sessions, ListEnd(s)
    PROVE  Cloud!CloudNext
<1>1. /\ CommandOK(s) /\ pc[s] = "list" /\ At(s, pc[s]) /\ cmd[s].op = "list"
      /\ unseen[s] = {} /\ Answers(s, "listed")
      /\ UNCHANGED <<dir, data, cmd, inode, wrote, flushed, size, copy, seen, unseen,
                     server, uses>>
  BY DEF IInv, ListEnd, At, CommandOK
<1>2. /\ folder' = folder /\ copies' = copies /\ state[s] = "asked" /\ server = "up"
      /\ state' = [state EXCEPT ![s] = "idle"] /\ reply' = [reply EXCEPT ![s] = "listed"]
  BY <1>1, AnswerCloud
<1>3. Cloud!EndList(s)
  BY <1>1, <1>2 DEF Cloud!EndList, Cloud!Asked, Cloud!Answer, up
<1> QED BY <1>2, <1>3, Moves

-----------------------------------------------------------------------------
LEMMA StepCloud ==
    ASSUME IInv, Apart, IInv', [Next]_vars
    PROVE  [Cloud!CloudNext]_(Cloud!cloudVars)
<1>1. CASE UNCHANGED vars
  <2>1. folder' = folder /\ state' = state /\ copies' = copies
    BY <1>1 DEF vars, folder, state, copies, CloudFile, CloudState, CloudCopy, Uploader,
       Uploading, Exists, File, All
  <2> QED BY <1>1, <2>1, Stutters DEF vars
<1>2. ASSUME NEW s \in Sessions, ClientStep(s) PROVE Cloud!CloudNext
  BY <1>2, ReturnCloud, AskCloud, UploadBreaksCloud DEF ClientStep
<1>3. ASSUME NEW s \in Sessions, WorkerStep(s)
      PROVE  Cloud!CloudNext \/ UNCHANGED Cloud!cloudVars
  BY <1>3, StutterSteps, UploadTakenCloud, UploadOpenCloud, UploadWriteCloud,
     UploadVerdictCloud, UploadCloseCloud, DownloadMissingCloud, DownloadOpenCloud,
     DownloadReadCloud, RenameRefused, RenameMoveCloud, DeleteMissingCloud,
     DeleteRemoveCloud, ListLookCloud, ListEndCloud DEF WorkerStep
<1> QED BY <1>1, <1>2, <1>3 DEF Next

LEMMA InitCloud == IInv /\ Init /\ Apart => Cloud!CloudInit
<1> SUFFICES ASSUME IInv, Init, Apart PROVE Cloud!CloudInit
  OBVIOUS
<1>1. folder \in [Names -> Content \cup {Absent}] /\ cmd \in [Sessions -> Commands]
  BY ViewHolds DEF ViewOK, folder, IInv, TypeOK
<1>2. state = [s \in Sessions |-> "idle"] /\ copies = [s \in Sessions |-> <<>>]
  BY DEF Init, state, copies, CloudState, CloudCopy
<1> QED BY <1>1, <1>2 DEF Init, Cloud!CloudInit, Cloud!Content, Cloud!Commands, Content,
        Commands, up

(* Sessions that use different names of the same folder are served as      *)
(* module CloudFolder says, however the system calls of their workers in   *)
(* worker.cpp and file.cpp interleave.                                     *)
THEOREM SharedFolderImplements == Spec => Implements
<1>1. IInv /\ IInv' /\ [Next]_vars => (Apart => [Cloud!CloudNext]_(Cloud!cloudVars))
  BY StepCloud
<1>2. Init => (Apart => Cloud!CloudInit)
  BY InitInv, InitCloud
<1> QED BY <1>1, <1>2, InvAlways, PTL DEF Spec, Implements
=============================================================================
